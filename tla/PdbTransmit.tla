----------------------------- MODULE PdbTransmit -----------------------------
(***************************************************************************)
(* What the power board gets to hear (pdb_link.c, transmit side).          *)
(* PlantTask keeps two request latches up to date while it dispatches      *)
(* images (plant_command.c); HostTask builds a command frame from them     *)
(* and, with UART4_TX_PACE_BYTES, hands the UART one byte per service      *)
(* call; the transmit interrupt moves on to the next byte.                 *)
(***************************************************************************)
EXTENDS Naturals, Sequences

CONSTANTS
  TxPeriodMs,   \* PDB_TX_PERIOD_MS
  FrameBytes,   \* PDB_FRAME_BYTES
  McuStates,    \* mcu_state the host may command
  Verdicts      \* kill states pdb_link_kill_state may return

KillType == {"NORMAL", "SOFT_REQ", "SOFT_READY", "HARD_ESTOP"}

ASSUME TransmitAssumption ==
  /\ {TxPeriodMs, FrameBytes} \subseteq Nat \ {0}
  /\ McuStates \subseteq {"NORMAL", "RECOVERY", "ESTOP"} /\ Verdicts \subseteq KillType

VARIABLES
  wireBytes,  \* bytes of the command frame the board is receiving
  seen,       \* the last command frame the board received whole
  txActive, txBusy, txIdx, txFrame, txSeq,  \* the paced transmit
  txAge,      \* ms since s_last_tx_ms
  estopReq, killReq,    \* s_estop_requested, s_kill_request
  hostPc,     \* HostTask: "rest" until the next tick, "tx" or "probe"
  staged,     \* mcu_state of the image PlantTask takes next, or "none"
  plantPc, image        \* PlantTask: program point, mcu_state being dispatched

boardVars == <<wireBytes, seen>>
txVars    == <<txActive, txBusy, txIdx, txFrame, txSeq, txAge>>
reqVars   == <<estopReq, killReq>>
plantVars == <<staged, plantPc, image>>
linkVars == <<boardVars, txVars, reqVars, hostPc, plantVars>>

(* seq stands for s_tx_seq and s_tx_heartbeat, which tell frames apart. *)
Command == [seq: 0..1, estop: BOOLEAN, kill: {"NORMAL", "SOFT_READY"}]
Reset   == [seq |-> 0, estop |-> FALSE, kill |-> "NORMAL"]

TxTypeOK ==
  /\ wireBytes \in Seq([idx: 0..(FrameBytes - 1), cmd: Command])
  /\ Len(wireBytes) < FrameBytes /\ seen \in Command
  /\ txActive \in BOOLEAN /\ txBusy \in BOOLEAN /\ txIdx \in 0..FrameBytes
  /\ txFrame \in Command /\ txSeq \in 0..1 /\ txAge \in 0..TxPeriodMs
  /\ estopReq \in BOOLEAN /\ killReq \in {"NORMAL", "SOFT_READY"}
  /\ hostPc \in {"tx", "rest", "probe"} /\ plantPc \in {"lap", "park", "ask"}
  /\ staged \in McuStates \cup {"none"} /\ image \in McuStates \cup {"none"}

(* pdb_link_init: s_last_tx_ms = 0 lets the first frame out at once. *)
TxInit ==
  /\ wireBytes = <<>> /\ seen = Reset
  /\ txActive = FALSE /\ txBusy = FALSE /\ txIdx = 0 /\ txFrame = Reset
  /\ txSeq = 0 /\ txAge = TxPeriodMs
  /\ estopReq = FALSE /\ killReq = "NORMAL"
  /\ hostPc = "rest" /\ staged = "none" /\ plantPc = "lap" /\ image = "none"

-----------------------------------------------------------------------------
(* The wall clock and the host. *)

Older(n) == IF n < TxPeriodMs THEN n + 1 ELSE n

(* HostTask's osDelay(1) ends with the tick. *)
Tick ==
  /\ txAge' = Older(txAge)
  /\ hostPc' = IF hostPc = "rest" THEN "tx" ELSE hostPc
  /\ UNCHANGED <<boardVars, txActive, txBusy, txIdx, txFrame, txSeq, reqVars, plantVars>>

(* A later image replaces one PlantTask has not taken (see PlantGate). *)
HostCommands ==
  /\ staged' \in McuStates \ {staged}
  /\ UNCHANGED <<boardVars, txVars, reqVars, hostPc, plantPc, image>>

-----------------------------------------------------------------------------
(* HostTask: bench probes hold the link service up. *)

ProbeStarts ==
  /\ hostPc = "tx" /\ hostPc' = "probe"
  /\ UNCHANGED <<boardVars, txVars, reqVars, plantVars>>

ProbeEnds ==
  /\ hostPc = "probe" /\ hostPc' = "tx"
  /\ UNCHANGED <<boardVars, txVars, reqVars, plantVars>>

BuildsFrameMutated(ok) ==   \* the period alone decides: a frame is cut short
  /\ hostPc = "tx" /\ hostPc' = "rest"
  /\ txAge = TxPeriodMs /\ txAge' = 0
  /\ txFrame' = [seq |-> txSeq, estop |-> estopReq, kill |-> killReq]
  /\ txSeq' = 1 - txSeq /\ txIdx' = 0 /\ txActive' = TRUE /\ txBusy' = ok
  /\ UNCHANGED <<boardVars, reqVars, plantVars>>

(* pdb_service_tx: a new frame only once the last has gone out and the     *)
(* period is over.  HAL may refuse its first byte (~ok).                   *)
BuildsFrame(ok) ==
  /\ hostPc = "tx" /\ hostPc' = "rest"
  /\ ~txActive /\ txAge = TxPeriodMs /\ txAge' = 0
  /\ txFrame' = [seq |-> txSeq, estop |-> estopReq, kill |-> killReq]
  /\ txSeq' = 1 - txSeq /\ txIdx' = 0 /\ txActive' = TRUE /\ txBusy' = ok
  /\ UNCHANGED <<boardVars, reqVars, plantVars>>

(* pdb_tx_kick_byte: the next byte, or again the one HAL refused. *)
KicksByte(ok) ==
  /\ hostPc = "tx" /\ hostPc' = "rest"
  /\ txActive /\ ~txBusy /\ txBusy' = ok
  /\ UNCHANGED <<boardVars, txActive, txIdx, txFrame, txSeq, txAge, reqVars, plantVars>>

NothingToSend ==
  /\ hostPc = "tx" /\ hostPc' = "rest"
  /\ IF txActive THEN txBusy ELSE txAge < TxPeriodMs
  /\ UNCHANGED <<boardVars, txVars, reqVars, plantVars>>

(* The board keeps the bytes on the wire until it has a frame. *)
BoardHears(byte) ==
  LET got == Append(wireBytes, byte) IN
  IF Len(got) < FrameBytes
  THEN wireBytes' = got /\ UNCHANGED seen
  ELSE wireBytes' = <<>> /\ seen' = byte.cmd

ByteSentMutated ==   \* the index wraps and the frame is never over
  /\ txBusy /\ txBusy' = FALSE
  /\ txIdx' = (txIdx + 1) % FrameBytes /\ UNCHANGED txActive
  /\ BoardHears([idx |-> txIdx, cmd |-> txFrame])
  /\ UNCHANGED <<txFrame, txSeq, txAge, reqVars, hostPc, plantVars>>

(* HAL_UART_TxCpltCallback: the byte is on the wire. *)
ByteSent ==
  /\ txBusy /\ txBusy' = FALSE
  /\ txIdx' = txIdx + 1 /\ txActive' = (txIdx' < FrameBytes)
  /\ BoardHears([idx |-> txIdx, cmd |-> txFrame])
  /\ UNCHANGED <<txFrame, txSeq, txAge, reqVars, hostPc, plantVars>>

-----------------------------------------------------------------------------
(* PlantTask: plant_command_image_dispatch_plant. *)

LatchesMutated ==   \* the latch is set below the early return of a park
  /\ plantPc = "lap" /\ staged # "none"
  /\ image' = staged /\ staged' = "none"
  /\ estopReq' = (staged # "NORMAL" /\ estopReq)
  /\ plantPc' = IF staged = "NORMAL" THEN "ask" ELSE "park"
  /\ UNCHANGED <<boardVars, txVars, killReq, hostPc>>

(* The ESTOP request follows the image, both ways. *)
Latches ==
  /\ plantPc = "lap" /\ staged # "none"
  /\ image' = staged /\ staged' = "none"
  /\ estopReq' = (staged = "ESTOP")
  /\ plantPc' = IF staged = "NORMAL" THEN "ask" ELSE "park"
  /\ UNCHANGED <<boardVars, txVars, killReq, hostPc>>

(* plant_recovery_all takes its time on the CAN buses (see PlantGate). *)
Parks ==
  /\ plantPc = "park" /\ plantPc' = "ask"
  /\ UNCHANGED <<boardVars, txVars, reqVars, hostPc, staged, image>>

(* After a park READY is raised if the board asks for a soft kill; a       *)
(* control image takes it back once the board reports NORMAL.              *)
Answers ==
  /\ plantPc = "ask" /\ plantPc' = "lap" /\ image' = "none"
  /\ \E kill \in Verdicts :
       killReq' = CASE image # "NORMAL" /\ kill = "SOFT_REQ" -> "SOFT_READY"
                    [] image = "NORMAL" /\ kill = "NORMAL" -> "NORMAL"
                    [] OTHER -> killReq
  /\ UNCHANGED <<boardVars, txVars, estopReq, hostPc, staged>>

-----------------------------------------------------------------------------
Sends(ok) == BuildsFrame(ok) \/ KicksByte(ok)
PlantTask == Latches \/ Parks \/ Answers

TxNext ==
  \/ Tick \/ HostCommands
  \/ ProbeStarts \/ ProbeEnds \/ NothingToSend \/ ByteSent
  \/ \E ok \in BOOLEAN : Sends(ok)
  \/ PlantTask

(* Time passes, PlantTask gets the processor, HostTask is not in probes    *)
(* for ever, bytes leave the UART and HAL does not refuse for ever.        *)
TxSpec ==
  /\ TxInit /\ [][TxNext]_linkVars
  /\ WF_linkVars(Tick) /\ WF_linkVars(PlantTask) /\ WF_linkVars(ProbeEnds)
  /\ SF_linkVars(NothingToSend) /\ SF_linkVars(Sends(TRUE)) /\ WF_linkVars(ByteSent)

-----------------------------------------------------------------------------
(* The board never gets bytes of two commands in one frame: latches change *)
(* and periods pass while a frame takes FrameBytes services to go out.     *)
CommandWhole ==
  \A i \in DOMAIN wireBytes :
    wireBytes[i] = [idx |-> i - 1, cmd |-> wireBytes[1].cmd]

(* Requests PlantTask holds on to reach the board, ESTOP latch and answer  *)
(* together, whatever the frames in flight said when they were built.      *)
RequestsReachBoard ==
  \A e \in BOOLEAN, k \in {"NORMAL", "SOFT_READY"} :
    <>[](estopReq = e /\ killReq = k) => <>[](seen.estop = e /\ seen.kill = k)

(* An ESTOP image gets through to the board, unless the host goes on to    *)
(* command something else.                                                 *)
EstopReachesBoard ==
  [](staged = "ESTOP" => <>(seen.estop \/ staged \notin {"ESTOP", "none"}))

(* What the board has of a frame is what the paced transmit has counted:   *)
(* no byte is handed to the UART outside a frame, the index is where the   *)
(* board is, and the image under transmission is not rebuilt meanwhile.    *)
PaceInv ==
  /\ txBusy => txActive
  /\ txActive => txIdx < FrameBytes
  /\ Len(wireBytes) = IF txActive THEN txIdx ELSE 0
  /\ \A i \in 1..Len(wireBytes) : wireBytes[i] = [idx |-> i - 1, cmd |-> txFrame]
TxIInv == TxTypeOK /\ PaceInv
=============================================================================
