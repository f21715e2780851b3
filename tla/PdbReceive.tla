------------------------------ MODULE PdbReceive ------------------------------
(***************************************************************************)
(* What the controls firmware makes of the feedback of the power board     *)
(* (pdb_link.c, receive side).  The UART4 interrupt fills a ring; HostTask *)
(* consumes it about once a millisecond, and not at all while it is inside *)
(* a bench probe; PlantTask evaluates the kill state and its reason into   *)
(* the feedback the host sees.  Frames are whole here: RxFraming is about  *)
(* bytes.                                                                  *)
(***************************************************************************)
EXTENDS Naturals, Sequences

CONSTANTS
  StaleMs,      \* PDB_STALE_MS
  RingFrames,   \* feedback frames the receive ring holds
  PeerKills     \* kill states the board may report

KillType == {"NORMAL", "SOFT_REQ", "SOFT_READY", "HARD_ESTOP"}

ASSUME ReceiveAssumption ==
  /\ {StaleMs, RingFrames} \subseteq Nat \ {0}
  /\ PeerKills \subseteq KillType /\ PeerKills # {}

VARIABLES
  ring,       \* receive ring: feedback frames, oldest first
  fb, synced, rxAge,    \* s_last_valid_fb, s_ever_synced, ms since s_last_rx_ms
  hostPc,     \* HostTask: "rx", "rest" until the next tick, or "probe"
  plantPc,    \* PlantTask: "state" or "reason" is evaluated next
  verdict,    \* the kill state it has just evaluated
  mirror      \* kill_state and kill_reason in the feedback sent last

rxVars == <<ring, fb, synced, rxAge>>
vars   == <<rxVars, hostPc, plantPc, verdict, mirror>>

Garbage  == [kill |-> "garbage"]   \* fails magic, version or CRC
(* The peer's kill state and whether its V/I readings break                *)
(* pdb_vi_limits.h.                                                        *)
Feedback == [kill: PeerKills \cup {"NORMAL"}, vi: BOOLEAN]
Verdict  == [state: KillType, reason: {"NONE", "PEER", "VI", "COMMS_LOSS"}]
HardLost == [state |-> "HARD_ESTOP", reason |-> "COMMS_LOSS"]

TypeOK ==
  /\ ring \in Seq(Feedback \cup {Garbage}) /\ Len(ring) <= RingFrames
  /\ fb \in Feedback /\ synced \in BOOLEAN /\ rxAge \in 0..(StaleMs + 1)
  /\ hostPc \in {"rx", "rest", "probe"} /\ plantPc \in {"state", "reason"}
  /\ verdict \in KillType /\ mirror \in Verdict

(* pdb_link_init: the frame buffer is zero and nothing was heard. *)
Init ==
  /\ ring = <<>> /\ synced = FALSE /\ rxAge = StaleMs + 1
  /\ fb = [kill |-> "NORMAL", vi |-> FALSE]
  /\ hostPc = "rest" /\ plantPc = "state" /\ verdict = "HARD_ESTOP"
  /\ mirror = HardLost

-----------------------------------------------------------------------------
(* The board and the wall clock.  A full ring drops the newest frame.      *)

GoodArrives ==
  /\ Len(ring) < RingFrames
  /\ \E k \in PeerKills, v \in BOOLEAN :
       ring' = Append(ring, [kill |-> k, vi |-> v])
  /\ UNCHANGED <<fb, synced, rxAge, hostPc, plantPc, verdict, mirror>>

GarbageArrives ==
  /\ Len(ring) < RingFrames
  /\ ring' = Append(ring, Garbage)
  /\ UNCHANGED <<fb, synced, rxAge, hostPc, plantPc, verdict, mirror>>

Older(n) == IF n <= StaleMs THEN n + 1 ELSE n

(* Every age past StaleMs is the same to the code; the wrap of the 32-bit  *)
(* tick, 49.7 days after the last frame, is left out.                      *)
Tick ==
  /\ rxAge' = Older(rxAge)
  /\ hostPc' = IF hostPc = "rest" THEN "rx" ELSE hostPc
  /\ UNCHANGED <<ring, fb, synced, plantPc, verdict, mirror>>

-----------------------------------------------------------------------------
(* HostTask.  plant_diag_service comes before pdb_link_service in the loop *)
(* of app_host_service, so a probe holds the link up.                      *)

ProbeStarts ==
  /\ hostPc = "rx" /\ hostPc' = "probe"
  /\ UNCHANGED <<rxVars, plantPc, verdict, mirror>>

ProbeEnds ==
  /\ hostPc = "probe" /\ hostPc' = "rx"
  /\ UNCHANGED <<rxVars, plantPc, verdict, mirror>>

(* pdb_rx_consume_ready: only a valid frame is copied and stamped, with    *)
(* the time of its consumption.                                            *)
Receives ==
  /\ hostPc = "rx" /\ ring # <<>>
  /\ ring' = Tail(ring)
  /\ IF Head(ring) = Garbage
     THEN UNCHANGED <<fb, synced, rxAge>>
     ELSE fb' = Head(ring) /\ synced' = TRUE /\ rxAge' = 0
  /\ UNCHANGED <<hostPc, plantPc, verdict, mirror>>

Drained ==
  /\ hostPc = "rx" /\ ring = <<>> /\ hostPc' = "rest"
  /\ UNCHANGED <<rxVars, plantPc, verdict, mirror>>

-----------------------------------------------------------------------------
(* PlantTask. *)

StaleMutated == synced /\ rxAge > StaleMs   \* a board never heard is fresh
Stale == ~synced \/ rxAge > StaleMs

(* pdb_link_eval_kill: one locked snapshot.  A stale link is HARD; the     *)
(* peer's word counts when it is not NORMAL; V/I limits come last.         *)
Eval ==
  IF Stale THEN HardLost
  ELSE IF fb.kill # "NORMAL" THEN [state |-> fb.kill, reason |-> "PEER"]
  ELSE IF fb.vi THEN [state |-> "SOFT_REQ", reason |-> "VI"]
  ELSE [state |-> "NORMAL", reason |-> "NONE"]

(* host_feedback_fill_system evaluates twice: once for the state, once for *)
(* the reason.                                                             *)
FillsState ==
  /\ plantPc = "state" /\ plantPc' = "reason"
  /\ verdict' = Eval.state
  /\ UNCHANGED <<rxVars, hostPc, mirror>>

FillsReason ==
  /\ plantPc = "reason" /\ plantPc' = "state"
  /\ mirror' = [state |-> verdict, reason |-> Eval.reason]
  /\ UNCHANGED <<rxVars, hostPc, verdict>>

HostTask  == Receives \/ Drained
PlantTask == FillsState \/ FillsReason
Next == GoodArrives \/ GarbageArrives \/ Tick \/ ProbeStarts \/ ProbeEnds
          \/ HostTask \/ PlantTask

(* Time passes, both tasks get the processor, and HostTask neither stays   *)
(* in a probe for ever nor goes from probe to probe.  Nothing is asked of  *)
(* the board.                                                              *)
Spec ==
  /\ Init /\ [][Next]_vars
  /\ WF_vars(Tick) /\ WF_vars(PlantTask) /\ WF_vars(ProbeEnds) /\ SF_vars(HostTask)

-----------------------------------------------------------------------------
(* Once the board is silent, or sends nothing that passes the CRC, the     *)
(* firmware and the host come to see HARD_ESTOP and stay with it: old      *)
(* frames still in the ring and garbage do not put it off for ever.        *)
SilenceIsHard ==
  <>[][~GoodArrives]_vars => <>[](Eval = HardLost /\ mirror = HardLost)

=============================================================================
