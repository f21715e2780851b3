------------------------------- MODULE SoftKill -------------------------------
(***************************************************************************)
(* Stopping the machine end to end: the threads of the host SDK that share *)
(* one Connection (link/connection.py, controls_pcb_hub.py, host_proxy.py),*)
(* the dispatch of the firmware (plant_command.c) and the power board,     *)
(* known from docs/pdb-uart-v1.md.                                         *)
(*                                                                         *)
(* An API call, like a round of the stream loop, is a sequence of critical *)
(* sections; the other thread gets in between any two of them.  PlantGate  *)
(* shows what happens inside a dispatch, PdbReceive and PdbTransmit what   *)
(* the links do: here an image, a report and a request are each the newest *)
(* of their kind.                                                          *)
(***************************************************************************)
EXTENDS Naturals, Sequences

CONSTANTS
  RearmNeedsNormal, \* the board re-arms only on a kill request of NORMAL
  PlainCalls,       \* API calls the operator's thread makes
  HeedingCalls      \* ... when the host heeds the board (listen_pdu)

ASSUME SoftKillAssumption ==
  /\ RearmNeedsNormal \in BOOLEAN
  /\ PlainCalls \cup HeedingCalls \subseteq {"park", "recover", "arm", "disarm", "move"}

VARIABLES
  listen,    \* HostProxy.listen_pdu, decided when the proxy is opened
  held,      \* Connection._mcu_state, _plant_apply, any desire in _desires
  todo,      \* critical sections each thread still has to go through
  snapshot,  \* the image each thread has built last
  call,      \* the API call made last
  wire,      \* the image the firmware takes next, or None
  driving,   \* the motors follow a desire
  applied,   \* plant_apply readback of the firmware
  estopReq, killReq,   \* what the firmware asks of the board
  board,     \* kill state of the board
  reported   \* kill state in the newest feedback of the host

hostVars  == <<held, todo, snapshot, call>>
fwVars    == <<driving, applied, estopReq, killReq>>
vars      == <<listen, hostVars, wire, fwVars, board, reported>>

Thread   == {"stream", "api"}
KillType == {"NORMAL", "SOFT_REQ", "HARD_ESTOP"}
Image    == [mcu: {"NORMAL", "RECOVERY", "ESTOP"}, apply: BOOLEAN, motion: BOOLEAN]
None     == [mcu |-> "none", apply |-> FALSE, motion |-> FALSE]
Sections == {"blank", "motion", "NORMAL", "RECOVERY", "ESTOP", "arm", "disarm",
             "ask", "build", "write"}

Send == <<"build", "write">>   \* Connection.send_once

(* soft_kill_park, recover, arm_plant and disarm_plant, set_actuator with  *)
(* send=False.                                                             *)
Call == [
  park    |-> <<"blank", "ESTOP">> \o Send \o Send,
  recover |-> <<"RECOVERY">> \o Send \o <<"NORMAL">> \o Send \o <<"arm">> \o Send,
  arm     |-> <<"NORMAL", "arm", "ask">> \o Send,
  disarm  |-> <<"NORMAL", "disarm", "ask">> \o Send,
  move    |-> <<"motion">> ]

Freeze == <<"NORMAL", "arm">>   \* soft_kill_freeze(send=False)

TypeOK ==
  /\ listen \in BOOLEAN /\ held \in Image
  /\ snapshot \in [Thread -> Image \cup {None}] /\ wire \in Image \cup {None}
  /\ todo \in [Thread -> Seq(Sections)]
  /\ \A t \in Thread : snapshot[t] # None <=> todo[t] # <<>> /\ Head(todo[t]) = "write"
  /\ call \in PlainCalls \cup HeedingCalls \cup {"none"}
  /\ {driving, applied, estopReq} \subseteq BOOLEAN /\ killReq \in {"NORMAL", "SOFT_READY"}
  /\ {board, reported} \subseteq KillType

Init ==
  /\ listen \in BOOLEAN
  /\ held = [mcu |-> "NORMAL", apply |-> TRUE, motion |-> FALSE]
  /\ todo = [t \in Thread |-> <<>>] /\ snapshot = [t \in Thread |-> None]
  /\ call = "none" /\ wire = None
  /\ driving = FALSE /\ applied = FALSE /\ estopReq = FALSE /\ killReq = "NORMAL"
  /\ board = "NORMAL" /\ reported = "HARD_ESTOP"

-----------------------------------------------------------------------------
(* The host. *)

StreamRound ==   \* one turn of _stream_loop: hook, send_once, sleep
  /\ todo["stream"] = <<>>
  /\ todo' = [todo EXCEPT !["stream"] = <<"ask">> \o Send]
  /\ UNCHANGED <<listen, held, snapshot, call, wire, fwVars, board, reported>>

Calls == IF listen THEN HeedingCalls ELSE PlainCalls

ApiCalls(c) ==
  /\ todo["api"] = <<>>
  /\ todo' = [todo EXCEPT !["api"] = Call[c]] /\ call' = c
  /\ UNCHANGED <<listen, held, snapshot, wire, fwVars, board, reported>>

At(t, section) == todo[t] # <<>> /\ Head(todo[t]) = section
Done(t) == todo' = [todo EXCEPT ![t] = Tail(@)]

Moves(t, section, motion) ==   \* set_actuators: blank desires, or not
  /\ At(t, section) /\ Done(t)
  /\ held' = [held EXCEPT !.motion = motion]
  /\ UNCHANGED <<listen, snapshot, call, wire, fwVars, board, reported>>

SetsStateMutated(t, mcu) ==   \* RECOVERY keeps the held desires
  /\ At(t, mcu) /\ Done(t)
  /\ held' = [held EXCEPT !.mcu = mcu, !.motion = @ /\ mcu # "ESTOP"]
  /\ UNCHANGED <<listen, snapshot, call, wire, fwVars, board, reported>>

(* set_mcu_state: RECOVERY and ESTOP also clear the held desires. *)
SetsState(t, mcu) ==
  /\ At(t, mcu) /\ Done(t)
  /\ held' = [held EXCEPT !.mcu = mcu, !.motion = @ /\ mcu = "NORMAL"]
  /\ UNCHANGED <<listen, snapshot, call, wire, fwVars, board, reported>>

SetsApplyMutated(t, section, on) ==   \* one switch only: it can arm, not disarm
  /\ At(t, section) /\ Done(t)
  /\ held' = [held EXCEPT !.apply = @ \/ on]
  /\ UNCHANGED <<listen, snapshot, call, wire, fwVars, board, reported>>

SetsApply(t, section, on) ==   \* set_plant_apply
  /\ At(t, section) /\ Done(t)
  /\ held' = [held EXCEPT !.apply = on]
  /\ UNCHANGED <<listen, snapshot, call, wire, fwVars, board, reported>>

(* soft_kill_park_if_requested: reads the newest feedback, then freezes.   *)
(* Its twin for bad V/I does the same for a peer that reports NORMAL.      *)
Asks(t) ==
  /\ At(t, "ask")
  /\ IF listen /\ reported = "SOFT_REQ"
     THEN todo' = [todo EXCEPT ![t] = Freeze \o Tail(@)]
     ELSE Done(t)
  /\ UNCHANGED <<listen, held, snapshot, call, wire, fwVars, board, reported>>

Builds(t) ==   \* build_command, under _state_lock
  /\ At(t, "build") /\ Done(t)
  /\ snapshot' = [snapshot EXCEPT ![t] = held]
  /\ UNCHANGED <<listen, held, call, wire, fwVars, board, reported>>

Writes(t) ==   \* write_raw, under _write_lock
  /\ At(t, "write") /\ Done(t)
  /\ wire' = snapshot[t] /\ snapshot' = [snapshot EXCEPT ![t] = None]
  /\ UNCHANGED <<listen, held, call, fwVars, board, reported>>

Section(t) ==
  \/ Moves(t, "blank", FALSE) \/ Moves(t, "motion", TRUE)
  \/ \E mcu \in {"NORMAL", "RECOVERY", "ESTOP"} : SetsState(t, mcu)
  \/ SetsApply(t, "arm", TRUE) \/ SetsApply(t, "disarm", FALSE)
  \/ Asks(t) \/ Builds(t) \/ Writes(t)

-----------------------------------------------------------------------------
(* The firmware: plant_command_image_dispatch_plant, and the feedback.     *)

TakenMutated(mcus) ==   \* the ESTOP request is latched for good
  /\ wire.mcu \in mcus /\ wire' = None
  /\ estopReq' = (estopReq \/ wire.mcu = "ESTOP")
  /\ applied' = (wire.mcu = "NORMAL" /\ wire.apply)

Taken(mcus) ==
  /\ wire.mcu \in mcus /\ wire' = None
  /\ estopReq' = (wire.mcu = "ESTOP")
  /\ applied' = (wire.mcu = "NORMAL" /\ wire.apply)

ParksMutated ==   \* the acknowledgement is left to RECOVERY
  /\ Taken({"RECOVERY", "ESTOP"}) /\ driving' = FALSE
  /\ killReq' = IF wire.mcu = "RECOVERY" /\ board = "SOFT_REQ" THEN "SOFT_READY" ELSE killReq
  /\ UNCHANGED <<listen, hostVars, board, reported>>

Parks ==
  /\ Taken({"RECOVERY", "ESTOP"}) /\ driving' = FALSE
  /\ killReq' = IF board = "SOFT_REQ" THEN "SOFT_READY" ELSE killReq
  /\ UNCHANGED <<listen, hostVars, board, reported>>

Drives ==
  /\ Taken({"NORMAL"}) /\ driving' = (wire.apply /\ wire.motion)
  /\ killReq' = IF board = "NORMAL" THEN "NORMAL" ELSE killReq
  /\ UNCHANGED <<listen, hostVars, board, reported>>

Reports ==
  /\ reported # board /\ reported' = board
  /\ UNCHANGED <<listen, hostVars, wire, fwVars, board>>

-----------------------------------------------------------------------------
(* The power board, as the protocol document wants it. *)

BoardTrips ==   \* a fault of its own, a button, or a request of the host
  /\ board = "NORMAL" /\ board' = "SOFT_REQ"
  /\ UNCHANGED <<listen, hostVars, wire, fwVars, reported>>

BoardOpens ==   \* opens the contactors once the actuators are parked
  /\ board = "SOFT_REQ" /\ killReq = "SOFT_READY" /\ board' = "HARD_ESTOP"
  /\ UNCHANGED <<listen, hostVars, wire, fwVars, reported>>

BoardRearms ==   \* the fault is over
  /\ board = "HARD_ESTOP" /\ ~estopReq
  /\ RearmNeedsNormal => killReq = "NORMAL"
  /\ board' = "NORMAL"
  /\ UNCHANGED <<listen, hostVars, wire, fwVars, reported>>

Board == BoardOpens \/ BoardRearms
Firmware == Parks \/ Drives \/ Reports

Next ==
  \/ StreamRound \/ \E c \in Calls : ApiCalls(c)
  \/ \E t \in Thread : Section(t)
  \/ Firmware \/ BoardTrips \/ Board

(* Both threads get on with what they began, the stream goes round, the    *)
(* firmware dispatches and reports, the board keeps to its protocol.       *)
Spec ==
  /\ Init /\ [][Next]_vars
  /\ WF_vars(StreamRound) /\ \A t \in Thread : WF_vars(Section(t))
  /\ SF_vars(Parks \/ Drives) /\ WF_vars(Reports) /\ WF_vars(Board)

-----------------------------------------------------------------------------
(* After the last call was a park, a board that asks for a soft kill gets  *)
(* its answer and opens the contactors, unless the host heeds the board    *)
(* itself (controls_pcb_hub.py, soft_kill_park).                           *)
Answered == <>[](call = "park") => [](board = "SOFT_REQ" => <>(board # "SOFT_REQ"))
ParkIsAnswered == ~listen => Answered

(* A park or a recovery leaves nothing to follow: the desires of before do *)
(* not come back with NORMAL, nor with a freeze of the stream's hook.      *)
SlateIsClean == <>[](call \in {"park", "recover"}) => <>[]~driving

(* "Disarm plant apply - desires may still be held, motors ignore them"    *)
(* (host_proxy.py, disarm_plant): images of before the disarm on their way *)
(* do not arm the plant for good.  A host that heeds the board re-arms.    *)
DisarmLasts == ~listen /\ <>[](call = "disarm") => <>[](~applied /\ ~driving)

(* A recovery brings a board back that has opened the contactors, if the   *)
(* board does not itself wait for kill_req to be NORMAL again (the edge of *)
(* docs/pdb-uart-v1.md:134, RearmNeedsNormal): plant_command.c withdraws   *)
(* READY only once the board reports NORMAL.                               *)
RecoveryCompletes ==
  <>[](call = "recover") => [](board = "HARD_ESTOP" => <>(board = "NORMAL"))

=============================================================================
