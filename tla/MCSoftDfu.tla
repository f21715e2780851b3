----------------------------- MODULE MCSoftDfu -----------------------------
(* Two boards on one host for TLC.  The initial states keep one of each      *)
(* pair that differs by exchanging the boards, and a loader that may not be  *)
(* opened only where dfu-util does the flashing.                             *)
EXTENDS SoftDfu, MapChecks
CONSTANTS board1, board2

MCInit ==
    /\ Init
    /\ brd[board1].port \in {1, None} /\ brd[board2].port \in {2, None}
    /\ bench.open \/ bench.tool = "util"

MCSpec == MCInit /\ [][Next]_vars
=============================================================================
