--------------------------- MODULE MCHostSession ----------------------------
(* An instance of HostSession for TLC: what the owner of the session and    *)
(* another thread call.                                                     *)
EXTENDS HostSession, TLC, PeerChecks

CONSTANTS main, other

Plan(frames, a, b) == [frames |-> frames, calls |-> (main :> a @@ other :> b)]

MCPlans == {
  Plan(1, <<"open_armed", "rpc", "close">>, <<"look">>),
  Plan(2, <<"open", "arm">>, <<"status">>),
  Plan(2, <<"open", "rpc", "rpc">>, <<"refresh">>),
  Plan(0, <<"open_armed", "close">>, <<"disarm", "arm">>) }
=============================================================================
