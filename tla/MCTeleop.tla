------------------------------ MODULE MCTeleop ------------------------------
(* An instance of Teleop for TLC: the mixes of requests.  Every one opens  *)
(* a session; what the other requests do to each other differs.            *)
EXTENDS Teleop, TLC, PlanChecks

Open == "connect" :> 1 @@ "release" :> 1

Mixed == {
  "connect" :> 2 @@ "release" :> 2 @@ "disconnect" :> 1 @@ "jog" :> 1,
  "connect" :> 2 @@ "release" :> 1 @@ "disconnect" :> 1 @@ "target" :> 1,
  Open @@ "jog" :> 2 @@ "stop" :> 1,
  Open @@ "jog" :> 1 @@ "stop_all" :> 1,
  Open @@ "target" :> 1 @@ "idle_group" :> 1,
  Open @@ "target" :> 1 @@ "limit_scout" :> 1,
  Open @@ "jog" :> 1 @@ "apply" :> 1 @@ "estop_park" :> 1,
  Open @@ "jog" :> 1 @@ "idle" :> 1 @@ "disconnect" :> 1,
  Open @@ "jog" :> 1 @@ "idle_all" :> 1 @@ "recover" :> 1 @@ "engage_soft_kill" :> 1 }
=============================================================================
