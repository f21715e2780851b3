---------------------------- MODULE MCTelemetry -----------------------------
(* An instance of Telemetry for TLC: the mixes of calls. *)
EXTENDS Telemetry, TLC, HealthChecks

Open1 == "connect" :> 1

Mixed == {
  Open1 @@ "record_start" :> 1 @@ "record_stop" :> 1 @@ "log" :> 1 @@ "fb" :> 1,
  Open1 @@ "record_start" :> 1 @@ "record_stop" :> 1 @@ "poll" :> 1,
  Open1 @@ "clear" :> 1 @@ "fb" :> 3 @@ "bad" :> 2 @@ "second" :> 1,
  Open1 @@ "fb" :> 2 @@ "poll" :> 1 @@ "bad" :> 1 @@ "second" :> 1,
  "connect" :> 2 @@ "disconnect" :> 1 @@ "record_stop" :> 1 @@ "record_start" :> 1,
  Open1 @@ "disconnect" :> 1 @@ "fb" :> 1 @@ "poll" :> 1,
  "record_start" :> 2 @@ "record_stop" :> 1 @@ "second" :> 1,
  "record_start" :> 1 @@ "record_stop" :> 1 @@ "close" :> 1 @@ "break" :> 1 }

Alike == Permutations(Callers)
=============================================================================
