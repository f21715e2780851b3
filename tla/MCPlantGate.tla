----------------------------- MODULE MCPlantGate -----------------------------
(* Small instances of PlantGate for TLC: which images and bench requests   *)
(* the host draws from in each run.                                        *)
EXTENDS PlantGate

Image(m, a, d) == [mcu |-> m, apply |-> a, drive |-> d]
Bench(p, k)    == [proto |-> p, kind |-> k]

(* Safety run: every safety state of the plant stream, and a lease, a      *)
(* release and a probe of each shape the bench protocols have.             *)
SafetyImages ==
  {Image("NORMAL", TRUE, TRUE), Image("DIAG_ONLY", TRUE, FALSE),
   Image("ESTOP", TRUE, TRUE), Image("RECOVERY", FALSE, FALSE)}
SafetyOps ==
  {Bench("RS", "begin"), Bench("RS", "end"), Bench("DM", "begin"),
   Bench("DM", "end"), Bench("CM", "probe"), Bench("RS", "probe"),
   Bench("DXL", "probe")}

(* Liveness run: a stream that stops, with a lease of each shape. *)
LiveImages == {Image("NORMAL", TRUE, TRUE), Image("ESTOP", TRUE, TRUE)}
LiveOps    == {Bench("RS", "begin"), Bench("RS", "end"), Bench("DM", "begin"),
               Bench("RS", "probe")}

=============================================================================
