---------------------------- MODULE MCBenchProbe ----------------------------
(* Two drives on two buses; up to the names of buses and drives these are    *)
(* all the placements: one bus, the same id on two buses, two ids on two.    *)
EXTENDS BenchProbe, WireChecks

CONSTANTS d1, d2

Placements ==
    {(d1 :> <<1, 1>> @@ d2 :> <<1, 2>>),
     (d1 :> <<1, 1>> @@ d2 :> <<2, 1>>),
     (d1 :> <<1, 2>> @@ d2 :> <<2, 1>>)}

\* All ids backwards, and a range that ends past the last id.
MCRanges == {<<2, 1>>, <<2, 3>>}

MCTargets == {<<1, 1>>, <<2, 1>>}

MCInit ==
    /\ Init
    /\ \E p \in Placements : \A d \in Drives : <<drv[d].bus, drv[d].id>> = p[d]

MCSpec == MCInit /\ [][Next]_vars
=============================================================================
