-------------------------- MODULE PlantGate_proofs --------------------------
(***************************************************************************)
(* Proofs about PlantGate, for every set of images and requests, every     *)
(* number of frames and every value of the timeouts.                       *)
(***************************************************************************)
EXTENDS PlantGate, TLAPS

USE DEF envVars, hostVars, history, plantVars, linkVars, killVars, desire,
        probeVars, diagVars

(* A frame is a plant or a bench frame, and the dispatch tells them apart. *)
LEMMA FrameKinds ==
  ASSUME NEW f \in Frame
  PROVE  /\ IsPlant(f) => f \in PlantFrame
         /\ ~IsPlant(f) => f \in BenchFrame
BY DEF Frame, IsPlant, PlantFrame, BenchFrame

(* The seven conjuncts of TypeOK, one lemma each, over the actions that    *)
(* disturb it.  The ring and the environment: host_link_poll_rx.           *)
LEMMA EnvStep == ASSUME TypeOK, [Next]_vars PROVE EnvOK'
<1> USE BoundsAssumption, TimesAssumption, OpsAssumption, KillsAssumption,
        ImagesAssumption
<1> USE DEF TypeOK, EnvOK
<1>1. CASE HostSends
  <2>1. sent' \in 1..MaxSeq /\ UNCHANGED <<peerKill, motor>>
    BY <1>1 DEF HostSends
  <2>2. PICK f \in Frame : wire' = Append(wire, f)
    BY <1>1, <2>1 DEF HostSends, Frame, PlantFrame, BenchFrame
  <2>3. wire' \in Seq(Frame)
    BY <2>2
  <2>4. QED
    BY <2>1, <2>3
<1>2. CASE PeerKillChanges
  BY <1>2 DEF PeerKillChanges, Frame, PlantFrame, BenchFrame
<1>3. CASE HostHoldsPlant
  BY <1>3 DEF HostHoldsPlant, Frame, PlantFrame, BenchFrame
<1>4. CASE HostStartsBench
  BY <1>4 DEF HostStartsBench, HostGoto, DropAck, Frame, PlantFrame, BenchFrame
<1>5. CASE PlantParks
  BY <1>5 DEF PlantParks, PlantGoto, Release, Frame, PlantFrame, BenchFrame
<1>6. CASE PlantDrives
  BY <1>6 DEF PlantDrives, PlantGoto, Frame, PlantFrame, BenchFrame
<1>7. CASE Tick \/ BenchBegin \/ BenchEnd \/ BenchQueuesRs \/ BenchQueuesDxl \/
           BenchStartsProbe \/ BenchClears \/ BenchReleases \/ HostStampsBench \/
           HostDrained \/ HostStages \/ HostStampsPlant \/ HostWatchdog \/
           HostTakesProbe \/ HostEndsProbe \/ HostStartsDxl \/ HostEndsDxl \/
           PlantTakes \/ PlantDispatches \/ PlantActs \/ PlantMounts \/ PlantClears
           \/ PlantAcks \/ PlantLoadsLive \/ PlantGates \/ UNCHANGED vars
  BY <1>7 DEF vars, Tick, BenchBegin, BenchEnd, BenchQueuesRs, BenchQueuesDxl,
       BenchStartsProbe, BenchClears, BenchReleases, HostStampsBench, HostDrained,
       HostStages, HostStampsPlant, HostWatchdog, HostTakesProbe, HostEndsProbe,
       HostStartsDxl, HostEndsDxl, PlantTakes, PlantDispatches, PlantActs,
       PlantMounts, PlantClears, PlantAcks, PlantLoadsLive, PlantGates, HostGoto,
       PlantGoto, Release, ClearDesire, DropAck, Elapsed
<1>8. QED
  BY <1>1, <1>2, <1>3, <1>4, <1>5, <1>6, <1>7 DEF Next, HostTask, PlantTask

(* HostTask's control: a request is served, or an image staged, only where *)
(* one was read (host_link_poll_rx, plant_diag_on_*_command).              *)
LEMMA HostStep == ASSUME TypeOK, [Next]_vars PROVE HostOK'
<1> USE BoundsAssumption, TimesAssumption, OpsAssumption, KillsAssumption,
        ImagesAssumption
<1> USE DEF TypeOK, HostOK
<1>1. CASE HostHoldsPlant
  <2>1. Head(wire) \in Frame /\ IsPlant(Head(wire))
    BY <1>1 DEF HostHoldsPlant, EnvOK
  <2>2. Head(wire) \in PlantFrame
    BY <2>1, FrameKinds
  <2>3. QED
    BY <1>1, <2>2 DEF HostHoldsPlant, HostPcs
<1>2. CASE HostStartsBench
  BY <1>2 DEF HostStartsBench, HostGoto, DropAck, HostPcs, PlantFrame, BenchFrame,
       None, IsPlant, EnvOK, Frame
<1>3. CASE BenchBegin
  BY <1>3 DEF BenchBegin, HostGoto, HostPcs, PlantFrame, BenchFrame, None, IsPlant,
       EnvOK, Frame
<1>4. CASE BenchEnd
  BY <1>4 DEF BenchEnd, HostPcs, PlantFrame, BenchFrame, None, IsPlant, EnvOK, Frame
<1>5. CASE BenchQueuesRs
  BY <1>5 DEF BenchQueuesRs, HostGoto, HostPcs, PlantFrame, BenchFrame, None,
       IsPlant, EnvOK, Frame
<1>6. CASE BenchQueuesDxl
  BY <1>6 DEF BenchQueuesDxl, HostGoto, HostPcs, PlantFrame, BenchFrame, None,
       IsPlant, EnvOK, Frame
<1>7. CASE BenchStartsProbe
  BY <1>7 DEF BenchStartsProbe, HostPcs, PlantFrame, BenchFrame, None, IsPlant,
       EnvOK, Frame
<1>8. CASE BenchClears
  BY <1>8 DEF BenchClears, HostGoto, ClearDesire, HostPcs, PlantFrame, BenchFrame,
       None, IsPlant, EnvOK, Frame
<1>9. CASE BenchReleases
  BY <1>9 DEF BenchReleases, HostGoto, Release, HostPcs, PlantFrame, BenchFrame,
       None, IsPlant, EnvOK, Frame
<1>10. CASE HostStampsBench
  BY <1>10 DEF HostStampsBench, HostGoto, HostPcs, PlantFrame, BenchFrame, None,
       IsPlant, EnvOK, Frame
<1>11. CASE HostDrained
  BY <1>11 DEF HostDrained, HostPcs, PlantFrame, BenchFrame, None, IsPlant, EnvOK,
       Frame
<1>12. CASE HostStages
  BY <1>12 DEF HostStages, HostGoto, HostPcs, PlantFrame, BenchFrame, None, IsPlant,
       EnvOK, Frame
<1>13. CASE HostStampsPlant
  BY <1>13 DEF HostStampsPlant, HostGoto, HostPcs, PlantFrame, BenchFrame, None,
       IsPlant, EnvOK, Frame
<1>14. CASE HostWatchdog
  BY <1>14 DEF HostWatchdog, HostGoto, Release, HostPcs, PlantFrame, BenchFrame,
       None, IsPlant, EnvOK, Frame
<1>15. CASE HostTakesProbe
  BY <1>15 DEF HostTakesProbe, HostPcs, PlantFrame, BenchFrame, None, IsPlant,
       EnvOK, Frame
<1>16. CASE HostEndsProbe
  BY <1>16 DEF HostEndsProbe, HostPcs, PlantFrame, BenchFrame, None, IsPlant, EnvOK,
       Frame
<1>17. CASE HostStartsDxl
  BY <1>17 DEF HostStartsDxl, HostPcs, PlantFrame, BenchFrame, None, IsPlant, EnvOK,
       Frame
<1>18. CASE HostEndsDxl
  BY <1>18 DEF HostEndsDxl, HostGoto, HostPcs, PlantFrame, BenchFrame, None,
       IsPlant, EnvOK, Frame
<1>19. CASE HostSends \/ Tick \/ PeerKillChanges \/ PlantTakes \/ PlantDispatches \/
           PlantActs \/ PlantMounts \/ PlantParks \/ PlantClears \/ PlantAcks \/
           PlantLoadsLive \/ PlantGates \/ PlantDrives \/ UNCHANGED vars
  BY <1>19 DEF vars, HostSends, Tick, PeerKillChanges, PlantTakes, PlantDispatches,
       PlantActs, PlantMounts, PlantParks, PlantClears, PlantAcks, PlantLoadsLive,
       PlantGates, PlantDrives, PlantGoto, Release, ClearDesire, DropAck, Elapsed
<1>20. QED
  BY <1>1, <1>2, <1>3, <1>4, <1>5, <1>6, <1>7, <1>8, <1>9, <1>10, <1>11, <1>12,
       <1>13, <1>14, <1>15, <1>16, <1>17, <1>18, <1>19 DEF Next, HostTask, PlantTask

(* PlantTask's control: an image is dispatched only where one was taken    *)
(* (host_link_apply_pending_plant).                                        *)
LEMMA PlantStep == ASSUME TypeOK, [Next]_vars PROVE PlantOK'
<1> USE BoundsAssumption, TimesAssumption, OpsAssumption, KillsAssumption,
        ImagesAssumption
<1> USE DEF TypeOK, PlantOK
<1>1. CASE HostStages
  BY <1>1 DEF HostStages, HostGoto, PlantPcs, PlantFrame, None, HostOK
<1>2. CASE PlantTakes
  BY <1>2 DEF PlantTakes, PlantPcs, PlantFrame, None, HostOK
<1>3. CASE PlantDispatches
  BY <1>3 DEF PlantDispatches, PlantPcs, PlantFrame, None, HostOK
<1>4. CASE PlantActs
  BY <1>4 DEF PlantActs, Release, DropAck, PlantPcs, PlantFrame, None, HostOK
<1>5. CASE PlantMounts
  BY <1>5 DEF PlantMounts, PlantGoto, PlantPcs, PlantFrame, None, HostOK
<1>6. CASE PlantParks
  BY <1>6 DEF PlantParks, PlantGoto, Release, PlantPcs, PlantFrame, None, HostOK
<1>7. CASE PlantClears
  BY <1>7 DEF PlantClears, PlantGoto, ClearDesire, PlantPcs, PlantFrame, None,
       HostOK
<1>8. CASE PlantAcks
  BY <1>8 DEF PlantAcks, PlantGoto, PlantPcs, PlantFrame, None, HostOK
<1>9. CASE PlantLoadsLive
  BY <1>9 DEF PlantLoadsLive, PlantGoto, PlantPcs, PlantFrame, None, HostOK
<1>10. CASE PlantGates
  BY <1>10 DEF PlantGates, PlantPcs, PlantFrame, None, HostOK
<1>11. CASE PlantDrives
  BY <1>11 DEF PlantDrives, PlantGoto, PlantPcs, PlantFrame, None, HostOK
<1>12. CASE HostSends \/ Tick \/ PeerKillChanges \/ HostHoldsPlant \/
           HostStartsBench \/ BenchBegin \/ BenchEnd \/ BenchQueuesRs \/
           BenchQueuesDxl \/ BenchStartsProbe \/ BenchClears \/ BenchReleases \/
           HostStampsBench \/ HostDrained \/ HostStampsPlant \/ HostWatchdog \/
           HostTakesProbe \/ HostEndsProbe \/ HostStartsDxl \/ HostEndsDxl \/
           UNCHANGED vars
  BY <1>12 DEF vars, HostSends, Tick, PeerKillChanges, HostHoldsPlant,
       HostStartsBench, BenchBegin, BenchEnd, BenchQueuesRs, BenchQueuesDxl,
       BenchStartsProbe, BenchClears, BenchReleases, HostStampsBench, HostDrained,
       HostStampsPlant, HostWatchdog, HostTakesProbe, HostEndsProbe, HostStartsDxl,
       HostEndsDxl, HostGoto, Release, ClearDesire, DropAck, Elapsed
<1>13. QED
  BY <1>1, <1>2, <1>3, <1>4, <1>5, <1>6, <1>7, <1>8, <1>9, <1>10, <1>11, <1>12 DEF
       Next, HostTask, PlantTask

(* Sequence numbers, the age of the last command and the soft-kill ack.    *)
LEMMA LinkStep == ASSUME TypeOK, [Next]_vars PROVE LinkOK'
<1> USE BoundsAssumption, TimesAssumption, OpsAssumption, KillsAssumption,
        ImagesAssumption
<1> USE DEF TypeOK, LinkOK
<1>1. CASE Tick
  BY <1>1 DEF Tick, Elapsed, HostOK, PlantOK, PlantFrame, BenchFrame, None
<1>2. CASE HostStartsBench
  BY <1>2 DEF HostStartsBench, HostGoto, DropAck, HostOK, PlantOK, PlantFrame,
       BenchFrame, None
<1>3. CASE HostStampsBench
  BY <1>3 DEF HostStampsBench, HostGoto, HostOK, PlantOK, PlantFrame, BenchFrame,
       None
<1>4. CASE HostStampsPlant
  BY <1>4 DEF HostStampsPlant, HostGoto, HostOK, PlantOK, PlantFrame, BenchFrame,
       None
<1>5. CASE PlantTakes
  BY <1>5 DEF PlantTakes, HostOK, PlantOK, PlantFrame, BenchFrame, None
<1>6. CASE PlantDispatches
  BY <1>6 DEF PlantDispatches, HostOK, PlantOK, PlantFrame, BenchFrame, None
<1>7. CASE PlantActs
  BY <1>7 DEF PlantActs, Release, DropAck, HostOK, PlantOK, PlantFrame, BenchFrame,
       None
<1>8. CASE PlantAcks
  BY <1>8 DEF PlantAcks, PlantGoto, HostOK, PlantOK, PlantFrame, BenchFrame, None
<1>9. CASE BenchBegin
  BY <1>9 DEF BenchBegin, HostGoto
<1>10. CASE HostWatchdog
  BY <1>10 DEF HostWatchdog, HostGoto, Release
<1>11. CASE HostSends \/ PeerKillChanges \/ HostHoldsPlant \/ BenchEnd \/
            BenchQueuesRs \/ BenchQueuesDxl \/ BenchStartsProbe \/ BenchClears \/
            BenchReleases \/ HostDrained \/ HostStages \/ HostTakesProbe \/
            HostEndsProbe \/ HostStartsDxl \/ HostEndsDxl \/ PlantMounts \/
            PlantParks \/ PlantClears \/ PlantLoadsLive \/ PlantGates \/
            PlantDrives \/ UNCHANGED vars
  BY <1>11 DEF vars, HostSends, PeerKillChanges, HostHoldsPlant, BenchEnd,
       BenchQueuesRs, BenchQueuesDxl, BenchStartsProbe, BenchClears, BenchReleases,
       HostDrained, HostStages, HostTakesProbe, HostEndsProbe, HostStartsDxl,
       HostEndsDxl, PlantMounts, PlantParks, PlantClears, PlantLoadsLive,
       PlantGates, PlantDrives, HostGoto, PlantGoto, Release, ClearDesire
<1>12. QED
  BY <1>1, <1>2, <1>3, <1>4, <1>5, <1>6, <1>7, <1>8, <1>9, <1>10, <1>11 DEF Next,
       HostTask, PlantTask

(* Staged and live desires (actuator.c).                                   *)
LEMMA DesireStep == ASSUME TypeOK, [Next]_vars PROVE DesireOK'
<1> USE BoundsAssumption, TimesAssumption, OpsAssumption, KillsAssumption,
        ImagesAssumption
<1> USE DEF TypeOK, DesireOK
<1>1. CASE BenchClears
  BY <1>1 DEF BenchClears, HostGoto, ClearDesire, Desire, Idle, None, PlantOK,
       PlantFrame, ImageType
<1>2. CASE PlantMounts
  BY <1>2 DEF PlantMounts, PlantGoto, Desire, Idle, None, PlantOK, PlantFrame,
       ImageType
<1>3. CASE PlantClears
  BY <1>3 DEF PlantClears, PlantGoto, ClearDesire, Desire, Idle, None, PlantOK,
       PlantFrame, ImageType
<1>4. CASE PlantLoadsLive
  BY <1>4 DEF PlantLoadsLive, PlantGoto, Desire, Idle, None, PlantOK, PlantFrame,
       ImageType
<1>5. CASE HostSends \/ Tick \/ PeerKillChanges \/ HostHoldsPlant \/ HostStartsBench
           \/ BenchBegin \/ BenchEnd \/ BenchQueuesRs \/ BenchQueuesDxl \/
           BenchStartsProbe \/ BenchReleases \/ HostStampsBench \/ HostDrained \/
           HostStages \/ HostStampsPlant \/ HostWatchdog \/ HostTakesProbe \/
           HostEndsProbe \/ HostStartsDxl \/ HostEndsDxl \/ PlantTakes \/
           PlantDispatches \/ PlantActs \/ PlantParks \/ PlantAcks \/ PlantGates \/
           PlantDrives \/ UNCHANGED vars
  BY <1>5 DEF vars, HostSends, Tick, PeerKillChanges, HostHoldsPlant,
       HostStartsBench, BenchBegin, BenchEnd, BenchQueuesRs, BenchQueuesDxl,
       BenchStartsProbe, BenchReleases, HostStampsBench, HostDrained, HostStages,
       HostStampsPlant, HostWatchdog, HostTakesProbe, HostEndsProbe, HostStartsDxl,
       HostEndsDxl, PlantTakes, PlantDispatches, PlantActs, PlantParks, PlantAcks,
       PlantGates, PlantDrives, HostGoto, PlantGoto, Release, DropAck, Elapsed
<1>6. QED
  BY <1>1, <1>2, <1>3, <1>4, <1>5 DEF Next, HostTask, PlantTask

(* Leases and quiet periods belong to bench protocols (diag/).             *)
LEMMA BenchStep == ASSUME TypeOK, [Next]_vars PROVE BenchOK'
<1> USE BoundsAssumption, TimesAssumption, OpsAssumption, KillsAssumption,
        ImagesAssumption
<1> USE DEF TypeOK, BenchOK
<1>1. CASE Tick
  BY <1>1 DEF Tick, Elapsed, HostOK, BenchFrame, None, OpType
<1>2. CASE BenchBegin
  <2>1. op.bench.proto \in Protocols
    BY <1>2 DEF BenchBegin, HostGoto, HostOK, BenchFrame, None, OpType
  <2>2. sessions' \subseteq Protocols /\ probeAge' = probeAge
    BY <1>2, <2>1 DEF BenchBegin
  <2>3. quiet' \in [Protocols -> 0..QuietMs]
    BY <1>2, <2>1 DEF BenchBegin
  <2>4. QED
    BY <2>2, <2>3
<1>3. CASE BenchEnd
  <2>1. op.bench.proto \in Protocols
    BY <1>3 DEF BenchEnd, HostOK, BenchFrame, None, OpType
  <2>2. sessions' \subseteq Protocols /\ probeAge' = probeAge
    BY <1>3 DEF BenchEnd
  <2>3. quiet' \in [Protocols -> 0..QuietMs]
    BY <1>3, <2>1 DEF BenchEnd
  <2>4. QED
    BY <2>2, <2>3
<1>4. CASE BenchQueuesRs
  BY <1>4 DEF BenchQueuesRs, HostGoto, HostOK, BenchFrame, None, OpType
<1>5. CASE BenchReleases
  BY <1>5 DEF BenchReleases, HostGoto, Release, HostOK, BenchFrame, None, OpType
<1>6. CASE HostWatchdog
  <2>1. CASE ProbeStuck \/ LeaseStale
    BY <1>6, <2>1 DEF HostWatchdog, Release
  <2>2. CASE ~(ProbeStuck \/ LeaseStale)
    BY <1>6, <2>2 DEF HostWatchdog
  <2>3. QED
    BY <2>1, <2>2
<1>7. CASE HostEndsProbe
  BY <1>7 DEF HostEndsProbe, HostOK, BenchFrame, None, OpType
<1>8. CASE PlantActs
  <2>1. CASE applyRb
    BY <1>8, <2>1 DEF PlantActs, Release
  <2>2. CASE ~applyRb
    BY <1>8, <2>2 DEF PlantActs
  <2>3. QED
    BY <2>1, <2>2
<1>9. CASE PlantParks
  BY <1>9 DEF PlantParks, PlantGoto, Release, HostOK, BenchFrame, None, OpType
<1>10. CASE HostSends \/ PeerKillChanges \/ HostHoldsPlant \/ HostStartsBench \/
           BenchQueuesDxl \/ BenchStartsProbe \/ BenchClears \/ HostStampsBench \/
           HostDrained \/ HostStages \/ HostStampsPlant \/ HostTakesProbe \/
           HostStartsDxl \/ HostEndsDxl \/ PlantTakes \/ PlantDispatches \/
           PlantMounts \/ PlantClears \/ PlantAcks \/ PlantLoadsLive \/ PlantGates
           \/ PlantDrives \/ UNCHANGED vars
  BY <1>10 DEF vars, HostSends, PeerKillChanges, HostHoldsPlant, HostStartsBench,
       BenchQueuesDxl, BenchStartsProbe, BenchClears, HostStampsBench, HostDrained,
       HostStages, HostStampsPlant, HostTakesProbe, HostStartsDxl, HostEndsDxl,
       PlantTakes, PlantDispatches, PlantMounts, PlantClears, PlantAcks,
       PlantLoadsLive, PlantGates, PlantDrives, HostGoto, PlantGoto, ClearDesire,
       DropAck
<1>11. QED
  BY <1>1, <1>2, <1>3, <1>4, <1>5, <1>6, <1>7, <1>8, <1>9, <1>10 DEF Next, HostTask,
       PlantTask

(* The one-bit state: apply readback, ESTOP request, probe flags.          *)
LEMMA FlagsStep == ASSUME TypeOK, [Next]_vars PROVE FlagsOK'
<1> USE BoundsAssumption, TimesAssumption, OpsAssumption, KillsAssumption,
        ImagesAssumption
<1> USE DEF TypeOK, FlagsOK
<1>1. CASE HostStartsBench
  BY <1>1 DEF HostStartsBench, HostGoto, DropAck
<1>2. CASE BenchBegin
  BY <1>2 DEF BenchBegin, HostGoto
<1>3. CASE BenchEnd
  BY <1>3 DEF BenchEnd
<1>4. CASE BenchQueuesRs
  BY <1>4 DEF BenchQueuesRs, HostGoto
<1>5. CASE BenchQueuesDxl
  BY <1>5 DEF BenchQueuesDxl, HostGoto
<1>6. CASE BenchStartsProbe
  BY <1>6 DEF BenchStartsProbe
<1>7. CASE BenchReleases
  BY <1>7 DEF BenchReleases, HostGoto, Release
<1>8. CASE HostWatchdog
  BY <1>8 DEF HostWatchdog, HostGoto, Release
<1>9. CASE HostTakesProbe
  BY <1>9 DEF HostTakesProbe
<1>10. CASE HostEndsProbe
  BY <1>10 DEF HostEndsProbe
<1>11. CASE HostStartsDxl
  BY <1>11 DEF HostStartsDxl
<1>12. CASE HostEndsDxl
  BY <1>12 DEF HostEndsDxl, HostGoto
<1>13. CASE PlantDispatches
  BY <1>13 DEF PlantDispatches
<1>14. CASE PlantActs
  BY <1>14 DEF PlantActs, Release, DropAck
<1>15. CASE PlantParks
  BY <1>15 DEF PlantParks, PlantGoto, Release
<1>16. CASE HostSends \/ Tick \/ PeerKillChanges \/ HostHoldsPlant \/ BenchClears \/
           HostStampsBench \/ HostDrained \/ HostStages \/ HostStampsPlant \/
           PlantTakes \/ PlantMounts \/ PlantClears \/ PlantAcks \/ PlantLoadsLive
           \/ PlantGates \/ PlantDrives \/ UNCHANGED vars
  BY <1>16 DEF vars, HostSends, Tick, PeerKillChanges, HostHoldsPlant, BenchClears,
       HostStampsBench, HostDrained, HostStages, HostStampsPlant, PlantTakes,
       PlantMounts, PlantClears, PlantAcks, PlantLoadsLive, PlantGates, PlantDrives,
       HostGoto, PlantGoto, ClearDesire, Elapsed
<1>17. QED
  BY <1>1, <1>2, <1>3, <1>4, <1>5, <1>6, <1>7, <1>8, <1>9, <1>10, <1>11, <1>12,
       <1>13, <1>14, <1>15, <1>16 DEF Next, HostTask, PlantTask

(* Sequence numbers are numbers, wherever an image is.                     *)
LEMMA SeqTypes ==
  ASSUME TypeOK
  PROVE  /\ wire \in Seq(Frame) /\ sent \in Nat /\ appliedSeq \in Nat
         /\ hold.seq \in Nat /\ pending.seq \in Nat
         /\ \A i \in 1..Len(wire) : wire[i].seq \in Nat
         /\ pending = None => pending.seq = 0
         /\ hold = None => hold.seq = 0
<1>1. wire \in Seq(Frame) /\ sent \in Nat /\ appliedSeq \in Nat
  BY BoundsAssumption DEF TypeOK, EnvOK, LinkOK
<1>2. hold.seq \in Nat /\ pending.seq \in Nat
  BY BoundsAssumption DEF TypeOK, HostOK, PlantOK, PlantFrame, None
<1>3. \A i \in 1..Len(wire) : wire[i].seq \in Nat
  <2>1. \A i \in 1..Len(wire) : wire[i] \in Frame
    BY <1>1
  <2>2. \A g \in Frame : g.seq \in Nat
    BY BoundsAssumption DEF Frame, PlantFrame, BenchFrame
  <2>3. QED
    BY <2>1, <2>2
<1>4. QED
  BY <1>1, <1>2, <1>3 DEF None

(* A frame the host appends is newer than everything before it.            *)
LEMMA SendKeepsOrder ==
  ASSUME TypeOK, OrderInv, HostSends
  PROVE  OrderInv'
<1>1. sent' = sent + 1 /\ UNCHANGED <<appliedSeq, pending, hold, hostPc>>
  BY DEF HostSends
<1>2. PICK f \in Frame : f.seq = sent' /\ wire' = Append(wire, f)
  <2>1. sent' \in 1..MaxSeq
    BY BoundsAssumption DEF HostSends, TypeOK, EnvOK
  <2>2. QED
    BY <2>1 DEF HostSends, Frame, PlantFrame, BenchFrame
<1>3. /\ Len(wire') = Len(wire) + 1 /\ Len(wire) \in Nat
      /\ \A i \in 1..Len(wire) : wire'[i] = wire[i]
      /\ wire'[Len(wire) + 1] = f
  BY <1>2, SeqTypes
<1>4. \A i \in 1..Len(wire') : Newer(wire[i].seq)' /\ wire'[i].seq <= sent'
  <2> SUFFICES ASSUME NEW i \in 1..Len(wire')
               PROVE  Newer(wire[i].seq)' /\ wire'[i].seq <= sent'
    OBVIOUS
  <2>1. CASE i \in 1..Len(wire)
    BY <1>1, <1>3, SeqTypes, <2>1 DEF OrderInv, Newer
  <2>2. CASE i = Len(wire) + 1
    BY <1>1, <1>2, <1>3, SeqTypes, <2>2 DEF OrderInv, Newer
  <2>3. QED
    BY <1>3, <2>1, <2>2
<1>5. \A i, j \in 1..Len(wire') : i < j => wire'[i].seq < wire'[j].seq
  <2> SUFFICES ASSUME NEW i \in 1..Len(wire'), NEW j \in 1..Len(wire'), i < j
               PROVE  wire'[i].seq < wire'[j].seq
    OBVIOUS
  <2>1. i \in 1..Len(wire)
    BY <1>3
  <2>2. CASE j \in 1..Len(wire)
    BY <1>3, <2>1, <2>2 DEF OrderInv
  <2>3. CASE j = Len(wire) + 1
    BY <1>1, <1>2, <1>3, SeqTypes, <2>1, <2>3 DEF OrderInv
  <2>4. QED
    BY <1>3, <2>2, <2>3
<1>6. QED
  BY <1>1, <1>4, <1>5, SeqTypes DEF OrderInv

(* Reading a frame leaves the order of the rest, and the frame read is     *)
(* older than what stays behind and newer than what is on its way.         *)
LEMMA PopKeepsOrder ==
  ASSUME TypeOK, OrderInv, wire # <<>>, wire' = Tail(wire), hostPc = "rx",
         hold' \in {hold, Head(wire)}, hostPc' # "stamp",
         UNCHANGED <<sent, appliedSeq, pending>>
  PROVE  OrderInv'
<1>1. /\ Len(wire) \in Nat \ {0} /\ Len(wire') = Len(wire) - 1
      /\ Head(wire) = wire[1]
      /\ \A i \in 1..Len(wire') : wire'[i] = wire[i + 1] /\ i + 1 \in 2..Len(wire)
  BY SeqTypes
<1>2. /\ Newer(wire[1].seq) /\ wire[1].seq <= sent /\ wire[1].seq \in Nat
      /\ \A i \in 2..Len(wire) : wire[1].seq < wire[i].seq
  BY <1>1, SeqTypes DEF OrderInv
<1>3. /\ hold'.seq <= sent
      /\ hold' # None => hold'.seq > appliedSeq /\ hold'.seq > pending.seq
  BY <1>1, <1>2, SeqTypes DEF OrderInv, Newer
<1>4. \A i \in 1..Len(wire') : Newer(wire[i].seq)' /\ wire'[i].seq <= sent'
  BY <1>1, <1>2, SeqTypes DEF OrderInv, Newer
<1>5. \A i, j \in 1..Len(wire') : i < j => wire'[i].seq < wire'[j].seq
  BY <1>1, SeqTypes DEF OrderInv
<1>6. QED
  BY <1>3, <1>4, <1>5, SeqTypes DEF OrderInv

(* Every step keeps the order of frames from ring to PlantTask: what is    *)
(* read later was sent later, and the applied image is older than any on   *)
(* its way (host_link.c staging).                                          *)
LEMMA OrderInvStep == ASSUME IInv, [Next]_vars PROVE OrderInv'
<1>0. TypeOK /\ OrderInv
  BY DEF IInv
<1>1. CASE HostSends
  BY <1>0, <1>1, SendKeepsOrder
<1>2. CASE HostHoldsPlant
  BY <1>0, <1>2, PopKeepsOrder DEF HostHoldsPlant
<1>3. CASE HostStartsBench
  BY <1>0, <1>3, PopKeepsOrder DEF HostStartsBench, HostGoto
<1>4. CASE HostDrained
  BY <1>0, <1>4, SeqTypes DEF HostDrained, OrderInv, Newer
<1>5. CASE HostStages
  <2>1. hold # None /\ hold.seq > appliedSeq
    BY <1>0, <1>5 DEF HostStages, HostGoto, TypeOK, HostOK, OrderInv
  <2>2. QED
    BY <1>0, <1>5, <2>1, SeqTypes DEF HostStages, HostGoto, OrderInv, Newer
<1>6. CASE HostStampsPlant
  <2>1. hold' = None /\ hold'.seq = 0 /\ UNCHANGED <<wire, sent, appliedSeq, pending>>
    BY <1>6 DEF HostStampsPlant, None
  <2>2. \A i \in 1..Len(wire') : Newer(wire[i].seq)' /\ wire'[i].seq <= sent'
    BY <1>0, <2>1, SeqTypes DEF OrderInv, Newer
  <2>3. QED
    BY <1>0, <2>1, <2>2, SeqTypes DEF OrderInv
<1>7. CASE PlantTakes
  <2>1. CASE pending = None
    BY <1>0, <1>7, <2>1 DEF PlantTakes, OrderInv, Newer
  <2>2. CASE pending # None
    <3>1. /\ appliedSeq' = pending.seq /\ pending'.seq = 0 /\ pending' = None
          /\ UNCHANGED <<wire, sent, hold, hostPc>>
      BY <1>7, <2>2 DEF PlantTakes, None
    <3>2. QED
      BY <1>0, <2>2, <3>1, SeqTypes DEF OrderInv, Newer
  <2>3. QED
    BY <2>1, <2>2
<1>8. CASE Tick \/ PeerKillChanges \/ BenchBegin \/ BenchEnd \/ BenchQueuesRs \/
           BenchQueuesDxl \/ BenchStartsProbe \/ BenchClears \/ BenchReleases \/
           HostStampsBench \/ HostWatchdog \/ HostTakesProbe \/ HostEndsProbe \/
           HostStartsDxl \/ HostEndsDxl \/ PlantDispatches \/ PlantActs \/
           PlantMounts \/ PlantParks \/ PlantClears \/ PlantAcks \/ PlantLoadsLive
           \/ PlantGates \/ PlantDrives \/ UNCHANGED vars
  <2>1. /\ UNCHANGED <<wire, sent, appliedSeq, pending, hold>>
        /\ hostPc = "stamp" => hostPc' = "stamp"
    BY <1>8 DEF vars, Tick, PeerKillChanges, BenchBegin, BenchEnd, BenchQueuesRs,
         BenchQueuesDxl, BenchStartsProbe, BenchClears, BenchReleases,
         HostStampsBench, HostWatchdog, HostTakesProbe, HostEndsProbe, HostStartsDxl,
         HostEndsDxl, PlantDispatches, PlantActs, PlantMounts, PlantParks,
         PlantClears, PlantAcks, PlantLoadsLive, PlantGates, PlantDrives, HostGoto,
         PlantGoto, ClearDesire
  <2>2. QED
    BY <1>0, <2>1, SeqTypes DEF OrderInv, Newer
<1>9. QED
  BY <1>1, <1>2, <1>3, <1>4, <1>5, <1>6, <1>7, <1>8 DEF Next, HostTask, PlantTask

(* Every step keeps what is on its way to the motors newer than the last   *)
(* ESTOP or RECOVERY, outside the recovery itself (plant_recovery_all).    *)
LEMMA ParkInvStep == ASSUME IInv, [Next]_vars PROVE ParkInv'
<1> USE BoundsAssumption DEF IInv, ParkInv, SinceParked, OrderInv, TypeOK,
        EnvOK, HostOK, PlantOK, LinkOK, DesireOK,
        Frame, PlantFrame, BenchFrame, Desire, None, Idle
<1>1. CASE PlantTakes
  BY <1>1 DEF PlantTakes
<1>2. CASE PlantDispatches
  BY <1>2 DEF PlantDispatches
<1>3. CASE PlantActs
  BY <1>3 DEF PlantActs
<1>4. CASE PlantMounts
  BY <1>4 DEF PlantMounts, PlantGoto
<1>5. CASE PlantParks
  BY <1>5 DEF PlantParks, PlantGoto
<1>6. CASE PlantClears
  BY <1>6 DEF PlantClears, PlantGoto, ClearDesire
<1>7. CASE PlantAcks
  BY <1>7 DEF PlantAcks, PlantGoto
<1>8. CASE PlantLoadsLive
  BY <1>8 DEF PlantLoadsLive, PlantGoto
<1>9. CASE PlantGates
  BY <1>9 DEF PlantGates
<1>10. CASE PlantDrives
  BY <1>10 DEF PlantDrives, PlantGoto
<1>11. CASE BenchClears
  BY <1>11 DEF BenchClears, HostGoto, ClearDesire
<1>12. CASE HostSends \/ Tick \/ PeerKillChanges \/ HostHoldsPlant \/
           HostStartsBench \/ BenchBegin \/ BenchEnd \/ BenchQueuesRs \/
           BenchQueuesDxl \/ BenchStartsProbe \/ BenchReleases \/ HostStampsBench \/
           HostDrained \/ HostStages \/ HostStampsPlant \/ HostWatchdog \/
           HostTakesProbe \/ HostEndsProbe \/ HostStartsDxl \/ HostEndsDxl \/
           UNCHANGED vars
  BY <1>12 DEF vars, HostSends, Tick, PeerKillChanges, HostHoldsPlant,
       HostStartsBench, BenchBegin, BenchEnd, BenchQueuesRs, BenchQueuesDxl,
       BenchStartsProbe, BenchReleases, HostStampsBench, HostDrained, HostStages,
       HostStampsPlant, HostWatchdog, HostTakesProbe, HostEndsProbe, HostStartsDxl,
       HostEndsDxl, HostGoto
<1>13. QED
  BY <1>1, <1>2, <1>3, <1>4, <1>5, <1>6, <1>7, <1>8, <1>9, <1>10, <1>11, <1>12 DEF
       Next, HostTask, PlantTask

(* Every step keeps the point of acknowledgement behind the disable frames *)
(* and the cleared desires (plant_command_image_dispatch_plant).           *)
LEMMA AckInvStep == ASSUME IInv, [Next]_vars PROVE AckInv'
<1> USE BoundsAssumption DEF IInv, AckInv, TypeOK, EnvOK, HostOK, PlantOK,
        LinkOK, DesireOK,
        Frame, PlantFrame, BenchFrame, Desire, None, Idle
<1>1. CASE PlantTakes
  BY <1>1 DEF PlantTakes
<1>2. CASE PlantDispatches
  BY <1>2 DEF PlantDispatches
<1>3. CASE PlantActs
  BY <1>3 DEF PlantActs
<1>4. CASE PlantMounts
  BY <1>4 DEF PlantMounts, PlantGoto
<1>5. CASE PlantParks
  BY <1>5 DEF PlantParks, PlantGoto
<1>6. CASE PlantClears
  BY <1>6 DEF PlantClears, PlantGoto, ClearDesire
<1>7. CASE PlantAcks
  BY <1>7 DEF PlantAcks, PlantGoto
<1>8. CASE PlantLoadsLive
  BY <1>8 DEF PlantLoadsLive, PlantGoto
<1>9. CASE PlantGates
  BY <1>9 DEF PlantGates
<1>10. CASE PlantDrives
  BY <1>10 DEF PlantDrives, PlantGoto
<1>11. CASE BenchClears
  BY <1>11 DEF BenchClears, HostGoto, ClearDesire
<1>12. CASE HostSends \/ Tick \/ PeerKillChanges \/ HostHoldsPlant \/
           HostStartsBench \/ BenchBegin \/ BenchEnd \/ BenchQueuesRs \/
           BenchQueuesDxl \/ BenchStartsProbe \/ BenchReleases \/ HostStampsBench \/
           HostDrained \/ HostStages \/ HostStampsPlant \/ HostWatchdog \/
           HostTakesProbe \/ HostEndsProbe \/ HostStartsDxl \/ HostEndsDxl \/
           UNCHANGED vars
  BY <1>12 DEF vars, HostSends, Tick, PeerKillChanges, HostHoldsPlant,
       HostStartsBench, BenchBegin, BenchEnd, BenchQueuesRs, BenchQueuesDxl,
       BenchStartsProbe, BenchReleases, HostStampsBench, HostDrained, HostStages,
       HostStampsPlant, HostWatchdog, HostTakesProbe, HostEndsProbe, HostStartsDxl,
       HostEndsDxl, HostGoto
<1>13. QED
  BY <1>1, <1>2, <1>3, <1>4, <1>5, <1>6, <1>7, <1>8, <1>9, <1>10, <1>11, <1>12 DEF
       Next, HostTask, PlantTask

(* A desire that is new, or newer than the last park, is no old drive once *)
(* the lease has ended: every plant image has a number above 0.            *)
LEMMA NoLeaseNoOld ==
  ASSUME TypeOK', ParkInv', leaseSeq' = 0, plantPc' \notin {"park", "clear"}
  PROVE  ~OldDrive'
BY BoundsAssumption DEF TypeOK, LinkOK, DesireOK, PlantOK, PlantFrame, None, Desire,
   Idle, ParkInv, SinceParked, OldDrive

(* Every step keeps the gate shut on what was applied before the last      *)
(* lease (plant_diag_on_*_command, plant_command_image_dispatch_plant).    *)
LEMMA LeaseInvStep == ASSUME IInv, [Next]_vars, TypeOK', ParkInv' PROVE LeaseInv'
<1> USE DEF IInv, LeaseInv, OldDrive
<1>1. CASE HostStartsBench
  BY <1>1 DEF HostStartsBench
<1>2. CASE BenchBegin
  BY <1>2 DEF BenchBegin, HostGoto
<1>3. CASE BenchEnd
  BY <1>3 DEF BenchEnd
<1>4. CASE BenchReleases
  BY <1>4 DEF BenchReleases, HostGoto
<1>5. CASE BenchClears
  BY <1>5 DEF BenchClears, HostGoto, ClearDesire, Idle
<1>6. CASE HostWatchdog
  <2>1. CASE leaseSeq' = 0
    <3>1. CASE plantPc \in {"park", "clear"}
      BY <1>6, <3>1 DEF HostWatchdog
    <3>2. CASE plantPc' \notin {"park", "clear"}
      BY <2>1, <3>2, NoLeaseNoOld
    <3>3. QED
      BY <1>6, <3>1, <3>2 DEF HostWatchdog
  <2>2. CASE UNCHANGED <<diagVars, leaseSeq>>
    BY <1>6, <2>2 DEF HostWatchdog, HostGoto
  <2>3. QED
    BY <1>6, <2>1, <2>2 DEF HostWatchdog
<1>7. CASE HostDrained \/ HostStages \/ HostStampsPlant \/ HostTakesProbe \/
           HostEndsProbe \/ HostStartsDxl \/ HostEndsDxl \/ HostStampsBench \/
           HostHoldsPlant \/ BenchQueuesRs \/ BenchQueuesDxl \/ BenchStartsProbe
  <2>1. /\ UNCHANGED <<live, stage, plantPc, local, leaseSeq, applyRb, sessions>>
        /\ hostPc' \notin {"bench", "release"}
    BY <1>7 DEF HostDrained, HostStages, HostStampsPlant, HostTakesProbe,
       HostEndsProbe, HostStartsDxl, HostEndsDxl, HostStampsBench, HostHoldsPlant,
       BenchQueuesRs, BenchQueuesDxl, BenchStartsProbe, HostGoto
  <2>2. QED
    BY <2>1
<1>8. CASE PlantDispatches
  BY <1>8 DEF PlantDispatches
<1>9. CASE PlantActs
  <2>1. CASE applyRb
    <3>1. leaseSeq' = 0 /\ plantPc' = "mount"
      BY <1>9, <2>1 DEF PlantActs
    <3>2. QED
      BY <3>1, NoLeaseNoOld
  <2>2. CASE ~applyRb
    BY <1>9, <2>2 DEF PlantActs
  <2>3. QED
    BY <2>1, <2>2
<1>10. CASE PlantMounts
  BY <1>10 DEF PlantMounts, PlantGoto
<1>11. CASE PlantParks
  BY <1>11 DEF PlantParks, PlantGoto
<1>12. CASE PlantClears
  BY <1>12 DEF PlantClears, PlantGoto, ClearDesire, Idle
<1>13. CASE PlantLoadsLive
  BY <1>13 DEF PlantLoadsLive, PlantGoto
<1>14. CASE PlantTakes \/ PlantAcks \/ PlantGates \/ PlantDrives
  <2>1. /\ UNCHANGED <<live, stage, leaseSeq, applyRb, sessions, hostPc>>
        /\ plantPc' # "mount" /\ plantPc \notin {"act", "park", "clear"}
    BY <1>14 DEF PlantTakes, PlantAcks, PlantGates, PlantDrives, PlantGoto
  <2>2. QED
    BY <2>1
<1>15. CASE HostSends \/ Tick \/ PeerKillChanges \/ UNCHANGED vars
  <2>1. UNCHANGED <<live, stage, plantPc, local, leaseSeq, applyRb, sessions, hostPc>>
    BY <1>15 DEF HostSends, Tick, PeerKillChanges, vars
  <2>2. QED
    BY <2>1
<1>16. QED
  BY <1>1, <1>2, <1>3, <1>4, <1>5, <1>6, <1>7, <1>8, <1>9, <1>10, <1>11, <1>12,
     <1>13, <1>14, <1>15 DEF Next, HostTask, PlantTask

-----------------------------------------------------------------------------
(* The reset state is well typed (app_init).                               *)
LEMMA TypeInit == Init => TypeOK
<1> SUFFICES ASSUME Init PROVE TypeOK
  OBVIOUS
<1> USE BoundsAssumption, TimesAssumption, KillsAssumption DEF Init
<1>1. EnvOK /\ HostOK
  BY DEF EnvOK, HostOK, HostPcs, None
<1>2. PlantOK /\ LinkOK /\ DesireOK
  BY DEF PlantOK, LinkOK, DesireOK, PlantPcs, Desire, Idle, None
<1>3. BenchOK
  BY DEF BenchOK
<1>4. FlagsOK
  BY DEF FlagsOK
<1>5. QED
  BY <1>1, <1>2, <1>3, <1>4 DEF TypeOK

(* Every reachable state is well typed.                                    *)
THEOREM TypeCorrect == Spec => []TypeOK
<1>1. TypeOK /\ [Next]_vars => TypeOK'
  BY EnvStep, HostStep, PlantStep, LinkStep, DesireStep, BenchStep, FlagsStep DEF
       TypeOK
<1>2. QED
  BY <1>1, TypeInit, PTL DEF Spec, Safety

(* The invariant of ring order, park order, park completeness and the shut *)
(* gate holds in every reachable state.                                    *)
THEOREM Inductive == Spec => []IInv
<1>1. Init => IInv
  <2> SUFFICES ASSUME Init PROVE IInv
    OBVIOUS
  <2>1. OrderInv
    BY DEF Init, OrderInv, None
  <2>2. ParkInv /\ AckInv
    BY DEF Init, ParkInv, AckInv, SinceParked, Idle
  <2>3. LeaseInv
    BY DEF Init, LeaseInv
  <2>4. QED
    BY <2>1, <2>2, <2>3, TypeInit DEF IInv
<1>2. IInv /\ [Next]_vars => IInv'
  <2> SUFFICES ASSUME IInv, [Next]_vars PROVE IInv'
    OBVIOUS
  <2>1. TypeOK'
    BY EnvStep, HostStep, PlantStep, LinkStep, DesireStep, BenchStep, FlagsStep
       DEF IInv, TypeOK
  <2>2. OrderInv' /\ ParkInv' /\ AckInv'
    BY OrderInvStep, ParkInvStep, AckInvStep
  <2>3. LeaseInv'
    BY <2>1, <2>2, LeaseInvStep
  <2>4. QED
    BY <2>1, <2>2, <2>3 DEF IInv
<1>3. QED
  BY <1>1, <1>2, PTL DEF Spec, Safety

(* A lap never drives a desire sent before an ESTOP or RECOVERY that       *)
(* PlantTask has dispatched (plant_recovery_all).                          *)
THEOREM StaleNeverDriven == Spec => []NoStaleDrive
<1>1. IInv => NoStaleDrive
  BY DEF IInv, ParkInv, SinceParked, NoStaleDrive
<1>2. QED
  BY <1>1, Inductive, PTL

(* cmd_applied_seq never runs backwards (host_link_apply_pending_plant).   *)
THEOREM AppliedMonotone == Spec => AppliedInOrder
<1>1. IInv /\ [Next]_vars => [appliedSeq' >= appliedSeq]_appliedSeq
  <2> SUFFICES ASSUME IInv, Next, appliedSeq' # appliedSeq
               PROVE  appliedSeq' >= appliedSeq
    BY DEF vars
  <2>1. PlantTakes
    BY DEF Next, HostSends, Tick, PeerKillChanges,
           HostTask, HostHoldsPlant, HostStartsBench, BenchBegin, BenchEnd,
           BenchQueuesRs, BenchQueuesDxl, BenchStartsProbe, BenchClears, BenchReleases,
           HostStampsBench, HostDrained, HostStages, HostStampsPlant, HostWatchdog,
           HostTakesProbe, HostEndsProbe, HostStartsDxl, HostEndsDxl,
           PlantTask, PlantDispatches, PlantActs, PlantMounts, PlantParks, PlantClears,
           PlantAcks, PlantLoadsLive, PlantGates, PlantDrives
  <2>2. pending # None /\ appliedSeq' = pending.seq
    BY <2>1 DEF PlantTakes
  <2>3. appliedSeq \in Nat /\ pending.seq \in Nat
    BY <2>2, BoundsAssumption DEF IInv, TypeOK, LinkOK, PlantOK, PlantFrame
  <2>4. QED
    BY <2>2, <2>3 DEF IInv, OrderInv
<1>2. QED
  BY <1>1, Inductive, PTL DEF Spec, Safety, AppliedInOrder

(* SOFT_READY is raised only behind the disable frames and the cleared     *)
(* desires (plant_command_image_dispatch_plant).                           *)
THEOREM AckAfterPark == Spec => AckOnlyParked
<1> DEFINE Parked == motor = "off" /\ stage = None /\ ~live.drive
<1>1. IInv /\ [Next]_vars => [killReq' = "SOFT_READY" => Parked]_killReq
  <2> SUFFICES ASSUME IInv, Next, killReq' # killReq, killReq' = "SOFT_READY"
               PROVE  Parked
    BY DEF vars
  <2>1. PlantAcks
    BY DEF Next, HostSends, Tick, PeerKillChanges,
           HostTask, HostHoldsPlant, HostStartsBench, BenchBegin, BenchEnd,
           BenchQueuesRs, BenchQueuesDxl, BenchStartsProbe, BenchClears, BenchReleases,
           HostStampsBench, HostDrained, HostStages, HostStampsPlant, HostWatchdog,
           HostTakesProbe, HostEndsProbe, HostStartsDxl, HostEndsDxl, DropAck,
           PlantTask, PlantTakes, PlantDispatches, PlantActs, PlantMounts, PlantParks,
           PlantClears, PlantLoadsLive, PlantGates, PlantDrives
  <2>2. plantPc = "ack"
    BY <2>1 DEF PlantAcks, PlantGoto
  <2>3. QED
    BY <2>2 DEF IInv, AckInv
<1>2. QED
  BY <1>1, Inductive, PTL DEF Spec, Safety, AckOnlyParked

(* No lap is let through with a loaded desire applied before the last      *)
(* lease, while the lease lasts and after its END, even when BEGIN cut     *)
(* into the dispatch that mounts it (plant_runtime_actuator_can_apply).    *)
THEOREM LeaseKeepsGateShut == Spec => LeaseCutsDrive
<1> DEFINE Cut == plantPc' = "drive" /\ live.drive => live.seq > leaseSeq
<1>1. IInv /\ [Next]_vars => [Cut]_plantPc
  <2> SUFFICES ASSUME IInv, Next, plantPc' # plantPc, plantPc' = "drive", live.drive
               PROVE  live.seq > leaseSeq
    BY DEF vars
  <2>1. PlantGates
    BY DEF Next, HostSends, Tick, PeerKillChanges,
           HostTask, HostHoldsPlant, HostStartsBench, BenchBegin, BenchEnd,
           BenchQueuesRs, BenchQueuesDxl, BenchStartsProbe, BenchClears, BenchReleases,
           HostStampsBench, HostDrained, HostStages, HostStampsPlant, HostWatchdog,
           HostTakesProbe, HostEndsProbe, HostStartsDxl, HostEndsDxl, PlantGoto,
           PlantTask, PlantTakes, PlantDispatches, PlantActs, PlantMounts, PlantParks,
           PlantClears, PlantAcks, PlantLoadsLive, PlantDrives
  <2>2. applyRb /\ sessions = {} /\ plantPc = "gate"
    BY <2>1 DEF PlantGates, CanApply, SkipCan
  <2>3. ~OldDrive
    BY <2>2 DEF IInv, LeaseInv
  <2>4. live.seq \in Nat /\ leaseSeq \in Nat
    BY BoundsAssumption DEF IInv, TypeOK, DesireOK, LinkOK, Desire
  <2>5. QED
    BY <2>3, <2>4 DEF OldDrive
<1>2. QED
  BY <1>1, Inductive, PTL DEF Spec, Safety, LeaseCutsDrive

=============================================================================
