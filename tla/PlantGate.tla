------------------------------ MODULE PlantGate ------------------------------
(***************************************************************************)
(* The command path of the controls firmware, from the frames the USB ring *)
(* holds to the plant lap that puts desires on the actuator CAN buses.     *)
(*                                                                         *)
(* Two FreeRTOS tasks of equal priority share it without a common lock:    *)
(*   HostTask   drains the ring (host_link.c), coalesces plant images,     *)
(*              serves bench requests (diag/), and runs their probes;      *)
(*   PlantTask  on every TIM6 tick takes the staged image, dispatches it   *)
(*              (plant_command.c) and runs the gated apply (actuator.c).   *)
(* A step of either task is what it does between two shared accesses, so   *)
(* every place where the scheduler can switch tasks to some effect is a    *)
(* value of hostPc or plantPc.                                             *)
(***************************************************************************)
EXTENDS Naturals, Sequences

CONSTANTS
  PlantImages,   \* plant images the host may stream (CMDH), without the seq
  BenchOps,      \* bench requests the host may send (DBGC, one lane armed)
  Protocols,     \* bench protocols in use: some of "RS", "DM", "CM", "ZE"
  PeerKills,     \* kill states pdb_link_kill_state may report
  MaxSeq,        \* bound: frames the host sends before it falls silent
  MaxWire,       \* bound: frames in the USB ring
  SoftMs,        \* ACTUATOR_HOST_STALE_MS
  HardMs,        \* ACTUATOR_HOST_STALE_HARD_MS
  LeaseMs,       \* DIAG_HOST_STALE_MS
  QuietMs,       \* PLANT_DIAG_*_QUIET_MS
  StuckMs        \* DIAG_PROBE_STUCK_MS

ImageType == [mcu: {"NORMAL", "DIAG_ONLY", "RECOVERY", "ESTOP"},
              apply: BOOLEAN,   \* plant_apply bit of the system word
              drive: BOOLEAN]   \* some enabled slot has a non-idle desire

OpType == [proto: {"RS", "DM", "CM", "ZE", "DXL"}, kind: {"begin", "end", "probe"}]

KillType == {"NORMAL", "SOFT_REQ", "SOFT_READY", "HARD_ESTOP"}

ASSUME ImagesAssumption == PlantImages \subseteq ImageType
ASSUME OpsAssumption ==
  /\ Protocols \subseteq {"RS", "DM", "CM", "ZE"}
  /\ BenchOps \subseteq {o \in OpType : \/ o.proto \in Protocols
                                        \/ o.proto = "DXL" /\ o.kind = "probe"}
ASSUME KillsAssumption == PeerKills \subseteq KillType /\ "NORMAL" \in PeerKills
ASSUME BoundsAssumption == MaxSeq \in Nat \ {0} /\ MaxWire \in Nat \ {0}
(* 500 < 3000 < 8000 in the source. *)
ASSUME TimesAssumption ==
  /\ {SoftMs, HardMs, LeaseMs, QuietMs, StuckMs} \subseteq Nat \ {0}
  /\ SoftMs < HardMs /\ HardMs < LeaseMs

VARIABLES
  wire,          \* frames in the USB ring, oldest first
  sent,          \* seq of the last frame the host sent
  peerKill,      \* what pdb_link_kill_state() reports
  motor,         \* the last thing plant frames told the motors
  hostPc, hold, op,      \* HostTask: program point, plant_hold, request served
  plantPc, local,        \* PlantTask: program point, image being dispatched
  pending,       \* g_plant_pending and its image
  lastSeq, appliedSeq,   \* g_last_command_seq, g_last_applied_seq
  age,           \* ms since g_last_command_ms, up to LeaseMs + 1 ("stale")
  applyRb,       \* g_plant_apply_readback
  estopReq, killReq,     \* s_estop_requested, s_kill_request of pdb_link.c
  stage, live,   \* actuator_desire_stage (if pending), actuator_desire_live
  sessions,      \* protocols whose g_*_session_active is set
  quiet,         \* ms left of each g_*_quiet_until_ms
  probePending, probeBusy, probeAge,  \* g_rs2_probe_pending, g_probe_in_progress,
                                      \* ms since g_probe_started_ms
  dxlPending,    \* g_dxl_probe_pending
  parkSeq,       \* history: seq of the last ESTOP/RECOVERY image dispatched
  leaseSeq       \* history: appliedSeq when the last lease was taken; 0
                 \*   once a control image or the watchdog has ended it

envVars   == <<wire, sent, peerKill>>
hostVars  == <<hostPc, hold, op>>
history   == <<parkSeq, leaseSeq>>
plantVars == <<plantPc, local, history>>
linkVars  == <<lastSeq, appliedSeq, age>>
killVars  == <<estopReq, killReq>>
desire    == <<stage, live>>
probeVars == <<probePending, probeBusy, probeAge>>
diagVars  == <<sessions, quiet, probeVars>>
vars == <<envVars, motor, hostVars, plantVars, pending, linkVars, applyRb,
          killVars, desire, diagVars, dxlPending>>

None == [seq |-> 0]
Idle == [seq |-> 0, drive |-> FALSE]   \* a cleared desire table

PlantFrame == [seq: 1..MaxSeq, img: PlantImages]
BenchFrame == [seq: 1..MaxSeq, bench: BenchOps]
Frame      == PlantFrame \cup BenchFrame
Desire     == [seq: 0..MaxSeq, drive: BOOLEAN]

IsPlant(f) == "img" \in DOMAIN f

HostPcs  == {"rx", "bench", "clear", "release", "done", "stage", "stamp",
             "watch", "run", "probe", "dxl", "dxlrun"}
PlantPcs == {"wait", "disp", "act", "mount", "park", "clear", "ack", "live",
             "gate", "drive"}

EnvOK ==
  /\ wire \in Seq(Frame) /\ sent \in 0..MaxSeq
  /\ peerKill \in PeerKills /\ motor \in {"off", "idle", "driven"}
HostOK ==
  /\ hostPc \in HostPcs /\ hold \in PlantFrame \cup {None}
  /\ op \in BenchFrame \cup {None}
  /\ hostPc \in {"bench", "clear", "release", "done"} => op # None
  /\ hostPc \in {"stage", "stamp"} => hold # None
PlantOK ==
  /\ plantPc \in PlantPcs /\ local \in PlantFrame \cup {None}
  /\ pending \in PlantFrame \cup {None}
  /\ plantPc \in {"disp", "act", "mount"} => local # None
LinkOK ==
  /\ lastSeq \in 0..MaxSeq /\ appliedSeq \in 0..MaxSeq
  /\ parkSeq \in 0..MaxSeq /\ leaseSeq \in 0..MaxSeq
  /\ age \in 0..LeaseMs + 1
  /\ killReq \in {"NORMAL", "SOFT_READY"}
DesireOK == stage \in Desire \cup {None} /\ live \in Desire
BenchOK ==
  /\ sessions \subseteq Protocols /\ quiet \in [Protocols -> 0..QuietMs]
  /\ probeAge \in 0..StuckMs + 1
FlagsOK ==
  /\ applyRb \in BOOLEAN /\ estopReq \in BOOLEAN
  /\ probePending \in BOOLEAN /\ probeBusy \in BOOLEAN /\ dxlPending \in BOOLEAN

TypeOK ==
  EnvOK /\ HostOK /\ PlantOK /\ LinkOK /\ DesireOK /\ BenchOK /\ FlagsOK

(***************************************************************************)
(* Reset: app_init clears the lot; nothing has been heard from the host.   *)
(***************************************************************************)
Init ==
  /\ wire = <<>> /\ sent = 0 /\ peerKill = "NORMAL" /\ motor = "off"
  /\ hostPc = "rx" /\ hold = None /\ op = None
  /\ plantPc = "wait" /\ local = None /\ pending = None
  /\ lastSeq = 0 /\ appliedSeq = 0 /\ age = LeaseMs + 1
  /\ parkSeq = 0 /\ leaseSeq = 0
  /\ applyRb = FALSE /\ estopReq = FALSE /\ killReq = "NORMAL"
  /\ stage = None /\ live = Idle
  /\ sessions = {} /\ quiet = [p \in Protocols |-> 0]
  /\ probePending = FALSE /\ probeBusy = FALSE /\ dxlPending = FALSE
  /\ probeAge = 0

-----------------------------------------------------------------------------
(* Predicates the gates and the watchdog read. *)

(* A definition named ...Mutated is a plausible slip in the definition that
   follows it; each run's properties are tried against one of them.        *)

Fresh(ms)  == age <= ms                        \* host_link_command_is_fresh
ProbeBusy  == probeBusy \/ probePending        \* plant_diag_probe_busy
QuietOn    == \E p \in Protocols : quiet[p] > 0
SkipCan    == sessions # {} \/ ProbeBusy \/ QuietOn

CanApplyMutated ==   \* a loaded joint is exempt without a ceiling
  applyRb /\ ~SkipCan /\ (Fresh(SoftMs) \/ live.drive)

(* plant_runtime_actuator_can_apply: no reason to block the lap.  A loaded *)
(* joint keeps its torque through a short host hiccup, up to HardMs.       *)
CanApply ==
  /\ applyRb
  /\ ~SkipCan
  /\ Fresh(SoftMs) \/ (live.drive /\ Fresh(HardMs))

(* plant_diag_release_actuator_can: every lease, quiet and probe flag off. *)
Release ==
  /\ sessions' = {}
  /\ quiet' = [p \in Protocols |-> 0]
  /\ probePending' = FALSE /\ probeBusy' = FALSE /\ probeAge' = 0

ClearDesireMutated == stage' = None /\ UNCHANGED live   \* staged table only
ClearDesire == stage' = None /\ live' = Idle   \* actuator_desire_clear

(* plant_command.c drops the READY ack once the PDB is back to NORMAL. *)
DropAck == killReq' = IF peerKill = "NORMAL" THEN "NORMAL" ELSE killReq

HostGoto(from, to) == hostPc = from /\ hostPc' = to
PlantGoto(from, to) == plantPc = from /\ plantPc' = to

-----------------------------------------------------------------------------
(* Environment: host, wall clock, power board.                             *)

HostSends ==
  /\ sent < MaxSeq /\ Len(wire) < MaxWire
  /\ sent' = sent + 1
  /\ \/ \E i \in PlantImages : wire' = Append(wire, [seq |-> sent', img |-> i])
     \/ \E b \in BenchOps : wire' = Append(wire, [seq |-> sent', bench |-> b])
  /\ UNCHANGED <<peerKill, motor, hostVars, plantVars, pending, linkVars, applyRb,
                 killVars, desire, diagVars, dxlPending>>

Elapsed(n, cap) == IF n < cap THEN n + 1 ELSE cap

(* HAL tick.  All deadlines are kept as ages and remainders. *)
Tick ==
  /\ age' = Elapsed(age, LeaseMs + 1)
  /\ quiet' = [p \in Protocols |-> IF quiet[p] = 0 THEN 0 ELSE quiet[p] - 1]
  /\ probeAge' = IF probeBusy THEN Elapsed(probeAge, StuckMs + 1) ELSE probeAge
  /\ UNCHANGED <<envVars, motor, hostVars, plantVars, pending, lastSeq, appliedSeq,
                 applyRb, killVars, desire, sessions, probePending, probeBusy,
                 dxlPending>>

PeerKillChanges ==
  /\ peerKill' \in PeerKills \ {peerKill}
  /\ UNCHANGED <<wire, sent, motor, hostVars, plantVars, pending, linkVars, applyRb,
                 killVars, desire, diagVars, dxlPending>>

-----------------------------------------------------------------------------
(* HostTask, draining: host_link_poll_rx and the bench handlers.           *)

(* A plant image only replaces the one held so far in this drain. *)
HostHoldsPlant ==
  /\ hostPc = "rx" /\ wire # <<>> /\ IsPlant(Head(wire))
  /\ hold' = Head(wire) /\ wire' = Tail(wire)
  /\ UNCHANGED <<sent, peerKill, motor, hostPc, op, plantVars, pending, linkVars,
                 applyRb, killVars, desire, diagVars, dxlPending>>

HostStartsBenchMutated ==   \* the control image in force stays in force
  /\ HostGoto("rx", "bench") /\ wire # <<>> /\ ~IsPlant(Head(wire))
  /\ op' = Head(wire) /\ wire' = Tail(wire)
  /\ DropAck
  /\ UNCHANGED <<sent, peerKill, motor, hold, plantVars, pending, linkVars, applyRb,
                 estopReq, desire, diagVars, dxlPending>>

(* A debug frame is dispatched on the spot, ahead of any plant image held. *)
(* The prologue of plant_command_dispatch_debug_lanes.                     *)
HostStartsBench ==
  /\ HostGoto("rx", "bench") /\ wire # <<>> /\ ~IsPlant(Head(wire))
  /\ op' = Head(wire) /\ wire' = Tail(wire)
  /\ applyRb' = FALSE
  /\ DropAck
  /\ UNCHANGED <<sent, peerKill, motor, hold, plantVars, pending, linkVars, estopReq,
                 desire, diagVars, dxlPending>>

(* SESSION_BEGIN: take the lease.  RS also ends its own quiet period, DM   *)
(* also drops a queued probe.                                              *)
BenchBegin ==
  /\ HostGoto("bench", "clear") /\ op.bench.kind = "begin"
  /\ sessions' = sessions \cup {op.bench.proto}
  /\ quiet' = IF op.bench.proto = "RS" THEN [quiet EXCEPT !["RS"] = 0] ELSE quiet
  /\ leaseSeq' = appliedSeq
  /\ IF op.bench.proto = "DM"
     THEN probePending' = FALSE /\ probeBusy' = FALSE /\ UNCHANGED probeAge
     ELSE UNCHANGED probeVars
  /\ UNCHANGED <<envVars, motor, hold, op, plantPc, local, parkSeq, pending,
                 linkVars, applyRb, killVars, desire, dxlPending>>

(* SESSION_END: drop the lease and hold the plant off for QuietMs.         *)
BenchEnd ==
  /\ hostPc = "bench" /\ op.bench.kind = "end"
  /\ hostPc' = IF op.bench.proto = "RS" THEN "clear" ELSE "release"
  /\ sessions' = sessions \ {op.bench.proto}
  /\ quiet' = [quiet EXCEPT ![op.bench.proto] = QuietMs]
  /\ IF op.bench.proto = "DM"
     THEN probePending' = FALSE /\ probeBusy' = FALSE /\ UNCHANGED probeAge
     ELSE UNCHANGED probeVars
  /\ UNCHANGED <<envVars, motor, hold, op, plantVars, pending, linkVars, applyRb,
                 killVars, desire, dxlPending>>

(* An RS probe is queued for plant_diag_service; it replaces a queued one. *)
BenchQueuesRs ==
  /\ HostGoto("bench", "done") /\ op.bench = [proto |-> "RS", kind |-> "probe"]
  /\ probePending' = TRUE /\ probeBusy' = TRUE /\ probeAge' = 0
  /\ UNCHANGED <<envVars, motor, hold, op, plantVars, pending, linkVars, applyRb,
                 killVars, desire, sessions, quiet, dxlPending>>

BenchQueuesDxl ==
  /\ HostGoto("bench", "done") /\ op.bench.proto = "DXL"
  /\ dxlPending' = TRUE
  /\ UNCHANGED <<envVars, motor, hold, op, plantVars, pending, linkVars, applyRb,
                 killVars, desire, diagVars>>

(* The other protocols probe inside the handler, unless a probe is already *)
(* in progress.  CM and ZE raise g_probe_in_progress, DM does not.         *)
BenchStartsProbe ==
  /\ hostPc = "bench" /\ op.bench.kind = "probe"
  /\ op.bench.proto \in {"DM", "CM", "ZE"}
  /\ IF probeBusy
     THEN hostPc' = "done" /\ UNCHANGED probeBusy
     ELSE /\ hostPc' = "probe"
          /\ probeBusy' = (op.bench.proto # "DM")
  /\ UNCHANGED <<envVars, motor, hold, op, plantVars, pending, linkVars, applyRb,
                 killVars, desire, sessions, quiet, probePending, probeAge, dxlPending>>

(* The session's desires start from zero: BEGIN, and END of an RS session. *)
BenchClears ==
  /\ HostGoto("clear", "done")
  /\ ClearDesire
  /\ UNCHANGED <<envVars, motor, hold, op, plantVars, pending, linkVars, applyRb,
                 killVars, diagVars, dxlPending>>

(* END of a DM, CM or ZE session releases everything after the USB flush,  *)
(* the quiet period it has just set included.                              *)
BenchReleases ==
  /\ HostGoto("release", "done")
  /\ Release
  /\ UNCHANGED <<envVars, motor, hold, op, plantVars, pending, linkVars, applyRb,
                 killVars, desire, dxlPending>>

(* host_command_image_dispatch stamps the debug frame once it was served.  *)
HostStampsBench ==
  /\ HostGoto("done", "rx")
  /\ lastSeq' = op.seq /\ age' = 0 /\ op' = None
  /\ UNCHANGED <<envVars, motor, hold, plantVars, pending, appliedSeq, applyRb,
                 killVars, desire, diagVars, dxlPending>>

(* Ring empty: stage the image held, if any, or go on to the services.     *)
HostDrained ==
  /\ hostPc = "rx" /\ wire = <<>>
  /\ hostPc' = IF hold = None THEN "watch" ELSE "stage"
  /\ UNCHANGED <<envVars, motor, hold, op, plantVars, pending, linkVars, applyRb,
                 killVars, desire, diagVars, dxlPending>>

HostStagesMutated ==   \* an image still pending is kept
  /\ HostGoto("stage", "stamp")
  /\ pending' = IF pending = None THEN hold ELSE pending
  /\ UNCHANGED <<envVars, motor, hold, op, plantVars, linkVars, applyRb, killVars,
                 desire, diagVars, dxlPending>>

HostStages ==
  /\ HostGoto("stage", "stamp")
  /\ pending' = hold
  /\ UNCHANGED <<envVars, motor, hold, op, plantVars, linkVars, applyRb, killVars,
                 desire, diagVars, dxlPending>>

HostStampsPlantMutated ==   \* the image held is staged again by the next drain
  /\ HostGoto("stamp", "watch")
  /\ lastSeq' = hold.seq /\ age' = 0
  /\ UNCHANGED <<envVars, motor, hold, op, plantVars, pending, appliedSeq, applyRb,
                 killVars, desire, diagVars, dxlPending>>

HostStampsPlant ==
  /\ HostGoto("stamp", "watch")
  /\ lastSeq' = hold.seq /\ age' = 0 /\ hold' = None
  /\ UNCHANGED <<envVars, motor, op, plantVars, pending, appliedSeq, applyRb,
                 killVars, desire, diagVars, dxlPending>>

-----------------------------------------------------------------------------
(* HostTask, plant_diag_service: watchdog, queued RS probe, DXL probe.     *)

ProbeStuck == probeBusy /\ probeAge > StuckMs
LeaseStaleMutated ==   \* only the RS lease is watched
  ~ProbeBusy /\ ~Fresh(LeaseMs) /\ "RS" \in sessions
LeaseStale == ~ProbeBusy /\ ~Fresh(LeaseMs) /\ sessions # {}

HostWatchdog ==
  /\ HostGoto("watch", "run")
  /\ IF ProbeStuck \/ LeaseStale
     THEN Release /\ leaseSeq' = 0
     ELSE UNCHANGED <<diagVars, leaseSeq>>
  /\ UNCHANGED <<envVars, motor, hold, op, plantPc, local, parkSeq, pending,
                 linkVars, applyRb, killVars, desire, dxlPending>>

HostTakesProbe ==
  /\ hostPc = "run"
  /\ hostPc' = IF probePending THEN "probe" ELSE "dxl"
  /\ probePending' = FALSE
  /\ UNCHANGED <<envVars, motor, hold, op, plantVars, pending, linkVars, applyRb,
                 killVars, desire, sessions, quiet, probeBusy, probeAge, dxlPending>>

(* The probe has had its answers: of the queued RS probe (op = None) or of *)
(* the DM, CM or ZE request being served.                                  *)
HostEndsProbe ==
  /\ hostPc = "probe"
  /\ hostPc' = IF op = None THEN "dxl" ELSE "done"
  /\ probeBusy' = FALSE
  /\ probeAge' = IF op = None THEN 0 ELSE probeAge
  /\ UNCHANGED <<envVars, motor, hold, op, plantVars, pending, linkVars, applyRb,
                 killVars, desire, sessions, quiet, probePending, dxlPending>>

HostStartsDxl ==
  /\ hostPc = "dxl"
  /\ hostPc' = IF dxlPending THEN "dxlrun" ELSE "rx"
  /\ probeBusy' = (dxlPending \/ probeBusy)
  /\ dxlPending' = FALSE
  /\ UNCHANGED <<envVars, motor, hold, op, plantVars, pending, linkVars, applyRb,
                 killVars, desire, sessions, quiet, probePending, probeAge>>

HostEndsDxl ==
  /\ HostGoto("dxlrun", "rx")
  /\ probeBusy' = FALSE
  /\ UNCHANGED <<envVars, motor, hold, op, plantVars, pending, linkVars, applyRb,
                 killVars, desire, sessions, quiet, probePending, probeAge, dxlPending>>

HostTask ==
  \/ HostHoldsPlant \/ HostStartsBench
  \/ BenchBegin \/ BenchEnd \/ BenchQueuesRs \/ BenchQueuesDxl \/ BenchStartsProbe
  \/ BenchClears \/ BenchReleases \/ HostStampsBench
  \/ HostDrained \/ HostStages \/ HostStampsPlant
  \/ HostWatchdog \/ HostTakesProbe \/ HostEndsProbe \/ HostStartsDxl \/ HostEndsDxl

-----------------------------------------------------------------------------
(* PlantTask: one lap of control_loop_service.                             *)

PlantTakesMutated ==   \* the link's seq is taken for the image's
  /\ plantPc = "wait"
  /\ IF pending = None
     THEN plantPc' = "live" /\ UNCHANGED <<local, pending, appliedSeq>>
     ELSE /\ plantPc' = "disp"
          /\ local' = pending /\ pending' = None
          /\ appliedSeq' = lastSeq
  /\ UNCHANGED <<envVars, motor, hostVars, history, lastSeq, age, applyRb, killVars,
                 desire, diagVars, dxlPending>>

(* host_link_apply_pending_plant, critical section. *)
PlantTakes ==
  /\ plantPc = "wait"
  /\ IF pending = None
     THEN plantPc' = "live" /\ UNCHANGED <<local, pending, appliedSeq>>
     ELSE /\ plantPc' = "disp"
          /\ local' = pending /\ pending' = None
          /\ appliedSeq' = pending.seq
  /\ UNCHANGED <<envVars, motor, hostVars, history, lastSeq, age, applyRb, killVars,
                 desire, diagVars, dxlPending>>

PlantDispatchesMutated ==   \* ESTOP is latched for the PDB but only RECOVERY parks
  /\ plantPc = "disp"
  /\ applyRb' = (local.img.apply /\ local.img.mcu # "DIAG_ONLY")
  /\ estopReq' = (local.img.mcu = "ESTOP")
  /\ IF local.img.mcu = "RECOVERY"
     THEN plantPc' = "park" /\ parkSeq' = local.seq
     ELSE plantPc' = "act" /\ UNCHANGED parkSeq
  /\ UNCHANGED <<envVars, motor, hostVars, local, leaseSeq, pending, linkVars,
                 killReq, desire, diagVars, dxlPending>>

(* plant_command_image_dispatch_plant, up to the mcu_state branch. *)
PlantDispatches ==
  /\ plantPc = "disp"
  /\ applyRb' = (local.img.apply /\ local.img.mcu # "DIAG_ONLY")
  /\ estopReq' = (local.img.mcu = "ESTOP")
  /\ IF local.img.mcu \in {"ESTOP", "RECOVERY"}
     THEN plantPc' = "park" /\ parkSeq' = local.seq
     ELSE plantPc' = "act" /\ UNCHANGED parkSeq
  /\ UNCHANGED <<envVars, motor, hostVars, local, leaseSeq, pending, linkVars,
                 killReq, desire, diagVars, dxlPending>>

(* NORMAL: an observe image ends here; a control image takes the buses     *)
(* back from the bench before it mounts.                                   *)
PlantActs ==
  /\ plantPc = "act"
  /\ DropAck
  /\ IF applyRb
     THEN plantPc' = "mount" /\ Release /\ leaseSeq' = 0
     ELSE plantPc' = "live" /\ UNCHANGED <<diagVars, leaseSeq>>
  /\ UNCHANGED <<envVars, motor, hostVars, local, parkSeq, pending, linkVars, applyRb,
                 estopReq, desire, dxlPending>>

PlantMounts ==   \* actuator_command_mount
  /\ PlantGoto("mount", "live")
  /\ stage' = [seq |-> local.seq, drive |-> local.img.drive]
  /\ UNCHANGED <<envVars, motor, hostVars, local, history, pending, linkVars, applyRb,
                 killVars, live, diagVars, dxlPending>>

PlantParksMutated ==   \* tables and leases only, no disable frames
  /\ PlantGoto("park", "clear")
  /\ Release
  /\ UNCHANGED <<envVars, motor, hostVars, local, history, pending, linkVars, applyRb,
                 killVars, desire, dxlPending>>

(* plant_recovery_all: disable frames for every drive, then release and    *)
(* clear; then the soft-kill acknowledgement if the PDB asks for it.       *)
PlantParks ==
  /\ PlantGoto("park", "clear")
  /\ motor' = "off"
  /\ Release
  /\ UNCHANGED <<envVars, hostVars, local, history, pending, linkVars, applyRb,
                 killVars, desire, dxlPending>>

PlantClears ==
  /\ PlantGoto("clear", "ack")
  /\ ClearDesire
  /\ UNCHANGED <<envVars, motor, hostVars, local, history, pending, linkVars, applyRb,
                 killVars, diagVars, dxlPending>>

PlantAcks ==
  /\ PlantGoto("ack", "live")
  /\ killReq' = IF peerKill = "SOFT_REQ" THEN "SOFT_READY" ELSE killReq
  /\ UNCHANGED <<envVars, motor, hostVars, local, history, pending, linkVars, applyRb,
                 estopReq, desire, diagVars, dxlPending>>

(* actuator_apply_desire: stage to live under the lock, the gate, the lap. *)
PlantLoadsLive ==
  /\ PlantGoto("live", "gate")
  /\ live' = IF stage = None THEN live ELSE stage
  /\ stage' = None /\ local' = None
  /\ UNCHANGED <<envVars, motor, hostVars, history, pending, linkVars, applyRb,
                 killVars, diagVars, dxlPending>>

PlantGates ==
  /\ plantPc = "gate"
  /\ plantPc' = IF CanApply THEN "drive" ELSE "wait"
  /\ UNCHANGED <<envVars, motor, hostVars, local, history, pending, linkVars, applyRb,
                 killVars, desire, diagVars, dxlPending>>

PlantDrives ==
  /\ PlantGoto("drive", "wait")
  /\ motor' = IF live.drive THEN "driven" ELSE "idle"
  /\ UNCHANGED <<envVars, hostVars, local, history, pending, linkVars, applyRb,
                 killVars, desire, diagVars, dxlPending>>

PlantTask ==
  \/ PlantTakes \/ PlantDispatches \/ PlantActs \/ PlantMounts
  \/ PlantParks \/ PlantClears \/ PlantAcks
  \/ PlantLoadsLive \/ PlantGates \/ PlantDrives

-----------------------------------------------------------------------------
Next == HostSends \/ Tick \/ PeerKillChanges \/ HostTask \/ PlantTask

Safety == Init /\ [][Next]_vars

(* Equal priorities are time-sliced and TIM6 keeps waking PlantTask, so    *)
(* both tasks run for ever; the host and the power board owe nothing.      *)
Spec == Safety /\ WF_vars(Tick) /\ WF_vars(HostTask) /\ WF_vars(PlantTask)

-----------------------------------------------------------------------------
(* Properties.                                                             *)

(* A lap never drives a desire the host sent before an ESTOP or RECOVERY   *)
(* image that PlantTask has already dispatched, whatever the bench does    *)
(* meanwhile (plant_recovery_all, host_link_apply_pending_plant).          *)
NoStaleDrive == plantPc = "drive" /\ live.drive => live.seq > parkSeq

(* The applied sequence number the host sees never runs backwards, bench   *)
(* frames overtaking plant images in a drain included (host_link_poll_rx). *)
AppliedInOrder == [][appliedSeq' >= appliedSeq]_appliedSeq

(* SOFT_READY is raised only by a recovery that has sent the disable       *)
(* frames and cleared staged and live desires (plant_command.c dispatch).  *)
AckOnlyParked ==
  [][killReq' = "SOFT_READY" => motor = "off" /\ stage = None /\ ~live.drive]_killReq

(* A lease cuts the plant stream: until a control image or the watchdog    *)
(* ends it, and after its own SESSION_END, no lap is let through with a    *)
(* desire applied before it, even when BEGIN cuts into a dispatch that     *)
(* mounts the desire once the lease has cleared the tables (the handlers   *)
(* of diag_rs2.c and diag_dm.c against plant_command.c).                   *)
LeaseCutsDrive ==
  [][plantPc' = "drive" /\ live.drive => live.seq > leaseSeq]_plantPc

(* Every plant image read from the ring is applied, or a later one is:     *)
(* coalescing loses old images and never the newest.                       *)
LatestWins ==
  \A s \in 1..MaxSeq : (hold # None /\ hold.seq = s) ~> appliedSeq >= s

(* An ESTOP image that no later image supersedes parks the plant and       *)
(* latches the ESTOP request for the power board.                          *)
EstopTakesEffect ==
  \A s \in 1..MaxSeq :
    (hold # None /\ hold.seq = s /\ hold.img.mcu = "ESTOP")
      ~> \/ appliedSeq > s
         \/ estopReq /\ parkSeq = s /\ ~live.drive

(* Once the host has fallen silent the gate closes for good: HardMs is a   *)
(* ceiling on how long a loaded joint is driven (diag_gates.c).            *)
SilenceStopsDrive == <>[](plantPc # "drive")

(* ... and no lease, quiet period or probe outlives the host (the watchdog *)
(* of diag_core.c), so the plant is not gated by a vanished bench.         *)
SilenceEndsBench == <>[](sessions = {} /\ ~ProbeBusy /\ ~QuietOn)

(* The inductive invariant behind the four safety properties above.        *)
(* Frames pass ring, hold, pending and PlantTask in the order they were    *)
(* sent; hold is only kept past its staging until it is stamped.           *)
Newer(n) == n > appliedSeq /\ n > pending.seq /\ n > hold.seq
OrderInv ==
  /\ \A i \in 1..Len(wire) : Newer(wire[i].seq) /\ wire[i].seq <= sent
  /\ \A i, j \in 1..Len(wire) : i < j => wire[i].seq < wire[j].seq
  /\ appliedSeq <= sent /\ pending.seq <= sent /\ hold.seq <= sent
  /\ pending # None => pending.seq > appliedSeq
  /\ hold # None /\ hostPc # "stamp" => hold.seq > appliedSeq /\ hold.seq > pending.seq

(* Outside a recovery nothing older than the last park is on its way to    *)
(* the motors.                                                             *)
SinceParked(d) == d.drive => d.seq > parkSeq
ParkInv ==
  /\ parkSeq <= appliedSeq
  /\ plantPc \in {"disp", "act", "mount"} => parkSeq < local.seq /\ local.seq <= appliedSeq
  /\ plantPc \notin {"park", "clear"} =>
       SinceParked(live) /\ (stage # None => SinceParked(stage))

AckInv ==
  /\ plantPc \in {"clear", "ack"} => motor = "off"
  /\ plantPc = "ack" => stage = None /\ ~live.drive

(* While a loaded desire applied before the last lease is still about, the *)
(* gate is kept shut: by the readback that BEGIN and END take back, by the *)
(* lease until END has taken it back, or because PlantTask is about to end *)
(* the lease or to clear the tables itself.                                *)
OldDrive ==
  \/ live.drive /\ live.seq <= leaseSeq
  \/ stage # None /\ stage.drive /\ stage.seq <= leaseSeq
  \/ plantPc = "mount" /\ local.img.drive /\ local.seq <= leaseSeq
LeaseInv ==
  OldDrive =>
    \/ ~applyRb
    \/ sessions # {} /\ hostPc \notin {"bench", "release"}
    \/ plantPc \in {"act", "park", "clear"}

(* Ring order, park order, park completeness and the shut gate are         *)
(* inductive together (host_link.c staging, plant_command.c recovery, the  *)
(* BEGIN and END handlers of diag/).                                       *)
IInv == TypeOK /\ OrderInv /\ ParkInv /\ AckInv /\ LeaseInv

=============================================================================
