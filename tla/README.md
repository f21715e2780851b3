# Verification of the Deft controls board and its host SDK

TLA+ models of the firmware of the controls board (`src/App`, STM32G4, FreeRTOS)
and of the Python SDK that drives it (`src/scripts/deft_controls_sdk`): whether
motors move and whether they stop, whether bench tools find, renumber, flash and
configure what they say, and whether what the host shows and records is what
happened. TLC checks the models on small instances; TLAPS proves
every safety property the runs check (command path, ring, framing, paced transmit,
session, teleoperation, recorder, flashing, bench tools, configuration) for every value of
the parameters.

## 1. The system

A PC streams 694-byte *command images* over USB CDC to the controls board. The
board puts the desires in them on six CAN buses and a half-duplex servo bus,
answers with feedback frames, serves *bench* (debug) requests on the same stream,
and exchanges 64-byte frames with a power distribution board (PDB) over UART4.

On the board two FreeRTOS tasks of equal priority, time-sliced, share everything:

* **HostTask** (`app_host_service`, every `osDelay(1)`): drains the USB ring,
  dispatches bench requests on the spot, coalesces plant images and stages the
  newest (`host_link_poll_rx`), runs probes and the watchdog
  (`plant_diag_service`), serves the PDB link (`pdb_link_service`), sends feedback.
* **PlantTask** (`control_loop_service`, woken by TIM6): takes the staged image
  (`host_link_apply_pending_plant`), dispatches it
  (`plant_command_image_dispatch_plant`) and runs gated laps over the buses
  (`actuator_apply_desire`).

Interrupts fill the receive rings and step the paced UART transmit.

On the PC a `Connection` owns the serial port, a stream thread (resends the held
image, drains feedback) and a telemetry thread (publishes it); request handlers of
the dashboard, the teleoperation engine and scripts call it from threads of their
own. Bench calls pause the stream, write a request and poll the queue of received
frames for a reply. `SessionDiskWriter` has one more thread for the files.

### Inventory

| Component | State it keeps | Operations | Hard part | What makes it correct | Model |
|---|---|---|---|---|---|
| Host command path (`host_link.c`, `plant_command.c`) | staged image, received/applied seq, freshness, apply readback, kill and ESTOP requests | drain, coalesce, stage, stamp, take, dispatch, recover | two tasks, short critical sections around single fields | newest image wins, order kept, nothing from before a stop is driven after it | `PlantGate` |
| Actuator apply (`actuator.c`) | staged and live desires | mount, clear, recovery of all buses, gated lap | gate read once per lap | gate closes with the host | `PlantGate` |
| Bench sessions (`diag/`) | leases, quiet periods, probe flags, queued probe | BEGIN, END, probe, watchdog, release | the plant releases what the bench holds, and the reverse | a lease cuts the plant stream, a vanished bench gives it back | `PlantGate`, `BenchProbe` |
| Receive rings (`host_transport_usb.c`, `pdb_link.c`) | array, head, tail | push (interrupt), read (task) | no lock | a bounded pipe | `ByteRing` implements `ByteFifo` |
| Framing (`host_link.c`, `pdb_link.c`, `pdb/framing.py`) | accumulator | append, check, accept, resync | lost and garbled bytes | finds frames again, faults cost what they must | `RxFraming` |
| PDB link (`pdb_link.c`) | last feedback, its time; frame, index, request latches | consume, evaluate, mirror; build, kick, complete, latch | evaluated while received; a frame takes 64 services to go out | silence ends in HARD_ESTOP; frames whole, requests arrive | `PdbReceive`, `PdbTransmit`, `PeerWire` |
| Configuration and flash (`plant_config*.c`) | RAM table, staged response, flash page | get, set, save, load | power cut between erase and program | old image or defaults, never a part of one | `CfgEditor` |
| Soft DFU (`soft_dfu.c`, `debug/soft_dfu.py`) | boot option, image, ports, what the tool believes of its board | identify, reboot, download, leave, wait, probe | boards enumerate anew at each step | the right board, whole image | `SoftDfu` |
| Stop path (`connection.py`, `controls_pcb_hub.py`, `host_proxy.py`) | held state and desires | stream round, park, recover, arm, disarm, freeze | snapshot and write under different locks, automatic freeze | parks and disarms last | `SoftKill` |
| Session (the same, `stream_pause.py`, `transport.py`) | queue of frames, stream and telemetry threads, latest feedback | open, stream, pause, exchange, status, close | several readers of one queue | a reply reaches its asker, a pause is quiet, a closed session leaves the plant idle | `HostSession` |
| Wire formats (`link/exchange`, `pdb/`) | - | pack, parse | two independent implementations | each side reads what the other wrote | `Wire`, `PeerWire` |
| Bench tools (`debug/`) | lease, found drives, new id | discover, set id, save, calibrate | replies carry no number, everything may be lost | hits are real, nothing doubtful made permanent | `BenchProbe` |
| Configuration tools (`debug/config.py`, `debug/suite`) | shown rows, dirty marks | reload, edit, preset, apply, save | partial applies, retries | clean means applied, saved survives | `CfgEditor` |
| Tables (`config/`) | shipped rows, profiles, presets | match, lay over, put | two id schemes per protocol | each reply has one taker | `SlotMaps` |
| Actions (`actions/`, `yam_limits.py`) | pending patches | jog, hold, preset, apply, clear | limits of two sources, partial batches | commands stay in their windows | `HostPlan` |
| Teleoperation, dashboard (`actions/teleop.py`, `debug_dashboard/state.py`) | engaged slots, sessions, guard | connect, engage, jog, stop, disengage, tick | handlers against a tick in flight | frozen until released, Stop settles, arm braced | `Teleop` |
| Telemetry (`telemetry/`) | ring, capture, snapshot slot, queue | observe, record, flush, clear | lock covers part of the state | files complete and in order | `Telemetry` |
| Board health (`metrics.py`, `inventory.py`, `api_types.py`, `pcb_tui.py`, `led.c`) | - | doctor, measure, inventory | many partial reports | verdicts that mean what they say | `HostHealth` |
| Servo bus, CAN routing, drive plugins' state machines, UART bridge, SPI probes, receive simulation, generated code, ROS bridge, scripts | see section 6 | | | | - |

`PROJECT.json` has the list with sources and reasons, and the hazards of the code
at their lines.

## 2. Modules

`PlantGate` is the centre: it is where images become motion. The other state
machines are its surroundings, each at the level of detail its own questions need,
and each seen by the next in abstract form: `RxFraming` sees the ring of `ByteRing`
as the pipe `ByteFifo` that it is shown to implement; `PlantGate` sees frames, not
bytes; `SoftKill` and `HostSession` see one image, one report and one request, each
the newest of its kind, which is what `LatestWins` and `RequestsReachBoard` say of
the layers below; `Teleop` sees the held desires that the stream of `SoftKill`
resends; `BenchProbe` and `CfgEditor` see exchanges, with the losses and late replies
that the queue of `HostSession` permits; `Wire` says that what those exchanges carry
is understood.

### State machines

* **`PlantGate`** - `hostPc` and `plantPc` are the points where the scheduler can
  switch tasks to some effect: a step is what a task does between two accesses to
  shared state, a critical section is one step. `wire` is the USB ring in frames;
  `hold` the image coalesced so far in a drain; `pending` the staged image;
  `lastSeq`/`appliedSeq` the sequence numbers of the feedback; `stage`/`live` the
  desire tables; `motor` what the lap last told the drives. A desire is the sequence
  number of its image and whether it drives a joint. Bench requests are
  `[proto, kind]` pairs and each handler's differences are kept (RS queues its probe,
  DM does not raise the busy flag, END of RS clears where the others release).
  `parkSeq` and `leaseSeq` are history variables.
* **`ByteRing` / `ByteFifo`** - head read once, bytes copied one by one, tail moved
  last; the interrupt pushes in between. The pipe is the refinement target.
* **`RxFraming`** - a byte is its frame and offset, so that an accepted frame can be
  recognised as genuine or mixed. `hasCrc` chooses the link: PDB feedback (CRC over
  the frame) or USB images (header only). The scan's reads past the accumulated bytes
  are a nondeterministic outcome (`past`). `MCReceive` runs it next to `ByteRing`.
* **`PdbReceive`** - whole frames, one bit for the V/I limits; ages saturate just past
  the limit. State and reason of the mirror are two evaluations, as in
  `host_feedback_fill_system`. **`PdbTransmit`** - one byte per service call
  (`UART4_TX_PACE_BYTES`), HAL may refuse; PlantTask's latches change at any time.
* **`SoftKill`** - an API call and a stream round are sequences of critical sections
  (`todo`), each of one lock; the other thread runs between any two. The board is
  known from `docs/pdb-uart-v1.md` and external. `listen` is `HostProxy.listen_pdu`.
* **`HostSession`** - a call, like a round of the stream, is a script of steps
  (`th[t].todo`); `queue` is `FrameReader._frames`, bounded by `Cap`; `latest`, `gen`, `hot`
  are the fields that the telemetry thread reads without a lock. `MCHostSession` gives
  each thread its calls in order.
* **`SoftDfu`** - `brd[b]` is what a board is: mode, boot option, image and trampoline
  (old, torn, new), the loader's state and pointer, its port. `host` is the command in
  progress with the serial number, port and device it believes in; `used` counts
  commands, power cycles and refusals.
* **`BenchProbe`** - an operation is a program (`host.pc`) over one exchange;
  `toFw` and `reader` are the requests and replies under way, `leased` the firmware's
  session, `drv` the drives with live and saved id, encoder zero, and whether they
  were calibrated. Requests and replies can be lost, timeouts fire early, and Ctrl+C
  can come at any exchange.
* **`CfgEditor`** - `flash` is the page in two halves, `ram` the live configuration,
  `staged` the firmware's one response, `ed` what the editor shows and holds for clean.
  A row is what the firmware treats differently: enabled, the drive (bus and protocol), the
  master id; a block its LED count. The firmware's rewriting of a bus, a protocol or a count
  it has not is part of SET.
  Losses, early timeouts, and power cuts at any point of a SAVE.
* **`Teleop`** - `todo[h]` is what a request handler still has to do, `tick` the copies a
  tick of the engine works with, `act` the engaged slots, `held` the desires of the open
  hub. Position units are what a slot cruises in a tick.
* **`Telemetry`** - `slot` is the coalesced snapshot, `q` the queue of the disk thread,
  `fr` the fault recorder, `todo` the steps callers still take. `reader[o]` is where each
  observer is in `update_from_feedback`: the telemetry thread, and every request that sends
  and polls (`send_once`, `refresh_feedback`, a park). `observe` takes no lock, so its steps
  are one access to the pending capture each. A line in the queue is tagged with its
  recording and its number there, a capture with whether two observers have been inside
  `observe` at once since its trigger (`solo`); no action reads the tags.

The theorems about a module `M` and their proofs are in `M_proofs`: `PlantGate_proofs`,
`HostSession_proofs`, `Teleop_proofs`, `Telemetry_proofs`, `SoftDfu_proofs`,
`BenchProbe_proofs`, `CfgEditor_proofs`; those about `ByteRing`, `RxFraming` and
`PdbTransmit` are in `Links_proofs`, over `MCReceive`, which has the first two, and
`PdbTransmit`.

### Functions checked against reference statements

Formats, tables and decisions have no interleaving; they are modules of operators,
and what is true of them is stated in a `...Checks` module as named assumptions that
TLC evaluates over bounded inputs whenever a run starts. The checks module is
extended by a run's module (`MCBenchProbe` has `WireChecks`, `MCHostSession`
`PeerChecks`, `MCSoftDfu` `MapChecks`, `MCTeleop` `PlanChecks`, `MCTelemetry`
`HealthChecks`).

| Module | Of | Statements |
|---|---|---|
| `Wire` / `WireChecks` | images, lanes, bench requests and replies, on both sides of the USB link | 16: the layout fills the image without overlap; what one side writes the other reads; no reply is heard by another operation; pages of a table put together are the table |
| `PeerWire` / `PeerChecks` | PDB frames with their CRC, the V/I verdict, status, CubeMars MIT frames | 13: every one- and two-bit error is detected; the status the SDK reports is the firmware's verdict; a motion command is never an opcode |
| `SlotMaps` / `MapChecks` | shipped tables, profiles, presets, which reply a slot takes | 14: under every shipped table each reply has one taker and each command one drive; presets touch the slots they name; when a live table is recognised |
| `HostPlan` / `PlanChecks` | limits, jogs, holds, gains, mounted batches, presets | 19: a jog lies in the arm's windows from any stance; applying a batch is applying its patches in order; clear leaves nothing |
| `HostHealth` / `HealthChecks` | traffic light on both sides, doctor, lag and hold measures, inventory, menus | 24: the light inferred is the light shown; green means live; torque comes on only at a reported pose; an inventory looks at all it was asked for |

Definitions named `...Mutated` (or after the slip they make) sit next to the
definition they spoil: plausible slips that the properties are tested against. They
are part of no specification.

## 3. Runs

| Run | Question | Distinct states |
|---|---|---|
| `gate_safety` | All image kinds, the three shapes of bench release and of probe, a soft-kill request: is order kept, is a park complete before it is acknowledged, is anything from before a park or a lease driven after it? | 5.2 M |
| `gate_live` | Under fairness: does the newest image take effect, an ESTOP park, and silence close the gate and end the bench? | 34 k |
| `receive` | Does the ring implement the pipe, with pushes that cut into a read, wrap, fill and overrun? What do up to two faults, each garbling a byte or losing up to more than a frame, cost on either link? | 0.52 M |
| `pdb_rx` | Does silence or noise end in HARD_ESTOP? | 72 k |
| `pdb_tx` | Are frames whole and do requests arrive? | 66 k |
| `soft_kill` | Do parks, disarms and recoveries last against the stream thread? | 0.27 M |
| `session` | Four plans of calls against the stream and telemetry threads: do replies reach their callers, is a pause quiet, is the plant idle after close, is what was kept shown? | 0.27 M |
| `soft_dfu` | Every command with two boards, any flasher and probe, refused transfers, a power cycle: is the right board flashed, whole? | 2.7 M |
| `bench` | Two operations in a row of each family with losses, late replies and Ctrl+C: are hits real and complete, is only what is certain saved? | 3.4 M |
| `cfg_editor` | Three commands of editor or scripts with losses, refusals and a power cut: is clean applied, saved kept, a torn page refused? | 6.9 M |
| `teleop` | Nine mixes of requests, two at a time, against the engine: is a new session frozen, does Stop settle, is the arm braced? | 0.16 M |
| `telemetry` | Eight mixes of calls and feedbacks, observed by the telemetry thread and by requests, against the disk thread: are flushes, recordings and dumps whole? | 1.3 M |

The largest take one to two and a half minutes with two workers. Each property has a slip in
the code (a `...Mutated` definition) that violates it within the same bounds.

### The properties

*Command path.* `NoStaleDrive`: no lap drives a desire sent before an ESTOP or
RECOVERY image that has been dispatched. `AckOnlyParked`: READY is raised with motors
off and tables clear. `LeaseCutsDrive`: a lease cuts off every desire applied before it,
also when BEGIN lands between the apply readback of a dispatch and its mount.
`AppliedInOrder`: the applied number the host reads never runs backwards. `IInv`: the
invariant of the proofs. `LatestWins`, `EstopTakesEffect`: coalescing loses only
superseded images. `SilenceStopsDrive`, `SilenceEndsBench`: both directions of "the
host has gone".

*Links.* `ImplementsFifo`: the lock-free ring is a pipe. `GarbledCostsOneFrame`,
`StuckOnlyWhenSplit`: what a fault costs; the second says the receiver recovers
*except* when a magic lies across the end of the accumulator. `SilenceIsHard`: the
fail-safe of the PDB link. `CommandWhole`, `RequestsReachBoard`, `EstopReachesBoard`:
the paced transmit.

*Stop path and session.* `ParkIsAnswered`, `DisarmLasts`, `SlateIsClean`,
`RecoveryCompletes`: the handshake end to end. `RepliesKept`: a drain that wants
feedback never drops a bench reply. `PausedIsQuiet`: while a paused call polls, the
stream holds none and writes nothing. `ClosedIsIdle`: the last image of a session takes
the plant out of control, unless another thread commanded it meanwhile.
`ShownCatchesUp`: the newest feedback gets published.

*Tools.* `OkMeansFlashed`, `OthersUntouched`, `TornStaysInLoader`: a flash that returns
has flashed the board it named, whole; a flash over USB that
names its board writes to the flash of no other, in part or whole, first or again; and a torn image
never boots.
`HitsAreReal`, `FoundAll`: discovery reports drives that are there, and all of them
when nothing is lost. `DoubtfulNeverSaved`, `ZeroedAfterCali`: ids and zeros are made
permanent only in a drive that answered, or was calibrated, unless a timeout let the
answer to an earlier request in for the one waited for, or the caller left the verification
out. `CleanMeansApplied`: what the editor shows clean the board runs, as it takes it.
`SavedSurvives`, `BootsWhole`: a save that was confirmed is what the board boots with; a
power cut costs the old image but never leaves a mixture.

*Motion and records.* `FrozenUntilReleased`: a session starts without torque whatever
was engaged before. `StopSettles`: after Stop a wheel's command settles where Stop
found it. `SiblingsBraced`: no arm slot becomes stiff with a sibling slack.
`FlushCovers`, `RecordingComplete`, `DumpsWhole`: what is on disk after a flush, in a
recording that `stop_recording` has flushed, and in a fault dump during which the observers
took turns.

The conditions in them ("unless ...") are where the code does less; each is
explained at the property, and section 5 lists what TLC showed without it.

### Bounds, and why they are enough

* `PlantGate`: `MaxSeq` = 3 frames (2 for liveness). The hazards need an image in
  dispatch, one staged and one in the ring, or an image, a lease and its end;
  `MaxWire` = 2 lets a drain see two frames. The times keep the source's order
  500 < 3000 < 8000 ms as `SoftMs` = 1 < `HardMs` = 2 < `LeaseMs` = 3, with
  `QuietMs` = 2 and `StuckMs` = 3; the code compares them with ages only.
* `receive`: ring of 4 slots, pushes up to 3 (a full ring), reads of 2: wrap, fill,
  overrun and a read shorter than the backlog occur. Frames of 6 bytes, magic 3,
  header 4: a magic can be split, the header is longer than the magic and shorter than
  the frame. Four frame numbers tell frames in the ring, the accumulator and the
  history apart; two faults, of which each garbles a byte or loses up to 7, more than
  a frame. Framing and ring move in separate behaviours, joined by `ByteFifo`.
* `PdbReceive`: two frames of backlog, limit of 2 ms. `PdbTransmit`: 3-byte frames
  and a period of 2 ms: as in the source (64 services against 20 ms) a period is
  over before the frame has gone out.
* `SoftKill`: one operator thread and the stream; `PlainCalls` and `HeedingCalls` are
  the calls drawn without and with the automatic freeze, for ever.
* `HostSession`: two callers, the stream and the telemetry thread; a queue of 2, so
  that it overflows; two feedback frames, so that one can overtake the other; the
  plans pair each call of the owner with one that can disturb it.
* `SoftDfu`: two boards and two ports, so that ports can change hands; one command (a
  prove loop has two cycles), one power cycle, two refusals, which is what exhausts the tool's
  retry. `BenchProbe`: two drives on
  one bus or two, with the same id or not; two operations, so that the first leaves
  replies for the second; two losses or early timeouts, one Ctrl+C. `CfgEditor`: two slots on
  two pages and the peripheral block; three commands, two edits, two faults, one power cut.
* `Teleop`: two slots of the arm and a wheel, two handlers at a time; the mixes pair the
  requests that meet. A window of three units is longer than the lead. `Telemetry`: two
  callers, which are alike (symmetry), so that with the telemetry thread three observers can
  meet; a ring of two and a capture of one tick, recordings named within two seconds.

Runs end in states without a successor where the counters of a bound are used up or
a session is closed (`CHECK_DEADLOCK FALSE`); the others check deadlock.

### Fairness

* Both firmware tasks run for ever: equal priorities are time-sliced, TIM6 keeps
  waking PlantTask, HostTask's `osDelay(1)` ends. Probes return (their loops are
  bounded by timeouts). Strong fairness of `HostTask` in `PdbReceive` and of the
  service in `PdbTransmit`: probes do not follow each other for ever, and HAL does not
  refuse a byte for ever.
* Time passes (`Tick`). The sender of `RxFraming` keeps sending, HostTask draining.
* The host owes nothing in `PlantGate`: it may fall silent after any frame. In
  `SoftKill` and `HostSession` threads go on (loops with a sleep, calls with a timeout);
  the board may fall silent in `HostSession`, and follows its documented protocol in
  `SoftKill`. In `Teleop` the engine's thread ticks; no handler has to come.
* `SoftDfu`, `BenchProbe`, `CfgEditor`, `Telemetry` state safety only: a user may walk away
  from each of them, and their waits have timeouts that are actions of the models.

## 4. Proofs

What TLC shows on an instance, the theorems show for every value of the constants:
any sets of images, requests, slots, threads, callers or handlers, any plans and mixes
of calls, any sizes and bounds that satisfy the assumptions of the module.

| Module | Theorem | States |
|---|---|---|
| `PlantGate_proofs` | `TypeCorrect`, `Inductive` | `Spec => []TypeOK`, `Spec => []IInv` |
| | `StaleNeverDriven` | `Spec => []NoStaleDrive` |
| | `AppliedMonotone` | `Spec => AppliedInOrder` |
| | `AckAfterPark` | `Spec => AckOnlyParked` |
| | `LeaseKeepsGateShut` | `Spec => []LeaseCutsDrive` |
| `Links_proofs` | `ReadIsSafe` | the ring's invariant: what a read has copied is what is oldest in the ring |
| | `RingIsFifo` | `Ring!Spec => Ring!Fifo!Spec`: the ring implements the pipe |
| | `ReceiveIsFifo` | `MCSpec => ImplementsFifo` |
| | `FramingInvariant` | what the accumulator holds, and that a receiver that has not lost its place keeps it |
| | `GarblingIsLocal` | `Spec => []GarbledCostsOneFrame` |
| | `PaceInvariant` | the frame on the wire against the one being paced |
| | `CommandsArriveWhole` | `Spec => []CommandWhole` |
| `HostSession_proofs` | `SessionInvariant` | `Spec => []IInv` |
| | `RepliesAreKept`, `PauseIsQuiet`, `ClosingLeavesIdle` | `RepliesKept`, `PausedIsQuiet`, `ClosedIsIdle` are invariants |
| `Teleop_proofs` | `TeleopInvariant` | `Spec => []IInv` |
| | `FrozenAtStart` | `Spec => []FrozenUntilReleased` |
| | `ArmIsBraced` | `Spec => SiblingsBraced` |
| `Telemetry_proofs` | `RecorderInvariant` | `Spec => []IInv` |
| | `DumpsAreWhole`, `FlushesCover` | `DumpsWhole`, `FlushCovers` are invariants |
| | `RecordingsInvariant`, `RecordingsComplete` | `Spec => []RecordInv`, `Spec => []RecordingComplete` |
| `SoftDfu_proofs` | `DfuInvariant` | `Spec => []IInv` |
| | `OkIsFlashed` | `Spec => OkMeansFlashed` |
| | `OthersAreUntouched` | `Spec => []OthersUntouched` |
| | `TornStays` | `Spec => TornStaysInLoader` |
| `BenchProbe_proofs` | `BenchInvariant` | `Spec => []IInv` |
| | `HitsReal`, `AllFound` | `HitsAreReal`, `FoundAll` are invariants |
| | `DoubtfulSaved`, `CaliZeroed` | `Spec => DoubtfulNeverSaved`, `Spec => ZeroedAfterCali` |
| `CfgEditor_proofs` | `EditorInvariant` | `Spec => []IInv` |
| | `CleanIsApplied`, `SavesSurvive` | `CleanMeansApplied`, `SavedSurvives` are invariants |
| | `BootsAreWhole` | `Spec => BootsWhole` |

Each proof goes by an inductive invariant, checked by TLC on the run's instance
before it was proved, with one lemma per action and, under it, one step per
conjunct that the action can disturb.

*`PlantGate`.* `IInv` is `TypeOK /\ OrderInv /\ ParkInv /\ AckInv`. `OrderInv` says that
frames pass ring, `hold`, `pending` and PlantTask in the order they were sent; it has
to except the moment in which HostTask has staged an image but not yet let go of it
(`hostPc = "stamp"`), where PlantTask may already have applied it. `NoStaleDrive`
alone is not inductive: a desire gets to the lap through `local`, `stage` and `live`, so
`ParkInv` says of each of them that it is younger than the last park, except in the
two steps of a recovery before the tables are cleared, and `OrderInv` is what makes
a newly taken image younger than any park. `AckInv` carries "motors off" and "tables
clear" from the steps that establish them to the one that raises READY.
`LeaseCutsDrive` adds what relates the lease to the readback of a dispatch in progress.

*`ByteRing`.* The invariant ties the copied bytes to the cells between the tail and the
reader's index, which the interrupt cannot overwrite because the ring counts as full one
cell early. Each step then maps to a step of the pipe or to a stutter.

*`RxFraming`.* As long as nothing was lost or garbled that is still about, the accumulator
begins at a frame boundary and what follows it is the rest of the sender's frames in
order. A garbled byte takes that away for one frame; the invariant says which frames
can still be accepted then, and the count of those missing is at most one.

*`PdbTransmit`.* What has left is a prefix of the frame that was built: requests are
latched into the next frame, never into the one on its way.

*`HostSession`.* The invariant says which thread may be at which step of which script
(who holds the pause, who owns the stream, what the opener has seen of it), and that a
reply which is in nobody's hands is in the queue, put aside, or was lost to a full
queue. That a pause is quiet needs the join of the stream's thread; that a closed
session is idle follows the last image from the closing thread to the wire.

*`Teleop`.* A slot is engaged only after the guard was asked, so a request that was let in
names a session that was released; a session that is being closed has nothing engaged,
unless a request of before arrives late (`stray`). Hence nothing is engaged and no tick has
the hub of a session that was not released. For the arm: a tick falls back on the engaged
slots alone only without feedback, because with it every pose is known; that needs the
list of the tick to share exactly the entries that are still there.

*`Telemetry`.* `CaptureOK` counts: a dump in the making holds the lines of the ring at its
trigger and one per observation since, and how far it is depends on the step its observer is
at. `SoloOK` says this of a capture during which the observers took turns (`solo`): then one
observer at most is inside `observe`, what it carries is what the capture is (`CarriedOK`), and
with nobody inside the capture is complete up to the last observation. A second observer that
enters ends the claim, which is why `Rings` clears `solo`. `HeldOK` and `JobsFull` take a
dump from there to the queue and the disk. `FlushOK`, with `LatestKept` and `Covered`, follows what a
flush has to write: it is on disk, in the hands of the disk thread, or ahead of the
flush's token in the queue. `RecordInv` does the same for recordings, whose jobs carry no
name on their way: a line goes to whatever file is open when its turn comes. `Placed`
says that this is the file it was queued for, by the last job before it that opens
or closes one; `Owes`, that a file holds the first lines of its recording and the queue the
others, once each and in order; `Behind`, that the token of the call which stopped the
recording comes after them. It holds for a second in which one recording was started: a
line whose check was before a stop and whose queuing is after the next start belongs to
the recording it is queued in, as in the code, and the second file of the same name
truncates the first.

*`SoftDfu`.* `FlashOK` follows the board a flash names from the write to the port: from the
download on it runs the new image and is in the loader, or sure to boot the image, until its
port is returned. `DevOK` says of the handle on the loader that it is the named board's, and
that the address the loader jumps to is the trampoline's unless it was refused twice - the
exception in `OkMeansFlashed`. That ports change hands at every reset is harmless because
each step finds its board by serial number anew, which is also why no write or erase of a flash
with a serial number reaches another board (`OthersUntouched`; `by` notes whose flash wrote to a board
last); `ScriptOK` keeps the user's shorter leave
command out of the flash's steps. `TornStaysInLoader` exempts a board that is already out
(`mode = "dead"`): a flash which cannot name its board can let a torn image out, which then
stays out while later flashes pass by. That takes more commands than the run's bound, so
it is the proof, over any number of commands, that needs the exemption.

*`BenchProbe`.* `ScriptOK`, with `Turn`, has the operation where its program says and
`FreshOK` and `LeaseOK` its session. Replies carry no number, so `ExchangeOK` says which
can be about: as long as no timeout has let an earlier answer in (`host.tainted`), only the
request of the exchange in progress or answers to it are: the reader is drained before most
requests are written, the firmware answers in order, and `tainted` is set when a request is
written behind one still under way or behind replies nobody drained. What `discover` notes down
(`FoundOK`) and what a save or a zero is asked for (`SureOK`) rests on that alone.
`DoubtfulNeverSaved` and `ZeroedAfterCali` are about the step of the firmware, which may come
long after the decision, so the request carries whether it was made on sure ground
(`sure`). `FoundAll` needs in addition what a sweep has behind it: `CleanOK` says that
without loss, timeout or Ctrl+C every exchange gets its answer, `ProgressOK` that a
drive of the cells behind it is on the list.

*`CfgEditor`.* A reply names neither the slot nor the exchange it answers. `ExchangeOK` says
what makes it usable nevertheless: frames keep their order and the reader is drained before a
request is written, so what is not left from an earlier exchange is the request itself, behind
everything else, or its reply, with nothing under way that could still change the board. A
reply that is left over may be taken for it (`ghost.mixed`); from then until the editor is
started again nothing is claimed. `PendingOK` says of every request still under way
that what it can change is in doubt (`ghost.torn`), being applied, or dirty; it is why a
timeout has to put the slots of an apply in doubt. `BoardOK` has the base line of clean rows
equal to the RAM of the board and, during an apply, the rows already set. `Known` has the rows in
their places, which sorting leaves alone: an increasing bijection of `1 .. n` is the identity.
The claim of a complete save (`SaidOK`) needs all of it at the moment it is made, and after that
only that no SAVE is under way.

Assumptions are those of the modules (`ImagesAssumption`, `OpsAssumption`,
`KillsAssumption`, `BoundsAssumption`, `TimesAssumption`; `Sizes` of the ring, which
`MCReceive` assumes as `SizesAssumption`;
`LengthsAssumption`; `TransmitAssumption`; `SessionAssumption`, `PlansAssumption`;
`TeleopAssumption`; `TelemetryAssumption`, `MixesAssumption`; `DfuAssumption`;
`BenchAssumption`, `NoneAssumption`; `CfgAssumption`). They say what the code fixes:
that constants are numbers or finite sets, that `SoftMs < HardMs < LeaseMs`, that a frame is
longer than its header and the header than the magic, that a plan consists of calls. TLC
evaluates them in every run of the module.

Only model-checked: everything under fairness (the prover has no support for
liveness or ENABLED), which is all that is stated of `SoftKill` and `PdbReceive`, and
`StuckOnlyWhenSplit`; the
statements of the `...Checks` modules, which are about bounded inputs. Facts about recursive
data would need induction schemes the installed provers cannot instantiate; no module here
declares a RECURSIVE operator, and where a sequence is made of a set its elements are all
that the proofs use of it.

## 5. Where the code does less than one would think

Each of these was seen as a counterexample to a stronger form of a property, or as an
`ASSUME` that had to be stated the other way; most are behaviour that comments or
documents do not promise, the first ones are not.

*Command path.*
* READY is withdrawn only when the board reports NORMAL (`plant_command.c:299`), so a
  control image drives motors while READY is still up; `pdb_link.h:84-86` says never to
  set it speculatively.
* A control image releases the bench, clearing the probe flag of the probe HostTask is
  in (`plant_command.c:306`): the lap runs over a bus that is being probed
  (`docs/host-contract.md:30` says otherwise). The Damiao probe never raises the flag
  (`diag_dm.c:99`).
* The feedback may show an image applied ahead of its reception, between staging and
  stamping (`host_link.c:146`).

*Links.*
* The scan drops a magic split at the end of the accumulator (`pdb_link.c:198`); with
  frames back to back the receiver never aligns again (`docs/pdb-uart-v1.md:274-276`).
* The millisecond tick wraps: 49.7 days into silence a dead link reads fresh for 200 ms,
  since the ever-synced flag is never taken back (`pdb_link.c:615`). The mirror keeps the
  last readings while stale (`:683`).
* The firmware writes its MCP mask into the byte where the host reads the bus of a
  single-bus RobStride reply; a configuration lane shadows the other armed lanes
  (`plant_command.c:203`).
* CFG GET carries no master id (`plant_config_nvm.c:707`): a table of Damiao drives is
  never recognised and is set again each time; one read back and applied loses the ids
  and its slots stop taking their drives' replies.
* The strip follows the peer's stop wire, the feedback carries the board's own pin
  (`host_link.c:266`): where they differ the doctor infers another light.

*Stop path and session.*
* With `listen_pdu` the automatic freeze sets NORMAL again before the operator's ESTOP
  has reached the wire (`controls_pcb_hub.py:378`): no READY, the handshake stops. If the
  board waits for `kill_req = NORMAL` before it re-arms, as
  `docs/pdb-uart-v1.md:134` draws it (`RearmNeedsNormal`), recovery never completes.
* An image built before a park or a close can be written after it
  (`connection.py:343-388`); an older feedback can be published over a newer one
  (`controls_pcb_hub.py:249`); `read_feedback` drops bench replies (`:513`); two concurrent
  `start_streaming` both pass the alive check (`:672`).
* `PausedIsQuiet` needs that a write ends within the 2 s of the join; with a wedged port
  two stream threads run (`:705`).

*Tools.*
* SWD writes whichever board is on the probe (`soft_dfu.py:822`) and leaves nBOOT0 clear;
  without a serial number and with several boards any of them is taken. A loader that
  refuses the leave address twice is started anyway, and the flash may return with the
  board still set to boot into the loader (`:502`).
* With `verify=False` (`rs02_set_can_id.py --no-verify`) an id is saved on `set_ok` alone
  (`robstride.py:407-424`), which counts any extended frame heard (`robstride.c:1320-1336`), even
  the reply to the reset: `DoubtfulNeverSaved` exempts it, as its docstring documents the choice
  (`:369-370`). `save=False` leaves the new id in the drive's RAM.
* A late reply is the next request's answer (`zeroerr.py:114`, `robstride.py:40`,
  `config.py:84`). The proof of `ZeroedAfterCali` found a case beyond the run's bound
  of losses: a calibration that is cut short leaves an answer behind that the next one, on
  another bus, takes for its own. Calibrate zeroes and saves without replies (`robstride_calibrate.py:444`);
  a sweep stops at its first responder (`damiao.py:176`).
* The board puts CH1 in place of a bus outside 1..6, NONE in place of an unknown protocol
  (`plant_config_nvm.c:608-611`, `261-266`) and the maximum in place of an LED count of 0 or
  above it (`577-582`), and answers OK. The editor asks for numbers without bounds
  (`_edit_slot`, `_edit_led`) and goes on showing what was typed as applied: the properties
  speak of the row as the board takes it (`Accepted`, `Settled`).
* An editor apply that fails halfway leaves the slot it was about unknown
  (`cfg_editor.py:387`), and a block that could not be read is replaced by the default
  one (`:326`). `CleanMeansApplied` and `SavedSurvives` claim nothing of the slots of a failed
  apply, nothing after a reply of an earlier exchange was taken for the one waited for, and
  nothing of a save reported on the late OK of an earlier attempt (`config.py:146`).

*Motion and records.*
* `engage_soft_kill` does not stop the engine; Idle, Idle all, Park and Recover do not
  disengage (`state.py:365`): a slot still engaged is commanded again by the next tick.
  A request let in by the guard may engage its slot after the session was closed, and move
  in the next one (`state.py:312`). A wheel without a reading snaps from 0 (`:500`).
* A jog from far outside the window goes to the window's edge, not by its cap
  (`yam_limits.py:301`). Apply with an invalid servo slot raises with the actuators
  already held (`facade.py:107`).
* A zero servo frame counts as a pose, and torque comes on at 0 (`servo_fb.py:24`). A hold
  without lag samples passes (`metrics.py`). Watching the far buses sets NORMAL and applies
  whatever else is held.
* Two flushes can write an older snapshot over a newer (`persist.py:112`); a second
  recording of the same second truncates the first (`recorder.py:80`); the disk thread does
  not survive an `OSError` (`persist.py:143`).
* `FaultRecorder.observe` takes no lock and is reached by the telemetry thread and by requests
  (`controls_pcb_hub.py:249-253`, `286-291`, `403`). With two inside at once a dump can have a line
  too many, lines twice or out of order, be written twice or be lost, and `_pending` can be
  None where it is used (`recorder.py:165-167`): the telemetry loop then reports an error, a
  request raises AttributeError. So it can when `clear` comes between the check and the use.
  `DumpsWhole` claims nothing of a dump whose window two observers shared.
* `TelemetryCache.close` neither flushes nor stops the disk thread: the recorder was given the
  cache's disk writer, so it does not own it (`cache.py:317-323`, `recorder.py:131-134`), and the
  thread is a daemon. What is queued when the process exits is lost; only `stop_recording`
  and `flush` wait.

## 6. Not modelled

* Firmware: the servo bus, CAN routing and SPI controllers, the drive plugins' enable,
  maintenance and boot sequences, thermocouple and strip driver: sequences of register
  and bus accesses of one task, whose other side (drives, controllers, HAL) is not in the
  repository. The `stm32_mode` echo and the two-step arming of the loader, the staging slot
  of servo and LED desires, the once-per-tick rule of feedback, the legacy `DBGC` mailbox,
  migration of the first flash layout, rail-enable and loopback test of the PDB link, lap
  statistics. PB7, which documents say forces HARD_ESTOP and `pdb_link_eval_kill` does not
  read.
* `PlantGate` arms one debug lane per frame; the lap reads the live table as a whole,
  as the code does, and drives are one motor. Payload bytes never spell the frame magic
  (`RxFraming`); the line to the board loses nothing (`PdbTransmit`); ages saturate.
* `SoftKill` has the hook for a peer's request, not its twin for bad V/I.
* SDK: rate commands and servos of teleoperation, parameter dumps and reports of the bench
  tools, the dashboard's configuration and diagnosis pages, terminal screens, ROS
  adapters and laboratory scripts; floating-point conversion, which stands in the models
  as integers of its steps.
* `SessionDiskWriter.close` and the end of its thread (`persist.py:126-130`, `159-161`): only a
  recorder made without a cache, as in the tests, reaches them.
* UART bridge (an alternative build), receive simulation, plugin table, generated code.

## 7. Plan

The models are complete as far as planned, and every safety property of the runs is a
theorem. What would come next: liveness, once the prover has ENABLED (the handshake of
`SoftKill` first); the parts of section 6 that run concurrently with the rest.

## 8. How to run

    tlc -workers 2 -config gate_safety.cfg MCPlantGate
    tlc -workers 2 -config soft_kill.cfg SoftKill
    tlapm PlantGate_proofs.tla
    tlapm Telemetry_proofs.tla

`PROJECT.json` lists module, configuration and properties of every run. The proofs take
about a minute per module, `HostSession_proofs`, `Telemetry_proofs`, `CfgEditor_proofs` and
`BenchProbe_proofs` some more.
