-------------------------------- MODULE Wire --------------------------------
(***************************************************************************)
(* The 694-byte images of the USB link as the SDK writes and reads them     *)
(* (link/exchange: wire_layout, pack, parse, debug_lanes, bench), and the   *)
(* firmware's side of the same bytes (plant_command.c, diag_*.c,            *)
(* diag_feedback.c, plant_feedback.c, plant_config_nvm.c,                   *)
(* host_exchange_schema.h).  An image is a function from offsets to bytes,  *)
(* a mailbox or lane one from 0 .. 31; offsets are the code's.  A float or  *)
(* a 32-bit word keeps its four bytes, low byte first.                      *)
(*                                                                         *)
(* No state: the operators are checked by the assumptions of WireChecks.        *)
(***************************************************************************)
EXTENDS Integers, Sequences, FiniteSets, FiniteSetsExt, SequencesExt

At(off, bytes) == [i \in off .. (off + Len(bytes) - 1) |-> bytes[i - off + 1]]
Bytes(m, off, n) == [i \in 1 .. n |-> m[off + i - 1]]
Zeros(n)       == [i \in 0 .. (n - 1) |-> 0]
Low(v)         == v % 256
Pair(v)        == <<v % 256, (v \div 256) % 256>>
Half(m, off)   == m[off] + 256 * m[off + 1]
Flag(b)        == IF b THEN 1 ELSE 0

\* Bits lo .. lo + n - 1 of a word, and the word with them replaced.
Bits(w, lo, n)     == (w \div 2^lo) % 2^n
Patch(w, lo, n, v) == w + ((v % 2^n) - Bits(w, lo, n)) * 2^lo

Named(names, code) == IF code \in DOMAIN names THEN names[code] ELSE "unknown"

-----------------------------------------------------------------------------
(* wire_layout.py *)

ImageBytes == 694
Slots      == 26

Magic == [CMDH |-> <<72, 68, 77, 67>>, HBHF |-> <<72, 72, 66, 70>>,
          DBGC |-> <<67, 71, 66, 68>>, DBGF |-> <<68, 71, 66, 70>>]

SystemOff == 12
ActuatorOff(slot) == 44 + slot * 22
ServoOff(slot)    == ActuatorOff(Slots) + slot * 6
LedOff    == ServoOff(2)
PduOff    == LedOff + 2

LanesOff   == 12
LaneCount  == 10
LaneBytes  == 32
Lane == [RS |-> 0, CM |-> 1, ZE |-> 2, DM |-> 3, LED |-> 4, SERVO |-> 5,
         PDU |-> 6, CFG |-> 7]
LaneOff(lane) == 18 + lane * LaneBytes

\* What of an image each part occupies.
Extents ==
    {0 .. 11, 12 .. 43, LedOff .. (LedOff + 1), PduOff .. (PduOff + 63)}
      \cup {ActuatorOff(s) .. (ActuatorOff(s) + 21) : s \in 0 .. (Slots - 1)}
      \cup {ServoOff(s) .. (ServoOff(s) + 5) : s \in 0 .. 1}

-----------------------------------------------------------------------------
(* pack.py: the command image; word is the 32-bit system word. *)

McuState(word, s)   == Patch(word, 1, 3, s)
RxSim(word, mask)   == Patch(word, 5, 4, mask)
Stm32Mode(word, m)  == Patch(word, 9, 2, m)
PlantApply(word, b) == Patch(word, 11, 1, Flag(b))

ServoFlags(torque, led, mode, id) ==
    Flag(torque) + 2 * Flag(led) + 4 * (mode % 8) + 32 * (id % 256)

LedWord(mode, brightness, count) ==
    (mode % 32) + 32 * (brightness % 32) + 1024 * (count % 64)

Header(magic, seq) ==
    At(0, Magic[magic] \o Pair(3) \o Pair(ImageBytes) \o seq)

Blank(magic, seq) == Header(magic, seq) @@ Zeros(ImageBytes)

\* desires: slot -> 20 bytes, five floats; the two meta bytes stay zero.
PlantCommand(seq, desires, mcuState) ==
    [i \in 0 .. (ImageBytes - 1) |->
        LET hit == {s \in DOMAIN desires :
                      i \in ActuatorOff(s) .. (ActuatorOff(s) + 19)} IN
        IF i = SystemOff THEN McuState(0, mcuState)
        ELSE IF hit = {} THEN Blank("CMDH", seq)[i]
        ELSE LET s == CHOOSE s \in hit : TRUE
             IN desires[s][i - ActuatorOff(s) + 1]]

\* The firmware's bit-fields in the same words (host_exchange_schema.h).
FwSystem(w) == [mcu |-> Bits(w, 1, 3), sim |-> Bits(w, 5, 4),
                mode |-> Bits(w, 9, 2), apply |-> Bits(w, 11, 1)]
FwServo(w)  == [torque |-> Bits(w, 0, 1), led |-> Bits(w, 1, 1),
                mode |-> Bits(w, 2, 3), id |-> Bits(w, 5, 8)]
FwLed(w)    == [mode |-> Bits(w, 0, 5), brightness |-> Bits(w, 5, 5),
                count |-> Bits(w, 10, 6)]

-----------------------------------------------------------------------------
(* parse.py: the feedback image; word is the first 31 bits of the system    *)
(* word (bit 31, the top bit of plant_block, is never set).                 *)

PlantBlockNames ==
    (0 :> "none") @@ (1 :> "bench_session") @@ (2 :> "probe_busy")
      @@ (3 :> "quiet_period") @@ (4 :> "apply_off")
      @@ (5 :> "host_stale") @@ (6 :> "servo_session")

ParseWord(w) ==
    [tick |-> Bits(w, 0, 12), mcu |-> Bits(w, 13, 3),
     ack |-> Bits(w, 17, 8), block |-> Named(PlantBlockNames, Bits(w, 25, 6))]

FwWord(f) ==
    f.tick + 2^12 * f.estop + 2^13 * f.mcu + 2^16 * f.beat + 2^17 * (f.seq % 256)
      + 2^25 * f.block

ParseMeta(meta) ==
    [protocol |-> Bits(meta, 0, 3), bus |-> Bits(meta, 3, 3),
     id |-> Bits(meta, 6, 8), enabled |-> Bits(meta, 14, 1) = 1,
     valid |-> Bits(meta, 15, 1) = 1]

FwMeta(a) ==
    (a.protocol % 8) + 8 * (a.bus % 8) + 64 * (a.id % 256)
      + 2^14 * Flag(a.enabled) + 2^15 * Flag(a.valid)

ParseServo(w) ==
    [moving |-> Bits(w, 0, 1) = 1, reached |-> Bits(w, 1, 1) = 1,
     errors |-> {e \in 2 .. 4 : Bits(w, e, 1) = 1}, id |-> Bits(w, 5, 8),
     anyError |-> Bits(w, 2, 3) # 0]

\* Lap times and sequence read-backs, as offsets in the system block.
TimingOff == [act_lap |-> 4, act_peak |-> 6, ticks_svc |-> 8, ticks_pending |-> 9,
              rx_seq |-> 18, applied_seq |-> 22, periph_lap |-> 26, periph_peak |-> 28]
FwTiming == \* the members of host_system_feedback_t in order, with their sizes
    <<<<"word0", 4>>, <<"act_lap", 2>>, <<"act_peak", 2>>, <<"ticks_svc", 1>>,
      <<"ticks_pending", 1>>, <<"usb_drop", 2>>, <<"can_drop", 2>>, <<"kill_state", 1>>,
      <<"kill_reason", 1>>, <<"estop_sense", 1>>, <<"reserved0", 1>>, <<"rx_seq", 4>>,
      <<"applied_seq", 4>>, <<"periph_lap", 2>>, <<"periph_peak", 2>>>>

\* system.kill_state and its neighbours (pdb/status.py), stm32_mode (parse.py).
KillOff == [kill_state |-> 14, kill_reason |-> 15, estop_sense |-> 16,
            reserved0 |-> 17]

FeedbackKind(image) ==
    IF Bytes(image, 0, 4) = Magic.HBHF THEN "plant"
    ELSE IF Bytes(image, 0, 4) = Magic.DBGF THEN "debug" ELSE "none"

-----------------------------------------------------------------------------
(* debug_lanes.py: a DBGC or DBGF image carries DL 1, flags and the mask of *)
(* the armed lanes where a plant image has its system word.                 *)

LanesTag == <<68, 76, 1>>

ArmMask(lanes) == MapThenSumSet(LAMBDA l : 2^l, lanes)

\* lanes: a function from lane numbers to sequences of at most 32 bytes.
LanesCommand(seq, lanes, flags) ==
    LET header == At(LanesOff, LanesTag \o <<Low(flags)>> \o Pair(ArmMask(DOMAIN lanes)))
    IN FoldSet(LAMBDA l, acc : At(LaneOff(l), lanes[l]) @@ acc,
               header @@ Blank("DBGC", seq), DOMAIN lanes)

Wrapped(seq, mailbox, lane) == LanesCommand(seq, lane :> Bytes(mailbox, 0, 32), 0)

LanesPresent(image) == Bytes(image, LanesOff, 3) = LanesTag

LaneOf(image, lane) == [i \in 0 .. 31 |-> image[LaneOff(lane) + i]]
Mailbox(image)      == [i \in 0 .. 31 |-> image[PduOff + i]]

MailboxOrLane(image, lane) ==
    IF LanesPresent(image) THEN LaneOf(image, lane) ELSE Mailbox(image)

-----------------------------------------------------------------------------
(* bench.py, requests.  Asc: the characters of the tags.                    *)

Asc == [R |-> 82, S |-> 83, two |-> 50, D |-> 68, M |-> 77, zero |-> 48, C |-> 67,
        Z |-> 90, E |-> 69, F |-> 70, G |-> 71, r |-> 114, m |-> 109, k |-> 107,
        z |-> 122, c |-> 99, f |-> 102, g |-> 103]

Tag == [RS |-> <<Asc.R, Asc.S, Asc.two>>, DM |-> <<Asc.D, Asc.M, Asc.zero>>,
        CM |-> <<Asc.C, Asc.M, Asc.zero>>, ZE |-> <<Asc.Z, Asc.E, Asc.zero>>,
        CFG |-> <<Asc.C, Asc.F, Asc.G>>]
Answer == [RS |-> <<Asc.r>>, DM |-> <<Asc.m>>, CM |-> <<Asc.k>>, ZE |-> <<Asc.z>>,
           CFG |-> <<Asc.c, Asc.f, Asc.g>>]

Kind == [FULL |-> 0, PROMISC |-> 10, ENABLE_ONLY |-> 12, CTRL_FAST |-> 13,
         PARAREAD |-> 14, REG_SCAN |-> 16, SWEEP |-> 17, SET_CAN_ID |-> 23,
         BEGIN |-> 254, END |-> 255]

CanBuses == 1 .. 6     \* normalize_can_bus refuses any other

HostBusMask(buses) == MapThenSumSet(LAMBDA b : 2^(b - 1), buses \cap CanBuses)

\* A mask takes the place of the index of the parameter.
RsMailbox(q) ==
    LET five == IF q.mask # 0 THEN <<q.mask % 64, 0>> ELSE Pair(q.index) IN
    At(0, Tag.RS \o <<Low(q.id), Low(q.kind)>> \o five \o q.raw \o <<q.bus>>) @@ Zeros(32)

RsScan(id, kind, bus, mask) ==
    RsMailbox([id |-> id, kind |-> kind, index |-> 0, raw |-> <<0, 0, 0, 0>>,
               bus |-> bus, mask |-> mask])

NoDesire == [i \in 1 .. 20 |-> 0]

\* desire: five floats, the last of them always zero.
RsProbe(id, kind, index, raw, bus, desire) ==
    LET mailbox == RsMailbox([id |-> id, kind |-> kind, index |-> index, raw |-> raw,
                              bus |-> bus, mask |-> 0])
    IN IF desire = NoDesire THEN mailbox ELSE At(12, desire) @@ mailbox

DmProbe(id, kind, bus, master, listen, rid, end) ==
    At(0, Tag.DM \o <<Low(id), Low(kind), Low(master), Low(listen), Low(rid), Low(end),
                      0, 0, bus>>) @@ Zeros(32)

CmProbe(id, kind, bus, listen, end, mask) ==
    At(0, Tag.CM \o <<Low(id), Low(kind), 0, Low(listen), 0, Low(end), mask % 64,
                      0, bus>>) @@ Zeros(32)

ZeProbe(id, kind, bus, timeout, end, mask) ==
    At(0, Tag.ZE \o <<Low(id), Low(kind), 0, Low(timeout), 0, Low(end), mask % 64,
                      0, bus>>) @@ Zeros(32)

(* The firmware: every armed lane is mounted where the mailbox used to be;  *)
(* a configuration request ends the frame; the RS lane's last 20 bytes are  *)
(* also its desire.                                                         *)
FwTagged(lane, m) == Bytes(m, 0, 3) = Tag[lane]
FwArmed(image)    == {l \in {"CFG", "RS", "DM", "CM", "ZE"} :
                         Bits(Half(image, LanesOff + 4), Lane[l], 1) = 1}
FwDispatch(image) ==
    LET heard == {l \in FwArmed(image) : FwTagged(l, LaneOf(image, Lane[l]))}
    IN IF ~LanesPresent(image) THEN {}
       ELSE IF "CFG" \in heard THEN {"CFG"} ELSE heard

FwBus(m) == IF m[11] \in CanBuses THEN m[11] ELSE 1
FwMask(m, off) == IF m[off] % 64 # 0 THEN m[off] % 64 ELSE 2^(FwBus(m) - 1)

FwRs(m) == [id |-> m[3], kind |-> m[4], bus |-> FwBus(m), mask |-> FwMask(m, 5),
            index |-> Half(m, 5), raw |-> Bytes(m, 7, 4), desire |-> Bytes(m, 12, 20)]
FwDm(m) == [id |-> m[3], kind |-> m[4], bus |-> FwBus(m), master |-> m[5],
            listen |-> IF m[6] = 0 THEN 15 ELSE m[6], rid |-> m[7], end |-> m[8]]
FwCm(m) == [id |-> m[3], kind |-> m[4], bus |-> FwBus(m), mask |-> FwMask(m, 9),
            listen |-> IF m[6] = 0 THEN 15 ELSE m[6], end |-> m[8]]
FwZe(m) == [id |-> m[3], kind |-> m[4], bus |-> FwBus(m), mask |-> FwMask(m, 9),
            timeout |-> IF m[6] = 0 THEN 30 ELSE m[6], end |-> m[8]]

-----------------------------------------------------------------------------
(* Replies: what diag_feedback.c writes where, and what bench.py reads.     *)
(* A field is its offset and its size; floats and words stay bytes.         *)

FwReply ==
    [RS |-> [probe_id |-> <<1, 1>>, found |-> <<2, 1>>, comm_mode |-> <<3, 1>>,
             ext_id |-> <<4, 4>>, can_data |-> <<8, 8>>, temperature |-> <<16, 4>>,
             position |-> <<20, 4>>, discovered_id |-> <<24, 1>>,
             probe_kind |-> <<25, 1>>, raw_frames |-> <<26, 1>>, bus |-> <<27, 1>>,
             rail |-> <<28, 1>>, tx |-> <<29, 3>>],
     DM |-> [probe_id |-> <<1, 1>>, found |-> <<2, 1>>, probe_kind |-> <<3, 1>>,
             rx_can_id |-> <<4, 4>>, can_data |-> <<8, 8>>, param_value |-> <<16, 4>>,
             position |-> <<20, 4>>, discovered_id |-> <<24, 1>>,
             master_id |-> <<25, 1>>, raw_frames |-> <<26, 1>>, err |-> <<27, 1>>,
             tx_frames_sent |-> <<28, 1>>, param_rid |-> <<31, 1>>],
     CM |-> [probe_id |-> <<1, 1>>, found |-> <<2, 1>>, probe_kind |-> <<3, 1>>,
             rx_can_id |-> <<4, 4>>, can_data |-> <<8, 8>>, position |-> <<20, 4>>,
             discovered_id |-> <<24, 1>>, raw_frames |-> <<26, 1>>, fault |-> <<27, 1>>,
             tx_frames_sent |-> <<28, 1>>],
     ZE |-> [probe_id |-> <<1, 1>>, found |-> <<2, 1>>, vendor_match |-> <<3, 1>>,
             vendor |-> <<4, 4>>, product |-> <<8, 4>>, revision |-> <<12, 4>>,
             position_rad |-> <<16, 4>>, position_valid |-> <<20, 1>>,
             discovered_id |-> <<24, 1>>]]

\* The firmware marker, stamped over every reply but the RobStride one.
FwMarker == <<29, 2>>

Reads(m, layout) == [f \in DOMAIN layout |-> Bytes(m, layout[f][1], layout[f][2])]

\* The reply as the firmware sends it: in the mailbox, and in its lane.
FwSends(lane, m) ==
    At(PduOff, Bytes(m, 0, 32)) @@ At(LaneOff(Lane[lane]), Bytes(m, 0, 32))
      @@ At(LanesOff, LanesTag) @@ At(0, Magic.DBGF) @@ Zeros(ImageBytes)

IsAnswer(lane, m) == Bytes(m, 0, Len(Answer[lane])) = Answer[lane]

\* RobStride and Damiao replies are also looked for in the mailbox.
ReplyFor(lane, image) ==
    LET m == MailboxOrLane(image, Lane[lane]) IN
    CASE IsAnswer(lane, m) -> m
      [] ~IsAnswer(lane, m) /\ lane \in {"RS", "DM"} /\ IsAnswer(lane, Mailbox(image))
           -> Mailbox(image)
      [] OTHER -> <<>>

RsReads == [probe_id |-> <<1, 1>>, found |-> <<2, 1>>, comm_mode |-> <<3, 1>>,
            ext_id |-> <<4, 4>>, can_data |-> <<8, 8>>, temperature |-> <<16, 4>>,
            position |-> <<20, 4>>, discovered_id |-> <<24, 1>>,
            probe_kind |-> <<25, 1>>, raw_frames |-> <<26, 1>>, bus |-> <<27, 1>>]

ParseProbe(image) ==
    LET m == ReplyFor("RS", image) IN
    IF m = <<>> THEN <<>>
    ELSE [Reads(m, RsReads) EXCEPT !.bus = IF m[27] \in CanBuses THEN <<m[27]>> ELSE <<>>]

ParseDm(image) ==
    LET m == ReplyFor("DM", image) IN
    IF m = <<>> THEN <<>>
    ELSE Reads(m, [probe_id |-> <<1, 1>>, found |-> <<2, 1>>, probe_kind |-> <<3, 1>>,
                   rx_can_id |-> <<4, 4>>, can_data |-> <<8, 8>>,
                   param_value |-> <<16, 4>>, position |-> <<20, 4>>,
                   discovered_id |-> <<24, 1>>, master_id |-> <<25, 1>>,
                   raw_frames |-> <<26, 1>>, err |-> <<27, 1>>])

ParseCm(image) ==
    LET m == ReplyFor("CM", image) IN
    IF m = <<>> THEN <<>>
    ELSE Reads(m, [probe_id |-> <<1, 1>>, found |-> <<2, 1>>, probe_kind |-> <<3, 1>>,
                   rx_can_id |-> <<4, 4>>, can_data |-> <<8, 8>>, position |-> <<20, 4>>,
                   discovered_id |-> <<24, 1>>, raw_frames |-> <<26, 1>>,
                   fault |-> <<27, 1>>, tx_frames_sent |-> <<28, 1>>])

ParseZe(image) ==
    LET m == ReplyFor("ZE", image) IN
    IF m = <<>> THEN <<>>
    ELSE Reads(m, [probe_id |-> <<1, 1>>, found |-> <<2, 1>>, vendor_match |-> <<3, 1>>,
                   vendor |-> <<4, 4>>, product |-> <<8, 4>>, revision |-> <<12, 4>>,
                   position_rad |-> <<16, 4>>, position_valid |-> <<20, 1>>,
                   discovered_id |-> <<24, 1>>])

\* The top byte of a fault word that is a Damiao probe's; bit 23 says found.
DmFaultFound(fault) ==
    IF fault.top = "DB" THEN TRUE ELSE Bits(fault.rest, 23, 1) = 1

(* A register scan that landed in an actuator's feedback: the id probed is  *)
(* its velocity, the id found its torque, the master id its temperature.    *)
DmFromActuator(act, id) ==
    IF act.fault.top \in {"DA", "DB"} /\ Low(act.velocity) = Low(id)
    THEN [probe_id |-> Low(act.velocity), found |-> DmFaultFound(act.fault),
          discovered_id |-> Low(act.torque), master_id |-> Low(act.temperature)]
    ELSE <<>>

\* expected: the kind asked for, or nothing.
KindMatches(got, expected) ==
    \/ expected = {} \/ got \in expected
    \/ Kind.REG_SCAN \in expected /\ got \in {16, 14}

-----------------------------------------------------------------------------
(* Configuration: bench.py against plant_config_nvm.c.                      *)

CfgOp == [GET |-> 1, SET |-> 2, SAVE |-> 3, LOAD |-> 4, DEFAULTS |-> 5,
          GET_PERIPH |-> 6, SET_PERIPH |-> 7]
CfgStatus == (0 :> "ok") @@ (1 :> "bad_arg") @@ (2 :> "flash_err") @@ (3 :> "bad_crc")

Spi3Role == [led |-> 0, thermo |-> 1, none |-> 2]
ParseSpi3Role(v) == IF v \in DOMAIN Spi3Role THEN Spi3Role[v] ELSE v % 4

CfgFlags(old, p) ==
    Patch(Patch(old % 256, 0, 1, Flag(p.listen_pdu)), 1, 2, ParseSpi3Role(p.spi3_role))

ServoBytes(s) == <<Low(s.model), Low(s.id), Flag(s.enabled), 0>> \o Pair(s.pos_min)
                     \o Pair(s.pos_max)

\* row for an actuator request, p for a peripheral block.
CfgSet(op, slot, row) ==
    At(0, Tag.CFG \o <<Low(op), Low(slot)>>)
      @@ At(8, <<Low(row.bus), Low(row.protocol), Low(row.motor_id), Low(row.master_id),
                 Flag(row.enabled)>>) @@ Zeros(32)

CfgSetPeriph(slot, p) ==
    At(0, Tag.CFG \o <<CfgOp.SET_PERIPH, Low(slot)>>)
      @@ At(8, <<CfgFlags(p.flags, p)>> \o ServoBytes(p.servos[1]) \o ServoBytes(p.servos[2])
                 \o Pair(p.led.count) \o <<Low(p.led.mode), Low(p.led.brightness)>>)
      @@ Zeros(32)

ReadServo(m, off) ==
    [model |-> m[off], id |-> m[off + 1], enabled |-> m[off + 2] # 0,
     pos_min |-> Half(m, off + 4), pos_max |-> Half(m, off + 6)]

ParsePeriph(m) ==
    [flags |-> m[8], listen_pdu |-> Bits(m[8], 0, 1) = 1, spi3_role |-> Bits(m[8], 1, 2),
     servos |-> <<ReadServo(m, 9), ReadServo(m, 17)>>,
     led |-> [count |-> Half(m, 25), mode |-> m[27], brightness |-> m[28]]]

PerPage == 8

ParseSlots(m) ==
    [i \in 1 .. Min({m[5], PerPage}) |->
        [slot |-> m[31] + i - 1, bus |-> m[3 + 3 * i], protocol |-> m[4 + 3 * i] % 128,
         motor_id |-> m[5 + 3 * i], enabled |-> m[4 + 3 * i] >= 128]]

ParseCfg(m) ==
    IF ~IsAnswer("CFG", m) THEN <<>>
    ELSE LET op == m[3] % 128 IN
         [op |-> op, status |-> Named(CfgStatus, m[4]),
          body |-> IF op \in {CfgOp.GET_PERIPH, CfgOp.SET_PERIPH}
                   THEN ParsePeriph(m) ELSE ParseSlots(m)]

(* The firmware: SET and SET_PERIPH into its tables, and its answers.       *)
Protocols == 0 .. 4
Damiao    == 3
Strip     == 300

FwCfgRow(m) ==
    [bus |-> IF m[8] \in CanBuses THEN m[8] ELSE 1,
     protocol |-> IF m[9] \in Protocols THEN m[9] ELSE 0,
     motor_id |-> m[10], enabled |-> m[12] % 2 = 1,
     master_id |-> IF m[9] # Damiao THEN <<0>> ELSE IF m[11] = 255 THEN <<>> ELSE <<m[11]>>]

FwCfgPeriph(m) ==
    LET count == Half(m, 25) IN
    [flags |-> m[8], servos |-> <<ReadServo(m, 9), ReadServo(m, 17)>>,
     led |-> [count |-> IF count \in 1 .. Strip THEN count ELSE Strip,
              mode |-> m[27], brightness |-> m[28]]]

FwAnswer(op, status, rest) ==
    rest @@ At(0, Answer.CFG \o <<op + 128, status>>) @@ Zeros(32)

FwPeriphAnswer(op, p) ==
    FwAnswer(op, 0, At(5, <<1, 0, 0, p.flags>> \o ServoBytes(p.servos[1])
                            \o ServoBytes(p.servos[2]) \o Pair(p.led.count)
                            \o <<p.led.mode, p.led.brightness>>))

\* table: slot -> row, slots from 0; a first slot past the end is taken for 0.
FwSlotsAnswer(op, status, table, first) ==
    LET count == Cardinality(DOMAIN table)
        start == IF first \in DOMAIN table THEN first ELSE 0
        here  == Min({count - start, PerPage})
        Row(r) == <<r.bus, (r.protocol % 128) + 128 * Flag(r.enabled), r.motor_id>>
    IN FwAnswer(op, status,
                At(5, <<here>> \o FlattenSeq([i \in 1 .. here |-> Row(table[start + i - 1])]))
                  @@ At(30, <<count, start>>))
=============================================================================
