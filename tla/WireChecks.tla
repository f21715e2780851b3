------------------------------ MODULE WireChecks ------------------------------
(***************************************************************************)
(* What must hold of the layouts of Wire, over samples of the values that   *)
(* the bytes tell apart: every field comes back, no field reaches into its  *)
(* neighbour, and both ends read the same bytes the same way.  TLC          *)
(* evaluates the assumptions in the runs that extend this module.           *)
(***************************************************************************)
EXTENDS Integers, Sequences, FiniteSets, TLC

LOCAL W == INSTANCE Wire

LOCAL Ids   == {0, 1, 6, 127, 255, 256, 300}
LOCAL Sizes == {0, 1, 255, 256, 4095, 65535}
LOCAL Words == {0, 1, 2046, 4095, 2^20 - 1, 2^30 + 7, 2147483647}
LOCAL Raw   == {<<0, 0, 0, 0>>, <<1, 2, 3, 4>>, <<255, 255, 255, 255>>}
LOCAL Count32 == [i \in 0 .. 31 |-> 100 + i]

\* The parts of an image lie next to one another and fill it; the lanes end
\* before the mailbox, which a reply repeats.
ASSUME LayoutFills ==
    /\ UNION W!Extents = 0 .. (W!ImageBytes - 1)
    /\ \A e1, e2 \in W!Extents : e1 = e2 \/ e1 \cap e2 = {}
    /\ W!LaneOff(W!LaneCount) <= W!PduOff

\* A patch of the system word is what the firmware reads, and leaves the
\* other fields as they were.
ASSUME SystemWordPatched ==
    \A w \in Words, v \in {0, 1, 2, 3, 7, 8, 15, 31} :
      /\ W!FwSystem(W!McuState(w, v)) = [W!FwSystem(w) EXCEPT !.mcu = v % 8]
      /\ W!FwSystem(W!RxSim(w, v)) = [W!FwSystem(w) EXCEPT !.sim = v % 16]
      /\ W!FwSystem(W!Stm32Mode(w, v)) = [W!FwSystem(w) EXCEPT !.mode = v % 4]
      /\ W!FwSystem(W!PlantApply(w, v # 0)) =
           [W!FwSystem(w) EXCEPT !.apply = IF v # 0 THEN 1 ELSE 0]
      /\ W!McuState(w, v) \div 16 = w \div 16

ASSUME ServoAndLedWords ==
    /\ \A torque, led \in BOOLEAN, mode \in 0 .. 9, id \in Ids :
         W!FwServo(W!ServoFlags(torque, led, mode, id)) =
           [torque |-> IF torque THEN 1 ELSE 0, led |-> IF led THEN 1 ELSE 0,
            mode |-> mode % 8, id |-> id % 256]
    /\ \A mode \in 0 .. 33, b \in {0, 31, 32}, n \in {0, 63, 64, 300} :
         W!FwLed(W!LedWord(mode, b, n)) =
           [mode |-> mode % 32, brightness |-> b % 32, count |-> n % 64]

\* A plant command holds every desire at its slot and nothing else but its
\* header and its state.
ASSUME PlantCommandHoldsDesires ==
    LET desire(n) == [i \in 1 .. 20 |-> n + i]
        image == W!PlantCommand(<<1, 2, 3, 4>>, (0 :> desire(10)) @@ (25 :> desire(40)), 3)
    IN /\ W!Bytes(image, 0, 4) = W!Magic.CMDH
       /\ W!FwSystem(image[W!SystemOff]).mcu = 3
       /\ W!Bytes(image, W!ActuatorOff(0), 22) = desire(10) \o <<0, 0>>
       /\ W!Bytes(image, W!ActuatorOff(25), 22) = desire(40) \o <<0, 0>>
       /\ \A i \in 13 .. (W!ImageBytes - 1) :
            i \notin (W!ActuatorOff(0) .. W!ActuatorOff(1))
              \cup (W!ActuatorOff(25) .. W!ServoOff(0)) => image[i] = 0

\* The words of the feedback come back as the firmware packed them; the
\* acknowledged sequence number is its low byte.
ASSUME FeedbackWordsRead ==
    /\ \A tick \in {0, 4095}, mcu \in {0, 3, 7}, estop, beat \in {0, 1},
          seq \in Ids, block \in 0 .. 7 :
         W!ParseWord(W!FwWord([tick |-> tick, estop |-> estop, mcu |-> mcu,
                               beat |-> beat, seq |-> seq, block |-> block])) =
           [tick |-> tick, mcu |-> mcu, ack |-> seq % 256,
            block |-> W!Named(W!PlantBlockNames, block)]
    /\ \A p \in 0 .. 4, bus \in 1 .. 6, id \in Ids, enabled, valid \in BOOLEAN :
         W!ParseMeta(W!FwMeta([protocol |-> p, bus |-> bus, id |-> id,
                               enabled |-> enabled, valid |-> valid])) =
           [protocol |-> p, bus |-> bus, id |-> id % 256, enabled |-> enabled,
            valid |-> valid]
    /\ \A w \in 0 .. 8191 : W!ParseServo(w).anyError <=> W!ParseServo(w).errors # {}

\* Each read-back is read where the members before it end.
ASSUME TimingRead ==
    LET before[i \in 1 .. Len(W!FwTiming)] ==
          IF i = 1 THEN 0 ELSE before[i - 1] + W!FwTiming[i - 1][2]
        offset == [i \in 1 .. Len(W!FwTiming) |-> <<W!FwTiming[i][1], before[i]>>]
        said   == W!TimingOff @@ W!KillOff
    IN \A f \in DOMAIN said : \E i \in 1 .. Len(offset) : offset[i] = <<f, said[f]>>

-----------------------------------------------------------------------------
LOCAL Seq4 == <<9, 0, 0, 0>>
LOCAL Desire == [i \in 1 .. 20 |-> IF i > 16 THEN 0 ELSE i]
LOCAL RepliesOf == DOMAIN W!FwReply
LOCAL Says(lane) ==     \* a reply with every byte its own value
    [i \in 0 .. 31 |-> IF i = 0 THEN W!Answer[lane][1] ELSE 100 + i]
LOCAL Heard(lane, image) ==
    CASE lane = "RS" -> W!ParseProbe(image) [] lane = "DM" -> W!ParseDm(image)
      [] lane = "CM" -> W!ParseCm(image)    [] lane = "ZE" -> W!ParseZe(image)

\* Whichever lanes a frame arms, the firmware hears those and no other, each
\* with the bytes that were put there; only a configuration request is heard
\* alone.
ASSUME LanesHeard ==
    \A armed \in SUBSET {"RS", "DM", "CM", "ZE", "CFG"} :
      LET lanes == [n \in {W!Lane[l] : l \in armed} |->
                      W!Tag[CHOOSE l \in armed : W!Lane[l] = n] \o <<n>>]
          image == W!LanesCommand(Seq4, lanes, 0)
      IN /\ W!FwDispatch(image) = IF "CFG" \in armed THEN {"CFG"} ELSE armed
         /\ \A l \in armed : W!LaneOf(image, W!Lane[l])[3] = W!Lane[l]
         /\ W!Mailbox(image) = W!Zeros(32)

\* What a bench request asks for is what the firmware takes from its lane.
ASSUME RequestsUnderstood ==
    \A id \in Ids, bus \in W!CanBuses :
      /\ \A index \in Sizes, raw \in Raw, d \in {W!NoDesire, Desire} :
           W!FwRs(W!RsProbe(id, W!Kind.PARAREAD, index, raw, bus, d))
             = [id |-> id % 256, kind |-> 14, bus |-> bus, index |-> index, raw |-> raw,
                mask |-> IF index % 64 # 0 THEN index % 64 ELSE 2^(bus - 1), desire |-> d]
      /\ \A on \in SUBSET {0, 1, 2, 5, 6, 7} :
           LET mask == W!HostBusMask(on)
               fw   == IF on \cap W!CanBuses = {} THEN 2^(bus - 1) ELSE mask
           IN /\ W!FwRs(W!RsScan(id, W!Kind.BEGIN, bus, mask)).mask = fw
              /\ W!FwCm(W!CmProbe(id, W!Kind.BEGIN, bus, 15, 0, mask))
                   = [id |-> id % 256, kind |-> 254, bus |-> bus, mask |-> fw,
                      listen |-> 15, end |-> 0]
              /\ W!FwZe(W!ZeProbe(id, W!Kind.SWEEP, bus, 30, 127, mask))
                   = [id |-> id % 256, kind |-> 17, bus |-> bus, mask |-> fw,
                      timeout |-> 30, end |-> 127]
      /\ W!FwDm(W!DmProbe(id, W!Kind.REG_SCAN, bus, 255, 15, 8, 3))
           = [id |-> id % 256, kind |-> 16, bus |-> bus, master |-> 255, listen |-> 15,
              rid |-> 8, end |-> 3]

\* The fields of a reply do not share a byte, not with the marker either; the
\* host reads each one where the firmware wrote it; and a reply is heard by
\* the operation it answers and by no other.
ASSUME RepliesUnderstood ==
    \A lane \in RepliesOf :
      LET layout == W!FwReply[lane]
          Span(f) == layout[f][1] .. (layout[f][1] + layout[f][2] - 1)
          heard  == Heard(lane, W!FwSends(lane, Says(lane)))
      IN /\ \A f, g \in DOMAIN layout : f # g => Span(f) \cap Span(g) = {}
         /\ \A f \in DOMAIN layout : Span(f) \subseteq 1 .. 31
         /\ lane # "RS" => \A f \in DOMAIN layout : Span(f) \cap {29, 30} = {}
         /\ DOMAIN heard \subseteq DOMAIN layout
         /\ \A f \in DOMAIN heard \ {"bus"} :
              heard[f] = W!Reads(Says(lane), layout)[f]
         /\ \A other \in RepliesOf \ {lane} :
              Heard(other, W!FwSends(lane, Says(lane))) = <<>>

\* The bus of a RobStride reply is one of the six, or unknown.
ASSUME ReplyBus ==
    \A b \in 0 .. 7 :
      W!ParseProbe(W!FwSends("RS", [Says("RS") EXCEPT ![27] = b])).bus
        = IF b \in W!CanBuses THEN <<b>> ELSE <<>>

ASSUME DamiaoFromActuator ==
    \A id \in Ids, top \in {"DA", "DB", "00"}, found \in {0, 2^23} :
      LET act == [fault |-> [top |-> top, rest |-> found], velocity |-> id % 256,
                  torque |-> 5, temperature |-> 256]
          got == W!DmFromActuator(act, id)
      IN /\ got = <<>> <=> top = "00"
         /\ top # "00" => got = [probe_id |-> id % 256, found |-> top = "DB" \/ found # 0,
                                 discovered_id |-> 5, master_id |-> 0]
         /\ W!DmFromActuator(act, id + 1) = <<>>

ASSUME KindsMatched ==
    \A got, asked \in 0 .. 23 :
      /\ W!KindMatches(got, {asked}) <=> (got = asked \/ (asked = 16 /\ got = 14))
      /\ W!KindMatches(got, {})

-----------------------------------------------------------------------------
LOCAL Rows == [bus : {0, 1, 6, 7}, protocol : 0 .. 6, motor_id : {1, 255}, master_id : {0, 255},
               enabled : BOOLEAN]
LOCAL Servo(n) == [model |-> n, id |-> n + 1, enabled |-> n = 1, pos_min |-> 700 * n,
                   pos_max |-> 65535 - n]
LOCAL Blocks == {[flags |-> fl, listen_pdu |-> l, spi3_role |-> r,
                  servos |-> <<Servo(1), Servo(2)>>,
                  led |-> [count |-> n, mode |-> 8, brightness |-> 255]] :
                 fl \in {0, 7, 248, 255}, l \in BOOLEAN, r \in {"led", "thermo", "none"},
                 n \in {0, 1, 300, 301, 65535}}

\* A row set from the host is the row in the firmware's table, its bus and
\* its protocol made legal; the master id is kept for a Damiao drive only.
ASSUME RowsUnderstood ==
    \A row \in Rows : W!FwCfgRow(W!CfgSet(2, 3, row)) =
        [bus |-> IF row.bus \in W!CanBuses THEN row.bus ELSE 1,
         protocol |-> IF row.protocol < 5 THEN row.protocol ELSE 0,
         motor_id |-> row.motor_id, enabled |-> row.enabled,
         master_id |-> IF row.protocol # 3 THEN <<0>>
                       ELSE IF row.master_id = 255 THEN <<>> ELSE <<row.master_id>>]

\* A peripheral block survives the way there, and the way back.
ASSUME BlocksUnderstood ==
    \A p \in Blocks :
      LET flags == W!CfgFlags(p.flags, p)
          fw    == W!FwCfgPeriph(W!CfgSetPeriph(0, p))
          back  == W!ParseCfg(W!FwPeriphAnswer(6, fw))
      IN /\ fw.servos = p.servos /\ fw.flags = flags
         /\ back.body.servos = p.servos
         /\ back.body.listen_pdu = p.listen_pdu
         /\ back.body.spi3_role = W!Spi3Role[p.spi3_role]
         /\ flags \div 8 = p.flags \div 8
         /\ back.body.led.count \in 1 .. W!Strip
         /\ p.led.count \in 1 .. W!Strip => back.body.led = p.led
         /\ back.op = 6 /\ back.status = "ok"

\* The pages of the answers to GET put together are the table; a page from
\* past the end is the first one.
ASSUME PagesMakeTheTable ==
    LET table == [s \in 0 .. (W!Slots - 1) |->
                    [bus |-> 1 + (s % 6), protocol |-> s % 5, motor_id |-> s + 1,
                     enabled |-> s % 3 = 0]]
        Page(first) == W!ParseCfg(W!FwSlotsAnswer(1, 0, table, first)).body
        Rows_(first) == {Page(first)[i] : i \in DOMAIN Page(first)}
        Row(s) == [slot |-> s] @@ table[s]
    IN /\ UNION {Rows_(first) : first \in {0, 8, 16, 24}} = {Row(s) : s \in DOMAIN table}
       /\ \A first \in DOMAIN table : Page(first)[1] = Row(first)
       /\ Page(26) = Page(0)

\* No request reads as an answer, no answer as a request.
ASSUME RequestsAreNotAnswers ==
    \A l \in DOMAIN W!Tag, a \in DOMAIN W!Answer :
      W!Tag[l][1] # W!Answer[a][1]
=============================================================================
