------------------------------ MODULE HostHealth ------------------------------
(***************************************************************************)
(* What the host concludes from what the board reports: the light the strip *)
(* must be showing (and what the firmware shows), the grade of a session,   *)
(* whether a link mode has settled and a hold was measured well, which      *)
(* slots have a live drive, and the verdict of an inventory.                *)
(*                                                                         *)
(* A value that may be None is a set of at most one element; a call that    *)
(* raises returns the empty set.                                            *)
(***************************************************************************)
EXTENDS Integers, Sequences, FiniteSets

LOCAL SX == INSTANCE SequencesExt
LOCAL The(s) == CHOOSE x \in s : TRUE
LOCAL Within(x, lo, hi) == IF x < lo THEN lo ELSE IF x > hi THEN hi ELSE x

----------------------------------------------------------------------------
(* The light. *)

Normal    == 0
SoftReq   == 1
SoftReady == 2
Hard      == 3
Off       == 0
SolidRed  == 5
Caution   == 6
Fault     == 7
Idle      == 8

LedModeFromKill(kill, sense) ==
  CASE kill = Hard \/ sense = 0          -> Fault
    [] kill = SoftReady                  -> SolidRed
    [] kill = SoftReq                    -> Caution
    [] kill = Normal                     -> Idle
    [] OTHER                             -> Fault

WireMode(led) == IF led.policy = "debug" THEN led.pattern ELSE Off

\* led, kill and sense may be None; sense is only read with a kill state.
InferLed(led, listen, kill, sense) ==
  LET want      == IF led = {} THEN [policy |-> "follow", pattern |-> 0] ELSE The(led)
      listening == want.policy = "pdu" \/ listen
      answer(source, mode) == [source |-> source, mode |-> mode, listening |-> listening]
  IN CASE WireMode(want) # Off -> answer("host_debug", WireMode(want))
       [] WireMode(want) = Off /\ ~listening -> answer("nvm_or_follow", Idle)
       [] WireMode(want) = Off /\ listening /\ kill = {} -> answer("unknown", Off)
       [] OTHER -> answer("pdu_traffic_light",
                          LedModeFromKill(The(kill), IF sense = {} THEN 1 ELSE The(sense)))

\* What the firmware knows of the power board: whether it was ever
\* heard, whether lately, and the kill state and the wire's sense that its last frame reported.
\* PB7 is the same wire, read by the board itself.
Peer(synced, fresh, kill, sense, pb7) ==
  [synced |-> synced, fresh |-> synced /\ fresh, kill |-> kill, sense |-> sense, pb7 |-> pb7]
FwKill(peer)      == IF peer.fresh THEN peer.kill ELSE Hard
FwPeerSense(peer) == IF peer.fresh THEN peer.sense ELSE 1

FwLedFromPdb(peer) ==
  IF ~peer.synced \/ FwKill(peer) = Hard \/ FwPeerSense(peer) = 0 THEN Fault
  ELSE CASE FwKill(peer) = SoftReady -> SolidRed
         [] FwKill(peer) = SoftReq   -> Caution
         [] FwKill(peer) = Normal /\ peer.fresh -> Idle
         [] OTHER -> Fault

FwLedMode(wire, listen, peer, default) ==
  LET own == IF listen THEN FwLedFromPdb(peer) ELSE default
  IN IF wire # Off THEN wire ELSE IF own = Off THEN Idle ELSE own
FwBrightness(wire, default) ==
  IF wire # 0 THEN wire ELSE IF default # 0 THEN default ELSE 8

\* What the feedback says of it: the sense is the board's own reading.
FwReports(peer) == [kill |-> FwKill(peer), sense |-> peer.pb7]

\* The doctor looks at the power board only when the host listens.
DoctorLed(led, listen, status) ==
  LET seen(f) == IF listen /\ status # {} THEN {The(status)[f]} ELSE {}
  IN InferLed(led, listen, seen("kill"), seen("sense"))

----------------------------------------------------------------------------
(* The grade of a session. *)

PlantBlocks ==
  <<"plant running", "BENCH_SESSION", "PROBE_BUSY", "QUIET_PERIOD", "APPLY_OFF",
    "HOST_STALE", "SERVO_SESSION">>

\* s: connected, ageMs, hz, sendMs, lag, block, mcu, all but the first
\* possibly None.  hz is in tenths.
Grade(s) ==
  LET at(f, bad(_)) == s[f] # {} /\ bad(The(s[f]))
      slow(hz)    == at("hz", LAMBDA x : x < hz)
      txOk        == at("sendMs", LAMBDA x : x < 5)
      blocked     == s.block = {} \/ The(s.block) # 0
      title       == IF s.block \cap (0 .. 6) = {} THEN "plant_block"
                     ELSE PlantBlocks[The(s.block) + 1]
      answer(grade, why) == [grade |-> grade, why |-> why]
  IN CASE ~s.connected -> answer("red", "disconnected")
       [] s.connected /\ at("ageMs", LAMBDA x : x > 1000) -> answer("red", "no feedback")
       [] OTHER ->
            IF ~blocked /\ ~at("mcu", LAMBDA x : x # 0) /\ ~slow(200) THEN answer("green", "OK")
            ELSE IF blocked THEN answer("yellow", title)
            ELSE IF slow(50) /\ txOk THEN answer("yellow", "USB FB sparse")
            ELSE IF at("lag", LAMBDA x : x >= 26) THEN answer("yellow", "ack lag")
            ELSE IF slow(200) /\ txOk THEN answer("yellow", "fb low")
            ELSE IF slow(100) THEN answer("yellow", "link weak")
            ELSE answer("yellow", "streaming")

\* Acknowledgements lag in eight bits; one that seems ahead counts as none.
AckLag(sent, ack) == LET lag == (sent - ack) % 256 IN IF lag > 128 THEN 0 ELSE lag

----------------------------------------------------------------------------
(* Measuring. *)

Bandwidth == 0
Debug     == 1
SoftDfu   == 2

\* samples: what each round drained, None or the mode that was echoed, up to
\* the time limit.  The bootloader's echo fails at once.
SettleMode(samples, want, confirm) ==
  LET look(acc, one) ==
        IF acc.done \/ one = {} THEN acc
        ELSE LET mode == The(one)
                 n    == IF mode = want THEN acc.matched + 1 ELSE 0
             IN IF mode = SoftDfu
                THEN [acc EXCEPT !.done = TRUE, !.dfu = TRUE, !.matched = 0, !.last = one]
                ELSE [acc EXCEPT !.matched = n, !.last = one, !.done = n >= confirm,
                                 !.ok = n >= confirm]
  IN SX!FoldLeft(look, [ok |-> FALSE, dfu |-> FALSE, done |-> FALSE, matched |-> 0,
                        last |-> {}], samples)

\* The place, from 0, of a percentile in n sorted values, rounded half to even.
PercentileAt(n, p) ==
  LET q == (p * (n - 1)) \div 100
      r == (p * (n - 1)) % 100
  IN IF r > 50 \/ (r = 50 /\ q % 2 = 1) THEN q + 1 ELSE q

\* Twenty lags are needed to leave the worst one out.
LagOk(lags) ==
  LET small == Cardinality({i \in DOMAIN lags : lags[i] <= 2})
  IN IF Len(lags) < 20 THEN small = Len(lags) ELSE small > PercentileAt(Len(lags), 95)

\* modes: the modes that the measured samples echoed.
ModeOk(want, host, settle, modes) ==
  want # {} => /\ host = The(want) /\ settle.ok /\ ~settle.dfu
               /\ modes = want /\ SoftDfu \notin modes

----------------------------------------------------------------------------
(* Live drives and servos.  A row of the table: enabled, id; a reading may be None. *)

SlotConnected(row, fb) ==
  /\ row.enabled /\ row.id % 256 # 0
  /\ \E r \in fb : r.temperature # 0 \/ r.fault # 0 \/ r.moved

ServoConnected(row, fb) ==
  row.enabled /\ row.id % 256 # 0 /\ \E r \in fb : r.source = row.id % 256

\* live: the rows that are connected.
ConnectionSummary(rows, live) ==
  LET on == {i \in DOMAIN rows : rows[i].enabled}
      up == on \cap live
  IN [enabled |-> Cardinality(on), live |-> Cardinality(up), connected |-> up # {}]

\* Watching is done with the desires of an idle drive, in normal state and
\* with the plant applied: what else the image holds goes out with it.
SeedMcpObserve(hub, rows) ==
  LET far == {i \in DOMAIN rows : rows[i].enabled /\ rows[i].bus >= 4}
  IN [hub EXCEPT !.desires = [s \in DOMAIN @ \cup far |-> IF s \in far THEN "anchor" ELSE @[s]],
                 !.mcu = "normal", !.apply = TRUE]

SeedServoObserve(rows) ==
  [s \in {0, 1} |->
     LET mine == {i \in DOMAIN rows : rows[i].slot = s}
         row  == rows[CHOOSE i \in mine : \A k \in mine : i <= k]
         id   == IF mine = {} \/ ~row.enabled THEN 0 ELSE row.id % 256
     IN [id |-> id, torque |-> FALSE]]

\* One servo's pose, by rounds: each commands a goal with the torque on once
\* a pose is known, then reads what has come.  A reading counts if it names
\* the servo, or no servo, or is not zero.
ServoSampleRounds(id, rounds) ==
  LET read(acc, f) ==
        IF f.source \in {0, id} \/ f.pos # 0 THEN [acc EXCEPT !.last = {f.pos}, !.frames = @ + 1]
        ELSE [acc EXCEPT !.frames = @ + 1]
      round(acc, got) ==
        IF acc.done THEN acc
        ELSE LET cmd  == IF acc.last = {} THEN [torque |-> FALSE, goal |-> 0]
                         ELSE [torque |-> TRUE,
                               goal |-> IF acc.hold # {} THEN The(acc.hold) ELSE The(acc.last)]
                 seen == SX!FoldLeft(read, acc, got)
                 hold == IF seen.hold = {} /\ seen.frames >= 8 THEN seen.last ELSE seen.hold
             IN [seen EXCEPT !.sent = Append(@, cmd), !.hold = hold,
                             !.done = seen.last # {} /\ hold # {} /\ seen.frames >= 12]
  IN SX!FoldLeft(round, [last |-> {}, hold |-> {}, frames |-> 0, sent |-> <<>>, done |-> FALSE],
                 rounds)

----------------------------------------------------------------------------
(* The inventory. *)

RangePresets ==
  LET ids(rs, other) == [robstride |-> rs, damiao |-> other, cubemars |-> other, zeroerr |-> other]
  IN [bench   |-> ids(<<112, 117>>, <<1, 8>>),
      product |-> ids(<<1, 2>>, <<1, 7>>),
      yam     |-> ids(<<1, 2>>, <<1, 7>>),
      full    |-> ids(<<1, 127>>, <<1, 16>>)]

ParseIdRange(a, b, protocol) ==
  LET lo == IF a > b THEN b ELSE a
      hi == IF a > b THEN a ELSE b
      clamp(x) == IF protocol = "robstride" THEN Within(x, 0, 127) ELSE Within(x, 1, 255)
  IN <<clamp(lo), clamp(hi)>>

\* preset: None or a name; ranges: what was given by protocol.
ResolveRanges(preset, ranges, protocols) ==
  LET known == IF preset = {} THEN {[p \in {} |-> <<>>]}
               ELSE {RangePresets[k] : k \in preset \cap DOMAIN RangePresets}
      both(r) == [p \in DOMAIN r \cup DOMAIN ranges |-> IF p \in DOMAIN ranges THEN ranges[p] ELSE r[p]]
  IN {[p \in protocols |-> both(r)[p]] :
        r \in {k \in known : protocols \subseteq DOMAIN k \cup DOMAIN ranges}}

StaleFailsafe(status) == status.kill = Hard /\ status.reason = "COMMS_LOSS"

\* status: None or what the feedback says of the power board.
CollectPdu(periphOk, statusOk, status, requirePeer) ==
  LET live == {~StaleFailsafe(s) : s \in status}
      peer == IF requirePeer THEN {live = {TRUE}} ELSE live
  IN [ok |-> periphOk /\ statusOk /\ (requirePeer => peer = {TRUE}), peerOk |-> peer]

CollectServos(tableOk, periphOk) == tableOk /\ periphOk

\* parts: the parts that were asked for; each sweep and each part is looked
\* at, whatever the ones before it came to.
Inventory(parts, sweeps, servos, pdu) ==
  /\ ("actuators" \in parts => \A i \in DOMAIN sweeps : sweeps[i])
  /\ ("servos" \in parts => servos)
  /\ ("pdu" \in parts => pdu.ok)

----------------------------------------------------------------------------
(* What the menus hand to the engine, and what presets leave in the board's periphery. *)

ParseSlotMenu(slots) ==
  IF slots = <<>> \/ \E i \in DOMAIN slots : slots[i] \notin 0 .. 25 THEN {} ELSE {slots}

\* A bench slot that has no window of its own gets a RobStride's.
CruiseSpecs(slots, known) ==
  [s \in SX!ToSet(slots) |->
     IF s \in DOMAIN known /\ (known[s].window \/ known[s].seedRelative) THEN known[s]
     ELSE [window |-> TRUE, seedRelative |-> FALSE, protocol |-> "robstride"]]

ApplyLedPreset(periph, preset) ==
  LET fixed == preset.name = "gen_2" \/ preset.policy = "debug"
      mode  == IF preset.name = "gen_2" THEN Idle ELSE preset.pattern
  IN [periph EXCEPT !.mode = IF fixed THEN mode ELSE @,
                    !.brightness = IF fixed THEN preset.brightness ELSE @,
                    !.listen = @ \/ preset.policy = "pdu"]

\* Both neck servos are written whole, whatever the block held; the image gets
\* their centre goals at once (NeckCenter of HostPlan).
ApplyNeckPreset(periph, preset) ==
  LET servo(k) == [slot |-> k, id |-> preset.ids[k + 1], enabled |-> TRUE]
      old == periph.servos
  IN [periph EXCEPT !.servos =
        [i \in 1 .. (IF Len(old) < 2 THEN 2 ELSE Len(old)) |->
           IF i <= 2 THEN servo(i - 1) ELSE old[i]]]

\* Each component's slots with the row the board's table has for them.
DemuxReport(components, table) ==
  [c \in DOMAIN components |->
     [i \in DOMAIN components[c] |->
        LET s == components[c][i]
        IN [slot |-> s, row |-> IF table = {} THEN {} ELSE
              IF s \in DOMAIN The(table) THEN {The(table)[s]} ELSE {}]]]
=============================================================================
