----------------------------- MODULE HealthChecks -----------------------------
(***************************************************************************)
(* What must hold of the host's conclusions: the light it infers against    *)
(* the light the firmware shows, the grade of a session, the verdicts of a  *)
(* measurement, of a servo's pose and of an inventory.  TLC evaluates the   *)
(* assumptions in the runs that extend this module.                         *)
(***************************************************************************)
EXTENDS Integers, Sequences, FiniteSets

LOCAL H == INSTANCE HostHealth
LOCAL Opt(S) == {{}} \cup {{x} : x \in S}
LOCAL Peers ==
  {H!Peer(sy, fr, k, sn, pb) : sy, fr \in BOOLEAN, k \in 0 .. 4, sn, pb \in {0, 1}}
LOCAL Leds == [policy : {"debug", "pdu", "follow"}, pattern : {0, 3, 8}]

\* The strip's light under a host desire; a desire for the power board's
\* state turns listening on, on the board as on the host.
LOCAL Strip(led, listen, peer, default) ==
  H!FwLedMode(H!WireMode(led), listen \/ led.policy = "pdu", peer, default)

\* The doctor names the light that the strip shows, for every desire and
\* every state of the power board, fresh, stale or never heard, while the
\* board's own reading of the stop wire is the one the power board reports,
\* and the board's stored default is the idle pattern.
ASSUME LedInferenceIsTheStrip ==
    \A led \in Leds : \A listen \in BOOLEAN : \A default \in {H!Off, H!Idle} :
      \A peer \in {p \in Peers : p.pb7 = H!FwPeerSense(p)} :
        H!DoctorLed({led}, listen \/ led.policy = "pdu", {H!FwReports(peer)}).mode
          = Strip(led, listen, peer, default)

\* The feedback carries the board's own reading of the stop wire and the
\* strip follows the power board's: where the two differ, and nothing else
\* makes the strip red, the doctor names another light than the one shown.
ASSUME LedInferenceFollowsOwnWire ==
    \A peer \in Peers :
      LET follow == [policy |-> "follow", pattern |-> 0]
          said   == H!DoctorLed({follow}, TRUE, {H!FwReports(peer)}).mode
          shown  == Strip(follow, TRUE, peer, H!Idle)
      IN (said # shown) <=> /\ peer.fresh /\ peer.kill < H!Hard
                            /\ peer.pb7 # peer.sense

\* A host that does not listen says the same whatever the power board does:
\* the stale failsafe on the wire never reddens its answer.
ASSUME NotListeningIgnoresKill ==
    \A led \in {l \in Leds : l.policy # "pdu"} : \A p, q \in Peers :
      H!DoctorLed({led}, FALSE, {H!FwReports(p)}) = H!DoctorLed({led}, FALSE, {})
      /\ H!DoctorLed({led}, FALSE, {H!FwReports(q)}).source # "pdu_traffic_light"

\* The strip is never dark for want of a pattern or of brightness, "off" and
\* no brightness asked for included.
ASSUME StripIsNeverDark ==
    \A led \in Leds : \A listen \in BOOLEAN : \A peer \in Peers : \A d \in {0, 5, 8} :
      /\ Strip(led, listen, peer, d) # H!Off
      /\ H!FwBrightness(0, d) > 0

----------------------------------------------------------------------------
LOCAL Readings ==
  [connected : BOOLEAN, ageMs : Opt({0, 1000, 1001}), hz : Opt({0, 49, 99, 199, 200, 400}),
   sendMs : Opt({4, 5}), lag : Opt({25, 26}), block : Opt({0, 1, 6}), mcu : Opt({0, 3})]
LOCAL Rank == [red |-> 0, yellow |-> 1, green |-> 2]
LOCAL Rate(s) == Rank[H!Grade(s).grade]

\* A reading that gets worse never betters the grade: losing the session or
\* the plant, an older or rarer feedback, a block, a state that is not normal.
LOCAL Worse(s) ==
  {[s EXCEPT !.connected = FALSE], [s EXCEPT !.ageMs = {1001}], [s EXCEPT !.block = {}],
   [s EXCEPT !.block = {1}], [s EXCEPT !.mcu = {3}]}
  \cup {[s EXCEPT !.hz = {x}] : x \in {0, 49, 99, 199, 200} \cap {y \in 0 .. 400 :
          s.hz = {} \/ \A z \in s.hz : y <= z}}
ASSUME WorseIsNoBetter ==
    \A s \in Readings : \A w \in Worse(s) : Rate(w) <= Rate(s)

\* A green session has its plant applied in normal state, by the feedback it
\* last heard, which is a second old at most.
ASSUME GreenIsLive ==
    \A s \in Readings : Rate(s) = 2 =>
      /\ s.connected /\ s.block = {0} /\ s.mcu \in {{}, {0}}
      /\ \A x \in s.ageMs : x <= 1000
      /\ \A x \in s.hz : x >= 200

\* A gate that is closed is what a session with feedback is told of, whatever
\* else is wrong with it.
ASSUME BlockIsNamed ==
    \A s \in Readings : \A b \in 1 .. 6 :
      s.connected /\ s.ageMs \in {{}, {0}, {1000}} =>
        H!Grade([s EXCEPT !.block = {b}]) = [grade |-> "yellow", why |-> H!PlantBlocks[b + 1]]

\* The lag is the number of commands not yet acknowledged, as long as that
\* is at most half of the range of its eight bits, and none beyond it.
ASSUME LagIsInFlight ==
    \A sent \in {0, 1, 127, 128, 255} : \A behind \in 0 .. 255 :
      H!AckLag(sent, (sent - behind) % 256) = IF behind <= 128 THEN behind ELSE 0

----------------------------------------------------------------------------
LOCAL Modes == {H!Bandwidth, H!Debug, H!SoftDfu}
LOCAL Echoes == UNION {[1 .. n -> Opt(Modes)] : n \in 0 .. 5}
LOCAL Heard(samples) == SelectSeq(samples, LAMBDA x : x # {})

\* A mode has settled only on as many echoes of it in a row as were asked
\* for, with no other between and the bootloader's never seen before them;
\* what comes later does not change the verdict; and the bootloader's own
\* mode never settles.
ASSUME SettledMeansInARow ==
    \A samples \in Echoes : \A want \in Modes : \A confirm \in 1 .. 3 :
      LET got == H!SettleMode(samples, want, confirm)
          h   == Heard(samples)
          run(k) == \A i \in k + 1 .. k + confirm : h[i] = {want}
          first == {k \in 0 .. Len(h) - confirm : run(k)}
          before(k) == \A i \in 1 .. k : h[i] # {H!SoftDfu}
      IN /\ got.ok <=> (want # H!SoftDfu /\ \E k \in first : before(k))
         /\ got.ok => \A x \in Opt(Modes) : H!SettleMode(Append(samples, x), want, confirm) = got
         /\ ~(got.ok /\ got.dfu)

\* One bad lag in twenty is forgiven and no more; of fewer than twenty, none;
\* a measurement without a single acknowledgement passes for a good one.
ASSUME LagsForgiveOneInTwenty ==
    /\ \A n \in {1, 19, 20, 21, 30, 31, 41} : \A bad \in 0 .. 4 :
         LET lags == [i \in 1 .. n |-> IF i <= bad THEN 9 ELSE i % 3]
             ok   == H!LagOk(lags)
         IN bad <= n => /\ n < 20 => (ok <=> bad = 0)
                        /\ (n >= 20 /\ bad <= n \div 20) => ok
                        /\ ok => 20 * bad <= n + 19
    /\ H!LagOk(<<>>)

\* A hold counts as measured in a mode only if the host asked for it, it
\* settled, and every sample echoed it.
ASSUME ModeOkIsStrict ==
    \A want \in Opt(Modes) : \A host \in Modes : \A modes \in SUBSET Modes :
      \A samples \in {<<{0}>>, <<{1}>>, <<{2}>>, <<{0}, {2}>>} :
        \A w \in want :
          H!ModeOk(want, host, H!SettleMode(samples, w, 1), modes) =>
            w = host /\ modes = {w} /\ w # H!SoftDfu

----------------------------------------------------------------------------
LOCAL Frames == [source : {0, 5, 6}, pos : {0, 700}]
LOCAL Rounds == UNION {[1 .. n -> {<<>>} \cup {<<f>> : f \in Frames}] : n \in 0 .. 3}

\* Torque comes on only at a pose that the board has reported, in a frame
\* read before the command was built, and stays off until there is one.
ASSUME ServoTorqueNeedsPose ==
    \A rounds \in Rounds :
      LET sent == H!ServoSampleRounds(5, rounds).sent
      IN \A i \in DOMAIN sent : sent[i].torque =>
           \E k \in 1 .. i - 1 : \E j \in DOMAIN rounds[k] : rounds[k][j].pos = sent[i].goal

\* But the board reports zero, and no servo's name, until it has read one:
\* such a frame is taken for a pose, and the servo is sent to zero.
ASSUME UnreadServoCountsAsPose ==
    LET sent == H!ServoSampleRounds(5, <<<<[source |-> 0, pos |-> 0]>>, <<>>>>).sent
    IN sent = <<[torque |-> FALSE, goal |-> 0], [torque |-> TRUE, goal |-> 0]>>

\* Watching the servos never turns one on, and a servo that the table does
\* not enable is cleared; with no reading of its own identifier it does not
\* count as connected.
ASSUME WatchingIsPassive ==
    \A rows \in UNION {[1 .. n -> [slot : {0, 1}, enabled : BOOLEAN, id : {0, 5, 261}]] : n \in 0 .. 2} :
      LET seed == H!SeedServoObserve(rows)
      IN \A s \in {0, 1} :
           /\ ~seed[s].torque
           /\ seed[s].id # 0 => \E i \in DOMAIN rows :
                /\ rows[i].slot = s /\ rows[i].enabled
                /\ H!ServoConnected(rows[i], {[source |-> seed[s].id]})
           /\ \A i \in DOMAIN rows : ~H!ServoConnected(rows[i], {[source |-> 0]})

\* What a menu shows as live is enabled in the table and has an identifier,
\* whatever the board reports of it; a board that reports only zeros has none.
ASSUME LiveIsEnabled ==
    \A rows \in [1 .. 2 -> [enabled : BOOLEAN, id : {0, 5, 256}]] :
      \A fbs \in [1 .. 2 -> Opt([temperature : {0, 30}, fault : {0, 1}, moved : BOOLEAN])] :
        LET live    == {i \in 1 .. 2 : H!SlotConnected(rows[i], fbs[i])}
            sum     == H!ConnectionSummary(rows, live)
            quiet   == \A i \in 1 .. 2 : \A r \in fbs[i] :
                         r = [temperature |-> 0, fault |-> 0, moved |-> FALSE]
        IN /\ sum.live <= sum.enabled /\ (sum.connected <=> sum.live > 0)
           /\ \A i \in 1 .. 2 : rows[i].id \in {0, 256} => i \notin live
           /\ quiet => ~sum.connected

\* Watching the drives of the far buses lets the plant go on with everything
\* else the image held, a desire that was parked included.
ASSUME WatchingReleasesTheRest ==
    \A rows \in [1 .. 2 -> [enabled : BOOLEAN, bus : {3, 4}]] : \A mcu \in {"normal", "estop"} :
      LET hub   == [desires |-> [s \in {1, 7} |-> "drive"], mcu |-> mcu, apply |-> FALSE]
          after == H!SeedMcpObserve(hub, rows)
      IN /\ after.mcu = "normal" /\ after.apply
         /\ after.desires[7] = "drive"
         /\ \A s \in 1 .. 2 : (s \in DOMAIN after.desires /\ after.desires[s] = "anchor")
                                <=> (rows[s].enabled /\ rows[s].bus = 4)

----------------------------------------------------------------------------
\* A range is in order and within the identifiers of its protocol, has every
\* one of those that was asked for, and no other but the nearest end when
\* nothing that was asked for exists.
ASSUME RangesAreWhole ==
    \A p \in {"robstride", "damiao"} : \A a, b \in {-3, 0, 1, 2, 126, 127, 128, 255, 256, 300} :
      LET r     == H!ParseIdRange(a, b, p)
          legal == IF p = "robstride" THEN 0 .. 127 ELSE 1 .. 255
          asked == {x \in legal : (a <= x /\ x <= b) \/ (b <= x /\ x <= a)}
      IN /\ r[1] <= r[2] /\ {r[1], r[2]} \subseteq legal
         /\ r = H!ParseIdRange(b, a, p)
         /\ IF asked # {} THEN asked = r[1] .. r[2] ELSE r[1] = r[2]

\* No protocol is swept over a range that nobody named: a call resolves to
\* the protocols it asked for, or is refused.
ASSUME NoRangeNoSweep ==
    \A preset \in {{}, {"bench"}, {"yam"}, {"all"}} :
      \A given \in SUBSET {"robstride", "zeroerr", "spare"} :
        \A protocols \in SUBSET {"robstride", "zeroerr", "spare"} :
          LET ranges == [p \in given |-> <<3, 4>>]
              got    == H!ResolveRanges(preset, ranges, protocols)
          IN /\ \A r \in got : /\ DOMAIN r = protocols
                               /\ \A p \in protocols \cap given : r[p] = <<3, 4>>
             /\ (got = {}) <=> \/ preset = {"all"}
                               \/ ~(protocols \subseteq given \cup
                                     (IF preset = {} THEN {} ELSE {"robstride", "zeroerr"}))

\* A peer that the inventory was told to require is there: an inventory that
\* passes has heard it lately.  A fresh board that itself reports lost
\* communication is taken for a stale one.
ASSUME RequiredPeerIsFresh ==
    \A peer \in Peers : \A own \in {"NONE", "COMMS_LOSS"} :
      LET status == {[kill   |-> H!FwKill(peer),
                      reason |-> IF peer.fresh THEN own ELSE "COMMS_LOSS"]}
          pdu    == H!CollectPdu(TRUE, TRUE, status, TRUE)
      IN /\ H!Inventory({"pdu"}, <<>>, FALSE, pdu) => peer.fresh
         /\ (peer.fresh /\ ~pdu.ok) <=> (peer.fresh /\ peer.kill = H!Hard /\ own = "COMMS_LOSS")
         /\ ~H!CollectPdu(TRUE, TRUE, {}, TRUE).ok
         /\ H!CollectPdu(TRUE, TRUE, {}, FALSE).ok

\* An inventory looks at what it was asked for and at nothing else, and a
\* part that failed is not made up for by another.
ASSUME InventoryIsThorough ==
    \A parts \in SUBSET {"actuators", "servos", "pdu"} : \A a, b, table, block \in BOOLEAN :
      LET servos == H!CollectServos(table, block)
          pdu(status) == H!CollectPdu(block, TRUE, status, FALSE)
          ok == H!Inventory(parts, <<a, b>>, servos, pdu({}))
      IN ok <=> /\ "actuators" \in parts => a /\ b
                /\ "servos" \in parts => table
                /\ parts \cap {"servos", "pdu"} # {} => block

\* Every slot of a menu that is let through can be cruised.
ASSUME MenuSlotsHaveSpecs ==
    \A slots \in UNION {[1 .. n -> {-1, 0, 15, 25, 26}] : n \in 0 .. 2} :
      \A good \in H!ParseSlotMenu(slots) : \A has \in SUBSET {0, 15} :
        LET known == [s \in has |-> [window |-> s = 0, seedRelative |-> FALSE, protocol |-> "damiao"]]
            specs == H!CruiseSpecs(good, known)
        IN \A i \in DOMAIN good : LET sp == specs[good[i]] IN
             /\ good[i] \in 0 .. 25 /\ (sp.window \/ sp.seedRelative)
             /\ sp.protocol = IF good[i] = 0 /\ 0 \in has THEN "damiao" ELSE "robstride"

\* No choice of presets turns listening off again, so that an earlier "pdu"
\* decides what a later "follow" shows.
LOCAL LedPresetsOf ==
  [name : {"gen_2", "idle", "pdu", "follow"}, policy : {"debug", "pdu", "follow"},
   pattern : {8}, brightness : {8}]
ASSUME PresetsKeepListening ==
    \A list \in UNION {[1 .. n -> LedPresetsOf] : n \in 0 .. 2} :
      LET block[i \in 0 .. Len(list)] ==
            IF i = 0 THEN [mode |-> 3, brightness |-> 1, listen |-> FALSE]
            ELSE H!ApplyLedPreset(block[i - 1], list[i])
      IN /\ block[Len(list)].listen <=> \E i \in DOMAIN list : list[i].policy = "pdu"
         /\ block[Len(list)].mode \in {3, 8}

\* The neck's preset enables both of its servos and leaves the others of the
\* block as they were, whatever the block had.
ASSUME NeckPresetEnablesBoth ==
    \A n \in 0 .. 3 : \A on \in BOOLEAN :
      LET old  == [k \in 1 .. n |-> [slot |-> k - 1, id |-> 9, enabled |-> on]]
          new  == H!ApplyNeckPreset([servos |-> old], [ids |-> <<1, 2>>]).servos
      IN /\ \A k \in 1 .. 2 : new[k] = [slot |-> k - 1, id |-> k, enabled |-> TRUE]
         /\ Len(new) = (IF n < 2 THEN 2 ELSE n) /\ \A k \in 3 .. n : new[k] = old[k]

\* The report has a row of the board's table for every slot of a component
\* that is in it, its own, and none where the table could not be read.
ASSUME ReportedRowsAreTheirSlots ==
    \A read \in BOOLEAN : \A have \in SUBSET {0, 7, 14} :
      LET table  == IF read THEN {[s \in have |-> <<s>>]} ELSE {}
          report == H!DemuxReport([left |-> <<7, 0>>, base |-> <<14>>], table)
      IN \A c \in {"left", "base"} : \A i \in DOMAIN report[c] :
           report[c][i].row = IF read /\ report[c][i].slot \in have THEN {<<report[c][i].slot>>} ELSE {}
=============================================================================
