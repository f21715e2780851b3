------------------------------- MODULE MapChecks ------------------------------
(***************************************************************************)
(* What must hold of the slot maps: between the tables the SDK ships, the   *)
(* profiles and presets made of them, and what the firmware does with a row *)
(* on the bus.  TLC evaluates the assumptions in the runs that extend this  *)
(* module.                                                                  *)
(***************************************************************************)
EXTENDS Integers, Sequences, FiniteSets, TLC

LOCAL M == INSTANCE SlotMaps
LOCAL Pr == M!Proto
LOCAL Set(rows) == [s \in M!Slots |-> M!FwSet(rows[s])]
LOCAL Loaded(rows) == [s \in M!Slots |-> M!FwLoaded(Set(rows)[s])]
LOCAL Shipped == {M!YamProductRows, M!YamLeftArmRows, M!CubemarsYamRows, M!Gen2ProductRows}
LOCAL Live(rows) == {s \in M!Slots : rows[s].enabled}
LOCAL SlotSet(p) == {p.slots[i] : i \in 1 .. Len(p.slots)}
LOCAL Sections(asm) == {asm[n] : n \in DOMAIN asm}

\* Under every shipped table, as it is set and as it comes back from flash,
\* the reply of each drive is taken by its own slot and by no other: nothing
\* reads another joint's position.
ASSUME RepliesHaveOneTaker ==
    \A rows \in Shipped : \A table \in {Set(rows), Loaded(rows)} :
      \A s \in Live(rows) :
        M!Takers(table, rows[s].bus, M!Reply(rows[s])) = {s}

\* No two drives of a bus listen to the same commands, and none listens to
\* what another one replies.  On the third bus of gen2, where CubeMars and
\* ZeroErr both use standard identifiers, only the numbers keep them apart.
ASSUME CommandsReachOneDrive ==
    \A rows \in Shipped : \A b \in M!Buses :
      \A s, t \in M!SlotsByBus(rows)[b] : s # t =>
        /\ M!CommandIds(rows[s]) \cap M!CommandIds(rows[t]) = {}
        /\ M!CommandIds(rows[s]) \cap M!ReplyIds(rows[t]) = {}
        /\ M!ReplyIds(rows[s]) \cap M!ReplyIds(rows[t]) = {}

\* The placeholders of the editor's gen_2 preset are what the firmware cannot
\* run on: drives of one bus and protocol share a number, so one reply moves
\* several slots, and three ZeroErr slots all follow node 1.
ASSUME PlaceholdersCollide ==
    \E rows \in M!Gen2All(M!YamProductRows) :
      /\ \A s \in M!Slots : [rows[s] EXCEPT !.motor = M!Gen2ProductRows[s].motor]
                              = M!Gen2ProductRows[s]
      /\ \A s \in M!Slots : rows[s].motor = 0
      /\ M!Takers(Set(rows), 3, M!Reply(M!Gen2ProductRows[17])) = {17, 18, 19}

\* The bench and product presets are the shipped table, slot by slot: laid
\* over any table they give its rows.  The CubeMars arm is a scaffold whose
\* joints all have the number 1.
ASSUME PresetsAreTheTable ==
    LET laid(rows) ==
          UNION {UNION {UNION {M!ApplyPreset(c, M!Presets.lift_off, M!Torso, TRUE) :
            c \in M!ApplyPreset(b, M!Presets.product, M!Base, TRUE)} :
            b \in M!ApplyPreset(a, M!Presets.yam_right, M!RightArm, TRUE)} :
            a \in M!ApplyPreset(rows, M!Presets.yam_left, M!LeftArm, TRUE)}
    IN /\ \A rows \in {M!CubemarsYamRows, M!YamLeftArmRows} :
            laid(rows) = {[s \in M!Slots |-> IF s > 20 THEN rows[s] ELSE M!YamProductRows[s]]}
       /\ \A rows \in M!ApplyPreset(M!YamProductRows, M!Presets.cubemars, M!LeftArm, TRUE) :
            \A s \in 0 .. 6 :
              M!Takers(Set(rows), 1, M!Reply(rows[s])) = 0 .. 6

\* A preset says which slots it changes: no other row moves, and turning the
\* preset off leaves the joints' numbers in place.
ASSUME PresetsTouchTheirSlots ==
    \A name \in DOMAIN M!Presets : \A on \in BOOLEAN :
      LET joints == M!Presets[name]
          slots  == M!Upto(25 - Len(joints) + 1, 25)
          before == M!YamProductRows
      IN /\ M!ValidSlotList(slots, Len(joints))
         /\ M!ApplyPreset(before, joints, M!Upto(0, Len(joints)), on) = {}
         /\ \A rows \in M!ApplyPreset(before, joints, slots, on) :
              /\ \A s \in M!Slots : rows[s] # before[s] => s >= 25 - Len(joints) + 1
              /\ \A i \in 1 .. Len(joints) :
                   LET row == rows[slots[i]]
                   IN /\ row.motor = joints[i][3]
                      /\ row.enabled <=> on /\ joints[i][2] # Pr.none

\* The left arm's table is the product's with everything else switched off,
\* so that switching back needs no other change.
ASSUME LeftArmIsPartOfProduct ==
    /\ \A s \in M!Slots :
         M!YamLeftArmRows[s] = [M!YamProductRows[s] EXCEPT !.enabled = s \in 0 .. 6]
    /\ \A rows \in Shipped : \A b \in M!Buses :
         \A s \in M!SlotsByBus(rows)[b] : rows[s].protocol # Pr.none
    /\ UNION {M!SlotsByBus(M!Gen2ProductRows)[b] : b \in M!Buses} = M!Slots
    /\ \A b \in 4 .. 6 :
         M!SlotsByBus(M!Gen2ProductRows)[b] = {M!Gen2Wheel[b][1], M!Gen2Wheel[b][2]}

\* The stock assemblies are accepted, and the product's sections cover slots
\* 0 to 20 once each; a steer and a drive motor of a wheel share a bus.
ASSUME SectionsPartition ==
    /\ \A name \in {"product", "bench"} : \A asm \in M!AssemblyFromName(name) :
         /\ M!ValidAssembly(asm)
         /\ \A p \in Sections(asm) : M!ValidProfile(p)
    /\ M!AllSlots(M!YamProductAssembly) = 0 .. 20
    /\ \A w \in DOMAIN M!BaseWheel : \A p \in M!BaseWheelProfile(w) :
         LET rows == M!AsCfgRows(p)
         IN Len(rows) = 2 /\ rows[1].row.bus = rows[2].row.bus
                          /\ rows[1].row.motor # rows[2].row.motor
    /\ \A p \in M!ArmProfile("r", M!Whole) : \A i \in 1 .. 7 :
         M!AsCfgRows(p)[i].row.bus = 2
    /\ M!ArmProfile("both", M!Whole) = {}

\* A put replaces the section of that name and is refused when its slots are
\* another section's; a section that was put can be taken out again.
ASSUME PutKeepsSlotsApart ==
    LET asm == M!YamProductAssembly
        fits == M!Gen2Profile("rails", <<21, 22>>)
        clash == M!Gen2Profile("rails", <<13, 22>>)
    IN /\ \A p \in clash : M!PutActuator(asm, p) = {}
       /\ \A p \in fits : \E with \in M!PutActuator(asm, p) :
            /\ M!AllSlots(with) = 0 .. 22
            /\ M!RemoveActuator(with, "rails") = {asm}
       /\ \A p \in M!TorsoProfile("torso", [kind |-> "list", slots |-> <<24>>]) :
            \E with \in M!PutActuator(asm, p) : M!AllSlots(with) = (0 .. 19) \cup {24}
       /\ \A p \in M!SingleProfile("twice", 3, M!Row(1, TRUE, Pr.robstride, 300, 0)) :
            /\ M!PutActuator(asm, p) = {}
            /\ \E row \in M!AsCfgRow(p) : row.row.motor = 44

\* Slots of its own choosing take a section's table away; an empty list, or a
\* range that runs backwards, is refused, but slots outside the table are not.
ASSUME SlotListsRead ==
    /\ \A p \in M!ArmProfile("left", [kind |-> "range", first |-> 0, last |-> 6]) :
         Len(M!AsCfgRows(p)) = 7
    /\ \A p \in M!ArmProfile("left", [kind |-> "range", first |-> 0, last |-> 5]) :
         M!AsCfgRows(p) = <<>>
    /\ M!ArmProfile("left", [kind |-> "range", first |-> 6, last |-> 0]) = {}
    /\ M!ArmProfile("left", [kind |-> "list", slots |-> <<>>]) = {}
    /\ M!WheelProfile("base", [kind |-> "list", slots |-> <<99, 99>>], FALSE) # {}
    /\ \A p \in M!WheelProfile("base", M!Whole, TRUE) : M!AsCfgRows(p) = <<>>
    /\ M!ParseProtocol("dm") = {Pr.damiao} /\ M!ParseProtocol("can") = {}

LOCAL Shown(rows) == M!FwTable(Set(rows))
LOCAL Kept(rows)  == [i \in 1 .. 26 |-> {[slot |-> i - 1, row |-> rows[i - 1]]}]

\* A table that kept the master ids is recognised, one row that differs in
\* what counts is not, and a table that is recognised is not set again.
ASSUME TableRecognised ==
    /\ \A rows \in Shipped :
         /\ M!TableMatches(Kept(rows), rows)
         /\ M!RowsToSet(Kept(rows), rows, FALSE) = <<>>
         /\ M!RowsToSet(Kept(rows), rows, TRUE) = M!Upto(0, 25)
    /\ \A r1, r2 \in Shipped : M!TableMatches(Kept(r1), r2) => r1 = r2
    /\ \A s \in M!Slots :
         /\ ~M!TableMatches([Kept(M!YamProductRows) EXCEPT ![s + 1] = {}], M!YamProductRows)
         /\ M!TableMatches(Kept([M!Gen2ProductRows EXCEPT ![s].master = 9]), M!Gen2ProductRows)

\* The board shows no master id.  A table with Damiao drives is therefore
\* never recognised over the wire and is set afresh each time, which changes
\* nothing; one without them is recognised as soon as it is set.
ASSUME MasterNotShown ==
    \A rows \in Shipped :
      /\ M!TableMatches(Shown(rows), rows) <=> \A s \in Live(rows) : rows[s].protocol # Pr.damiao
      /\ Set([s \in M!Slots |-> IF M!RowsToSet(Shown(rows), rows, FALSE) = <<>>
                                THEN Set(rows)[s] ELSE rows[s]]) = Set(rows)

\* What a profile reads from a table that kept the ids is found in that table
\* if, and only if, all its slots are in use there.
ASSUME ProfileFromTableIsThere ==
    \A rows \in Shipped : \A slots \in {<<0, 6>>, <<5, 14, 19>>, <<7>>, <<16, 17, 20>>} :
      LET there == \A i \in 1 .. Len(slots) : M!InUse(rows[slots[i]])
      IN \A p \in M!Profile("some", slots, <<>>) :
           /\ ~M!ProfileInTable(p, Kept(rows))
           /\ \A q \in M!WithCfgFromTable(p, Kept(rows)) :
                M!ProfileInTable(q, Kept(rows)) <=> there

\* Read from what the board shows, a profile of Damiao drives lost their
\* master ids: set again, the slots no longer take their drives' replies.
\* Profiles of the other protocols survive the way round.
ASSUME ReadBackLosesMaster ==
    \A rows \in Shipped : \A s \in Live(rows) :
      \A p \in M!Profile("one", <<s>>, <<>>) :
        \A q \in M!WithCfgFromTable(p, Shown(rows)) :
          LET again == [rows EXCEPT ![s] = M!AsCfgRows(q)[1].row]
          IN (M!Takers(Set(again), rows[s].bus, M!Reply(rows[s])) = {s})
               <=> rows[s].protocol # Pr.damiao

\* Once the product's table is set, each product section but the torso, which
\* the table leaves off, is found in it - if the table kept the master ids.
ASSUME SectionsFound ==
    \A p \in Sections(M!YamProductAssembly) :
      /\ M!ProfileInTable(p, Kept(M!YamProductRows)) <=> p.name # "torso"
      /\ M!ProfileInTable(p, Shown(M!YamProductRows))
           <=> p.name \in DOMAIN M!BaseWheel
      /\ \A q \in M!WithYamCfg(p) : (M!AsCfgRows(q) = <<>>) <=> p.name = "torso"
=============================================================================
