------------------------------- MODULE SlotMaps -------------------------------
(***************************************************************************)
(* The maps of the 26 actuator slots: the tables the SDK ships, the         *)
(* profiles and assemblies that name groups of slots, the editor's presets, *)
(* the checks of a live table against them, and what the firmware keeps of  *)
(* a row that is set, stored, loaded or shown - with which reply on the bus *)
(* each row takes for its own.                                              *)
(*                                                                         *)
(* A row is what config/actuator.py writes as (bus, enabled, protocol,      *)
(* motor id, master id).  A value that may be None is a set of at most one  *)
(* element; a call that raises returns the empty set.                       *)
(***************************************************************************)
EXTENDS Integers, Sequences, FiniteSets

LOCAL SX == INSTANCE SequencesExt
LOCAL FX == INSTANCE FiniteSetsExt

Slots == 0 .. 25
Buses == 1 .. 6
Proto == [none |-> 0, robstride |-> 1, cubemars |-> 2, damiao |-> 3, zeroerr |-> 4]
MasterIds == [i \in 0 .. 6 |-> 17 + i]

Row(bus, enabled, protocol, motor, master) ==
  [bus |-> bus, enabled |-> enabled, protocol |-> protocol, motor |-> motor,
   master |-> master]

The(maybe) == CHOOSE x \in maybe : TRUE

Upto(first, last) == [i \in 1 .. (last - first + 1) |-> first + i - 1]

----------------------------------------------------------------------------
(* The shipped tables. *)

LeftArm  == Upto(0, 6)
RightArm == Upto(7, 13)
Base     == Upto(14, 19)
BenchBase == Upto(22, 25)
Torso    == <<20>>
BaseWheel == [base_wheel_1 |-> <<14, 17>>, base_wheel_2 |-> <<15, 18>>,
              base_wheel_3 |-> <<16, 19>>]

\* Two seven-joint arms, three wheels of a steer and a drive motor, and six
\* slots of the third bus that the product leaves off.
YamShape(arm, on) ==
  [s \in Slots |->
     CASE s < 14  -> Row(1 + s \div 7, s \in on, arm, 1 + (s % 7),
                         IF arm = Proto.damiao THEN MasterIds[s % 7] ELSE 0)
       [] s \in 14 .. 19 -> Row(4 + ((s - 14) % 3), s \in on, Proto.robstride,
                                1 + (s - 14) \div 3, 0)
       [] OTHER -> Row(3, FALSE, Proto.none, 0, 0)]

YamProductRows  == YamShape(Proto.damiao, Slots)
YamLeftArmRows  == YamShape(Proto.damiao, 0 .. 6)
CubemarsYamRows == YamShape(Proto.cubemars, Slots)

Gen2LeftArm  == Upto(0, 7)
Gen2RightArm == Upto(8, 15)
Gen2Torso    == Upto(16, 19)
Gen2Base     == Upto(20, 25)
Gen2Wheel    == [b \in 4 .. 6 |-> <<12 + 2 * b, 13 + 2 * b>>]

Gen2ProductRows ==
  [s \in Slots |->
     CASE s < 16 -> Row(1 + s \div 8, TRUE,
                        IF s % 8 < 4 THEN Proto.cubemars ELSE Proto.robstride, 1 + (s % 4), 0)
       [] s = 16 -> Row(3, TRUE, Proto.cubemars, 1, 0)
       [] s \in 17 .. 19 -> Row(3, TRUE, Proto.zeroerr, s - 16, 0)
       [] OTHER -> Row(4 + (s - 20) \div 2, TRUE, Proto.robstride, 1 + (s % 2), 0)]

SlotsByBus(rows) ==
  [b \in Buses |-> {s \in Slots : rows[s].enabled /\ rows[s].bus = b}]

----------------------------------------------------------------------------
(* Names and profiles. *)

ProtoByName ==
  [none |-> Proto.none, robstride |-> Proto.robstride, rs |-> Proto.robstride,
   cubemars |-> Proto.cubemars, cm |-> Proto.cubemars, damiao |-> Proto.damiao,
   dm |-> Proto.damiao, zeroerr |-> Proto.zeroerr, ze |-> Proto.zeroerr]

ParseProtocol(name) ==
  IF name \in DOMAIN ProtoByName THEN {ProtoByName[name]} ELSE {}

\* A slot list as the caller gave it: nothing, the slots themselves (or a
\* comma list), or a range; a range that runs backwards is refused, and
\* nothing looks for slots that are out of the table or named twice.
ParseSlotsSpec(spec, default) ==
  CASE spec.kind = "none"  -> {default}
    [] spec.kind = "list"  -> {spec.slots}
    [] spec.kind = "range" -> IF spec.first > spec.last THEN {}
                              ELSE {Upto(spec.first, spec.last)}

\* The constructor refuses a profile without slots or with a table of
\* another length.
ValidProfile(p) == p.slots # <<>> /\ (p.cfg = <<>> \/ Len(p.cfg) = Len(p.slots))

Profile(name, slots, cfg) ==
  LET p == [name |-> name, slots |-> slots, cfg |-> cfg]
  IN IF ValidProfile(p) THEN {p} ELSE {}

\* The rows to set, in slot order; a slot without a spec is skipped.
AsCfgRows(p) ==
  LET at == SelectSeq(Upto(1, Len(p.cfg)), LAMBDA i : p.cfg[i] # {})
  IN [k \in 1 .. Len(at) |-> [slot |-> p.slots[at[k]], row |-> The(p.cfg[at[k]])]]

AsCfgRow(p) == IF Len(AsCfgRows(p)) = 1 THEN {AsCfgRows(p)[1]} ELSE {}

\* rows: slot -> row.
Specs(slots, rows) ==
  [i \in 1 .. Len(slots) |-> IF slots[i] \in DOMAIN rows THEN {rows[slots[i]]} ELSE {}]

InUse(row) == row.enabled /\ row.protocol # Proto.none
YamRowSpecs(slots) == Specs(slots, YamProductRows)
Gen2Specs(slots)   == Specs(slots, Gen2ProductRows)
YamSlotSpecs(slots) ==
  Specs(slots, [s \in {t \in Slots : InUse(YamProductRows[t])} |-> YamProductRows[s]])

\* A live table is a sequence of rows that name their slot, or None; the last
\* row of a slot counts.
BySlot(table) ==
  LET rowsOf(s) == {i \in 1 .. Len(table) :
                      table[i] # {} /\ \E r \in table[i] : r.slot = s}
  IN [s \in {s \in Slots : rowsOf(s) # {}} |->
        The(table[FX!Max(rowsOf(s))]).row]

TableSpecs(slots, table) ==
  LET live == BySlot(table)
  IN [i \in 1 .. Len(slots) |->
        IF slots[i] \in DOMAIN live /\ InUse(live[slots[i]])
        THEN {[live[slots[i]] EXCEPT !.motor = @ % 256, !.master = @ % 256]} ELSE {}]

WithCfg(p, cfg)            == Profile(p.name, p.slots, cfg)
WithYamCfg(p)              == WithCfg(p, YamSlotSpecs(p.slots))
WithCfgFromTable(p, table) == WithCfg(p, TableSpecs(p.slots, table))

ArmSlots(side) ==
  CASE side \in {"left", "l", "can_deft_l"}  -> {LeftArm}
    [] side \in {"right", "r", "can_deft_r"} -> {RightArm}
    [] OTHER -> {}

\* A section keeps the product's rows only on its own slots.
Section(name, spec, own) ==
  UNION {Profile(name, slots, IF slots = own THEN YamRowSpecs(slots) ELSE <<>>) :
           slots \in ParseSlotsSpec(spec, own)}

Whole == [kind |-> "none"]
ArmProfile(side, spec) ==
  UNION {Section(IF own = LeftArm THEN "left_arm" ELSE "right_arm", spec, own) :
           own \in ArmSlots(side)}
WheelProfile(name, spec, bench) ==
  IF bench
  THEN UNION {Profile(name, slots, <<>>) : slots \in ParseSlotsSpec(spec, BenchBase)}
  ELSE Section(name, spec, Base)
BaseWheelProfile(name) ==
  IF name \in DOMAIN BaseWheel
  THEN Profile(name, BaseWheel[name], YamRowSpecs(BaseWheel[name])) ELSE {}
TorsoProfile(name, spec) == Section(name, spec, Torso)
SingleProfile(name, slot, row) ==
  Profile(name, <<slot>>, <<{[row EXCEPT !.motor = @ % 256, !.master = @ % 256]}>>)
Gen2Profile(name, slots) == Profile(name, slots, Gen2Specs(slots))

----------------------------------------------------------------------------
(* Assemblies: named profiles whose slots do not overlap. *)

AllSlots(asm) == UNION {SX!ToSet(asm[n].slots) : n \in DOMAIN asm}

ValidAssembly(asm) ==
  /\ \A n \in DOMAIN asm : asm[n].name = n
  /\ Cardinality(AllSlots(asm)) =
       FX!MapThenSumSet(LAMBDA n : Len(asm[n].slots), DOMAIN asm)

Assembly(asm) == IF ValidAssembly(asm) THEN {asm} ELSE {}
PutActuator(asm, p) ==
  Assembly([n \in DOMAIN asm \cup {p.name} |-> IF n = p.name THEN p ELSE asm[n]])
RemoveActuator(asm, name) ==
  IF name \in DOMAIN asm THEN Assembly([n \in DOMAIN asm \ {name} |-> asm[n]]) ELSE {}

YamProductAssembly ==
  [left_arm     |-> The(ArmProfile("left", Whole)),
   right_arm    |-> The(ArmProfile("right", Whole)),
   base_wheel_1 |-> The(BaseWheelProfile("base_wheel_1")),
   base_wheel_2 |-> The(BaseWheelProfile("base_wheel_2")),
   base_wheel_3 |-> The(BaseWheelProfile("base_wheel_3")),
   torso        |-> The(TorsoProfile("torso", Whole))]

BenchContinuousAssembly ==
  [left_arm     |-> The(ArmProfile("left", Whole)),
   right_arm    |-> The(ArmProfile("right", Whole)),
   base         |-> The(WheelProfile("base", Whole, TRUE)),
   base_product |-> The(WheelProfile("base_product", Whole, FALSE)),
   lift         |-> The(TorsoProfile("lift", Whole))]

AssemblyFromName(name) ==
  CASE name \in {"", "product", "yam", "yam_product"} -> {YamProductAssembly}
    [] name \in {"bench", "continuous", "yam_bench_continuous"} -> {BenchContinuousAssembly}
    [] OTHER -> {}

----------------------------------------------------------------------------
(* The editor's presets: joints laid over a list of slots. *)

Joint(bus, protocol, motor, master) == <<bus, protocol, motor, master>>

Presets ==
  [arm_gen_2 |-> [i \in 1 .. 16 |->
      Joint(1 + (i - 1) \div 8,
            IF (i - 1) % 8 < 4 THEN Proto.cubemars ELSE Proto.robstride, 0, 0)],
   torso_gen_2 |-> [i \in 1 .. 4 |->
      Joint(3, IF i = 1 THEN Proto.cubemars ELSE Proto.zeroerr, 0, 0)],
   base_gen_2 |-> [i \in 1 .. 6 |-> Joint(4 + (i - 1) \div 2, Proto.robstride, 0, 0)],
   yam_left  |-> [i \in 1 .. 7 |-> Joint(1, Proto.damiao, i, MasterIds[i - 1])],
   yam_right |-> [i \in 1 .. 7 |-> Joint(2, Proto.damiao, i, MasterIds[i - 1])],
   cubemars  |-> [i \in 1 .. 7 |-> Joint(1, Proto.cubemars, 1, 0)],
   product   |-> [i \in 1 .. 6 |->
      Joint(4 + ((i - 1) % 3), Proto.robstride, 1 + (i - 1) \div 3, 0)],
   bench     |-> <<Joint(5, Proto.robstride, 112, 0), Joint(5, Proto.robstride, 116, 0),
                   Joint(6, Proto.robstride, 117, 0), Joint(6, Proto.damiao, 6, 22)>>,
   lift_off  |-> <<Joint(3, Proto.none, 0, 0)>>,
   lift_yam  |-> <<Joint(3, Proto.damiao, 1, 17)>>]

ValidSlotList(slots, expect) ==
  /\ slots # <<>> /\ Len(slots) = expect
  /\ Cardinality(SX!ToSet(slots)) = Len(slots)
  /\ SX!ToSet(slots) \subseteq Slots

ApplyPreset(rows, joints, slots, enabled) ==
  IF Len(slots) # Len(joints) \/ ~(SX!ToSet(slots) \subseteq DOMAIN rows) THEN {}
  ELSE {[s \in DOMAIN rows |->
           IF s \notin SX!ToSet(slots) THEN rows[s]
           ELSE LET j == joints[FX!Max({i \in 1 .. Len(slots) : slots[i] = s})]
                IN Row(j[1], enabled /\ j[2] # Proto.none, j[2], j[3] % 256, j[4] % 256)]}

Gen2All(rows) ==
  UNION {UNION {ApplyPreset(torso, Presets.base_gen_2, Gen2Base, TRUE) :
                  torso \in ApplyPreset(arms, Presets.torso_gen_2, Gen2Torso, TRUE)} :
           arms \in ApplyPreset(rows, Presets.arm_gen_2, Upto(0, 15), TRUE)}

----------------------------------------------------------------------------
(* A live table against what is expected of it. *)

CfgRowMatches(expected, live, requireEnabled) ==
  /\ requireEnabled => live.enabled
  /\ live.bus = expected.bus
  /\ live.protocol = expected.protocol
  /\ live.motor % 256 = expected.motor % 256
  /\ live.master % 256 = expected.master % 256

\* Per slot of the profile whether the table agrees; a slot the profile says
\* nothing of does not.
ProfileCfgStatus(p, table) ==
  LET live == BySlot(table)
      rows == AsCfgRows(p)
      of(s) == {i \in 1 .. Len(rows) : rows[i].slot = s}
  IN [k \in 1 .. Len(p.slots) |->
        LET s == p.slots[k]
        IN /\ of(s) # {}
           /\ s \in DOMAIN live
           /\ CfgRowMatches(rows[FX!Max(of(s))].row, live[s], TRUE)]

ProfileInTable(p, table) ==
  /\ AsCfgRows(p) # <<>>
  /\ \A k \in 1 .. Len(p.slots) : ProfileCfgStatus(p, table)[k]

\* The table of all slots against a shipped one, row by row in the order they
\* came; the master id counts for Damiao only.
TableMatches(table, expect) ==
  /\ Len(table) >= Cardinality(Slots)
  /\ \A s \in Slots :
       LET row == IF table[s + 1] = {} THEN Row(0, FALSE, 0, 0, 0)
                  ELSE The(table[s + 1]).row
       IN /\ [row EXCEPT !.master = 0] = [expect[s] EXCEPT !.master = 0]
          /\ (expect[s].enabled /\ expect[s].protocol = Proto.damiao) =>
               row.master = expect[s].master

\* The slots that ensure_*_cfg sets, in order: all of them, or none.
RowsToSet(table, expect, force) ==
  IF TableMatches(table, expect) /\ ~force THEN <<>> ELSE Upto(0, 25)

----------------------------------------------------------------------------
(* The firmware's side of a row. *)

Auto == -1

\* CFG_OP_SET: a bus or protocol that does not exist becomes another one, and
\* only Damiao keeps a master id.
FwSet(row) ==
  Row(IF row.bus \in Buses THEN row.bus ELSE 1, row.enabled,
      IF row.protocol \in 0 .. 4 THEN row.protocol ELSE Proto.none, row.motor % 256,
      IF row.protocol # Proto.damiao THEN 0
      ELSE IF row.master % 256 = 255 THEN Auto ELSE row.master % 256)

\* What is stored, and shown to the host, has no master id; a stored Damiao
\* row comes back with its master id left to be worked out.
FwStored(row) == [row EXCEPT !.master = 0]
FwLoaded(row) ==
  [FwStored(row) EXCEPT !.master = IF row.protocol = Proto.damiao THEN Auto ELSE 0]
FwTable(rows) == [i \in 1 .. 26 |-> {[slot |-> i - 1, row |-> FwStored(rows[i - 1])]}]

FwBusIndex(rows) == SlotsByBus(rows)

ZeNode(row) == IF row.motor % 128 = 0 THEN 1 ELSE row.motor % 128
HostId == 253

\* The frame a drive programmed as the row says sends of its state: the
\* identifier, and the byte that names the drive.
Reply(row) ==
  CASE row.protocol = Proto.robstride ->
         [ext |-> TRUE, id |-> row.motor, first |-> HostId]
    [] row.protocol = Proto.cubemars ->
         [ext |-> FALSE, id |-> row.motor, first |-> row.motor]
    [] row.protocol = Proto.damiao ->
         [ext |-> FALSE, id |-> row.master, first |-> 16 + (row.motor % 16)]
    [] row.protocol = Proto.zeroerr ->
         [ext |-> FALSE, id |-> 384 + ZeNode(row), first |-> 55]

MasterMatches(row, id) ==
  IF row.master = Auto THEN id \in {row.motor + 16, 0, row.motor} ELSE id = row.master

\* Which frames of its bus a row takes for its own.
Takes(row, frame) ==
  CASE row.protocol = Proto.robstride ->
         frame.ext /\ row.motor \in {frame.id, frame.first}
    [] row.protocol = Proto.cubemars ->
         /\ ~frame.ext /\ frame.first = row.motor
         /\ frame.id = (IF row.master \in {0, Auto} THEN row.motor ELSE row.master)
    [] row.protocol = Proto.damiao ->
         /\ ~frame.ext /\ row.motor \in {frame.first % 16, frame.first}
         /\ MasterMatches(row, frame.id) \/ frame.id % 256 = row.motor
    [] row.protocol = Proto.zeroerr ->
         ~frame.ext /\ frame.id = 384 + ZeNode(row)
    [] OTHER -> FALSE

\* The slots of the bus that a reply is handed to and that take it.
Takers(rows, bus, frame) == {s \in FwBusIndex(rows)[bus] : Takes(rows[s], frame)}

\* The standard identifiers a row's commands go out on (RobStride's are
\* extended and carry the drive's number).
CommandIds(row) ==
  CASE row.protocol \in {Proto.cubemars, Proto.damiao} -> {<<"std", row.motor>>}
    [] row.protocol = Proto.robstride -> {<<"ext", row.motor>>}
    [] row.protocol = Proto.zeroerr   -> {<<"std", base + ZeNode(row)>> : base \in {512, 1536}}
    [] OTHER -> {}
ReplyIds(row) ==
  CASE row.protocol \in {Proto.cubemars, Proto.damiao} -> {<<"std", Reply(row).id>>}
    [] row.protocol = Proto.zeroerr -> {<<"std", base + ZeNode(row)>> : base \in {384, 1408}}
    [] OTHER -> {}
=============================================================================
