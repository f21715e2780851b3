-------------------------- MODULE CfgEditor_proofs --------------------------
(***************************************************************************)
(* Proofs about CfgEditor, for a table of any length, pages of any size,    *)
(* any scripts, and any number of edits, commands, losses and power cuts.   *)
(***************************************************************************)
EXTENDS CfgEditor, TLAPS, WellFoundedInduction

-----------------------------------------------------------------------------
(* Rows.                                                                   *)

LEMMA Least ==
  ASSUME NEW S \in SUBSET Nat, S # {}
  PROVE  \E x \in S : \A y \in S : x <= y
<1> DEFINE R == OpToRel(<, Nat)
<1> HIDE DEF R
<1>1. IsWellFoundedOn(R, Nat)
  BY NatLessThanWellFounded DEF R
<1>2. PICK x \in S : \A y \in S : ~(<<y, x>> \in R)
  BY <1>1, WFMin
<1>3. \A a \in Nat, b \in Nat : a < b => <<a, b>> \in R
  BY DEF OpToRel, R
<1>4. \A y \in S : ~(y < x)
  BY <1>2, <1>3
<1>5. \A y \in S : x <= y
  BY <1>4
<1>6. QED
  BY <1>5

LEMMA MinIn ==
  ASSUME NEW S \in SUBSET Nat, S # {}
  PROVE  Min(S) \in S
BY Least DEF Min

LEMMA MaxIn ==
  ASSUME NEW n \in Nat, NEW S \in SUBSET (1 .. n), S # {}
  PROVE  Max(S) \in S
<1> DEFINE T == {n - i : i \in S}
<1>1. T \in SUBSET Nat /\ T # {}
  <2>1. \A i \in S : n - i \in Nat
    OBVIOUS
  <2>2. QED
    BY <2>1
<1>2. PICK x \in T : \A y \in T : x <= y
  BY <1>1, Least
<1>3. PICK m \in S : x = n - m
  OBVIOUS
<1>4. \A i \in S : m >= i
  <2> TAKE i \in S
  <2>1. n - m <= n - i
    BY <1>2, <1>3
  <2>2. QED
    BY <2>1
<1>5. QED
  BY <1>4 DEF Max

(* What is listed has a first and a last row, and they are typed           *)
(* (_row_by_slot).                                                         *)
LEMMA RowsOf ==
  ASSUME NEW rows \in Seq(Shown), NEW s \in Listed(rows)
  PROVE  /\ FirstRow(rows, s) \in Places(rows, s)
         /\ LastRow(rows, s) \in Places(rows, s)
         /\ RowKey(rows, s) \in Typed /\ BySlot(rows, s) \in Typed
<1>1. Places(rows, s) \in SUBSET (1 .. Len(rows)) /\ Places(rows, s) # {}
  BY DEF Places, Listed
<1>2. Len(rows) \in Nat
  OBVIOUS
<1>3. FirstRow(rows, s) \in Places(rows, s)
  <2>1. Places(rows, s) \in SUBSET Nat
    BY <1>1
  <2>2. QED
    BY <1>1, <2>1, MinIn DEF FirstRow
<1>4. LastRow(rows, s) \in Places(rows, s)
  BY <1>1, <1>2, MaxIn DEF LastRow
<1>5. \A i \in Places(rows, s) : RowOf(rows[i]) \in Typed
  <2> TAKE i \in Places(rows, s)
  <2>1. rows[i] \in Shown
    BY DEF Places
  <2>2. QED
    BY <2>1 DEF RowOf, Shown, Typed
<1>6. QED
  BY <1>3, <1>4, <1>5 DEF RowKey, BySlot

(* In a table that is in place, the row of a slot is the one at its place. *)
LEMMA RowInPlace ==
  ASSUME NEW rows \in Seq(Shown), InPlace(rows), Len(rows) = TopSlot + 1,
         NEW s \in Slots
  PROVE  /\ s \in Listed(rows) /\ s + 1 \in DOMAIN rows
         /\ FirstRow(rows, s) = s + 1 /\ LastRow(rows, s) = s + 1
         /\ RowKey(rows, s) = RowOf(rows[s + 1])
         /\ BySlot(rows, s) = RowOf(rows[s + 1])
<1>1. s + 1 \in DOMAIN rows /\ \A i \in DOMAIN rows : rows[i].slot = s <=> i = s + 1
  BY CfgAssumption DEF InPlace, Slots
<1>2. s \in Listed(rows) /\ Places(rows, s) = {s + 1}
  BY <1>1 DEF Listed, Places
<1>3. FirstRow(rows, s) \in {s + 1} /\ LastRow(rows, s) \in {s + 1}
  BY <1>2, RowsOf
<1>4. QED
  BY <1>1, <1>2, <1>3 DEF RowKey, BySlot

(* Sorting keeps the type, and a table that is in place as it is.          *)
LEMMA SortedTyped ==
  ASSUME NEW rows \in Seq(Shown), NEW new \in Sorted(rows)
  PROVE  new \in Seq(Shown) /\ Len(new) = Len(rows)
<1>1. PICK at \in Bijection(DOMAIN rows, DOMAIN rows) :
        new = [i \in DOMAIN rows |-> rows[at[i]]]
  BY DEF Sorted
<1>2. at \in [DOMAIN rows -> DOMAIN rows]
  BY DEF Bijection, Injection, Surjection
<1>3. new \in [1 .. Len(rows) -> Shown]
  BY <1>1, <1>2
<1>4. QED
  BY <1>3

LEMMA SortedInPlace ==
  ASSUME NEW rows \in Seq(Shown), InPlace(rows), NEW new \in Sorted(rows)
  PROVE  new = rows
<1> DEFINE D == 1 .. Len(rows)
<1>1. PICK at \in Bijection(D, D) :
        InOrder(rows, at) /\ new = [i \in D |-> rows[at[i]]]
  BY DEF Sorted
<1>2. /\ at \in [D -> D] /\ \A i, j \in D : at[i] = at[j] => i = j
      /\ \A j \in D : \E i \in D : at[i] = j
  BY DEF Bijection, Injection, Surjection, IsInjective
<1>3. \A i, j \in D : i < j => at[i] < at[j]
  <2> TAKE i, j \in D
  <2> HAVE i < j
  <2>1. at[i] \in D /\ at[j] \in D
    BY <1>2
  <2>2. rows[at[i]].slot = at[i] - 1 /\ rows[at[j]].slot = at[j] - 1
    BY <2>1 DEF InPlace
  <2>3. \/ rows[at[i]].slot < rows[at[j]].slot
        \/ rows[at[i]].slot = rows[at[j]].slot /\ at[i] < at[j]
    BY <1>1 DEF InOrder
  <2>4. QED
    BY <2>1, <2>2, <2>3
<1> DEFINE Off == {i \in D : at[i] # i}
<1>4. Off = {}
  <2> SUFFICES ASSUME Off # {} PROVE FALSE
    OBVIOUS
  <2>1. Off \in SUBSET Nat
    OBVIOUS
  <2>2. PICK i \in Off : \A j \in Off : i <= j
    BY <2>1, Least
  <2>3. i \in D /\ at[i] \in D /\ at[i] # i
    BY <1>2
  <2>4. \A j \in D : j < i => at[j] = j
    BY <2>2
  <2>5. CASE at[i] < i
    BY <1>3, <2>3, <2>4, <2>5
  <2>6. CASE at[i] > i
    <3>1. PICK j \in D : at[j] = i
      BY <1>2, <2>3
    <3>2. j > i
      BY <2>3, <2>4, <3>1
    <3>3. QED
      BY <1>3, <2>3, <2>6, <3>1, <3>2
  <2>7. QED
    BY <2>3, <2>5, <2>6
<1>5. new = [i \in D |-> rows[i]]
  BY <1>1, <1>4
<1>6. QED
  BY <1>5

-----------------------------------------------------------------------------
(* What the operators return.                                              *)

LEMMA Plans ==
  ASSUME NEW D, D \subseteq Slots, NEW f \in [D -> Typed]
  PROVE  f \in Plan
BY DEF Plan

LEMMA PlanIs ==
  ASSUME NEW f \in Plan
  PROVE  DOMAIN f \subseteq Slots /\ f \in [DOMAIN f -> Typed]
<1>1. PICK D \in SUBSET Slots : f \in [D -> Typed]
  BY DEF Plan
<1>2. QED
  BY <1>1

LEMMA Constants ==
  /\ Factory \in Image /\ Erased \notin Image /\ ZeroRow \in Typed /\ PresetRow \in Typed
  /\ Factory.periph \in Stock /\ Factory.periph \in Periph
  /\ NoRows \in Plan /\ DOMAIN NoRows = {} /\ NoEditor \in Editors
  /\ NoReply \notin Replies
<1>1. Factory \in Image /\ Factory.periph \in Stock /\ Factory.periph \in Periph
  BY DEF Factory, Image, Row, Drives, Masters, Stock, Periph
<1>2. Erased \notin Image
  <2>1. ASSUME Erased \in Image PROVE FALSE
    <3>1. DOMAIN Erased = {"rows", "periph"}
      BY <2>1 DEF Image
    <3>2. DOMAIN Erased = {"rows"}
      BY DEF Erased
    <3>3. QED
      BY <3>1, <3>2
  <2>2. QED
    BY <2>1
<1>3. ZeroRow \in Typed /\ PresetRow \in Typed
  BY DEF ZeroRow, PresetRow, Typed, Drives, Masters
<1>4. NoRows \in Plan /\ DOMAIN NoRows = {}
  <2>1. NoRows \in [{} -> Typed]
    BY DEF NoRows
  <2>2. QED
    BY <2>1, Plans
<1>5. NoEditor \in Editors
  BY <1>1, <1>4 DEF NoEditor, Editors
<1>6. NoReply \notin Replies
  BY DEF NoReply, Replies, Ops
<1>7. QED
  BY <1>1, <1>2, <1>3, <1>4, <1>5, <1>6

LEMMA StoredIs ==
  ASSUME NEW config \in Image
  PROVE  /\ Stored(config) \in Image /\ Stored(config).periph = config.periph
         /\ \A s \in Slots : /\ Stored(config).rows[s].en = config.rows[s].en
                             /\ Stored(config).rows[s].drive = config.rows[s].drive
<1> DEFINE kept(s) == IF config.rows[s].drive = "damiao" THEN "auto" ELSE "zero"
           row(s) == [config.rows[s] EXCEPT !.master = kept(s)]
<1>1. \A s \in Slots : config.rows[s] \in Row
  BY DEF Image
<1>2. \A s \in Slots : /\ row(s) \in Row /\ row(s).en = config.rows[s].en
                       /\ row(s).drive = config.rows[s].drive
  BY <1>1 DEF Row, Masters
<1> HIDE DEF kept
<1> DEFINE rows == [s \in Slots |-> row(s)]
<1>3. rows \in [Slots -> Row]
      /\ \A s \in Slots : rows[s].en = config.rows[s].en /\ rows[s].drive = config.rows[s].drive
  <2> HIDE DEF row
  <2>1. QED
    BY <1>2
<1>4. Stored(config) = [config EXCEPT !.rows = rows]
  BY DEF Stored, kept
<1> HIDE DEF rows
<1>5. [config EXCEPT !.rows = rows] \in Image
      /\ [config EXCEPT !.rows = rows].periph = config.periph
      /\ [config EXCEPT !.rows = rows].rows = rows
  BY <1>3 DEF Image
<1>6. QED
  BY <1>3, <1>4, <1>5

(* What the board makes of a row and of a block it is sent.                *)
LEMMA TakenIs ==
  ASSUME NEW row \in Typed
  PROVE  TakenRow(row) \in Row /\ Runs(TakenRow(row), row)
<1>1. Accepted(row.drive) \in Drives
  BY DEF Typed, Accepted, Drives
<1>2. (IF row.drive = "damiao" THEN row.master ELSE "zero") \in Masters
  BY DEF Typed, Masters
<1>3. row.en \in BOOLEAN
  BY DEF Typed
<1>4. QED
  BY <1>1, <1>2, <1>3 DEF TakenRow, Runs, Row

LEMMA SettledIs ==
  ASSUME NEW block \in Periph
  PROVE  Settled(block) \in Stock /\ (block \in Stock => Settled(block) = block)
<1>1. Settled(block) \in Stock
  BY DEF Settled, Stock, Periph
<1>2. ASSUME block \in Stock PROVE Settled(block) = block
  <2>1. block.leds # "odd"
    BY <1>2 DEF Stock
  <2>2. Settled(block) = [block EXCEPT !.leds = block.leds]
    BY <1>2, <2>1 DEF Settled, Stock
  <2>3. QED
    BY <1>2, <2>2 DEF Stock
<1>3. QED
  BY <1>1, <1>2

LEMMA BoardTypes == Row \subseteq Typed /\ Stock \subseteq Periph
BY DEF Row, Typed, Stock, Periph

(* A row is run as its slot is told to run, wherever it is shown.          *)
LEMMA RunsRowOf == \A board, row : Runs(board, RowOf(row)) <=> Runs(board, row)
BY DEF Runs, RowOf

LEMMA RunsAlike ==
  ASSUME NEW board \in Row, NEW row, row.en = board.en, row.drive = board.drive
  PROVE  Runs(board, row)
BY DEF Runs, Accepted, Row, Drives

(* A page boots with the image whose magic and CRC it holds, or with what  *)
(* was there (plant_config_nvm_load).                                      *)
LEMMA BootedIs ==
  ASSUME NEW page \in Pages, NEW config \in Image
  PROVE  /\ Valid(page) => page.tail \in Image /\ Booted(page, config) = page.tail
         /\ ~Valid(page) => Booted(page, config) = config
         /\ Booted(page, config) \in Image
<1>1. CASE Valid(page)
  <2>1. page.head \in Image /\ page.tail = page.head /\ page.tail # Erased
    BY <1>1 DEF Valid, Pages
  <2>2. [page.head EXCEPT !.periph = page.head.periph] = page.head
    BY <2>1 DEF Image
  <2>3. Booted(page, config) = [page.head EXCEPT !.periph = page.head.periph]
    BY <1>1, <2>1 DEF Booted
  <2>4. QED
    BY <1>1, <2>1, <2>2, <2>3
<1>2. CASE ~Valid(page)
  BY <1>2 DEF Booted
<1>3. QED
  BY <1>1, <1>2

LEMMA WholeBoots ==
  ASSUME NEW image \in Image
  PROVE  /\ Whole(image) \in Pages
         /\ Booted(Whole(image), Factory) = image
<1>1. Whole(image) \in Pages /\ Whole(image).head = image /\ Whole(image).tail = image
  BY DEF Whole, Pages
<1>2. Valid(Whole(image))
  BY <1>1, Constants DEF Valid
<1>3. QED
  BY <1>1, <1>2, BootedIs, Constants

LEMMA RemnantsAre ==
  ASSUME NEW image \in Image, NEW page \in Remnants(image)
  PROVE  page \in Pages /\ ~Valid(page)
BY Constants DEF Remnants, Pages, Valid

(* The rows of a page are those of the table from its start.               *)
LEMMA PageIs ==
  ASSUME NEW config \in Image, NEW start \in Nat
  PROVE  /\ Page(config, start) \in Seq(Entry)
         /\ \A i \in DOMAIN Page(config, start) :
               /\ start + (i - 1) \in Slots
               /\ Page(config, start)[i].slot = start + (i - 1)
               /\ Runs(config.rows[start + (i - 1)], Page(config, start)[i])
         /\ start + Len(Page(config, start)) <= TopSlot + 1 \/ Len(Page(config, start)) = 0
<1> DEFINE most == IF TopSlot + 1 - start < PageSize THEN TopSlot + 1 - start ELSE PageSize
           n == IF most < 0 THEN 0 ELSE most
           row(i) == [slot |-> start + (i - 1), en |-> config.rows[start + (i - 1)].en,
                      drive |-> config.rows[start + (i - 1)].drive]
<1>1. most \in Int /\ n \in Nat /\ (1 .. most) = (1 .. n) /\ (start + n <= TopSlot + 1 \/ n = 0)
  BY CfgAssumption
<1>2. \A i \in 1 .. n : start + (i - 1) \in Slots
  BY <1>1, CfgAssumption DEF Slots
<1>3. Page(config, start) = [i \in 1 .. n |-> row(i)]
  BY <1>1 DEF Page
<1>4. \A i \in 1 .. n : row(i) \in Entry /\ Runs(config.rows[start + (i - 1)], row(i))
  <2> TAKE i \in 1 .. n
  <2>1. config.rows[start + (i - 1)] \in Row
    BY <1>2 DEF Image
  <2>2. QED
    BY <1>2, <2>1, RunsAlike DEF Row, Entry
<1> HIDE DEF row, n, most
<1>5. [i \in 1 .. n |-> row(i)] \in Seq(Entry)
      /\ Len([i \in 1 .. n |-> row(i)]) = n
      /\ DOMAIN [i \in 1 .. n |-> row(i)] = 1 .. n
  BY <1>1, <1>4
<1>6. \A i \in 1 .. n : Page(config, start)[i] = row(i)
  BY <1>3
<1>7. QED
  BY <1>1, <1>2, <1>3, <1>4, <1>5, <1>6 DEF row

LEMMA ResponseIs ==
  ASSUME NEW r \in Requests, NEW config \in Image, NEW ok \in BOOLEAN
  PROVE  Response(r, config, ok) \in Replies
<1>1. r.slot \in Nat /\ r.op \in Ops /\ r.old \in BOOLEAN /\ config.periph \in Stock
  BY CfgAssumption DEF Requests, Slots, Image
<1>2. (IF r.op = "get" THEN Page(config, r.slot) ELSE <<>>) \in Seq(Entry)
  <2> DEFINE T == Entry
  <2>1. Page(config, r.slot) \in Seq(T)
    BY <1>1, PageIs
  <2> HIDE DEF T
  <2>2. (IF r.op = "get" THEN Page(config, r.slot) ELSE <<>>) \in Seq(T)
    BY <2>1
  <2>3. QED
    BY <2>2 DEF T
<1>3. QED
  BY <1>1, <1>2 DEF Response, Replies

LEMMA RowsAre ==
  ASSUME NEW page \in Seq(Entry)
  PROVE  /\ Rows(page) \in Seq(Shown) /\ Len(Rows(page)) = Len(page)
         /\ \A i \in DOMAIN page : /\ Rows(page)[i].slot = page[i].slot
                                   /\ \A b : Runs(b, page[i]) => Runs(b, Rows(page)[i])
<1> DEFINE own(i) == IF host.cmd # "copy" /\ page[i].drive = "damiao" THEN "auto" ELSE "zero"
           row(i) == [slot |-> page[i].slot, en |-> page[i].en, drive |-> page[i].drive,
                      master |-> own(i)]
<1>1. \A i \in 1 .. Len(page) : /\ row(i) \in Shown /\ row(i).slot = page[i].slot
                                /\ \A b : Runs(b, page[i]) => Runs(b, row(i))
  <2> TAKE i \in 1 .. Len(page)
  <2>1. page[i] \in Entry
    <3> DEFINE T == Entry
    <3> HIDE DEF T
    <3>1. page \in Seq(T)
      BY DEF T
    <3>2. page[i] \in T
      BY <3>1
    <3>3. QED
      BY <3>2 DEF T
  <2>2. own(i) \in Masters
    BY DEF Masters
  <2> HIDE DEF own
  <2>3. QED
    BY <2>1, <2>2 DEF Shown, Entry, Drives, Runs
<1>2. Rows(page) = [i \in 1 .. Len(page) |-> row(i)]
  BY DEF Rows
<1> HIDE DEF row
<1>3. Rows(page) \in Seq(Shown) /\ Len(Rows(page)) = Len(page)
  BY <1>1, <1>2
<1>4. QED
  BY <1>1, <1>2, <1>3

LEMMA TableIs ==
  ASSUME NEW rows \in Seq(Shown)
  PROVE  ApplyTable(rows) \in Plan /\ DOMAIN ApplyTable(rows) = Slots
<1>1. \A s \in Slots : (IF s \in Listed(rows) THEN BySlot(rows, s) ELSE ZeroRow) \in Typed
  BY RowsOf, Constants
<1>2. ApplyTable(rows) \in [Slots -> Typed]
  BY <1>1 DEF ApplyTable
<1>3. QED
  BY <1>2, Plans

LEMMA ListedIs ==
  ASSUME NEW rows \in Seq(Shown)
  PROVE  Listed(rows) \subseteq Slots
<1>1. \A i \in DOMAIN rows : rows[i] \in Shown
  OBVIOUS
<1>2. QED
  BY <1>1 DEF Listed, Shown

(* The slot set next is one of the plan (sorted(slots)).                   *)
LEMMA NextIs ==
  ASSUME TypeOK, ScriptOK, host.pc = "slots"
  PROVE  NextSlot \in DOMAIN host.plan /\ NextSlot \in Slots /\ host.plan[NextSlot] \in Typed
<1>1. host.plan \in Plan /\ DOMAIN host.plan # {}
  BY DEF TypeOK, Hosts, ScriptOK
<1>2. DOMAIN host.plan \subseteq Slots /\ host.plan \in [DOMAIN host.plan -> Typed]
  BY <1>1, PlanIs
<1>3. DOMAIN host.plan \in SUBSET Nat
  BY <1>2, CfgAssumption DEF Slots
<1>4. QED
  BY <1>1, <1>2, <1>3, MinIn DEF NextSlot

LEMMA RequestIs ==
  ASSUME TypeOK, ScriptOK
  PROVE  Request \in Requests /\ ~Request.old
<1>1. 0 \in Slots /\ (host.pc = "page" => host.start \in Slots)
  BY CfgAssumption DEF Slots, TypeOK, Hosts, ScriptOK
<1>2. \A op \in Ops : Asks(op) \in Requests /\ Asks(op).op = op /\ Asks(op).old = FALSE
  BY <1>1, Constants DEF Asks, Requests
<1> HIDE DEF Asks
<1>3. CASE host.pc = "page"
  <2>1. Request = [Asks("get") EXCEPT !.slot = host.start]
    BY <1>3 DEF Request
  <2>2. QED
    BY <1>1, <1>2, <1>3, <2>1 DEF Requests, Ops
<1>4. CASE host.pc = "slots"
  <2>1. Request = [Asks("set") EXCEPT !.slot = NextSlot, !.row = host.plan[NextSlot]]
    BY <1>4 DEF Request
  <2>2. NextSlot \in Slots /\ host.plan[NextSlot] \in Typed
    BY <1>4, NextIs
  <2>3. QED
    BY <1>2, <2>1, <2>2 DEF Requests, Ops
<1>5. CASE host.pc = "put"
  <2>1. Request = [Asks("set_periph") EXCEPT !.periph = host.periph]
    BY <1>5 DEF Request
  <2>2. host.periph \in Periph
    BY DEF TypeOK, Hosts
  <2>3. QED
    BY <1>2, <2>1, <2>2 DEF Requests, Ops
<1>6. CASE host.pc \notin {"page", "slots", "put"}
  <2>1. Request \in {Asks("get_periph"), Asks("save"), Asks("load")}
    BY <1>6 DEF Request
  <2>2. QED
    BY <1>2, <2>1 DEF Ops
<1>7. QED
  BY <1>3, <1>4, <1>5, <1>6

-----------------------------------------------------------------------------
(* Types, the link, the steps of the commands and the list, which all the  *)
(* rest is stated over.                                                    *)

Shape == TypeOK /\ LinkOK /\ ScriptOK /\ ListOK

LEMMA StartTypes ==
  ASSUME ed.periph \in Periph,
         NEW cmd \in {"load", "apply", "persist"} \cup Scripts,
         NEW pc \in {"prompt", "page", "periph", "slots", "put", "save", "nvm", "gone"}
  PROVE  /\ Begin(cmd, pc) \in Hosts /\ Fresh(cmd, pc) \in Hosts
         /\ \A plan \in Plan : /\ [Begin(cmd, pc) EXCEPT !.plan = plan] \in Hosts
                             /\ [Fresh(cmd, pc) EXCEPT !.plan = plan] \in Hosts
<1>1. 0 \in 0 .. Retries /\ 0 \in Nat /\ <<>> \in Seq(Shown)
  BY CfgAssumption
<1>2. Begin(cmd, pc) \in Hosts
  BY <1>1, Constants DEF Begin, Hosts
<1>3. Fresh(cmd, pc) \in Hosts
  BY <1>2, Constants DEF Fresh, Hosts
<1>4. QED
  BY <1>2, <1>3 DEF Hosts

LEMMA InitShape ==
  ASSUME Init
  PROVE  Shape
<1>1. Whole(Erased) \in Pages /\ Whole(Factory) \in Pages
  BY Constants DEF Whole, Pages
<1>2. host \in Hosts /\ ed \in Editors
  <2>1. ed \in Editors /\ ed.periph \in Periph
    BY Constants DEF Init, Editors
  <2>2. Fresh("load", "gone") \in Hosts
    BY <2>1, StartTypes
  <2>3. QED
    BY <2>1, <2>2 DEF Init
<1>3. ghost \in [torn : SUBSET (Slots \cup {Block}), mixed : BOOLEAN, said : Claims]
  BY DEF Init, Claims
<1>4. used \in [edits : Nat, ops : Nat, lost : Nat, late : Nat, cuts : Nat]
  BY DEF Init
<1>5. TypeOK
  BY <1>1, <1>2, <1>3, <1>4, Constants DEF Init, TypeOK
<1>6. LinkOK /\ ScriptOK
  BY DEF Init, LinkOK, ScriptOK, Fresh, Begin
<1>7. ListOK
  BY Constants DEF Init, ListOK, NoEditor, Listed
<1>8. QED
  BY <1>5, <1>6, <1>7 DEF Shape

(* A record that is one of the bounds stays one when a counter grows.      *)
Counts == [edits : Nat, ops : Nat, lost : Nat, late : Nat, cuts : Nat]

LEMMA Counted ==
  ASSUME used \in Counts
  PROVE  /\ [used EXCEPT !.edits = @ + 1] \in Counts /\ [used EXCEPT !.ops = @ + 1] \in Counts
         /\ [used EXCEPT !.lost = @ + 1] \in Counts /\ [used EXCEPT !.late = @ + 1] \in Counts
         /\ [used EXCEPT !.cuts = @ + 1] \in Counts
BY DEF Counts

(* What the command of the board does to its configuration and its page.   *)
LEMMA CommandTypes ==
  ASSUME TypeOK, OnCommand
  PROVE  /\ ram' \in Image /\ flash' \in Pages
         /\ Head(toFw) \in Requests /\ staged' \in Replies
         /\ \E ok \in BOOLEAN : staged' = Response(Head(toFw), ram', ok)
<1> DEFINE r == Head(toFw)
<1>1. r \in Requests /\ ram \in Image /\ flash \in Pages
  BY DEF OnCommand, TypeOK
<1> HIDE DEF r
<1>2. Read(r) \/ Set(r) \/ SetPeriph(r) \/ Save(r) \/ Load(r)
  BY DEF OnCommand, r
<1>3. /\ ram' \in Image /\ flash' \in Pages
      /\ \E ok \in BOOLEAN : staged' = Response(r, ram', ok)
  <2>1. CASE Read(r)
    BY <1>1, <2>1 DEF Read
  <2>2. CASE Set(r)
    <3>1. [ram EXCEPT !.rows[r.slot] = TakenRow(r.row)] \in Image
      <4>1. r.slot \in Slots /\ TakenRow(r.row) \in Row
        BY <1>1, TakenIs DEF Requests
      <4>2. QED
        BY <1>1, <4>1 DEF Image
    <3>2. QED
      BY <1>1, <2>2, <3>1 DEF Set
  <2>3. CASE SetPeriph(r)
    <3>1. [ram EXCEPT !.periph = Settled(r.periph)] \in Image
      <4>1. Settled(r.periph) \in Stock
        BY <1>1, SettledIs DEF Requests
      <4>2. QED
        BY <1>1, <4>1 DEF Image
    <3>2. QED
      BY <1>1, <2>3, <3>1 DEF SetPeriph
  <2>4. CASE Save(r)
    <3>1. Stored(ram) \in Image
      BY <1>1, StoredIs
    <3>2. Whole(Stored(ram)) \in Pages /\ \A p \in Remnants(Stored(ram)) : p \in Pages
      BY <3>1, WholeBoots, RemnantsAre
    <3>3. QED
      BY <1>1, <2>4, <3>2 DEF Save
  <2>5. CASE Load(r)
    <3>1. Booted(flash, ram) \in Image /\ Valid(flash) \in BOOLEAN
      BY <1>1, BootedIs DEF Valid
    <3>2. QED
      BY <1>1, <2>5, <3>1 DEF Load
  <2>6. QED
    BY <1>2, <2>1, <2>2, <2>3, <2>4, <2>5
<1>4. staged' \in Replies
  BY <1>1, <1>3, ResponseIs
<1>5. QED
  BY <1>1, <1>3, <1>4 DEF r

LEMMA CommandShape ==
  ASSUME Shape, OnCommand
  PROVE  Shape'
<1> USE DEF Shape
<1>1. /\ ram' \in Image /\ flash' \in Pages /\ staged' \in Replies
  BY CommandTypes
<1>2. toFw' \in Seq(Requests)
  BY DEF OnCommand, TypeOK
<1>3. used' \in Counts
  BY Counted DEF OnCommand, TypeOK, Counts
<1>4. TypeOK'
  BY <1>1, <1>2, <1>3 DEF OnCommand, TypeOK, Counts
<1>5. LinkOK'
  BY DEF OnCommand, LinkOK
<1>6. ScriptOK' /\ ListOK'
  BY DEF OnCommand, ScriptOK, ListOK
<1>7. QED
  BY <1>4, <1>5, <1>6

LEMMA LineShape ==
  ASSUME Shape, FeedbackFill \/ Drop
  PROVE  Shape'
<1> USE DEF Shape
<1>1. used' \in Counts
  BY Counted DEF FeedbackFill, Drop, TypeOK, Counts
<1>2. toFw' \in Seq(Requests) /\ reader' \in Seq(Replies) /\ staged' \in Replies \cup {NoReply}
  <2>1. CASE FeedbackFill
    <3>1. staged \in Replies /\ reader \in Seq(Replies)
      BY <2>1 DEF FeedbackFill, TypeOK
    <3>2. Append(reader, staged) \in Seq(Replies)
      BY <3>1
    <3>3. QED
      BY <2>1, <3>2 DEF FeedbackFill, TypeOK
  <2>2. CASE Drop
    <3>1. Tail(toFw) \in Seq(Requests)
      BY <2>2 DEF Drop, TypeOK
    <3>2. QED
      BY <2>2, <3>1 DEF Drop, TypeOK
  <2>3. QED
    BY <2>1, <2>2
<1>3. TypeOK'
  BY <1>1, <1>2 DEF FeedbackFill, Drop, TypeOK, Counts
<1>4. LinkOK'
  BY DEF FeedbackFill, Drop, LinkOK
<1>5. ScriptOK' /\ ListOK'
  BY DEF FeedbackFill, Drop, ScriptOK, ListOK
<1>6. QED
  BY <1>3, <1>4, <1>5

(* What a power cut leaves is the old page or a remnant.                   *)
LEMMA CutPage ==
  ASSUME TypeOK, PowerCut
  PROVE  /\ flash' \in Pages /\ ram' \in Image
         /\ (flash' = flash \/ (~Valid(flash') /\ toFw # <<>> /\ Head(toFw).op = "save"))
<1>1. Stored(ram) \in Image
  BY StoredIs DEF TypeOK
<1>2. \/ flash' = flash
      \/ flash' \in Remnants(Stored(ram)) /\ toFw # <<>> /\ Head(toFw).op = "save"
  BY DEF PowerCut
<1>3. flash' \in Pages /\ (flash' = flash \/ (~Valid(flash') /\ toFw # <<>> /\ Head(toFw).op = "save"))
  BY <1>1, <1>2, RemnantsAre DEF TypeOK
<1>4. ram' \in Image
  BY <1>3, BootedIs, Constants DEF PowerCut
<1>5. QED
  BY <1>3, <1>4

LEMMA CutShape ==
  ASSUME Shape, PowerCut
  PROVE  Shape'
<1> USE DEF Shape
<1>1. flash' \in Pages /\ ram' \in Image
  BY CutPage
<1>2. used' \in Counts
  BY Counted DEF PowerCut, TypeOK, Counts
<1>3. TypeOK'
  <2>1. toFw' \in Seq(Requests) /\ reader' \in Seq(Replies) /\ staged' = NoReply /\ up' = FALSE
    BY DEF PowerCut
  <2>2. UNCHANGED <<host, ed, ghost>>
    BY DEF PowerCut
  <2>3. QED
    BY <1>1, <1>2, <2>1, <2>2 DEF TypeOK, Counts
<1>4. LinkOK'
  BY DEF PowerCut, LinkOK
<1>5. ScriptOK' /\ ListOK'
  BY DEF PowerCut, ScriptOK, ListOK
<1>6. QED
  BY <1>3, <1>4, <1>5

LEMMA AgedIs ==
  /\ \A m \in Requests : Aged(m) = [m EXCEPT !.old = TRUE] /\ Aged(m) \in Requests /\ Aged(m).old /\ Aged(m).op = m.op
  /\ \A m \in Replies : Aged(m) = [m EXCEPT !.old = TRUE] /\ Aged(m) \in Replies /\ Aged(m).old
  /\ Aged(NoReply) = NoReply
<1>1. NoReply \notin Requests /\ NoReply \notin Replies
  BY Constants DEF NoReply, Requests, Ops
<1>2. \A m \in Requests : [m EXCEPT !.old = TRUE] \in Requests /\ [m EXCEPT !.old = TRUE].old
                          /\ [m EXCEPT !.old = TRUE].op = m.op
  BY DEF Requests
<1>3. \A m \in Replies : [m EXCEPT !.old = TRUE] \in Replies /\ [m EXCEPT !.old = TRUE].old
  BY DEF Replies
<1>4. QED
  BY <1>1, <1>2, <1>3 DEF Aged

(* The request is written behind what is older than it.                    *)
LEMMA AskQueue ==
  ASSUME TypeOK, ScriptOK, Ask
  PROVE  /\ toFw' \in Seq(Requests) /\ Len(toFw') = Len(toFw) + 1
         /\ toFw'[Len(toFw')] = Request
         /\ \A i \in 1 .. Len(toFw) :
              /\ toFw[i] \in Requests /\ toFw'[i] = [toFw[i] EXCEPT !.old = TRUE]
              /\ toFw'[i].old /\ toFw'[i].op = toFw[i].op
         /\ staged' \in Replies \cup {NoReply} /\ (staged' # NoReply => staged'.old)
<1> DEFINE older == [i \in 1 .. Len(toFw) |-> Aged(toFw[i])]
<1>1. toFw' = Append(older, Request) /\ staged' = Aged(staged)
  BY DEF Ask
<1>2. \A i \in 1 .. Len(toFw) : toFw[i] \in Requests
  BY DEF TypeOK
<1>3. \A i \in 1 .. Len(toFw) : Aged(toFw[i]) \in Requests /\ Aged(toFw[i]).old
          /\ Aged(toFw[i]) = [toFw[i] EXCEPT !.old = TRUE] /\ Aged(toFw[i]).op = toFw[i].op
  BY <1>2, AgedIs
<1>4. older \in Seq(Requests) /\ Len(older) = Len(toFw) /\ \A i \in 1 .. Len(toFw) : older[i] = Aged(toFw[i])
  <2>0. toFw \in Seq(Requests)
    BY DEF TypeOK
  <2>1. \A i \in 1 .. Len(toFw) : Aged(toFw[i]) \in Requests
    BY <1>3
  <2>2. older \in [1 .. Len(toFw) -> Requests]
    BY <2>1
  <2>3. Len(toFw) \in Nat
    BY <2>0
  <2>4. QED
    BY <2>2, <2>3
<1> HIDE DEF older
<1>5. /\ Append(older, Request) \in Seq(Requests) /\ Len(Append(older, Request)) = Len(toFw) + 1
      /\ Append(older, Request)[Len(toFw) + 1] = Request
      /\ \A i \in 1 .. Len(toFw) : Append(older, Request)[i] = older[i]
  BY <1>4, RequestIs
<1>6. staged' \in Replies \cup {NoReply} /\ (staged' # NoReply => staged'.old)
  BY <1>1, AgedIs DEF TypeOK
<1>7. QED
  BY <1>1, <1>2, <1>3, <1>4, <1>5, <1>6

LEMMA AskShape ==
  ASSUME Shape, Ask
  PROVE  Shape'
<1> USE DEF Shape
<1>1. toFw' \in Seq(Requests) /\ staged' \in Replies \cup {NoReply} /\ reader' \in Seq(Replies)
  BY AskQueue DEF Ask
<1>2. host' = [host EXCEPT !.waiting = TRUE] /\ host' \in Hosts
  BY DEF Ask, TypeOK, Hosts
<1>3. ghost' \in [torn : SUBSET (Slots \cup {Block}), mixed : BOOLEAN, said : Claims]
  BY DEF Ask, TypeOK, Claims
<1>4. TypeOK'
  BY <1>1, <1>2, <1>3 DEF Ask, TypeOK
<1>5. LinkOK' /\ ListOK'
  BY DEF Ask, LinkOK, ListOK
<1>6. ScriptOK'
  BY <1>2 DEF ScriptOK, TypeOK, Hosts, Ask
<1>7. QED
  BY <1>4, <1>5, <1>6

(* A command stays typed when an exchange of it ends.                      *)
LEMMA RestTypes ==
  ASSUME TypeOK
  PROVE  /\ Resting \in Hosts /\ Resting.waiting = FALSE
         /\ \A f \in DOMAIN host \ {"waiting"} : Resting[f] = host[f]
         /\ DOMAIN host = {"cmd", "pc", "waiting", "start", "got", "plan", "periph", "tries"}
BY DEF Resting, TypeOK, Hosts

LEMMA AfterTypes ==
  /\ AfterPut \in {"save", "prompt", "gone"} /\ AfterSlots \in {"save", "put", "prompt", "gone"}
  /\ AfterSave \in {"prompt", "gone"}
  /\ AfterPut = "prompt" \/ AfterSlots = "prompt" \/ AfterSave = "prompt" => host.cmd \in {"apply", "persist"}
  /\ AfterPut = "save" => host.cmd = "persist"
  /\ AfterSlots = "save" => host.cmd \in {"set", "persist"}
BY DEF AfterPut, AfterSlots, AfterSave

LEMMA NotScripts == {"load", "apply", "persist"} \cap Scripts = {}
BY CfgAssumption

(* An exception leaves the editor and everything else as it was.           *)
LEMMA RaiseShape ==
  ASSUME Shape, Raise, host.pc \notin {"prompt", "gone"},
         used' \in Counts, toFw' = toFw, staged' = staged, reader' \in Seq(Replies),
         UNCHANGED <<flash, ram, up>>, ~up => reader' = <<>>
  PROVE  Shape' /\ host'.waiting = FALSE
<1> USE DEF Shape
<1>1. Resting \in Hosts /\ host \in Hosts
  BY RestTypes DEF TypeOK
<1>2. /\ host'.waiting = FALSE /\ host' \in Hosts
      /\ host'.pc \in {"prompt", "gone", host.pc}
      /\ (host'.pc = "prompt" => Caught)
      /\ (host'.pc = host.pc => host' = [Resting EXCEPT !.tries = @ + 1])
  <2>1. CASE host.pc = "save" /\ up /\ host.tries + 1 < Retries
    <3>0. host.tries \in 0 .. Retries
      BY <1>1 DEF Hosts
    <3>1. host' = [Resting EXCEPT !.tries = @ + 1] /\ host.tries + 1 \in 0 .. Retries
      BY <2>1, <3>0, CfgAssumption DEF Raise
    <3>2. QED
      BY <1>1, <2>1, <3>1 DEF Resting, Hosts
  <2>2. CASE ~(host.pc = "save" /\ up /\ host.tries + 1 < Retries)
    <3>1. host' = [Resting EXCEPT !.tries = 0, !.pc = IF Caught THEN "prompt" ELSE "gone"]
          /\ 0 \in 0 .. Retries
      BY <2>2, CfgAssumption DEF Raise
    <3>2. QED
      BY <1>1, <3>1 DEF Resting, Hosts
  <2>3. QED
    BY <2>1, <2>2
<1>3. ghost' \in [torn : SUBSET (Slots \cup {Block}), mixed : BOOLEAN, said : Claims]
  BY DEF Raise, TypeOK, Editors
<1>4. TypeOK'
  BY <1>2, <1>3 DEF Raise, TypeOK, Counts
<1>5. LinkOK' /\ ListOK'
  BY DEF LinkOK, Raise, ListOK
<1>6. ScriptOK'
  <2>1. host'.cmd = host.cmd /\ host'.start = host.start /\ host'.got = host.got /\ host'.plan = host.plan
    BY <1>1 DEF Raise, Resting, Hosts
  <2>2. Caught => host.cmd \notin Scripts
    BY NotScripts DEF Caught
  <2>3. QED
    BY <1>2, <2>1, <2>2 DEF ScriptOK
<1>7. QED
  BY <1>2, <1>4, <1>5, <1>6

LEMMA Joined ==
  ASSUME NEW T, NEW p \in Seq(T), NEW q \in Seq(T)
  PROVE  /\ p \o q \in Seq(T) /\ Len(p \o q) = Len(p) + Len(q)
         /\ \A i \in 1 .. Len(p) : (p \o q)[i] = p[i]
         /\ \A i \in 1 .. Len(p) + Len(q) : i > Len(p) => (p \o q)[i] = q[i - Len(p)]
OBVIOUS

(* What a page makes of the table so far, and the last one of the editor   *)
(* (fetch_table, _load_rows).                                              *)
LEMMA PageStep ==
  ASSUME Shape, NEW r \in Replies, host.pc = "page", PageTaken(r)
  PROVE  LET got == host.got \o Rows(r.page)
         IN  /\ host' \in Hosts /\ ed' \in Editors /\ ListOK' /\ got \in Seq(Shown)
             /\ Len(got) = Len(host.got) + Len(r.page)
             /\ host'.waiting = FALSE /\ host'.cmd = host.cmd /\ host'.got = got
             /\ host'.start = Len(got) /\ host'.plan = host.plan
             /\ host'.pc = IF Len(got) > TopSlot THEN "periph" ELSE "page"
             /\ host'.pc = "periph" /\ host.cmd = "load" =>
                  /\ ed'.rows \in Sorted(got) /\ ed'.dirty = {}
                  /\ ed'.base = [s \in Listed(ed'.rows) |-> BySlot(ed'.rows, s)]
                  /\ ed'.periph = ed.periph /\ ed'.pdirty = ed.pdirty
             /\ ~(host'.pc = "periph" /\ host.cmd = "load") => ed' = ed
<1> USE DEF Shape
<1> DEFINE got == host.got \o Rows(r.page)
<1>1. host \in Hosts /\ ed \in Editors /\ host.start = Len(host.got)
      /\ host.got \in Seq(Shown) /\ host.start \in Nat /\ TopSlot \in Nat
  BY CfgAssumption DEF TypeOK, Hosts, ScriptOK
<1>2. r.page \in Seq(Entry)
  BY DEF Replies
<1>3. Rows(r.page) \in Seq(Shown) /\ Len(Rows(r.page)) = Len(r.page) /\ Len(r.page) \in Nat
  <2>1. Rows(r.page) \in Seq(Shown) /\ Len(Rows(r.page)) = Len(r.page)
    BY <1>2, RowsAre
  <2>2. Len(Rows(r.page)) \in Nat
    BY <2>1
  <2>3. QED
    BY <2>1, <2>2
<1>4. got \in Seq(Shown) /\ Len(got) = Len(host.got) + Len(r.page)
  <2>1. got \in Seq(Shown) /\ Len(got) = Len(host.got) + Len(Rows(r.page))
    BY <1>1, <1>3, Joined
  <2>2. QED
    BY <1>3, <2>1
<1>5. /\ host' = [Resting EXCEPT !.got = got, !.start = @ + Len(r.page),
                     !.pc = IF Len(got) > TopSlot THEN "periph" ELSE @]
      /\ IF Len(got) > TopSlot /\ host.cmd = "load"
         THEN \E rows \in Sorted(got) :
                ed' = [ed EXCEPT !.rows = rows, !.dirty = {},
                         !.base = [s \in Listed(rows) |-> BySlot(rows, s)]]
         ELSE UNCHANGED ed
  BY DEF PageTaken
<1> HIDE DEF got
<1>6. /\ host' \in Hosts /\ host'.waiting = FALSE /\ host'.cmd = host.cmd /\ host'.got = got
      /\ host'.start = Len(got) /\ host'.plan = host.plan
      /\ host'.pc = IF Len(got) > TopSlot THEN "periph" ELSE "page"
  <2>1. Resting \in Hosts /\ Resting.start = Len(host.got) /\ Resting.pc = "page"
        /\ Resting.waiting = FALSE /\ Resting.cmd = host.cmd /\ Resting.plan = host.plan
    BY <1>1, RestTypes
  <2>2. Resting.start + Len(r.page) \in Nat /\ Resting.start + Len(r.page) = Len(got)
    <3>1. Len(host.got) \in Nat /\ Len(got) = Len(host.got) + Len(r.page)
      BY <1>1, <1>4
    <3>2. Resting.start \in Nat /\ Len(r.page) \in Nat /\ Len(got) = Resting.start + Len(r.page)
      BY <1>3, <2>1, <3>1
    <3>3. QED
      BY <3>2
  <2> DEFINE pc == IF Len(got) > TopSlot THEN "periph" ELSE "page"
  <2>3. pc \in {"prompt", "page", "periph", "slots", "put", "save", "nvm", "gone"}
    OBVIOUS
  <2>4. host' = [Resting EXCEPT !.got = got, !.start = Len(got), !.pc = pc]
    BY <1>5, <2>1, <2>2
  <2> HIDE DEF pc
  <2>5. /\ host' \in Hosts /\ host'.waiting = FALSE /\ host'.cmd = host.cmd /\ host'.got = got
        /\ host'.start = Len(got) /\ host'.plan = host.plan /\ host'.pc = pc
    BY <1>4, <2>1, <2>2, <2>3, <2>4 DEF Hosts
  <2>6. QED
    BY <2>5 DEF pc
<1>7. CASE Len(got) > TopSlot /\ host.cmd = "load"
  <2>1. PICK rows \in Sorted(got) :
          ed' = [ed EXCEPT !.rows = rows, !.dirty = {},
                   !.base = [s \in Listed(rows) |-> BySlot(rows, s)]]
    BY <1>5, <1>7
  <2>2. rows \in Seq(Shown)
    BY <1>4, SortedTyped
  <2>3. Listed(rows) \subseteq Slots /\ \A s \in Listed(rows) : BySlot(rows, s) \in Typed
    BY <2>2, ListedIs, RowsOf
  <2> DEFINE base == [s \in Listed(rows) |-> BySlot(rows, s)]
  <2>4. base \in Plan
    <3>1. base \in [Listed(rows) -> Typed]
      BY <2>3
    <3>2. QED
      BY <2>3, <3>1, Plans
  <2>5. DOMAIN base = Listed(rows)
    OBVIOUS
  <2> HIDE DEF base
  <2>6. ed' = [ed EXCEPT !.rows = rows, !.dirty = {}, !.base = base]
    BY <2>1 DEF base
  <2>7. /\ ed' \in Editors /\ ed'.rows = rows /\ ed'.dirty = {} /\ ed'.base = base
        /\ ed'.periph = ed.periph /\ ed'.pdirty = ed.pdirty
    BY <1>1, <2>2, <2>4, <2>6 DEF Editors
  <2>8. ListOK'
    BY <2>5, <2>7 DEF ListOK
  <2>9. QED
    BY <1>4, <1>6, <1>7, <2>7, <2>8 DEF got, base
<1>8. CASE ~(Len(got) > TopSlot /\ host.cmd = "load")
  <2>1. ed' = ed
    BY <1>5, <1>8
  <2>2. ed' \in Editors /\ ListOK'
    BY <1>1, <2>1 DEF ListOK
  <2>3. QED
    BY <1>4, <1>6, <1>8, <2>1, <2>2 DEF got
<1>9. QED
  BY <1>7, <1>8

LEMMA PeriphStep ==
  ASSUME Shape, NEW r \in Replies, host.pc = "periph", PeriphTaken(r)
  PROVE  /\ host' \in Hosts /\ ed' \in Editors /\ ListOK'
         /\ host'.waiting = FALSE /\ host'.cmd = host.cmd
         /\ host.cmd = "load" =>
              /\ host'.pc = "prompt"
              /\ ed' = [ed EXCEPT !.periph = r.periph, !.pdirty = FALSE]
         /\ host.cmd # "load" => host'.pc = "slots" /\ DOMAIN host'.plan = Slots /\ ed' = ed
<1> USE DEF Shape
<1>1. Resting \in Hosts /\ Resting.waiting = FALSE /\ Resting.cmd = host.cmd /\ ed \in Editors
      /\ host.got \in Seq(Shown) /\ r.periph \in Periph
  BY RestTypes, BoardTypes DEF TypeOK, Hosts, Replies
<1>2. CASE host.cmd = "load"
  <2>1. host' = [Resting EXCEPT !.pc = "prompt"]
        /\ ed' = [ed EXCEPT !.periph = r.periph, !.pdirty = FALSE]
    BY <1>2 DEF PeriphTaken
  <2>2. ed' \in Editors /\ ed'.rows = ed.rows /\ ed'.base = ed.base /\ ed'.dirty = ed.dirty
    BY <1>1, <2>1 DEF Editors
  <2>3. ListOK'
    BY <2>2 DEF ListOK
  <2>4. QED
    BY <1>1, <1>2, <2>1, <2>2, <2>3 DEF Hosts
<1>3. CASE host.cmd # "load"
  <2> DEFINE plan == ApplyTable(host.got)
  <2>1. plan \in Plan /\ DOMAIN plan = Slots
    BY <1>1, TableIs
  <2>2. host' = [Resting EXCEPT !.pc = "slots", !.periph = r.periph, !.plan = plan] /\ ed' = ed
    BY <1>3 DEF PeriphTaken
  <2> HIDE DEF plan
  <2>3. /\ host' \in Hosts /\ host'.waiting = FALSE /\ host'.cmd = host.cmd
        /\ host'.pc = "slots" /\ host'.plan = plan
    BY <1>1, <2>1, <2>2 DEF Hosts
  <2>4. ListOK' /\ ed' \in Editors
    BY <1>1, <2>2 DEF ListOK
  <2>5. QED
    BY <1>3, <2>1, <2>2, <2>3, <2>4
<1>4. QED
  BY <1>2, <1>3

(* A slot has been set: the plan loses it, and the editor takes its dirty  *)
(* rows for applied after the last one (_apply_slots).                     *)
LEMMA SlotStep ==
  ASSUME Shape, host.pc = "slots", SlotTaken
  PROVE  /\ host' \in Hosts /\ ed' \in Editors /\ ListOK'
         /\ host'.waiting = FALSE /\ host'.cmd = host.cmd /\ host'.periph = host.periph
         /\ DOMAIN host'.plan = DOMAIN host.plan \ {NextSlot}
         /\ \A t \in DOMAIN host'.plan : host'.plan[t] = host.plan[t]
         /\ DOMAIN host'.plan # {} => host'.pc = "slots" /\ ed' = ed
         /\ DOMAIN host'.plan = {} =>
              /\ host'.pc = AfterSlots
              /\ host.cmd \in Scripts => ed' = ed
              /\ host.cmd \notin Scripts =>
                   /\ ed'.rows = ed.rows /\ ed'.periph = ed.periph /\ ed'.pdirty = ed.pdirty
                   /\ ed'.dirty = {} /\ DOMAIN ed'.base = DOMAIN ed.base
                   /\ \A t \in DOMAIN ed.base :
                        ed'.base[t] = IF t \in ed.dirty THEN RowKey(ed.rows, t) ELSE ed.base[t]
<1> USE DEF Shape
<1> DEFINE rest == [t \in DOMAIN host.plan \ {NextSlot} |-> host.plan[t]]
           base == [t \in DOMAIN ed.base |-> IF t \in ed.dirty THEN RowKey(ed.rows, t) ELSE ed.base[t]]
<1>1. Resting \in Hosts /\ Resting.waiting = FALSE /\ Resting.cmd = host.cmd /\ ed \in Editors
      /\ Resting.pc = "slots" /\ Resting.periph = host.periph
      /\ host.plan \in Plan /\ ed.base \in Plan /\ ed.rows \in Seq(Shown)
  BY RestTypes DEF TypeOK, Hosts, Editors
<1>2. rest \in Plan /\ DOMAIN rest = DOMAIN host.plan \ {NextSlot}
      /\ \A t \in DOMAIN rest : rest[t] = host.plan[t]
  <2>1. DOMAIN host.plan \subseteq Slots /\ host.plan \in [DOMAIN host.plan -> Typed]
    BY <1>1, PlanIs
  <2>2. rest \in [DOMAIN host.plan \ {NextSlot} -> Typed]
    BY <2>1
  <2>3. QED
    BY <2>1, <2>2, Plans
<1>3. base \in Plan /\ DOMAIN base = DOMAIN ed.base
      /\ \A t \in DOMAIN ed.base :
           base[t] = IF t \in ed.dirty THEN RowKey(ed.rows, t) ELSE ed.base[t]
  <2>1. DOMAIN ed.base \subseteq Slots /\ ed.base \in [DOMAIN ed.base -> Typed]
    BY <1>1, PlanIs
  <2>2. \A t \in DOMAIN ed.base : RowKey(ed.rows, t) \in Typed
    BY <1>1, RowsOf DEF ListOK
  <2>3. base \in [DOMAIN ed.base -> Typed]
    BY <2>1, <2>2
  <2>4. QED
    BY <2>1, <2>3, Plans
<1>4. IF DOMAIN rest # {}
      THEN host' = [Resting EXCEPT !.plan = rest] /\ UNCHANGED ed
      ELSE /\ host' = [Resting EXCEPT !.plan = rest, !.pc = AfterSlots]
           /\ ed' = IF host.cmd \in Scripts THEN ed
                    ELSE [ed EXCEPT !.dirty = {}, !.base = base]
  BY DEF SlotTaken
<1> HIDE DEF rest, base
<1>5. CASE DOMAIN rest # {}
  <2>1. /\ host' \in Hosts /\ host'.waiting = FALSE /\ host'.cmd = host.cmd
        /\ host'.plan = rest /\ host'.pc = "slots" /\ host'.periph = host.periph
    BY <1>1, <1>2, <1>4, <1>5 DEF Hosts
  <2>2. ed' = ed /\ ed' \in Editors /\ ListOK'
    BY <1>1, <1>4, <1>5 DEF ListOK
  <2>3. QED
    BY <1>2, <1>5, <2>1, <2>2
<1>6. CASE DOMAIN rest = {}
  <2>1. /\ host' \in Hosts /\ host'.waiting = FALSE /\ host'.cmd = host.cmd
        /\ host'.plan = rest /\ host'.pc = AfterSlots /\ host'.periph = host.periph
    <3>1. AfterSlots \in {"save", "put", "prompt", "gone"}
      BY AfterTypes
    <3>2. host' = [Resting EXCEPT !.plan = rest, !.pc = AfterSlots]
      BY <1>4, <1>6
    <3>3. PICK pc \in {"save", "put", "prompt", "gone"} : pc = AfterSlots
      BY <3>1
    <3>4. host' = [Resting EXCEPT !.plan = rest, !.pc = pc]
      BY <3>2, <3>3
    <3>5. /\ host' \in Hosts /\ host'.waiting = FALSE /\ host'.cmd = host.cmd
          /\ host'.plan = rest /\ host'.pc = pc /\ host'.periph = host.periph
      BY <1>1, <1>2, <3>4 DEF Hosts
    <3>6. QED
      BY <3>3, <3>5
  <2>2. CASE host.cmd \in Scripts
    <3>1. ed' = ed /\ ed' \in Editors /\ ListOK'
      BY <1>1, <1>4, <1>6, <2>2 DEF ListOK
    <3>2. QED
      BY <1>2, <1>6, <2>1, <2>2, <3>1
  <2>3. CASE host.cmd \notin Scripts
    <3>1. ed' = [ed EXCEPT !.dirty = {}, !.base = base]
      BY <1>4, <1>6, <2>3
    <3>2. /\ ed' \in Editors /\ ed'.rows = ed.rows /\ ed'.dirty = {} /\ ed'.base = base
          /\ ed'.periph = ed.periph /\ ed'.pdirty = ed.pdirty
      BY <1>1, <1>3, <3>1 DEF Editors
    <3>3. ListOK'
      BY <1>3, <3>2 DEF ListOK
    <3>4. QED
      BY <1>2, <1>3, <1>6, <2>1, <2>3, <3>2, <3>3
  <2>4. QED
    BY <2>2, <2>3
<1>7. QED
  BY <1>5, <1>6

LEMMA PutStep ==
  ASSUME Shape, host.pc = "put", PutTaken
  PROVE  /\ host' \in Hosts /\ ed' \in Editors /\ ListOK'
         /\ host'.waiting = FALSE /\ host'.cmd = host.cmd /\ host'.pc = AfterPut
         /\ host.cmd \in Scripts => ed' = ed
         /\ host.cmd \notin Scripts =>
              ed'.pdirty = FALSE /\ \A f \in {"rows", "base", "dirty", "periph"} : ed'[f] = ed[f]
<1> USE DEF Shape
<1>1. Resting \in Hosts /\ Resting.waiting = FALSE /\ Resting.cmd = host.cmd /\ ed \in Editors
  BY RestTypes DEF TypeOK, Hosts
<1>2. host' = [Resting EXCEPT !.pc = AfterPut]
  BY DEF PutTaken
<1>3. host' \in Hosts /\ host'.waiting = FALSE /\ host'.cmd = host.cmd /\ host'.pc = AfterPut
  BY <1>1, <1>2, AfterTypes DEF Hosts
<1>4. ed' = ed \/ (host.cmd \notin Scripts /\ ed' = [ed EXCEPT !.pdirty = FALSE])
  BY DEF PutTaken
<1>5. host.cmd \notin Scripts => ed' = [ed EXCEPT !.pdirty = FALSE]
  BY DEF PutTaken
<1>6. ed.periph.listen \in BOOLEAN
  BY <1>1 DEF Editors, Periph
<1>7. ed' \in Editors /\ \A f \in {"rows", "base", "dirty", "periph"} : ed'[f] = ed[f]
  BY <1>1, <1>4, <1>6 DEF Editors
<1>8. host.cmd \notin Scripts => ed'.pdirty = FALSE
  BY <1>1, <1>5 DEF Editors
<1>9. ListOK'
  BY <1>7 DEF ListOK
<1>10. QED
  BY <1>3, <1>4, <1>7, <1>8, <1>9

LEMMA SaveStep ==
  ASSUME Shape, (host.pc = "save" /\ SaveTaken)
                \/ (host.pc = "nvm" /\ host' = [Resting EXCEPT !.pc = "gone"] /\ UNCHANGED ed)
  PROVE  /\ host' \in Hosts /\ ed' = ed /\ ListOK'
         /\ host'.waiting = FALSE /\ host'.cmd = host.cmd
         /\ host'.pc = IF host.pc = "save" THEN AfterSave ELSE "gone"
<1> USE DEF Shape
<1>1. Resting \in Hosts /\ Resting.waiting = FALSE /\ Resting.cmd = host.cmd /\ 0 \in 0 .. Retries
  <2>1. Resting \in Hosts /\ Resting.waiting = FALSE /\ Resting.cmd = host.cmd
    BY RestTypes DEF TypeOK, Hosts
  <2>2. QED
    BY <2>1, CfgAssumption
<1>2. ed' = ed /\ ListOK'
  BY DEF SaveTaken, ListOK
<1>3. CASE host.pc = "save"
  BY <1>1, <1>2, <1>3, AfterTypes DEF SaveTaken, Hosts
<1>4. CASE host.pc = "nvm"
  BY <1>1, <1>2, <1>4 DEF Hosts
<1>5. QED
  BY <1>3, <1>4

-----------------------------------------------------------------------------
(* The user's edits.  What they leave of the editor.                       *)

Kept(new) ==
  /\ new \in Editors /\ Listed(new.rows) = Listed(ed.rows) /\ new.base = ed.base
  /\ new.dirty \subseteq Listed(ed.rows)
  /\ ed.pdirty => new.pdirty
  /\ new.pdirty \/ (new.periph = ed.periph /\ ~ed.pdirty)
  /\ Known => /\ Len(new.rows) = TopSlot + 1 /\ InPlace(new.rows)
              /\ \A s \in Slots \ new.dirty : RowOf(new.rows[s + 1]) = ed.base[s]

LEMMA SameSlots ==
  ASSUME NEW rows \in Seq(Shown), NEW new \in Seq(Shown), Len(new) = Len(rows),
         \A i \in 1 .. Len(rows) : new[i].slot = rows[i].slot
  PROVE  Listed(new) = Listed(rows) /\ (InPlace(rows) => InPlace(new))
<1>1. DOMAIN new = 1 .. Len(rows) /\ DOMAIN rows = 1 .. Len(rows)
  OBVIOUS
<1>2. QED
  BY <1>1 DEF Listed, InPlace

LEMMA ShownIs ==
  ASSUME NEW s \in Slots, NEW row \in Typed
  PROVE  /\ ShownAs(s, row) \in Shown /\ ShownAs(s, row).slot = s
         /\ RowOf(ShownAs(s, row)) = row
BY DEF ShownAs, Shown, Typed, RowOf

(* A row is rewritten in its place, and is dirty while its key is not that *)
(* of the baseline.                                                        *)
LEMMA EditedKeeps ==
  ASSUME Shape, NEW s \in Listed(ed.rows), NEW row \in Typed, Edited(s, row)
  PROVE  Kept(ed')
<1> USE DEF Shape
<1>1. ed \in Editors /\ ed.rows \in Seq(Shown) /\ s \in Slots /\ ed.dirty \subseteq Listed(ed.rows)
  BY ListedIs DEF TypeOK, Editors, ListOK
<1> DEFINE at == FirstRow(ed.rows, s)
           rows == [ed.rows EXCEPT ![at] = ShownAs(s, row)]
           dirty == IF row # ed.base[s] THEN ed.dirty \cup {s} ELSE ed.dirty \ {s}
<1>2. at \in 1 .. Len(ed.rows) /\ ed.rows[at].slot = s
  BY <1>1, RowsOf DEF Places
<1>3. ShownAs(s, row) \in Shown /\ ShownAs(s, row).slot = s /\ RowOf(ShownAs(s, row)) = row
  BY <1>1, ShownIs
<1>4. ed' = [ed EXCEPT !.rows = rows, !.dirty = dirty]
  BY <1>1 DEF Edited, Editors
<1>5. dirty \subseteq Listed(ed.rows) /\ dirty \subseteq Slots
      /\ \A t \in Slots : t \notin dirty => (t # s => t \notin ed.dirty) /\ (t = s => row = ed.base[s])
  BY <1>1, ListedIs
<1> HIDE DEF at
<1>6. /\ rows \in Seq(Shown) /\ Len(rows) = Len(ed.rows)
      /\ \A i \in 1 .. Len(ed.rows) : rows[i] = IF i = at THEN ShownAs(s, row) ELSE ed.rows[i]
  BY <1>1, <1>2, <1>3
<1> HIDE DEF rows, dirty
<1>7. \A i \in 1 .. Len(ed.rows) : rows[i].slot = ed.rows[i].slot
  BY <1>2, <1>3, <1>6
<1>8. Listed(rows) = Listed(ed.rows) /\ (InPlace(ed.rows) => InPlace(rows))
  BY <1>1, <1>6, <1>7, SameSlots
<1>9. /\ ed' \in Editors /\ ed'.rows = rows /\ ed'.dirty = dirty /\ ed'.base = ed.base
      /\ ed'.periph = ed.periph /\ ed'.pdirty = ed.pdirty
  BY <1>1, <1>4, <1>5, <1>6 DEF Editors
<1>10. ASSUME Known
       PROVE  Len(rows) = TopSlot + 1 /\ InPlace(rows)
              /\ \A t \in Slots \ dirty : RowOf(rows[t + 1]) = ed.base[t]
  <2>1. Len(ed.rows) = TopSlot + 1 /\ InPlace(ed.rows)
        /\ \A t \in Slots \ ed.dirty : RowOf(ed.rows[t + 1]) = ed.base[t]
    BY <1>10 DEF Known
  <2>2. at = s + 1
    BY <1>1, <2>1, RowInPlace DEF at
  <2>3. ASSUME NEW t \in Slots \ dirty PROVE RowOf(rows[t + 1]) = ed.base[t]
    <3>1. t + 1 \in 1 .. Len(ed.rows)
      BY <2>1, CfgAssumption DEF Slots
    <3>2. CASE t = s
      BY <1>3, <1>5, <1>6, <2>2, <3>1, <3>2
    <3>3. CASE t # s
      <4>1. t + 1 # at
        BY <1>1, <2>2, <3>3 DEF Slots
      <4>2. rows[t + 1] = ed.rows[t + 1]
        BY <1>6, <3>1, <4>1
      <4>3. t \in Slots \ ed.dirty
        BY <1>5, <3>3
      <4>4. QED
        BY <2>1, <4>2, <4>3
    <3>4. QED
      BY <3>2, <3>3
  <2>4. QED
    BY <1>6, <1>8, <2>1, <2>3
<1>11. ed.pdirty \in BOOLEAN
  BY <1>1 DEF Editors
<1>12. QED
  BY <1>1, <1>5, <1>8, <1>9, <1>10, <1>11 DEF Kept

LEMMA FilledTyped ==
  ASSUME Shape, NEW slots \in SUBSET Listed(ed.rows)
  PROVE  /\ Filled(slots) \in Seq(Shown) /\ Len(Filled(slots)) = Len(ed.rows)
         /\ \A i \in 1 .. Len(ed.rows) :
              /\ Filled(slots)[i].slot = ed.rows[i].slot
              /\ ed.rows[i].slot \notin slots => Filled(slots)[i] = ed.rows[i]
<1>1. ed.rows \in Seq(Shown) /\ Len(ed.rows) \in Nat
  BY DEF Shape, TypeOK, Editors
<1> DEFINE row(i) == IF ed.rows[i].slot \in slots /\ i = LastRow(ed.rows, ed.rows[i].slot)
                     THEN ShownAs(ed.rows[i].slot, PresetRow) ELSE ed.rows[i]
<1>2. \A i \in 1 .. Len(ed.rows) :
        /\ row(i) \in Shown /\ row(i).slot = ed.rows[i].slot
        /\ ed.rows[i].slot \notin slots => row(i) = ed.rows[i]
  <2> TAKE i \in 1 .. Len(ed.rows)
  <2>1. ed.rows[i] \in Shown /\ ed.rows[i].slot \in Slots
    <3>1. ed.rows[i] \in Shown
      BY <1>1
    <3>2. QED
      BY <3>1 DEF Shown
  <2>2. QED
    BY <2>1, Constants, ShownIs
<1>3. Filled(slots) = [i \in 1 .. Len(ed.rows) |-> row(i)]
  BY <1>1 DEF Filled
<1> HIDE DEF row
<1>4. Filled(slots) \in Seq(Shown) /\ Len(Filled(slots)) = Len(ed.rows)
      /\ \A i \in 1 .. Len(ed.rows) : Filled(slots)[i] = row(i)
  BY <1>1, <1>2, <1>3
<1>5. QED
  BY <1>2, <1>4

(* A preset rewrites rows and takes them for dirty                         *)
(* (apply_actuator_preset_to_rows).                                        *)
LEMMA FilledKeeps ==
  ASSUME Shape, NEW slots \in SUBSET Listed(ed.rows), ed' \in Editors,
         ed'.rows = Filled(slots), ed'.dirty = ed.dirty \cup slots, ed'.base = ed.base,
         ed.pdirty => ed'.pdirty,
         ed'.pdirty \/ (ed'.periph = ed.periph /\ ~ed.pdirty)
  PROVE  Kept(ed')
<1> USE DEF Shape
<1>1. ed \in Editors /\ ed.rows \in Seq(Shown) /\ ed.dirty \subseteq Listed(ed.rows)
      /\ Listed(ed.rows) \subseteq Slots /\ Len(ed.rows) \in Nat
  BY ListedIs DEF TypeOK, Editors, ListOK
<1> DEFINE new == Filled(slots)
<1>4. new \in Seq(Shown) /\ Len(new) = Len(ed.rows)
      /\ \A i \in 1 .. Len(ed.rows) :
           new[i].slot = ed.rows[i].slot /\ (ed.rows[i].slot \notin slots => new[i] = ed.rows[i])
  BY FilledTyped
<1> HIDE DEF new
<1>5. Listed(new) = Listed(ed.rows) /\ (InPlace(ed.rows) => InPlace(new))
  BY <1>1, <1>4, SameSlots
<1>6. ASSUME Known
      PROVE  Len(new) = TopSlot + 1 /\ InPlace(new)
             /\ \A s \in Slots \ ed'.dirty : RowOf(new[s + 1]) = ed.base[s]
  <2>1. Len(ed.rows) = TopSlot + 1 /\ InPlace(ed.rows)
        /\ \A s \in Slots \ ed.dirty : RowOf(ed.rows[s + 1]) = ed.base[s]
    BY <1>6 DEF Known
  <2>2. ASSUME NEW s \in Slots \ ed'.dirty PROVE RowOf(new[s + 1]) = ed.base[s]
    <3>1. s + 1 \in 1 .. Len(ed.rows) /\ ed.rows[s + 1].slot = s
      BY <2>1, CfgAssumption DEF Slots, InPlace
    <3>2. new[s + 1] = ed.rows[s + 1]
      BY <1>4, <3>1
    <3>3. QED
      BY <2>1, <3>2
  <2>3. QED
    BY <1>4, <1>5, <2>1, <2>2
<1>7. QED
  BY <1>1, <1>5, <1>6 DEF Kept, new

LEMMA EditingKeeps ==
  ASSUME Shape, Editing
  PROVE  /\ Kept(ed') /\ host.pc = "prompt" /\ used' \in Counts
         /\ UNCHANGED <<fwVars, host, ghost>>
<1> USE DEF Shape
<1>1. ed \in Editors /\ ed.rows \in Seq(Shown) /\ ed.dirty \subseteq Listed(ed.rows)
      /\ ed.periph \in Periph /\ ed.pdirty \in BOOLEAN
  BY DEF TypeOK, Editors, ListOK
<1>2. Edits
  BY DEF Editing, Toggle, EditSlot, EditNeck, EditLed, EditListen, ActuatorPreset, LedPreset, ApplyGen2All
<1>3. host.pc = "prompt" /\ used' \in Counts /\ UNCHANGED <<fwVars, host, ghost>>
  BY <1>2, Counted DEF Edits, TypeOK, Counts
<1>4. ASSUME NEW s \in Slots, Toggle(s) PROVE Kept(ed')
  <2>1. s \in Listed(ed.rows) /\ RowKey(ed.rows, s) \in Typed
    BY <1>1, <1>4, RowsOf DEF Toggle
  <2>2. [RowKey(ed.rows, s) EXCEPT !.en = ~@] \in Typed
    BY <2>1 DEF Typed
  <2>3. QED
    BY <1>4, <2>1, <2>2, EditedKeeps DEF Toggle
<1>5. ASSUME NEW s \in Slots, EditSlot(s) PROVE Kept(ed')
  <2>1. PICK row \in Typed : Edited(s, row)
    BY <1>5 DEF EditSlot, Typed, Drives, Masters
  <2>2. QED
    BY <1>5, <2>1, EditedKeeps DEF EditSlot
<1>6. ASSUME NEW p \in Periph, ed' = [ed EXCEPT !.periph = p, !.pdirty = TRUE]
      PROVE  Kept(ed')
  <2>1. /\ ed' \in Editors /\ ed'.rows = ed.rows /\ ed'.base = ed.base /\ ed'.dirty = ed.dirty
        /\ ed'.pdirty
    BY <1>1, <1>6 DEF Editors
  <2>2. QED
    BY <1>1, <2>1 DEF Kept, Known
<1>7. ASSUME EditNeck PROVE Kept(ed')
  <2> DEFINE block == [ed.periph EXCEPT !.servos = "edited"]
  <2>1. block \in Periph
    BY <1>1 DEF Periph
  <2>2. ed' = [ed EXCEPT !.periph = block, !.pdirty = TRUE]
    BY <1>1, <1>7 DEF EditNeck, Editors
  <2> HIDE DEF block
  <2>3. QED
    BY <1>6, <2>1, <2>2
<1>17. ASSUME EditLed PROVE Kept(ed')
  <2>1. PICK count \in {"some", "odd"} : ed' = [ed EXCEPT !.periph.leds = count, !.pdirty = TRUE]
    BY <1>17 DEF EditLed
  <2> DEFINE block == [ed.periph EXCEPT !.leds = count]
  <2>2. block \in Periph
    BY <1>1 DEF Periph
  <2>3. ed' = [ed EXCEPT !.periph = block, !.pdirty = TRUE]
    BY <1>1, <2>1 DEF Editors
  <2> HIDE DEF block
  <2>4. QED
    BY <1>6, <2>2, <2>3
<1>8. ASSUME EditListen PROVE Kept(ed')
  <2>1. PICK on \in BOOLEAN : ed' = [ed EXCEPT !.periph.listen = on, !.pdirty = TRUE]
    BY <1>8 DEF EditListen
  <2> DEFINE block == [ed.periph EXCEPT !.listen = on]
  <2>2. block \in Periph
    BY <1>1 DEF Periph
  <2>3. ed' = [ed EXCEPT !.periph = block, !.pdirty = TRUE]
    BY <1>1, <2>1 DEF Editors
  <2> HIDE DEF block
  <2>4. QED
    BY <1>6, <2>2, <2>3
<1>9. ASSUME LedPreset PROVE Kept(ed')
  <2> DEFINE block == [ed.periph EXCEPT !.listen = TRUE]
  <2>1. block \in Periph
    BY <1>1 DEF Periph
  <2>2. ed' = [ed EXCEPT !.periph = block, !.pdirty = TRUE]
    BY <1>1, <1>9 DEF LedPreset, Editors
  <2> HIDE DEF block
  <2>3. QED
    BY <1>6, <2>1, <2>2
<1>10. \A slots \in SUBSET Listed(ed.rows) : Filled(slots) \in Seq(Shown) /\ slots \subseteq Slots
  <2> TAKE slots \in SUBSET Listed(ed.rows)
  <2>1. Listed(ed.rows) \subseteq Slots
    BY <1>1, ListedIs
  <2>2. Filled(slots) \in Seq(Shown)
    BY FilledTyped
  <2>3. QED
    BY <2>1, <2>2
<1>11. ASSUME ActuatorPreset PROVE Kept(ed')
  <2>1. PICK slots \in SUBSET Listed(ed.rows) \ {{}} :
          ed' = [ed EXCEPT !.rows = Filled(slots), !.dirty = @ \cup slots]
    BY <1>11 DEF ActuatorPreset
  <2>2. Filled(slots) \in Seq(Shown) /\ slots \subseteq Slots
    BY <1>10
  <2>3. /\ ed' \in Editors /\ ed'.rows = Filled(slots) /\ ed'.dirty = ed.dirty \cup slots
        /\ ed'.base = ed.base /\ ed'.periph = ed.periph /\ ed'.pdirty = ed.pdirty
    BY <1>1, <2>1, <2>2 DEF Editors
  <2>4. QED
    BY <1>1, <2>1, <2>3, FilledKeeps
<1>12. ASSUME ApplyGen2All PROVE Kept(ed')
  <2> DEFINE block == [ed.periph EXCEPT !.servos = "edited"]
  <2>1. block \in Periph /\ Slots \in SUBSET Listed(ed.rows)
    BY <1>1, <1>12 DEF Periph, ApplyGen2All
  <2>2. ed' = [ed EXCEPT !.rows = Filled(Slots), !.dirty = Slots, !.periph = block, !.pdirty = TRUE]
    BY <1>1, <1>12 DEF ApplyGen2All, Editors
  <2> HIDE DEF block
  <2>3. Filled(Slots) \in Seq(Shown)
    BY <1>10, <2>1
  <2>4. /\ ed' \in Editors /\ ed'.rows = Filled(Slots) /\ ed'.dirty = Slots
        /\ ed'.base = ed.base /\ ed'.pdirty
    BY <1>1, <2>1, <2>2, <2>3 DEF Editors
  <2>5. Slots = ed.dirty \cup Slots
    BY <1>1 DEF Editors
  <2>6. QED
    BY <2>1, <2>4, <2>5, FilledKeeps
<1>13. Kept(ed')
  BY <1>4, <1>5, <1>7, <1>17, <1>8, <1>9, <1>11, <1>12 DEF Editing
<1>14. QED
  BY <1>3, <1>13

LEMMA EditingShape ==
  ASSUME Shape, Editing
  PROVE  Shape'
<1>1. Kept(ed') /\ used' \in Counts /\ UNCHANGED <<fwVars, host, ghost>>
  BY EditingKeeps
<1>2. TypeOK'
  BY <1>1 DEF Shape, TypeOK, fwVars, Counts, Kept
<1>3. LinkOK' /\ ScriptOK'
  BY <1>1 DEF Shape, LinkOK, ScriptOK, fwVars
<1>4. ListOK'
  BY <1>1 DEF Shape, ListOK, Kept
<1>5. QED
  BY <1>2, <1>3, <1>4 DEF Shape

(* A command of the editor starts with its rows and its block.             *)
LEMMA ApplyStep ==
  ASSUME Shape, NEW cmd \in {"apply", "persist"}, Apply(cmd)
  PROVE  /\ host.pc = "prompt" /\ used' \in Counts /\ UNCHANGED <<fwVars, ed, ghost>>
         /\ host' \in Hosts /\ host'.waiting = FALSE /\ host'.cmd = cmd /\ host'.periph = ed.periph
         /\ \/ /\ host'.pc = "slots" /\ DOMAIN host'.plan = ed.dirty /\ ed.dirty # {}
               /\ \A s \in ed.dirty : host'.plan[s] = BySlot(ed.rows, s)
            \/ host'.pc = "put" /\ ed.dirty = {} /\ ed.pdirty
            \/ host'.pc = "save" /\ ed.dirty = {} /\ ~ed.pdirty
<1> USE DEF Shape
<1>1. ed \in Editors /\ ed.periph \in Periph /\ ed.rows \in Seq(Shown)
      /\ ed.dirty \subseteq Listed(ed.rows) /\ ed.dirty \subseteq Slots /\ ed.pdirty \in BOOLEAN
  BY DEF TypeOK, Editors, ListOK
<1>2. host.pc = "prompt" /\ used' \in Counts /\ UNCHANGED <<fwVars, ed, ghost>>
  BY Counted DEF Apply, Prompted, TypeOK, Counts
<1>3. Dirty \in Plan /\ DOMAIN Dirty = ed.dirty /\ \A s \in ed.dirty : Dirty[s] = BySlot(ed.rows, s)
  <2>1. \A s \in ed.dirty : BySlot(ed.rows, s) \in Typed
    BY <1>1, RowsOf
  <2>2. Dirty \in [ed.dirty -> Typed]
    BY <2>1 DEF Dirty
  <2>3. QED
    BY <1>1, <2>2, Plans DEF Dirty
<1>4. \A pc \in {"slots", "put", "save"} :
        /\ Begin(cmd, pc) \in Hosts /\ Begin(cmd, pc).waiting = FALSE /\ Begin(cmd, pc).cmd = cmd
        /\ Begin(cmd, pc).periph = ed.periph /\ Begin(cmd, pc).pc = pc
  BY <1>1, StartTypes DEF Begin
<1>5. CASE ed.dirty # {} /\ host' = [Begin(cmd, "slots") EXCEPT !.plan = Dirty]
  <2>1. /\ host' \in Hosts /\ host'.waiting = FALSE /\ host'.cmd = cmd /\ host'.periph = ed.periph
        /\ host'.pc = "slots" /\ host'.plan = Dirty
    BY <1>3, <1>4, <1>5 DEF Hosts
  <2>2. QED
    BY <1>2, <1>3, <1>5, <2>1
<1>6. CASE ed.dirty = {} /\ ed.pdirty /\ host' = Begin(cmd, "put")
  BY <1>2, <1>4, <1>6
<1>7. CASE ed.dirty = {} /\ ~ed.pdirty /\ host' = Begin(cmd, "save")
  BY <1>2, <1>4, <1>7
<1>8. QED
  BY <1>5, <1>6, <1>7 DEF Apply

LEMMA ReloadStep ==
  ASSUME Shape, Reload
  PROVE  /\ host.pc = "prompt" /\ used' \in Counts /\ UNCHANGED <<fwVars, ed, ghost>>
         /\ host' \in Hosts /\ host'.waiting = FALSE /\ host'.cmd = "load" /\ host'.pc = "page"
         /\ host'.start = 0 /\ host'.got = <<>>
<1> USE DEF Shape
<1>1. ed.periph \in Periph
  BY DEF TypeOK, Editors
<1>2. host' \in Hosts
  BY <1>1, StartTypes DEF Reload
<1>3. host.pc = "prompt" /\ used' \in Counts /\ UNCHANGED <<fwVars, ed, ghost>>
  BY Counted DEF Reload, Prompted, TypeOK, Counts
<1>4. QED
  BY <1>2, <1>3 DEF Reload, Begin

LEMMA LaunchStep ==
  ASSUME Shape, Launch
  PROVE  /\ host.pc = "gone" /\ used' \in Counts /\ UNCHANGED <<flash, ram, toFw, staged>>
         /\ up' = TRUE /\ reader' = <<>> /\ ed' = NoEditor
         /\ ghost' = [ghost EXCEPT !.torn = Slots \cup {Block}, !.mixed = FALSE]
         /\ host' \in Hosts /\ host'.waiting = FALSE
         /\ \/ /\ host'.cmd \in {"load", "copy"} /\ host'.pc = "page"
               /\ host'.start = 0 /\ host'.got = <<>>
            \/ host'.cmd = "set" /\ "set" \in Scripts /\ host'.pc = "slots" /\ DOMAIN host'.plan # {}
            \/ host'.cmd = "load_nvm" /\ "load_nvm" \in Scripts /\ host'.pc = "nvm"
         /\ host'.cmd # "load" => host'.cmd \in Scripts
<1> USE DEF Shape
<1>1. ed.periph \in Periph
  BY DEF TypeOK, Editors
<1>2. host.pc = "gone" /\ used' \in Counts /\ UNCHANGED <<flash, ram, toFw, staged>>
  BY Counted DEF Launch, TypeOK, Counts
<1>3. up' = TRUE /\ reader' = <<>> /\ ed' = NoEditor
      /\ ghost' = [ghost EXCEPT !.torn = Slots \cup {Block}, !.mixed = FALSE]
  BY DEF Launch
<1>4. \A cmd \in {"load", "apply", "persist"} \cup Scripts, pc \in {"page", "slots", "nvm"} :
        /\ Fresh(cmd, pc) \in Hosts /\ Fresh(cmd, pc).waiting = FALSE /\ Fresh(cmd, pc).cmd = cmd
        /\ Fresh(cmd, pc).start = 0 /\ Fresh(cmd, pc).got = <<>> /\ Fresh(cmd, pc).pc = pc
  <2> TAKE cmd \in {"load", "apply", "persist"} \cup Scripts, pc \in {"page", "slots", "nvm"}
  <2>1. pc \in {"prompt", "page", "periph", "slots", "put", "save", "nvm", "gone"}
    OBVIOUS
  <2>2. Fresh(cmd, pc) \in Hosts
    BY <1>1, <2>1, StartTypes
  <2>3. /\ Fresh(cmd, pc).waiting = FALSE /\ Fresh(cmd, pc).cmd = cmd
        /\ Fresh(cmd, pc).start = 0 /\ Fresh(cmd, pc).got = <<>> /\ Fresh(cmd, pc).pc = pc
    BY DEF Fresh, Begin
  <2>4. QED
    BY <2>2, <2>3
<1>5. CASE RunCfgEditor
  BY <1>2, <1>3, <1>4, <1>5 DEF RunCfgEditor
<1>6. CASE CopyBundle
  BY <1>2, <1>3, <1>4, <1>6 DEF CopyBundle
<1>7. CASE LoadNvm
  BY <1>2, <1>3, <1>4, <1>7 DEF LoadNvm
<1>8. CASE SetSlot
  <2>1. "set" \in Scripts
    BY <1>8 DEF SetSlot
  <2>2. PICK s \in Slots : host' = [Fresh("set", "slots") EXCEPT !.plan = [t \in {s} |-> PresetRow]]
    BY <1>8 DEF SetSlot
  <2> DEFINE plan == [t \in {s} |-> PresetRow]
  <2>3. plan \in Plan /\ DOMAIN plan = {s}
    <3>1. plan \in [{s} -> Typed]
      BY Constants
    <3>2. QED
      BY <3>1, Plans
  <2> HIDE DEF plan
  <2>4. host' = [Fresh("set", "slots") EXCEPT !.plan = plan]
    BY <2>2 DEF plan
  <2>5. Fresh("set", "slots") \in Hosts /\ Fresh("set", "slots").waiting = FALSE
        /\ Fresh("set", "slots").cmd = "set" /\ Fresh("set", "slots").pc = "slots"
    BY <1>4, <2>1
  <2>6. host' \in Hosts /\ host'.waiting = FALSE /\ host'.cmd = "set" /\ host'.pc = "slots"
        /\ host'.plan = plan
    BY <2>3, <2>4, <2>5 DEF Hosts
  <2>7. QED
    BY <1>2, <1>3, <2>1, <2>3, <2>6
<1>9. QED
  BY <1>5, <1>6, <1>7, <1>8 DEF Launch

LEMMA LeaveStep ==
  ASSUME Shape, Leave
  PROVE  /\ host.pc = "prompt" /\ UNCHANGED <<fwVars, ed, ghost, used>>
         /\ host' \in Hosts /\ host'.pc = "gone" /\ host'.waiting = host.waiting
         /\ host'.cmd = host.cmd
BY DEF Shape, TypeOK, Hosts, Leave

LEMMA UserShape ==
  ASSUME Shape, Reload \/ Leave \/ Apply("apply") \/ Apply("persist") \/ Launch
  PROVE  Shape'
<1>1. CASE Reload
  <2>1. /\ used' \in Counts /\ UNCHANGED <<fwVars, ed, ghost>>
        /\ host' \in Hosts /\ host'.waiting = FALSE /\ host'.cmd = "load" /\ host'.pc = "page"
        /\ host'.start = 0 /\ host'.got = <<>>
    BY <1>1, ReloadStep
  <2>2. TypeOK' /\ LinkOK' /\ ListOK'
    BY <2>1 DEF Shape, TypeOK, LinkOK, ListOK, fwVars, Counts
  <2>3. ScriptOK'
    BY <2>1, CfgAssumption DEF ScriptOK
  <2>4. QED
    BY <2>2, <2>3 DEF Shape
<1>2. CASE Leave
  <2>1. UNCHANGED <<fwVars, ed, ghost, used>> /\ host' \in Hosts /\ host'.pc = "gone"
        /\ host'.waiting = FALSE
    BY <1>2, LeaveStep DEF Shape, ScriptOK, TypeOK, Hosts
  <2>2. TypeOK' /\ LinkOK' /\ ListOK'
    BY <2>1 DEF Shape, TypeOK, LinkOK, ListOK, fwVars
  <2>3. ScriptOK'
    BY <2>1 DEF ScriptOK
  <2>4. QED
    BY <2>2, <2>3 DEF Shape
<1>3. ASSUME NEW cmd \in {"apply", "persist"}, Apply(cmd) PROVE Shape'
  <2>1. /\ used' \in Counts /\ UNCHANGED <<fwVars, ed, ghost>>
        /\ host' \in Hosts /\ host'.waiting = FALSE /\ host'.cmd = cmd
        /\ \/ host'.pc = "slots" /\ DOMAIN host'.plan # {}
           \/ host'.pc \in {"put", "save"}
    BY <1>3, ApplyStep
  <2>2. TypeOK' /\ LinkOK' /\ ListOK'
    BY <2>1 DEF Shape, TypeOK, LinkOK, ListOK, fwVars, Counts
  <2>3. ScriptOK'
    BY <2>1, NotScripts DEF ScriptOK
  <2>4. QED
    BY <2>2, <2>3 DEF Shape
<1>4. CASE Launch
  <2>1. /\ used' \in Counts /\ UNCHANGED <<flash, ram, toFw, staged>>
        /\ up' = TRUE /\ reader' = <<>> /\ ed' = NoEditor
        /\ ghost' = [ghost EXCEPT !.torn = Slots \cup {Block}, !.mixed = FALSE]
        /\ host' \in Hosts /\ host'.waiting = FALSE
        /\ \/ /\ host'.cmd \in {"load", "copy"} /\ host'.pc = "page"
              /\ host'.start = 0 /\ host'.got = <<>>
           \/ host'.cmd = "set" /\ "set" \in Scripts /\ host'.pc = "slots" /\ DOMAIN host'.plan # {}
           \/ host'.cmd = "load_nvm" /\ "load_nvm" \in Scripts /\ host'.pc = "nvm"
    BY <1>4, LaunchStep
  <2>2. reader' \in Seq(Replies)
    BY <2>1
  <2>3. ghost' \in [torn : SUBSET (Slots \cup {Block}), mixed : BOOLEAN, said : Claims]
    BY <2>1 DEF Shape, TypeOK
  <2>4. ed' \in Editors
    BY <2>1, Constants
  <2>5. TypeOK'
    BY <2>1, <2>2, <2>3, <2>4 DEF Shape, TypeOK, Counts
  <2>6. LinkOK'
    BY <2>1 DEF LinkOK
  <2>7. ListOK'
    BY <2>1, Constants DEF ListOK, NoEditor, Listed
  <2>8. ScriptOK'
    BY <2>1, CfgAssumption DEF ScriptOK
  <2>9. QED
    BY <2>5, <2>6, <2>7, <2>8 DEF Shape
<1>5. QED
  BY <1>1, <1>2, <1>3, <1>4

(* The replies.                                                            *)
LEMMA AnsweredShape ==
  ASSUME Shape, NEW r \in Replies, host.waiting, Answered(r)
  PROVE  host' \in Hosts /\ ed' \in Editors /\ ListOK' /\ ScriptOK'
         /\ host'.waiting = FALSE /\ host'.cmd = host.cmd
<1>1. host.pc \in {"page", "periph", "slots", "put", "save", "nvm"} /\ ed \in Editors
  BY DEF Shape, ScriptOK, TypeOK, Hosts
<1>2. CASE host.pc = "page"
  <2>1. PageTaken(r)
    BY <1>2 DEF Answered
  <2> DEFINE got == host.got \o Rows(r.page)
  <2>2. /\ host' \in Hosts /\ ed' \in Editors /\ ListOK' /\ got \in Seq(Shown)
        /\ host'.waiting = FALSE /\ host'.cmd = host.cmd /\ host'.got = got
        /\ host'.start = Len(got) /\ host'.pc = IF Len(got) > TopSlot THEN "periph" ELSE "page"
    BY <1>2, <2>1, PageStep
  <2>3. host.cmd \in {"load", "copy"}
    BY <1>2 DEF Shape, ScriptOK
  <2> HIDE DEF got
  <2>4. Len(got) \in Nat
    BY <2>2
  <2>5. ScriptOK'
    BY <2>2, <2>3, <2>4, CfgAssumption DEF ScriptOK
  <2>6. QED
    BY <2>2, <2>5
<1>3. CASE host.pc = "periph"
  <2>1. /\ host' \in Hosts /\ ed' \in Editors /\ ListOK'
        /\ host'.waiting = FALSE /\ host'.cmd = host.cmd
        /\ host.cmd = "load" => host'.pc = "prompt"
        /\ host.cmd # "load" => host'.pc = "slots" /\ DOMAIN host'.plan = Slots
    BY <1>3, PeriphStep DEF Answered
  <2>2. Slots # {}
    BY CfgAssumption DEF Slots
  <2>3. ScriptOK'
    BY <2>1, <2>2, NotScripts DEF ScriptOK
  <2>4. QED
    BY <2>1, <2>3
<1>4. CASE host.pc = "slots"
  <2>1. /\ host' \in Hosts /\ ed' \in Editors /\ ListOK'
        /\ host'.waiting = FALSE /\ host'.cmd = host.cmd
        /\ DOMAIN host'.plan # {} => host'.pc = "slots"
        /\ DOMAIN host'.plan = {} => host'.pc = AfterSlots
    BY <1>4, SlotStep DEF Answered
  <2>2. host.cmd # "load"
    BY <1>4 DEF Shape, ScriptOK
  <2>3. ScriptOK'
    BY <2>1, <2>2, AfterTypes, NotScripts DEF ScriptOK
  <2>4. QED
    BY <2>1, <2>3
<1>5. CASE host.pc = "put"
  <2>1. /\ host' \in Hosts /\ ed' \in Editors /\ ListOK'
        /\ host'.waiting = FALSE /\ host'.cmd = host.cmd /\ host'.pc = AfterPut
    BY <1>5, PutStep DEF Answered
  <2>2. host.cmd # "load"
    BY <1>5 DEF Shape, ScriptOK
  <2>3. ScriptOK'
    BY <2>1, <2>2, AfterTypes, NotScripts DEF ScriptOK
  <2>4. QED
    BY <2>1, <2>3
<1>6. CASE host.pc \in {"save", "nvm"}
  <2>1. (host.pc = "save" /\ SaveTaken)
        \/ (host.pc = "nvm" /\ host' = [Resting EXCEPT !.pc = "gone"] /\ UNCHANGED ed)
    BY <1>6 DEF Answered
  <2>2. /\ host' \in Hosts /\ ed' = ed /\ ListOK'
        /\ host'.waiting = FALSE /\ host'.cmd = host.cmd
        /\ host'.pc = IF host.pc = "save" THEN AfterSave ELSE "gone"
    BY <2>1, SaveStep
  <2>3. ScriptOK'
    BY <2>2, AfterTypes, NotScripts DEF ScriptOK
  <2>4. QED
    BY <1>1, <2>2, <2>3
<1>7. QED
  BY <1>1, <1>2, <1>3, <1>4, <1>5, <1>6

(* A reply is of another op, an answer, or an error.                       *)
LEMMA ExchangeIs ==
  ASSUME Shape, ExchangeRaw
  PROVE  /\ host.waiting /\ up /\ reader # <<>> /\ Head(reader) \in Replies
         /\ reader' = Tail(reader) /\ reader' \in Seq(Replies)
         /\ UNCHANGED <<flash, ram, toFw, staged, up, used>>
         /\ \/ ~Matches(Head(reader)) /\ UNCHANGED <<host, ed, ghost>>
            \/ /\ Matches(Head(reader)) /\ Head(reader).ok /\ Answered(Head(reader))
               /\ ghost' = Noted(Head(reader))
            \/ Matches(Head(reader)) /\ ~Head(reader).ok /\ Raise
BY DEF Shape, TypeOK, LinkOK, ExchangeRaw

LEMMA ExchangeShape ==
  ASSUME Shape, ExchangeRaw, ghost'.said \in Claims
  PROVE  Shape' /\ (Matches(Head(reader)) => host'.waiting = FALSE)
<1> DEFINE r == Head(reader)
<1>1. /\ host.waiting /\ up /\ r \in Replies /\ reader' \in Seq(Replies)
      /\ UNCHANGED <<flash, ram, toFw, staged, up, used>>
  BY ExchangeIs
<1>2. host.pc \notin {"prompt", "gone"}
  BY <1>1 DEF Shape, ScriptOK
<1>3. CASE ~Matches(r) /\ UNCHANGED <<host, ed, ghost>>
  <2>1. TypeOK' /\ LinkOK' /\ ScriptOK' /\ ListOK'
    BY <1>1, <1>3 DEF Shape, TypeOK, LinkOK, ScriptOK, ListOK
  <2>2. QED
    BY <1>3, <2>1 DEF Shape
<1>4. CASE r.ok /\ Answered(r) /\ ghost' = Noted(r)
  <2>1. host' \in Hosts /\ ed' \in Editors /\ ListOK' /\ ScriptOK' /\ host'.waiting = FALSE
    BY <1>1, <1>4, AnsweredShape
  <2>2. ghost' \in [torn : SUBSET (Slots \cup {Block}), mixed : BOOLEAN, said : Claims]
    <3>1. ghost'.torn = ghost.torn \ Cleared(r) /\ ghost'.mixed = (ghost.mixed \/ r.old)
          /\ ghost' = [torn |-> ghost'.torn, mixed |-> ghost'.mixed, said |-> ghost'.said]
      BY <1>4 DEF Noted
    <3>2. ghost.torn \in SUBSET (Slots \cup {Block}) /\ ghost'.mixed \in BOOLEAN
      BY <1>1, <3>1 DEF Shape, TypeOK, Replies
    <3>3. ghost'.torn \in SUBSET (Slots \cup {Block})
      BY <3>1, <3>2
    <3>4. QED
      BY <3>1, <3>2, <3>3
  <2>3. TypeOK' /\ LinkOK'
    BY <1>1, <2>1, <2>2 DEF Shape, TypeOK, LinkOK
  <2>4. QED
    BY <2>1, <2>3 DEF Shape
<1>5. CASE ~r.ok /\ Raise
  <2>1. used' \in Counts
    BY <1>1 DEF Shape, TypeOK, Counts
  <2>2. QED
    BY <1>1, <1>2, <1>5, <2>1, RaiseShape
<1>6. QED
  BY <1>3, <1>4, <1>5, ExchangeIs

LEMMA FailureShape ==
  ASSUME Shape, Timeout \/ PortGone
  PROVE  /\ Shape' /\ host'.waiting = FALSE /\ Raise /\ host.pc \notin {"prompt", "gone"}
         /\ UNCHANGED fwVars
<1>1. used' \in Counts
  BY Counted DEF Shape, TypeOK, Counts, Timeout, PortGone
<1>2. Raise /\ host.pc \notin {"prompt", "gone"} /\ UNCHANGED fwVars
  BY DEF Timeout, PortGone, Shape, ScriptOK
<1>3. reader' \in Seq(Replies) /\ (~up => reader' = <<>>)
  BY <1>2 DEF Shape, TypeOK, LinkOK, fwVars
<1>4. QED
  BY <1>1, <1>2, <1>3, RaiseShape DEF fwVars

-----------------------------------------------------------------------------
(* The exchange: what is not old is the request or its reply.              *)

(* What the request of each step says (build_cfg_command).                 *)
LEMMA RequestSays ==
  ASSUME TypeOK, ScriptOK
  PROVE  /\ Request.op = "get" <=> host.pc = "page"
         /\ Request.op = "get_periph" <=> host.pc = "periph"
         /\ Request.op = "set" <=> host.pc = "slots"
         /\ Request.op = "set_periph" <=> host.pc = "put"
         /\ Request.op = "save" <=> host.pc = "save"
         /\ host.pc = "page"  => Request.slot = host.start
         /\ host.pc = "slots" => Request.slot = NextSlot /\ Request.row = host.plan[NextSlot]
         /\ host.pc = "put"   => Request.periph = host.periph
<1>1. \A op \in Ops : Asks(op) = [op |-> op, slot |-> 0, row |-> ZeroRow, periph |-> Factory.periph, old |-> FALSE]
  BY DEF Asks
<1>2. CASE host.pc = "page"
  <2>1. Request = [Asks("get") EXCEPT !.slot = host.start]
    BY <1>2 DEF Request
  <2>2. QED
    BY <1>1, <1>2, <2>1 DEF Ops
<1>3. CASE host.pc = "slots"
  <2>1. Request = [Asks("set") EXCEPT !.slot = NextSlot, !.row = host.plan[NextSlot]]
    BY <1>3 DEF Request
  <2>2. QED
    BY <1>1, <1>3, <2>1 DEF Ops
<1>4. CASE host.pc = "put"
  <2>1. Request = [Asks("set_periph") EXCEPT !.periph = host.periph]
    BY <1>4 DEF Request
  <2>2. QED
    BY <1>1, <1>4, <2>1 DEF Ops
<1>5. CASE host.pc \notin {"page", "slots", "put"}
  <2>1. Request = Asks(CASE host.pc = "periph" -> "get_periph" [] host.pc = "save" -> "save" [] OTHER -> "load")
    BY <1>5 DEF Request
  <2>2. QED
    BY <1>1, <1>5, <2>1 DEF Ops
<1>6. QED
  BY <1>2, <1>3, <1>4, <1>5

LEMMA SameRequest ==
  ASSUME host'.pc = host.pc, host'.start = host.start, host'.plan = host.plan,
         host'.periph = host.periph
  PROVE  Request' = Request /\ NextSlot' = NextSlot
<1>1. NextSlot' = NextSlot
  BY DEF NextSlot
<1>2. QED
  BY <1>1 DEF Request, Asks

(* The reply to the request tells what the board has become.               *)
LEMMA CommandTells ==
  ASSUME Shape, OnCommand, Head(toFw) = Request
  PROVE  Tells(staged)'
<1> DEFINE r == Head(toFw)
<1>1. TypeOK /\ ScriptOK /\ UNCHANGED host
  BY DEF Shape, OnCommand
<1>2. Request' = Request /\ NextSlot' = NextSlot
  BY <1>1, SameRequest
<1>3. PICK ok \in BOOLEAN : staged' = Response(r, ram', ok)
  BY <1>1, CommandTypes
<1>4. /\ staged'.op = r.op /\ staged'.ok = ok /\ staged'.periph = ram'.periph
      /\ r.op = "get" => staged'.page = Page(ram', r.slot)
  BY <1>3 DEF Response
<1>5. r = Request /\ r \in Requests /\ ram \in Image
  BY <1>1, RequestIs DEF TypeOK
<1>6. Read(r) \/ Set(r) \/ SetPeriph(r) \/ Save(r) \/ Load(r)
  BY DEF OnCommand
<1> HIDE DEF r
<1>7. r.op = "get" => staged'.page = Page(ram', host.start)
  BY <1>1, <1>4, <1>5, RequestSays
<1>8. r.op = "set" => ram'.rows[NextSlot] = TakenRow(host.plan[NextSlot])
  <2> SUFFICES ASSUME r.op = "set" PROVE ram'.rows[NextSlot] = TakenRow(host.plan[NextSlot])
    OBVIOUS
  <2>1. r.slot = NextSlot /\ r.row = host.plan[NextSlot] /\ r.slot \in Slots
    BY <1>1, <1>5, RequestSays DEF Requests
  <2>2. ram' = [ram EXCEPT !.rows[r.slot] = TakenRow(r.row)]
    BY <1>6 DEF Read, Set, SetPeriph, Save, Load
  <2>3. QED
    BY <1>5, <2>1, <2>2 DEF Image
<1>9. r.op = "set_periph" => ram'.periph = Settled(host.periph)
  <2> SUFFICES ASSUME r.op = "set_periph" PROVE ram'.periph = Settled(host.periph)
    OBVIOUS
  <2>1. r.periph = host.periph
    BY <1>1, <1>5, RequestSays
  <2>2. ram' = [ram EXCEPT !.periph = Settled(r.periph)]
    BY <1>6 DEF Read, Set, SetPeriph, Save, Load
  <2>3. QED
    BY <1>5, <2>1, <2>2 DEF Image
<1>10. r.op = "save" /\ staged'.ok => flash' = Whole(Stored(ram'))
  <2> SUFFICES ASSUME r.op = "save", staged'.ok PROVE flash' = Whole(Stored(ram'))
    OBVIOUS
  <2>1. Save(r)
    BY <1>6 DEF Read, Set, SetPeriph, Save, Load
  <2>2. ram' = ram /\ (flash' = Whole(Stored(ram)) \/ staged' = Response(r, ram', FALSE))
    BY <2>1 DEF Save
  <2>3. staged' # Response(r, ram', FALSE)
    BY DEF Response
  <2>4. QED
    BY <2>2, <2>3
<1>11. QED
  BY <1>1, <1>2, <1>4, <1>5, <1>7, <1>8, <1>9, <1>10 DEF Tells

LEMMA AskExchange ==
  ASSUME Shape, Ask
  PROVE  ExchangeOK'
<1>1. /\ toFw' \in Seq(Requests) /\ Len(toFw') = Len(toFw) + 1 /\ toFw'[Len(toFw')] = Request
      /\ \A i \in 1 .. Len(toFw) : toFw'[i].old
      /\ staged' # NoReply => staged'.old
  BY AskQueue DEF Shape
<1>2. Len(toFw) \in Nat
  BY DEF Shape, TypeOK
<1>3. Request' = Request
  <2>1. host'.pc = host.pc /\ host'.start = host.start /\ host'.plan = host.plan
        /\ host'.periph = host.periph
    BY DEF Ask, Shape, TypeOK, Hosts
  <2>2. QED
    BY <2>1, SameRequest
<1>4. \A i \in DOMAIN toFw' : ~toFw'[i].old => i = Len(toFw') /\ toFw'[i] = Request'
  BY <1>1, <1>2, <1>3
<1>5. reader' = <<>>
  BY DEF Ask
<1>6. QED
  BY <1>1, <1>4, <1>5 DEF ExchangeOK

LEMMA CommandExchange ==
  ASSUME Shape, ExchangeOK, OnCommand
  PROVE  ExchangeOK'
<1>1. toFw \in Seq(Requests) /\ toFw # <<>> /\ toFw' = Tail(toFw) /\ UNCHANGED <<host, reader>>
  BY DEF Shape, TypeOK, OnCommand
<1>2. Request' = Request
  BY <1>1, SameRequest
<1> SUFFICES ASSUME host.waiting PROVE ExchangeOK'
  BY <1>1 DEF ExchangeOK
<1>3. \A i \in 1 .. Len(toFw) : ~toFw[i].old => i = Len(toFw) /\ toFw[i] = Request
  BY DEF ExchangeOK
<1>4. \A i \in DOMAIN toFw' : ~toFw'[i].old => i = Len(toFw') /\ toFw'[i] = Request'
  <2> TAKE i \in DOMAIN toFw'
  <2>1. i \in Nat /\ i + 1 \in 1 .. Len(toFw) /\ toFw'[i] = toFw[i + 1] /\ Len(toFw') = Len(toFw) - 1
        /\ Len(toFw) \in Nat
    BY <1>1
  <2>2. QED
    BY <1>2, <1>3, <2>1
<1>5. ~staged'.old => toFw' = <<>> /\ Tells(staged)'
  <2> SUFFICES ASSUME ~staged'.old PROVE toFw' = <<>> /\ Tells(staged)'
    OBVIOUS
  <2>1. staged'.old = Head(toFw).old
    <3>1. PICK ok \in BOOLEAN : staged' = Response(Head(toFw), ram', ok)
      BY CommandTypes DEF Shape
    <3>2. QED
      BY <3>1 DEF Response
  <2>2. Head(toFw) = toFw[1] /\ 1 \in 1 .. Len(toFw)
    BY <1>1
  <2>3. Len(toFw) = 1 /\ Head(toFw) = Request
    BY <1>3, <2>1, <2>2
  <2>4. toFw' = <<>>
    BY <1>1, <2>3
  <2>5. QED
    BY <2>3, <2>4, CommandTells
<1>6. \A i \in DOMAIN reader : reader[i].old
  BY <1>1 DEF ExchangeOK
<1>7. QED
  BY <1>1, <1>4, <1>5, <1>6 DEF ExchangeOK

LEMMA LineExchange ==
  ASSUME Shape, ExchangeOK, FeedbackFill \/ Drop
  PROVE  ExchangeOK'
<1>1. UNCHANGED <<ram, flash, host>>
  BY DEF FeedbackFill, Drop
<1>2. Request' = Request /\ NextSlot' = NextSlot
  BY <1>1, SameRequest
<1> SUFFICES ASSUME host.waiting PROVE ExchangeOK'
  BY <1>1 DEF ExchangeOK
<1>3. \A r \in Replies : Tells(r) => Tells(r)'
  BY <1>1, <1>2 DEF Tells
<1>4. reader \in Seq(Replies) /\ toFw \in Seq(Requests)
  BY DEF Shape, TypeOK
<1>5. CASE FeedbackFill
  <2>1. staged \in Replies /\ staged' = NoReply /\ reader' = Append(reader, staged) /\ toFw' = toFw
        /\ staged # NoReply
    BY <1>5 DEF FeedbackFill, Shape, TypeOK
  <2>2. ASSUME NEW i \in DOMAIN reader', ~reader'[i].old
        PROVE  toFw' = <<>> /\ Tells(reader[i])'
    <3>1. i \in 1 .. Len(reader) + 1 /\ reader'[i] = IF i = Len(reader) + 1 THEN staged ELSE reader[i]
      BY <1>4, <2>1
    <3>2. CASE i = Len(reader) + 1
      <4>1. toFw = <<>> /\ Tells(staged)
        BY <2>1, <2>2, <3>1, <3>2 DEF ExchangeOK
      <4>2. QED
        BY <1>3, <2>1, <3>1, <3>2, <4>1
    <3>3. CASE i # Len(reader) + 1
      <4>1. i \in 1 .. Len(reader) /\ reader'[i] = reader[i]
        BY <1>4, <3>1, <3>3
      <4>2. staged = NoReply
        BY <2>2, <4>1 DEF ExchangeOK
      <4>3. QED
        BY <2>1, <4>2
    <3>4. QED
      BY <3>2, <3>3
  <2>3. \A i \in DOMAIN toFw' : ~toFw'[i].old => i = Len(toFw') /\ toFw'[i] = Request'
    BY <1>2, <2>1 DEF ExchangeOK
  <2>4. QED
    BY <2>1, <2>2, <2>3 DEF ExchangeOK
<1>6. CASE Drop
  <2>1. toFw # <<>> /\ toFw' = Tail(toFw) /\ UNCHANGED <<staged, reader>>
    BY <1>6 DEF Drop
  <2>2. staged = NoReply \/ staged.old
    BY <2>1 DEF ExchangeOK
  <2>3. \A i \in DOMAIN reader : reader[i].old
    BY <2>1 DEF ExchangeOK
  <2>4. \A i \in DOMAIN toFw' : ~toFw'[i].old => i = Len(toFw') /\ toFw'[i] = Request'
    <3> TAKE i \in DOMAIN toFw'
    <3>1. i \in Nat /\ i + 1 \in 1 .. Len(toFw) /\ toFw'[i] = toFw[i + 1] /\ Len(toFw') = Len(toFw) - 1
          /\ Len(toFw) \in Nat
      BY <1>4, <2>1
    <3>2. ~toFw[i + 1].old => i + 1 = Len(toFw) /\ toFw[i + 1] = Request
      BY <3>1 DEF ExchangeOK
    <3>3. QED
      BY <1>2, <3>1, <3>2
  <2>5. QED
    BY <2>1, <2>2, <2>3, <2>4 DEF ExchangeOK
<1>7. QED
  BY <1>5, <1>6

LEMMA CutExchange ==
  ASSUME PowerCut
  PROVE  ExchangeOK'
BY DEF PowerCut, ExchangeOK

(* A frame of another op is skipped.                                       *)
LEMMA SkipExchange ==
  ASSUME Shape, ExchangeOK, ExchangeRaw, ~Matches(Head(reader))
  PROVE  ExchangeOK'
<1>1. reader # <<>> /\ reader \in Seq(Replies) /\ reader' = Tail(reader)
      /\ UNCHANGED <<flash, ram, toFw, staged, host>>
  BY ExchangeIs DEF Shape, TypeOK
<1>2. Request' = Request /\ NextSlot' = NextSlot
  BY <1>1, SameRequest
<1>3. \A r : Tells(r) => Tells(r)'
  BY <1>1, <1>2 DEF Tells
<1> SUFFICES ASSUME host.waiting PROVE ExchangeOK'
  BY <1>1 DEF ExchangeOK
<1>4. ASSUME NEW i \in DOMAIN reader', ~reader'[i].old
      PROVE  toFw' = <<>> /\ staged' = NoReply /\ Tells(reader[i])'
  <2>1. i + 1 \in DOMAIN reader /\ reader'[i] = reader[i + 1]
    BY <1>1
  <2>2. toFw = <<>> /\ staged = NoReply /\ Tells(reader[i + 1])
    BY <1>4, <2>1 DEF ExchangeOK
  <2>3. QED
    BY <1>1, <1>3, <2>1, <2>2
<1>5. staged # NoReply /\ ~staged.old => toFw' = <<>> /\ Tells(staged)'
  BY <1>1, <1>3 DEF ExchangeOK
<1>6. \A i \in DOMAIN toFw' : ~toFw'[i].old => i = Len(toFw') /\ toFw'[i] = Request'
  BY <1>1, <1>2 DEF ExchangeOK
<1>7. QED
  BY <1>1, <1>4, <1>5, <1>6 DEF ExchangeOK

-----------------------------------------------------------------------------
(* What was said to be saved.                                              *)

LEMMA SaidSame ==
  ASSUME SaidOK, UNCHANGED <<flash, toFw>>, ghost'.said = ghost.said
  PROVE  SaidOK'
BY DEF SaidOK, SavedSurvives

LEMMA AskSaid ==
  ASSUME Shape, SaidOK, Ask
  PROVE  SaidOK'
<1>1. UNCHANGED flash /\ ghost \in [torn : SUBSET (Slots \cup {Block}), mixed : BOOLEAN, said : Claims]
  BY DEF Ask, Shape, TypeOK
<1>2. CASE host.pc = "save"
  <2>1. ghost'.said = NoClaim
    BY <1>1, <1>2 DEF Ask
  <2>2. QED
    BY <2>1 DEF SaidOK, SavedSurvives
<1>3. CASE host.pc # "save"
  <2>1. ghost' = ghost
    BY <1>3 DEF Ask
  <2>2. /\ Len(toFw') = Len(toFw) + 1 /\ toFw'[Len(toFw')] = Request /\ toFw' \in Seq(Requests)
        /\ \A i \in 1 .. Len(toFw) : toFw'[i].op = toFw[i].op
    BY AskQueue DEF Shape
  <2>3. Request.op # "save"
    BY <1>3, RequestSays DEF Shape
  <2>4. ASSUME ghost.said # NoClaim, NEW i \in DOMAIN toFw' PROVE toFw'[i].op # "save"
    <3>1. \A j \in 1 .. Len(toFw) : toFw[j].op # "save"
      BY <2>4 DEF SaidOK, Shape, TypeOK
    <3>2. Len(toFw) \in Nat
      BY DEF Shape, TypeOK
    <3>3. QED
      BY <2>2, <2>3, <3>1, <3>2
  <2>5. QED
    BY <1>1, <2>1, <2>4 DEF SaidOK, SavedSurvives
<1>4. QED
  BY <1>2, <1>3

(* Nothing but a SAVE writes the page.                                     *)
LEMMA FirmwareSaid ==
  ASSUME Shape, SaidOK, OnCommand \/ FeedbackFill \/ Drop \/ PowerCut
  PROVE  SaidOK'
<1>1. toFw \in Seq(Requests) /\ ghost' = ghost
  BY DEF Shape, TypeOK, OnCommand, FeedbackFill, Drop, PowerCut
<1>2. toFw' = toFw \/ toFw' = <<>> \/ (toFw # <<>> /\ toFw' = Tail(toFw))
  BY DEF OnCommand, FeedbackFill, Drop, PowerCut
<1> SUFFICES ASSUME ghost.said # NoClaim PROVE SaidOK'
  BY <1>1 DEF SaidOK, SavedSurvives
<1>3. \A i \in 1 .. Len(toFw) : toFw[i].op # "save"
  BY <1>1 DEF SaidOK
<1>4. \A i \in DOMAIN toFw' : toFw'[i].op # "save"
  <2>1. CASE toFw' = toFw \/ toFw' = <<>>
    BY <1>1, <1>3, <2>1
  <2>2. CASE toFw # <<>> /\ toFw' = Tail(toFw)
    <3> TAKE i \in DOMAIN toFw'
    <3>1. i + 1 \in 1 .. Len(toFw) /\ toFw'[i] = toFw[i + 1]
      BY <1>1, <2>2
    <3>2. QED
      BY <1>3, <3>1
  <2>3. QED
    BY <1>2, <2>1, <2>2
<1>5. toFw # <<>> => Head(toFw).op # "save"
  BY <1>1, <1>3
<1>6. flash' = flash
  <2>1. CASE OnCommand
    <3>1. \A r : r.op # "save" => ~Save(r)
      BY DEF Save
    <3>2. QED
      BY <1>5, <2>1, <3>1 DEF OnCommand, Read, Set, SetPeriph, Load
  <2>2. CASE PowerCut
    BY <1>5, <2>2 DEF PowerCut
  <2>3. CASE FeedbackFill \/ Drop
    BY <2>3 DEF FeedbackFill, Drop
  <2>4. QED
    BY <2>1, <2>2, <2>3
<1>7. QED
  BY <1>1, <1>4, <1>6 DEF SaidOK, SavedSurvives

(* A claim is made only of what the board's page holds.                    *)
LEMMA ReplySaid ==
  ASSUME IInv, ExchangeRaw
  PROVE  ghost'.said \in Claims /\ SaidOK'
<1> DEFINE r == Head(reader)
<1>1. Shape /\ TypeOK /\ ScriptOK /\ ghost.said \in Claims /\ SaidOK
  BY DEF IInv, Shape, TypeOK
<1>2. /\ host.waiting /\ up /\ reader # <<>> /\ r \in Replies
      /\ UNCHANGED <<flash, toFw>>
      /\ \/ ghost' = ghost
         \/ Matches(r) /\ r.ok /\ ghost' = Noted(r)
         \/ Raise
  BY <1>1, ExchangeIs
<1>3. CASE ghost'.said = ghost.said
  BY <1>1, <1>2, <1>3, SaidSame
<1>4. CASE ghost'.said # ghost.said
  <2>1. Matches(r) /\ r.ok /\ ghost' = Noted(r)
    BY <1>1, <1>2, <1>4 DEF Raise, TypeOK
  <2> DEFINE shown == [s \in Slots |-> RowKey(ed.rows, s)]
  <2>2. /\ host.pc = "save" /\ host.cmd = "persist" /\ ghost.torn = {} /\ ~ghost.mixed /\ ~r.old
        /\ ghost'.said = [rows |-> shown, periph |-> ed.periph]
    BY <1>4, <2>1 DEF Noted
  <2> HIDE DEF shown
  <2>3. host.cmd \notin Scripts
    BY <2>2, NotScripts
  <2>4. Known /\ ApplyOK /\ BoardOK
    BY <2>2, <2>3 DEF IInv, EditorOK
  <2>5. ed.dirty = {} /\ ~ed.pdirty
    BY <2>2, <2>4 DEF ApplyOK
  <2>6. ed.rows \in Seq(Shown) /\ ed.periph \in Periph /\ ram \in Image
    BY <1>1 DEF TypeOK, Editors
  <2>7. \A s \in Slots : RowKey(ed.rows, s) \in Typed /\ Runs(ram.rows[s], RowKey(ed.rows, s))
    <3> TAKE s \in Slots
    <3>1. RowKey(ed.rows, s) = RowOf(ed.rows[s + 1]) /\ RowKey(ed.rows, s) \in Typed
      BY <2>4, <2>6, RowInPlace, RowsOf DEF Known
    <3>2. RowOf(ed.rows[s + 1]) = ed.base[s]
      BY <2>4, <2>5 DEF Known
    <3>3. Runs(ram.rows[s], ed.base[s])
      BY <1>2, <2>2, <2>4 DEF BoardOK
    <3>4. QED
      BY <3>1, <3>2, <3>3
  <2>8. ram.periph = Settled(ed.periph)
    BY <1>2, <2>2, <2>4, <2>5 DEF BoardOK
  <2>9. toFw = <<>> /\ Tells(r)
    <3>1. 1 \in DOMAIN reader /\ r = reader[1]
      BY <1>1, <1>2 DEF TypeOK
    <3>2. QED
      BY <1>2, <2>2, <3>1 DEF IInv, ExchangeOK
  <2>10. flash = Whole(Stored(ram))
    <3>1. r.op = "save"
      BY <1>1, <2>1, <2>2, RequestSays DEF Matches
    <3>2. QED
      BY <2>1, <2>9, <3>1 DEF Tells
  <2>11. Booted(flash, Factory) = Stored(ram)
    BY <2>6, <2>10, StoredIs, WholeBoots
  <2>12. \A s \in Slots : Runs(Stored(ram).rows[s], shown[s])
    <3>1. \A s \in Slots : Runs(Stored(ram).rows[s], RowKey(ed.rows, s))
      BY <2>6, <2>7, StoredIs DEF Runs
    <3>2. QED
      BY <3>1 DEF shown
  <2>14. Stored(ram).periph = Settled(ed.periph)
    BY <2>6, <2>8, StoredIs
  <2>15. shown \in [Slots -> Typed]
    BY <2>7 DEF shown
  <2>16. ghost'.said \in Claims
    BY <2>2, <2>6, <2>15 DEF Claims
  <2>17. SavedSurvives'
    <3>1. Booted(flash, Factory)' = Stored(ram)
      BY <1>2, <2>11 DEF Booted, Valid
    <3>2. QED
      BY <2>2, <2>12, <2>14, <3>1 DEF SavedSurvives
  <2>18. QED
    BY <1>2, <2>9, <2>16, <2>17 DEF SaidOK
<1>5. QED
  BY <1>3, <1>4

-----------------------------------------------------------------------------
(* What the editor knows of the board.                                     *)

AtWork == host.cmd \notin Scripts /\ ~ghost.mixed /\ host.pc # "gone"
Sound  == /\ Known \/ (host.pc = "page" /\ Slots \subseteq ghost.torn)
          /\ FetchOK /\ ApplyOK /\ PendingOK /\ BoardOK

LEMMA EditorIs == EditorOK <=> (AtWork => Sound)
BY DEF EditorOK, AtWork, Sound

(* The commands of the editor are its own.                                 *)
LEMMA OwnCommands ==
  ASSUME TypeOK, ScriptOK, host.cmd \notin Scripts
  PROVE  /\ host.cmd \in {"load", "apply", "persist"} /\ host.pc # "nvm"
         /\ host.pc \in {"page", "periph"} => host.cmd = "load"
BY DEF TypeOK, Hosts, ScriptOK

(* The shorter line holds no more than the line held.                      *)
LEMMA Shorter ==
  ASSUME TypeOK, toFw' = toFw \/ toFw' = <<>> \/ (toFw # <<>> /\ toFw' = Tail(toFw))
  PROVE  \A i \in DOMAIN toFw' : \E j \in DOMAIN toFw : toFw'[i] = toFw[j]
<1>1. toFw \in Seq(Requests)
  BY DEF TypeOK
<1>2. CASE toFw # <<>> /\ toFw' = Tail(toFw)
  <2> TAKE i \in DOMAIN toFw'
  <2>1. i + 1 \in DOMAIN toFw /\ toFw'[i] = toFw[i + 1]
    BY <1>1, <1>2
  <2>2. QED
    BY <2>1
<1>3. QED
  BY <1>2

LEMMA ShorterSound ==
  ASSUME Sound, \A i \in DOMAIN toFw' : \E j \in DOMAIN toFw : toFw'[i] = toFw[j],
         UNCHANGED <<ghost, host, ed>>
  PROVE  PendingOK' /\ ApplyOK'
         /\ (Known \/ (host.pc = "page" /\ Slots \subseteq ghost.torn))'
         /\ (host.pc = "page" /\ host.got # <<>> => \A i \in DOMAIN toFw' : toFw'[i].op = "get")
<1>1. PendingOK'
  BY DEF Sound, PendingOK
<1>2. ApplyOK' /\ (Known \/ (host.pc = "page" /\ Slots \subseteq ghost.torn))'
  BY DEF Sound, ApplyOK, Known
<1>3. host.pc = "page" /\ host.got # <<>> => \A i \in DOMAIN toFw' : toFw'[i].op = "get"
  BY DEF Sound, FetchOK
<1>4. QED
  BY <1>1, <1>2, <1>3

LEMMA LineEditor ==
  ASSUME Shape, EditorOK, FeedbackFill \/ Drop \/ PowerCut
  PROVE  EditorOK'
<1>1. /\ TypeOK /\ UNCHANGED <<ghost, host, ed>>
      /\ toFw' = toFw \/ toFw' = <<>> \/ (toFw # <<>> /\ toFw' = Tail(toFw))
      /\ up' => UNCHANGED <<ram, up>>
  BY DEF Shape, FeedbackFill, Drop, PowerCut
<1>2. \A i \in DOMAIN toFw' : \E j \in DOMAIN toFw : toFw'[i] = toFw[j]
  BY <1>1, Shorter
<1> SUFFICES ASSUME AtWork' PROVE Sound'
  BY EditorIs DEF AtWork, EditorOK, Sound
<1>3. Sound
  BY <1>1, EditorIs DEF AtWork
<1>4. PendingOK' /\ ApplyOK'
      /\ (Known \/ (host.pc = "page" /\ Slots \subseteq ghost.torn))'
      /\ (host.pc = "page" /\ host.got # <<>> => \A i \in DOMAIN toFw' : toFw'[i].op = "get")
  BY <1>1, <1>2, <1>3, ShorterSound
<1>5. FetchOK'
  BY <1>1, <1>3, <1>4 DEF Sound, FetchOK
<1>6. BoardOK'
  BY <1>1, <1>3 DEF Sound, BoardOK
<1>7. QED
  BY <1>4, <1>5, <1>6 DEF Sound

(* What a command changes on the board is in doubt, or being applied.      *)
LEMMA CommandEditor ==
  ASSUME Shape, EditorOK, OnCommand
  PROVE  EditorOK'
<1> DEFINE r == Head(toFw)
<1>1. /\ TypeOK /\ UNCHANGED <<ghost, host, ed, up>> /\ toFw # <<>> /\ toFw' = Tail(toFw)
      /\ toFw \in Seq(Requests)
  BY DEF Shape, OnCommand, TypeOK
<1>2. \A i \in DOMAIN toFw' : \E j \in DOMAIN toFw : toFw'[i] = toFw[j]
  BY <1>1, Shorter
<1> SUFFICES ASSUME AtWork' PROVE Sound'
  BY EditorIs DEF AtWork, EditorOK, Sound
<1>3. Sound
  BY <1>1, EditorIs DEF AtWork
<1>4. PendingOK' /\ ApplyOK'
      /\ (Known \/ (host.pc = "page" /\ Slots \subseteq ghost.torn))'
      /\ (host.pc = "page" /\ host.got # <<>> => \A i \in DOMAIN toFw' : toFw'[i].op = "get")
  BY <1>1, <1>2, <1>3, ShorterSound
<1>5. 1 \in DOMAIN toFw /\ r = toFw[1] /\ r \in Requests
  BY <1>1
<1>6. Read(r) \/ Set(r) \/ SetPeriph(r) \/ Save(r) \/ Load(r)
  BY DEF OnCommand
<1>7. /\ r.op = "set" => r.slot \in ghost.torn \/ (host.pc = "slots" /\ r.slot \in DOMAIN host.plan)
      /\ r.op = "set_periph" => Block \in ghost.torn \/ ed.pdirty
      /\ r.op = "load" => Slots \cup {Block} \subseteq ghost.torn
      /\ host.pc = "page" /\ host.got # <<>> => r.op = "get"
  BY <1>3, <1>5 DEF Sound, PendingOK, FetchOK
<1> HIDE DEF r
<1>8. r.op = "get" => ram' = ram
  BY <1>6 DEF Read, Set, SetPeriph, Save, Load
<1>9. FetchOK'
  BY <1>1, <1>3, <1>4, <1>7, <1>8 DEF Sound, FetchOK
<1>10. BoardOK'
  <2>1. CASE ram' = ram
    BY <1>1, <1>3, <2>1 DEF Sound, BoardOK
  <2>2. CASE Set(r)
    <3>1. ram' = [ram EXCEPT !.rows[r.slot] = TakenRow(r.row)] /\ r.op = "set" /\ ram \in Image
      BY <1>1, <2>2 DEF Set, TypeOK
    <3>2. ram'.periph = ram.periph /\ \A s \in Slots : s # r.slot => ram'.rows[s] = ram.rows[s]
      BY <3>1 DEF Image
    <3>3. host.pc = "slots" => DOMAIN host.plan \subseteq ed.dirty
      BY <1>3 DEF Sound, ApplyOK
    <3>4. ed.dirty \subseteq Slots
      BY <1>1 DEF TypeOK, Editors
    <3>5. QED
      BY <1>1, <1>3, <1>7, <3>1, <3>2, <3>3, <3>4 DEF Sound, BoardOK
  <2>3. CASE SetPeriph(r)
    <3>1. ram' = [ram EXCEPT !.periph = Settled(r.periph)] /\ r.op = "set_periph" /\ ram \in Image
      BY <1>1, <2>3 DEF SetPeriph, TypeOK
    <3>2. ram'.rows = ram.rows
      BY <3>1 DEF Image
    <3>3. QED
      BY <1>1, <1>3, <1>7, <3>1, <3>2 DEF Sound, BoardOK
  <2>4. CASE Load(r)
    <3>1. r.op = "load"
      BY <2>4 DEF Load
    <3>2. ed.dirty \subseteq Slots
      BY <1>1 DEF TypeOK, Editors
    <3>3. QED
      BY <1>1, <1>3, <1>7, <3>1, <3>2 DEF Sound, BoardOK
  <2>5. QED
    BY <1>6, <2>1, <2>2, <2>3, <2>4 DEF Read, Save
<1>11. QED
  BY <1>4, <1>9, <1>10 DEF Sound

LEMMA AskEditor ==
  ASSUME Shape, EditorOK, Ask
  PROVE  EditorOK'
<1>1. /\ TypeOK /\ ScriptOK /\ UNCHANGED <<ram, up, ed>>
      /\ host' = [host EXCEPT !.waiting = TRUE]
      /\ ghost'.torn = ghost.torn /\ ghost'.mixed = ghost.mixed
  BY DEF Shape, Ask, TypeOK
<1>2. /\ host'.cmd = host.cmd /\ host'.pc = host.pc /\ host'.start = host.start
      /\ host'.got = host.got /\ host'.plan = host.plan /\ host'.periph = host.periph
  BY <1>1 DEF TypeOK, Hosts
<1> SUFFICES ASSUME AtWork' PROVE Sound'
  BY EditorIs DEF AtWork, EditorOK, Sound
<1>3. Sound /\ host.cmd \notin Scripts
  BY <1>1, <1>2, EditorIs DEF AtWork
<1>4. /\ toFw' \in Seq(Requests) /\ Len(toFw') = Len(toFw) + 1 /\ toFw'[Len(toFw')] = Request
      /\ \A i \in 1 .. Len(toFw) : toFw'[i] = [toFw[i] EXCEPT !.old = TRUE] /\ toFw[i] \in Requests
  BY AskQueue DEF Shape
<1>5. Len(toFw) \in Nat /\ DOMAIN toFw = 1 .. Len(toFw)
  BY <1>1 DEF TypeOK
<1>6. \A i \in 1 .. Len(toFw) : toFw'[i].op = toFw[i].op /\ toFw'[i].slot = toFw[i].slot
  BY <1>4 DEF Requests
<1>7. ASSUME NEW i \in DOMAIN toFw'
      PROVE  i \in DOMAIN toFw \/ toFw'[i] = Request
  BY <1>4, <1>5
<1>8. /\ Request.op = "set" => host.pc = "slots" /\ Request.slot \in DOMAIN host.plan
      /\ Request.op = "set_periph" => ed.pdirty
      /\ Request.op # "load"
      /\ host.pc = "page" => Request.op = "get"
  <2>1. host.pc = "slots" => NextSlot \in DOMAIN host.plan
    BY <1>1, NextIs
  <2>2. host.pc = "put" => ed.pdirty
    BY <1>3 DEF Sound, ApplyOK
  <2>3. host.pc \in {"page", "periph", "slots", "put", "save"}
    BY <1>1, <1>3, OwnCommands DEF Ask, TypeOK, Hosts
  <2>4. QED
    BY <1>1, <2>1, <2>2, <2>3, RequestSays
<1>9. PendingOK'
  <2> SUFFICES ASSUME NEW i \in DOMAIN toFw'
               PROVE  /\ toFw'[i].op = "set" =>
                            \/ toFw'[i].slot \in ghost.torn
                            \/ host.pc = "slots" /\ toFw'[i].slot \in DOMAIN host.plan
                      /\ toFw'[i].op = "set_periph" => Block \in ghost.torn \/ ed.pdirty
                      /\ toFw'[i].op = "load" => Slots \cup {Block} \subseteq ghost.torn
    BY <1>1, <1>2 DEF PendingOK
  <2>1. CASE i \in DOMAIN toFw
    BY <1>3, <1>5, <1>6, <2>1 DEF Sound, PendingOK
  <2>2. CASE toFw'[i] = Request
    BY <1>8, <2>2
  <2>3. QED
    BY <1>7, <2>1, <2>2
<1>10. FetchOK'
  <2>1. host.pc = "page" /\ host.got # <<>> => \A i \in DOMAIN toFw' : toFw'[i].op = "get"
    BY <1>3, <1>5, <1>6, <1>7, <1>8 DEF Sound, FetchOK
  <2>2. QED
    BY <1>1, <1>2, <1>3, <2>1 DEF Sound, FetchOK
<1>11. ApplyOK' /\ (Known \/ (host.pc = "page" /\ Slots \subseteq ghost.torn))'
  BY <1>1, <1>2, <1>3 DEF Sound, ApplyOK, Known
<1>12. BoardOK'
  BY <1>1, <1>2, <1>3 DEF Sound, BoardOK
<1>13. QED
  BY <1>9, <1>10, <1>11, <1>12 DEF Sound

(* An exception puts what was being applied in doubt.                      *)
LEMMA RaiseEditor ==
  ASSUME Shape, EditorOK, Raise, host.pc \notin {"prompt", "gone"}, UNCHANGED <<ram, toFw, up>>
  PROVE  EditorOK'
<1>1. /\ TypeOK /\ ScriptOK /\ ed' = ed
      /\ ghost'.torn = ghost.torn \cup (IF host.pc = "slots" THEN ed.dirty ELSE {})
      /\ ghost'.mixed = ghost.mixed
  BY DEF Shape, Raise, TypeOK
<1>2. /\ host'.cmd = host.cmd /\ host'.plan = host.plan
      /\ host'.pc = "gone" \/ (host'.pc = "prompt" /\ Caught) \/ (host'.pc = "save" /\ host.pc = "save")
  BY <1>1 DEF Raise, Resting, TypeOK, Hosts
<1> SUFFICES ASSUME AtWork' PROVE Sound'
  BY EditorIs DEF AtWork, EditorOK, Sound
<1>3. Sound /\ host.cmd \notin Scripts /\ host'.pc \in {"prompt", "save"}
  BY <1>1, <1>2, EditorIs DEF AtWork
<1>4. host.pc # "page"
  BY <1>1, <1>2, <1>3, OwnCommands DEF Caught
<1>5. Known'
  BY <1>1, <1>3, <1>4 DEF Sound, Known
<1>6. FetchOK'
  BY <1>3 DEF FetchOK
<1>7. ApplyOK'
  BY <1>1, <1>2, <1>3 DEF Sound, ApplyOK
<1>8. PendingOK'
  <2>1. host.pc = "slots" => DOMAIN host.plan \subseteq ed.dirty
    BY <1>3 DEF Sound, ApplyOK
  <2>2. QED
    BY <1>1, <1>3, <2>1 DEF Sound, PendingOK
<1>9. BoardOK'
  BY <1>1, <1>3 DEF Sound, BoardOK
<1>10. QED
  BY <1>5, <1>6, <1>7, <1>8, <1>9 DEF Sound

(* The user.                                                               *)
LEMMA EditingEditor ==
  ASSUME Shape, EditorOK, Editing
  PROVE  EditorOK'
<1>1. Kept(ed') /\ host.pc = "prompt" /\ UNCHANGED <<fwVars, host, ghost>>
  BY EditingKeeps
<1> SUFFICES ASSUME AtWork' PROVE Sound'
  BY EditorIs DEF AtWork, EditorOK, Sound
<1>2. Sound
  BY <1>1, EditorIs DEF AtWork
<1>3. Known'
  BY <1>1, <1>2 DEF Sound, Kept, Known
<1>4. FetchOK' /\ ApplyOK'
  BY <1>1 DEF FetchOK, ApplyOK
<1>5. PendingOK'
  BY <1>1, <1>2 DEF Sound, PendingOK, Kept, fwVars
<1>6. BoardOK'
  BY <1>1, <1>2 DEF Sound, BoardOK, Kept, fwVars
<1>7. QED
  BY <1>3, <1>4, <1>5, <1>6 DEF Sound

LEMMA CommandStart ==
  ASSUME Shape, EditorOK, Reload \/ Apply("apply") \/ Apply("persist")
  PROVE  EditorOK'
<1>1. /\ host.pc = "prompt" /\ UNCHANGED <<flash, ram, toFw, up, ed, ghost>>
      /\ host.cmd \notin Scripts /\ ed \in Editors
      /\ \/ host'.pc = "page" /\ host'.got = <<>>
         \/ /\ host'.pc = "slots" /\ DOMAIN host'.plan = ed.dirty /\ host'.periph = ed.periph
            /\ \A s \in ed.dirty : host'.plan[s] = BySlot(ed.rows, s)
         \/ host'.pc = "put" /\ ed.dirty = {} /\ ed.pdirty /\ host'.periph = ed.periph
         \/ host'.pc = "save" /\ ed.dirty = {} /\ ~ed.pdirty
  <2>1. host.pc = "prompt" => host.cmd \notin Scripts
    BY DEF Shape, ScriptOK
  <2>2. ed \in Editors
    BY DEF Shape, TypeOK
  <2>3. CASE Reload
    BY <2>1, <2>2, <2>3, ReloadStep DEF fwVars
  <2>4. CASE Apply("apply")
    BY <2>1, <2>2, <2>4, ApplyStep DEF fwVars
  <2>5. CASE Apply("persist")
    BY <2>1, <2>2, <2>5, ApplyStep DEF fwVars
  <2>6. QED
    BY <2>3, <2>4, <2>5
<1> SUFFICES ASSUME AtWork' PROVE Sound'
  BY EditorIs DEF AtWork, EditorOK, Sound
<1>2. Sound
  BY <1>1, EditorIs DEF AtWork
<1>3. Known /\ Known'
  BY <1>1, <1>2 DEF Sound, Known
<1>4. FetchOK'
  BY <1>1 DEF FetchOK, InPlace
<1>5. ApplyOK'
  <2>1. \A s \in ed.dirty : BySlot(ed.rows, s) = RowOf(ed.rows[s + 1])
    BY <1>1, <1>3, RowInPlace DEF Known, Editors
  <2>2. QED
    BY <1>1, <2>1 DEF ApplyOK
<1>6. PendingOK'
  BY <1>1, <1>2 DEF Sound, PendingOK
<1>7. BoardOK'
  BY <1>1, <1>2 DEF Sound, BoardOK
<1>8. QED
  BY <1>3, <1>4, <1>5, <1>6, <1>7 DEF Sound

LEMMA LaunchEditor ==
  ASSUME Shape, Leave \/ Launch
  PROVE  EditorOK'
<1>1. CASE Leave
  <2>1. host'.pc = "gone"
    BY <1>1, LeaveStep
  <2>2. QED
    BY <2>1 DEF EditorOK
<1>2. CASE Launch
  <2>1. /\ ghost'.torn = Slots \cup {Block} /\ ed' = NoEditor /\ toFw' = toFw
        /\ host'.cmd # "load" => host'.cmd \in Scripts
        /\ host'.cmd = "load" => host'.pc = "page" /\ host'.got = <<>>
    <3>1. ghost' = [ghost EXCEPT !.torn = Slots \cup {Block}, !.mixed = FALSE]
      BY <1>2, LaunchStep
    <3>2. ghost'.torn = Slots \cup {Block}
      BY <3>1 DEF Shape, TypeOK
    <3>3. QED
      BY <1>2, <3>2, LaunchStep, NotScripts
  <2> SUFFICES ASSUME host'.cmd = "load" PROVE Sound'
    BY <2>1, EditorIs DEF AtWork, EditorOK, Sound
  <2>2. FetchOK' /\ ApplyOK'
    BY <2>1 DEF FetchOK, ApplyOK, InPlace
  <2>3. PendingOK'
    <3>1. \A i \in DOMAIN toFw : toFw[i] \in Requests
      BY DEF Shape, TypeOK
    <3>2. QED
      BY <2>1, <3>1 DEF PendingOK, Requests
  <2>4. BoardOK'
    BY <2>1 DEF BoardOK
  <2>5. QED
    BY <2>1, <2>2, <2>3, <2>4 DEF Sound
<1>3. QED
  BY <1>1, <1>2

-----------------------------------------------------------------------------
(* What the replies make of it.                                            *)

(* A reply that is not old is to the request, and nothing is under way     *)
(* behind it.                                                              *)
LEMMA ReplyTells ==
  ASSUME Shape, ExchangeOK, ExchangeRaw, ~Head(reader).old
  PROVE  toFw = <<>> /\ staged = NoReply /\ Tells(Head(reader))
<1>1. host.waiting /\ reader # <<>> /\ reader \in Seq(Replies)
  BY ExchangeIs DEF Shape, TypeOK
<1>2. 1 \in DOMAIN reader /\ Head(reader) = reader[1]
  BY <1>1
<1>3. QED
  BY <1>1, <1>2 DEF ExchangeOK

LEMMA PageEditor ==
  ASSUME Shape, Sound, host.cmd \notin Scripts, NEW r \in Replies, up, UNCHANGED <<ram, up>>,
         toFw = <<>>, toFw' = <<>>, Tells(r), host.pc = "page", PageTaken(r),
         ghost'.torn = ghost.torn \ Cleared(r)
  PROVE  Sound'
<1> DEFINE got == host.got \o Rows(r.page)
<1>1. /\ host.cmd = "load" /\ TypeOK /\ ScriptOK /\ ram \in Image /\ host.start \in Nat
      /\ host.start = Len(host.got) /\ host.start <= TopSlot /\ host.got \in Seq(Shown)
      /\ TopSlot \in Nat
  BY OwnCommands, CfgAssumption DEF Shape, TypeOK, Hosts, ScriptOK
<1>2. /\ got \in Seq(Shown) /\ Len(got) = Len(host.got) + Len(r.page)
      /\ host'.cmd = host.cmd /\ host'.got = got
      /\ host'.pc = IF Len(got) > TopSlot THEN "periph" ELSE "page"
      /\ host'.pc = "periph" /\ host.cmd = "load" =>
           /\ ed'.rows \in Sorted(got) /\ ed'.dirty = {}
           /\ ed'.base = [s \in Listed(ed'.rows) |-> BySlot(ed'.rows, s)]
           /\ ed'.periph = ed.periph /\ ed'.pdirty = ed.pdirty
      /\ ~(host'.pc = "periph" /\ host.cmd = "load") => ed' = ed
  BY PageStep
<1>3. r.page = Page(ram, host.start)
  BY <1>1, RequestSays DEF Tells
<1>4. /\ r.page \in Seq(Entry)
      /\ \A i \in DOMAIN r.page :
            r.page[i].slot = host.start + (i - 1) /\ Runs(ram.rows[host.start + (i - 1)], r.page[i])
      /\ host.start + Len(r.page) <= TopSlot + 1 \/ Len(r.page) = 0
  <2> DEFINE T == Entry
             p == Page(ram, host.start)
  <2>1. /\ p \in Seq(T)
        /\ \A i \in DOMAIN p :
              p[i].slot = host.start + (i - 1) /\ Runs(ram.rows[host.start + (i - 1)], p[i])
        /\ host.start + Len(p) <= TopSlot + 1 \/ Len(p) = 0
    <3>1. ram \in Image /\ host.start \in Nat
      BY <1>1
    <3>2. p \in Seq(T) /\ (host.start + Len(p) <= TopSlot + 1 \/ Len(p) = 0)
      BY <3>1, PageIs
    <3>3. \A i \in DOMAIN p :
            p[i].slot = host.start + (i - 1) /\ Runs(ram.rows[host.start + (i - 1)], p[i])
      BY <3>1, PageIs
    <3>4. QED
      BY <3>2, <3>3
  <2>2. r.page = p
    BY <1>3
  <2> HIDE DEF p, T
  <2>3. /\ r.page \in Seq(T)
        /\ \A i \in DOMAIN r.page :
              r.page[i].slot = host.start + (i - 1) /\ Runs(ram.rows[host.start + (i - 1)], r.page[i])
        /\ host.start + Len(r.page) <= TopSlot + 1 \/ Len(r.page) = 0
    BY <2>1, <2>2
  <2>4. QED
    BY <2>3 DEF T
<1>5. Rows(r.page) \in Seq(Shown) /\ Len(Rows(r.page)) = Len(r.page)
      /\ \A i \in DOMAIN r.page : Rows(r.page)[i].slot = r.page[i].slot /\ \A x : Runs(x, r.page[i]) => Runs(x, Rows(r.page)[i])
  BY <1>4, RowsAre
<1>14. PICK a \in Nat, b \in Nat : a = Len(host.got) /\ b = Len(r.page) /\ DOMAIN r.page = 1 .. b
  <2>1. Len(host.got) \in Nat
    BY <1>1
  <2>2. Len(Rows(r.page)) \in Nat
    BY <1>5
  <2> DEFINE T == Entry
  <2> HIDE DEF T
  <2>3. r.page \in Seq(T)
    BY <1>4 DEF T
  <2>4. DOMAIN r.page = 1 .. Len(r.page)
    BY <2>3
  <2>5. QED
    BY <1>5, <2>1, <2>2, <2>4
<1>15. Len(got) = a + b
  BY <1>2, <1>14
<1>6. /\ InPlace(host.got) /\ \A i \in DOMAIN host.got : Runs(ram.rows[i - 1], host.got[i])
  BY DEF Sound, FetchOK
<1>7. \A i \in 1 .. Len(got) : got[i].slot = i - 1 /\ Runs(ram.rows[i - 1], got[i])
  <2> TAKE i \in 1 .. Len(got)
  <2>1. Len(host.got) \in Nat /\ Len(r.page) \in Nat /\ i \in Int /\ 1 <= i
        /\ i <= Len(host.got) + Len(r.page)
    <3>1. i \in 1 .. (a + b)
      BY <1>15
    <3>2. i \in Int /\ 1 <= i /\ i <= a + b
      BY <3>1
    <3>3. QED
      BY <1>14, <3>2
  <2>2. CASE i <= Len(host.got)
    <3>1. i \in DOMAIN host.got /\ got[i] = host.got[i]
      BY <1>1, <1>5, <2>1, <2>2, Joined
    <3>2. QED
      BY <1>6, <3>1 DEF InPlace
  <2>3. CASE i > Len(host.got)
    <3>1. i - Len(host.got) \in DOMAIN r.page
      <4>1. i <= a + b /\ i > a /\ i \in Int
        BY <1>14, <2>1, <2>3
      <4>2. i - a \in 1 .. b
        BY <4>1
      <4>3. QED
        BY <1>14, <4>2
    <3>2. got[i] = Rows(r.page)[i - Len(host.got)]
      BY <1>1, <1>5, <2>1, <2>3, Joined
    <3>3. host.start + ((i - Len(host.got)) - 1) = i - 1
      BY <1>1, <2>1
    <3>4. PICK k \in DOMAIN r.page : k = i - Len(host.got)
      BY <3>1
    <3>5. got[i].slot = r.page[k].slot /\ \A x : Runs(x, r.page[k]) => Runs(x, got[i])
      BY <1>5, <3>2, <3>4
    <3>6. host.start + (k - 1) = i - 1
      BY <3>3, <3>4
    <3>7. r.page[k].slot = host.start + (k - 1) /\ Runs(ram.rows[host.start + (k - 1)], r.page[k])
      BY <1>4
    <3>8. QED
      BY <3>5, <3>6, <3>7
  <2>4. QED
    BY <2>1, <2>2, <2>3
<1> HIDE DEF got
<1>8. InPlace(got) /\ Len(got) \in Nat /\ DOMAIN got = 1 .. Len(got)
  <2>1. got \in Seq(Shown)
    BY <1>2
  <2>2. Len(got) \in Nat /\ DOMAIN got = 1 .. Len(got)
    BY <2>1
  <2>3. QED
    BY <1>7, <2>2 DEF InPlace
<1>9. PendingOK'
  BY DEF PendingOK
<1>10. CASE Len(got) > TopSlot
  <2>1. Len(got) = TopSlot + 1
    <3>1. a <= TopSlot /\ (a + b <= TopSlot + 1 \/ b = 0) /\ a + b > TopSlot
      BY <1>1, <1>4, <1>10, <1>14, <1>15
    <3>2. a + b = TopSlot + 1
      BY <1>1, <3>1
    <3>3. QED
      BY <1>15, <3>2
  <2>2. host'.pc = "periph" /\ ed'.rows = got /\ ed'.dirty = {}
        /\ ed'.base = [s \in Listed(got) |-> BySlot(got, s)]
        /\ ed'.periph = ed.periph /\ ed'.pdirty = ed.pdirty
    BY <1>1, <1>2, <1>8, <1>10, SortedInPlace
  <2>3. \A s \in Slots : /\ RowOf(got[s + 1]) = ed'.base[s] /\ Runs(ram.rows[s], ed'.base[s])
    <3> TAKE s \in Slots
    <3>1. s \in Listed(got) /\ BySlot(got, s) = RowOf(got[s + 1]) /\ s + 1 \in DOMAIN got
      BY <1>2, <1>8, <2>1, RowInPlace
    <3>2. Runs(ram.rows[s], got[s + 1])
      <4>1. (s + 1) - 1 = s
        BY <1>1 DEF Slots
      <4>2. QED
        BY <1>7, <1>8, <3>1, <4>1
    <3>3. QED
      BY <2>2, <3>1, <3>2, RunsRowOf
  <2>4. Known'
    BY <1>8, <2>1, <2>2, <2>3 DEF Known
  <2>5. FetchOK' /\ ApplyOK'
    BY <2>2 DEF FetchOK, ApplyOK
  <2>6. Block \in ghost'.torn <=> Block \in ghost.torn
    <3>1. Cleared(r) = Slots
      BY <1>2, <1>10, <2>1 DEF Cleared
    <3>2. Block \notin Slots
      BY <1>1 DEF Block, Slots
    <3>3. QED
      BY <3>1, <3>2
  <2>7. BoardOK'
    BY <2>2, <2>3, <2>6 DEF Sound, BoardOK
  <2>8. QED
    BY <1>9, <2>4, <2>5, <2>7 DEF Sound
<1>11. CASE ~(Len(got) > TopSlot)
  <2>1. host'.pc = "page" /\ ed' = ed
    BY <1>2, <1>11
  <2>2. ghost'.torn = ghost.torn
    <3>1. Cleared(r) = {}
      <4>1. ~(Len(host.got) + Len(r.page) > TopSlot)
        BY <1>2, <1>11
      <4>2. QED
        BY <4>1 DEF Cleared
    <3>2. QED
      BY <3>1
  <2>3. Known' \/ (host'.pc = "page" /\ Slots \subseteq ghost'.torn)
    BY <2>1, <2>2 DEF Sound, Known
  <2>4. FetchOK'
    <3>1. host'.got = got /\ \A i \in DOMAIN got : Runs(ram.rows[i - 1], got[i])
      BY <1>2, <1>7, <1>8
    <3>2. \A i \in DOMAIN toFw' : toFw'[i].op = "get"
      OBVIOUS
    <3>3. QED
      BY <1>8, <3>1, <3>2 DEF FetchOK
  <2>5. ApplyOK'
    BY <2>1 DEF ApplyOK
  <2>6. BoardOK'
    BY <2>1, <2>2 DEF Sound, BoardOK
  <2>7. QED
    BY <1>9, <2>3, <2>4, <2>5, <2>6 DEF Sound
<1>12. QED
  BY <1>10, <1>11

LEMMA PeriphEditor ==
  ASSUME Shape, Sound, host.cmd \notin Scripts, NEW r \in Replies, up, UNCHANGED <<ram, up>>,
         toFw' = <<>>, Tells(r), host.pc = "periph", PeriphTaken(r),
         ghost'.torn = ghost.torn \ Cleared(r)
  PROVE  Sound'
<1>1. TypeOK /\ ScriptOK /\ host.cmd = "load" /\ ed \in Editors
  BY OwnCommands DEF Shape, TypeOK
<1>2. host'.pc = "prompt" /\ ed' = [ed EXCEPT !.periph = r.periph, !.pdirty = FALSE]
  BY <1>1, PeriphStep
<1>3. r.periph = ram.periph
  BY <1>1, RequestSays DEF Tells
<1>4. ed'.rows = ed.rows /\ ed'.base = ed.base /\ ed'.dirty = ed.dirty
      /\ ram.periph = Settled(ed'.periph)
  <2>1. ed'.rows = ed.rows /\ ed'.base = ed.base /\ ed'.dirty = ed.dirty /\ ed'.periph = ram.periph
    BY <1>1, <1>2, <1>3 DEF Editors
  <2>2. ram.periph \in Stock
    BY <1>1 DEF TypeOK, Image
  <2>3. QED
    BY <2>1, <2>2, SettledIs, BoardTypes
<1>5. Cleared(r) = {Block} /\ Block \notin Slots
  BY CfgAssumption DEF Cleared, Block, Slots
<1>6. Known'
  BY <1>4 DEF Sound, Known
<1>7. FetchOK' /\ ApplyOK' /\ PendingOK'
  BY <1>2 DEF FetchOK, ApplyOK, PendingOK
<1>8. BoardOK'
  BY <1>2, <1>4, <1>5 DEF Sound, BoardOK
<1>9. QED
  BY <1>6, <1>7, <1>8 DEF Sound

LEMMA PutEditor ==
  ASSUME Shape, Sound, host.cmd \notin Scripts, NEW r \in Replies, up, UNCHANGED <<ram, up>>,
         toFw' = <<>>, Tells(r), host.pc = "put", PutTaken, ghost'.torn = ghost.torn
  PROVE  Sound'
<1>1. TypeOK /\ ScriptOK /\ ed \in Editors
  BY DEF Shape, TypeOK
<1>2. /\ host'.pc = AfterPut /\ ed'.pdirty = FALSE
      /\ ed'.rows = ed.rows /\ ed'.base = ed.base /\ ed'.dirty = ed.dirty /\ ed'.periph = ed.periph
  BY PutStep
<1>3. ram.periph = Settled(host.periph)
  BY <1>1, RequestSays DEF Tells
<1>4. host.periph = ed.periph /\ ed.dirty = {}
  BY DEF Sound, ApplyOK
<1>5. host'.pc \in {"save", "prompt", "gone"}
  BY <1>2, AfterTypes
<1>6. Known'
  BY <1>2 DEF Sound, Known
<1>7. FetchOK' /\ ApplyOK' /\ PendingOK'
  BY <1>2, <1>4, <1>5 DEF FetchOK, ApplyOK, PendingOK
<1>8. BoardOK'
  BY <1>2, <1>3, <1>4, <1>5 DEF Sound, BoardOK
<1>9. QED
  BY <1>6, <1>7, <1>8 DEF Sound

LEMMA SaveEditor ==
  ASSUME Shape, Sound, host.cmd \notin Scripts, UNCHANGED <<ram, up>>,
         toFw' = <<>>, host.pc = "save", SaveTaken, ghost'.torn = ghost.torn
  PROVE  Sound'
<1>1. host'.pc = AfterSave /\ ed' = ed
  BY SaveStep
<1>2. host'.pc \in {"prompt", "gone"}
  BY <1>1, AfterTypes
<1>3. Known' /\ FetchOK' /\ ApplyOK' /\ PendingOK'
  BY <1>1, <1>2 DEF Sound, Known, FetchOK, ApplyOK, PendingOK
<1>4. BoardOK'
  BY <1>1, <1>2 DEF Sound, BoardOK
<1>5. QED
  BY <1>3, <1>4 DEF Sound

(* A slot that has been set is on the board as the editor shows it.        *)
LEMMA SlotEditor ==
  ASSUME Shape, Sound, host.cmd \notin Scripts, NEW r \in Replies, up, UNCHANGED <<ram, up>>,
         toFw' = <<>>, Tells(r), host.pc = "slots", SlotTaken,
         ghost'.torn = ghost.torn \ Cleared(r)
  PROVE  Sound'
<1> DEFINE n == NextSlot
<1>1. TypeOK /\ ScriptOK /\ ed \in Editors /\ ed.rows \in Seq(Shown) /\ ed.dirty \subseteq Slots
      /\ DOMAIN ed.base = Listed(ed.rows)
  BY DEF Shape, TypeOK, Editors, ListOK
<1>2. n \in DOMAIN host.plan /\ n \in Slots /\ Cleared(r) = {n}
  BY <1>1, NextIs DEF Cleared
<1>3. ram.rows[n] = TakenRow(host.plan[n])
  BY <1>1, RequestSays DEF Tells
<1> HIDE DEF n
<1>4. /\ DOMAIN host.plan \subseteq ed.dirty /\ host.periph = ed.periph
      /\ \A s \in DOMAIN host.plan : host.plan[s] = RowOf(ed.rows[s + 1])
  BY DEF Sound, ApplyOK
<1>5. Runs(ram.rows[n], ed.rows[n + 1])
  <2>1. host.plan[n] = RowOf(ed.rows[n + 1]) /\ host.plan[n] \in Typed
    BY <1>1, <1>2, <1>4, NextIs DEF n
  <2>2. Runs(ram.rows[n], RowOf(ed.rows[n + 1]))
    BY <1>3, <2>1, TakenIs
  <2>3. QED
    BY <2>2, RunsRowOf
<1>6. /\ host'.cmd = host.cmd /\ host'.periph = host.periph
      /\ DOMAIN host'.plan = DOMAIN host.plan \ {n}
      /\ \A t \in DOMAIN host'.plan : host'.plan[t] = host.plan[t]
      /\ DOMAIN host'.plan # {} => host'.pc = "slots" /\ ed' = ed
      /\ DOMAIN host'.plan = {} =>
           /\ host'.pc = AfterSlots
           /\ ed'.rows = ed.rows /\ ed'.periph = ed.periph /\ ed'.pdirty = ed.pdirty
           /\ ed'.dirty = {} /\ DOMAIN ed'.base = DOMAIN ed.base
           /\ \A t \in DOMAIN ed.base :
                ed'.base[t] = IF t \in ed.dirty THEN RowKey(ed.rows, t) ELSE ed.base[t]
  BY SlotStep DEF n
<1>7. Known
  BY DEF Sound
<1>8. /\ \A s \in Slots \ ghost.torn : s \in ed.dirty \/ Runs(ram.rows[s], ed.base[s])
      /\ \A s \in ed.dirty \ DOMAIN host.plan : s \notin ghost.torn /\ Runs(ram.rows[s], ed.rows[s + 1])
      /\ ~ed.pdirty /\ Block \notin ghost.torn => ram.periph = Settled(ed.periph)
  BY DEF Sound, BoardOK
<1>9. ghost'.torn = ghost.torn \ {n} /\ Block # n
  BY <1>2, CfgAssumption DEF Block, Slots
<1>10. PendingOK'
  BY DEF PendingOK
<1>11. CASE DOMAIN host'.plan # {}
  <2>1. host'.pc = "slots" /\ ed' = ed
    BY <1>6, <1>11
  <2>2. Known' /\ FetchOK'
    BY <1>7, <2>1 DEF Known, FetchOK
  <2>3. ApplyOK'
    BY <1>4, <1>6, <2>1 DEF ApplyOK
  <2>4. BoardOK'
    BY <1>2, <1>4, <1>5, <1>6, <1>8, <1>9, <2>1 DEF BoardOK
  <2>5. QED
    BY <1>10, <2>2, <2>3, <2>4 DEF Sound
<1>12. CASE DOMAIN host'.plan = {}
  <2>1. /\ host'.pc = AfterSlots
        /\ ed'.rows = ed.rows /\ ed'.periph = ed.periph /\ ed'.pdirty = ed.pdirty
        /\ ed'.dirty = {} /\ DOMAIN ed'.base = DOMAIN ed.base
        /\ \A t \in DOMAIN ed.base :
             ed'.base[t] = IF t \in ed.dirty THEN RowKey(ed.rows, t) ELSE ed.base[t]
    BY <1>6, <1>12
  <2>2. \A s \in Slots : s \in DOMAIN ed.base /\ RowKey(ed.rows, s) = RowOf(ed.rows[s + 1])
    BY <1>1, <1>7, RowInPlace DEF Known
  <2>3. \A s \in Slots : ed'.base[s] = IF s \in ed.dirty THEN RowOf(ed.rows[s + 1]) ELSE ed.base[s]
    BY <2>1, <2>2
  <2>4. Known'
    BY <1>7, <2>1, <2>3 DEF Known
  <2>5. \/ host'.pc \in {"prompt", "gone"}
        \/ host'.pc = "put" /\ ed.pdirty
        \/ host'.pc = "save" /\ ~ed.pdirty
    <3>1. host.cmd \in {"apply", "persist"}
      BY <1>1, OwnCommands DEF ScriptOK
    <3>2. QED
      BY <2>1, <3>1 DEF AfterSlots, AfterPut
  <2>6. FetchOK' /\ ApplyOK'
    BY <1>4, <1>6, <2>1, <2>5 DEF FetchOK, ApplyOK
  <2>7. ASSUME NEW s \in Slots \ ghost'.torn PROVE Runs(ram.rows[s], ed'.base[s])
    <3>1. CASE s = n
      <4>1. s \in ed.dirty /\ ed'.base[s] = RowOf(ed.rows[s + 1])
        BY <1>2, <1>4, <2>3, <3>1
      <4>2. QED
        BY <1>5, <3>1, <4>1, RunsRowOf
    <3>2. CASE s # n /\ s \in ed.dirty
      <4>1. s \notin DOMAIN host.plan
        BY <1>6, <1>12, <3>2
      <4>2. QED
        BY <1>8, <2>3, <3>2, <4>1, RunsRowOf
    <3>3. CASE s # n /\ s \notin ed.dirty
      BY <1>8, <1>9, <2>3, <3>3
    <3>4. QED
      BY <3>1, <3>2, <3>3
  <2>8. BoardOK'
    BY <1>8, <1>9, <2>1, <2>5, <2>7 DEF BoardOK
  <2>9. QED
    BY <1>10, <2>4, <2>6, <2>8 DEF Sound
<1>13. QED
  BY <1>11, <1>12

LEMMA AnswerEditor ==
  ASSUME Shape, ExchangeOK, EditorOK, ExchangeRaw, NEW r \in Replies, r = Head(reader),
         Answered(r), ghost' = Noted(r)
  PROVE  EditorOK'
<1>1. /\ host.waiting /\ up /\ UNCHANGED <<ram, up, toFw>> /\ TypeOK /\ ScriptOK
  BY ExchangeIs DEF Shape
<1>2. host'.cmd = host.cmd /\ ghost'.mixed = (ghost.mixed \/ r.old)
      /\ ghost'.torn = ghost.torn \ Cleared(r)
  BY <1>1, AnsweredShape DEF Noted
<1>3. host.pc \in {"page", "periph", "slots", "put", "save", "nvm"}
  BY <1>1 DEF ScriptOK, TypeOK, Hosts
<1> SUFFICES ASSUME AtWork' PROVE Sound'
  BY EditorIs DEF AtWork, EditorOK, Sound
<1>4. host.cmd \notin Scripts /\ ~r.old /\ Sound
  BY <1>2, <1>3, EditorIs DEF AtWork
<1>5. toFw = <<>> /\ toFw' = <<>> /\ Tells(r)
  BY <1>1, <1>4, ReplyTells
<1>6. CASE host.pc = "page"
  BY <1>1, <1>2, <1>4, <1>5, <1>6, PageEditor DEF Answered
<1>7. CASE host.pc = "periph"
  BY <1>1, <1>2, <1>4, <1>5, <1>7, PeriphEditor DEF Answered
<1>8. CASE host.pc = "slots"
  BY <1>1, <1>2, <1>4, <1>5, <1>8, SlotEditor DEF Answered
<1>9. CASE host.pc \in {"put", "save"}
  <2>1. ghost'.torn = ghost.torn
    BY <1>2, <1>9 DEF Cleared
  <2>2. CASE host.pc = "put"
    BY <1>1, <1>4, <1>5, <2>1, <2>2, PutEditor DEF Answered
  <2>3. CASE host.pc = "save"
    BY <1>1, <1>4, <1>5, <2>1, <2>3, SaveEditor DEF Answered
  <2>4. QED
    BY <1>9, <2>2, <2>3
<1>10. host.pc # "nvm"
  BY <1>1, <1>4, OwnCommands
<1>11. QED
  BY <1>3, <1>6, <1>7, <1>8, <1>9, <1>10

LEMMA ExchangeKeeps ==
  ASSUME IInv, ExchangeRaw
  PROVE  IInv'
<1> DEFINE r == Head(reader)
<1>1. Shape /\ ExchangeOK /\ SaidOK /\ EditorOK
  BY DEF IInv, Shape
<1>2. ghost'.said \in Claims /\ SaidOK'
  BY ReplySaid
<1>3. Shape' /\ (Matches(r) => host'.waiting = FALSE)
  BY <1>1, <1>2, ExchangeShape
<1>4. ExchangeOK'
  <2>1. CASE Matches(r)
    BY <1>3, <2>1 DEF ExchangeOK
  <2>2. CASE ~Matches(r)
    BY <1>1, <2>2, SkipExchange
  <2>3. QED
    BY <2>1, <2>2
<1>5. /\ host.waiting /\ r \in Replies /\ UNCHANGED <<ram, toFw, up>>
      /\ \/ UNCHANGED <<host, ed, ghost>>
         \/ Answered(r) /\ ghost' = Noted(r)
         \/ Raise
  BY <1>1, ExchangeIs
<1>6. host.pc \notin {"prompt", "gone"}
  BY <1>1, <1>5 DEF Shape, ScriptOK
<1>7. EditorOK'
  <2>1. CASE UNCHANGED <<host, ed, ghost>>
    BY <1>1, <1>5, <2>1 DEF EditorOK, Known, FetchOK, ApplyOK, PendingOK, BoardOK
  <2>2. CASE Answered(r) /\ ghost' = Noted(r)
    BY <1>1, <1>5, <2>2, AnswerEditor
  <2>3. CASE Raise
    BY <1>1, <1>5, <1>6, <2>3, RaiseEditor
  <2>4. QED
    BY <1>5, <2>1, <2>2, <2>3
<1>8. QED
  BY <1>2, <1>3, <1>4, <1>7 DEF IInv, Shape

LEMMA FailureKeeps ==
  ASSUME IInv, Timeout \/ PortGone
  PROVE  IInv'
<1>1. Shape /\ ExchangeOK /\ SaidOK /\ EditorOK
  BY DEF IInv, Shape
<1>2. /\ Shape' /\ host'.waiting = FALSE /\ Raise /\ host.pc \notin {"prompt", "gone"}
      /\ UNCHANGED <<flash, ram, toFw, up>>
  BY <1>1, FailureShape DEF fwVars
<1>3. ExchangeOK'
  BY <1>2 DEF ExchangeOK
<1>4. ghost'.said = ghost.said
  BY <1>1, <1>2 DEF Raise, Shape, TypeOK
<1>5. SaidOK'
  BY <1>1, <1>2, <1>4, SaidSame
<1>6. EditorOK'
  BY <1>1, <1>2, RaiseEditor
<1>7. QED
  BY <1>2, <1>3, <1>5, <1>6 DEF IInv, Shape

LEMMA BoardKeeps ==
  ASSUME IInv, OnCommand \/ FeedbackFill \/ Drop \/ PowerCut
  PROVE  IInv'
<1>1. Shape /\ ExchangeOK /\ SaidOK /\ EditorOK
  BY DEF IInv, Shape
<1>2. Shape'
  BY <1>1, CommandShape, LineShape, CutShape
<1>3. ExchangeOK'
  BY <1>1, CommandExchange, LineExchange, CutExchange
<1>4. SaidOK'
  BY <1>1, FirmwareSaid
<1>5. EditorOK'
  BY <1>1, CommandEditor, LineEditor
<1>6. QED
  BY <1>2, <1>3, <1>4, <1>5 DEF IInv, Shape

LEMMA AskKeeps ==
  ASSUME IInv, Ask
  PROVE  IInv'
<1>1. Shape /\ SaidOK /\ EditorOK
  BY DEF IInv, Shape
<1>2. Shape' /\ ExchangeOK' /\ SaidOK' /\ EditorOK'
  BY <1>1, AskShape, AskExchange, AskSaid, AskEditor
<1>3. QED
  BY <1>2 DEF IInv, Shape

LEMMA UserKeeps ==
  ASSUME IInv, User
  PROVE  IInv'
<1>1. Shape /\ SaidOK /\ EditorOK
  BY DEF IInv, Shape
<1>2. CASE Editing
  <2>1. host.pc = "prompt" /\ UNCHANGED <<fwVars, host, ghost>>
    BY <1>1, <1>2, EditingKeeps
  <2>2. ~host'.waiting
    BY <1>1, <2>1 DEF Shape, ScriptOK
  <2>3. ExchangeOK'
    BY <2>2 DEF ExchangeOK
  <2>4. SaidOK'
    BY <1>1, <2>1, SaidSame DEF fwVars
  <2>5. Shape' /\ EditorOK'
    BY <1>1, <1>2, EditingShape, EditingEditor
  <2>6. QED
    BY <2>3, <2>4, <2>5 DEF IInv, Shape
<1>3. CASE Reload \/ Apply("apply") \/ Apply("persist") \/ Leave \/ Launch
  <2>1. Shape'
    BY <1>1, <1>3, UserShape
  <2>2. EditorOK'
    BY <1>1, <1>3, CommandStart, LaunchEditor
  <2>3. ~host'.waiting /\ UNCHANGED <<flash, toFw>> /\ ghost'.said = ghost.said
    <3>1. CASE Reload
      BY <1>1, <3>1, ReloadStep DEF fwVars
    <3>2. CASE Apply("apply")
      BY <1>1, <3>2, ApplyStep DEF fwVars
    <3>3. CASE Apply("persist")
      BY <1>1, <3>3, ApplyStep DEF fwVars
    <3>4. CASE Leave
      BY <1>1, <3>4, LeaveStep DEF fwVars, Shape, ScriptOK
    <3>5. CASE Launch
      <4>1. ghost' = [ghost EXCEPT !.torn = Slots \cup {Block}, !.mixed = FALSE]
        BY <1>1, <3>5, LaunchStep
      <4>2. ghost'.said = ghost.said
        BY <1>1, <4>1 DEF Shape, TypeOK
      <4>3. QED
        BY <1>1, <3>5, <4>2, LaunchStep
    <3>6. QED
      BY <1>3, <3>1, <3>2, <3>3, <3>4, <3>5
  <2>4. ExchangeOK'
    BY <2>3 DEF ExchangeOK
  <2>5. SaidOK'
    BY <1>1, <2>3, SaidSame
  <2>6. QED
    BY <2>1, <2>2, <2>4, <2>5 DEF IInv, Shape
<1>4. QED
  BY <1>2, <1>3 DEF User

LEMMA InitInvariant ==
  ASSUME Init
  PROVE  IInv
<1>1. Shape
  BY InitShape
<1>2. ExchangeOK /\ EditorOK
  BY DEF Init, Fresh, Begin, ExchangeOK, EditorOK
<1>3. SaidOK
  BY DEF Init, SaidOK, SavedSurvives
<1>4. QED
  BY <1>1, <1>2, <1>3 DEF IInv, Shape

LEMMA NextInvariant ==
  ASSUME IInv, [Next]_vars
  PROVE  IInv'
<1>1. CASE Ask
  BY <1>1, AskKeeps
<1>2. CASE ExchangeRaw
  BY <1>2, ExchangeKeeps
<1>3. CASE Timeout \/ PortGone
  BY <1>3, FailureKeeps
<1>4. CASE OnCommand \/ FeedbackFill \/ Drop \/ PowerCut
  BY <1>4, BoardKeeps
<1>5. CASE User
  BY <1>5, UserKeeps
<1>6. CASE UNCHANGED vars
  <2>1. UNCHANGED <<flash, ram, toFw, staged, reader, up, host, ed, ghost, used>>
    BY <1>6 DEF vars, fwVars
  <2>2. Request' = Request /\ NextSlot' = NextSlot
    BY <2>1, SameRequest
  <2>3. TypeOK' /\ LinkOK' /\ ScriptOK' /\ ListOK'
    BY <2>1 DEF IInv, TypeOK, LinkOK, ScriptOK, ListOK
  <2>4. ExchangeOK'
    BY <2>1, <2>2 DEF IInv, ExchangeOK, Tells
  <2>5. SaidOK'
    BY <2>1, SaidSame DEF IInv
  <2>6. EditorOK'
    BY <2>1 DEF IInv, EditorOK, Known, FetchOK, ApplyOK, PendingOK, BoardOK
  <2>7. QED
    BY <2>3, <2>4, <2>5, <2>6 DEF IInv
<1>7. QED
  BY <1>1, <1>2, <1>3, <1>4, <1>5, <1>6 DEF Next, Host, Firmware

-----------------------------------------------------------------------------
(* The theorems.                                                           *)

(* Whatever is edited, applied, lost, late, retried or cut, the exchange   *)
(* at work knows what its reply can tell, and the editor what it has       *)
(* applied (exchange_cfg, run_cfg_editor).                                 *)
THEOREM EditorInvariant == Spec => []IInv
<1>1. Init => IInv
  BY InitInvariant
<1>2. IInv /\ [Next]_vars => IInv'
  BY NextInvariant
<1>3. QED
  BY <1>1, <1>2, PTL DEF Spec

(* A row the editor shows clean is what the board runs, and so is a block: *)
(* as the board takes it, when the user typed what it has not, and but for *)
(* what an apply that failed was about and once a reply to an older        *)
(* request has been taken (run_cfg_editor).                                *)
THEOREM CleanIsApplied == Spec => []CleanMeansApplied
<1>1. IInv => CleanMeansApplied
  <2> SUFFICES ASSUME IInv, AtPrompt PROVE
        /\ \A s \in Slots \ (ed.dirty \cup ghost.torn) :
              Runs(ram.rows[s], RowKey(ed.rows, s))
        /\ ~ed.pdirty /\ Block \notin ghost.torn => ram.periph = Settled(ed.periph)
    BY DEF CleanMeansApplied
  <2>1. host.pc = "prompt" /\ up /\ ~ghost.mixed /\ ed.rows \in Seq(Shown)
    BY DEF AtPrompt, IInv, TypeOK, Editors
  <2>2. Known /\ BoardOK
    BY <2>1 DEF IInv, EditorOK, ScriptOK
  <2>3. ASSUME NEW s \in Slots \ (ed.dirty \cup ghost.torn)
        PROVE  Runs(ram.rows[s], RowKey(ed.rows, s))
    <3>1. RowKey(ed.rows, s) = RowOf(ed.rows[s + 1])
      BY <2>1, <2>2, RowInPlace DEF Known
    <3>2. RowKey(ed.rows, s) = ed.base[s]
      BY <2>2, <3>1 DEF Known
    <3>3. QED
      BY <2>1, <2>2, <3>2 DEF BoardOK
  <2>4. QED
    BY <2>1, <2>2, <2>3 DEF BoardOK
<1>2. QED
  BY <1>1, EditorInvariant, PTL

(* "NVM SAVE ok (full v2 image)" is true until the next SAVE, whatever     *)
(* happens in between, if nothing was in doubt when it was said: no apply  *)
(* that failed halfway, no reply to an older request taken, and an OK that *)
(* answers the last attempt (save_nvm, plant_config_nvm_load).             *)
THEOREM SavesSurvive == Spec => []SavedSurvives
<1>1. IInv => SavedSurvives
  BY DEF IInv, SaidOK
<1>2. QED
  BY <1>1, EditorInvariant, PTL

(* After a power cut the board starts with its defaults or with an image   *)
(* that is whole (nvm_image_v2_valid).                                     *)
THEOREM BootsAreWhole == Spec => BootsWhole
<1>1. IInv /\ [Next]_vars => [up /\ ~up' => ram' \in {Factory, Stored(ram), flash.tail}]_vars
  <2> SUFFICES ASSUME IInv, Next, up, ~up'
               PROVE  ram' \in {Factory, Stored(ram), flash.tail}
    BY DEF vars, fwVars
  <2>1. PowerCut
    BY DEF Next, Host, Firmware, User, Ask, ExchangeRaw, Timeout, PortGone, OnCommand, FeedbackFill,
           Drop, fwVars, Editing, Toggle, EditSlot, EditNeck, EditLed, EditListen, ActuatorPreset, LedPreset,
           ApplyGen2All, Edits, Reload, Apply, Prompted, Leave, Launch
  <2>2. flash' \in Pages /\ (flash' = flash \/ ~Valid(flash'))
    BY <2>1, CutPage DEF IInv
  <2>3. ram' = Booted(flash', Factory)
    BY <2>1 DEF PowerCut
  <2>4. CASE Valid(flash')
    BY <2>2, <2>3, <2>4, BootedIs, Constants
  <2>5. CASE ~Valid(flash')
    BY <2>2, <2>3, <2>5, BootedIs, Constants
  <2>6. QED
    BY <2>4, <2>5
<1>2. QED
  BY <1>1, EditorInvariant, PTL DEF Spec, BootsWhole
=============================================================================
