------------------------------ MODULE CfgEditor ------------------------------
(***************************************************************************)
(* The configuration of the board: the actuator table and the peripheral    *)
(* block the firmware keeps in RAM and in one page of flash                 *)
(* (plant_config_nvm.c), read, edited, applied and saved from the host      *)
(* (debug/config.py) by the interactive editor (debug/suite/cfg_editor.py,  *)
(* presets.py) and by scripts.                                              *)
(*                                                                         *)
(* The host makes one exchange at a time: drain, write a request, pop       *)
(* frames until one names the same op, or a timeout.  A reply names neither *)
(* the slot nor the exchange it answers; the flag old, set on what is still *)
(* about when a later request is written, is a ghost.                       *)
(*                                                                         *)
(* A row is what two rows can differ in here: enabled; the drive, that is   *)
(* bus and protocol, "odd" when the user typed a bus and a protocol the     *)
(* board has not; and the master id of a Damiao drive, which GET does not   *)
(* carry and flash does not keep.  Of the LED defaults the count matters,   *)
(* "odd" when it is above the length of the strip.                          *)
(***************************************************************************)
EXTENDS Integers, Sequences, FiniteSets, FiniteSetsExt, Functions

CONSTANTS
    TopSlot,       \* slots are 0 .. TopSlot (25 in the code)
    PageSize,   \* slots in the reply to a GET (8 in the code)
    Retries,    \* attempts of save_nvm (3 in the code)
    Scripts,    \* what scripts do besides the editor
    MaxEdits, MaxOps, MaxFaults, MaxCuts   \* bounds of used

ASSUME CfgAssumption ==
    /\ TopSlot \in Nat /\ PageSize \in Nat \ {0} /\ Retries \in Nat \ {0}
    /\ Scripts \subseteq {"set", "load_nvm", "copy"}
    /\ {MaxEdits, MaxOps, MaxFaults, MaxCuts} \subseteq Nat

VARIABLES
    flash,     \* the two halves of the page
    ram,       \* live configuration: rows and periph
    toFw,      \* requests on their way to the firmware
    staged,    \* the one response the firmware holds ready, or none
    reader,    \* received frames nobody has popped yet
    up,        \* the USB link stands
    host,      \* the exchange in progress, and what for
    ed,        \* what the editor shows, and what it takes for applied
    ghost,     \* torn: what an exchange that failed may have changed on the
               \* board; mixed: a reply to an older request was taken; said:
               \* what the editor showed when it said it was saved
    used       \* bounds: edits, commands, losses, early timeouts, power cuts

fwVars == <<flash, ram, toFw, staged, reader, up>>
vars   == <<fwVars, host, ed, ghost, used>>

Slots  == 0 .. TopSlot
Block  == TopSlot + 1       \* stands for the peripheral block in torn
Drives  == {"robstride", "damiao", "none"}     \* on a bus the board has
Masters == {"auto", "own", "zero"}

\* What the board holds, and what a user may have typed.
Row    == [en : BOOLEAN, drive : Drives, master : Masters]
Stock == [listen : BOOLEAN, servos : {"factory", "edited"}, leds : {"all", "some"}]
Image  == [rows : [Slots -> Row], periph : Stock]
Typed  == [en : BOOLEAN, drive : Drives \cup {"odd"}, master : Masters]
Periph == [listen : BOOLEAN, servos : {"factory", "edited"}, leds : {"all", "some", "odd"}]
Shown  == [slot : Slots, en : BOOLEAN, drive : Drives \cup {"odd"}, master : Masters]
Entry  == [slot : Slots, en : BOOLEAN, drive : Drives]    \* of a page
Plan   == UNION {[slots -> Typed] : slots \in SUBSET Slots}   \* rows of some slots

Factory ==
    [rows   |-> [s \in Slots |-> [en |-> TRUE, drive |-> "robstride", master |-> "zero"]],
     periph |-> [listen |-> FALSE, servos |-> "factory", leds |-> "all"]]

NoReply == [op |-> "none"]
Erased  == [rows |-> "erased"]
NoClaim == [rows |-> "none"]
NoRows  == [s \in {} |-> Factory.rows[s]]
NoEditor ==
    [rows |-> <<>>, base |-> NoRows, dirty |-> {}, periph |-> Factory.periph,
     pdirty |-> FALSE]

Pages    == [head : Image \cup {Erased}, tail : Image \cup {Erased}]
Ops      == {"get", "get_periph", "set", "set_periph", "save", "load"}
Requests == [op : Ops, slot : Slots, row : Typed, periph : Periph, old : BOOLEAN]
Replies  == [op : Ops, ok : BOOLEAN, old : BOOLEAN, periph : Stock,
             page : Seq(Entry)]
Hosts ==
    [cmd : {"load", "apply", "persist"} \cup Scripts,
     pc : {"prompt", "page", "periph", "slots", "put", "save", "nvm", "gone"},
     waiting : BOOLEAN, start : Nat, got : Seq(Shown), plan : Plan,
     periph : Periph, tries : 0 .. Retries]
Editors ==
    [rows : Seq(Shown), base : Plan, dirty : SUBSET Slots, periph : Periph,
     pdirty : BOOLEAN]
Claims == {NoClaim} \cup [rows : [Slots -> Typed], periph : Periph]

TypeOK ==
    /\ ram \in Image /\ flash \in Pages /\ up \in BOOLEAN
    /\ toFw \in Seq(Requests) /\ staged \in Replies \cup {NoReply}
    /\ reader \in Seq(Replies)
    /\ host \in Hosts /\ ed \in Editors
    /\ ghost \in [torn : SUBSET (Slots \cup {Block}), mixed : BOOLEAN, said : Claims]
    /\ used \in [edits : Nat, ops : Nat, lost : Nat, late : Nat, cuts : Nat]

-----------------------------------------------------------------------------
(* The firmware.                                                           *)

\* build_nvm_image, nvm_slots_to_table: the master ids are not part of it.
Stored(config) ==
    [config EXCEPT !.rows =
        [s \in Slots |-> [config.rows[s] EXCEPT !.master =
            IF config.rows[s].drive = "damiao" THEN "auto" ELSE "zero"]]]

\* A bus the board has not becomes CH1, a protocol it does not know NONE; only
\* a Damiao drive keeps its master id.
Accepted(drive) == IF drive = "odd" THEN "none" ELSE drive
TakenRow(row) ==
    [en |-> row.en, drive |-> Accepted(row.drive),
     master |-> IF row.drive = "damiao" THEN row.master ELSE "zero"]

\* An LED count the strip has not becomes the whole strip.
Settled(periph) == [periph EXCEPT !.leds = IF @ = "odd" THEN "all" ELSE @]

ValidMutated(page) == page.head # Erased    \* the magic, not the CRC

\* The magic stands at the head, and the CRC covers the whole image.
Valid(page) == page.head # Erased /\ page.tail = page.head

\* plant_config_nvm_load: RAM becomes the image, or stays as it is.
Booted(page, config) ==
    IF ~Valid(page) THEN config
    ELSE [page.head EXCEPT !.periph =
            IF page.tail = Erased THEN config.periph ELSE page.tail.periph]

Whole(image) == [head |-> image, tail |-> image]

\* What stage_response and plant_config_feedback_fill make of a request: the
\* rows are those of the moment the response is staged.
Page(config, start) ==
    [i \in 1 .. (IF TopSlot + 1 - start < PageSize THEN TopSlot + 1 - start ELSE PageSize) |->
        [slot |-> start + (i - 1), en |-> config.rows[start + (i - 1)].en,
         drive |-> config.rows[start + (i - 1)].drive]]

Response(r, config, ok) ==
    [op |-> r.op, ok |-> ok, old |-> r.old, periph |-> config.periph,
     page |-> IF r.op = "get" THEN Page(config, r.slot) ELSE <<>>]

Read(r) ==
    /\ r.op \in {"get", "get_periph"} /\ UNCHANGED <<ram, flash>>
    /\ staged' = Response(r, ram', TRUE)

Set(r) ==
    /\ r.op = "set" /\ ram' = [ram EXCEPT !.rows[r.slot] = TakenRow(r.row)]
    /\ staged' = Response(r, ram', TRUE) /\ UNCHANGED flash

SetPeriph(r) ==
    /\ r.op = "set_periph" /\ ram' = [ram EXCEPT !.periph = Settled(r.periph)]
    /\ staged' = Response(r, ram', TRUE) /\ UNCHANGED flash

SaveMutated(r) ==    \* the peripheral block is left at its defaults
    /\ r.op = "save"
    /\ flash' = Whole([Stored(ram) EXCEPT !.periph = Factory.periph])
    /\ UNCHANGED ram /\ staged' = Response(r, ram', TRUE)

\* What is in flash when the page is erased and not all of it is programmed.
Remnants(image) == {[head |-> Erased, tail |-> Erased], [head |-> image, tail |-> Erased]}

\* Erase, program and compare, with interrupts off.
Save(r) ==
    /\ r.op = "save" /\ UNCHANGED ram
    /\ \/ flash' = Whole(Stored(ram)) /\ staged' = Response(r, ram', TRUE)
       \/ used.lost + used.late < MaxFaults              \* the flash reports an error
          /\ flash' \in {flash} \cup Remnants(Stored(ram)) /\ staged' = Response(r, ram', FALSE)

Load(r) ==
    /\ r.op = "load" /\ ram' = Booted(flash, ram)
    /\ staged' = Response(r, ram', Valid(flash)) /\ UNCHANGED flash

\* plant_config_on_command; a response nobody has fetched yet is overwritten.
OnCommand ==
    /\ toFw # <<>> /\ toFw' = Tail(toFw)
    /\ LET r == Head(toFw)
       IN  Read(r) \/ Set(r) \/ SetPeriph(r) \/ Save(r) \/ Load(r)
    /\ used' = IF staged'.op = "save" /\ ~staged'.ok
               THEN [used EXCEPT !.lost = @ + 1] ELSE used
    /\ UNCHANGED <<reader, up, host, ed, ghost>>

\* The response leaves in the next debug feedback frame.
FeedbackFill ==
    /\ staged # NoReply /\ staged' = NoReply
    /\ reader' = Append(reader, staged)
    /\ UNCHANGED <<flash, ram, toFw, up, host, ed, ghost, used>>

\* A request that a full ring or a bad CRC costs the firmware.
Drop ==
    /\ toFw # <<>> /\ used.lost + used.late < MaxFaults
    /\ toFw' = Tail(toFw) /\ used' = [used EXCEPT !.lost = @ + 1]
    /\ UNCHANGED <<flash, ram, staged, reader, up, host, ed, ghost>>

\* Power fails, at worst between the erase and the last programmed word.  The
\* board starts from its defaults and what flash holds.
PowerCut ==
    /\ up /\ used.cuts < MaxCuts
    /\ flash' \in {flash} \cup IF toFw # <<>> /\ Head(toFw).op = "save"
                               THEN Remnants(Stored(ram)) ELSE {}
    /\ ram' = Booted(flash', Factory)
    /\ toFw' = <<>> /\ staged' = NoReply /\ reader' = <<>> /\ up' = FALSE
    /\ used' = [used EXCEPT !.cuts = @ + 1]
    /\ UNCHANGED <<host, ed, ghost>>

-----------------------------------------------------------------------------
(* exchange_cfg: one request, one reply.                                   *)

\* The payload of a request that carries none is zero: bus 0 is none.
ZeroRow == [en |-> FALSE, drive |-> "odd", master |-> "zero"]
Asks(op) ==
    [op |-> op, slot |-> 0, row |-> ZeroRow, periph |-> Factory.periph, old |-> FALSE]

NextSlot == Min(DOMAIN host.plan)

Request ==
    CASE host.pc = "page"   -> [Asks("get") EXCEPT !.slot = host.start]
      [] host.pc = "periph" -> Asks("get_periph")
      [] host.pc = "slots"  ->
           [Asks("set") EXCEPT !.slot = NextSlot, !.row = host.plan[NextSlot]]
      [] host.pc = "put"    -> [Asks("set_periph") EXCEPT !.periph = host.periph]
      [] host.pc = "save"   -> Asks("save")
      [] OTHER              -> Asks("load")

Aged(m) == IF m = NoReply THEN m ELSE [m EXCEPT !.old = TRUE]

Ask ==
    /\ host.pc \notin {"prompt", "gone"} /\ ~host.waiting /\ up
    /\ reader' = <<>>
    /\ toFw' = Append([i \in DOMAIN toFw |-> Aged(toFw[i])], Request)
    /\ staged' = Aged(staged)
    /\ host' = [host EXCEPT !.waiting = TRUE]
    /\ ghost' = IF host.pc = "save" THEN [ghost EXCEPT !.said = NoClaim] ELSE ghost
    /\ UNCHANGED <<flash, ram, up, ed, used>>

\* Where a command goes on, and the end of a script.
AfterPut ==
    CASE host.cmd = "persist" -> "save" [] host.cmd = "apply" -> "prompt"
      [] OTHER -> "gone"
AfterSlots ==
    CASE host.cmd = "set" -> "save"
      [] host.cmd = "copy" \/ (host.cmd # "set" /\ ed.pdirty) -> "put"
      [] OTHER -> AfterPut
AfterSave == IF host.cmd = "persist" THEN "prompt" ELSE "gone"

\* The rows of a page: the master id, which GET leaves out, is the editor's
\* default for a Damiao drive, 0xFF, and 0 to apply_table.
Rows(page) ==
    [i \in DOMAIN page |->
        [slot |-> page[i].slot, en |-> page[i].en, drive |-> page[i].drive,
         master |-> IF host.cmd # "copy" /\ page[i].drive = "damiao" THEN "auto" ELSE "zero"]]

Places(rows, s)   == {i \in DOMAIN rows : rows[i].slot = s}
FirstRow(rows, s) == Min(Places(rows, s))
LastRow(rows, s)  == Max(Places(rows, s))
Listed(rows)      == {rows[i].slot : i \in DOMAIN rows}
RowOf(r)          == [en |-> r.en, drive |-> r.drive, master |-> r.master]
ShownAs(s, row)   == [slot |-> s, en |-> row.en, drive |-> row.drive, master |-> row.master]

RowKey(rows, s) == RowOf(rows[FirstRow(rows, s)])
BySlot(rows, s) == RowOf(rows[LastRow(rows, s)])

Resting == [host EXCEPT !.waiting = FALSE]

\* The rows in the order of their slots; equal ones stay in theirs.
InOrder(rows, at) ==
    \A i, j \in DOMAIN rows :
        i < j => \/ rows[at[i]].slot < rows[at[j]].slot
                 \/ rows[at[i]].slot = rows[at[j]].slot /\ at[i] < at[j]

Sorted(rows) ==
    {[i \in DOMAIN rows |-> rows[at[i]]] :
        at \in {at \in Bijection(DOMAIN rows, DOMAIN rows) : InOrder(rows, at)}}

\* fetch_table: page after page, until as many rows as the board counts.
PageTaken(r) ==
    LET got  == host.got \o Rows(r.page)
        full == Len(got) > TopSlot
    IN  /\ host' = [Resting EXCEPT !.got = got, !.start = @ + Len(r.page),
                              !.pc = IF full THEN "periph" ELSE @]
        /\ IF full /\ host.cmd = "load"
           THEN \E rows \in Sorted(got) :
                  ed' = [ed EXCEPT !.rows = rows, !.dirty = {},
                           !.base = [s \in Listed(rows) |-> BySlot(rows, s)]]
           ELSE UNCHANGED ed

\* apply_table sets every slot, the ones without a row to nothing.
ApplyTable(rows) ==
    [s \in Slots |-> IF s \in Listed(rows) THEN BySlot(rows, s) ELSE ZeroRow]

\* The editor shows the block; apply_bundle writes all of what was fetched.
PeriphTaken(r) ==
    IF host.cmd = "load"
    THEN /\ host' = [Resting EXCEPT !.pc = "prompt"]
         /\ ed' = [ed EXCEPT !.periph = r.periph, !.pdirty = FALSE]
    ELSE /\ host' = [Resting EXCEPT !.pc = "slots", !.periph = r.periph,
                                     !.plan = ApplyTable(host.got)]
         /\ UNCHANGED ed

\* A slot is set; after the last one the editor takes its dirty rows for applied.
SlotTaken ==
    LET rest == [t \in DOMAIN host.plan \ {NextSlot} |-> host.plan[t]]
    IN  IF DOMAIN rest # {}
        THEN host' = [Resting EXCEPT !.plan = rest] /\ UNCHANGED ed
        ELSE /\ host' = [Resting EXCEPT !.plan = rest, !.pc = AfterSlots]
             /\ ed' = IF host.cmd \in Scripts THEN ed
                      ELSE [ed EXCEPT !.dirty = {},
                             !.base = [t \in DOMAIN @ |->
                                 IF t \in ed.dirty THEN RowKey(ed.rows, t) ELSE @[t]]]

\* _apply_periph; the host's own copy of listen_pdu is left out.
PutTaken ==
    /\ host' = [Resting EXCEPT !.pc = AfterPut]
    /\ ed' = IF host.cmd \in Scripts THEN ed
             ELSE [ed EXCEPT !.pdirty = FALSE]

SaveTaken == host' = [Resting EXCEPT !.pc = AfterSave, !.tries = 0] /\ UNCHANGED ed

Answered(r) ==
    CASE host.pc = "page"   -> PageTaken(r)
      [] host.pc = "periph" -> PeriphTaken(r)
      [] host.pc = "slots"  -> SlotTaken
      [] host.pc = "put"    -> PutTaken
      [] host.pc = "save"   -> SaveTaken
      [] host.pc = "nvm"    -> host' = [Resting EXCEPT !.pc = "gone"] /\ UNCHANGED ed

\* What a reply tells of the board: a table just loaded is as it is in RAM, a
\* row just set is no longer in doubt, and "NVM SAVE ok (full v2 image)" says
\* that what the editor shows is stored.
Cleared(r) ==
    CASE host.pc = "page" /\ Len(host.got) + Len(r.page) > TopSlot -> Slots
      [] host.pc = "periph" -> {Block}
      [] host.pc = "slots"  -> {NextSlot}
      [] OTHER              -> {}

Noted(r) ==
    [torn  |-> ghost.torn \ Cleared(r),
     mixed |-> ghost.mixed \/ r.old,
     said  |-> IF host.pc = "save" /\ host.cmd = "persist"
                  /\ ghost.torn = {} /\ ~ghost.mixed /\ ~r.old
               THEN [rows |-> [s \in Slots |-> RowKey(ed.rows, s)], periph |-> ed.periph]
               ELSE ghost.said]

\* An exception: save_nvm tries again unless the port is gone, the editor
\* catches what apply and persist raise, and GET_PERIPH; nothing else.
Caught ==
    host.cmd \in {"apply", "persist"} \/ (host.cmd = "load" /\ host.pc = "periph")

Raise ==
    /\ host' = IF host.pc = "save" /\ up /\ host.tries + 1 < Retries
               THEN [Resting EXCEPT !.tries = @ + 1]
               ELSE [Resting EXCEPT !.tries = 0, !.pc = IF Caught THEN "prompt" ELSE "gone"]
    /\ ghost' = [ghost EXCEPT !.torn = @ \cup IF host.pc = "slots" THEN ed.dirty ELSE {}]
    /\ UNCHANGED ed

\* The predicate of exchange_cfg sees the op, no more.
Matches(r) == r.op = Request.op

ExchangeRaw ==
    /\ host.waiting /\ reader # <<>> /\ reader' = Tail(reader)
    /\ LET r == Head(reader)
       IN  \/ ~Matches(r) /\ UNCHANGED <<host, ed, ghost>>
           \/ Matches(r) /\ r.ok /\ Answered(r) /\ ghost' = Noted(r)
           \/ Matches(r) /\ ~r.ok /\ Raise
    /\ UNCHANGED <<flash, ram, toFw, staged, up, used>>

\* No answer in time: none will come, or it is on its way.
Timeout ==
    /\ host.waiting /\ up /\ reader = <<>>
    /\ IF toFw = <<>> /\ staged = NoReply THEN UNCHANGED used
       ELSE /\ used.lost + used.late < MaxFaults
            /\ used' = [used EXCEPT !.late = @ + 1]
    /\ Raise
    /\ UNCHANGED fwVars

\* The port raises once the board has lost its power.
PortGone ==
    /\ host.pc \notin {"prompt", "gone"} /\ ~up
    /\ Raise
    /\ UNCHANGED <<fwVars, used>>

-----------------------------------------------------------------------------
(* The user, at the prompt of the editor.                                  *)

Begin(cmd, pc) ==
    [cmd |-> cmd, pc |-> pc, waiting |-> FALSE, start |-> 0, got |-> <<>>,
     plan |-> NoRows, periph |-> ed.periph, tries |-> 0]

Prompted ==
    /\ host.pc = "prompt" /\ used.ops < MaxOps
    /\ used' = [used EXCEPT !.ops = @ + 1]
    /\ UNCHANGED <<fwVars, ed, ghost>>

Reload == Prompted /\ host' = Begin("load", "page")

\* _apply_slots, then _apply_periph, then SAVE.
Dirty == [s \in ed.dirty |-> BySlot(ed.rows, s)]

Apply(cmd) ==
    /\ Prompted
    /\ \/ ed.dirty # {} /\ host' = [Begin(cmd, "slots") EXCEPT !.plan = Dirty]
       \/ ed.dirty = {} /\ ed.pdirty /\ host' = Begin(cmd, "put")
       \/ ed.dirty = {} /\ ~ed.pdirty /\ cmd = "persist" /\ host' = Begin(cmd, "save")

Edits ==
    /\ host.pc = "prompt" /\ used.edits < MaxEdits
    /\ used' = [used EXCEPT !.edits = @ + 1]
    /\ UNCHANGED <<fwVars, host, ghost>>

EditedMutated(s, row) ==    \* compared with what the row was before
    ed' = [ed EXCEPT !.rows[FirstRow(ed.rows, s)] = ShownAs(s, row),
                     !.dirty = IF row # RowKey(ed.rows, s) THEN @ \cup {s} ELSE @ \ {s}]

\* A row is dirty as long as its key is not that of the baseline.
Edited(s, row) ==
    ed' = [ed EXCEPT !.rows[FirstRow(ed.rows, s)] = ShownAs(s, row),
                     !.dirty = IF row # ed.base[s] THEN @ \cup {s} ELSE @ \ {s}]

Toggle(s) ==
    /\ Edits /\ s \in Listed(ed.rows)
    /\ Edited(s, [RowKey(ed.rows, s) EXCEPT !.en = ~@])

EditSlot(s) ==
    /\ Edits /\ s \in Listed(ed.rows)
    /\ \E en \in BOOLEAN, typed \in {[drive |-> "damiao", master |-> "own"],
                                     [drive |-> "odd", master |-> "zero"]} :
          Edited(s, [en |-> en, drive |-> typed.drive, master |-> typed.master])

EditNeck == Edits /\ ed' = [ed EXCEPT !.periph.servos = "edited", !.pdirty = TRUE]

\* _edit_led takes any count of 16 bits.
EditLed ==
    /\ Edits
    /\ \E count \in {"some", "odd"} : ed' = [ed EXCEPT !.periph.leds = count, !.pdirty = TRUE]

EditListen ==
    /\ Edits
    /\ \E on \in BOOLEAN : ed' = [ed EXCEPT !.periph.listen = on, !.pdirty = TRUE]

\* A preset fills the rows of its slots, dirty whatever they were before.
PresetRow == [en |-> TRUE, drive |-> "damiao", master |-> "own"]

Filled(slots) ==
    [i \in DOMAIN ed.rows |->
        IF ed.rows[i].slot \in slots /\ i = LastRow(ed.rows, ed.rows[i].slot)
        THEN ShownAs(ed.rows[i].slot, PresetRow) ELSE ed.rows[i]]

ActuatorPreset ==
    /\ Edits
    /\ \E slots \in SUBSET Listed(ed.rows) \ {{}} :
         ed' = [ed EXCEPT !.rows = Filled(slots), !.dirty = @ \cup slots]

LedPreset ==    \* the policy pdu sets the flag in flash, and only there
    Edits /\ ed' = [ed EXCEPT !.periph.listen = TRUE, !.pdirty = TRUE]

ApplyGen2All ==
    /\ Edits /\ Slots = Listed(ed.rows)
    /\ ed' = [ed EXCEPT !.rows = Filled(Slots), !.dirty = Slots,
                        !.periph.servos = "edited", !.pdirty = TRUE]

\* Quit, with a warning when dirty; or a number the editor cannot read, or a
\* slot it does not list, which nothing catches.
Leave ==
    /\ host.pc = "prompt" /\ host' = [host EXCEPT !.pc = "gone"]
    /\ UNCHANGED <<fwVars, ed, ghost, used>>

\* The next program on the port: the editor once more, or a script.
Fresh(cmd, pc) == [Begin(cmd, pc) EXCEPT !.periph = Factory.periph]

RunCfgEditor == host' = Fresh("load", "page")
SetSlot      == "set" \in Scripts
                /\ \E s \in Slots : host' = [Fresh("set", "slots") EXCEPT !.plan = [t \in {s} |-> PresetRow]]
LoadNvm      == "load_nvm" \in Scripts /\ host' = Fresh("load_nvm", "nvm")
CopyBundle   == "copy" \in Scripts /\ host' = Fresh("copy", "page")

Launch ==
    /\ host.pc = "gone" /\ used.ops < MaxOps
    /\ used' = [used EXCEPT !.ops = @ + 1]
    /\ up' = TRUE /\ reader' = <<>> /\ ed' = NoEditor
    /\ RunCfgEditor \/ SetSlot \/ LoadNvm \/ CopyBundle
    /\ ghost' = [ghost EXCEPT !.torn = Slots \cup {Block}, !.mixed = FALSE]
    /\ UNCHANGED <<flash, ram, toFw, staged>>

Editing ==
    \/ \E s \in Slots : Toggle(s) \/ EditSlot(s)
    \/ EditNeck \/ EditLed \/ EditListen \/ ActuatorPreset \/ LedPreset \/ ApplyGen2All

Host     == Ask \/ ExchangeRaw \/ Timeout \/ PortGone
Firmware == OnCommand \/ FeedbackFill
User     == Editing \/ Reload \/ Apply("apply") \/ Apply("persist") \/ Leave \/ Launch

Init ==
    /\ ram = Factory /\ flash \in {Whole(Erased), Whole(Factory)}
    /\ toFw = <<>> /\ staged = NoReply /\ reader = <<>> /\ up = TRUE
    /\ ed = NoEditor
    /\ host = Fresh("load", "gone")
    /\ ghost = [torn |-> Slots \cup {Block}, mixed |-> FALSE, said |-> NoClaim]
    /\ used = [edits |-> 0, ops |-> 0, lost |-> 0, late |-> 0, cuts |-> 0]

Next == Host \/ Firmware \/ Drop \/ PowerCut \/ User

Spec == Init /\ [][Next]_vars

-----------------------------------------------------------------------------
(* Properties.                                                             *)

AtPrompt == host.pc = "prompt" /\ up /\ ~ghost.mixed

\* What the board makes of the row and the block an editor shows.
Runs(board, row) == board.en = row.en /\ board.drive = Accepted(row.drive)

\* What the editor shows clean is what the board runs: after every sequence of
\* edits, presets, applies that fail halfway, reloads and saves (run_cfg_editor:
\* dirty, baseline).  The master id, which the editor cannot read back, is left
\* out; a bus, protocol or LED count the board has not is compared with what
\* the board puts in its place, while the editor goes on showing it.  Nothing
\* is said of the slots an apply that failed was about, of the block of a failed
\* GET_PERIPH, nor once the reply to an older request was taken for a new one.
CleanMeansApplied ==
    AtPrompt =>
        /\ \A s \in Slots \ (ed.dirty \cup ghost.torn) :
              Runs(ram.rows[s], RowKey(ed.rows, s))
        /\ ~ed.pdirty /\ Block \notin ghost.torn => ram.periph = Settled(ed.periph)

\* Once the editor has said "NVM SAVE ok (full v2 image)", the board boots with
\* what the editor showed then, until the next SAVE: whatever was edited, set,
\* applied or cut since, and whatever requests were lost or refused by the flash
\* before (save_nvm, plant_config_nvm_save_image, plant_config_nvm_load).  The
\* saying counts when no apply had failed halfway, no reply to an older request
\* was taken for a new one, and the OK is not the late one of an attempt before.
SavedSurvives ==
    ghost.said # NoClaim =>
        LET boot == Booted(flash, Factory)
        IN  /\ \A s \in Slots : Runs(boot.rows[s], ghost.said.rows[s])
            /\ boot.periph = Settled(ghost.said.periph)

\* A power cut within a SAVE costs the old image, but never starts the board
\* with a part of one: it comes up with an image that was RAM, or its defaults
\* (nvm_image_v2_valid).
BootsWhole ==
    [][up /\ ~up' => ram' \in {Factory, Stored(ram), flash.tail}]_vars

-----------------------------------------------------------------------------
(* What the properties rest on.                                            *)

LinkOK == ~up => toFw = <<>> /\ staged = NoReply /\ reader = <<>>

\* The steps of the commands.
ScriptOK ==
    /\ host.waiting => host.pc \notin {"prompt", "gone"}
    /\ host.pc = "page" =>
          host.cmd \in {"load", "copy"} /\ host.start = Len(host.got) /\ host.start <= TopSlot
    /\ host.pc = "periph" => host.cmd \in {"load", "copy"}
    /\ host.pc = "slots"  => host.cmd # "load" /\ DOMAIN host.plan # {}
    /\ host.pc \in {"put", "save"} => host.cmd # "load"
    /\ host.pc = "nvm"    => host.cmd = "load_nvm"
    /\ host.pc = "prompt" => host.cmd \notin Scripts

\* What the reply to the request of this exchange tells of the board.
Tells(r) ==
    /\ r.op = Request.op
    /\ r.op = "get"        => r.page = Page(ram, host.start)
    /\ r.op = "get_periph" => r.periph = ram.periph
    /\ r.op = "set"        => ram.rows[NextSlot] = TakenRow(host.plan[NextSlot])
    /\ r.op = "set_periph" => ram.periph = Settled(host.periph)
    /\ r.op = "save" /\ r.ok => flash = Whole(Stored(ram))

\* What is not left from before the exchange is the request, behind everything
\* else, or its reply, when nothing else can change the board any more.
ExchangeOK ==
    host.waiting =>
        /\ \A i \in DOMAIN toFw : ~toFw[i].old => i = Len(toFw) /\ toFw[i] = Request
        /\ staged # NoReply /\ ~staged.old => toFw = <<>> /\ Tells(staged)
        /\ \A i \in DOMAIN reader :
              ~reader[i].old => toFw = <<>> /\ staged = NoReply /\ Tells(reader[i])

\* A claim of a complete save stands until the next SAVE is written.
SaidOK ==
    /\ ghost.said # NoClaim => \A i \in DOMAIN toFw : toFw[i].op # "save"
    /\ SavedSurvives

\* The slots of a table read without a mix-up are in their places.
InPlace(rows) == \A i \in DOMAIN rows : rows[i].slot = i - 1

Known ==
    /\ Len(ed.rows) = TopSlot + 1 /\ InPlace(ed.rows)
    /\ \A s \in Slots \ ed.dirty : RowOf(ed.rows[s + 1]) = ed.base[s]

\* The rows fetched so far are those of the board: nothing that could change
\* it is under way.
FetchOK ==
    host.pc = "page" =>
        /\ InPlace(host.got)
        /\ host.got # <<>> => \A i \in DOMAIN toFw : toFw[i].op = "get"
        /\ up => \A i \in DOMAIN host.got : Runs(ram.rows[i - 1], host.got[i])

\* The command at work has the editor's rows and block.
ApplyOK ==
    /\ host.pc = "slots" =>
          /\ DOMAIN host.plan \subseteq ed.dirty
          /\ \A s \in DOMAIN host.plan : host.plan[s] = RowOf(ed.rows[s + 1])
    /\ host.pc \in {"slots", "put"} => host.periph = ed.periph
    /\ host.pc = "put"  => ed.dirty = {} /\ ed.pdirty
    /\ host.pc = "save" => ed.dirty = {} /\ ~ed.pdirty

\* What a request under way can still change is not taken for applied.
PendingOK ==
    \A i \in DOMAIN toFw :
        /\ toFw[i].op = "set" =>
              \/ toFw[i].slot \in ghost.torn
              \/ host.pc = "slots" /\ toFw[i].slot \in DOMAIN host.plan
        /\ toFw[i].op = "set_periph" => Block \in ghost.torn \/ ed.pdirty
        /\ toFw[i].op = "load" => Slots \cup {Block} \subseteq ghost.torn

\* The baseline is what the board runs, and so is what an apply has set.
BoardOK ==
    up =>
        /\ \A s \in Slots \ ghost.torn :
              \/ host.pc = "slots" /\ s \in ed.dirty
              \/ Runs(ram.rows[s], ed.base[s])
        /\ host.pc = "slots" => \A s \in ed.dirty \ DOMAIN host.plan :
              s \notin ghost.torn /\ Runs(ram.rows[s], ed.rows[s + 1])
        /\ ~ed.pdirty /\ Block \notin ghost.torn => ram.periph = Settled(ed.periph)

EditorOK ==
    host.cmd \notin Scripts /\ ~ghost.mixed /\ host.pc # "gone" =>
        /\ Known \/ (host.pc = "page" /\ Slots \subseteq ghost.torn)
        /\ FetchOK /\ ApplyOK /\ PendingOK /\ BoardOK

\* Only rows that are listed are dirty, mix-up or not.
ListOK == DOMAIN ed.base = Listed(ed.rows) /\ ed.dirty \subseteq Listed(ed.rows)

IInv == TypeOK /\ LinkOK /\ ScriptOK /\ ExchangeOK /\ SaidOK /\ EditorOK /\ ListOK
=============================================================================
