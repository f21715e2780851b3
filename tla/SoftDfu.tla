------------------------------ MODULE SoftDfu ------------------------------
(***************************************************************************)
(* Flashing a Controls board over USB: debug/soft_dfu.py on the host, the   *)
(* boards it talks to, and the ST-Link it falls back to.                    *)
(*                                                                         *)
(* The host asks the running application to reboot into the ROM loader     *)
(* (the firmware clears nBOOT0, so every later reset lands in the loader), *)
(* downloads the image, and leaves through a small trampoline in flash     *)
(* that sets nBOOT0 again.  Several boards may hang on one host, each with *)
(* a USB serial number that both the application and the loader report,    *)
(* and a port name that the host hands out anew at every enumeration.      *)
(***************************************************************************)
EXTENDS Naturals, FiniteSets, FiniteSetsExt, Functions

CONSTANTS
    Boards,       \* the boards on the bench; a board is its serial number
    Ports,        \* port names, as numbers: the host lists them in order
    None,
    MaxRuns,      \* commands the user gives
    MaxCycles,    \* cycles of a prove loop
    MaxPower,     \* power cycles of a board by the user
    MaxPolls,     \* GETSTATUS polls of one wait_idle (100 in the code)
    MaxErrors     \* addresses and downloads the loader refuses

ASSUME DfuAssumption ==
    /\ Ports \subseteq Nat
    /\ Cardinality(Ports) >= Cardinality(Boards)
    /\ None \notin Boards \cup Ports
    /\ {MaxRuns, MaxCycles, MaxPower, MaxPolls, MaxErrors} \subseteq Nat

VARIABLES
    brd,      \* what each board is; .by is history: the serial number that the
              \* command knew which last wrote its flash over USB
    bench,    \* the tools of this host: flasher, ST-Link wiring, permissions
    host,     \* the command in progress
    used      \* bounds: commands, power cycles, refusals so far

vars == <<brd, bench, host, used>>

Busy == {"dnload_sync", "dnbusy", "manifest_sync"}
DfuStates == {"idle", "dnload_idle", "upload_idle", "error"} \cup Busy

\* What a host may find to flash with: STM32CubeProgrammer, else dfu-util.
Flashers == {"cube", "util", "none"}

Board ==
    [mode : {"app", "reset", "dfu", "hidden", "dead"}, nboot : {0, 1},
     app  : {"old", "torn", "new"}, vt : {"ok", "torn"},
     dfu  : DfuStates, ptr : {"base", "tramp"}, port : Ports \cup {None},
     by   : Boards \cup {None}]

Leaving == {"wait_idle", "set_addr", "addr_status", "zero", "zero_status"}

Running ==
    [pc    : {"idle", "identify", "tools", "in_dfu", "enter", "wait_dfu", "program",
              "leave_vt", "leave", "gone", "cdc", "swd", "swd_cdc", "listen",
              "status", "next"} \cup Leaving,
     op    : {"flash", "prove", "enter", "leave"}, usb : BOOLEAN, swd : BOOLEAN,
     port  : Ports \cup {None}, want : Boards \cup {None}, sn : Boards \cup {None},
     dev   : Boards \cup {None}, polls : 0 .. MaxPolls, tries : 0 .. 2,
     back  : {"set_addr", "zero"}, left : Nat, out : {"none", "ok", "error"}]

TypeOK ==
    /\ brd \in [Boards -> Board]
    /\ bench \in [tool : Flashers, link : Boards \cup {None}, open : BOOLEAN]
    /\ host \in Running
    /\ used \in [runs : Nat, power : Nat, errs : Nat]

-----------------------------------------------------------------------------
(* The boards.                                                             *)

FreePorts == Ports \ {brd[b].port : b \in Boards}

\* A reset board starts the loader or the application, as nBOOT0 says; the
\* loader may fail to show up on the bus, a torn application never does.
Boot(b) ==
    /\ brd[b].mode = "reset"
    /\ \/ /\ brd[b].nboot = 0
          /\ \E m \in {"dfu", "hidden"} :
                brd' = [brd EXCEPT ![b].mode = m, ![b].dfu = "idle",
                                   ![b].ptr = "base"]
       \/ /\ brd[b].nboot = 1 /\ brd[b].app # "torn"
          /\ \E p \in FreePorts :
                brd' = [brd EXCEPT ![b].mode = "app", ![b].port = p]
       \/ /\ brd[b].nboot = 1 /\ brd[b].app = "torn"
          /\ brd' = [brd EXCEPT ![b].mode = "dead"]
    /\ UNCHANGED <<bench, host, used>>

\* A handle the host has open on the board is dead from then on.  (What a
\* command finds when it starts is left to Init.)
PowerCycle(b) ==
    /\ brd[b].mode # "reset" /\ host.pc # "idle" /\ used.power < MaxPower
    /\ brd' = [brd EXCEPT ![b].mode = "reset", ![b].port = None]
    /\ host' = [host EXCEPT !.dev = IF @ = b THEN None ELSE @]
    /\ used' = [used EXCEPT !.power = @ + 1]
    /\ UNCHANGED bench

\* The application clears nBOOT0 and relaunches the option bytes.
SoftDfuOnCommand(b) ==
    [brd EXCEPT ![b].nboot = 0, ![b].mode = "reset", ![b].port = None]

\* The trampoline sets nBOOT0 and resets; a jump to the base of the flash
\* starts the application without a reset, its CDC dead or alive.
LeaveReset(b) ==
    IF brd[b].vt = "ok"
    THEN {[brd EXCEPT ![b].nboot = 1, ![b].mode = "reset"]}
    ELSE {[brd EXCEPT ![b].mode = "dead"]}

JumpToBase(b) ==
    {[brd EXCEPT ![b].mode = "dead"]}
    \cup (IF brd[b].app = "torn" THEN {}
          ELSE {[brd EXCEPT ![b].mode = "app", ![b].port = p] : p \in FreePorts})

RomJump(b) == IF brd[b].ptr = "tramp" THEN LeaveReset(b) ELSE JumpToBase(b)

\* What GETSTATUS does to the loader: a pending download is carried out.
RomAnswer(b) ==
    LET s == brd[b].dfu
    IN  [brd EXCEPT ![b].dfu = CASE s = "dnload_sync" -> "dnbusy"
                                 [] s = "dnbusy"      -> "dnload_idle"
                                 [] OTHER             -> s]

-----------------------------------------------------------------------------
(* Finding boards.                                                         *)

ListCdcMutated(sn) == {b \in Boards : brd[b].mode = "app"}   \* any serial number

\* list_cdc_ports: the boards whose application is enumerated.
ListCdc(sn) == {b \in Boards : brd[b].mode = "app" /\ sn \in {None, b}}

CdcInfo(port) ==
    IF \E b \in Boards : brd[b].port = port
    THEN CHOOSE b \in Boards : brd[b].port = port
    ELSE None

\* The loader's serial number is read by opening the device: without the
\* permission to open it no serial number matches.
FindDfu(sn) ==
    {b \in Boards : brd[b].mode = "dfu" /\ (sn = None \/ (bench.open /\ sn = b))}

FirstCdc(sn) == Min({brd[b].port : b \in ListCdc(sn)})

Goto(pc) == [host EXCEPT !.pc = pc]

\* An exception ends the command, or the cycle of a prove loop.
Raise == [host EXCEPT !.pc = IF host.op = "prove" THEN "next" ELSE "idle",
                      !.out = "error"]

\* The error paths of flash_firmware that recover over SWD when they can.
RecoverOrRaise == IF host.swd THEN Goto("swd") ELSE Raise

-----------------------------------------------------------------------------
(* The commands.                                                           *)

\* main: flash, prove, enter or leave, on a port or a serial number or
\* neither.  A new command brings a newly built image.
Command(op, port, sn, usb, n) ==
    /\ host.pc = "idle" /\ used.runs < MaxRuns
    /\ host' = [pc |-> "identify", op |-> op, port |-> port, want |-> sn,
                sn |-> None, usb |-> usb, swd |-> FALSE, dev |-> None,
                polls |-> 0, tries |-> 0, back |-> "set_addr", left |-> n,
                out |-> "none"]
    /\ brd' = [b \in Boards |->
                 IF brd[b].app = "new" THEN [brd[b] EXCEPT !.app = "old"]
                 ELSE brd[b]]
    /\ used' = [used EXCEPT !.runs = @ + 1]
    /\ UNCHANGED bench

\* resolve_flash_identity: the port's serial number, unless another was given.
ResolveFlashIdentity ==
    /\ host.pc = "identify"
    /\ LET row == IF host.port = None THEN None ELSE CdcInfo(host.port)
           sn  == IF host.want # None THEN host.want ELSE row
       IN  IF row # None /\ host.want # None /\ row # host.want
           THEN host' = Raise
           ELSE host' = [host EXCEPT !.sn = sn,
                           !.pc = CASE host.op = "enter" -> "enter"
                                    [] host.op = "leave" -> "leave"
                                    [] OTHER             -> "tools"]
    /\ UNCHANGED <<brd, bench, used>>

\* The flasher found on this host, and whether SWD may be fallen back to.
PickTools ==
    /\ host.pc = "tools"
    /\ host' = IF bench.tool = "none" THEN Raise
               ELSE [host EXCEPT !.pc = "in_dfu",
                       !.swd = /\ bench.tool = "cube"
                               /\ bench.link # None
                               /\ ~host.usb]
    /\ UNCHANGED <<brd, bench, used>>

AlreadyInDfu ==
    /\ host.pc = "in_dfu"
    /\ host' = Goto(IF FindDfu(host.sn) # {} THEN "program" ELSE "enter")
    /\ UNCHANGED <<brd, bench, used>>

\* The port that was named, or that of the only board that fits.
FindCdcPort ==
    IF host.port # None THEN CdcInfo(host.port)
    ELSE LET fits == ListCdc(host.sn)
         IN  IF Cardinality(fits) = 1 THEN CHOOSE b \in fits : TRUE ELSE None

\* No port found is an error that SWD recovers from; a named port is opened as
\* it is, and an open that fails is an error of another type, that it is not.
EnterBootloader ==
    /\ host.pc = "enter"
    /\ LET dev  == FindCdcPort
           next == IF host.op = "enter"
                   THEN [host EXCEPT !.pc = "idle", !.out = "ok"]
                   ELSE Goto("wait_dfu")
       IN  IF dev # None
           THEN /\ host' = next
                /\ brd' \in {brd, SoftDfuOnCommand(dev)}  \* the frame may be lost
           ELSE /\ host' = IF host.port = None /\ host.op # "enter"
                           THEN RecoverOrRaise ELSE Raise
                /\ UNCHANGED brd
    /\ UNCHANGED <<bench, used>>

\* The wait ends with the loader in sight, or at its timeout without it.
WaitForDfu ==
    /\ host.pc = "wait_dfu"
    /\ host' = IF FindDfu(host.sn) # {} THEN Goto("program") ELSE RecoverOrRaise
    /\ UNCHANGED <<brd, bench, used>>

-----------------------------------------------------------------------------
(* Programming.                                                            *)

FlasherSeesMutated == IF bench.open THEN FindDfu(None) ELSE {}   \* no -S, no sn=

\* The flasher's own choice of device: CubeProgrammer takes the first one,
\* dfu-util refuses to choose; both honour a serial number.
FlasherSees ==
    LET seen == FindDfu(host.sn)
    IN  IF ~bench.open \/ (bench.tool = "util" /\ Cardinality(seen) > 1)
        THEN {} ELSE seen

\* A download that is cut short leaves its area torn.
Written(b, areas, how) ==
    [brd EXCEPT ![b].app = IF "app" \in areas THEN how ELSE @,
                ![b].vt  = IF "vt" \in areas
                           THEN (IF how = "torn" THEN "torn" ELSE "ok") ELSE @,
                ![b].dfu = IF bench.tool = "cube" THEN "upload_idle" ELSE "dnload_idle",
                ![b].ptr = IF "app" \in areas THEN "base" ELSE "tramp",
                ![b].by  = host.sn]

\* The exit status of the flasher is not looked at.
DownloadMutated(areas, then) ==
    \/ \E b \in FlasherSees, how \in {"new", "torn"} :
          brd' = Written(b, areas, how) /\ host' = Goto(then) /\ UNCHANGED used
    \/ FlasherSees = {} /\ host' = RecoverOrRaise /\ UNCHANGED <<brd, used>>

Download(areas, then) ==
    \/ \E b \in FlasherSees : /\ brd' = Written(b, areas, "new")
                              /\ host' = Goto(then)
                              /\ UNCHANGED used
    \/ \E b \in FlasherSees : /\ used.errs < MaxErrors
                              /\ used' = [used EXCEPT !.errs = @ + 1]
                              /\ brd' = Written(b, areas, "torn")
                              /\ host' = RecoverOrRaise
    \/ FlasherSees = {} /\ host' = RecoverOrRaise /\ UNCHANGED <<brd, used>>

\* CubeProgrammer writes the ELF in one go; for dfu-util the ELF is split into
\* the application and the trampoline, written one after the other.
ElfToDfuParts == <<{"app"}, {"vt"}>>

Program ==
    /\ host.pc = "program"
    /\ \/ bench.tool = "cube" /\ Download({"app", "vt"}, "leave")
       \/ bench.tool = "util" /\ Download(ElfToDfuParts[1], "leave_vt")
    /\ UNCHANGED bench

ProgramLeaveVt ==
    /\ host.pc = "leave_vt"
    /\ Download(ElfToDfuParts[2], "leave")
    /\ UNCHANGED bench

\* CubeProgrammer over SWD: the board on the probe, whoever was asked for.
\* It writes the flash and resets, and leaves the option bytes alone.
FlashViaSwd ==
    /\ host.pc = "swd"
    /\ LET b == bench.link
           w(how) == [brd EXCEPT ![b].app = how, ![b].mode = "reset",
                        ![b].vt = IF how = "new" THEN "ok" ELSE "torn",
                        ![b].port = None, ![b].by = None]
       IN  \/ brd' = w("new") /\ host' = Goto("swd_cdc") /\ UNCHANGED used
           \/ /\ used.errs < MaxErrors
              /\ used' = [used EXCEPT !.errs = @ + 1]
              /\ brd' = w("torn") /\ host' = Raise
    /\ UNCHANGED bench

-----------------------------------------------------------------------------
(* Leaving the loader: leave_bootloader and _dfu_leave.                    *)

InRom == host.dev # None /\ brd[host.dev].mode = "dfu"

\* Open the first loader that fits.  An exception here, or in the first
\* wait_idle, is caught by nobody: the command fails even if SWD could help.
LeaveBootloader ==
    /\ host.pc = "leave"
    /\ IF FindDfu(host.sn) = {} \/ ~bench.open THEN host' = Raise
       ELSE \E b \in FindDfu(host.sn) :
              host' = [host EXCEPT !.pc = "wait_idle", !.back = "set_addr",
                         !.dev = b, !.polls = 0, !.tries = 0]
    /\ UNCHANGED <<brd, bench, used>>

Resume == host' = [host EXCEPT !.pc = host.back, !.polls = 0]

Again == host' = [host EXCEPT !.polls = @ + 1]

\* One turn of wait_idle.  A loader that has gone counts as idle after the
\* first poll; ERROR is cleared, UPLOAD_IDLE aborted and, if the abort is
\* ignored, cleared, which may take another turn; anything busy is polled.
WaitIdle ==
    /\ host.pc = "wait_idle"
    /\ IF ~InRom
       THEN /\ IF host.polls > 0 THEN Resume ELSE host' = Raise
            /\ UNCHANGED brd
       ELSE IF host.polls = MaxPolls THEN host' = Raise /\ UNCHANGED brd
       ELSE LET s == brd[host.dev].dfu
            IN  \/ s \in {"idle", "dnload_idle"} /\ Resume /\ UNCHANGED brd
                \/ s \in Busy /\ Again /\ brd' = RomAnswer(host.dev)
                \/ /\ s \in {"error", "upload_idle"} /\ Again
                   /\ \E t \in {s, "idle"} : brd' = [brd EXCEPT ![host.dev].dfu = t]
    /\ UNCHANGED <<bench, used>>

\* SET_ADDRESS: a write that fails is retried once after a wait.
SetAddress ==
    /\ host.pc = "set_addr"
    /\ IF InRom
       THEN /\ brd' = [brd EXCEPT ![host.dev].dfu = "dnload_sync"]
            /\ host' = Goto("addr_status")
       ELSE /\ host' = IF host.tries = 0
                       THEN [host EXCEPT !.pc = "wait_idle", !.tries = 1,
                               !.back = "set_addr", !.polls = 0]
                       ELSE Raise
            /\ UNCHANGED brd
    /\ UNCHANGED <<bench, used>>

\* GETSTATUS carries the command out.  A refusal is cleared and the address
\* sent again; after the second refusal the loop simply ends.
AddressStatus ==
    /\ host.pc = "addr_status"
    /\ \/ /\ ~InRom /\ host' = Goto("gone")
          /\ UNCHANGED <<brd, used>>
       \/ /\ InRom
          /\ \E s \in {"dnbusy", "dnload_idle"} :
                brd' = [brd EXCEPT ![host.dev].dfu = s, ![host.dev].ptr = "tramp"]
          /\ host' = [host EXCEPT !.pc = "wait_idle", !.back = "zero",
                        !.polls = 0]
          /\ UNCHANGED used
       \/ /\ InRom /\ used.errs < MaxErrors
          /\ used' = [used EXCEPT !.errs = @ + 1]
          /\ \E s \in {"idle", "error"} :      \* CLRSTATUS may fail as well
                brd' = [brd EXCEPT ![host.dev].dfu = s]
          /\ host' = [host EXCEPT !.pc = "wait_idle", !.polls = 0,
                        !.tries = @ + 1,
                        !.back = IF host.tries = 0 THEN "set_addr" ELSE "zero"]
    /\ UNCHANGED bench

\* The empty download asks for the jump, the status read after it makes it.
ZeroDownload ==
    /\ host.pc = "zero"
    /\ IF InRom THEN /\ brd' = [brd EXCEPT ![host.dev].dfu = "manifest_sync"]
                     /\ host' = Goto("zero_status")
       ELSE host' = Goto("gone") /\ UNCHANGED brd
    /\ UNCHANGED <<bench, used>>

ZeroStatus ==
    /\ host.pc = "zero_status"
    /\ brd' \in (IF InRom THEN RomJump(host.dev) ELSE {brd})
    /\ host' = Goto("gone")
    /\ UNCHANGED <<bench, used>>

\* Poll until no loader fits, or the timeout finds one still there.
WaitGone ==
    /\ host.pc = "gone"
    /\ LET left == FindDfu(host.sn) = {}
       IN  host' = IF host.op = "leave"
                   THEN [host EXCEPT !.pc = "idle",
                           !.out = IF left THEN "ok" ELSE "error"]
                   ELSE IF left THEN Goto("cdc") ELSE RecoverOrRaise
    /\ UNCHANGED <<brd, bench, used>>

-----------------------------------------------------------------------------
(* The application again.                                                  *)

WaitForCdc ==
    /\ host.pc \in {"cdc", "swd_cdc"}
    /\ host' = IF ListCdc(host.sn) # {}
               THEN [host EXCEPT !.pc = "listen", !.port = FirstCdc(host.sn)]
               ELSE IF host.pc = "cdc" THEN RecoverOrRaise ELSE Raise
    /\ UNCHANGED <<brd, bench, used>>

\* post_flash_listen_pdu stages a volatile LED setting on the port that came
\* back and swallows every error: nothing here depends on it.
PostFlashListenPdu ==
    /\ host.pc = "listen"
    /\ host' = [host EXCEPT !.out = "ok",
                  !.pc = IF host.op = "prove" THEN "status" ELSE "idle"]
    /\ UNCHANGED <<brd, bench, used>>

\* pcb_status resolves the identity again and opens the port it was handed.
PcbStatus ==
    /\ host.pc = "status"
    /\ LET row == CdcInfo(host.port)
       IN  host' = IF row = None \/ (host.want # None /\ host.want # row)
                   THEN Raise ELSE Goto("next")
    /\ UNCHANGED <<brd, bench, used>>

\* prove_soft_dfu_loop: the next cycle starts from the last port returned.
NextCycle ==
    /\ host.pc = "next"
    /\ host' = IF host.left > 1
               THEN [host EXCEPT !.pc = "identify", !.left = @ - 1,
                       !.sn = None, !.swd = FALSE, !.out = "none"]
               ELSE Goto("idle")
    /\ UNCHANGED <<brd, bench, used>>

-----------------------------------------------------------------------------
HostStep ==
    \/ ResolveFlashIdentity \/ PickTools \/ AlreadyInDfu \/ EnterBootloader
    \/ WaitForDfu \/ Program \/ ProgramLeaveVt \/ FlashViaSwd
    \/ LeaveBootloader \/ WaitIdle \/ SetAddress \/ AddressStatus
    \/ ZeroDownload \/ ZeroStatus \/ WaitGone
    \/ WaitForCdc \/ PostFlashListenPdu \/ PcbStatus \/ NextCycle

UserCommand ==
    \E port \in Ports \cup {None}, sn \in Boards \cup {None} :
        \/ \E op \in {"enter", "leave"} : Command(op, port, sn, FALSE, 1)
        \/ \E usb \in BOOLEAN : \/ Command("flash", port, sn, usb, 1)
                               \/ Command("prove", port, sn, usb, MaxCycles)

\* Every board runs its application, on a port of its own, or waits in the
\* loader, perhaps with what an earlier download that failed has left.
Init ==
    /\ bench \in [tool : Flashers, link : Boards \cup {None},
                  open : BOOLEAN]
    /\ bench.link # None => bench.tool = "cube"    \* nothing else drives it
    /\ \E rom \in SUBSET Boards, at \in Injection(Boards, Ports) :
       \E torn \in SUBSET rom :
         /\ brd = [b \in Boards |->
              [mode |-> IF b \in rom THEN "dfu" ELSE "app",
               nboot |-> IF b \in rom THEN 0 ELSE 1,
               app |-> IF b \in torn THEN "torn" ELSE "old",
               vt |-> "ok", dfu |-> "idle", ptr |-> "base",
               port |-> IF b \in rom THEN None ELSE at[b], by |-> None]]
    /\ host = [pc |-> "idle", op |-> "flash", port |-> None, want |-> None,
               sn |-> None, usb |-> FALSE, swd |-> FALSE, dev |-> None,
               polls |-> 0, tries |-> 0, back |-> "set_addr", left |-> 0,
               out |-> "none"]
    /\ used = [runs |-> 0, power |-> 0, errs |-> 0]

Next == HostStep \/ UserCommand \/ \E b \in Boards : Boot(b) \/ PowerCycle(b)

Spec == Init /\ [][Next]_vars

-----------------------------------------------------------------------------
(* Properties.                                                             *)

FlashReturns == host.pc \in {"cdc", "swd_cdc"} /\ host'.pc = "listen"

\* A flash that names its board, by serial number or by the port it was on,
\* and returns, returns the port of that board, which runs the image of this
\* command and boots it again at the next power-up: not another board's port,
\* not a board that kept its old image, not one whose boot option still points
\* at the loader.  It needs a probe, if there is one, that is wired to the
\* board, and a loader that does not refuse the leave address twice.
OkMeansFlashed ==
    [][FlashReturns /\ host.sn # None /\ bench.link \in {None, host.sn}
         /\ host.tries < 2 =>
         LET b == brd[host.sn]
         IN  /\ b.app = "new" /\ b.mode = "app" /\ b.nboot = 1
             /\ host'.port = b.port]_vars

\* Whatever fails, whatever else is plugged in and however ports change hands
\* between the enumerations, a command that knows its board's serial number
\* rewrites the flash of no other board over USB, to the end or in part, for
\* the first time or again.  (Over the probe it writes whichever board the
\* probe is wired to; without a serial number, whichever loader it finds.)
OthersUntouched == \A b \in Boards : brd[b].by \in {None, b}

\* A board whose image a download has torn keeps booting into the loader: a
\* flash never lets it out, so that losing power mid-flash is always repaired
\* by flashing again.  (The user's own leave command does not look, nor does a
\* flash that cannot name its board; what those have let out stays out.)
TornStaysInLoader ==
    [][\A b \in Boards :
         brd[b].app = "torn" /\ brd[b].nboot = 0 /\ brd[b].mode # "dead" =>
           \/ brd'[b].nboot = 0 /\ brd'[b].mode \notin {"app", "dead"}
           \/ host.op = "leave" \/ host.sn = None \/ brd'[b].app # "torn"]_vars

-----------------------------------------------------------------------------
(* What the properties rest on.                                            *)

BoardsOK ==
    \A b \in Boards : /\ brd[b].mode = "dfu" => brd[b].nboot = 0
                      /\ brd[b].mode = "app" => brd[b].port # None /\ brd[b].app # "torn"

\* The user's leave command goes its own, shorter way, and without a probe.
ScriptOK ==
    /\ host.pc \in {"tools", "in_dfu", "enter", "wait_dfu", "program", "leave_vt",
                    "swd", "cdc", "swd_cdc"} => host.op # "leave"
    /\ host.swd \/ host.pc \in {"swd", "swd_cdc"} => host.op # "leave" /\ bench.link # None

\* The loader that is being left is the one asked for, and still a loader, or
\* it has lost its power.  Its address is that of the trampoline by the time
\* of the jump, unless it was refused twice.
Towards(next, pcs) == host.pc \in pcs \/ (host.pc = "wait_idle" /\ host.back = next)

DevOK ==
    /\ host.pc \in Leaving /\ host.dev # None =>
          brd[host.dev].mode = "dfu" /\ host.sn \in {None, host.dev}
    /\ Towards("set_addr", {"set_addr", "addr_status"}) => host.tries < 2
    /\ Towards("zero", {"zero", "zero_status"}) =>
          host.tries = 2 \/ host.dev = None \/ brd[host.dev].ptr = "tramp"

\* Not in the application, or sure to boot it.
InLoader(b)  == brd[b].nboot = 0 /\ brd[b].mode \in {"dfu", "reset", "hidden"}
OutForGood(b) == brd[b].nboot = 1 \/ InLoader(b)

\* What has been done to the board that a flash can name.
FlashOK ==
    host.op # "leave" /\ host.sn # None =>
      LET b == host.sn
      IN  /\ host.pc \in {"leave_vt", "leave"} \cup Leaving =>
                brd[b].app = "new" /\ InLoader(b)
          /\ host.pc \in {"leave"} \cup Leaving => brd[b].vt = "ok"
          /\ host.pc \in {"gone", "cdc"} =>
                brd[b].app = "new" /\ (host.tries = 2 \/ OutForGood(b))
          /\ host.pc = "swd_cdc" /\ bench.link = b =>
                brd[b].app = "new" /\ OutForGood(b)

IInv == TypeOK /\ BoardsOK /\ ScriptOK /\ DevOK /\ FlashOK
=============================================================================
