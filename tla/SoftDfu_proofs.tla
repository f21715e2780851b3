--------------------------- MODULE SoftDfu_proofs ---------------------------
(***************************************************************************)
(* Proofs about SoftDfu, for any boards, ports and tools, any number of    *)
(* commands, cycles, power cycles and refused transfers.                   *)
(***************************************************************************)
EXTENDS SoftDfu, TLAPS, FiniteSetTheorems, WellFoundedInduction

(* A board that answers is found, and only where it is asked for.          *)
LEMMA Found ==
  ASSUME NEW sn, NEW b \in FindDfu(sn)
  PROVE  b \in Boards /\ brd[b].mode = "dfu" /\ sn \in {None, b}
BY DEF FindDfu

LEMMA Seen ==
  ASSUME NEW b \in FlasherSees
  PROVE  b \in Boards /\ brd[b].mode = "dfu" /\ host.sn \in {None, b}
BY DEF FlasherSees, FindDfu

(* The port of wait_for_cdc is that of a board that runs its application.  *)
LEMMA First ==
  ASSUME TypeOK, BoardsOK, NEW sn, ListCdc(sn) # {}
  PROVE  \E b \in ListCdc(sn) : FirstCdc(sn) = brd[b].port
<1> DEFINE S == {brd[b].port : b \in ListCdc(sn)}
           R == OpToRel(<, Nat)
<1>1. \A b \in ListCdc(sn) : b \in Boards /\ brd[b].mode = "app"
  BY DEF ListCdc
<1>2. \A b \in Boards : brd[b].mode = "app" => brd[b].port \in Nat
  <2> TAKE b \in Boards
  <2>1. brd[b].port \in Ports \cup {None}
    BY DEF TypeOK, Board
  <2>2. QED
    BY <2>1, DfuAssumption DEF BoardsOK
<1>3. S # {} /\ S \subseteq Nat
  BY <1>1, <1>2
<1> HIDE DEF S
<1>4. PICK x \in S : \A y \in S : ~(<<y, x>> \in R)
  BY <1>3, NatLessThanWellFounded, WFMin
<1>5. \A y \in S : ~(y < x)
  BY <1>3, <1>4 DEF OpToRel
<1>6. \A y \in S : x <= y
  BY <1>3, <1>5
<1>7. Min(S) \in S
  BY <1>6 DEF Min
<1>8. QED
  BY <1>7 DEF FirstCdc, S

(* A step that ends what the command was about, by an error or to go over  *)
(* to SWD, keeps the invariant whatever it leaves on the board             *)
(* (flash_firmware, _no_swd).                                              *)
LEMMA Ends ==
  ASSUME IInv, brd' \in [Boards -> Board], BoardsOK', UNCHANGED bench,
         used' \in [runs : Nat, power : Nat, errs : Nat],
         host' = Raise \/ host' = RecoverOrRaise
  PROVE  IInv'
<1> USE DEF IInv, TypeOK
<1>1. host' = Raise \/ (host.swd /\ host' = Goto("swd"))
  BY DEF RecoverOrRaise
<1>2. host' \in Running /\ host'.pc \in {"next", "idle", "swd"}
      /\ host'.swd = host.swd /\ host'.op = host.op
      /\ (host'.pc = "swd" => host.swd)
  <2>1. host \in Running
    OBVIOUS
  <2>2. ASSUME NEW pc \in {"next", "idle", "swd"}, NEW out \in {"none", "ok", "error"},
               host' = [host EXCEPT !.pc = pc, !.out = out]
        PROVE  host' \in Running /\ host'.pc = pc /\ host'.swd = host.swd /\ host'.op = host.op
    BY <2>1, <2>2 DEF Running
  <2>3. CASE host' = Raise
    BY <2>2, <2>3 DEF Raise
  <2>4. CASE host.swd /\ host' = Goto("swd")
    BY <2>1, <2>4 DEF Goto, Running
  <2>5. QED
    BY <1>1, <2>3, <2>4
<1>3. ScriptOK'
  BY <1>2 DEF ScriptOK, Running
<1>4. DevOK'
  BY <1>2 DEF DevOK, Leaving, Towards
<1>5. FlashOK'
  BY <1>2 DEF FlashOK, Leaving
<1>6. QED
  BY <1>2, <1>3, <1>4, <1>5
-----------------------------------------------------------------------------
(* Moving on in the script leaves the rest of the command as it was.       *)
LEMMA Going ==
  ASSUME host \in Running, NEW pc \in {"idle", "identify", "tools", "in_dfu", "enter",
            "wait_dfu", "program", "leave_vt", "leave", "gone", "cdc", "swd", "swd_cdc",
            "listen", "status", "next"} \cup Leaving,
         host' = Goto(pc)
  PROVE  /\ host' \in Running /\ host'.pc = pc
         /\ host'.op = host.op /\ host'.swd = host.swd /\ host'.sn = host.sn
         /\ host'.dev = host.dev /\ host'.tries = host.tries /\ host'.back = host.back
         /\ host'.polls = host.polls /\ host'.port = host.port
BY DEF Goto, Running

(* ... and so does a step of a board, of all but the command's progress.   *)
LEMMA QuietHost ==
  ASSUME IInv, UNCHANGED <<bench, host>>, brd' \in [Boards -> Board], BoardsOK',
         used' \in [runs : Nat, power : Nat, errs : Nat],
         \A b \in Boards :
            \/ brd'[b] = brd[b]
            \/ /\ brd[b].mode \notin {"dfu"}
               /\ brd'[b].app = brd[b].app /\ brd'[b].vt = brd[b].vt
               /\ brd'[b].nboot = brd[b].nboot
               /\ brd[b].nboot = 0 => brd'[b].mode \in {"dfu", "hidden"}
  PROVE  IInv'
<1> USE DEF IInv, TypeOK
<1>1. TypeOK'
  OBVIOUS
<1>2. ScriptOK'
  BY DEF ScriptOK
<1>3. host.dev # None => host.dev \in Boards
  BY DEF Running
<1>4. DevOK'
  <2>1. CASE host.dev = None
    BY <2>1 DEF DevOK, Towards
  <2>2. CASE host.dev # None /\ brd'[host.dev] = brd[host.dev]
    BY <2>2 DEF DevOK, Towards
  <2>3. CASE host.dev # None /\ brd[host.dev].mode # "dfu"
    BY <2>3 DEF DevOK, Towards, Leaving
  <2>4. QED
    BY <1>3, <2>1, <2>2, <2>3
<1>5. FlashOK'
  <2> SUFFICES ASSUME host.op # "leave", host.sn # None PROVE FlashOK'
    BY DEF FlashOK
  <2>1. host.sn \in Boards
    BY DEF Running
  <2>2. CASE brd'[host.sn] = brd[host.sn]
    BY <2>2 DEF FlashOK, InLoader, OutForGood
  <2>3. CASE /\ brd'[host.sn].app = brd[host.sn].app /\ brd'[host.sn].vt = brd[host.sn].vt
             /\ brd'[host.sn].nboot = brd[host.sn].nboot
             /\ brd[host.sn].nboot = 0 => brd'[host.sn].mode \in {"dfu", "hidden"}
    BY <2>3 DEF FlashOK, InLoader, OutForGood
  <2>4. QED
    BY <2>1, <2>2, <2>3
<1>6. QED
  BY <1>1, <1>2, <1>4, <1>5

(* A reset board starts what its boot option says.                         *)
LEMMA BootStep == ASSUME IInv, NEW b \in Boards, Boot(b) PROVE IInv'
<1> USE DEF IInv, TypeOK
<1>1. brd[b] \in Board /\ brd[b].mode = "reset" /\ UNCHANGED <<bench, host, used>>
  BY DEF Boot
<1>2. PICK r \in Board : brd' = [brd EXCEPT ![b] = r] /\ r.app = brd[b].app
         /\ r.vt = brd[b].vt /\ r.nboot = brd[b].nboot
         /\ (r.nboot = 0 => r.mode \in {"dfu", "hidden"})
         /\ (r.nboot # 0 => r.mode # "dfu")
         /\ (r.mode = "app" => r.port # None /\ r.app # "torn")
  <2>1. CASE brd[b].nboot = 0
    <3>1. PICK m \in {"dfu", "hidden"} :
            brd' = [brd EXCEPT ![b].mode = m, ![b].dfu = "idle", ![b].ptr = "base"]
      BY <2>1 DEF Boot
    <3> DEFINE r == [brd[b] EXCEPT !.mode = m, !.dfu = "idle", !.ptr = "base"]
    <3>2. r \in Board /\ r.mode = m /\ r.app = brd[b].app /\ r.vt = brd[b].vt
          /\ r.nboot = brd[b].nboot
      BY <1>1 DEF Board, DfuStates
    <3>3. brd' = [brd EXCEPT ![b] = r]
      BY <3>1
    <3> HIDE DEF r
    <3>4. QED
      BY <2>1, <3>2, <3>3
  <2>2. CASE brd[b].nboot # 0 /\ brd[b].app # "torn"
    <3>1. PICK p \in FreePorts : brd' = [brd EXCEPT ![b].mode = "app", ![b].port = p]
      BY <2>2 DEF Boot
    <3> DEFINE r == [brd[b] EXCEPT !.mode = "app", !.port = p]
    <3>2. p \in Ports /\ p # None
      BY DfuAssumption DEF FreePorts
    <3>3. r \in Board /\ r.mode = "app" /\ r.port = p /\ r.app = brd[b].app
          /\ r.vt = brd[b].vt /\ r.nboot = brd[b].nboot
      BY <1>1, <3>2 DEF Board
    <3>4. brd' = [brd EXCEPT ![b] = r]
      BY <3>1
    <3> HIDE DEF r
    <3>5. QED
      BY <2>2, <3>2, <3>3, <3>4
  <2>3. CASE brd[b].nboot # 0 /\ brd[b].app = "torn"
    <3>1. brd' = [brd EXCEPT ![b].mode = "dead"]
      BY <2>3 DEF Boot
    <3> DEFINE r == [brd[b] EXCEPT !.mode = "dead"]
    <3>2. r \in Board /\ r.mode = "dead" /\ r.app = brd[b].app
          /\ r.vt = brd[b].vt /\ r.nboot = brd[b].nboot
      BY <1>1 DEF Board
    <3>3. brd' = [brd EXCEPT ![b] = r]
      BY <3>1
    <3> HIDE DEF r
    <3>4. QED
      BY <2>3, <3>2, <3>3
  <2>4. QED
    BY <2>1, <2>2, <2>3
<1>3. brd' \in [Boards -> Board]
  BY <1>2
<1>4. \A c \in Boards : brd'[c] = IF c = b THEN r ELSE brd[c]
  BY <1>2
<1>5. BoardsOK'
  BY <1>2, <1>4 DEF BoardsOK
<1>6. QED
  BY <1>1, <1>2, <1>3, <1>4, <1>5, QuietHost

(* A power cycle takes the handle of the board away.                       *)
LEMMA PowerStep == ASSUME IInv, NEW b \in Boards, PowerCycle(b) PROVE IInv'
<1> USE DEF IInv, TypeOK
<1> DEFINE r == [brd[b] EXCEPT !.mode = "reset", !.port = None]
<1>1. brd' = [brd EXCEPT ![b] = r]
  BY DEF PowerCycle
<1>2. r \in Board /\ r.mode = "reset" /\ r.app = brd[b].app /\ r.vt = brd[b].vt
      /\ r.nboot = brd[b].nboot
  <2>1. brd[b] \in Board
    OBVIOUS
  <2>2. QED
    BY <2>1 DEF Board
<1> HIDE DEF r
<1>3. brd' \in [Boards -> Board] /\ \A c \in Boards : brd'[c] = IF c = b THEN r ELSE brd[c]
  BY <1>1, <1>2
<1>4. BoardsOK'
  BY <1>2, <1>3 DEF BoardsOK
<1>5. PICK d \in Boards \cup {None} : host' = [host EXCEPT !.dev = d] /\ d # b
         /\ (d # None => d = host.dev)
  BY DfuAssumption DEF PowerCycle, Running
<1>6. /\ host' \in Running /\ host'.dev = d /\ host'.pc = host.pc /\ host'.sn = host.sn
      /\ host'.op = host.op /\ host'.swd = host.swd /\ host'.tries = host.tries
      /\ host'.back = host.back
  BY <1>5 DEF Running
<1>7. TypeOK'
  BY <1>3, <1>6 DEF PowerCycle
<1>8. ScriptOK'
  BY <1>6 DEF ScriptOK, PowerCycle
<1>9. DevOK'
  <2>1. d # None => brd'[d] = brd[d]
    BY <1>3, <1>5
  <2>2. QED
    BY <1>5, <1>6, <2>1 DEF DevOK, Towards
<1>10. FlashOK'
  <2> SUFFICES ASSUME host.op # "leave", host.sn # None PROVE FlashOK'
    BY <1>6 DEF FlashOK
  <2>1. host.sn \in Boards
    BY DEF Running
  <2>2. bench' = bench
    BY DEF PowerCycle
  <2>3. CASE host.sn # b
    BY <1>3, <1>6, <2>1, <2>2, <2>3 DEF FlashOK, InLoader, OutForGood
  <2>4. CASE host.sn = b
    BY <1>2, <1>3, <1>6, <2>1, <2>2, <2>4 DEF FlashOK, InLoader, OutForGood
  <2>5. QED
    BY <2>3, <2>4
<1>11. QED
  BY <1>4, <1>7, <1>8, <1>9, <1>10
-----------------------------------------------------------------------------
(* Where nothing has been written yet, or no more is made of it.           *)
LEMMA Plain ==
  ASSUME TypeOK', BoardsOK', ScriptOK',
         host'.pc \in {"idle", "identify", "tools", "in_dfu", "enter", "wait_dfu",
                       "program", "swd", "listen", "status", "next"}
  PROVE  IInv'
BY DEF IInv, DevOK, FlashOK, Leaving, Towards

(* A command, with a newly built image (main, flash_firmware).             *)
LEMMA CommandStep == ASSUME IInv, UserCommand PROVE IInv'
<1> USE DEF IInv, TypeOK
<1>1. PICK port \in Ports \cup {None}, sn \in Boards \cup {None},
           op \in {"flash", "prove", "enter", "leave"}, usb \in BOOLEAN, n \in Nat :
        Command(op, port, sn, usb, n)
  <2>1. MaxCycles \in Nat
    BY DfuAssumption
  <2>2. PICK port \in Ports \cup {None}, sn \in Boards \cup {None} :
          \/ \E op \in {"enter", "leave"} : Command(op, port, sn, FALSE, 1)
          \/ \E usb \in BOOLEAN : \/ Command("flash", port, sn, usb, 1)
                                 \/ Command("prove", port, sn, usb, MaxCycles)
    BY DEF UserCommand
  <2>3. ASSUME NEW op \in {"enter", "leave"}, Command(op, port, sn, FALSE, 1)
        PROVE  \E o \in {"flash", "prove", "enter", "leave"}, u \in BOOLEAN, n \in Nat :
                  Command(o, port, sn, u, n)
    BY <2>3
  <2>4. ASSUME NEW usb \in BOOLEAN, Command("flash", port, sn, usb, 1)
        PROVE  \E o \in {"flash", "prove", "enter", "leave"}, u \in BOOLEAN, n \in Nat :
                  Command(o, port, sn, u, n)
    BY <2>4
  <2>5. ASSUME NEW usb \in BOOLEAN, Command("prove", port, sn, usb, MaxCycles)
        PROVE  \E o \in {"flash", "prove", "enter", "leave"}, u \in BOOLEAN, n \in Nat :
                  Command(o, port, sn, u, n)
    BY <2>1, <2>5
  <2>6. QED
    BY <2>2, <2>3, <2>4, <2>5
<1>2. host' \in Running /\ host'.pc = "identify" /\ host'.swd = FALSE
  BY <1>1, DfuAssumption DEF Command, Running
<1>3. \A b \in Boards : [brd[b] EXCEPT !.app = "old"] \in Board
         /\ [brd[b] EXCEPT !.app = "old"].mode = brd[b].mode
         /\ [brd[b] EXCEPT !.app = "old"].nboot = brd[b].nboot
         /\ [brd[b] EXCEPT !.app = "old"].port = brd[b].port
         /\ [brd[b] EXCEPT !.app = "old"].app = "old"
  <2> TAKE b \in Boards
  <2>1. brd[b] \in Board
    OBVIOUS
  <2>2. QED
    BY <2>1 DEF Board
<1>4. brd' = [b \in Boards |-> IF brd[b].app = "new" THEN [brd[b] EXCEPT !.app = "old"]
                               ELSE brd[b]]
  BY <1>1 DEF Command
<1>5. brd' \in [Boards -> Board] /\ \A b \in Boards : brd'[b].mode = brd[b].mode
         /\ brd'[b].nboot = brd[b].nboot /\ brd'[b].port = brd[b].port
         /\ brd'[b].app \in {brd[b].app, "old"}
  BY <1>3, <1>4
<1>6. BoardsOK'
  BY <1>5 DEF BoardsOK
<1>7. TypeOK'
  BY <1>1, <1>2, <1>5 DEF Command
<1>8. ScriptOK'
  BY <1>2 DEF ScriptOK
<1>9. QED
  BY <1>2, <1>6, <1>7, <1>8, Plain

(* Up to the first write (flash_firmware, leave_bootloader).               *)
LEMMA IdentityStep == ASSUME IInv, ResolveFlashIdentity PROVE IInv'
<1> USE DEF IInv, TypeOK
<1>1. UNCHANGED <<brd, bench, used>> /\ BoardsOK'
  BY DEF ResolveFlashIdentity, BoardsOK
<1>2. CASE host' = Raise
  BY <1>1, <1>2, Ends
<1>3. CASE host' # Raise
  <2> DEFINE row == IF host.port = None THEN None ELSE CdcInfo(host.port)
             sn  == IF host.want # None THEN host.want ELSE row
             pc  == CASE host.op = "enter" -> "enter"
                      [] host.op = "leave" -> "leave"
                      [] OTHER             -> "tools"
  <2>1. host' = [host EXCEPT !.sn = sn, !.pc = pc]
    BY <1>3 DEF ResolveFlashIdentity
  <2>2. row \in Boards \cup {None}
    BY DEF CdcInfo
  <2>3. sn \in Boards \cup {None} /\ pc \in {"enter", "leave", "tools"}
        /\ (pc = "leave" => host.op = "leave") /\ (pc # "leave" => host.op # "leave")
    BY <2>2 DEF Running
  <2> HIDE DEF sn, pc, row
  <2>4. host' \in Running /\ host'.pc = pc /\ host'.op = host.op /\ host'.swd = host.swd
        /\ host'.sn = sn
    BY <2>1, <2>3 DEF Running
  <2>5. TypeOK'
    BY <1>1, <2>4
  <2>6. ScriptOK'
    BY <1>1, <2>3, <2>4 DEF ScriptOK
  <2>7. CASE pc # "leave"
    BY <1>1, <2>3, <2>4, <2>5, <2>6, <2>7, Plain
  <2>8. CASE pc = "leave"
    <3>1. DevOK' /\ FlashOK'
      BY <2>3, <2>4, <2>8 DEF DevOK, FlashOK, Leaving, Towards
    <3>2. QED
      BY <1>1, <2>5, <2>6, <3>1
  <2>9. QED
    BY <2>7, <2>8
<1>4. QED
  BY <1>2, <1>3

LEMMA ToolsStep == ASSUME IInv, PickTools PROVE IInv'
<1> USE DEF IInv, TypeOK
<1>1. UNCHANGED <<brd, bench, used>> /\ BoardsOK' /\ host.op # "leave"
  BY DEF PickTools, BoardsOK, ScriptOK
<1>2. CASE bench.tool = "none"
  BY <1>1, <1>2, Ends DEF PickTools
<1>3. CASE bench.tool # "none"
  <2>1. PICK swd \in BOOLEAN : host' = [host EXCEPT !.pc = "in_dfu", !.swd = swd]
                               /\ (swd => bench.link # None)
    BY <1>3 DEF PickTools
  <2>2. host' \in Running /\ host'.pc = "in_dfu" /\ host'.op = host.op /\ host'.swd = swd
    BY <2>1 DEF Running
  <2>3. ScriptOK'
    BY <1>1, <2>1, <2>2 DEF ScriptOK
  <2>4. QED
    BY <1>1, <2>2, <2>3, Plain
<1>4. QED
  BY <1>2, <1>3

LEMMA InDfuStep == ASSUME IInv, AlreadyInDfu PROVE IInv'
<1> USE DEF IInv, TypeOK
<1>1. UNCHANGED <<brd, bench, used>> /\ BoardsOK' /\ host.op # "leave"
  BY DEF AlreadyInDfu, BoardsOK, ScriptOK
<1>2. PICK pc \in {"program", "enter"} : host' = Goto(pc)
  BY DEF AlreadyInDfu
<1>3. host' \in Running /\ host'.pc = pc /\ host'.op = host.op /\ host'.swd = host.swd
  BY <1>2, Going
<1>4. ScriptOK'
  BY <1>1, <1>3 DEF ScriptOK
<1>5. QED
  BY <1>1, <1>3, <1>4, Plain

(* The request to reboot may be lost; the board it reaches clears nBOOT0.  *)
LEMMA EnterStep == ASSUME IInv, EnterBootloader PROVE IInv'
<1> USE DEF IInv, TypeOK
<1> DEFINE dev == FindCdcPort
<1>1. UNCHANGED <<bench, used>> /\ host.op # "leave"
  BY DEF EnterBootloader, ScriptOK
<1>2. CASE dev = None
  <2>1. UNCHANGED brd /\ (host' = Raise \/ host' = RecoverOrRaise)
    BY <1>2 DEF EnterBootloader
  <2>2. BoardsOK'
    BY <2>1 DEF BoardsOK
  <2>3. QED
    BY <1>1, <2>1, <2>2, Ends
<1>3. CASE dev # None
  <2>1. dev \in Boards
    <3>1. CdcInfo(host.port) \in Boards \cup {None}
      BY DEF CdcInfo
    <3>2. ASSUME Cardinality(ListCdc(host.sn)) = 1
          PROVE  (CHOOSE b \in ListCdc(host.sn) : TRUE) \in Boards
      <4>1. ListCdc(host.sn) # {}
        BY <3>2, FS_EmptySet
      <4>2. QED
        BY <4>1 DEF ListCdc
    <3>3. QED
      BY <1>3, <3>1, <3>2 DEF FindCdcPort
  <2>2. brd' \in {brd, SoftDfuOnCommand(dev)}
    BY <1>3 DEF EnterBootloader
  <2>3. host' = [host EXCEPT !.pc = "idle", !.out = "ok"] \/ host' = Goto("wait_dfu")
    BY <1>3 DEF EnterBootloader
  <2> HIDE DEF dev
  <2>4. brd' \in [Boards -> Board] /\ BoardsOK'
    <3> DEFINE r == [brd[dev] EXCEPT !.nboot = 0, !.mode = "reset", !.port = None]
    <3>1. brd[dev] \in Board
      BY <2>1
    <3>2. r \in Board /\ r.mode = "reset"
      BY <3>1 DEF Board
    <3>3. SoftDfuOnCommand(dev) = [brd EXCEPT ![dev] = r]
      BY DEF SoftDfuOnCommand
    <3> HIDE DEF r
    <3>4. CASE brd' = brd
      BY <3>4 DEF BoardsOK
    <3>5. CASE brd' = SoftDfuOnCommand(dev)
      <4>1. \A c \in Boards : brd'[c] = IF c = dev THEN r ELSE brd[c]
        BY <2>1, <3>3, <3>5
      <4>2. brd' \in [Boards -> Board]
        BY <2>1, <3>2, <3>3, <3>5
      <4>3. QED
        BY <3>2, <4>1, <4>2 DEF BoardsOK
    <3>6. QED
      BY <2>2, <3>4, <3>5
  <2>5. host' \in Running /\ host'.pc \in {"idle", "wait_dfu"} /\ host'.op = host.op
        /\ host'.swd = host.swd
    <3>1. host \in Running
      OBVIOUS
    <3>2. CASE host' = [host EXCEPT !.pc = "idle", !.out = "ok"]
      BY <3>1, <3>2 DEF Running
    <3>3. CASE host' = Goto("wait_dfu")
      BY <3>1, <3>3, Going
    <3>4. QED
      BY <2>3, <3>2, <3>3
  <2>6. ScriptOK'
    BY <1>1, <2>5 DEF ScriptOK
  <2>7. QED
    BY <1>1, <2>4, <2>5, <2>6, Plain
<1>4. QED
  BY <1>2, <1>3

LEMMA WaitDfuStep == ASSUME IInv, WaitForDfu PROVE IInv'
<1> USE DEF IInv, TypeOK
<1>1. UNCHANGED <<brd, bench, used>> /\ BoardsOK' /\ host.op # "leave"
  BY DEF WaitForDfu, BoardsOK, ScriptOK
<1>2. CASE host' = RecoverOrRaise
  BY <1>1, <1>2, Ends
<1>3. CASE host' = Goto("program")
  <2>1. host' \in Running /\ host'.pc = "program" /\ host'.op = host.op
        /\ host'.swd = host.swd
    BY <1>3, Going
  <2>2. ScriptOK'
    BY <1>1, <2>1 DEF ScriptOK
  <2>3. QED
    BY <1>1, <2>1, <2>2, Plain
<1>4. QED
  BY <1>2, <1>3 DEF WaitForDfu
-----------------------------------------------------------------------------
(* What a download makes of the board it reaches.                          *)
LEMMA WrittenIs ==
  ASSUME TypeOK, NEW b \in Boards, brd[b].mode = "dfu",
         NEW areas \in SUBSET {"app", "vt"}, NEW how \in {"new", "torn"}
  PROVE  \E r \in Board :
           /\ Written(b, areas, how) = [brd EXCEPT ![b] = r]
           /\ r.mode = "dfu" /\ r.nboot = brd[b].nboot
           /\ r.app = IF "app" \in areas THEN how ELSE brd[b].app
           /\ r.vt = IF "vt" \in areas THEN (IF how = "torn" THEN "torn" ELSE "ok")
                     ELSE brd[b].vt
           /\ r.by = host.sn
<1>1. brd[b] \in Board
  BY DEF TypeOK
<1>2. PICK a \in {"old", "torn", "new"} : a = IF "app" \in areas THEN how ELSE brd[b].app
  BY <1>1 DEF Board
<1>3. PICK v \in {"ok", "torn"} :
        v = IF "vt" \in areas THEN (IF how = "torn" THEN "torn" ELSE "ok") ELSE brd[b].vt
  BY <1>1 DEF Board
<1>4. PICK d \in DfuStates : d = IF bench.tool = "cube" THEN "upload_idle" ELSE "dnload_idle"
  BY DEF DfuStates
<1>5. PICK q \in {"base", "tramp"} : q = IF "app" \in areas THEN "base" ELSE "tramp"
  OBVIOUS
<1>0. PICK w \in Boards \cup {None} : w = host.sn
  BY DEF TypeOK, Running
<1> DEFINE r == [brd[b] EXCEPT !.app = a, !.vt = v, !.dfu = d, !.ptr = q, !.by = w]
<1>6. r \in Board /\ r.mode = "dfu" /\ r.nboot = brd[b].nboot /\ r.app = a /\ r.vt = v
      /\ r.by = w
  BY <1>1 DEF Board
<1>7. Written(b, areas, how) = [brd EXCEPT ![b] = r]
  <2>1. Written(b, areas, how) =
           [brd EXCEPT ![b].app = a, ![b].vt = v, ![b].dfu = d, ![b].ptr = q, ![b].by = w]
    BY <1>1, <1>2, <1>3, <1>4, <1>5, <1>0 DEF Written
  <2>2. QED
    BY <2>1
<1> HIDE DEF r
<1>8. QED
  BY <1>2, <1>3, <1>6, <1>7, <1>0

(* A download that goes wrong, or finds nothing to write to, ends there.   *)
LEMMA DownloadIs ==
  ASSUME IInv, NEW areas \in SUBSET {"app", "vt"}, NEW then, Download(areas, then),
         UNCHANGED bench
  PROVE  \/ IInv'
         \/ \E b \in Boards : /\ b \in FlasherSees /\ UNCHANGED used
                              /\ brd' = Written(b, areas, "new") /\ host' = Goto(then)
<1> USE DEF IInv, TypeOK
<1>1. CASE \E b \in FlasherSees : /\ brd' = Written(b, areas, "new")
                                  /\ host' = Goto(then) /\ UNCHANGED used
  BY <1>1, Seen
<1>2. CASE \E b \in FlasherSees : /\ used.errs < MaxErrors
                                  /\ used' = [used EXCEPT !.errs = @ + 1]
                                  /\ brd' = Written(b, areas, "torn")
                                  /\ host' = RecoverOrRaise
  <2>1. PICK b \in FlasherSees : brd' = Written(b, areas, "torn")
    BY <1>2
  <2>2. b \in Boards /\ brd[b].mode = "dfu" /\ "torn" \in {"new", "torn"}
    BY Seen
  <2>3. PICK r \in Board : brd' = [brd EXCEPT ![b] = r] /\ r.mode = "dfu"
                           /\ r.nboot = brd[b].nboot
    BY <2>1, <2>2, WrittenIs
  <2>4. brd' \in [Boards -> Board]
    BY <2>2, <2>3
  <2>5. \A c \in Boards : brd'[c] = IF c = b THEN r ELSE brd[c]
    BY <2>2, <2>3
  <2>6. BoardsOK'
    BY <2>2, <2>3, <2>5 DEF BoardsOK
  <2>7. used' \in [runs : Nat, power : Nat, errs : Nat]
    BY <1>2
  <2>8. QED
    BY <1>2, <2>4, <2>6, <2>7, Ends
<1>3. CASE FlasherSees = {} /\ host' = RecoverOrRaise /\ UNCHANGED <<brd, used>>
  <2>1. BoardsOK'
    BY <1>3 DEF BoardsOK
  <2>2. QED
    BY <1>3, <2>1, Ends
<1>4. QED
  BY <1>1, <1>2, <1>3 DEF Download

(* The image is on the board; dfu-util has the trampoline still to write.  *)
LEMMA ProgramStep == ASSUME IInv, Program PROVE IInv'
<1> USE DEF IInv, TypeOK
<1>1. PICK areas \in {{"app"}, {"app", "vt"}}, then \in {"leave", "leave_vt"} :
        /\ Download(areas, then)
        /\ then = IF areas = {"app"} THEN "leave_vt" ELSE "leave"
  BY DEF Program, ElfToDfuParts
<1>2. UNCHANGED bench /\ host.op # "leave" /\ areas \in SUBSET {"app", "vt"}
  BY DEF Program, ScriptOK
<1>3. SUFFICES ASSUME NEW b \in FlasherSees, UNCHANGED used,
                      brd' = Written(b, areas, "new"), host' = Goto(then)
               PROVE  IInv'
  BY <1>1, <1>2, DownloadIs
<1>4. b \in Boards /\ brd[b].mode = "dfu" /\ host.sn \in {None, b}
  BY Seen
<1>5. PICK r \in Board : /\ brd' = [brd EXCEPT ![b] = r] /\ r.mode = "dfu"
                         /\ r.nboot = brd[b].nboot /\ r.app = "new"
                         /\ (then = "leave" => r.vt = "ok")
  BY <1>1, <1>2, <1>3, <1>4, WrittenIs
<1>6. brd' \in [Boards -> Board] /\ \A c \in Boards : brd'[c] = IF c = b THEN r ELSE brd[c]
  BY <1>4, <1>5
<1>7. host' \in Running /\ host'.pc = then /\ host'.op = host.op /\ host'.swd = host.swd
      /\ host'.sn = host.sn
  BY <1>1, <1>3, Going
<1>8. TypeOK'
  BY <1>2, <1>3, <1>6, <1>7
<1>9. BoardsOK' /\ brd[b].nboot = 0
  BY <1>4, <1>5, <1>6 DEF BoardsOK
<1>10. ScriptOK'
  BY <1>1, <1>2, <1>7 DEF ScriptOK
<1>11. DevOK'
  BY <1>1, <1>7 DEF DevOK, Leaving, Towards
<1>12. FlashOK'
  BY <1>1, <1>4, <1>5, <1>6, <1>7, <1>9 DEF FlashOK, Leaving, InLoader
<1>13. QED
  BY <1>8, <1>9, <1>10, <1>11, <1>12

LEMMA ProgramVtStep == ASSUME IInv, ProgramLeaveVt PROVE IInv'
<1> USE DEF IInv, TypeOK
<1>1. Download({"vt"}, "leave") /\ UNCHANGED bench /\ host.op # "leave"
      /\ host.pc = "leave_vt"
  BY DEF ProgramLeaveVt, ElfToDfuParts, ScriptOK
<1>2. {"vt"} \in SUBSET {"app", "vt"}
  OBVIOUS
<1>3. SUFFICES ASSUME NEW b \in FlasherSees, UNCHANGED used,
                      brd' = Written(b, {"vt"}, "new"), host' = Goto("leave")
               PROVE  IInv'
  BY <1>1, <1>2, DownloadIs
<1>4. b \in Boards /\ brd[b].mode = "dfu" /\ host.sn \in {None, b}
  BY Seen
<1>5. PICK r \in Board : /\ brd' = [brd EXCEPT ![b] = r] /\ r.mode = "dfu"
                         /\ r.nboot = brd[b].nboot /\ r.app = brd[b].app
                         /\ r.vt = "ok"
  <2>1. PICK areas \in SUBSET {"app", "vt"}, how \in {"new", "torn"} :
          areas = {"vt"} /\ how = "new"
    OBVIOUS
  <2>2. brd' = Written(b, areas, how)
    BY <1>3, <2>1
  <2>3. "vt" \in areas /\ "app" \notin areas /\ how # "torn"
    BY <2>1
  <2>4. QED
    BY <1>4, <2>2, <2>3, WrittenIs
<1>6. brd' \in [Boards -> Board] /\ \A c \in Boards : brd'[c] = IF c = b THEN r ELSE brd[c]
  BY <1>4, <1>5
<1>7. host' \in Running /\ host'.pc = "leave" /\ host'.op = host.op
      /\ host'.swd = host.swd /\ host'.sn = host.sn
  BY <1>3, Going
<1>8. TypeOK'
  BY <1>1, <1>3, <1>6, <1>7
<1>9. BoardsOK' /\ brd[b].nboot = 0
  BY <1>4, <1>5, <1>6 DEF BoardsOK
<1>10. ScriptOK'
  BY <1>1, <1>7 DEF ScriptOK
<1>11. DevOK'
  BY <1>7 DEF DevOK, Leaving, Towards
<1>12. FlashOK'
  BY <1>1, <1>4, <1>5, <1>6, <1>7, <1>9 DEF FlashOK, Leaving, InLoader
<1>13. QED
  BY <1>8, <1>9, <1>10, <1>11, <1>12

(* Over SWD: the board on the probe, whose boot option stays what it is.   *)
LEMMA SwdStep == ASSUME IInv, FlashViaSwd PROVE IInv'
<1> USE DEF IInv, TypeOK
<1>1. PICK b \in Boards : b = bench.link /\ host.op # "leave" /\ UNCHANGED bench
  BY DEF FlashViaSwd, ScriptOK
<1> DEFINE r(how) == [brd[b] EXCEPT !.app = how, !.mode = "reset",
                        !.vt = IF how = "new" THEN "ok" ELSE "torn", !.port = None,
                        !.by = None]
           w(how) == [brd EXCEPT ![b].app = how, ![b].mode = "reset",
                        ![b].vt = IF how = "new" THEN "ok" ELSE "torn",
                        ![b].port = None, ![b].by = None]
<1>2. brd[b] \in Board
  BY <1>1
<1>3. \A how \in {"new", "torn"} : r(how) \in Board /\ r(how).mode = "reset"
         /\ r(how).nboot = brd[b].nboot /\ r(how).app = how
  <2> TAKE how \in {"new", "torn"}
  <2>1. PICK v \in {"ok", "torn"} : v = IF how = "new" THEN "ok" ELSE "torn"
    OBVIOUS
  <2>2. r(how) = [brd[b] EXCEPT !.app = how, !.mode = "reset", !.vt = v, !.port = None,
                                 !.by = None]
    BY <2>1
  <2>3. QED
    BY <1>2, <2>2 DEF Board
<1>4. \A how \in {"new", "torn"} : w(how) = [brd EXCEPT ![b] = r(how)]
  OBVIOUS
<1>5. PICK how \in {"new", "torn"} : /\ brd' = w(how)
        /\ \/ how = "new" /\ host' = Goto("swd_cdc") /\ UNCHANGED used
           \/ /\ used' = [used EXCEPT !.errs = @ + 1] /\ host' = Raise
  BY <1>1 DEF FlashViaSwd
<1> HIDE DEF w, r
<1>6. brd' \in [Boards -> Board] /\ \A c \in Boards : brd'[c] = IF c = b THEN r(how) ELSE brd[c]
  BY <1>1, <1>3, <1>4, <1>5
<1>7. BoardsOK'
  BY <1>3, <1>6 DEF BoardsOK
<1>8. CASE host' = Raise /\ used' = [used EXCEPT !.errs = @ + 1]
  <2>1. used' \in [runs : Nat, power : Nat, errs : Nat]
    BY <1>8
  <2>2. QED
    BY <1>1, <1>6, <1>7, <1>8, <2>1, Ends
<1>9. CASE how = "new" /\ host' = Goto("swd_cdc") /\ UNCHANGED used
  <2>1. host' \in Running /\ host'.pc = "swd_cdc" /\ host'.op = host.op
        /\ host'.swd = host.swd /\ host'.sn = host.sn
    BY <1>9, Going
  <2>2. TypeOK'
    BY <1>1, <1>6, <1>9, <2>1
  <2>3. ScriptOK'
    BY <1>1, <2>1, DfuAssumption DEF ScriptOK
  <2>4. DevOK'
    BY <2>1 DEF DevOK, Leaving, Towards
  <2>5. brd'[b].app = "new" /\ OutForGood(b)'
    <3>1. r(how).nboot \in {0, 1} /\ brd'[b] = r(how)
      BY <1>1, <1>3, <1>6 DEF Board
    <3>2. r(how).app = "new" /\ r(how).mode = "reset"
      BY <1>3, <1>9
    <3>3. QED
      BY <3>1, <3>2 DEF OutForGood, InLoader
  <2>6. FlashOK'
    BY <1>1, <2>1, <2>5 DEF FlashOK, Leaving
  <2>7. QED
    BY <1>7, <2>2, <2>3, <2>4, <2>6
<1>10. QED
  BY <1>5, <1>8, <1>9
-----------------------------------------------------------------------------
(* Leaving the loader.  A step of the loader that stays one, and whose     *)
(* flash stays what it is.                                                 *)
Moved(b, r) ==
  /\ brd' = [brd EXCEPT ![b] = r] /\ r \in Board /\ r.mode = brd[b].mode
  /\ r.nboot = brd[b].nboot /\ r.app = brd[b].app /\ r.vt = brd[b].vt
  /\ r.port = brd[b].port

LEMMA MovedIs ==
  ASSUME TypeOK, BoardsOK, NEW b \in Boards, NEW r, Moved(b, r)
  PROVE  /\ brd' \in [Boards -> Board] /\ BoardsOK' /\ brd'[b] = r
         /\ \A c \in Boards : /\ brd'[c].mode = brd[c].mode
                              /\ brd'[c].nboot = brd[c].nboot
                              /\ brd'[c].app = brd[c].app
                              /\ brd'[c].vt = brd[c].vt
<1>1. brd' \in [Boards -> Board] /\ \A c \in Boards : brd'[c] = IF c = b THEN r ELSE brd[c]
  BY DEF TypeOK, Moved
<1>2. QED
  BY <1>1 DEF Moved, BoardsOK

(* A change of the loader's state and address is one of these.             *)
LEMMA Loader ==
  ASSUME TypeOK, NEW b \in Boards, NEW s \in DfuStates, NEW p \in {"base", "tramp"}
  PROVE  /\ brd' = [brd EXCEPT ![b].dfu = s, ![b].ptr = p] =>
              \E r : Moved(b, r) /\ r.ptr = p
         /\ brd' = [brd EXCEPT ![b].dfu = s] =>
              \E r : Moved(b, r) /\ r.ptr = brd[b].ptr
<1> DEFINE r1 == [brd[b] EXCEPT !.dfu = s, !.ptr = p]
           r2 == [brd[b] EXCEPT !.dfu = s]
<1>1. brd[b] \in Board
  BY DEF TypeOK
<1>2. r1 \in Board /\ r1.mode = brd[b].mode /\ r1.nboot = brd[b].nboot
      /\ r1.app = brd[b].app /\ r1.vt = brd[b].vt /\ r1.port = brd[b].port /\ r1.ptr = p
  BY <1>1 DEF Board
<1>3. r2 \in Board /\ r2.mode = brd[b].mode /\ r2.nboot = brd[b].nboot
      /\ r2.app = brd[b].app /\ r2.vt = brd[b].vt /\ r2.port = brd[b].port
      /\ r2.ptr = brd[b].ptr
  BY <1>1 DEF Board
<1>4. [brd EXCEPT ![b].dfu = s, ![b].ptr = p] = [brd EXCEPT ![b] = r1]
  BY DEF TypeOK
<1>5. [brd EXCEPT ![b].dfu = s] = [brd EXCEPT ![b] = r2]
  OBVIOUS
<1> HIDE DEF r1, r2
<1>6. QED
  BY <1>2, <1>3, <1>4, <1>5 DEF Moved

(* A step of the leave sequence that goes on in it.                        *)
LEMMA Leaves ==
  ASSUME IInv, UNCHANGED bench, host.pc \in Leaving, host'.pc \in Leaving \cup {"gone"},
         host' \in Running, host'.dev = host.dev, host'.sn = host.sn, host'.op = host.op,
         host'.swd = host.swd, used' \in [runs : Nat, power : Nat, errs : Nat],
         \/ UNCHANGED brd
         \/ host.dev # None /\ \E r : Moved(host.dev, r)
         ,
         Towards("set_addr", {"set_addr", "addr_status"})' => host'.tries < 2,
         Towards("zero", {"zero", "zero_status"})' =>
            host'.tries = 2 \/ host.dev = None \/ brd'[host.dev].ptr = "tramp"
  PROVE  IInv'
<1> USE DEF IInv, TypeOK
<1>1. /\ brd' \in [Boards -> Board] /\ BoardsOK'
      /\ \A c \in Boards : /\ brd'[c].mode = brd[c].mode /\ brd'[c].nboot = brd[c].nboot
                           /\ brd'[c].app = brd[c].app /\ brd'[c].vt = brd[c].vt
  <2>1. CASE UNCHANGED brd
    BY <2>1 DEF BoardsOK
  <2>2. CASE host.dev # None /\ \E r : Moved(host.dev, r)
    <3>1. host.dev \in Boards
      BY <2>2 DEF Running
    <3>2. QED
      BY <2>2, <3>1, MovedIs
  <2>3. QED
    BY <2>1, <2>2
<1>2. host'.pc \notin {"leave_vt", "leave", "cdc", "swd", "swd_cdc", "tools", "in_dfu",
                       "enter", "wait_dfu", "program"}
      /\ "gone" \notin Leaving
  BY DEF Leaving
<1>3. ScriptOK'
  BY <1>2 DEF ScriptOK
<1>4. host.dev # None => host.dev \in Boards
  BY DEF Running
<1>5. DevOK'
  BY <1>1, <1>4 DEF DevOK
<1>6. FlashOK'
  <2> SUFFICES ASSUME host.op # "leave", host.sn # None PROVE FlashOK'
    BY DEF FlashOK
  <2>1. host.sn \in Boards
    BY DEF Running
  <2>2. brd'[host.sn].app = "new" /\ InLoader(host.sn)' /\ brd'[host.sn].vt = "ok"
    <3>1. brd[host.sn].app = "new" /\ InLoader(host.sn) /\ brd[host.sn].vt = "ok"
      BY DEF FlashOK
    <3>2. QED
      BY <1>1, <2>1, <3>1 DEF InLoader
  <2>3. QED
    BY <1>2, <2>2 DEF FlashOK, OutForGood
<1>7. QED
  BY <1>1, <1>3, <1>5, <1>6

LEMMA LeaveStep == ASSUME IInv, LeaveBootloader PROVE IInv'
<1> USE DEF IInv, TypeOK
<1>1. UNCHANGED <<brd, bench, used>> /\ BoardsOK'
  BY DEF LeaveBootloader, BoardsOK
<1>2. CASE host' = Raise
  BY <1>1, <1>2, Ends
<1>3. CASE host' # Raise
  <2>1. PICK b \in FindDfu(host.sn) :
          host' = [host EXCEPT !.pc = "wait_idle", !.back = "set_addr",
                               !.dev = b, !.polls = 0, !.tries = 0]
    BY <1>3 DEF LeaveBootloader
  <2>2. b \in Boards /\ brd[b].mode = "dfu" /\ host.sn \in {None, b}
    BY Found
  <2>3. /\ host' \in Running /\ host'.pc = "wait_idle" /\ host'.back = "set_addr"
        /\ host'.dev = b /\ host'.tries = 0 /\ host'.op = host.op /\ host'.sn = host.sn
        /\ host'.swd = host.swd
    <3>1. 0 \in 0 .. MaxPolls /\ 0 \in 0 .. 2 /\ b \in Boards \cup {None}
          /\ host \in Running
      BY <2>2, DfuAssumption
    <3>2. host' \in Running
      BY <2>1, <3>1 DEF Running, Leaving
    <3>3. QED
      BY <2>1, <3>1, <3>2 DEF Running
  <2>4. DevOK'
    BY <1>1, <2>2, <2>3 DEF DevOK, Towards
  <2>5. ScriptOK'
    BY <1>1, <2>3 DEF ScriptOK
  <2>6. FlashOK'
    BY <1>1, <2>3 DEF FlashOK, Leaving, InLoader, LeaveBootloader
  <2>7. QED
    BY <1>1, <2>3, <2>4, <2>5, <2>6
<1>4. QED
  BY <1>2, <1>3

(* wait_idle: the loader is polled, or it has gone.                        *)
LEMMA IdleStep == ASSUME IInv, WaitIdle PROVE IInv'
<1> USE DEF IInv, TypeOK
<1>1. UNCHANGED <<bench, used>> /\ host.pc = "wait_idle" /\ host.pc \in Leaving
  BY DEF WaitIdle, Leaving
<1>2. CASE Resume /\ UNCHANGED brd
  <2>1. host.back \in {"set_addr", "zero"} /\ 0 \in 0 .. MaxPolls
    BY DfuAssumption DEF Running
  <2>2. /\ host' \in Running /\ host'.pc = host.back /\ host'.tries = host.tries
        /\ host'.dev = host.dev /\ host'.sn = host.sn /\ host'.op = host.op
        /\ host'.swd = host.swd
    BY <1>2, <2>1 DEF Resume, Running, Leaving
  <2>3. host'.pc \in Leaving
    BY <2>1, <2>2 DEF Leaving
  <2>4. Towards("set_addr", {"set_addr", "addr_status"})' => host'.tries < 2
    BY <1>1, <2>1, <2>2 DEF DevOK, Towards
  <2>5. Towards("zero", {"zero", "zero_status"})' =>
            host'.tries = 2 \/ host.dev = None \/ brd'[host.dev].ptr = "tramp"
    BY <1>1, <1>2, <2>1, <2>2 DEF DevOK, Towards
  <2>6. QED
    BY <1>1, <1>2, <2>2, <2>3, <2>4, <2>5, Leaves
<1>3. CASE host' = Raise /\ UNCHANGED brd
  <2>1. BoardsOK'
    BY <1>3 DEF BoardsOK
  <2>2. QED
    BY <1>1, <1>3, <2>1, Ends
<1>4. CASE InRom /\ host.polls # MaxPolls /\ Again
           /\ \E t \in DfuStates : brd' = [brd EXCEPT ![host.dev].dfu = t]
  <2>1. host.dev \in Boards /\ host.dev # None
    BY <1>4 DEF InRom, Running
  <2>2. host.polls + 1 \in 0 .. MaxPolls
    BY <1>4, DfuAssumption DEF Running
  <2>3. /\ host' \in Running /\ host'.pc = host.pc /\ host'.tries = host.tries
        /\ host'.dev = host.dev /\ host'.sn = host.sn /\ host'.op = host.op
        /\ host'.swd = host.swd /\ host'.back = host.back
    BY <1>4, <2>2 DEF Again, Running
  <2>4. PICK r : Moved(host.dev, r) /\ r.ptr = brd[host.dev].ptr
    BY <1>4, <2>1, Loader
  <2>5. brd'[host.dev] = r
    BY <2>1, <2>4, MovedIs
  <2>6. Towards("set_addr", {"set_addr", "addr_status"})' => host'.tries < 2
    BY <2>3 DEF DevOK, Towards
  <2>7. Towards("zero", {"zero", "zero_status"})' =>
            host'.tries = 2 \/ host.dev = None \/ brd'[host.dev].ptr = "tramp"
    BY <2>3, <2>4, <2>5 DEF DevOK, Towards
  <2>8. QED
    BY <1>1, <2>1, <2>3, <2>4, <2>6, <2>7, Leaves
<1>5. ASSUME InRom, host.polls # MaxPolls, ~(Resume /\ UNCHANGED brd)
      PROVE  Again /\ \E t \in DfuStates : brd' = [brd EXCEPT ![host.dev].dfu = t]
  <2>1. CASE brd[host.dev].dfu \in Busy /\ Again /\ brd' = RomAnswer(host.dev)
    <3> DEFINE s == brd[host.dev].dfu
               t == CASE s = "dnload_sync" -> "dnbusy" [] s = "dnbusy" -> "dnload_idle"
                      [] OTHER -> s
    <3>1. t \in DfuStates
      BY <2>1 DEF DfuStates, Busy
    <3>2. brd' = [brd EXCEPT ![host.dev].dfu = t]
      BY <2>1 DEF RomAnswer
    <3> HIDE DEF t
    <3>3. QED
      BY <2>1, <3>1, <3>2
  <2>2. CASE brd[host.dev].dfu \in {"error", "upload_idle"} /\ Again
             /\ \E t \in {brd[host.dev].dfu, "idle"} : brd' = [brd EXCEPT ![host.dev].dfu = t]
    BY <2>2 DEF DfuStates
  <2>3. QED
    BY <1>5, <2>1, <2>2 DEF WaitIdle
<1>6. QED
  BY <1>2, <1>3, <1>4, <1>5 DEF WaitIdle
LEMMA AddressStep == ASSUME IInv, SetAddress PROVE IInv'
<1> USE DEF IInv, TypeOK
<1>1. /\ UNCHANGED <<bench, used>> /\ host.pc = "set_addr" /\ host.tries \in {0, 1}
      /\ host.pc \in Leaving
  BY DEF SetAddress, DevOK, Towards, Running, Leaving
<1>2. CASE InRom
  <2>1. host.dev \in Boards /\ host.dev # None /\ "dnload_sync" \in DfuStates
    BY <1>2 DEF InRom, Running, DfuStates, Busy
  <2>2. \E r : Moved(host.dev, r)
    BY <1>2, <2>1, Loader DEF SetAddress
  <2>3. /\ host' \in Running /\ host'.pc = "addr_status" /\ host'.tries = host.tries
        /\ host'.dev = host.dev /\ host'.sn = host.sn /\ host'.op = host.op
        /\ host'.swd = host.swd
    BY <1>2, Going DEF SetAddress, Leaving
  <2>4. QED
    BY <1>1, <2>1, <2>2, <2>3, Leaves DEF Towards, Leaving
<1>3. CASE ~InRom /\ host.tries = 0
  <2>1. 0 \in 0 .. MaxPolls /\ host.polls \in 0 .. MaxPolls
    BY DfuAssumption DEF Running
  <2>2. host' = [host EXCEPT !.pc = "wait_idle", !.tries = 1, !.back = "set_addr", !.polls = 0]
        /\ UNCHANGED brd
    BY <1>3 DEF SetAddress
  <2>3. /\ host' \in Running /\ host'.pc = "wait_idle" /\ host'.tries = 1
        /\ host'.back = "set_addr" /\ host'.dev = host.dev /\ host'.sn = host.sn
        /\ host'.op = host.op /\ host'.swd = host.swd
    <3>1. 1 \in 0 .. 2 /\ host \in Running
      OBVIOUS
    <3>2. host' \in Running
      BY <2>1, <2>2, <3>1 DEF Running, Leaving
    <3>3. QED
      BY <2>2, <3>1, <3>2 DEF Running
  <2>4. QED
    BY <1>1, <2>2, <2>3, Leaves DEF Towards, Leaving
<1>4. CASE ~InRom /\ host.tries # 0
  <2>1. host' = Raise /\ UNCHANGED brd
    BY <1>4 DEF SetAddress
  <2>2. BoardsOK'
    BY <2>1 DEF BoardsOK
  <2>3. QED
    BY <1>1, <2>1, <2>2, Ends
<1>5. QED
  BY <1>2, <1>3, <1>4

(* A refusal counts, and leads back to the address or on to the jump.      *)
LEMMA Refused ==
  ASSUME host \in Running, NEW n \in 0 .. 2, NEW back \in {"set_addr", "zero"},
         0 \in 0 .. MaxPolls,
         host' = [host EXCEPT !.pc = "wait_idle", !.polls = 0, !.tries = n, !.back = back]
  PROVE  /\ host' \in Running /\ host'.pc = "wait_idle" /\ host'.tries = n
         /\ host'.back = back /\ host'.dev = host.dev /\ host'.sn = host.sn
         /\ host'.op = host.op /\ host'.swd = host.swd
BY DEF Running, Leaving

(* The address is that of the trampoline, or it was refused.               *)
LEMMA AddressStatusStep == ASSUME IInv, AddressStatus PROVE IInv'
<1> USE DEF IInv, TypeOK
<1>1. /\ UNCHANGED bench /\ host.pc = "addr_status" /\ host.tries \in {0, 1}
      /\ host.pc \in Leaving
  BY DEF AddressStatus, DevOK, Towards, Running, Leaving
<1>2. 0 \in 0 .. MaxPolls
  BY DfuAssumption
<1>3. CASE ~InRom /\ host' = Goto("gone") /\ UNCHANGED <<brd, used>>
  <2>1. /\ host' \in Running /\ host'.pc = "gone" /\ host'.tries = host.tries
        /\ host'.dev = host.dev /\ host'.sn = host.sn /\ host'.op = host.op
        /\ host'.swd = host.swd
    BY <1>3, Going
  <2>2. QED
    BY <1>1, <1>3, <2>1, Leaves DEF Towards
<1>4. CASE /\ InRom /\ UNCHANGED used
           /\ \E s \in {"dnbusy", "dnload_idle"} :
                brd' = [brd EXCEPT ![host.dev].dfu = s, ![host.dev].ptr = "tramp"]
           /\ host' = [host EXCEPT !.pc = "wait_idle", !.back = "zero", !.polls = 0]
  <2>1. host.dev \in Boards /\ host.dev # None
    BY <1>4 DEF InRom, Running
  <2>2. PICK s \in {"dnbusy", "dnload_idle"} :
          brd' = [brd EXCEPT ![host.dev].dfu = s, ![host.dev].ptr = "tramp"]
    BY <1>4
  <2>3. s \in DfuStates
    BY DEF DfuStates, Busy
  <2>4. PICK r : Moved(host.dev, r) /\ r.ptr = "tramp"
    BY <2>1, <2>2, <2>3, Loader
  <2>5. brd'[host.dev].ptr = "tramp"
    BY <2>1, <2>4, MovedIs
  <2>6. /\ host' \in Running /\ host'.pc = "wait_idle" /\ host'.tries = host.tries
        /\ host'.back = "zero" /\ host'.dev = host.dev /\ host'.sn = host.sn
        /\ host'.op = host.op /\ host'.swd = host.swd
    BY <1>2, <1>4 DEF Running, Leaving
  <2>7. QED
    BY <1>1, <1>4, <2>1, <2>4, <2>5, <2>6, Leaves DEF Towards, Leaving
<1>5. CASE /\ InRom /\ used' = [used EXCEPT !.errs = @ + 1]
           /\ \E s \in {"idle", "error"} : brd' = [brd EXCEPT ![host.dev].dfu = s]
           /\ host' = [host EXCEPT !.pc = "wait_idle", !.polls = 0, !.tries = @ + 1,
                         !.back = IF host.tries = 0 THEN "set_addr" ELSE "zero"]
  <2>1. host.dev \in Boards /\ host.dev # None
    BY <1>5 DEF InRom, Running
  <2>2. PICK s \in {"idle", "error"} : brd' = [brd EXCEPT ![host.dev].dfu = s]
    BY <1>5
  <2>3. s \in DfuStates
    BY DEF DfuStates
  <2>4. \E r : Moved(host.dev, r)
    BY <2>1, <2>2, <2>3, Loader
  <2>5. /\ host' \in Running /\ host'.pc = "wait_idle" /\ host'.tries = host.tries + 1
        /\ host'.back = (IF host.tries = 0 THEN "set_addr" ELSE "zero")
        /\ host'.dev = host.dev /\ host'.sn = host.sn /\ host'.op = host.op
        /\ host'.swd = host.swd
    <3>1. host.tries + 1 \in 0 .. 2 /\ host \in Running
      BY <1>1
    <3>2. PICK n \in 0 .. 2, back \in {"set_addr", "zero"} :
            /\ n = host.tries + 1 /\ back = IF host.tries = 0 THEN "set_addr" ELSE "zero"
            /\ host' = [host EXCEPT !.pc = "wait_idle", !.polls = 0, !.tries = n,
                                    !.back = back]
      BY <1>5, <3>1
    <3>3. QED
      BY <1>2, <3>1, <3>2, Refused
  <2>6. Towards("set_addr", {"set_addr", "addr_status"})' => host'.tries < 2
    BY <1>1, <2>5 DEF Towards
  <2>7. Towards("zero", {"zero", "zero_status"})' => host'.tries = 2
    BY <1>1, <2>5 DEF Towards
  <2>8. used' \in [runs : Nat, power : Nat, errs : Nat]
    BY <1>5
  <2>9. host'.pc \in Leaving
    BY <2>5 DEF Leaving
  <2>10. QED
    BY <1>1, <2>1, <2>4, <2>5, <2>6, <2>7, <2>8, <2>9, Leaves
<1>6. QED
  BY <1>3, <1>4, <1>5 DEF AddressStatus

LEMMA ZeroStep == ASSUME IInv, ZeroDownload PROVE IInv'
<1> USE DEF IInv, TypeOK
<1>1. UNCHANGED <<bench, used>> /\ host.pc = "zero" /\ host.pc \in Leaving
  BY DEF ZeroDownload, Leaving
<1>2. CASE InRom
  <2>1. host.dev \in Boards /\ host.dev # None /\ "manifest_sync" \in DfuStates
    BY <1>2 DEF InRom, Running, DfuStates, Busy
  <2>2. PICK r : Moved(host.dev, r) /\ r.ptr = brd[host.dev].ptr
    BY <1>2, <2>1, Loader DEF ZeroDownload
  <2>3. brd'[host.dev].ptr = brd[host.dev].ptr
    BY <2>1, <2>2, MovedIs
  <2>4. /\ host' \in Running /\ host'.pc = "zero_status" /\ host'.tries = host.tries
        /\ host'.dev = host.dev /\ host'.sn = host.sn /\ host'.op = host.op
        /\ host'.swd = host.swd
    BY <1>2, Going DEF ZeroDownload, Leaving
  <2>5. host'.tries = 2 \/ brd'[host.dev].ptr = "tramp"
    BY <1>1, <2>1, <2>3, <2>4 DEF DevOK, Towards
  <2>6. QED
    BY <1>1, <2>1, <2>2, <2>4, <2>5, Leaves DEF Towards, Leaving
<1>3. CASE ~InRom
  <2>1. host' = Goto("gone") /\ UNCHANGED brd
    BY <1>3 DEF ZeroDownload
  <2>2. /\ host' \in Running /\ host'.pc = "gone" /\ host'.tries = host.tries
        /\ host'.dev = host.dev /\ host'.sn = host.sn /\ host'.op = host.op
        /\ host'.swd = host.swd
    BY <2>1, Going
  <2>3. QED
    BY <1>1, <2>1, <2>2, Leaves DEF Towards
<1>4. QED
  BY <1>2, <1>3

(* The jump: through the trampoline, which is whole on the board that was  *)
(* flashed, to a reset that starts the application.                        *)
LEMMA JumpStep == ASSUME IInv, ZeroStatus PROVE IInv'
<1> USE DEF IInv, TypeOK
<1>1. UNCHANGED <<bench, used>> /\ host.pc = "zero_status" /\ host.pc \in Leaving
      /\ host' = Goto("gone")
  BY DEF ZeroStatus, Leaving
<1>2. /\ host' \in Running /\ host'.pc = "gone" /\ host'.tries = host.tries
      /\ host'.dev = host.dev /\ host'.sn = host.sn /\ host'.op = host.op
      /\ host'.swd = host.swd
  BY <1>1, Going
<1>3. CASE UNCHANGED brd
  BY <1>1, <1>2, <1>3, Leaves DEF Towards
<1>4. CASE InRom /\ brd' \in RomJump(host.dev)
  <2> DEFINE b == host.dev
  <2>1. b \in Boards /\ b # None /\ brd[b] \in Board /\ brd[b].mode = "dfu"
    BY <1>4 DEF InRom, Running
  <2>2. PICK r \in Board :
          /\ brd' = [brd EXCEPT ![b] = r] /\ r.mode \in {"reset", "dead", "app"}
          /\ r.app = brd[b].app /\ (r.mode = "app" => r.port # None /\ r.app # "torn")
          /\ (brd[b].ptr = "tramp" /\ brd[b].vt = "ok" => r.nboot = 1)
    <3>1. CASE brd' = [brd EXCEPT ![b].nboot = 1, ![b].mode = "reset"]
      <4> DEFINE r == [brd[b] EXCEPT !.nboot = 1, !.mode = "reset"]
      <4>1. r \in Board /\ r.mode = "reset" /\ r.app = brd[b].app /\ r.nboot = 1
        BY <2>1 DEF Board
      <4>2. brd' = [brd EXCEPT ![b] = r]
        BY <3>1
      <4> HIDE DEF r
      <4>3. QED
        BY <4>1, <4>2
    <3>2. CASE brd' = [brd EXCEPT ![b].mode = "dead"]
               /\ ~(brd[b].ptr = "tramp" /\ brd[b].vt = "ok")
      <4> DEFINE r == [brd[b] EXCEPT !.mode = "dead"]
      <4>1. r \in Board /\ r.mode = "dead" /\ r.app = brd[b].app
        BY <2>1 DEF Board
      <4>2. brd' = [brd EXCEPT ![b] = r]
        BY <3>2
      <4> HIDE DEF r
      <4>3. QED
        BY <3>2, <4>1, <4>2
    <3>3. ASSUME NEW p \in FreePorts, brd' = [brd EXCEPT ![b].mode = "app", ![b].port = p],
                 brd[b].ptr # "tramp", brd[b].app # "torn"
          PROVE  \E r \in Board :
                    /\ brd' = [brd EXCEPT ![b] = r] /\ r.mode \in {"reset", "dead", "app"}
                    /\ r.app = brd[b].app /\ (r.mode = "app" => r.port # None /\ r.app # "torn")
                    /\ (brd[b].ptr = "tramp" /\ brd[b].vt = "ok" => r.nboot = 1)
      <4> DEFINE r == [brd[b] EXCEPT !.mode = "app", !.port = p]
      <4>1. p \in Ports /\ p # None
        BY DfuAssumption DEF FreePorts
      <4>2. r \in Board /\ r.mode = "app" /\ r.app = brd[b].app /\ r.port = p
        BY <2>1, <4>1 DEF Board
      <4>3. brd' = [brd EXCEPT ![b] = r]
        BY <3>3
      <4> HIDE DEF r
      <4>4. QED
        BY <3>3, <4>1, <4>2, <4>3
    <3>4. QED
      BY <1>4, <3>1, <3>2, <3>3 DEF RomJump, LeaveReset, JumpToBase
  <2>3. brd' \in [Boards -> Board] /\ \A c \in Boards : brd'[c] = IF c = b THEN r ELSE brd[c]
    BY <2>1, <2>2
  <2> HIDE DEF b
  <2>4. TypeOK' /\ BoardsOK'
    <3>1. TypeOK'
      BY <1>1, <1>2, <2>3
    <3>2. ASSUME NEW c \in Boards
          PROVE  /\ brd'[c].mode = "dfu" => brd'[c].nboot = 0
                 /\ brd'[c].mode = "app" => brd'[c].port # None /\ brd'[c].app # "torn"
      <4>1. CASE c = b
        BY <2>2, <2>3, <4>1
      <4>2. CASE c # b
        BY <2>3, <4>2 DEF BoardsOK
      <4>3. QED
        BY <4>1, <4>2
    <3>3. QED
      BY <3>1, <3>2 DEF BoardsOK
  <2>5. ScriptOK'
    BY <1>1, <1>2 DEF ScriptOK
  <2>6. DevOK'
    BY <1>2 DEF DevOK, Leaving, Towards
  <2>7. FlashOK'
    <3> SUFFICES ASSUME host.op # "leave", host.sn # None PROVE FlashOK'
      BY <1>2 DEF FlashOK
    <3>1. host.sn = b
      BY <1>1, <2>1 DEF DevOK, b
    <3>2. brd[b].app = "new" /\ brd[b].vt = "ok"
      BY <1>1, <3>1 DEF FlashOK
    <3>3. host.tries = 2 \/ brd[b].ptr = "tramp"
      BY <1>1, <2>1 DEF DevOK, Towards, b
    <3>4. brd'[b] = r /\ host'.sn = b
      BY <1>2, <2>1, <2>3, <3>1
    <3>5. brd'[host.sn].app = "new" /\ (host.tries = 2 \/ OutForGood(host.sn)')
      BY <2>2, <3>1, <3>2, <3>3, <3>4, <1>2 DEF OutForGood
    <3>6. QED
      BY <1>2, <3>1, <3>5 DEF FlashOK, Leaving
  <2>8. QED
    BY <2>4, <2>5, <2>6, <2>7
<1>5. QED
  BY <1>3, <1>4 DEF ZeroStatus
-----------------------------------------------------------------------------
(* The application again.                                                  *)
LEMMA GoneStep == ASSUME IInv, WaitGone PROVE IInv'
<1> USE DEF IInv, TypeOK
<1>1. UNCHANGED <<brd, bench, used>> /\ BoardsOK' /\ host.pc = "gone"
  BY DEF WaitGone, BoardsOK
<1>2. CASE host.op = "leave"
  <2>1. PICK out \in {"ok", "error"} : host' = [host EXCEPT !.pc = "idle", !.out = out]
    BY <1>2 DEF WaitGone
  <2>2. host' \in Running /\ host'.pc = "idle" /\ host'.op = host.op /\ host'.swd = host.swd
    BY <2>1 DEF Running
  <2>3. ScriptOK'
    BY <1>1, <2>2 DEF ScriptOK
  <2>4. QED
    BY <1>1, <2>2, <2>3, Plain
<1>3. CASE host.op # "leave" /\ host' = RecoverOrRaise
  BY <1>1, <1>3, Ends
<1>4. CASE host.op # "leave" /\ host' = Goto("cdc")
  <2>1. /\ host' \in Running /\ host'.pc = "cdc" /\ host'.tries = host.tries
        /\ host'.sn = host.sn /\ host'.op = host.op /\ host'.swd = host.swd
    BY <1>4, Going
  <2>2. ScriptOK'
    BY <1>1, <1>4, <2>1 DEF ScriptOK
  <2>3. DevOK'
    BY <2>1 DEF DevOK, Leaving, Towards
  <2>4. FlashOK'
    BY <1>1, <2>1 DEF FlashOK, Leaving, OutForGood, InLoader
  <2>5. QED
    BY <1>1, <2>1, <2>2, <2>3, <2>4
<1>5. QED
  BY <1>2, <1>3, <1>4 DEF WaitGone

LEMMA CdcStep == ASSUME IInv, WaitForCdc PROVE IInv'
<1> USE DEF IInv, TypeOK
<1>1. UNCHANGED <<brd, bench, used>> /\ BoardsOK' /\ host.op # "leave"
  BY DEF WaitForCdc, BoardsOK, ScriptOK
<1>2. CASE ListCdc(host.sn) = {}
  <2>1. host' = Raise \/ host' = RecoverOrRaise
    BY <1>2 DEF WaitForCdc
  <2>2. QED
    BY <1>1, <2>1, Ends
<1>3. CASE ListCdc(host.sn) # {}
  <2>1. FirstCdc(host.sn) \in Ports \cup {None}
    BY <1>3, First DEF ListCdc, Board
  <2>2. host' = [host EXCEPT !.pc = "listen", !.port = FirstCdc(host.sn)]
    BY <1>3 DEF WaitForCdc
  <2>3. host' \in Running /\ host'.pc = "listen" /\ host'.op = host.op
        /\ host'.swd = host.swd
    BY <2>1, <2>2 DEF Running
  <2>4. ScriptOK'
    BY <1>1, <2>3 DEF ScriptOK
  <2>5. QED
    BY <1>1, <2>3, <2>4, Plain
<1>4. QED
  BY <1>2, <1>3

LEMMA AfterStep ==
  ASSUME IInv, PostFlashListenPdu \/ PcbStatus \/ NextCycle PROVE IInv'
<1> USE DEF IInv, TypeOK
<1>1. UNCHANGED <<brd, bench, used>> /\ BoardsOK'
      /\ host.pc \in {"listen", "status", "next"}
  BY DEF PostFlashListenPdu, PcbStatus, NextCycle, BoardsOK
<1>2. /\ host' \in Running /\ host'.pc \in {"status", "idle", "next", "identify"}
      /\ host'.op = host.op /\ host'.swd \in {FALSE, host.swd}
  <2>1. host \in Running
    OBVIOUS
  <2>2. CASE PostFlashListenPdu
    <3>1. PICK pc \in {"status", "idle"} : host' = [host EXCEPT !.pc = pc, !.out = "ok"]
      BY <2>2 DEF PostFlashListenPdu
    <3>2. QED
      BY <2>1, <3>1 DEF Running
  <2>3. CASE PcbStatus
    <3>1. CASE host' = Goto("next")
      BY <2>1, <3>1, Going
    <3>2. CASE host' = Raise
      <4>1. PICK pc \in {"next", "idle"} : host' = [host EXCEPT !.pc = pc, !.out = "error"]
        BY <3>2 DEF Raise
      <4>2. QED
        BY <2>1, <4>1 DEF Running
    <3>3. QED
      BY <2>3, <3>1, <3>2 DEF PcbStatus
  <2>4. CASE NextCycle
    <3>1. CASE host' = Goto("idle")
      BY <2>1, <3>1, Going
    <3>2. CASE /\ host.left > 1
               /\ host' = [host EXCEPT !.pc = "identify", !.left = @ - 1,
                             !.sn = None, !.swd = FALSE, !.out = "none"]
      <4>1. host.left - 1 \in Nat
        BY <2>1, <3>2 DEF Running
      <4>2. QED
        BY <2>1, <3>2, <4>1 DEF Running
    <3>3. QED
      BY <2>4, <3>1, <3>2 DEF NextCycle
  <2>5. QED
    BY <2>2, <2>3, <2>4
<1>3. TypeOK'
  BY <1>1, <1>2
<1>4. ScriptOK'
  BY <1>1, <1>2 DEF ScriptOK
<1>5. QED
  BY <1>1, <1>2, <1>3, <1>4, Plain

LEMMA Step == ASSUME IInv, [Next]_vars PROVE IInv'
<1>1. CASE UserCommand
  BY <1>1, CommandStep
<1>2. ASSUME NEW b \in Boards, Boot(b) \/ PowerCycle(b) PROVE IInv'
  BY <1>2, BootStep, PowerStep
<1>3. CASE HostStep
  BY <1>3, IdentityStep, ToolsStep, InDfuStep, EnterStep, WaitDfuStep, ProgramStep,
     ProgramVtStep, SwdStep, LeaveStep, IdleStep, AddressStep, AddressStatusStep,
     ZeroStep, JumpStep, GoneStep, CdcStep, AfterStep DEF HostStep
<1>4. CASE UNCHANGED vars
  BY <1>4 DEF vars, IInv, TypeOK, BoardsOK, ScriptOK, DevOK, Towards, FlashOK, InLoader,
     OutForGood
<1>5. QED
  BY <1>1, <1>2, <1>3, <1>4 DEF Next

(* At the start nothing has been asked for.                                *)
LEMMA Start == ASSUME Init PROVE IInv
<1>1. host \in Running
  <2>1. 0 \in 0 .. MaxPolls /\ 0 \in 0 .. 2 /\ 0 \in Nat
    BY DfuAssumption
  <2>2. QED
    BY <2>1 DEF Init, Running
<1>2. PICK rom \in SUBSET Boards, at \in Injection(Boards, Ports) : \E torn \in SUBSET rom :
        brd = [b \in Boards |->
              [mode |-> IF b \in rom THEN "dfu" ELSE "app",
               nboot |-> IF b \in rom THEN 0 ELSE 1,
               app |-> IF b \in torn THEN "torn" ELSE "old",
               vt |-> "ok", dfu |-> "idle", ptr |-> "base",
               port |-> IF b \in rom THEN None ELSE at[b], by |-> None]]
  BY DEF Init
<1>3. at \in [Boards -> Ports]
  BY DEF Injection
<1> PICK torn \in SUBSET rom :
        brd = [b \in Boards |->
              [mode |-> IF b \in rom THEN "dfu" ELSE "app",
               nboot |-> IF b \in rom THEN 0 ELSE 1,
               app |-> IF b \in torn THEN "torn" ELSE "old",
               vt |-> "ok", dfu |-> "idle", ptr |-> "base",
               port |-> IF b \in rom THEN None ELSE at[b], by |-> None]]
  BY <1>2
<1>4. brd \in [Boards -> Board]
  BY <1>2, <1>3 DEF Board, DfuStates
<1>5. BoardsOK
  BY <1>2, <1>3, DfuAssumption DEF BoardsOK
<1>6. TypeOK
  BY <1>1, <1>4 DEF TypeOK, Init
<1>7. ScriptOK /\ DevOK /\ FlashOK
  BY DEF Init, ScriptOK, DevOK, FlashOK, Leaving, Towards
<1>8. QED
  BY <1>5, <1>6, <1>7 DEF IInv

(* What the command, its board and the handle on the loader have to do     *)
(* with each other at every step (flash_firmware, leave_bootloader).       *)
THEOREM DfuInvariant == Spec => []IInv
BY Start, Step, PTL DEF Spec

LEMMA TypesHold == ASSUME IInv PROVE TypeOK
BY DEF IInv

-----------------------------------------------------------------------------
(* A flash that names its board and returns, returns the port of that      *)
(* board, which runs the new image and boots it again (flash_firmware,     *)
(* leave_bootloader, _dfu_leave, wait_for_cdc).                            *)
THEOREM OkIsFlashed == Spec => OkMeansFlashed
<1>1. ASSUME IInv, Next, FlashReturns, host.sn # None,
             bench.link \in {None, host.sn}, host.tries < 2
      PROVE  LET b == brd[host.sn]
             IN  /\ b.app = "new" /\ b.mode = "app" /\ b.nboot = 1
                 /\ host'.port = b.port
  <2>1. host.pc \in {"cdc", "swd_cdc"} /\ host'.pc = "listen"
    BY <1>1 DEF FlashReturns
  <2>2. host \in Running /\ brd \in [Boards -> Board]
    <3>1. TypeOK
      BY <1>1, TypesHold
    <3>2. QED
      BY <3>1, Zenon DEF TypeOK
  <2>3. WaitForCdc
    <3>1. ASSUME NEW b \in Boards PROVE ~Boot(b) /\ ~PowerCycle(b)
      <4>1. host'.pc # host.pc
        BY <2>1
      <4>2. ASSUME NEW d, host' = [host EXCEPT !.dev = d] PROVE FALSE
        BY <2>2, <4>1, <4>2 DEF Running
      <4>3. PowerCycle(b) => \E d : host' = [host EXCEPT !.dev = d]
        BY DEF PowerCycle
      <4>4. ~Boot(b)
        BY <4>1 DEF Boot
      <4>5. QED
        BY <4>2, <4>3, <4>4
    <3>2. ~UserCommand
      BY <2>1 DEF UserCommand, Command
    <3>3. QED
      BY <1>1, <2>1, <3>1, <3>2 DEF Next, HostStep, ResolveFlashIdentity, PickTools,
         AlreadyInDfu, EnterBootloader, WaitForDfu, Program, ProgramLeaveVt, FlashViaSwd,
         LeaveBootloader, WaitIdle, SetAddress, AddressStatus, ZeroDownload, ZeroStatus,
         WaitGone, PostFlashListenPdu, PcbStatus, NextCycle
  <2>4. ListCdc(host.sn) # {}
    <3>1. Raise.pc # "listen" /\ RecoverOrRaise.pc # "listen"
      BY <2>2 DEF Raise, RecoverOrRaise, Goto, Running
    <3>2. QED
      BY <2>1, <2>3, <3>1 DEF WaitForCdc
  <2>5. PICK b \in ListCdc(host.sn) : FirstCdc(host.sn) = brd[b].port
    BY <1>1, <2>4, First DEF IInv
  <2>6. b = host.sn /\ b \in Boards /\ brd[b].mode = "app"
    BY <1>1, <2>5 DEF ListCdc
  <2>7. host'.port = brd[b].port
    BY <2>2, <2>3, <2>4, <2>5 DEF WaitForCdc, Running
  <2>8. host.op # "leave"
    BY <1>1, <2>1 DEF IInv, ScriptOK
  <2>9. bench.link = host.sn \/ host.pc = "cdc"
    BY <1>1, <2>1, <2>2 DEF IInv, ScriptOK, Running, TypeOK
  <2>10. brd[b].app = "new" /\ OutForGood(b)
    BY <1>1, <2>1, <2>6, <2>8, <2>9 DEF IInv, FlashOK
  <2>11. QED
    BY <2>6, <2>7, <2>10 DEF OutForGood, InLoader
<1>2. IInv /\ [Next]_vars =>
        [FlashReturns /\ host.sn # None /\ bench.link \in {None, host.sn}
           /\ host.tries < 2 =>
           LET b == brd[host.sn]
           IN  /\ b.app = "new" /\ b.mode = "app" /\ b.nboot = 1
               /\ host'.port = b.port]_vars
  BY <1>1
<1>3. QED
  BY <1>2, DfuInvariant, PTL DEF Spec, OkMeansFlashed

(* What a step that edits a board leaves alone.                            *)
LEMMA Edits ==
  ASSUME TypeOK, NEW b \in Boards, NEW c, NEW x, NEW y
  PROVE  /\ brd' = [brd EXCEPT ![c].dfu = x] =>
              /\ brd'[b].app = brd[b].app /\ brd'[b].vt = brd[b].vt /\ brd'[b].by = brd[b].by
              /\ brd'[b].nboot = brd[b].nboot /\ brd'[b].mode = brd[b].mode
         /\ brd' = [brd EXCEPT ![c].dfu = x, ![c].ptr = y] =>
              /\ brd'[b].app = brd[b].app /\ brd'[b].vt = brd[b].vt /\ brd'[b].by = brd[b].by
              /\ brd'[b].nboot = brd[b].nboot /\ brd'[b].mode = brd[b].mode
         /\ brd' = [brd EXCEPT ![c].nboot = x, ![c].mode = y] =>
              brd'[b].app = brd[b].app /\ brd'[b].vt = brd[b].vt /\ brd'[b].by = brd[b].by
         /\ brd' = [brd EXCEPT ![c].mode = x] =>
              brd'[b].app = brd[b].app /\ brd'[b].vt = brd[b].vt /\ brd'[b].by = brd[b].by
         /\ brd' = [brd EXCEPT ![c].mode = x, ![c].port = y] =>
              brd'[b].app = brd[b].app /\ brd'[b].vt = brd[b].vt /\ brd'[b].by = brd[b].by
<1>1. brd \in [Boards -> Board] /\ brd[b] \in Board
  BY DEF TypeOK
<1>2. CASE c = b
  BY <1>1, <1>2 DEF Board
<1>3. CASE c # b
  BY <1>1, <1>3
<1>4. QED
  BY <1>2, <1>3

LEMMA Asked ==
  ASSUME TypeOK, NEW b \in Boards, NEW c,
         brd' = SoftDfuOnCommand(c)
  PROVE  /\ brd'[b].app = brd[b].app /\ brd'[b].vt = brd[b].vt /\ brd'[b].by = brd[b].by
         /\ brd'[b] = brd[b] \/ (brd'[b].mode = "reset" /\ brd'[b].nboot = 0)
<1>1. brd \in [Boards -> Board] /\ brd[b] \in Board
  BY DEF TypeOK
<1>2. CASE c = b
  BY <1>1, <1>2 DEF Board, SoftDfuOnCommand
<1>3. CASE c # b
  BY <1>1, <1>3 DEF SoftDfuOnCommand
<1>4. QED
  BY <1>2, <1>3

(* Whoever else is plugged in: what is rewritten is what was asked for     *)
(* (_find_dfu, the flashers' own choice of a serial number).               *)
THEOREM OthersAreUntouched == Spec => []OthersUntouched
<1>1. Init => OthersUntouched
  BY DEF Init, OthersUntouched
<1>2. ASSUME IInv, [Next]_vars, OthersUntouched, NEW b \in Boards
      PROVE  brd'[b].by \in {None, b}
  <2>1. brd \in [Boards -> Board] /\ brd[b] \in Board /\ host \in Running
    BY <1>2 DEF IInv, TypeOK
  <2>2. brd[b].by \in {None, b}
    BY <1>2 DEF OthersUntouched
  <2>3. CASE UserCommand
    <3>1. brd'[b] = IF brd[b].app = "new" THEN [brd[b] EXCEPT !.app = "old"] ELSE brd[b]
      BY <2>3 DEF UserCommand, Command
    <3>2. QED
      BY <2>1, <2>2, <3>1 DEF Board
  <2>4. ASSUME NEW c \in Boards, Boot(c) \/ PowerCycle(c) PROVE brd'[b].by \in {None, b}
    <3>1. CASE c # b
      BY <2>1, <2>2, <2>4, <3>1 DEF Boot, PowerCycle
    <3>2. CASE c = b
      BY <2>1, <2>2, <2>4, <3>2 DEF Boot, PowerCycle, Board
    <3>3. QED
      BY <3>1, <3>2
  <2>5. CASE Program \/ ProgramLeaveVt
    <3>1. PICK areas, then : areas \in SUBSET {"app", "vt"} /\ Download(areas, then)
      BY <2>5 DEF Program, ProgramLeaveVt, ElfToDfuParts
    <3>2. UNCHANGED brd \/ \E c \in FlasherSees, how \in {"new", "torn"} :
            brd' = Written(c, areas, how)
      BY <3>1 DEF Download
    <3>3. CASE UNCHANGED brd
      BY <2>2, <3>3
    <3>4. CASE ~UNCHANGED brd
      <4>1. PICK c \in FlasherSees, how \in {"new", "torn"} : brd' = Written(c, areas, how)
        BY <3>2, <3>4
      <4>2. c \in Boards /\ brd[c].mode = "dfu" /\ host.sn \in {None, c}
        BY Seen
      <4>3. PICK r \in Board : brd' = [brd EXCEPT ![c] = r] /\ r.by = host.sn
        BY <1>2, <3>1, <4>1, <4>2, WrittenIs DEF IInv
      <4>4. QED
        BY <2>1, <2>2, <4>2, <4>3
    <3>5. QED
      BY <3>3, <3>4
  <2>6. CASE FlashViaSwd
    BY <2>1, <2>2, <2>6 DEF FlashViaSwd, Board
  <2>7. CASE EnterBootloader \/ WaitIdle \/ SetAddress \/ AddressStatus \/ ZeroDownload
             \/ ZeroStatus
    <3>1. \/ brd' = brd
          \/ \E c : brd' = SoftDfuOnCommand(c)
          \/ \E c, s : brd' = [brd EXCEPT ![c].dfu = s]
          \/ \E c, s : brd' = [brd EXCEPT ![c].dfu = s, ![c].ptr = "tramp"]
          \/ \E c : brd' = [brd EXCEPT ![c].nboot = 1, ![c].mode = "reset"]
          \/ \E c : brd' = [brd EXCEPT ![c].mode = "dead"]
          \/ \E c, p : brd' = [brd EXCEPT ![c].mode = "app", ![c].port = p]
      BY <2>7 DEF EnterBootloader, WaitIdle, SetAddress, AddressStatus, ZeroDownload,
         RomAnswer, ZeroStatus, RomJump, LeaveReset, JumpToBase
    <3>2. brd'[b].by = brd[b].by
      <4>1. ASSUME NEW c, brd' = SoftDfuOnCommand(c) PROVE brd'[b].by = brd[b].by
        BY <1>2, <4>1, Asked DEF IInv
      <4>2. ASSUME NEW c, NEW s, brd' = [brd EXCEPT ![c].dfu = s]
            PROVE  brd'[b].by = brd[b].by
        BY <1>2, <4>2, Edits DEF IInv
      <4>3. ASSUME NEW c, NEW s, brd' = [brd EXCEPT ![c].dfu = s, ![c].ptr = "tramp"]
            PROVE  brd'[b].by = brd[b].by
        BY <1>2, <4>3, Edits DEF IInv
      <4>4. ASSUME NEW c, brd' = [brd EXCEPT ![c].nboot = 1, ![c].mode = "reset"]
            PROVE  brd'[b].by = brd[b].by
        BY <1>2, <4>4, Edits DEF IInv
      <4>5. ASSUME NEW c, brd' = [brd EXCEPT ![c].mode = "dead"]
            PROVE  brd'[b].by = brd[b].by
        BY <1>2, <4>5, Edits DEF IInv
      <4>6. ASSUME NEW c, NEW p, brd' = [brd EXCEPT ![c].mode = "app", ![c].port = p]
            PROVE  brd'[b].by = brd[b].by
        BY <1>2, <4>6, Edits DEF IInv
      <4>7. QED
        BY <3>1, <4>1, <4>2, <4>3, <4>4, <4>5, <4>6
    <3>3. QED
      BY <2>2, <3>2
  <2>8. CASE UNCHANGED brd
    BY <2>2, <2>8
  <2>9. QED
    BY <1>2, <2>3, <2>4, <2>5, <2>6, <2>7, <2>8 DEF vars, Next, HostStep,
       ResolveFlashIdentity, PickTools, AlreadyInDfu, WaitForDfu, LeaveBootloader, WaitGone,
       WaitForCdc, PostFlashListenPdu, PcbStatus, NextCycle
<1>3. IInv /\ OthersUntouched /\ [Next]_vars => OthersUntouched'
  BY <1>2 DEF OthersUntouched
<1>4. QED
  BY <1>1, <1>3, DfuInvariant, PTL DEF Spec

(* A torn image is not let out of the loader by a flash that can name its  *)
(* board (_dfu_leave, soft_dfu_leave_reset).                               *)
THEOREM TornStays == Spec => TornStaysInLoader
<1>1. ASSUME IInv, [Next]_vars, NEW b \in Boards, brd[b].app = "torn", brd[b].nboot = 0,
             brd[b].mode # "dead", host.op # "leave", host.sn # None, brd'[b].app = "torn"
      PROVE  brd'[b].nboot = 0 /\ brd'[b].mode \notin {"app", "dead"}
  <2>1. brd \in [Boards -> Board] /\ brd[b] \in Board /\ host \in Running
    BY <1>1 DEF IInv, TypeOK
  <2>2. brd[b].mode # "app"
    BY <1>1 DEF IInv, BoardsOK
  <2>3. CASE UserCommand
    <3>1. brd'[b] = brd[b]
      BY <1>1, <2>3 DEF UserCommand, Command
    <3>2. QED
      BY <1>1, <2>2, <3>1
  <2>4. ASSUME NEW c \in Boards, Boot(c) \/ PowerCycle(c)
        PROVE  brd'[b].nboot = 0 /\ brd'[b].mode \notin {"app", "dead"}
    <3>1. CASE c # b
      <4>1. brd'[b] = brd[b]
        BY <2>1, <2>4, <3>1 DEF Boot, PowerCycle
      <4>2. QED
        BY <1>1, <2>2, <4>1
    <3>2. CASE c = b
      BY <1>1, <2>1, <2>4, <3>2 DEF Boot, PowerCycle, Board
    <3>3. QED
      BY <3>1, <3>2
  <2>5. CASE Program \/ ProgramLeaveVt
    <3>1. PICK areas, then : areas \in SUBSET {"app", "vt"} /\ Download(areas, then)
      BY <2>5 DEF Program, ProgramLeaveVt, ElfToDfuParts
    <3>2. UNCHANGED brd \/ \E c \in FlasherSees, how \in {"new", "torn"} :
            brd' = Written(c, areas, how)
      BY <3>1 DEF Download
    <3>3. brd'[b].nboot = brd[b].nboot /\ brd'[b].mode = brd[b].mode
      <4>1. CASE UNCHANGED brd
        BY <4>1
      <4>2. CASE ~UNCHANGED brd
        <5>1. PICK c \in FlasherSees, how \in {"new", "torn"} : brd' = Written(c, areas, how)
          BY <3>2, <4>2
        <5>2. c \in Boards /\ brd[c].mode = "dfu"
          BY Seen
        <5>3. PICK r \in Board : brd' = [brd EXCEPT ![c] = r] /\ r.mode = "dfu"
                                 /\ r.nboot = brd[c].nboot
          BY <1>1, <3>1, <5>1, <5>2, WrittenIs DEF IInv
        <5>4. QED
          BY <2>1, <5>2, <5>3
      <4>3. QED
        BY <4>1, <4>2
    <3>4. QED
      BY <1>1, <2>2, <3>3
  <2>6. CASE FlashViaSwd
    <3>1. brd'[b] = brd[b] \/ (brd'[b].mode = "reset" /\ brd'[b].nboot = brd[b].nboot)
      BY <2>1, <2>6 DEF FlashViaSwd, Board
    <3>2. QED
      BY <1>1, <2>2, <3>1
  <2>7. CASE EnterBootloader
    <3>1. brd' = brd \/ \E c : brd' = SoftDfuOnCommand(c)
      BY <2>7 DEF EnterBootloader
    <3>2. brd'[b] = brd[b] \/ (brd'[b].mode = "reset" /\ brd'[b].nboot = 0)
      BY <1>1, <3>1, Asked DEF IInv
    <3>3. QED
      BY <1>1, <2>2, <3>2
  <2>8. CASE WaitIdle \/ SetAddress \/ AddressStatus \/ ZeroDownload
    <3>1. \/ brd' = brd
          \/ \E c, s : brd' = [brd EXCEPT ![c].dfu = s]
          \/ \E c, s : brd' = [brd EXCEPT ![c].dfu = s, ![c].ptr = "tramp"]
      BY <2>8 DEF WaitIdle, SetAddress, AddressStatus, ZeroDownload, RomAnswer
    <3>2. brd'[b].nboot = brd[b].nboot /\ brd'[b].mode = brd[b].mode
      <4>1. ASSUME NEW c, NEW s, brd' = [brd EXCEPT ![c].dfu = s] PROVE brd'[b].nboot = brd[b].nboot /\ brd'[b].mode = brd[b].mode
        BY <1>1, <4>1, Edits DEF IInv
      <4>2. ASSUME NEW c, NEW s, brd' = [brd EXCEPT ![c].dfu = s, ![c].ptr = "tramp"]
            PROVE  brd'[b].nboot = brd[b].nboot /\ brd'[b].mode = brd[b].mode
        BY <1>1, <4>2, Edits DEF IInv
      <4>3. QED
        BY <3>1, <4>1, <4>2
    <3>3. QED
      BY <1>1, <2>2, <3>2
  <2>9. CASE ZeroStatus
    <3>1. host.pc = "zero_status" /\ host.pc \in Leaving
      BY <2>9 DEF ZeroStatus, Leaving
    <3>2. brd' = brd \/ (InRom /\ brd' \in RomJump(host.dev))
      BY <2>9 DEF ZeroStatus
    <3>3. CASE InRom /\ brd' \in RomJump(host.dev)
      <4>1. host.dev = host.sn
        BY <1>1, <3>1, <3>3 DEF InRom, IInv, DevOK
      <4>2. host.dev # b
        BY <1>1, <3>1, <4>1 DEF IInv, FlashOK
      <4>3. brd'[b] = brd[b]
        BY <2>1, <3>3, <4>2 DEF RomJump, LeaveReset, JumpToBase
      <4>4. QED
        BY <1>1, <2>2, <4>3
    <3>4. QED
      BY <1>1, <2>2, <3>2, <3>3
  <2>10. CASE UNCHANGED brd
    BY <1>1, <2>2, <2>10
  <2>11. QED
    BY <1>1, <2>3, <2>4, <2>5, <2>6, <2>7, <2>8, <2>9, <2>10 DEF vars, Next, HostStep,
       ResolveFlashIdentity, PickTools, AlreadyInDfu, WaitForDfu, LeaveBootloader, WaitGone,
       WaitForCdc, PostFlashListenPdu, PcbStatus, NextCycle
<1>2. IInv /\ [Next]_vars =>
        [\A b \in Boards :
           brd[b].app = "torn" /\ brd[b].nboot = 0 /\ brd[b].mode # "dead" =>
             \/ brd'[b].nboot = 0 /\ brd'[b].mode \notin {"app", "dead"}
             \/ host.op = "leave" \/ host.sn = None \/ brd'[b].app # "torn"]_vars
  BY <1>1
<1>3. QED
  BY <1>2, DfuInvariant, PTL DEF Spec, TornStaysInLoader
=============================================================================
