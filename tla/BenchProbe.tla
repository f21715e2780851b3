----------------------------- MODULE BenchProbe -----------------------------
(***************************************************************************)
(* Bench sessions: discovering, probing, renumbering and calibrating the    *)
(* drives of a CAN bus from the host (debug/robstride.py, damiao.py,        *)
(* cubemars.py, zeroerr.py, robstride_calibrate.py), through the firmware's *)
(* bench handlers (plant/diag).                                             *)
(*                                                                         *)
(* Every operation is a program over one exchange: write a request frame,   *)
(* then pop received frames until one matches or a timeout.  A request      *)
(* carries no number that its reply repeats, so what a frame answers is     *)
(* told by its tag, kind and id alone.  The flag old, set on what is still    *)
(* about when a later request is written, is a ghost.                        *)
(***************************************************************************)
EXTENDS Naturals, Sequences, FiniteSets, FiniteSetsExt, SequencesExt

CONSTANTS
    Drives,     \* the drives on the buses, of one family at a time
    Buses,      \* CAN buses, numbered from 1
    MaxId,      \* ids run from 1 to MaxId (0x7F in the code)
    Resets,     \* re-resets before a calibration (8 in the code)
    None,
    MaxRuns,    \* operations the user starts
    Ranges,     \* id ranges the user gives, backwards or too long ones among them
    Targets,    \* bus and id the commands on a single drive are given
    MaxFaults,  \* requests or replies lost, and timeouts that fire although
                \* the answer is on its way
    MaxStops    \* times the user presses Ctrl+C

ASSUME BenchAssumption ==
    /\ Buses \subseteq Nat \ {0} /\ Buses # {} /\ IsFiniteSet(Buses)
    /\ {MaxId, Resets, MaxRuns, MaxFaults, MaxStops} \subseteq Nat /\ MaxId > 0
    /\ Ranges \subseteq (Nat \ {0}) \X (Nat \ {0}) /\ Targets \subseteq Buses \X (1 .. MaxId)

VARIABLES
    fam,      \* the family this bench works on
    drv,      \* the drives: bus, id, id kept over power-off, encoder zero
    toFw,     \* requests on their way to the firmware
    leased,   \* buses of the firmware's open bench session; none: closed
    reader,   \* received debug frames nobody has popped yet
    host,     \* the operation in progress
    used      \* bounds: operations, losses, early timeouts, interrupts

vars == <<fam, drv, toFw, leased, reader, host, used>>

Ids   == 1 .. MaxId
Kinds == {"begin", "end", "sweep", "scan", "enable", "promisc", "reset",
          "node", "boot", "position", "set", "save", "write", "vbus", "mech",
          "cali", "zero"}
Steps == {"idle", "await", "begin", "body", "swept", "scanned", "enabled",
          "promised", "moved", "verified", "rest", "tested", "read_volts",
          "listen", "spun", "zeroed", "kept", "read", "end", "restore"}

Families == {"RS", "DM", "CM", "ZE"}
NodeOps  == {"node", "boot", "position"}
Ops      == {"none", "discover", "multi", "set_can_id", "probe", "calibrate"} \cup NodeOps
Drive    == [bus : Buses, id : Ids, saved : Ids, zero : {"off", "ram", "flash"},
             spun : BOOLEAN, seen : BOOLEAN]
Frame    == [old : BOOLEAN, kind : Kinds, id : 0 .. MaxId, found : BOOLEAN,
             disc : 0 .. MaxId, bus : Buses, mms : {"rest", "running", "cali", "away", "zero"}]
Asking   == [old : BOOLEAN, kind : Kinds, bus : Buses, id : 0 .. MaxId, hi : Ids,
             new : 0 .. MaxId, mask : SUBSET Buses, sure : BOOLEAN]
Running  == [pc : Steps, ret : Steps, op : Ops, kind : Kinds \cup {"none"}, id : 0 .. MaxId,
             resp : Frame \cup {None}, hits : SUBSET (Buses \X (0 .. MaxId)), saw : BOOLEAN,
             found : SUBSET (Buses \X (0 .. MaxId)), good : BOOLEAN, begun : BOOLEAN,
             stop : BOOLEAN, tainted : BOOLEAN, left : Nat, lo : Ids,
             cur : 1 .. MaxId + 1, hi : Ids, new : 0 .. MaxId, all : SUBSET Buses,
             bus : Buses, cells : Seq(Buses), mask : SUBSET Buses, stream : BOOLEAN]

ASSUME NoneAssumption == None \notin Frame

TypeOK ==
    /\ fam \in Families /\ leased \subseteq Buses
    /\ drv \in [Drives -> Drive] /\ toFw \in Seq(Asking) /\ reader \in Seq(Frame)
    /\ host \in Running
    /\ used \in [runs : Nat, lost : Nat, late : Nat, stops : Nat]

-----------------------------------------------------------------------------
(* The drives, and the firmware that asks them.                            *)

At(bus, id)  == {d \in Drives : drv[d].bus = bus /\ drv[d].id = id}
Answering(r) == {i \in r.id .. r.hi : At(r.bus, i) # {}}

\* A reply names the kind and the id of its request; mms is the state of the
\* motor, read from the mode field of the drive's frame.
Reply(r, found, disc) ==
    [old |-> r.old, kind |-> r.kind, id |-> r.id, found |-> found,
     disc |-> disc, bus |-> r.bus, mms |-> "rest"]

\* A sweep stops at the first responder.
FirstHit(r) ==
    IF Answering(r) = {} THEN Reply(r, FALSE, 0)
    ELSE Reply(r, TRUE, Min(Answering(r)))

OneHit(r) ==
    IF At(r.bus, r.id) = {} THEN Reply(r, FALSE, 0) ELSE Reply(r, TRUE, r.id)

\* Enable and promiscuous probes of a session over several buses are answered
\* by one frame per drive, each with its bus, or by one that found none.
EachBus(r) ==
    LET hits == {b \in leased : At(b, r.id) # {}}
    IN  IF hits = {} THEN <<Reply(r, FALSE, 0)>>
        ELSE SetToSeq({[Reply(r, TRUE, r.id) EXCEPT !.bus = b] : b \in hits})

\* The frames of a calibration: the motor was seen calibrating or was not, and
\* the last frame shows it at rest, running or still calibrating.
Calibration(r) ==
    IF At(r.bus, r.id) = {} THEN {<<Reply(r, FALSE, 0)>>}
    ELSE {<<[OneHit(r) EXCEPT !.mms = "cali"], [OneHit(r) EXCEPT !.mms = m]>> :
            m \in {"rest", "running", "cali"}}
         \cup {<<OneHit(r)>>}

Answers(r) ==
    CASE r.kind \in {"begin", "end"} -> {<<Reply(r, TRUE, 0)>>}
      [] r.kind = "sweep"            -> {<<FirstHit(r)>>}
      [] r.kind \in {"enable", "promisc"} /\ Cardinality(leased) > 1
                                     -> {EachBus(r)}
      [] r.kind = "cali"             -> Calibration(r)
      [] r.kind = "mech"             ->
           {<<[OneHit(r) EXCEPT !.mms =
                 IF \E d \in At(r.bus, r.id) : drv[d].zero = "off"
                 THEN "away" ELSE "zero"]>>}
      [] r.kind \in {"reset", "write"} ->
           {<<[OneHit(r) EXCEPT !.mms = m]>> : m \in {"rest", "running"}}
      [] OTHER                       -> {<<OneHit(r)>>}

\* robstride_probe_id: what a request and its answer a leave in the drives.
\* The ghosts: spun, the drive has calibrated; seen, it has answered to its id.
Effect(r, a) ==
    LET heard(d) == [drv[d] EXCEPT !.seen = TRUE]
    IN [d \in Drives |->
         IF d \notin At(r.bus, r.id) THEN drv[d]
         ELSE CASE r.kind = "set"  -> [drv[d] EXCEPT !.id = r.new, !.seen = FALSE]
                [] r.kind = "cali" -> [heard(d) EXCEPT !.spun = @ \/ a[1].mms = "cali"]
                [] r.kind = "zero" -> [heard(d) EXCEPT !.zero = "ram"]
                [] r.kind = "save" ->
                     [heard(d) EXCEPT !.saved = drv[d].id,
                        !.zero = IF @ = "ram" THEN "flash" ELSE @]
                [] OTHER           -> heard(d)]

Session(r) ==
    leased' = IF r.kind = "begin" THEN r.mask
              ELSE IF r.kind = "end" THEN {} ELSE leased

\* The firmware serves one request after the other: a session opens or closes,
\* or a probe runs to its end and its frames go out.
Serve ==
    /\ toFw # <<>>
    /\ toFw' = Tail(toFw)
    /\ Session(Head(toFw))
    /\ \E a \in Answers(Head(toFw)) :
         /\ drv' = Effect(Head(toFw), a)
         /\ \/ reader' = reader \o a /\ UNCHANGED used
            \/ /\ used.lost + used.late < MaxFaults      \* the reply is lost
               /\ used' = [used EXCEPT !.lost = @ + 1]
               /\ UNCHANGED reader
    /\ UNCHANGED <<fam, host>>

\* The request is lost, dropped while a probe runs, or overwritten in the
\* single slot of queued RS probes.
Drop ==
    /\ toFw # <<>> /\ used.lost + used.late < MaxFaults
    /\ toFw' = Tail(toFw)
    /\ used' = [used EXCEPT !.lost = @ + 1]
    /\ UNCHANGED <<fam, drv, leased, reader, host>>

\* The host writes nothing for DIAG_HOST_STALE_MS: it is idle and its stream is
\* off, or it waits longer than that for a calibration or a sweep.
HostSilent ==
    \/ host.pc = "idle" /\ ~host.stream
    \/ host.pc = "await" /\ host.kind \in {"cali", "sweep"} /\ toFw = <<>>

\* diag_stale_host_watchdog: a session of a silent host ends.
StaleHost ==
    /\ leased # {} /\ HostSilent
    /\ leased' = {}
    /\ UNCHANGED <<fam, drv, toFw, reader, host, used>>

-----------------------------------------------------------------------------
(* The exchange.  It is started from h, the operation with what it has made *)
(* of the last reply.                                                       *)

\* sure (a ghost): what was heard before the request is what was asked for, and
\* it does not follow a change of id that the caller wanted no verification of.
RequestMutated(h, kind, id, new) ==
    [old |-> FALSE, kind |-> kind, bus |-> Min(Buses), id |-> id, hi |-> h.hi,
     new |-> new, mask |-> h.mask, sure |-> ~h.tainted /\ h.kind # "set"]    \* bus left at its default

Request(h, kind, id, new) ==
    [old |-> FALSE, kind |-> kind, bus |-> h.bus, id |-> id, hi |-> h.hi,
     new |-> new, mask |-> h.mask, sure |-> ~h.tainted /\ h.kind # "set"]

Older(q) == [i \in DOMAIN q |-> [q[i] EXCEPT !.old = TRUE]]

\* Write a request; most callers empty the reader first.  tainted (a ghost)
\* says that an earlier request may still be answered in the place of one.
Ask(h, kind, id, new, drain, ret) ==
    /\ toFw' = Append(Older(toFw), Request(h, kind, id, new))
    /\ reader' = IF drain THEN <<>> ELSE Older(reader)
    /\ LET behind == toFw # <<>> \/ (~drain /\ reader # <<>>)
       IN  host' = [h EXCEPT !.pc = "await", !.ret = ret, !.kind = kind,
                      !.id = id, !.resp = None, !.hits = {}, !.saw = FALSE,
                      !.tainted = @ \/ (behind /\ kind \notin {"begin", "end"})]
    /\ UNCHANGED <<fam, drv, leased, used>>

\* What a popped frame is matched by: the kind, for RobStride probes and the
\* register scan the id as well; a pararead looks at the id and the type of
\* the drive's answer, not at the parameter; ZeroErr takes any frame it parses.
Matches(f) ==
    \/ fam = "ZE"
    \/ /\ host.kind \in {"vbus", "mech"}
       /\ f.kind \in {"vbus", "mech", "write"} /\ f.id = host.id /\ f.found
    \/ /\ host.kind \notin {"vbus", "mech"} /\ f.kind = host.kind
       /\ host.kind \in {"begin", "end", "sweep"} \/ f.id = host.id

Collects == host.op = "multi" /\ host.kind \in {"enable", "promisc"}

\* exchange_raw: the first match ends the wait.
ExchangeRaw(f) ==
    host' = IF Matches(f) THEN [host EXCEPT !.resp = f, !.pc = host.ret] ELSE host

\* exchange_raw_collect: keep every match until the deadline.
ExchangeRawCollect(f) ==
    host' = IF Matches(f) /\ f.found
            THEN [host EXCEPT !.hits = @ \cup {<<f.bus, f.disc>>}] ELSE host

\* _wait_cali: the motor must have been seen calibrating before a frame that
\* shows it at rest or running ends the wait.
WaitCali(f) ==
    host' = IF ~Matches(f) \/ ~f.found THEN host
            ELSE [host EXCEPT !.saw  = @ \/ f.mms = "cali", !.resp = f,
                    !.pc   = IF host.saw /\ f.mms # "cali" THEN host.ret ELSE @]

Pop ==
    /\ host.pc = "await" /\ reader # <<>>
    /\ reader' = Tail(reader)
    /\ IF host.kind = "cali" THEN WaitCali(Head(reader))
       ELSE IF Collects THEN ExchangeRawCollect(Head(reader))
       ELSE ExchangeRaw(Head(reader))
    /\ UNCHANGED <<fam, drv, toFw, leased, used>>

\* The deadline passes: nothing is on its way any more, or it comes too late.
Timeout ==
    /\ host.pc = "await" /\ reader = <<>>
    /\ \/ toFw = <<>> /\ UNCHANGED used
       \/ /\ toFw # <<>> /\ used.lost + used.late < MaxFaults
          /\ used' = [used EXCEPT !.late = @ + 1]
    /\ host' = [host EXCEPT !.pc = host.ret]
    /\ UNCHANGED <<fam, drv, toFw, leased, reader>>

Found   == host.resp # None /\ host.resp.found
Is(mms) == Found /\ host.resp.mms = mms

Leave(h) ==
    /\ host' = [h EXCEPT !.pc = "end"]
    /\ UNCHANGED <<fam, drv, toFw, leased, reader, used>>

-----------------------------------------------------------------------------
(* Starting and ending an operation.                                       *)

\* RobStride ids have seven bits; a range given backwards is turned round.
NormalizeIdRange(range) ==
    LET c(i) == IF fam = "RS" /\ i > MaxId THEN MaxId ELSE i
    IN  <<Min({c(range[1]), c(range[2])}), Max({c(range[1]), c(range[2])})>>

\* No operation; stream: the plant stream is on.
Idle(stream) ==
    [pc |-> "idle", ret |-> "idle", op |-> "none", kind |-> "none", id |-> 0,
     resp |-> None, hits |-> {}, saw |-> FALSE, found |-> {},
     good |-> FALSE, begun |-> FALSE, stop |-> FALSE, tainted |-> FALSE,
     left |-> 0, lo |-> 1, cur |-> 1, hi |-> 1, new |-> 0, all |-> {},
     bus |-> Min(Buses), cells |-> <<>>, mask |-> {}, stream |-> stream]

\* A call of DebugAPI: pause the stream, and open a session if the operation
\* has one.  A discover over several buses is a queue of cells, except that
\* RobStride takes them all in one session.
Start(op, cells, range, new) ==
    /\ host.pc = "idle" /\ used.runs < MaxRuns
    /\ used' = [used EXCEPT !.runs = @ + 1]
    /\ host' =
        [host EXCEPT
           !.op = op, !.found = {}, !.good = FALSE, !.stop = FALSE,
           !.begun = FALSE, !.tainted = FALSE, !.left = Resets, !.resp = None,
           !.lo = range[1], !.cur = range[1], !.hi = range[2], !.new = new,
           !.all = Range(cells), !.bus = Head(cells),
           !.cells = IF op = "multi" THEN <<>> ELSE Tail(cells),
           !.mask = IF op = "multi" THEN Range(cells) ELSE {Head(cells)},
           !.pc = IF op \in {"node", "boot", "position"} THEN "body" ELSE "begin"]
    /\ UNCHANGED <<fam, drv, toFw, leased, reader>>

Cells == {<<b>> : b \in Buses} \cup {SetToSeq(Buses)}

\* discover_queued: the buses one after the other, or, on RobStride with two
\* or more of them, together.
DiscoverQueued ==
    \E cells \in Cells, range \in Ranges :
        /\ fam # "RS" => Max({range[1], range[2]}) <= MaxId
        /\ Start(IF fam = "RS" /\ Len(cells) > 1 THEN "multi" ELSE "discover",
                 cells, NormalizeIdRange(range), 0)

\* rs02_set_can_id.py
SetCanIdCommand ==
    \E t \in Targets, new \in Ids :
        fam = "RS" /\ new # t[2] /\ Start("set_can_id", <<t[1]>>, <<t[2], t[2]>>, new)

RobstrideCommand ==
    \E t \in Targets, op \in {"probe", "calibrate"} :
        fam = "RS" /\ Start(op, <<t[1]>>, <<t[2], t[2]>>, 0)

ZeroErrCommand ==
    \E t \in Targets, op \in {"node", "boot", "position"} :
        fam = "ZE" /\ Start(op, <<t[1]>>, <<t[2], t[2]>>, 0)

UserCommand ==
    \/ DiscoverQueued \/ SetCanIdCommand \/ RobstrideCommand \/ ZeroErrCommand

\* rs2_session_begin, before the lease's try.
Rs2SessionBegin ==
    /\ fam = "RS" /\ host.pc = "begin"
    /\ Ask(host, "begin", 0, 0, TRUE, "body")

\* The other families open theirs inside the try, and do not drain.
SessionBegin ==
    /\ fam # "RS" /\ host.pc = "begin"
    /\ Ask(host, "begin", 0, 0, FALSE, "body")

Rs2SessionEnd ==
    /\ fam = "RS" /\ host.pc = "end"
    /\ Ask(host, "end", 0, 0, TRUE, "restore")

SessionEnd ==
    /\ fam # "RS" /\ host.pc = "end"
    /\ Ask(host, "end", 0, 0, FALSE, "restore")

\* The stream goes on; then the next cell of the queue, or the return.
Restore ==
    /\ host.pc = "restore"
    /\ host' = IF host.cells # <<>> /\ ~host.stop
               THEN [host EXCEPT !.bus = Head(host.cells), !.cells = Tail(@),
                       !.mask = {Head(host.cells)}, !.cur = host.lo,
                       !.resp = None, !.pc = "begin"]
               ELSE Idle(host.stream)
    /\ UNCHANGED <<fam, drv, toFw, leased, reader, used>>

\* Ctrl+C while a reply is waited for: the finally clauses run.  The lease of
\* RobStride closes its session only once it has left its own begin.
Interrupt ==
    /\ host.pc = "await" /\ used.stops < MaxStops
    /\ used' = [used EXCEPT !.stops = @ + 1]
    /\ host' = [host EXCEPT !.stop = TRUE, !.resp = None,
                  !.pc = IF \/ host.ret = "restore"
                            \/ host.kind = "begin" /\ fam = "RS"
                         THEN "restore" ELSE "end"]
    /\ UNCHANGED <<fam, drv, toFw, leased, reader>>

-----------------------------------------------------------------------------
(* Discovering: sweeps of the other families.                              *)

Hit(f) == IF fam # "ZE" /\ f.disc = 0 THEN f.id ELSE f.disc

\* The operation with the last reply's drive noted, and the cursor past it.
Noted ==
    LET hit == Hit(host.resp)
    IN  [host EXCEPT !.found = @ \cup {<<host.bus, hit>>},
                     !.cur = Max({hit, @}) + 1]

Sweep(h) ==
    IF h.cur <= h.hi THEN Ask(h, "sweep", h.cur, 0, TRUE, "swept") ELSE Leave(h)

\* The register scan, one id after the other, when the sweeps found nothing.
Scan(h) ==
    IF h.cur <= h.hi THEN Ask(h, "scan", h.cur, 0, TRUE, "scanned") ELSE Leave(h)

NoneHere == \A x \in host.found : x[1] # host.bus

DmDiscoverAll ==
    /\ fam = "DM"
    /\ \/ host.pc = "body" /\ Sweep(host)
       \/ host.pc = "swept" /\ Found /\ Sweep(Noted)
       \/ host.pc = "swept" /\ ~Found /\ ~NoneHere /\ Leave(host)
       \/ host.pc = "swept" /\ ~Found /\ NoneHere
          /\ Scan([host EXCEPT !.cur = host.lo])
       \/ host.pc = "scanned"
          /\ Scan([host EXCEPT !.cur = @ + 1,
                     !.found = IF Found THEN @ \cup {<<host.bus, Hit(host.resp)>>}
                               ELSE @])

SweepAllMutated ==
    \/ host.pc = "body" /\ Sweep(host)
    \/ host.pc = "swept" /\ Leave(IF Found THEN Noted ELSE host)  \* first hit only

SweepAll ==
    \/ host.pc = "body" /\ Sweep(host)
    \/ host.pc = "swept" /\ Found /\ Sweep(Noted)
    \/ host.pc = "swept" /\ ~Found /\ Leave(host)

CmDiscoverAll == fam = "CM" /\ SweepAll

ZeDiscoverAll == fam = "ZE" /\ host.op = "discover" /\ SweepAll

\* probe_node, boot, read_position: one drained exchange and no session.
ZeProbe ==
    /\ host.op \in {"node", "boot", "position"} /\ host.pc = "body"
    /\ Ask(host, host.op, host.lo, 0, TRUE, "restore")

-----------------------------------------------------------------------------
(* Discovering and probing RobStride drives.                               *)

\* The session was opened for this operation (a ghost: the code ignores it).
Begun == host.resp # None /\ ~host.resp.old

Enable(h) ==
    IF h.cur <= h.hi THEN Ask(h, "enable", h.cur, 0, TRUE, "enabled") ELSE Leave(h)

\* discover_all: enable, then the promiscuous probe, of each id.
RsDiscoverAll ==
    LET next == [host EXCEPT !.cur = @ + 1,
                   !.found = IF Found THEN @ \cup {<<host.bus, Hit(host.resp)>>}
                             ELSE @]
    IN  /\ host.op = "discover" /\ fam = "RS"
        /\ \/ host.pc = "body" /\ Enable([host EXCEPT !.begun = Begun])
           \/ host.pc = "enabled" /\ Found /\ Enable(next)
           \/ host.pc = "enabled" /\ ~Found
              /\ Ask(host, "promisc", host.cur, 0, TRUE, "promised")
           \/ host.pc = "promised" /\ Enable(next)

\* discover_all_by_bus: both probes of each id, and every frame they bring; a
\* frame of a bus that was not asked counts for the first.
RsDiscoverAllByBus ==
    LET own(x)  == IF x[1] \in host.all THEN x ELSE <<host.bus, x[2]>>
        noted   == [host EXCEPT !.found = @ \cup {own(x) : x \in host.hits}]
    IN  /\ host.op = "multi"
        /\ \/ host.pc = "body" /\ Enable([host EXCEPT !.begun = Begun])
           \/ host.pc = "enabled"
              /\ Ask(noted, "promisc", host.cur, 0, TRUE, "promised")
           \/ host.pc = "promised" /\ Enable([noted EXCEPT !.cur = @ + 1])

\* probe: an optional reset, then enable.
RsProbe ==
    /\ host.op = "probe"
    /\ \/ host.pc = "body" /\ Ask(host, "reset", host.lo, 0, TRUE, "rest")
       \/ /\ host.pc \in {"body", "rest"}
          /\ Ask(host, "enable", host.lo, 0, TRUE, "read")
       \/ host.pc = "read" /\ Leave([host EXCEPT !.good = Found])

SetCanIdMutated ==
    /\ host.op = "set_can_id"
    /\ \/ host.pc = "body" /\ Ask(host, "set", host.lo, host.new, TRUE, "moved")
       \/ host.pc = "moved" /\ Ask(host, "enable", host.new, 0, TRUE, "verified")
       \/ /\ (host.pc = "moved" /\ Found) \/ host.pc = "verified"  \* verify_ok not looked at
          /\ Ask([host EXCEPT !.good = TRUE], "save", host.new, 0, TRUE, "kept")
       \/ host.pc \in {"moved", "verified", "kept"} /\ Leave(host)

\* set_can_id: set, ask the new id, and save only if it answers.  Without verify
\* (--no-verify) the new id is not asked, and saved if the change itself was
\* acknowledged; without save (--no-save) it is left unsaved whatever answers.
SetCanId ==
    /\ host.op = "set_can_id"
    /\ \/ host.pc = "body" /\ Ask(host, "set", host.lo, host.new, TRUE, "moved")
       \/ host.pc = "moved" /\ Ask(host, "enable", host.new, 0, TRUE, "verified")
       \/ /\ host.pc \in {"moved", "verified"} /\ Found
          /\ Ask([host EXCEPT !.good = TRUE], "save", host.new, 0, TRUE, "kept")
       \/ host.pc \in {"moved", "verified", "kept"} /\ Leave(host)

-----------------------------------------------------------------------------
(* Calibrating a RobStride drive.                                          *)

CalAsk(h, kind, ret) == Ask(h, kind, h.lo, 0, TRUE, ret)

\* _cal_body, prep: reset, and while the motor runs reset again.
CalPrep ==
    /\ host.op = "calibrate"
    /\ \/ host.pc = "body" /\ CalAsk(host, "reset", "rest")
       \/ /\ host.pc = "rest" /\ host.left > 0
          /\ IF host.left = Resets THEN Is("running") ELSE ~Is("rest")
          /\ CalAsk([host EXCEPT !.left = @ - 1], "reset", "rest")

CalPrepared ==
    /\ host.op = "calibrate" /\ host.pc = "rest"
    /\ \/ host.left = 0
       \/ IF host.left = Resets THEN ~Is("running") ELSE Is("rest")

\* The current test, left out on request, and the reset after it.
CalTest ==
    \/ CalPrepared /\ CalAsk(host, "write", "tested")
    \/ host.op = "calibrate" /\ host.pc = "tested" /\ ~Is("rest")
       /\ CalAsk(host, "reset", "read_volts")

\* The supply voltage is read and shown.
CalVolts ==
    /\ \/ CalPrepared
       \/ host.op = "calibrate" /\ host.pc = "tested" /\ Is("rest")
       \/ host.op = "calibrate" /\ host.pc = "read_volts"
    /\ CalAsk(host, "vbus", "listen")

CalListen ==
    /\ host.op = "calibrate" /\ host.pc = "listen"
    /\ CalAsk(host, "cali", "spun")

\* Ctrl+C while listening is caught: the operation returns, not done.
CalAborted ==
    /\ host.pc = "await" /\ host.kind = "cali" /\ used.stops < MaxStops
    /\ used' = [used EXCEPT !.stops = @ + 1]
    /\ host' = [host EXCEPT !.pc = "end"]
    /\ UNCHANGED <<fam, drv, toFw, leased, reader>>

CaliFinished == host.saw /\ Found /\ ~Is("cali")

CalZeroMutated ==
    /\ host.op = "calibrate" /\ host.pc = "spun"
    /\ CalAsk(host, "zero", "zeroed")                 \* saw_cali not looked at

\* Without mms = cali the operation ends; without its end it does under strict.
CalZero ==
    /\ host.op = "calibrate" /\ host.pc = "spun"
    /\ \/ ~CaliFinished /\ Leave(host)
       \/ host.saw /\ CalAsk(host, "zero", "zeroed")

\* A reply that is not the drive's ends it; no reply does not.
CalSave ==
    /\ host.op = "calibrate" /\ host.pc = "zeroed"
    /\ IF host.resp # None /\ ~Found THEN Leave(host)
       ELSE CalAsk(host, "save", "kept")

CalVerify ==
    /\ host.op = "calibrate"
    /\ \/ host.pc = "kept" /\ CalAsk(host, "mech", "read")
       \/ host.pc = "read" /\ Leave([host EXCEPT !.good = Is("zero")])

Calibrate == CalPrep \/ CalTest \/ CalVolts \/ CalListen \/ CalZero \/ CalSave \/ CalVerify

-----------------------------------------------------------------------------
Init ==
    /\ fam \in {"RS", "DM", "CM", "ZE"}
    /\ \E at \in [Drives -> Buses \X Ids] :
         /\ \A d, e \in Drives : at[d] = at[e] => d = e
         /\ drv = [d \in Drives |-> [bus |-> at[d][1], id |-> at[d][2],
                      saved |-> at[d][2], zero |-> "off",
                      spun |-> FALSE, seen |-> FALSE]]
    /\ toFw = <<>> /\ leased = {} /\ reader = <<>>
    /\ host \in {Idle(on) : on \in BOOLEAN}
    /\ used = [runs |-> 0, lost |-> 0, late |-> 0, stops |-> 0]

HostStep ==
    \/ Rs2SessionBegin \/ SessionBegin \/ Rs2SessionEnd \/ SessionEnd \/ Restore
    \/ DmDiscoverAll \/ CmDiscoverAll \/ ZeDiscoverAll \/ ZeProbe
    \/ RsDiscoverAll \/ RsDiscoverAllByBus \/ RsProbe \/ SetCanId \/ Calibrate
    \/ Pop \/ Timeout

Next ==
    \/ UserCommand \/ HostStep \/ Interrupt \/ CalAborted
    \/ Serve \/ Drop \/ StaleHost

Spec == Init /\ [][Next]_vars

-----------------------------------------------------------------------------

\* Every drive a discover reports is on the bus it is reported on, whatever is
\* lost, unless a timeout let an earlier answer in or, on RobStride, the
\* session was not opened.
HitsAreReal ==
    (~host.tainted /\ (fam = "RS" => host.begun))
      => \A x \in host.found : At(x[1], x[2]) # {}

\* A discover that lost nothing and was not cut short reports every drive of
\* its range on every bus it was asked for.
FoundAll ==
    (/\ host.pc = "restore" /\ host.cells = <<>> /\ host.op \in {"discover", "multi"}
     /\ used.lost = 0 /\ used.late = 0 /\ used.stops = 0)
      => \A d \in Drives :
           drv[d].bus \in host.all /\ drv[d].id \in host.lo .. host.hi
             => <<drv[d].bus, drv[d].id>> \in host.found

\* An id is made permanent only in a drive that has answered to it, unless the
\* caller left the verification out, or an earlier answer was let in for its own.
DoubtfulNeverSaved ==
    [][\A d \in Drives :
         drv'[d].saved # drv[d].saved => drv[d].seen \/ ~Head(toFw).sure]_vars

\* The encoder zero of a drive is set only after that drive has been through an
\* encoder calibration, whatever is lost and whatever frames of earlier
\* operations are about, unless an earlier answer was let in for its own.
ZeroedAfterCali ==
    [][\A d \in Drives :
         drv[d].zero = "off" /\ drv'[d].zero # "off"
           => drv[d].spun \/ ~Head(toFw).sure]_vars

-----------------------------------------------------------------------------
(* The inductive invariant behind them. *)

Body   == Kinds \ {"begin", "end"}
Probes == {"sweep", "scan", "enable", "promisc"}
Searching == host.op \in {"discover", "multi"}

\* The last request written is one of the session the operation is in.
Busy == host.pc \notin {"idle", "begin", "restore"}

\* An exchange of an operation, and where the operation goes on after it.
Turn(op, kind, ret) ==
  \/ op \notin NodeOps /\ <<kind, ret>> \in {<<"begin", "body">>, <<"end", "restore">>}
  \/ op \in NodeOps /\ kind = op /\ ret = "restore"
  \/ op = "discover" /\ <<kind, ret>> \in {<<"sweep", "swept">>, <<"scan", "scanned">>}
  \/ op \in {"discover", "multi"}
     /\ <<kind, ret>> \in {<<"enable", "enabled">>, <<"promisc", "promised">>}
  \/ op = "set_can_id"
     /\ <<kind, ret>> \in {<<"set", "moved">>, <<"enable", "verified">>, <<"save", "kept">>}
  \/ op = "probe" /\ <<kind, ret>> \in {<<"reset", "rest">>, <<"enable", "read">>}
  \/ op = "calibrate"
     /\ <<kind, ret>> \in {<<"reset", "rest">>, <<"write", "tested">>, <<"reset", "read_volts">>,
                           <<"vbus", "listen">>, <<"cali", "spun">>, <<"zero", "zeroed">>,
                           <<"save", "kept">>, <<"mech", "read">>}

\* What a family does: its operations and the probes of a discover.
Belongs(op, kind) ==
    CASE fam = "RS" -> op \notin NodeOps /\ kind \notin {"sweep", "scan"}
      [] fam = "ZE" -> op \in {"none", "discover"} \cup NodeOps /\ kind \notin {"scan", "enable", "promisc"}
      [] OTHER      -> op \in {"none", "discover"} /\ kind \notin {"enable", "promisc"}

ScriptOK ==
    /\ host.op = "none" <=> host.pc = "idle"
    /\ host.op = "none" => host.kind = "none"
    /\ host.found # {} \/ host.begun => Searching
    /\ Belongs(host.op, host.kind)
    /\ host.pc \notin {"idle", "begin", "body", "end", "restore"}
         => Turn(host.op, host.kind, IF host.pc = "await" THEN host.ret ELSE host.pc)
    /\ host.pc = "body" => host.kind = IF host.op \in NodeOps THEN "none" ELSE "begin"
    /\ host.pc \in {"begin", "end"} => host.op \notin NodeOps
    /\ host.op # "none" =>
         /\ host.bus \in host.all /\ Range(host.cells) \subseteq host.all
         /\ host.mask = IF host.op = "multi" THEN host.all ELSE {host.bus}
    /\ fam = "RS" \/ host.op \in NodeOps => host.cells = <<>>
    /\ fam = "RS" /\ (host.pc = "begin" \/ (host.kind = "begin" /\ host.pc \in {"await", "body"}))
         => host.found = {}

\* The id an exchange is about.
IdOK ==
    /\ Searching => host.lo <= host.cur
    /\ Searching /\ host.kind \in Probes /\ Busy /\ host.pc # "end"
         => host.id = host.cur /\ host.cur \in host.lo .. host.hi
    /\ host.op = "set_can_id" /\ host.kind = "enable" => host.id = host.new
    /\ host.op = "set_can_id" /\ host.pc # "idle" => host.new \in Ids
    /\ host.op = "calibrate" /\ host.kind \in Body => host.id = host.lo
    /\ \A i \in 1 .. Len(toFw) : toFw[i].kind = "set" => toFw[i].new \in Ids

\* While a session is opened: what is not old is the request itself, behind
\* everything else, or its answer, with the session open.
FreshOK ==
    host.kind = "begin" /\ host.pc \in {"await", "body"} =>
      /\ \A i \in 1 .. Len(toFw) : ~toFw[i].old =>
           i = Len(toFw) /\ toFw[i].kind = "begin" /\ toFw[i].mask = host.mask
      /\ Begun \/ (\E i \in 1 .. Len(reader) : ~reader[i].old)
           => toFw = <<>> /\ leased \subseteq host.mask

\* The session that was opened is the one the probes run in.
LeaseOK ==
    ~host.tainted /\ host.begun /\ fam = "RS" /\ Busy /\ host.kind \in Body
      => leased \subseteq host.mask

Asked(r) ==
    r.kind = host.kind /\ r.bus = host.bus /\ r.id = host.id /\ r.hi = host.hi

Opened     == fam = "RS" => host.begun
RealAt(x)  == At(x[1], x[2]) # {} /\ (Opened => x[1] \in host.mask)
Real(f)    == f.found => RealAt(<<f.bus, f.disc>>)
Heard      == reader # <<>> \/ host.resp # None \/ host.saw

\* In an exchange nothing earlier is about: either the request is still under
\* way, alone, or what there is answers it.
ExchangeOK ==
    ~host.tainted /\ Busy /\ host.kind \in Body =>
      /\ \/ toFw = <<>>
         \/ Len(toFw) = 1 /\ Asked(toFw[1]) /\ ~Heard /\ host.hits = {}
      /\ host.kind \in Probes =>
           /\ \A i \in 1 .. Len(reader) : Real(reader[i])
           /\ host.resp # None => Real(host.resp)
           /\ \A x \in host.hits : RealAt(x)
      /\ host.kind # "set" /\ (Heard \/ host.kind = "zero")
           => \A d \in At(host.bus, host.id) : drv[d].seen
      /\ host.kind = "cali" /\ (host.saw \/ \E i \in 1 .. Len(reader) : reader[i].mms = "cali")
           => \A d \in At(host.bus, host.id) : drv[d].spun

\* No renumbering is under way that could make what was found untrue.
FoundOK ==
    /\ ~host.tainted /\ Searching /\ host.found # {}
         => \A i \in 1 .. Len(toFw) : toFw[i].kind # "set"
    /\ HitsAreReal

\* A request to make something permanent that is sure of its drive stays so
\* until it is served, by whatever operation it was written.
SureOK ==
    \A i \in 1 .. Len(toFw) : toFw[i].sure /\ toFw[i].kind \in {"save", "zero"} =>
      /\ \A j \in 1 .. (i - 1) : toFw[j].kind # "set"
      /\ \A d \in At(toFw[i].bus, toFw[i].id) :
           drv[d].seen /\ (toFw[i].kind = "zero" => drv[d].spun)

\* As long as nothing is lost, late or interrupted.
Clean == used.lost = 0 /\ used.late = 0 /\ used.stops = 0

\* The answer to a probe of one bus says exactly who is there.
Exact(f) ==
    /\ f.kind = host.kind /\ f.id = host.id
    /\ IF host.kind = "sweep"
       THEN IF f.found THEN Answering(host) # {} /\ f.disc = Min(Answering(host)) ELSE Answering(host) = {}
       ELSE IF f.found THEN At(host.bus, host.id) # {} /\ f.disc = host.id ELSE At(host.bus, host.id) = {}

\* The hits of a probe of several buses, with those of the frames in s.
Collected(s) ==
    /\ \A i \in 1 .. Len(s) : s[i].kind = host.kind /\ s[i].id = host.id
    /\ \A b \in host.mask : At(b, host.id) # {} =>
         \/ <<b, host.id>> \in host.hits
         \/ \E i \in 1 .. Len(s) : s[i].found /\ <<s[i].bus, s[i].disc>> = <<b, host.id>>

\* What the reader holds once the request was served.
Answered ==
    CASE host.kind = "cali" -> Len(reader) <= 2 /\ (Len(reader) = 2 => ~host.saw)
      [] Collects -> Collected(reader)
      [] host.kind \in Probes /\ host.op = "discover" -> Len(reader) = 1 /\ Exact(reader[1])
      [] host.kind \in {"begin", "end"} -> Len(reader) = 1 /\ reader[1].kind = host.kind
      [] OTHER -> Len(reader) <= 1

\* Request and answer take turns.
CleanOK ==
    Clean =>
      /\ ~host.tainted
      /\ host.pc # "await" => toFw = <<>> /\ reader = <<>>
      /\ host.pc = "await" =>
           \/ /\ Len(toFw) = 1 /\ Asked(toFw[1]) /\ toFw[1].mask = host.mask
              /\ ~Heard /\ host.hits = {}
           \/ toFw = <<>> /\ Answered
      /\ host.op = "discover" /\ host.pc \in {"swept", "scanned", "enabled", "promised"}
           => host.resp # None /\ Exact(host.resp)
      /\ host.op = "multi" /\ host.pc \in {"enabled", "promised"} => Collected(<<>>)

\* The session is open where probes over several buses rely on it.
CleanLease ==
    Clean =>
      /\ host.op \in {"none"} \cup NodeOps \/ host.pc \in {"begin", "restore"} => leased = {}
      /\ host.pc = "await" /\ host.kind = "end" /\ toFw = <<>> => leased = {}
      /\ leased \subseteq host.mask
      /\ host.op = "multi" =>
           \/ leased = host.mask
           \/ host.pc \in {"begin", "restore"}
           \/ host.pc = "await" /\ host.kind = "begin" /\ toFw # <<>>
           \/ host.pc = "await" /\ host.kind = "end" /\ toFw = <<>>

\* The drives of bus b up to id n have been reported.
Swept(b, n) ==
    \A d \in Drives :
      drv[d].bus = b /\ drv[d].id \in host.lo .. n => <<b, drv[d].id>> \in host.found

ProgressOK ==
    Clean /\ Searching =>
      /\ \A b \in host.all \ (Range(host.cells) \cup host.mask) : Swept(b, host.hi)
      /\ host.pc \in {"begin", "body"} \/ (host.pc = "await" /\ host.kind = "begin") => host.cur = host.lo
      /\ \A b \in host.mask :
           IF \/ host.kind = "scan" /\ Busy
              \/ host.pc \in {"end", "restore"} \/ (host.pc = "await" /\ host.kind = "end")
           THEN Swept(b, host.hi)
           ELSE Swept(b, host.cur - 1)

IInv ==
    /\ TypeOK /\ ScriptOK /\ IdOK /\ FreshOK /\ LeaseOK /\ ExchangeOK /\ FoundOK /\ SureOK
    /\ CleanOK /\ CleanLease /\ ProgressOK
=============================================================================
