-------------------------- MODULE Telemetry_proofs --------------------------
(***************************************************************************)
(* Proofs about Telemetry, for any number of callers, any mix of calls and *)
(* all sizes of the ring and of the fault dumps.                           *)
(***************************************************************************)
EXTENDS Telemetry, SequenceTheorems, TLAPS

-----------------------------------------------------------------------------
(* Sequences and jobs. *)

LEMMA TailIs ==
  ASSUME NEW S, NEW s \in Seq(S), s # <<>>
  PROVE  /\ Tail(s) \in Seq(S) /\ Len(s) \in Nat \ {0} /\ Len(Tail(s)) = Len(s) - 1
         /\ Head(s) = s[1] /\ Head(s) \in S
         /\ \A i \in 1..Len(Tail(s)) : Tail(s)[i] = s[i + 1]
OBVIOUS

LEMMA TailTailIs ==
  ASSUME NEW S, NEW s \in Seq(S), Len(s) >= 2
  PROVE  /\ Tail(Tail(s)) \in Seq(S) /\ Len(Tail(Tail(s))) = Len(s) - 2
         /\ \A i \in 1..(Len(s) - 2) : Tail(Tail(s))[i] = s[i + 2]
<1>1. Tail(s) \in Seq(S) /\ Len(Tail(s)) = Len(s) - 1 /\ \A i \in 1..(Len(s) - 1) : Tail(s)[i] = s[i + 1]
  OBVIOUS
<1>2. PICK r : r = Tail(s)
  OBVIOUS
<1>3. r \in Seq(S) /\ Len(r) = Len(s) - 1
  BY <1>1, <1>2
<1>4. r # <<>>
  BY <1>3
<1>5. /\ Tail(r) \in Seq(S) /\ Len(Tail(r)) = Len(r) - 1
      /\ \A i \in 1..(Len(r) - 1) : Tail(r)[i] = r[i + 1]
  BY <1>3, <1>4
<1>6. \A i \in 1..(Len(s) - 2) : Tail(r)[i] = s[i + 2]
  BY <1>1, <1>2, <1>3, <1>5
<1>7. QED
  BY <1>2, <1>3, <1>5, <1>6

LEMMA SkipIs ==
  ASSUME NEW s \in Seq(Steps), FlushOrdered(s), s # <<>>, Head(s) \in {"open", "shut"}
  PROVE  Len(s) >= 2 /\ s[2] \in {"mark", "unmark"} /\ Tail(Tail(s)) \in Seq(Steps)
<1>1. Len(s) \in Nat \ {0} /\ Head(s) = s[1]
  OBVIOUS
<1>2. Len(s) >= 2 /\ s[2] \in {"mark", "unmark"}
  BY <1>1 DEF FlushOrdered
<1>3. QED
  BY <1>2, TailTailIs

LEMMA AppendIs ==
  ASSUME NEW S, NEW s \in Seq(S), NEW x \in S
  PROVE  /\ Append(s, x) \in Seq(S) /\ Len(Append(s, x)) = Len(s) + 1
         /\ Append(s, x)[Len(s) + 1] = x /\ \A i \in 1..Len(s) : Append(s, x)[i] = s[i]
BY AppendProperties

LEMMA JobIs ==
  ASSUME NEW j \in Job
  PROVE  /\ j.k \in {"open", "line", "close", "dump", "state", "token"}
         /\ j.k = "open" => j.path \in Seconds
         /\ j.k = "line" => j.n \in Nat /\ j.of \in Seconds \cup {Closed} /\ j.nth \in Nat
         /\ j.k = "dump" => j.lines \in Seq(Nat) /\ j.trig \in Nat /\ j.solo \in BOOLEAN
         /\ j.k = "state" => j.snap \in Snap
         /\ j.k = "token" => j.of \in Callers /\ j.nth \in Nat
<1>1. CASE j \in [k : {"open"}, path : Seconds]
  BY <1>1
<1>2. CASE j \in [k : {"line"}, n : Nat, of : Seconds \cup {Closed}, nth : Nat]
  BY <1>2
<1>3. CASE j \in [k : {"close"}]
  BY <1>3
<1>4. CASE j \in [k : {"dump"}, lines : Seq(Nat), trig : Nat, solo : BOOLEAN]
  BY <1>4
<1>5. CASE j \in [k : {"state"}, snap : Snap]
  BY <1>5
<1>6. CASE j \in [k : {"token"}, of : Callers, nth : Nat]
  BY <1>6
<1>7. QED
  BY <1>1, <1>2, <1>3, <1>4, <1>5, <1>6 DEF Job

LEMMA NoneIsSnap == None \in Snap /\ \A b \in BOOLEAN : [None EXCEPT !.conn = b] \in Snap
BY DEF None, Snap

LEMMA PublishTyped ==
  ASSUME pubs \in Nat, NEW s \in Snap, Publish(s)
  PROVE  pubs' \in Nat /\ slot' \in Snap /\ slot' # None /\ slot'.pub = pubs' /\ pubs' = pubs + 1
BY DEF Publish, Snap, None

-----------------------------------------------------------------------------
(* Types. *)

LEMMA ProgramTyped ==
  ASSUME NEW name \in Names
  PROVE  Program(name) \in Seq(Steps)
<1>1. CASE name = "connect"
  BY <1>1 DEF Program, Steps
<1>2. CASE name = "disconnect"
  BY <1>2 DEF Program, Steps
<1>3. CASE name = "record_start"
  BY <1>3 DEF Program, Steps
<1>4. CASE name = "record_stop"
  BY <1>4 DEF Program, Steps
<1>5. CASE name = "log"
  BY <1>5 DEF Program, Steps
<1>6. CASE name = "clear"
  BY <1>6 DEF Program, Steps
<1>7. CASE name = "close"
  BY <1>7 DEF Program, Steps
<1>8. QED
  BY <1>1, <1>2, <1>3, <1>4, <1>5, <1>6, <1>7 DEF Names

LEMMA ThenTyped ==
  ASSUME TypeOK, NEW c \in Callers, NEW step, At(c, step), Then(c)
  PROVE  todo' \in [Callers -> Seq(Steps)]
BY DEF TypeOK, At, Then

LEMMA WantTyped ==   \* what a call writes of the comparison state
  ASSUME ghost \in Ghosts, NEW c \in Callers
  PROVE  /\ ghost.want \in [Callers -> Want] /\ ghost.want[c] \in Want
         /\ \A w \in Want : [ghost EXCEPT !.want[c] = w] \in Ghosts
BY DEF Ghosts

LEMMA CallsTyped ==
  ASSUME TypeOK, NEW c \in Callers, NEW name \in Names, Calls(c, name)
  PROVE  TypeOK'
<1>1. todo' \in [Callers -> Seq(Steps)]
  BY ProgramTyped DEF Calls, TypeOK
<1>2. ghost' \in Ghosts
  <2>1. PICK w : w = [ghost.want[c] EXCEPT !.path = Closed, !.nth = @ + 1]
    OBVIOUS
  <2>2. ghost.want[c] \in Want /\ ghost \in Ghosts
    BY WantTyped DEF TypeOK
  <2>3. w \in Want
    <3>1. PICK n \in Nat : n = ghost.want[c].nth + 1
      BY <2>2 DEF Want
    <3>2. w = [[ghost.want[c] EXCEPT !.path = Closed] EXCEPT !.nth = n]
      BY <2>1, <2>2, <3>1 DEF Want
    <3>3. [ghost.want[c] EXCEPT !.path = Closed] \in Want
      BY <2>2 DEF Want
    <3>4. QED
      BY <3>1, <3>2, <3>3 DEF Want
  <2>4. ghost' = [ghost EXCEPT !.kept[c] = FALSE, !.want[c] = w]
    BY <2>1, <2>2 DEF Calls, Ghosts
  <2>5. QED
    BY <2>2, <2>3, <2>4 DEF Ghosts
<1>3. DOMAIN left' \subseteq Names \cup Events
  BY DEF Calls, TypeOK, Spend
<1>4. QED
  BY <1>1, <1>2, <1>3 DEF Calls, TypeOK, cache, obs, out

LEMMA PlainTyped ==   \* steps of a call that queue nothing
  ASSUME TypeOK, NEW c \in Callers,
         Locks(c) \/ Unlocks(c) \/ Connects(c) \/ Starts(c) \/ Halts(c) \/ Marks(c) \/ Clears(c) \/ Awaits(c)
  PROVE  TypeOK'
<1>1. CASE Locks(c)
  BY <1>1, ThenTyped DEF Locks, TypeOK, obs, out
<1>2. CASE Unlocks(c)
  <2>1. todo' \in [Callers -> Seq(Steps)]
    BY <1>2, ThenTyped DEF Unlocks
  <2>2. pubs' \in Nat /\ slot' \in Snap
    BY <1>2, PublishTyped, NoneIsSnap DEF Unlocks, Publishes, TypeOK
  <2>3. QED
    BY <1>2, <2>1, <2>2 DEF Unlocks, TypeOK, obs, out
<1>3. CASE Connects(c)
  BY <1>3, ThenTyped DEF Connects, TypeOK, obs, out
<1>4. CASE Halts(c)
  BY <1>4, ThenTyped DEF Halts, TypeOK, obs, out
<1>5. CASE Marks(c)
  BY <1>5, ThenTyped DEF Marks, TypeOK, obs, out
<1>6. CASE Clears(c)
  <2>1. fr' \in Faults
    <3>1. fr \in Faults /\ NoDump \in Capture
      BY EmptySeq DEF TypeOK, NoDump, Capture
    <3>2. \A e \in Seq(Nat) : [fr EXCEPT !.ring = e] \in Faults
      BY <3>1 DEF Faults
    <3>3. \A d \in Capture : [fr EXCEPT !.cap = d] \in Faults
      BY <3>1 DEF Faults
    <3>4. [fr EXCEPT !.last = FALSE] \in Faults
      BY <3>1 DEF Faults
    <3>5. <<>> \in Seq(Nat)
      OBVIOUS
    <3>6. QED
      BY <1>6, <3>1, <3>2, <3>3, <3>4, <3>5 DEF Clears
  <2>2. todo' \in [Callers -> Seq(Steps)]
    BY <1>6, ThenTyped DEF Clears
  <2>3. QED
    BY <1>6, <2>1, <2>2 DEF Clears, TypeOK, obs, out
<1>7. CASE Awaits(c)
  BY <1>7, ThenTyped DEF Awaits, TypeOK, cache, obs, out
<1>8. CASE Starts(c)
  <2>1. feed' \in [n : Nat, latest : Fb]
    BY <1>8 DEF Starts, TypeOK, NoFb, Fb
  <2>2. QED
    BY <1>8, <2>1, ThenTyped DEF Starts, TypeOK, out
<1>9. QED
  BY <1>1, <1>2, <1>3, <1>4, <1>5, <1>6, <1>7, <1>8

LEMMA GoesTyped ==
  ASSUME TypeOK, NEW o \in Observers
  PROVE  /\ reader \in [Observers -> Reading] /\ reader[o] \in Reading /\ Idle \in Reading
         /\ reader[o].fb \in Fb /\ reader[o].fb.n \in Nat /\ reader[o].fb.bad \in BOOLEAN
         /\ reader[o].snap \in Snap /\ reader[o].at \in Nat /\ reader[o].mine \in Capture
         /\ \A r \in Reading : [reader EXCEPT ![o] = r] \in [Observers -> Reading]
         /\ \A p \in {"idle", "polled", "ring", "pend", "append", "count", "store", "test", "dump", "drop",
                      "check", "arm", "flag", "line", "publish", "error"} :
              /\ [reader[o] EXCEPT !.pc = p] \in Reading
              /\ Goes(o, p) => reader' = [reader EXCEPT ![o] = [reader[o] EXCEPT !.pc = p]]
<1>1. reader \in [Observers -> Reading] /\ reader[o] \in Reading
  BY DEF TypeOK
<1>2. NoDump \in Capture
  BY EmptySeq DEF NoDump, Capture
<1>3. Idle \in Reading
  BY <1>2, NoneIsSnap DEF Idle, Reading, NoFb, Fb
<1>4. PICK r : r = reader[o]
  OBVIOUS
<1>5. r \in Reading
  BY <1>1, <1>4
<1>6. r.fb \in Fb /\ r.snap \in Snap /\ r.at \in Nat /\ r.mine \in Capture
  BY <1>5 DEF Reading
<1>7. r.fb.n \in Nat /\ r.fb.bad \in BOOLEAN
  BY <1>6 DEF Fb
<1>8. ASSUME NEW p \in {"idle", "polled", "ring", "pend", "append", "count", "store", "test", "dump", "drop",
                        "check", "arm", "flag", "line", "publish", "error"}
      PROVE  [r EXCEPT !.pc = p] \in Reading
  BY <1>5 DEF Reading
<1>9. \A p : Goes(o, p) => reader' = [reader EXCEPT ![o] = [reader[o] EXCEPT !.pc = p]]
  BY <1>1 DEF Goes
<1>10. \A x \in Reading : [reader EXCEPT ![o] = x] \in [Observers -> Reading]
  BY <1>1
<1>11. QED
  BY <1>1, <1>3, <1>4, <1>6, <1>7, <1>8, <1>9, <1>10

LEMMA GoesIs ==
  ASSUME TypeOK, NEW o \in Observers, NEW r,
         NEW p \in {"idle", "polled", "ring", "pend", "append", "count", "store", "test", "dump", "drop",
                    "check", "arm", "flag", "line", "publish", "error"},
         Goes(o, p), r = [reader[o] EXCEPT !.pc = p]
  PROVE  r \in Reading /\ r.pc = p /\ r.at = reader[o].at /\ r.mine = reader[o].mine /\ reader' = [reader EXCEPT ![o] = r]
<1>1. reader \in [Observers -> Reading] /\ reader[o] \in Reading
  BY DEF TypeOK
<1>2. reader' = [reader EXCEPT ![o] = r]
  BY <1>1 DEF Goes
<1>3. PICK x : x = reader[o]
  OBVIOUS
<1>4. x \in Reading /\ r = [x EXCEPT !.pc = p]
  BY <1>1, <1>3
<1>5. r \in Reading /\ r.pc = p /\ r.at = x.at /\ r.mine = x.mine
  BY <1>4 DEF Reading
<1>6. QED
  BY <1>2, <1>3, <1>5

LEMMA ReaderIs ==
  ASSUME TypeOK, NEW o \in Observers
  PROVE  /\ reader \in [Observers -> Reading] /\ reader[o] \in Reading /\ reader[o].fb.bad \in BOOLEAN
         /\ reader[o].snap \in Snap /\ reader[o].at \in Nat /\ reader[o].mine \in Capture
         /\ \A r \in Reading : [reader EXCEPT ![o] = r] \in [Observers -> Reading]
BY GoesTyped

LEMMA QueueTyped ==   \* the jobs a call or an observer queues
  ASSUME TypeOK
  PROVE  /\ \A n \in Nat : /\ Line(n) \in Job /\ Line(n).k = "line" /\ Line(n).n = n
                           /\ Line(n).of = ghost.last /\ Line(n).nth = Len(ghost.took) + 1
         /\ Open(clock) \in Job /\ Open(clock).k = "open" /\ Open(clock).path = clock
         /\ Close \in Job /\ Close.k = "close"
         /\ \A d \in Capture : Dump(d) \in Job /\ Dump(d).k = "dump" /\ (Whole(d) => Whole(Dump(d)))
         /\ \A s \in Snap : State(s) \in Job /\ State(s).k = "state" /\ State(s).snap = s
         /\ \A c \in Callers : /\ Token(c) \in Job /\ Token(c).k = "token" /\ Token(c).of = c
                               /\ Token(c).nth = ghost.want[c].nth
<1>1. ASSUME NEW n \in Nat
      PROVE  /\ Line(n) \in Job /\ Line(n).k = "line" /\ Line(n).n = n
             /\ Line(n).of = ghost.last /\ Line(n).nth = Len(ghost.took) + 1
  <2>1. ghost.last \in Seconds \cup {Closed} /\ Len(ghost.took) + 1 \in Nat
    BY DEF TypeOK, Ghosts
  <2>2. QED
    BY <2>1 DEF Line, Job
<1>2. /\ Open(clock) \in Job /\ Open(clock).k = "open" /\ Open(clock).path = clock
      /\ Close \in Job /\ Close.k = "close"
  BY DEF Open, Close, Job, TypeOK
<1>3. ASSUME NEW d \in Capture PROVE Dump(d) \in Job /\ Dump(d).k = "dump" /\ (Whole(d) => Whole(Dump(d)))
  <2>1. d.lines \in Seq(Nat) /\ d.trig \in Nat /\ d.solo \in BOOLEAN
    BY DEF Capture
  <2>2. Dump(d) \in Job
    BY <2>1 DEF Dump, Job
  <2>3. Dump(d).k = "dump" /\ Dump(d).lines = d.lines /\ Dump(d).trig = d.trig /\ Dump(d).solo = d.solo
    BY DEF Dump
  <2>4. QED
    BY <2>2, <2>3 DEF Whole, Full
<1>4. ASSUME NEW s \in Snap PROVE State(s) \in Job /\ State(s).k = "state" /\ State(s).snap = s
  BY DEF State, Job
<1>5. ASSUME NEW c \in Callers
      PROVE  /\ Token(c) \in Job /\ Token(c).k = "token" /\ Token(c).of = c
             /\ Token(c).nth = ghost.want[c].nth
  <2>1. ghost.want[c].nth \in Nat
    BY DEF TypeOK, Ghosts, Want
  <2>2. QED
    BY <2>1 DEF Token, Job
<1>6. QED
  BY <1>1, <1>2, <1>3, <1>4, <1>5

LEMMA RecordedTyped ==
  ASSUME TypeOK, NEW n \in Nat, Recorded(n)
  PROVE  ghost' \in Ghosts /\ q' \in Seq(Job)
<1>1. Line(n) \in Job
  BY QueueTyped
<1>2. q' \in Seq(Job)
  BY <1>1 DEF Recorded, TypeOK
<1>3. ghost \in Ghosts /\ Append(ghost.took, n) \in Seq(Nat)
  BY DEF TypeOK, Ghosts
<1>4. ghost' = ghost \/ ghost' = [ghost EXCEPT !.took = Append(ghost.took, n)]
  BY <1>3 DEF Recorded
<1>5. \A t \in Seq(Nat) : [ghost EXCEPT !.took = t] \in Ghosts
  BY <1>3 DEF Ghosts
<1>6. QED
  BY <1>2, <1>3, <1>4, <1>5

LEMMA OpensTyped ==
  ASSUME TypeOK, NEW c \in Callers, FlushOrdered(todo[c]), Opens(c)
  PROVE  TypeOK'
<1>0. ghost \in Ghosts /\ clock \in Seconds /\ q \in Seq(Job) /\ todo[c] \in Seq(Steps) /\ todo[c] # <<>>
  BY DEF Opens, At, TypeOK
<1>1. CASE flag
  <2>1. Head(todo[c]) \in {"open", "shut"}
    BY DEF Opens, At
  <2>3. Tail(Tail(todo[c])) \in Seq(Steps)
    BY <1>0, <2>1, SkipIs
  <2>4. todo' \in [Callers -> Seq(Steps)]
    BY <1>1, <2>3 DEF Opens, TypeOK
  <2>5. QED
    BY <1>1, <2>4 DEF Opens, TypeOK, cache, obs, out
<1>2. CASE ~flag
  <2>1. todo' \in [Callers -> Seq(Steps)]
    BY <1>2, ThenTyped DEF Opens
  <2>2. q' \in Seq(Job)
    BY <1>2, <1>0, QueueTyped DEF Opens
  <2>3. ghost' \in Ghosts
    <3>1. PICK n \in Nat : n = ghost.opens[clock] + 1
      BY <1>0 DEF Ghosts
    <3>2. PICK e : e = <<>>
      OBVIOUS
    <3>3. e \in Seq(Nat)
      BY <3>2
    <3>4. ghost' = [[[ghost EXCEPT !.opens[clock] = n] EXCEPT !.took = e] EXCEPT !.last = clock]
      BY <1>2, <1>0, <3>1, <3>2 DEF Opens, Ghosts
    <3>5. [ghost EXCEPT !.opens[clock] = n] \in Ghosts
      BY <1>0, <3>1 DEF Ghosts
    <3>6. [[ghost EXCEPT !.opens[clock] = n] EXCEPT !.took = e] \in Ghosts
      BY <3>3, <3>5 DEF Ghosts
    <3>7. QED
      BY <1>0, <3>4, <3>6 DEF Ghosts
  <2>4. QED
    BY <1>2, <2>1, <2>2, <2>3 DEF Opens, TypeOK, cache, obs, out
<1>3. QED
  BY <1>1, <1>2

LEMMA ShutsTyped ==
  ASSUME TypeOK, NEW c \in Callers, FlushOrdered(todo[c]), Shuts(c)
  PROVE  TypeOK'
<1>0. /\ ghost \in Ghosts /\ clock \in Seconds /\ q \in Seq(Job) /\ todo[c] \in Seq(Steps) /\ todo[c] # <<>>
      /\ ghost.want[c] \in Want
  BY WantTyped DEF Shuts, At, TypeOK
<1>1. CASE ~flag
  <2>1. Head(todo[c]) \in {"open", "shut"}
    BY DEF Shuts, At
  <2>3. Tail(Tail(todo[c])) \in Seq(Steps)
    BY <1>0, <2>1, SkipIs
  <2>4. todo' \in [Callers -> Seq(Steps)]
    BY <1>1, <2>3 DEF Shuts, TypeOK
  <2>5. QED
    BY <1>1, <2>4 DEF Shuts, TypeOK, cache, obs, out
<1>2. CASE flag
  <2>1. todo' \in [Callers -> Seq(Steps)]
    BY <1>2, ThenTyped DEF Shuts
  <2>2. q' \in Seq(Job)
    BY <1>2, <1>0, QueueTyped DEF Shuts
  <2>3. ghost' \in Ghosts
    <3>1. PICK w : w = [[ghost.want[c] EXCEPT !.path = ghost.last] EXCEPT !.lines = ghost.took]
      OBVIOUS
    <3>2. [ghost.want[c] EXCEPT !.path = ghost.last] \in Want /\ ghost.took \in Seq(Nat)
      BY <1>0 DEF Ghosts, Want
    <3>3. w \in Want
      BY <3>1, <3>2 DEF Want
    <3>4. PICK e : e = <<>>
      OBVIOUS
    <3>5. e \in Seq(Nat)
      BY <3>4
    <3>6. ghost' = [[[ghost EXCEPT !.want[c] = w] EXCEPT !.last = Closed] EXCEPT !.took = e]
      <4>1. ghost' = [ghost EXCEPT !.want[c].path = ghost.last, !.want[c].lines = ghost.took,
                                   !.last = Closed, !.took = e]
        BY <1>2, <3>4 DEF Shuts
      <4>2. ghost.want \in [Callers -> Want]
        BY <1>0, WantTyped
      <4>3. [ghost EXCEPT !.want[c].path = ghost.last, !.want[c].lines = ghost.took]
              = [ghost EXCEPT !.want[c] = w]
        BY <1>0, <4>2, <3>1 DEF Ghosts
      <4>4. QED
        BY <4>1, <4>3
    <3>7. [ghost EXCEPT !.want[c] = w] \in Ghosts
      BY <1>0, <3>3, WantTyped
    <3>8. QED
      BY <3>5, <3>6, <3>7 DEF Ghosts
  <2>4. QED
    BY <1>2, <2>1, <2>2, <2>3 DEF Shuts, TypeOK, cache, obs, out
<1>3. QED
  BY <1>1, <1>2

LEMMA LogsReader ==   \* a script that logs changes nothing an observation depends on
  ASSUME TypeOK, NEW c \in Callers, Logs(c)
  PROVE  /\ reader' \in [Observers -> Reading]
         /\ \A p \in Observers : /\ reader'[p].pc = reader[p].pc /\ reader'[p].at = reader[p].at
                                 /\ reader'[p].mine = reader[p].mine
         /\ UNCHANGED <<q, ghost>> \/ Recorded(reader[c].fb.n)
<1>0. c \in Observers
  BY DEF Observers
<1>1. reader \in [Observers -> Reading] /\ reader[c] \in Reading
  BY <1>0, GoesTyped
<1>2. PICK fb \in Fb : reader' = reader \/ reader' = [reader EXCEPT ![c].fb = fb]
  BY DEF Logs, TypeOK, Fb, NoFb
<1>3. [reader[c] EXCEPT !.fb = fb] \in Reading
  BY <1>1 DEF Reading
<1>4. PICK r \in Reading : r = [reader[c] EXCEPT !.fb = fb]
  BY <1>3
<1>5. r.pc = reader[c].pc /\ r.at = reader[c].at /\ r.mine = reader[c].mine
  BY <1>1, <1>4 DEF Reading
<1>6. reader' = reader \/ reader' = [reader EXCEPT ![c] = r]
  BY <1>1, <1>2, <1>4
<1>7. QED
  BY <1>0, <1>1, <1>5, <1>6 DEF Logs

LEMMA QueuesTyped ==   \* the other steps of a call
  ASSUME TypeOK, NEW c \in Callers, Logs(c) \/ Promotes(c) \/ Puts(c) \/ Tokens(c)
  PROVE  TypeOK'
<1>1. CASE Logs(c)
  <2>1. todo' \in [Callers -> Seq(Steps)]
    <3>1. CASE Then(c)
      BY <1>1, <3>1, ThenTyped DEF Logs
    <3>2. CASE Return(c)
      <4>1. <<>> \in Seq(Steps)
        OBVIOUS
      <4>2. QED
        BY <3>2, <4>1 DEF Return, TypeOK
    <3>3. QED
      BY <1>1, <3>1, <3>2 DEF Logs
  <2>2. q' \in Seq(Job) /\ ghost' \in Ghosts
    <3>1. reader[c].fb.n \in Nat
      BY GoesTyped DEF Observers
    <3>2. CASE Recorded(reader[c].fb.n)
      BY <3>1, <3>2, RecordedTyped
    <3>3. CASE UNCHANGED <<q, ghost>>
      BY <3>3 DEF TypeOK
    <3>4. QED
      BY <1>1, <3>2, <3>3, LogsReader
  <2>3. reader' \in [Observers -> Reading]
    BY <1>1, LogsReader
  <2>4. QED
    BY <1>1, <2>1, <2>2, <2>3 DEF Logs, TypeOK, cache, out
<1>2. CASE Promotes(c)
  <2>1. todo' \in [Callers -> Seq(Steps)]
    BY <1>2, ThenTyped DEF Promotes
  <2>2. slot' \in Snap /\ carry' \in [Callers -> Snap]
    BY <1>2, NoneIsSnap DEF Promotes, TypeOK
  <2>3. ghost' \in Ghosts
    <3>1. PICK o \in Nat : o = Owed
      BY DEF Owed, TypeOK
    <3>2. ghost.want[c] \in Want /\ ghost \in Ghosts
      BY WantTyped DEF TypeOK
    <3>3. PICK w : w = [ghost.want[c] EXCEPT !.pub = o]
      OBVIOUS
    <3>4. w \in Want
      BY <3>2, <3>3 DEF Want
    <3>5. ghost' = [ghost EXCEPT !.want[c] = w]
      BY <1>2, <3>1, <3>2, <3>3 DEF Promotes, Ghosts
    <3>6. QED
      BY <3>2, <3>4, <3>5, WantTyped
  <2>4. QED
    BY <1>2, <2>1, <2>2, <2>3 DEF Promotes, TypeOK, cache, obs, out
<1>3. CASE Puts(c)
  <2>1. todo' \in [Callers -> Seq(Steps)]
    BY <1>3, ThenTyped DEF Puts
  <2>2. carry' \in [Callers -> Snap]
    BY <1>3, NoneIsSnap DEF Puts, TypeOK
  <2>3. q' \in Seq(Job)
    BY <1>3, QueueTyped DEF Puts, TypeOK
  <2>4. QED
    BY <1>3, <2>1, <2>2, <2>3 DEF Puts, TypeOK, cache, obs, out
<1>4. CASE Tokens(c)
  <2>1. todo' \in [Callers -> Seq(Steps)]
    BY <1>4, ThenTyped DEF Tokens
  <2>2. q' \in Seq(Job)
    BY <1>4, QueueTyped DEF Tokens, TypeOK
  <2>3. QED
    BY <1>4, <2>1, <2>2 DEF Tokens, TypeOK, cache, obs, out
<1>5. QED
  BY <1>1, <1>2, <1>3, <1>4

LEMMA FaultEdits ==   \* what the observers write
  ASSUME fr \in Faults
  PROVE  /\ fr.ring \in Seq(Nat) /\ fr.seq \in Nat /\ fr.cap \in Capture /\ NoDump \in Capture
         /\ fr.cap.lines \in Seq(Nat) /\ fr.cap.left \in Int /\ fr.cap.trig \in Nat /\ fr.cap.solo \in BOOLEAN
         /\ fr.last \in BOOLEAN /\ fr.since \in Seconds \cup {Closed}
         /\ \A d \in Capture : [fr EXCEPT !.cap = d] \in Faults
         /\ \A e \in Seq(Nat), n \in Nat, d \in Capture, s \in Seconds \cup {Closed} :
              [fr EXCEPT !.ring = e, !.seq = n, !.cap = d, !.since = s] \in Faults
         /\ \A b \in BOOLEAN : [fr EXCEPT !.last = b] \in Faults
<1>1. fr.ring \in Seq(Nat) /\ fr.seq \in Nat /\ fr.cap \in Capture /\ NoDump \in Capture
  BY EmptySeq DEF Faults, NoDump, Capture
<1>2. fr.cap.lines \in Seq(Nat) /\ fr.cap.left \in Int /\ fr.cap.trig \in Nat /\ fr.cap.solo \in BOOLEAN
  BY <1>1 DEF Capture
<1>3. fr.last \in BOOLEAN /\ fr.since \in Seconds \cup {Closed}
  BY DEF Faults
<1>4. \A d \in Capture : [fr EXCEPT !.cap = d] \in Faults
  BY DEF Faults
<1>5. \A e \in Seq(Nat), n \in Nat, d \in Capture, s \in Seconds \cup {Closed} :
        [fr EXCEPT !.ring = e, !.seq = n, !.cap = d, !.since = s] \in Faults
  BY DEF Faults
<1>6. \A b \in BOOLEAN : [fr EXCEPT !.last = b] \in Faults
  BY DEF Faults
<1>7. QED
  BY <1>1, <1>2, <1>3, <1>4, <1>5, <1>6

LEMMA CapTyped ==
  ASSUME fr \in Faults
  PROVE  /\ \A d \in Capture : [fr EXCEPT !.cap = d] \in Faults
         /\ \A b \in BOOLEAN : [fr EXCEPT !.last = b] \in Faults
BY FaultEdits

LEMMA Tail2Is ==
  ASSUME NEW s \in Seq(Nat), NEW n \in Nat, Len(s) <= Ring
  PROVE  LET r == Tail2(Append(s, n)) IN
         /\ r \in Seq(Nat) /\ Len(r) \in 1..Ring /\ r[Len(r)] = n
         /\ \E k \in {0, 1} : Len(s) + 1 = Len(r) + k /\ \A i \in 1..(Len(r) - 1) : r[i] = s[i + k]
<1>1. PICK a : a = Append(s, n)
  OBVIOUS
<1>2. /\ a \in Seq(Nat) /\ Len(a) = Len(s) + 1 /\ a[Len(s) + 1] = n /\ \A i \in 1..Len(s) : a[i] = s[i]
      /\ Len(s) \in Nat /\ Ring \in Nat \ {0} /\ a # <<>>
  BY <1>1, TelemetryAssumption
<1>3. /\ Tail(a) \in Seq(Nat) /\ Len(Tail(a)) = Len(a) - 1
      /\ \A i \in 1..(Len(a) - 1) : Tail(a)[i] = a[i + 1]
  BY <1>2
<1>4. CASE Len(a) > Ring
  <2>1. Tail2(a) = Tail(a) /\ Len(s) = Ring
    BY <1>2, <1>4 DEF Tail2
  <2>2. Len(Tail(a)) = Ring /\ Tail(a)[Ring] = n
    BY <1>2, <1>3, <2>1
  <2>3. ASSUME NEW i \in 1..(Ring - 1) PROVE Tail(a)[i] = s[i + 1]
    <3>1. i + 1 \in 1..Len(s) /\ i \in 1..(Len(a) - 1)
      BY <1>2, <2>1
    <3>2. QED
      BY <1>2, <1>3, <3>1
  <2>4. QED
    BY <1>1, <1>2, <1>3, <2>1, <2>2, <2>3
<1>5. CASE ~(Len(a) > Ring)
  <2>1. Tail2(a) = a /\ Len(a) <= Ring
    BY <1>2, <1>5 DEF Tail2
  <2>2. QED
    BY <1>1, <1>2, <2>1
<1>6. QED
  BY <1>4, <1>5

LEMMA PollsIs ==
  ASSUME TypeOK, NEW o \in Observers, Polls(o)
  PROVE  /\ \E r \in Reading : r.pc = "polled" /\ reader' = [reader EXCEPT ![o] = r]
         /\ feed' \in [n : Nat, latest : Fb] /\ DOMAIN left' = DOMAIN left
         /\ reader[o].pc = "idle" /\ UNCHANGED <<clock, cache, pubs, slot, q, disk, out, todo, carry, ghost>>
<1>1. feed \in [n : Nat, latest : Fb] /\ Idle \in Reading
  BY GoesTyped DEF TypeOK
<1>2. PICK fb : /\ reader' = [reader EXCEPT ![o] = [Idle EXCEPT !.pc = "polled", !.fb = fb]]
                /\ \/ fb = feed.latest /\ feed' = feed
                   \/ \E bad \in BOOLEAN : /\ fb = [n |-> feed.n + 1, bad |-> bad]
                                           /\ feed' = [n |-> feed.n + 1, latest |-> IF o = Stream THEN fb ELSE feed.latest]
  BY DEF Polls
<1>3. fb \in Fb /\ feed' \in [n : Nat, latest : Fb]
  BY <1>1, <1>2 DEF Fb
<1>4. PICK r : r = [Idle EXCEPT !.pc = "polled", !.fb = fb]
  OBVIOUS
<1>5. r \in Reading /\ r.pc = "polled"
  BY <1>1, <1>3, <1>4 DEF Reading
<1>6. \E S : Spend(S)
  BY DEF Polls
<1>7. DOMAIN left' = DOMAIN left
  BY <1>6 DEF Spend
<1>8. QED
  BY <1>2, <1>3, <1>4, <1>5, <1>7 DEF Polls

LEMMA SnapsIs ==
  ASSUME TypeOK, NEW o \in Observers, Snaps(o)
  PROVE  \E r \in Reading : r.pc = "ring" /\ reader' = [reader EXCEPT ![o] = r]
<1>1. reader \in [Observers -> Reading] /\ reader[o].snap \in Snap
  BY GoesTyped
<1>2. PICK b \in BOOLEAN : b = conn
  BY DEF TypeOK
<1>3. PICK sn : sn = [reader[o].snap EXCEPT !.conn = b]
  OBVIOUS
<1>4. sn \in Snap
  BY <1>1, <1>3 DEF Snap
<1>5. PICK r : r = [reader[o] EXCEPT !.pc = "ring", !.snap = sn]
  OBVIOUS
<1>6. r \in Reading /\ r.pc = "ring"
  BY <1>1, <1>4, <1>5 DEF Reading
<1>7. reader' = [reader EXCEPT ![o] = [reader[o] EXCEPT !.pc = "ring", !.snap = [reader[o].snap EXCEPT !.conn = b]]]
  BY <1>1, <1>2 DEF Snaps, Reading
<1>8. QED
  BY <1>3, <1>5, <1>6, <1>7

LEMMA RingsIs ==
  ASSUME TypeOK, NEW o \in Observers, Rings(o), Len(fr.ring) <= Ring
  PROVE  \E r \in Reading, d \in Capture, n \in Nat, e \in Seq(Nat), s \in Seconds \cup {Closed} :
           /\ r.pc = "pend" /\ r.at = n /\ r.mine = reader[o].mine /\ reader' = [reader EXCEPT ![o] = r]
           /\ n = fr.seq + 1 /\ e = Tail2(Append(fr.ring, n))
           /\ d = [fr.cap EXCEPT !.solo = fr.cap.solo /\ Alone(o)]
           /\ fr' = [fr EXCEPT !.ring = e, !.seq = n, !.cap = d, !.since = s] /\ fr' \in Faults
<1>1. reader \in [Observers -> Reading] /\ reader[o] \in Reading /\ fr \in Faults
  BY GoesTyped DEF TypeOK
<1>2. PICK n \in Nat : n = fr.seq + 1
  <2>1. fr.seq \in Nat
    BY <1>1 DEF Faults
  <2>2. QED
    BY <2>1
<1>3. PICK e \in Seq(Nat) : e = Tail2(Append(fr.ring, n))
  BY <1>1, Tail2Is, FaultEdits
<1>4. PICK s \in Seconds \cup {Closed} : s = IF fr.since = Closed THEN clock ELSE fr.since
  BY <1>1, FaultEdits DEF TypeOK
<1>5. PICK b \in BOOLEAN : b = (fr.cap.solo /\ Alone(o))
  BY <1>1, FaultEdits
<1>6. PICK d : d = [fr.cap EXCEPT !.solo = b]
  OBVIOUS
<1>7. d \in Capture
  BY <1>1, <1>6, FaultEdits DEF Capture
<1>8. fr' = [fr EXCEPT !.ring = Tail2(Append(fr.ring, n)), !.seq = n, !.cap = [fr.cap EXCEPT !.solo = b],
                       !.since = IF fr.since = Closed THEN clock ELSE fr.since]
  BY <1>1, <1>2, <1>5 DEF Rings, Faults, Capture
<1>9. fr' = [fr EXCEPT !.ring = e, !.seq = n, !.cap = d, !.since = s]
  BY <1>3, <1>4, <1>6, <1>8
<1>10. fr' \in Faults
  BY <1>1, <1>7, <1>9, FaultEdits
<1>11. PICK r : r = [reader[o] EXCEPT !.pc = "pend", !.at = n]
  OBVIOUS
<1>12. r \in Reading /\ r.pc = "pend" /\ r.at = n /\ r.mine = reader[o].mine
  BY <1>1, <1>11 DEF Reading
<1>13. reader' = [reader EXCEPT ![o] = [reader[o] EXCEPT !.pc = "pend", !.at = n]]
  BY <1>1, <1>2 DEF Rings
<1>14. QED
  BY <1>2, <1>3, <1>5, <1>6, <1>7, <1>9, <1>10, <1>11, <1>12, <1>13

LEMMA AppendsIs ==
  ASSUME TypeOK, NEW o \in Observers, Appends(o)
  PROVE  \E r \in Reading :
           /\ r.at = reader[o].at /\ r.mine = reader[o].mine /\ reader' = [reader EXCEPT ![o] = r]
           /\ \/ /\ reader[o].pc = "pend" /\ fr' = fr
                 /\ \/ fr.cap = NoDump /\ r.pc = "check"
                    \/ fr.cap # NoDump /\ r.pc = "append"
              \/ reader[o].pc = "append" /\ fr.cap = NoDump /\ fr' = fr /\ r.pc = "error"
              \/ /\ reader[o].pc = "append" /\ fr.cap # NoDump /\ r.pc = "count"
                 /\ \E l \in Seq(Nat) : /\ l = Append(fr.cap.lines, reader[o].at)
                                        /\ [fr.cap EXCEPT !.lines = l] \in Capture
                                        /\ fr' = [fr EXCEPT !.cap = [fr.cap EXCEPT !.lines = l]]
<1>1. /\ reader \in [Observers -> Reading] /\ reader[o] \in Reading /\ fr \in Faults /\ fr.cap \in Capture
      /\ fr.cap.lines \in Seq(Nat) /\ reader[o].at \in Nat
  BY GoesTyped, FaultEdits DEF TypeOK
<1>2. PICK p \in {"check", "append", "error", "count"} :
        /\ Goes(o, p)
        /\ \/ /\ reader[o].pc = "pend" /\ fr' = fr
              /\ \/ fr.cap = NoDump /\ p = "check"
                 \/ fr.cap # NoDump /\ p = "append"
           \/ reader[o].pc = "append" /\ fr.cap = NoDump /\ fr' = fr /\ p = "error"
           \/ /\ reader[o].pc = "append" /\ fr.cap # NoDump /\ p = "count"
              /\ fr' = [fr EXCEPT !.cap.lines = Append(@, reader[o].at)]
  BY DEF Appends
<1>3. PICK r : r = [reader[o] EXCEPT !.pc = p]
  OBVIOUS
<1>4. r \in Reading /\ r.pc = p /\ r.at = reader[o].at /\ r.mine = reader[o].mine /\ reader' = [reader EXCEPT ![o] = r]
  BY <1>2, <1>3, GoesIs
<1>5. PICK l \in Seq(Nat) : l = Append(fr.cap.lines, reader[o].at)
  BY <1>1, AppendIs
<1>6. [fr.cap EXCEPT !.lines = l] \in Capture
  BY <1>1 DEF Capture
<1>7. [fr EXCEPT !.cap.lines = Append(@, reader[o].at)] = [fr EXCEPT !.cap = [fr.cap EXCEPT !.lines = l]]
  BY <1>1, <1>5 DEF Faults, Capture
<1>8. QED
  BY <1>2, <1>4, <1>5, <1>6, <1>7

LEMMA CountsIs ==
  ASSUME TypeOK, NEW o \in Observers, Counts(o)
  PROVE  \E r \in Reading :
           /\ r.at = reader[o].at /\ reader' = [reader EXCEPT ![o] = r]
           /\ \/ reader[o].pc = "count" /\ fr.cap = NoDump /\ fr' = fr /\ r.pc = "error"
              \/ reader[o].pc = "count" /\ fr.cap # NoDump /\ fr' = fr /\ r.pc = "store" /\ r.mine = fr.cap
              \/ /\ reader[o].pc = "store" /\ r.pc = "test"
                 /\ \E x \in Int : /\ fr.cap.trig = reader[o].mine.trig => x = reader[o].mine.left - 1
                                   /\ [fr.cap EXCEPT !.left = x] \in Capture
                                   /\ fr' = [fr EXCEPT !.cap = [fr.cap EXCEPT !.left = x]]
<1>1. /\ reader \in [Observers -> Reading] /\ reader[o] \in Reading /\ fr \in Faults /\ fr.cap \in Capture
      /\ fr.cap.left \in Int /\ reader[o].mine.left \in Int /\ NoDump \in Capture
  BY GoesTyped, FaultEdits DEF TypeOK, Capture
<1>2. CASE reader[o].pc = "count" /\ fr.cap = NoDump
  <2>1. Goes(o, "error") /\ fr' = fr
    BY <1>2 DEF Counts
  <2>2. PICK r : r = [reader[o] EXCEPT !.pc = "error"]
    OBVIOUS
  <2>3. r \in Reading /\ r.pc = "error" /\ r.at = reader[o].at /\ reader' = [reader EXCEPT ![o] = r]
    BY <2>1, <2>2, GoesIs
  <2>4. QED
    BY <1>2, <2>1, <2>3
<1>3. CASE reader[o].pc = "count" /\ fr.cap # NoDump
  <2>1. PICK d \in Capture : d = fr.cap
    BY <1>1
  <2>2. reader' = [reader EXCEPT ![o].pc = "store", ![o].mine = d] /\ fr' = fr
    BY <1>3, <2>1 DEF Counts
  <2>3. PICK r : r = [reader[o] EXCEPT !.pc = "store", !.mine = d]
    OBVIOUS
  <2>4. r \in Reading /\ r.pc = "store" /\ r.at = reader[o].at /\ r.mine = d
    BY <1>1, <2>3 DEF Reading
  <2>5. reader' = [reader EXCEPT ![o] = r]
    BY <1>1, <2>2, <2>3
  <2>6. QED
    BY <1>3, <2>1, <2>2, <2>4, <2>5
<1>4. CASE reader[o].pc = "store"
  <2>1. PICK r : r = [reader[o] EXCEPT !.pc = "test", !.mine = NoDump]
    OBVIOUS
  <2>2. r \in Reading /\ r.pc = "test" /\ r.at = reader[o].at
    BY <1>1, <2>1 DEF Reading
  <2>3. reader' = [reader EXCEPT ![o] = r]
    <3>1. reader' = [reader EXCEPT ![o].pc = "test", ![o].mine = NoDump]
      BY <1>4 DEF Counts
    <3>2. QED
      BY <1>1, <2>1, <3>1
  <2>4. PICK x \in Int : x = IF fr.cap.trig = reader[o].mine.trig THEN reader[o].mine.left - 1 ELSE fr.cap.left
    BY <1>1
  <2>5. [fr.cap EXCEPT !.left = x] \in Capture
    BY <1>1 DEF Capture
  <2>6. fr' = [fr EXCEPT !.cap = [fr.cap EXCEPT !.left = x]]
    BY <1>1, <1>4, <2>4 DEF Counts, Faults, Capture
  <2>7. QED
    BY <1>4, <2>2, <2>3, <2>4, <2>5, <2>6
<1>5. QED
  BY <1>2, <1>3, <1>4 DEF Counts

LEMMA DumpsIs ==
  ASSUME TypeOK, NEW o \in Observers, Dumps(o)
  PROVE  \E r \in Reading :
           /\ r.at = reader[o].at /\ reader' = [reader EXCEPT ![o] = r]
           /\ \/ reader[o].pc = "dump" /\ fr' = fr /\ q' = q /\ r.pc = "drop" /\ r.mine = fr.cap
              \/ /\ reader[o].pc = "drop" /\ r.pc = "check" /\ fr' = [fr EXCEPT !.cap = NoDump]
                 /\ \/ q' = q
                    \/ \E d \in {fr.cap, reader[o].mine} : q' = Append(q, Dump(d))
<1>1. /\ reader \in [Observers -> Reading] /\ reader[o] \in Reading /\ fr \in Faults /\ fr.cap \in Capture
      /\ reader[o].mine \in Capture /\ NoDump \in Capture
  BY GoesTyped, FaultEdits DEF TypeOK
<1>2. PICK p, d : /\ reader' = [reader EXCEPT ![o].pc = p, ![o].mine = d] /\ d \in Capture
                  /\ \/ reader[o].pc = "dump" /\ p = "drop" /\ d = fr.cap
                     \/ reader[o].pc = "drop" /\ p = "check" /\ d = NoDump
  BY <1>1 DEF Dumps
<1>3. PICK r : r = [reader[o] EXCEPT !.pc = p, !.mine = d]
  OBVIOUS
<1>4. r \in Reading /\ r.pc = p /\ r.mine = d /\ r.at = reader[o].at
  BY <1>1, <1>2, <1>3 DEF Reading
<1>5. reader' = [reader EXCEPT ![o] = r]
  BY <1>1, <1>2, <1>3
<1>6. CASE reader[o].pc = "dump"
  BY <1>2, <1>4, <1>5, <1>6 DEF Dumps
<1>7. CASE reader[o].pc = "drop"
  <2>1. /\ fr' = [fr EXCEPT !.cap = NoDump]
        /\ \/ q' = q
           \/ q' = Append(q, Dump(IF fr.cap.trig = reader[o].mine.trig THEN fr.cap ELSE reader[o].mine))
    BY <1>7 DEF Dumps
  <2>2. q' = q \/ \E x \in {fr.cap, reader[o].mine} : q' = Append(q, Dump(x))
    <3>1. CASE fr.cap.trig = reader[o].mine.trig
      BY <2>1, <3>1
    <3>2. CASE fr.cap.trig # reader[o].mine.trig
      BY <2>1, <3>2
    <3>3. QED
      BY <3>1, <3>2
  <2>3. QED
    BY <1>2, <1>4, <1>5, <1>7, <2>1, <2>2
<1>8. QED
  BY <1>6, <1>7 DEF Dumps

LEMMA ChecksIs ==
  ASSUME TypeOK, NEW o \in Observers, Checks(o)
  PROVE  \E r \in Reading :
           /\ r.at = reader[o].at /\ r.mine = reader[o].mine /\ reader' = [reader EXCEPT ![o] = r]
           /\ \/ /\ reader[o].pc = "check" /\ \E b \in BOOLEAN : fr' = [fr EXCEPT !.last = b]
                 /\ r.pc = "flag" \/ (r.pc = "arm" /\ fr.cap = NoDump)
              \/ /\ reader[o].pc = "arm" /\ r.pc = "flag"
                 /\ \E d \in Capture : /\ fr' = [fr EXCEPT !.cap = d]
                                       /\ d.lines = fr.ring /\ d.left = Post /\ d.trig = reader[o].at
                                       /\ d.solo = (reader[o].at = fr.seq /\ Alone(o))
<1>1. /\ reader \in [Observers -> Reading] /\ reader[o] \in Reading /\ fr \in Faults /\ reader[o].at \in Nat
      /\ fr.ring \in Seq(Nat) /\ Post \in Int /\ reader[o].fb.bad \in BOOLEAN
  <2>1. fr \in Faults
    BY DEF TypeOK
  <2>2. fr.ring \in Seq(Nat)
    BY <2>1 DEF Faults
  <2>3. Post \in Int
    BY TelemetryAssumption
  <2>4. QED
    BY <2>1, <2>2, <2>3, ReaderIs
<1>2. PICK p \in {"arm", "flag"} : /\ Goes(o, p)
                                   /\ \/ reader[o].pc = "check" /\ (p = "arm" => fr.cap = NoDump)
                                      \/ reader[o].pc = "arm" /\ p = "flag"
  BY DEF Checks
<1>3. PICK r : r = [reader[o] EXCEPT !.pc = p]
  OBVIOUS
<1>4. r \in Reading /\ r.pc = p /\ r.at = reader[o].at /\ r.mine = reader[o].mine /\ reader' = [reader EXCEPT ![o] = r]
  BY <1>2, <1>3, GoesIs
<1>5. CASE reader[o].pc = "check"
  <2>1. \E b \in BOOLEAN : fr' = [fr EXCEPT !.last = b]
    BY <1>1, <1>5 DEF Checks
  <2>2. QED
    BY <1>2, <1>4, <1>5, <2>1
<1>6. CASE reader[o].pc = "arm"
  <2>1. PICK b \in BOOLEAN : b = (reader[o].at = fr.seq /\ Alone(o))
    OBVIOUS
  <2>2. PICK d : d = [lines |-> fr.ring, left |-> Post, trig |-> reader[o].at, solo |-> b]
    OBVIOUS
  <2>3. d \in Capture /\ d.lines = fr.ring /\ d.left = Post /\ d.trig = reader[o].at /\ d.solo = b
    BY <1>1, <2>2 DEF Capture
  <2>4. fr' = [fr EXCEPT !.cap = [lines |-> fr.ring, left |-> Post, trig |-> reader[o].at,
                                  solo |-> reader[o].at = fr.seq /\ Alone(o)]]
    BY <1>6 DEF Checks
  <2>5. fr' = [fr EXCEPT !.cap = d]
    BY <2>1, <2>2, <2>4
  <2>6. QED
    BY <1>2, <1>4, <1>6, <2>1, <2>3, <2>5
<1>7. QED
  BY <1>5, <1>6 DEF Checks

LEMMA MovesIs ==   \* the other steps of an observer
  ASSUME TypeOK, NEW o \in Observers, Tests(o) \/ Flags(o) \/ Lines(o) \/ Posts(o) \/ Errs(o)
  PROVE  \E r \in Reading :
           /\ reader' = [reader EXCEPT ![o] = r] /\ fr' = fr
           /\ \/ /\ r.at = reader[o].at /\ r.mine = reader[o].mine /\ reader[o].pc = "test"
                 /\ \/ r.pc = "error" /\ fr.cap = NoDump
                    \/ r.pc = "dump" /\ fr.cap.left <= 0
                    \/ r.pc = "check" /\ ~(fr.cap.left <= 0)
              \/ reader[o].pc \in {"flag", "line", "publish", "error"} /\ r.pc \in {"line", "publish", "idle"}
<1>1. reader \in [Observers -> Reading] /\ reader[o] \in Reading /\ Idle \in Reading /\ Idle.pc = "idle"
  BY GoesTyped DEF Idle
<1>2. CASE Posts(o) \/ Errs(o)
  BY <1>1, <1>2 DEF Posts, Errs, Returns, cache
<1>3. CASE Tests(o) \/ Flags(o) \/ Lines(o)
  <2>1. PICK p \in {"error", "dump", "check", "line", "publish"} :
          /\ Goes(o, p) /\ fr' = fr
          /\ \/ /\ reader[o].pc = "test"
                /\ \/ p = "error" /\ fr.cap = NoDump
                   \/ p = "dump" /\ fr.cap.left <= 0
                   \/ p = "check" /\ ~(fr.cap.left <= 0)
             \/ reader[o].pc \in {"flag", "line"} /\ p \in {"line", "publish"}
    BY <1>3 DEF Tests, Flags, Lines, cache
  <2>2. PICK r : r = [reader[o] EXCEPT !.pc = p]
    OBVIOUS
  <2>3. r \in Reading /\ r.pc = p /\ r.at = reader[o].at /\ r.mine = reader[o].mine /\ reader' = [reader EXCEPT ![o] = r]
    BY <2>1, <2>2, GoesIs
  <2>4. QED
    BY <2>1, <2>3
<1>4. QED
  BY <1>2, <1>3

LEMMA ReaderTyped ==
  ASSUME TypeOK, Len(fr.ring) <= Ring, NEW o \in Observers, Observer(o)
  PROVE  TypeOK'
<1>0. reader \in [Observers -> Reading] /\ fr \in Faults /\ NoDump \in Capture /\ reader[o].fb.n \in Nat
  BY GoesTyped, FaultEdits DEF TypeOK
<1>1. \A r \in Reading : [reader EXCEPT ![o] = r] \in [Observers -> Reading]
  BY ReaderIs
<1>2. CASE Polls(o)
  <2>1. /\ reader' \in [Observers -> Reading] /\ feed' \in [n : Nat, latest : Fb]
        /\ DOMAIN left' = DOMAIN left /\ UNCHANGED <<clock, cache, pubs, slot, q, disk, out, todo, carry, ghost>>
    BY <1>1, <1>2, PollsIs
  <2>2. QED
    BY <2>1 DEF TypeOK, cache, out
<1>3. CASE Snaps(o)
  <2>1. reader' \in [Observers -> Reading]
    BY <1>1, <1>3, SnapsIs
  <2>2. QED
    BY <1>3, <2>1 DEF Snaps, TypeOK, cache, out
<1>4. CASE Rings(o)
  <2>1. reader' \in [Observers -> Reading] /\ fr' \in Faults
    BY <1>1, <1>4, RingsIs
  <2>2. QED
    BY <1>4, <2>1 DEF Rings, TypeOK, out
<1>5. CASE Appends(o)
  <2>1. /\ \E r \in Reading : reader' = [reader EXCEPT ![o] = r]
        /\ fr' = fr \/ \E d \in Capture : fr' = [fr EXCEPT !.cap = d]
    BY <1>5, AppendsIs
  <2>2. reader' \in [Observers -> Reading] /\ fr' \in Faults
    BY <1>0, <1>1, <2>1, CapTyped
  <2>3. QED
    BY <1>5, <2>2 DEF Appends, TypeOK, out
<1>6. CASE Counts(o)
  <2>1. /\ \E r \in Reading : reader' = [reader EXCEPT ![o] = r]
        /\ fr' = fr \/ \E d \in Capture : fr' = [fr EXCEPT !.cap = d]
    BY <1>6, CountsIs
  <2>2. reader' \in [Observers -> Reading] /\ fr' \in Faults
    BY <1>0, <1>1, <2>1, CapTyped
  <2>3. QED
    BY <1>6, <2>2 DEF Counts, TypeOK, out
<1>7. CASE Dumps(o)
  <2>1. /\ \E r \in Reading : reader' = [reader EXCEPT ![o] = r]
        /\ fr' = fr \/ \E d \in Capture : fr' = [fr EXCEPT !.cap = d]
        /\ q' = q \/ \E d \in {fr.cap, reader[o].mine} : q' = Append(q, Dump(d))
    BY <1>0, <1>7, DumpsIs
  <2>2. reader' \in [Observers -> Reading] /\ fr' \in Faults
    BY <1>0, <1>1, <2>1, CapTyped
  <2>3. q' \in Seq(Job)
    <3>1. fr.cap \in Capture /\ reader[o].mine \in Capture
      BY <1>0, ReaderIs DEF Faults
    <3>2. q' = q \/ \E x \in Job : q' = Append(q, x)
      BY <2>1, <3>1, QueueTyped
    <3>3. q \in Seq(Job)
      BY DEF TypeOK
    <3>4. QED
      BY <3>2, <3>3, AppendIs
  <2>4. QED
    BY <1>7, <2>2, <2>3 DEF Dumps, TypeOK, out
<1>8. CASE Checks(o)
  <2>1. /\ \E r \in Reading : reader' = [reader EXCEPT ![o] = r]
        /\ \/ \E b \in BOOLEAN : fr' = [fr EXCEPT !.last = b]
           \/ \E d \in Capture : fr' = [fr EXCEPT !.cap = d]
    BY <1>8, ChecksIs
  <2>2. reader' \in [Observers -> Reading] /\ fr' \in Faults
    BY <1>0, <1>1, <2>1, CapTyped
  <2>3. QED
    BY <1>8, <2>2 DEF Checks, TypeOK, out
<1>9. CASE Tests(o) \/ Flags(o)
  <2>1. reader' \in [Observers -> Reading]
    BY <1>1, <1>9, MovesIs
  <2>2. QED
    BY <1>9, <2>1 DEF Tests, Flags, TypeOK, out, cache
<1>10. CASE Lines(o)
  <2>1. reader' \in [Observers -> Reading]
    BY <1>1, <1>10, MovesIs
  <2>2. q' \in Seq(Job) /\ ghost' \in Ghosts
    BY <1>0, <1>10, RecordedTyped DEF Lines
  <2>3. QED
    BY <1>10, <2>1, <2>2 DEF Lines, TypeOK, out, cache
<1>11. CASE Posts(o) \/ Errs(o)
  <2>1. reader' \in [Observers -> Reading]
    BY <1>1, <1>11, MovesIs
  <2>2. pubs' \in Nat /\ slot' \in Snap
    <3>1. reader[o].snap \in Snap
      BY GoesTyped
    <3>2. QED
      BY <1>11, <3>1, PublishTyped, NoneIsSnap DEF Posts, Errs, Publishes, TypeOK
  <2>3. QED
    BY <1>11, <2>1, <2>2 DEF Posts, Errs, TypeOK, out, cache
<1>12. QED
  BY <1>2, <1>3, <1>4, <1>5, <1>6, <1>7, <1>8, <1>9, <1>10, <1>11 DEF Observer

LEMMA WrittenTyped ==
  ASSUME ghost \in Ghosts, NEW s \in Snap, Written(s)
  PROVE  /\ ghost' \in Ghosts /\ shown' \in Snap
         /\ ghost'.top >= ghost.top /\ ghost'.top >= s.pub
         /\ ghost'.want = ghost.want /\ ghost'.kept = ghost.kept
<1>1. PICK t \in Nat : t = (IF s.pub > ghost.top THEN s.pub ELSE ghost.top)
  BY DEF Snap, Ghosts
<1>2. ghost' = [ghost EXCEPT !.top = t]
  BY <1>1 DEF Written, Ghosts
<1>3. ghost' \in Ghosts /\ ghost'.want = ghost.want /\ ghost'.kept = ghost.kept /\ ghost'.top = t
  BY <1>2 DEF Ghosts
<1>4. t >= ghost.top /\ t >= s.pub
  BY <1>1 DEF Snap, Ghosts
<1>5. QED
  BY <1>3, <1>4 DEF Written

LEMMA HandlesTyped ==
  ASSUME TypeOK, NEW j \in Job, Handles(j)
  PROVE  /\ shown' \in Snap /\ ghost' \in Ghosts /\ files' \in [Seconds -> Seq(Nat)]
         /\ dumps' \subseteq [lines : Seq(Nat), trig : Nat, solo : BOOLEAN]
         /\ disk' \in Thread /\ disk'.pc = disk.pc /\ disk'.job = disk.job
<1>0. /\ j.k = "open" => j.path \in Seconds
      /\ j.k = "line" => j.n \in Nat
      /\ j.k = "dump" => j.lines \in Seq(Nat) /\ j.trig \in Nat /\ j.solo \in BOOLEAN
      /\ j.k = "state" => j.snap \in Snap
      /\ j.k = "token" => j.of \in Callers /\ j.nth \in Nat
  BY JobIs
<1>1. shown' \in Snap
  BY <1>0, WrittenTyped DEF Handles, TypeOK
<1>2. ghost' \in Ghosts
  <2>1. CASE j.k = "state"
    BY <1>0, <2>1, WrittenTyped DEF Handles, TypeOK
  <2>2. CASE j.k = "token"
    <3>1. ghost' = [ghost EXCEPT !.kept[j.of] = ghost.kept[j.of] \/ j.nth = ghost.want[j.of].nth]
      BY <2>2 DEF Handles
    <3>2. PICK b \in BOOLEAN : b = (ghost.kept[j.of] \/ j.nth = ghost.want[j.of].nth)
      OBVIOUS
    <3>3. QED
      BY <1>0, <2>2, <3>1, <3>2 DEF TypeOK, Ghosts
  <2>3. CASE j.k \notin {"state", "token"}
    BY <2>3 DEF Handles, TypeOK
  <2>4. QED
    BY <2>1, <2>2, <2>3
<1>3. files' \in [Seconds -> Seq(Nat)]
  <2>1. files \in [Seconds -> Seq(Nat)] /\ disk.file \in Seconds \cup {Closed}
    BY DEF TypeOK, Thread
  <2>2. CASE j.k = "open"
    <3>1. files' = [files EXCEPT ![j.path] = <<>>]
      BY <2>2 DEF Handles
    <3>2. <<>> \in Seq(Nat)
      OBVIOUS
    <3>3. QED
      BY <2>1, <3>1, <3>2
  <2>3. CASE j.k = "line" /\ disk.file # Closed
    <3>1. files' = [files EXCEPT ![disk.file] = Append(@, j.n)]
      BY <2>3 DEF Handles
    <3>2. Append(files[disk.file], j.n) \in Seq(Nat)
      BY <1>0, <2>1, <2>3
    <3>3. QED
      BY <2>1, <2>3, <3>1, <3>2
  <2>4. CASE j.k # "open" /\ ~(j.k = "line" /\ disk.file # Closed)
    BY <2>1, <2>4 DEF Handles
  <2>5. QED
    BY <2>2, <2>3, <2>4
<1>4. dumps' \subseteq [lines : Seq(Nat), trig : Nat, solo : BOOLEAN]
  BY <1>0 DEF Handles, TypeOK
<1>5. disk' \in Thread /\ disk'.pc = disk.pc /\ disk'.job = disk.job
  BY <1>0 DEF Handles, TypeOK, Thread
<1>6. QED
  BY <1>1, <1>2, <1>3, <1>4, <1>5

LEMMA DiskTyped ==
  ASSUME TypeOK, Disk \/ Breaks \/ Second
  PROVE  TypeOK'
<1>0. disk \in Thread /\ disk.job \in Snap /\ disk.file \in Seconds \cup {Closed} /\ None \in Snap /\ slot \in Snap
  BY NoneIsSnap DEF TypeOK, Thread
<1>1. CASE Drains
  <2>1. Tail(q) \in Seq(Job) /\ Head(q) \in Job
    BY <1>1, TailIs DEF Drains, TypeOK
  <2>2. Handles(Head(q)) /\ q' = Tail(q)
    BY <1>1 DEF Drains
  <2>3. PICK j \in Job : j = Head(q)
    BY <2>1
  <2>4. Handles(j)
    BY <2>2, <2>3
  <2>5. /\ shown' \in Snap /\ ghost' \in Ghosts /\ files' \in [Seconds -> Seq(Nat)]
        /\ dumps' \subseteq [lines : Seq(Nat), trig : Nat, solo : BOOLEAN] /\ disk' \in Thread
    BY <2>4, HandlesTyped
  <2>6. QED
    BY <1>1, <2>1, <2>2, <2>5 DEF Drains, TypeOK, cache, obs
<1>2. CASE Takes
  <2>1. disk' \in Thread
    BY <1>0, <1>2 DEF Takes, Thread
  <2>2. QED
    BY <1>0, <1>2, <2>1 DEF Takes, TypeOK, cache, obs, out
<1>4. CASE Writes
  <2>1. disk' \in Thread
    BY <1>0, <1>4 DEF Writes, Thread
  <2>2. ghost' \in Ghosts /\ shown' \in Snap
    BY <1>0, <1>4, WrittenTyped DEF Writes, TypeOK
  <2>3. QED
    BY <1>4, <2>1, <2>2 DEF Writes, TypeOK, cache, obs
<1>5. CASE Waits
  <2>1. disk' \in Thread
    BY <1>0, <1>5 DEF Waits, Thread
  <2>2. QED
    BY <1>5, <2>1 DEF Waits, TypeOK, cache, obs, out
<1>6. CASE Wakes
  <2>1. disk' \in Thread
    BY <1>0, <1>6 DEF Wakes, Thread
  <2>2. QED
    BY <1>6, <2>1 DEF Wakes, TypeOK, cache, obs, out
<1>7. CASE Breaks
  <2>1. disk' \in Thread
    BY <1>0, <1>7 DEF Breaks, Thread
  <2>2. q' \in Seq(Job)
    <3>1. q \in Seq(Job) /\ (q' = q \/ (q # <<>> /\ q' = Tail(q)))
      BY <1>7 DEF Breaks, TypeOK
    <3>2. QED
      BY <3>1, TailIs
  <2>3. DOMAIN left' \subseteq Names \cup Events
    BY <1>7 DEF Breaks, Spend, TypeOK
  <2>4. QED
    BY <1>7, <2>1, <2>2, <2>3 DEF Breaks, TypeOK, cache, obs, out
<1>8. CASE Second
  <2>1. clock' \in Seconds
    BY <1>8, TelemetryAssumption DEF Second, TypeOK, Seconds
  <2>2. DOMAIN left' \subseteq Names \cup Events
    BY <1>8 DEF Second, Spend, TypeOK
  <2>3. QED
    BY <1>8, <2>1, <2>2 DEF Second, TypeOK, cache, obs, out
<1>9. QED
  BY <1>1, <1>2, <1>4, <1>5, <1>6, <1>7, <1>8 DEF Disk

LEMMA TypeKeeps ==
  ASSUME IInv, Next
  PROVE  TypeOK'
<1>0. TypeOK /\ Len(fr.ring) <= Ring /\ \A c \in Callers : FlushOrdered(todo[c])
  BY DEF IInv, DumpInv, RingOK, FlushInv, FlushOK
<1>1. CASE Second \/ Disk \/ Breaks \/ \E o \in Observers : Observer(o)
  BY <1>0, <1>1, ReaderTyped, DiskTyped
<1>2. ASSUME NEW c \in Callers, Caller(c) PROVE TypeOK'
  <2>1. CASE \E name \in DOMAIN left \ Events : Calls(c, name)
    <3>1. DOMAIN left \subseteq Names \cup Events
      BY <1>0 DEF TypeOK
    <3>2. PICK name \in Names : Calls(c, name)
      BY <2>1, <3>1
    <3>3. QED
      BY <1>0, <3>2, CallsTyped
  <2>2. CASE Locks(c) \/ Unlocks(c) \/ Connects(c) \/ Starts(c) \/ Halts(c) \/ Marks(c) \/ Clears(c) \/ Awaits(c)
    BY <1>0, <2>2, PlainTyped
  <2>3. CASE Opens(c) \/ Shuts(c)
    BY <1>0, <2>3, OpensTyped, ShutsTyped
  <2>4. CASE Logs(c) \/ Promotes(c) \/ Puts(c) \/ Tokens(c)
    BY <1>0, <2>4, QueuesTyped
  <2>5. QED
    BY <1>2, <2>1, <2>2, <2>3, <2>4 DEF Caller
<1>3. QED
  BY <1>1, <1>2 DEF Next

LEMMA TypedInit == Init => TypeOK
<1>1. SUFFICES ASSUME Init PROVE TypeOK
  OBVIOUS
<1>2. PICK e : e = <<>>
  OBVIOUS
<1>3. e \in Seq(Nat) /\ e \in Seq(Job) /\ e \in Seq(Steps)
  BY <1>2
<1>4. None \in Snap /\ NoDump \in Capture /\ 0 \in Seconds /\ 0 \in Nat
  BY NoneIsSnap, TelemetryAssumption, <1>2, <1>3 DEF NoDump, Capture, Seconds
<1>5. reader \in [Observers -> Reading] /\ feed \in [n : Nat, latest : Fb]
  <2>1. Idle \in Reading /\ NoFb \in Fb
    BY <1>4 DEF Idle, Reading, NoFb, Fb
  <2>2. reader = [o \in Observers |-> Idle] /\ feed = [n |-> 0, latest |-> NoFb]
    BY <1>1, Zenon DEF Init
  <2>3. QED
    BY <2>1, <2>2
<1>6. fr \in Faults
  <2>1. fr = [ring |-> e, seq |-> 0, cap |-> NoDump, last |-> FALSE, since |-> Closed]
    BY <1>1, <1>2, Zenon DEF Init
  <2>2. QED
    BY <1>3, <1>4, <2>1 DEF Faults
<1>7. disk \in Thread
  <2>1. disk = [pc |-> "drain", job |-> None, file |-> Closed]
    BY <1>1, Zenon DEF Init
  <2>2. QED
    BY <1>4, <2>1 DEF Thread
<1>8. ghost \in Ghosts
  <2>1. PICK o \in [Seconds -> Nat] : o = [s \in 0..MaxClock |-> 0]
    BY <1>4 DEF Seconds
  <2>2. PICK w : w = [nth |-> 0, pub |-> 0, path |-> Closed, lines |-> e]
    OBVIOUS
  <2>3. w \in Want
    BY <1>3, <1>4, <2>2 DEF Want
  <2>4. PICK ws \in [Callers -> Want] : ws = [c \in Callers |-> w]
    BY <2>3
  <2>5. PICK k \in [Callers -> BOOLEAN] : k = [c \in Callers |-> FALSE]
    OBVIOUS
  <2>6. ghost = [top |-> 0, opens |-> [s \in 0..MaxClock |-> 0], took |-> <<>>, last |-> Closed,
                 want |-> [c \in Callers |-> [nth |-> 0, pub |-> 0, path |-> Closed, lines |-> <<>>]],
                 kept |-> [c \in Callers |-> FALSE]]
    BY <1>1, Zenon DEF Init
  <2>7. ghost = [top |-> 0, opens |-> o, took |-> e, last |-> Closed, want |-> ws, kept |-> k]
    BY <1>2, <2>1, <2>2, <2>4, <2>5, <2>6, Zenon
  <2>8. QED
    BY <1>3, <1>4, <2>1, <2>4, <2>5, <2>7 DEF Ghosts
<1>9. files \in [Seconds -> Seq(Nat)] /\ todo \in [Callers -> Seq(Steps)] /\ carry \in [Callers -> Snap]
  <2>1. /\ files = [s \in 0..MaxClock |-> e] /\ todo = [c \in Callers |-> e]
        /\ carry = [c \in Callers |-> None]
    BY <1>1, <1>2, Zenon DEF Init
  <2>2. QED
    BY <1>3, <1>4, <2>1 DEF Seconds
<1>10. DOMAIN left \subseteq Names \cup Events
  <2>1. left \in Mixes
    BY <1>1, Zenon DEF Init
  <2>2. QED
    BY <2>1, MixesAssumption
<1>11. q \in Seq(Job) /\ dumps \subseteq [lines : Seq(Nat), trig : Nat, solo : BOOLEAN]
  <2>1. q = e /\ dumps = {}
    BY <1>1, <1>2, Zenon DEF Init
  <2>2. QED
    BY <1>3, <2>1
<1>13. /\ clock = 0 /\ lock = Nobody /\ conn = FALSE /\ streaming = FALSE /\ flag = FALSE
       /\ pubs = 0 /\ slot = None /\ shown = None
  BY <1>1, Zenon DEF Init
<1>12. QED
  BY <1>4, <1>5, <1>6, <1>7, <1>8, <1>9, <1>10, <1>11, <1>13 DEF TypeOK

-----------------------------------------------------------------------------
(* Fault dumps. *)

LEMMA GaplessAppend ==
  ASSUME NEW s \in Seq(Nat), NEW n \in Nat, Gapless(s), s # <<>> => s[Len(s)] = n - 1
  PROVE  Gapless(Append(s, n))
<1>1. PICK a : a = Append(s, n)
  OBVIOUS
<1>2. /\ a \in Seq(Nat) /\ Len(a) = Len(s) + 1 /\ a[Len(s) + 1] = n /\ \A i \in 1..Len(s) : a[i] = s[i]
      /\ Len(s) \in Nat
  BY <1>1
<1>3. ASSUME NEW i \in 1..(Len(a) - 1) PROVE a[i + 1] = a[i] + 1
  <2>1. CASE i = Len(s)
    <3>1. s # <<>> /\ s[Len(s)] \in Nat
      BY <1>2, <2>1
    <3>2. QED
      BY <1>2, <2>1, <3>1
  <2>2. CASE i # Len(s)
    <3>1. i \in 1..(Len(s) - 1) /\ i \in 1..Len(s) /\ i + 1 \in 1..Len(s)
      BY <1>2, <2>2
    <3>2. QED
      BY <1>2, <3>1 DEF Gapless
  <2>3. QED
    BY <2>1, <2>2
<1>4. QED
  BY <1>1, <1>3 DEF Gapless

LEMMA RingGrows ==
  ASSUME NEW r \in Seq(Nat), NEW m \in Nat, NEW n \in Nat, n = m + 1, RingOK(r, m)
  PROVE  RingOK(Tail2(Append(r, n)), n)
<1>1. Len(r) <= Ring /\ Gapless(r) /\ (r # <<>> => r[Len(r)] = n - 1) /\ Ring \in Nat
  BY TelemetryAssumption DEF RingOK
<1>2. PICK t : t = Tail2(Append(r, n))
  OBVIOUS
<1>3. t \in Seq(Nat) /\ Len(t) \in 1..Ring /\ t[Len(t)] = n
  BY <1>1, <1>2, Tail2Is
<1>4. PICK k \in {0, 1} : Len(r) + 1 = Len(t) + k /\ \A i \in 1..(Len(t) - 1) : t[i] = r[i + k]
  <2>1. \E k \in {0, 1} : /\ Len(r) + 1 = Len(Tail2(Append(r, n))) + k
                        /\ \A i \in 1..(Len(Tail2(Append(r, n))) - 1) : Tail2(Append(r, n))[i] = r[i + k]
    BY <1>1, Tail2Is
  <2>2. QED
    BY <1>2, <2>1, Zenon
<1>5. ASSUME NEW i \in 1..(Len(t) - 1) PROVE t[i + 1] = t[i] + 1
  <2>1. t[i] = r[i + k] /\ i + k \in 1..Len(r) /\ Len(r) \in Nat
    <3>1. Len(r) \in Nat /\ Len(t) \in Nat /\ Len(r) + 1 = Len(t) + k
      BY <1>3, <1>4
    <3>2. i + k \in 1..Len(r)
      BY <3>1
    <3>3. QED
      BY <1>4, <3>1, <3>2
  <2>2. CASE i = Len(t) - 1
    <3>1. i + k = Len(r) /\ r # <<>>
      BY <1>3, <1>4, <2>1, <2>2
    <3>2. t[i] = n - 1
      BY <1>1, <2>1, <3>1
    <3>3. i + 1 = Len(t)
      BY <1>3, <2>2
    <3>4. t[i + 1] = n
      BY <1>3, <3>3
    <3>5. QED
      BY <3>2, <3>4
  <2>3. CASE i # Len(t) - 1
    <3>1. t[i + 1] = r[i + 1 + k] /\ i + k \in 1..(Len(r) - 1)
      BY <1>3, <1>4, <2>3
    <3>2. r[i + k + 1] = r[i + k] + 1
      BY <1>1, <3>1 DEF Gapless
    <3>3. i + 1 + k = i + k + 1
      OBVIOUS
    <3>4. QED
      BY <2>1, <3>1, <3>2, <3>3
  <2>4. QED
    BY <2>2, <2>3
<1>6. RingOK(t, n)
  BY <1>1, <1>3, <1>5 DEF RingOK, Gapless
<1>7. QED
  BY <1>2, <1>6

LEMMA CaptureIs ==
  ASSUME NEW d \in Capture
  PROVE  /\ d.lines \in Seq(Nat) /\ d.left \in Int /\ d.trig \in Nat /\ Len(d.lines) \in Nat
         /\ Post \in Nat \ {0} /\ Ring \in Nat
BY TelemetryAssumption DEF Capture

LEMMA CaptureSame ==   \* only the lines, the count and the trigger matter
  ASSUME NEW d, NEW e, e.lines = d.lines, e.left = d.left, e.trig = d.trig, NEW p, NEW n, CaptureOK(d, p, n)
  PROVE  CaptureOK(e, p, n)
BY DEF CaptureOK

LEMMA CaptureMoves ==   \* steps that neither append nor count
  ASSUME NEW d \in Capture, NEW n \in Nat, NEW p, NEW x, CaptureOK(d, p, n),
         \/ p = x
         \/ p = "pend" /\ x = "append"
         \/ p = "count" /\ x = "store"
         \/ p = "dump" /\ x = "drop"
         \/ p = "check" /\ x \in {"idle", "arm"}
         \/ p = "test" /\ x = "dump" /\ d.left <= 0
         \/ p = "test" /\ x = "check" /\ ~(d.left <= 0)
  PROVE  CaptureOK(d, x, n)
<1>1. CASE p = x
  BY <1>1
<1>2. CASE p = "pend" /\ x = "append"
  BY <1>2 DEF CaptureOK
<1>3. CASE p = "count" /\ x = "store"
  BY <1>3 DEF CaptureOK
<1>4. CASE p = "dump" /\ x = "drop"
  BY <1>4 DEF CaptureOK
<1>5. CASE p = "check" /\ x \in {"idle", "arm"}
  BY <1>5 DEF CaptureOK
<1>6. CASE p = "test" /\ x = "dump" /\ d.left <= 0
  <2>1. d.left = 0
    BY <1>6, CaptureIs DEF CaptureOK
  <2>2. QED
    BY <1>6, <2>1 DEF CaptureOK
<1>7. CASE p = "test" /\ x = "check" /\ ~(d.left <= 0)
  <2>1. d.left \in 1..Post
    BY <1>7, CaptureIs DEF CaptureOK
  <2>2. QED
    BY <1>7, <2>1 DEF CaptureOK
<1>8. QED
  BY <1>1, <1>2, <1>3, <1>4, <1>5, <1>6, <1>7

LEMMA CaptureEnters ==
  ASSUME NEW d \in Capture, NEW m \in Nat, NEW n \in Nat, n = m + 1, CaptureOK(d, "idle", m)
  PROVE  CaptureOK(d, "pend", n)
BY CaptureIs DEF CaptureOK

LEMMA CaptureAppends ==
  ASSUME NEW d \in Capture, NEW n \in Nat, CaptureOK(d, "append", n), NEW l \in Seq(Nat), l = Append(d.lines, n)
  PROVE  CaptureOK([d EXCEPT !.lines = l], "count", n)
<1>2. d.lines \in Seq(Nat) /\ d.left \in Int /\ d.trig \in Nat /\ Len(d.lines) \in Nat
  BY CaptureIs
<1>3. Len(l) = Len(d.lines) + 1 /\ l[Len(l)] = n
  BY <1>2
<1>4. PICK e : e = [d EXCEPT !.lines = l]
  OBVIOUS
<1>5. e.lines = l /\ e.left = d.left /\ e.trig = d.trig
  BY <1>4 DEF Capture
<1>6. /\ d.left \in 1..Post /\ n = d.trig + (Post - d.left) + 1 /\ Gapless(d.lines)
      /\ d.lines # <<>> => d.lines[Len(d.lines)] = n - 1
      /\ Len(d.lines) - (Post - d.left) \in 0..Ring
  BY <1>2 DEF CaptureOK
<1>7. Gapless(l)
  BY <1>2, <1>6, GaplessAppend
<1>8. Len(l) - (Post - d.left) \in 1..(Ring + 1)
  <2>1. PICK y \in Int : y = d.left
    BY <1>2
  <2>2. PICK m \in Nat : m = Len(d.lines)
    BY <1>2
  <2>3. m - (Post - y) \in 0..Ring /\ Len(l) = m + 1 /\ Post \in Nat /\ Ring \in Nat
    BY <1>3, <1>6, <2>1, <2>2, TelemetryAssumption
  <2>4. (m + 1) - (Post - y) \in 1..(Ring + 1)
    BY <2>3
  <2>5. QED
    BY <2>1, <2>3, <2>4
<1>9. CaptureOK(e, "count", n)
  BY <1>2, <1>3, <1>5, <1>6, <1>7, <1>8 DEF CaptureOK
<1>10. QED
  BY <1>4, <1>9

LEMMA CaptureCounts ==
  ASSUME NEW d \in Capture, NEW n \in Nat, CaptureOK(d, "store", n), NEW x \in Int, x = d.left - 1
  PROVE  CaptureOK([d EXCEPT !.left = x], "test", n)
<1>1. d.lines \in Seq(Nat) /\ d.left \in Int /\ d.trig \in Nat /\ Len(d.lines) \in Nat /\ Post \in Nat /\ Ring \in Nat
  BY CaptureIs
<1>3. PICK e : e = [d EXCEPT !.left = x]
  OBVIOUS
<1>4. e.lines = d.lines /\ e.left = x /\ e.trig = d.trig
  BY <1>3 DEF Capture
<1>5. /\ d.left \in 1..Post /\ n = d.trig + (Post - d.left) + 1 /\ Gapless(d.lines)
      /\ d.lines # <<>> => d.lines[Len(d.lines)] = n
      /\ Len(d.lines) - (Post - d.left) \in 1..(Ring + 1)
  BY <1>1 DEF CaptureOK
<1>6. /\ n = d.trig + (Post - x) + 0 /\ x \in 0..Post
      /\ Len(d.lines) - (Post - x) \in 0..Ring
  <2>1. PICK y \in Int : y = d.left
    BY <1>1
  <2>2. PICK m \in Nat : m = Len(d.lines)
    BY <1>1
  <2>3. /\ m - (Post - y) \in 1..(Ring + 1) /\ x = y - 1 /\ Post \in Nat /\ Ring \in Nat
        /\ n = d.trig + (Post - y) + 1 /\ y \in 1..Post
    BY <1>1, <1>5, <2>1, <2>2
  <2>4. m - (Post - x) \in 0..Ring /\ x \in 0..Post
    BY <2>3
  <2>5. n = d.trig + (Post - x) + 0
    BY <1>1, <2>3
  <2>6. QED
    BY <2>2, <2>4, <2>5
<1>7. CaptureOK(e, "test", n)
  BY <1>1, <1>4, <1>5, <1>6 DEF CaptureOK
<1>8. QED
  BY <1>3, <1>7

LEMMA CaptureDumps ==   \* a capture that is queued is a full dump
  ASSUME NEW d \in Capture, NEW n \in Nat, NEW p \in {"dump", "drop"}, CaptureOK(d, p, n)
  PROVE  Full(d)
<1>1. d.lines \in Seq(Nat) /\ d.left \in Int /\ d.trig \in Nat /\ Len(d.lines) \in Nat /\ Post \in Nat \ {0} /\ Ring \in Nat
  BY CaptureIs
<1>2. /\ d.left = 0 /\ n = d.trig + (Post - d.left) + 0 /\ Gapless(d.lines)
      /\ d.lines # <<>> => d.lines[Len(d.lines)] = n
      /\ Len(d.lines) - (Post - d.left) \in 0..Ring
  BY <1>1 DEF CaptureOK
<1>3. Len(d.lines) \in Post..(Ring + Post)
  BY <1>1, <1>2
<1>4. d.lines # <<>>
  BY <1>1, <1>3
<1>5. Gapless(d.lines) /\ d.lines[Len(d.lines)] = d.trig + Post
  BY <1>1, <1>2, <1>4
<1>6. QED
  BY <1>3, <1>5 DEF Full

LEMMA CaptureStarts ==
  ASSUME NEW d \in Capture, NEW n \in Nat, RingOK(d.lines, n), d.left = Post, d.trig = n
  PROVE  CaptureOK(d, "idle", n)
BY CaptureIs DEF RingOK, CaptureOK

-----------------------------------------------------------------------------
(* SoloOK, as a statement about any state of the observers and the capture.*)

In(r) == r.pc \in {"pend", "append", "count", "store", "test", "dump", "drop", "check", "arm"}

Carried(r, f) ==
  /\ r.at = f.seq /\ CaptureOK(f.cap, r.pc, f.seq)
  /\ r.pc = "store" => r.mine.trig = f.cap.trig /\ r.mine.left = f.cap.left

Solo(rd, f) ==
  f.cap.solo =>
    /\ \A o \in Observers : In(rd[o]) => Carried(rd[o], f) /\ \A p \in Observers : In(rd[p]) => p = o
    /\ (\A o \in Observers : ~In(rd[o])) => CaptureOK(f.cap, "idle", f.seq)

Held(rd) == \A o \in Observers : rd[o].pc = "drop" => Whole(rd[o].mine)

LEMMA SoloIs == (SoloOK <=> Solo(reader, fr)) /\ (HeldOK <=> Held(reader)) /\ \A o : Inside(o) <=> In(reader[o])
BY DEF SoloOK, Solo, HeldOK, Held, Inside, In, Alone, CarriedOK, Carried

LEMMA SoloNext == (SoloOK' <=> Solo(reader', fr')) /\ (HeldOK' <=> Held(reader'))
BY DEF SoloOK, Solo, HeldOK, Held, Inside, In, Alone, CarriedOK, Carried, CaptureOK, Gapless, Whole, Full

\* What a step of one observer leaves of the others.
LEMMA OthersStay ==
  ASSUME NEW rd \in [Observers -> Reading], NEW o \in Observers, NEW r \in Reading, NEW x,
         x = [rd EXCEPT ![o] = r]
  PROVE  x[o] = r /\ \A p \in Observers : p # o => x[p] = rd[p]
OBVIOUS

LEMMA SoloKeeps ==   \* a step inside, or out
  ASSUME NEW rd \in [Observers -> Reading], NEW o \in Observers, NEW r \in Reading, NEW x,
         x = [rd EXCEPT ![o] = r], NEW f, NEW g, Solo(rd, f), In(rd[o]),
         g.cap.solo => f.cap.solo,
         g.cap.solo /\ Carried(rd[o], f) =>
           IF In(r) THEN Carried(r, g) ELSE CaptureOK(g.cap, "idle", g.seq)
  PROVE  Solo(x, g)
<1>1. SUFFICES ASSUME g.cap.solo
               PROVE  /\ \A a \in Observers : In(x[a]) => Carried(x[a], g) /\ \A p \in Observers : In(x[p]) => p = a
                      /\ (\A a \in Observers : ~In(x[a])) => CaptureOK(g.cap, "idle", g.seq)
  BY DEF Solo
<1>2. x[o] = r /\ \A p \in Observers : p # o => x[p] = rd[p]
  BY OthersStay
<1>3. Carried(rd[o], f) /\ \A p \in Observers : In(rd[p]) => p = o
  BY <1>1 DEF Solo
<1>4. \A p \in Observers : In(x[p]) => p = o
  BY <1>2, <1>3
<1>5. QED
  BY <1>1, <1>2, <1>3, <1>4

LEMMA SoloRests ==   \* a step outside
  ASSUME NEW rd \in [Observers -> Reading], NEW o \in Observers, NEW r \in Reading, NEW x,
         x = [rd EXCEPT ![o] = r], NEW f, Solo(rd, f), ~In(rd[o]), ~In(r)
  PROVE  Solo(x, f)
<1>1. x[o] = r /\ \A p \in Observers : p # o => x[p] = rd[p]
  BY OthersStay
<1>2. \A p \in Observers : (In(x[p]) <=> In(rd[p])) /\ (In(x[p]) => x[p] = rd[p])
  BY <1>1
<1>3. QED
  BY <1>2 DEF Solo

LEMMA SoloEnters ==
  ASSUME NEW rd \in [Observers -> Reading], NEW o \in Observers, NEW r \in Reading, NEW x,
         x = [rd EXCEPT ![o] = r], NEW f, NEW g, Solo(rd, f), ~In(rd[o]), In(r),
         g.cap.solo => f.cap.solo /\ \A p \in Observers : In(rd[p]) => p = o,
         g.cap.solo /\ CaptureOK(f.cap, "idle", f.seq) => Carried(r, g)
  PROVE  Solo(x, g)
<1>1. SUFFICES ASSUME g.cap.solo
               PROVE  /\ \A a \in Observers : In(x[a]) => Carried(x[a], g) /\ \A p \in Observers : In(x[p]) => p = a
                      /\ (\A a \in Observers : ~In(x[a])) => CaptureOK(g.cap, "idle", g.seq)
  BY DEF Solo
<1>2. x[o] = r /\ \A p \in Observers : p # o => x[p] = rd[p]
  BY OthersStay
<1>3. \A p \in Observers : ~In(rd[p])
  BY <1>1
<1>4. Carried(r, g)
  BY <1>1, <1>3 DEF Solo
<1>5. QED
  BY <1>2, <1>3, <1>4

LEMMA SoloArms ==
  ASSUME NEW rd \in [Observers -> Reading], NEW o \in Observers, NEW r \in Reading, NEW x,
         x = [rd EXCEPT ![o] = r], NEW g, ~In(r),
         g.cap.solo => CaptureOK(g.cap, "idle", g.seq) /\ \A p \in Observers : In(rd[p]) => p = o
  PROVE  Solo(x, g)
<1>1. x[o] = r /\ \A p \in Observers : p # o => x[p] = rd[p]
  BY OthersStay
<1>2. g.cap.solo => \A p \in Observers : ~In(x[p])
  BY <1>1
<1>3. QED
  BY <1>2 DEF Solo

LEMMA HeldKeeps ==
  ASSUME NEW rd \in [Observers -> Reading], NEW o \in Observers, NEW r \in Reading, NEW x,
         x = [rd EXCEPT ![o] = r], Held(rd), r.pc = "drop" => Whole(r.mine)
  PROVE  Held(x)
BY OthersStay DEF Held

LEMMA FullAppend ==
  ASSUME NEW s \in Seq(Job), NEW j \in Job, JobsFull(s), j.k = "dump" => Whole(j)
  PROVE  JobsFull(Append(s, j))
<1>1. PICK a : a = Append(s, j)
  OBVIOUS
<1>2. Len(a) = Len(s) + 1 /\ a[Len(s) + 1] = j /\ (\A i \in 1..Len(s) : a[i] = s[i]) /\ Len(s) \in Nat
  BY <1>1
<1>3. \A i \in 1..Len(a) : i \in 1..Len(s) \/ i = Len(s) + 1
  BY <1>2
<1>4. JobsFull(a)
  BY <1>2, <1>3 DEF JobsFull
<1>5. QED
  BY <1>1, <1>4

LEMMA FullTail ==
  ASSUME NEW s \in Seq(Job), s # <<>>, JobsFull(s)
  PROVE  JobsFull(Tail(s)) /\ (Head(s).k = "dump" => Whole(Head(s)))
<1>1. PICK a : a = Tail(s)
  OBVIOUS
<1>2. Len(a) = Len(s) - 1 /\ (\A i \in 1..Len(a) : a[i] = s[i + 1]) /\ Len(s) \in Nat \ {0} /\ Head(s) = s[1]
  BY <1>1, TailIs
<1>3. \A i \in 1..Len(a) : i + 1 \in 1..Len(s)
  BY <1>2
<1>4. JobsFull(a) /\ 1 \in 1..Len(s)
  BY <1>2, <1>3 DEF JobsFull
<1>5. QED
  BY <1>1, <1>2, <1>4 DEF JobsFull

LEMMA JobsNext == \A b : q' = b /\ JobsFull(b) => JobsFull(q)'
BY DEF JobsFull, Whole, Full, Gapless

LEMMA DumpNext ==
  ASSUME NEW f, fr' = f, RingOK(f.ring, f.seq), Solo(reader', f), Held(reader'), JobsFull(q)', DumpsWhole'
  PROVE  DumpInv'
<1>1. RingOK(fr.ring, fr.seq)'
  BY DEF RingOK, Gapless
<1>2. QED
  BY <1>1, SoloNext DEF DumpInv

LEMMA DumpsStay ==
  ASSUME DumpInv, dumps' = dumps
  PROVE  DumpsWhole'
BY DEF DumpInv, DumpsWhole, Full, Gapless

\* What every step that leaves the observers and their capture alone has to show.
LEMMA DumpSame ==
  ASSUME DumpInv, fr' = fr, JobsFull(q)', DumpsWhole',
         \A o \in Observers : /\ reader'[o].pc = reader[o].pc /\ reader'[o].at = reader[o].at
                              /\ reader'[o].mine = reader[o].mine
  PROVE  DumpInv'
<1>1. Solo(reader, fr) /\ Held(reader) /\ RingOK(fr.ring, fr.seq)
  BY SoloIs DEF DumpInv
<1>2. Solo(reader', fr) /\ Held(reader')
  BY <1>1 DEF Solo, Held, In, Carried
<1>3. QED
  BY <1>1, <1>2, DumpNext

LEMMA RecordedFull ==
  ASSUME TypeOK, DumpInv, NEW n \in Nat, Recorded(n)
  PROVE  JobsFull(q)'
<1>1. q \in Seq(Job) /\ Line(n) \in Job /\ Line(n).k = "line"
  BY QueueTyped DEF TypeOK
<1>2. JobsFull(Append(q, Line(n)))
  BY <1>1, FullAppend DEF DumpInv
<1>3. QED
  BY <1>2, JobsNext DEF Recorded

LEMMA AppendedFull ==
  ASSUME TypeOK, DumpInv, NEW j \in Job, j.k = "dump" => Whole(j), q' = Append(q, j)
  PROVE  JobsFull(q)'
BY FullAppend, JobsNext DEF TypeOK, DumpInv

LEMMA TailFull ==
  ASSUME TypeOK, DumpInv, q # <<>>, q' = Tail(q)
  PROVE  JobsFull(q)'
BY FullTail, JobsNext DEF TypeOK, DumpInv

LEMMA SameFull ==
  ASSUME DumpInv, q' = q
  PROVE  JobsFull(q)'
BY JobsNext DEF DumpInv

LEMMA CallerKeepsDumps ==
  ASSUME TypeOK, DumpInv, NEW c \in Callers, Caller(c)
  PROVE  DumpInv'
<1>1. CASE \E name \in DOMAIN left \ Events : Calls(c, name)
  BY <1>1, DumpSame, DumpsStay, SameFull DEF Calls, cache, obs, out
<1>2. CASE Locks(c) \/ Unlocks(c) \/ Connects(c) \/ Starts(c) \/ Halts(c) \/ Marks(c) \/ Awaits(c) \/ Promotes(c)
  BY <1>2, DumpSame, DumpsStay, SameFull
     DEF Locks, Unlocks, Connects, Starts, Halts, Marks, Awaits, Promotes, cache, obs, out
<1>3. CASE Opens(c)
  <2>1. JobsFull(q)'
    BY <1>3, QueueTyped, AppendedFull, SameFull DEF Opens
  <2>2. QED
    BY <1>3, <2>1, DumpSame, DumpsStay DEF Opens, cache, obs, out
<1>4. CASE Shuts(c)
  <2>1. JobsFull(q)'
    BY <1>4, QueueTyped, AppendedFull, SameFull DEF Shuts
  <2>2. QED
    BY <1>4, <2>1, DumpSame, DumpsStay DEF Shuts, cache, obs, out
<1>5. CASE Logs(c)
  <2>1. JobsFull(q)'
    <3>1. reader[c].fb.n \in Nat
      BY GoesTyped DEF Observers
    <3>2. QED
      BY <1>5, <3>1, RecordedFull, SameFull, LogsReader
  <2>2. fr' = fr /\ dumps' = dumps
    BY <1>5 DEF Logs, cache, out
  <2>3. QED
    BY <1>5, <2>1, <2>2, LogsReader, DumpSame, DumpsStay
<1>6. CASE Puts(c)
  <2>1. JobsFull(q)'
    <3>1. carry[c] \in Snap
      BY DEF TypeOK
    <3>2. State(carry[c]) \in Job /\ State(carry[c]).k # "dump"
      BY <3>1, QueueTyped
    <3>3. QED
      BY <1>6, <3>2, AppendedFull, SameFull DEF Puts
  <2>2. QED
    BY <1>6, <2>1, DumpSame, DumpsStay DEF Puts, cache, obs, out
<1>7. CASE Tokens(c)
  <2>1. JobsFull(q)'
    BY <1>7, QueueTyped, AppendedFull DEF Tokens
  <2>2. QED
    BY <1>7, <2>1, DumpSame, DumpsStay DEF Tokens, cache, obs, out
<1>8. CASE Clears(c)
  <2>1. PICK f : f = fr'
    OBVIOUS
  <2>2. q' = q /\ dumps' = dumps /\ reader' = reader /\ fr \in Faults /\ RingOK(fr.ring, fr.seq)
    BY <1>8 DEF Clears, obs, out, TypeOK, DumpInv
  <2>3. /\ f.seq = fr.seq /\ (f.ring = fr.ring \/ f.ring = <<>>) /\ (f.cap = fr.cap \/ f.cap = NoDump)
    BY <1>8, <2>1, <2>2 DEF Clears, Faults
  <2>4. RingOK(f.ring, f.seq)
    <3>1. PICK e : e = <<>>
      OBVIOUS
    <3>2. e = <<>> /\ Len(e) = 0
      BY <3>1
    <3>3. RingOK(e, f.seq)
      BY <3>2, TelemetryAssumption DEF RingOK, Gapless
    <3>4. QED
      BY <2>2, <2>3, <3>1, <3>3
  <2>5. Solo(reader, f) /\ Held(reader)
    <3>1. Solo(reader, fr) /\ Held(reader)
      BY SoloIs DEF DumpInv
    <3>2. NoDump.solo = FALSE
      BY DEF NoDump
    <3>3. QED
      BY <2>3, <3>1, <3>2 DEF Solo, Carried
  <2>6. QED
    BY <2>1, <2>2, <2>4, <2>5, DumpNext, DumpsStay, SameFull
<1>9. QED
  BY <1>1, <1>2, <1>3, <1>4, <1>5, <1>6, <1>7, <1>8, Zenon DEF Caller

LEMMA DiskKeepsDumps ==
  ASSUME TypeOK, DumpInv, Disk \/ Breaks \/ Second
  PROVE  DumpInv'
<1>1. CASE Drains
  <2>1. JobsFull(q)' /\ reader' = reader /\ fr' = fr
    BY <1>1, TailFull DEF Drains, cache, obs
  <2>2. PICK j \in Job : j = Head(q) /\ (j.k = "dump" => Whole(j))
    BY <1>1, TailIs, FullTail DEF Drains, TypeOK, DumpInv
  <2>3. Handles(j)
    BY <1>1, <2>2 DEF Drains
  <2>4. DumpsWhole'
    <3>1. CASE j.k = "dump"
      <4>1. PICK d : d = [lines |-> j.lines, trig |-> j.trig, solo |-> j.solo]
        OBVIOUS
      <4>2. dumps' = dumps \cup {d}
        BY <2>3, <3>1, <4>1 DEF Handles
      <4>3. d.solo => Full(d)
        BY <2>2, <3>1, <4>1 DEF Whole, Full
      <4>4. QED
        BY <4>2, <4>3 DEF DumpInv, DumpsWhole, Full, Gapless
    <3>2. CASE j.k # "dump"
      BY <2>3, <3>2, DumpsStay DEF Handles
    <3>3. QED
      BY <3>1, <3>2
  <2>5. QED
    BY <2>1, <2>4, DumpSame
<1>2. CASE Takes \/ Writes \/ Waits \/ Wakes \/ Second
  BY <1>2, DumpSame, DumpsStay, SameFull DEF Takes, Writes, Waits, Wakes, Second, cache, obs, out
<1>3. CASE Breaks
  <2>1. JobsFull(q)'
    BY <1>3, TailFull, SameFull DEF Breaks
  <2>2. QED
    BY <1>3, <2>1, DumpSame, DumpsStay DEF Breaks, cache, obs, out
<1>4. QED
  BY <1>1, <1>2, <1>3 DEF Disk

LEMMA ReaderKeepsDumps ==
  ASSUME TypeOK, DumpInv, NEW o \in Observers, Observer(o)
  PROVE  DumpInv'
<1>0. /\ reader \in [Observers -> Reading] /\ fr \in Faults /\ fr.cap \in Capture /\ fr.seq \in Nat
      /\ fr.ring \in Seq(Nat) /\ reader[o].mine \in Capture /\ reader[o].at \in Nat /\ q \in Seq(Job)
      /\ NoDump.solo = FALSE
  BY GoesTyped, FaultEdits DEF TypeOK, NoDump
<1>1. Solo(reader, fr) /\ Held(reader) /\ RingOK(fr.ring, fr.seq) /\ JobsFull(q) /\ DumpsWhole
  BY SoloIs DEF DumpInv
<1>2. PICK rd \in [Observers -> Reading] : rd = reader
  BY <1>0
<1>3. PICK f \in Faults : f = fr
  BY <1>0
<1>4. CASE Polls(o)
  <2>1. PICK r \in Reading : r.pc = "polled" /\ reader' = [reader EXCEPT ![o] = r]
    BY <1>4, PollsIs
  <2>2. reader[o].pc = "idle" /\ fr' = fr /\ q' = q /\ dumps' = dumps
    BY <1>4, PollsIs DEF cache, out
  <2>3. Solo(reader', fr) /\ Held(reader')
    BY <1>0, <1>1, <2>1, <2>2, SoloRests, HeldKeeps DEF In
  <2>4. QED
    BY <1>1, <2>2, <2>3, DumpNext, DumpsStay, SameFull
<1>5. CASE Snaps(o)
  <2>1. PICK r \in Reading : r.pc = "ring" /\ reader' = [reader EXCEPT ![o] = r]
    BY <1>5, SnapsIs
  <2>2. reader[o].pc = "polled" /\ fr' = fr /\ q' = q /\ dumps' = dumps
    BY <1>5 DEF Snaps, cache, out
  <2>3. Solo(reader', fr) /\ Held(reader')
    BY <1>0, <1>1, <2>1, <2>2, SoloRests, HeldKeeps DEF In
  <2>4. QED
    BY <1>1, <2>2, <2>3, DumpNext, DumpsStay, SameFull
<1>6. CASE Rings(o)
  <2>1. Len(fr.ring) <= Ring
    BY <1>1 DEF RingOK
  <2>2. PICK r \in Reading, d \in Capture, n \in Nat, e \in Seq(Nat), s \in Seconds \cup {Closed} :
           /\ r.pc = "pend" /\ r.at = n /\ r.mine = reader[o].mine /\ reader' = [reader EXCEPT ![o] = r]
           /\ n = fr.seq + 1 /\ e = Tail2(Append(fr.ring, n))
           /\ d = [fr.cap EXCEPT !.solo = fr.cap.solo /\ Alone(o)]
           /\ fr' = [fr EXCEPT !.ring = e, !.seq = n, !.cap = d, !.since = s] /\ fr' \in Faults
    BY <1>6, <2>1, RingsIs
  <2>3. PICK g : g = fr'
    OBVIOUS
  <2>4. g.ring = e /\ g.seq = n /\ g.cap = d
    BY <1>0, <2>2, <2>3 DEF Faults
  <2>5. d.lines = fr.cap.lines /\ d.left = fr.cap.left /\ d.trig = fr.cap.trig /\ d.solo = (fr.cap.solo /\ Alone(o))
    BY <1>0, <2>2 DEF Capture
  <2>6. RingOK(g.ring, g.seq)
    BY <1>0, <1>1, <2>2, <2>4, RingGrows
  <2>7. reader[o].pc = "ring" /\ q' = q /\ dumps' = dumps
    BY <1>6 DEF Rings, out
  <2>8. g.cap.solo => fr.cap.solo /\ \A p \in Observers : In(reader[p]) => p = o
    BY <2>4, <2>5, SoloIs DEF Alone
  <2>9. g.cap.solo /\ CaptureOK(fr.cap, "idle", fr.seq) => Carried(r, g)
    <3>1. SUFFICES ASSUME CaptureOK(fr.cap, "idle", fr.seq) PROVE Carried(r, g)
      OBVIOUS
    <3>2. CaptureOK(fr.cap, "pend", n)
      BY <1>0, <2>2, <3>1, CaptureEnters
    <3>3. CaptureOK(d, "pend", n)
      BY <2>5, <3>2, CaptureSame
    <3>4. QED
      BY <2>2, <2>4, <3>3 DEF Carried
  <2>10. Solo(reader', g)
    BY <1>0, <1>1, <2>2, <2>7, <2>8, <2>9, SoloEnters DEF In
  <2>11. Held(reader')
    BY <1>0, <1>1, <2>2, HeldKeeps
  <2>12. QED
    BY <2>3, <2>6, <2>7, <2>10, <2>11, DumpNext, DumpsStay, SameFull
<1>7. CASE Appends(o)
  <2>1. PICK r \in Reading :
           /\ r.at = reader[o].at /\ r.mine = reader[o].mine /\ reader' = [reader EXCEPT ![o] = r]
           /\ \/ /\ reader[o].pc = "pend" /\ fr' = fr
                 /\ \/ fr.cap = NoDump /\ r.pc = "check"
                    \/ fr.cap # NoDump /\ r.pc = "append"
              \/ reader[o].pc = "append" /\ fr.cap = NoDump /\ fr' = fr /\ r.pc = "error"
              \/ /\ reader[o].pc = "append" /\ fr.cap # NoDump /\ r.pc = "count"
                 /\ \E l \in Seq(Nat) : /\ l = Append(fr.cap.lines, reader[o].at)
                                        /\ [fr.cap EXCEPT !.lines = l] \in Capture
                                        /\ fr' = [fr EXCEPT !.cap = [fr.cap EXCEPT !.lines = l]]
    BY <1>7, AppendsIs
  <2>2. q' = q /\ dumps' = dumps
    BY <1>7 DEF Appends, out
  <2>3. Held(reader')
    BY <1>0, <1>1, <2>1, HeldKeeps
  <2>4. PICK g : g = fr'
    OBVIOUS
  <2>5. RingOK(g.ring, g.seq) /\ Solo(reader', g)
    <3>1. CASE fr.cap = NoDump /\ fr' = fr
      BY <1>0, <1>1, <2>4, <3>1 DEF Solo
    <3>2. CASE reader[o].pc = "pend" /\ fr.cap # NoDump /\ fr' = fr /\ r.pc = "append"
      <4>1. Carried(reader[o], fr) => Carried(r, fr)
        BY <1>0, <2>1, <3>2, CaptureMoves DEF Carried
      <4>2. QED
        BY <1>0, <1>1, <2>1, <2>4, <3>2, <4>1, SoloKeeps DEF In
    <3>3. ASSUME reader[o].pc = "append", r.pc = "count", NEW l \in Seq(Nat), l = Append(fr.cap.lines, reader[o].at),
                 [fr.cap EXCEPT !.lines = l] \in Capture, fr' = [fr EXCEPT !.cap = [fr.cap EXCEPT !.lines = l]]
          PROVE  RingOK(g.ring, g.seq) /\ Solo(reader', g)
      <4>1. PICK d \in Capture : d = [fr.cap EXCEPT !.lines = l]
        BY <3>3
      <4>2. g.ring = fr.ring /\ g.seq = fr.seq /\ g.cap = d /\ d.solo = fr.cap.solo
        BY <1>0, <2>4, <3>3, <4>1 DEF Faults, Capture
      <4>3. Carried(reader[o], fr) => Carried(r, g)
        <5>1. SUFFICES ASSUME Carried(reader[o], fr) PROVE Carried(r, g)
          OBVIOUS
        <5>2. reader[o].at = fr.seq /\ CaptureOK(fr.cap, "append", fr.seq)
          BY <3>3, <5>1 DEF Carried
        <5>3. CaptureOK(d, "count", fr.seq)
          BY <1>0, <3>3, <4>1, <5>2, CaptureAppends
        <5>4. QED
          BY <2>1, <3>3, <4>2, <5>2, <5>3 DEF Carried
      <4>4. QED
        BY <1>0, <1>1, <2>1, <3>3, <4>2, <4>3, SoloKeeps DEF In
    <3>4. QED
      BY <2>1, <3>1, <3>2, <3>3
  <2>6. QED
    BY <2>2, <2>3, <2>4, <2>5, DumpNext, DumpsStay, SameFull
<1>8. CASE Counts(o)
  <2>1. PICK r \in Reading :
           /\ r.at = reader[o].at /\ reader' = [reader EXCEPT ![o] = r]
           /\ \/ reader[o].pc = "count" /\ fr.cap = NoDump /\ fr' = fr /\ r.pc = "error"
              \/ reader[o].pc = "count" /\ fr.cap # NoDump /\ fr' = fr /\ r.pc = "store" /\ r.mine = fr.cap
              \/ /\ reader[o].pc = "store" /\ r.pc = "test"
                 /\ \E x \in Int : /\ fr.cap.trig = reader[o].mine.trig => x = reader[o].mine.left - 1
                                   /\ [fr.cap EXCEPT !.left = x] \in Capture
                                   /\ fr' = [fr EXCEPT !.cap = [fr.cap EXCEPT !.left = x]]
    BY <1>8, CountsIs
  <2>2. q' = q /\ dumps' = dumps
    BY <1>8 DEF Counts, out
  <2>3. Held(reader')
    BY <1>0, <1>1, <2>1, HeldKeeps
  <2>4. PICK g : g = fr'
    OBVIOUS
  <2>5. RingOK(g.ring, g.seq) /\ Solo(reader', g)
    <3>1. CASE fr.cap = NoDump /\ fr' = fr
      BY <1>0, <1>1, <2>4, <3>1 DEF Solo
    <3>2. CASE reader[o].pc = "count" /\ fr' = fr /\ r.pc = "store" /\ r.mine = fr.cap
      <4>1. Carried(reader[o], fr) => Carried(r, fr)
        BY <1>0, <2>1, <3>2, CaptureMoves DEF Carried
      <4>2. QED
        BY <1>0, <1>1, <2>1, <2>4, <3>2, <4>1, SoloKeeps DEF In
    <3>3. ASSUME reader[o].pc = "store", r.pc = "test", NEW x \in Int,
                 fr.cap.trig = reader[o].mine.trig => x = reader[o].mine.left - 1,
                 [fr.cap EXCEPT !.left = x] \in Capture, fr' = [fr EXCEPT !.cap = [fr.cap EXCEPT !.left = x]]
          PROVE  RingOK(g.ring, g.seq) /\ Solo(reader', g)
      <4>1. PICK d \in Capture : d = [fr.cap EXCEPT !.left = x]
        BY <3>3
      <4>2. g.ring = fr.ring /\ g.seq = fr.seq /\ g.cap = d /\ d.solo = fr.cap.solo
        BY <1>0, <2>4, <3>3, <4>1 DEF Faults, Capture
      <4>3. Carried(reader[o], fr) => Carried(r, g)
        <5>1. SUFFICES ASSUME Carried(reader[o], fr) PROVE Carried(r, g)
          OBVIOUS
        <5>2. reader[o].at = fr.seq /\ CaptureOK(fr.cap, "store", fr.seq) /\ x = fr.cap.left - 1
          BY <3>3, <5>1 DEF Carried
        <5>3. CaptureOK(d, "test", fr.seq)
          BY <1>0, <3>3, <4>1, <5>2, CaptureCounts
        <5>4. QED
          BY <2>1, <3>3, <4>2, <5>2, <5>3 DEF Carried
      <4>4. QED
        BY <1>0, <1>1, <2>1, <3>3, <4>2, <4>3, SoloKeeps DEF In
    <3>4. QED
      BY <2>1, <3>1, <3>2, <3>3
  <2>6. QED
    BY <2>2, <2>3, <2>4, <2>5, DumpNext, DumpsStay, SameFull
<1>9. CASE Dumps(o)
  <2>1. PICK r \in Reading :
           /\ r.at = reader[o].at /\ reader' = [reader EXCEPT ![o] = r]
           /\ \/ reader[o].pc = "dump" /\ fr' = fr /\ q' = q /\ r.pc = "drop" /\ r.mine = fr.cap
              \/ /\ reader[o].pc = "drop" /\ r.pc = "check" /\ fr' = [fr EXCEPT !.cap = NoDump]
                 /\ \/ q' = q
                    \/ \E d \in {fr.cap, reader[o].mine} : q' = Append(q, Dump(d))
    BY <1>9, DumpsIs
  <2>2. dumps' = dumps
    BY <1>9 DEF Dumps, out
  <2>3. reader[o].pc \in {"dump", "drop"} => Whole(fr.cap)
    <3>1. SUFFICES ASSUME reader[o].pc \in {"dump", "drop"}, fr.cap.solo PROVE Full(fr.cap)
      BY DEF Whole
    <3>2. CaptureOK(fr.cap, reader[o].pc, fr.seq)
      BY <1>1, <3>1 DEF Solo, In, Carried
    <3>3. QED
      BY <1>0, <3>1, <3>2, CaptureDumps
  <2>4. CASE reader[o].pc = "dump"
    <3>1. Held(reader')
      BY <1>0, <1>1, <2>1, <2>3, <2>4, HeldKeeps
    <3>2. Carried(reader[o], fr) => Carried(r, fr)
      BY <1>0, <2>1, <2>4, CaptureMoves DEF Carried
    <3>3. Solo(reader', fr)
      BY <1>0, <1>1, <2>1, <2>4, <3>2, SoloKeeps DEF In
    <3>4. fr' = fr /\ q' = q
      BY <2>1, <2>4
    <3>5. QED
      BY <1>1, <2>2, <3>1, <3>3, <3>4, DumpNext, DumpsStay, SameFull
  <2>5. CASE reader[o].pc = "drop"
    <3>1. Held(reader')
      BY <1>0, <1>1, <2>1, <2>5, HeldKeeps
    <3>2. PICK g : g = fr'
      OBVIOUS
    <3>3. g.ring = fr.ring /\ g.seq = fr.seq /\ g.cap = NoDump
      BY <1>0, <2>1, <2>5, <3>2 DEF Faults
    <3>4. Solo(reader', g)
      BY <1>0, <3>3 DEF Solo
    <3>5. JobsFull(q)'
      <4>1. \A d \in {fr.cap, reader[o].mine} : d \in Capture /\ Whole(d)
        BY <1>0, <1>1, <2>3, <2>5 DEF Held
      <4>2. \A d \in {fr.cap, reader[o].mine} : Dump(d) \in Job /\ Whole(Dump(d))
        BY <4>1, QueueTyped
      <4>3. QED
        BY <2>1, <2>5, <4>2, AppendedFull, SameFull
    <3>6. QED
      BY <1>1, <2>2, <3>1, <3>2, <3>3, <3>4, <3>5, DumpNext, DumpsStay
  <2>6. QED
    BY <2>1, <2>4, <2>5
<1>10. CASE Checks(o)
  <2>1. PICK r \in Reading :
           /\ r.at = reader[o].at /\ r.mine = reader[o].mine /\ reader' = [reader EXCEPT ![o] = r]
           /\ \/ /\ reader[o].pc = "check" /\ \E b \in BOOLEAN : fr' = [fr EXCEPT !.last = b]
                 /\ r.pc = "flag" \/ (r.pc = "arm" /\ fr.cap = NoDump)
              \/ /\ reader[o].pc = "arm" /\ r.pc = "flag"
                 /\ \E d \in Capture : /\ fr' = [fr EXCEPT !.cap = d]
                                       /\ d.lines = fr.ring /\ d.left = Post /\ d.trig = reader[o].at
                                       /\ d.solo = (reader[o].at = fr.seq /\ Alone(o))
    BY <1>10, ChecksIs
  <2>2. q' = q /\ dumps' = dumps
    BY <1>10 DEF Checks, out
  <2>3. Held(reader')
    BY <1>0, <1>1, <2>1, HeldKeeps
  <2>4. PICK g : g = fr'
    OBVIOUS
  <2>5. RingOK(g.ring, g.seq) /\ Solo(reader', g)
    <3>1. CASE reader[o].pc = "check"
      <4>1. g.ring = fr.ring /\ g.seq = fr.seq /\ g.cap = fr.cap
        BY <1>0, <2>1, <2>4, <3>1 DEF Faults
      <4>2. CASE r.pc = "arm" /\ fr.cap = NoDump
        BY <1>0, <1>1, <4>1, <4>2 DEF Solo
      <4>3. CASE r.pc = "flag"
        <5>1. Carried(reader[o], fr) => CaptureOK(g.cap, "idle", g.seq)
          BY <1>0, <3>1, <4>1, CaptureMoves DEF Carried
        <5>2. QED
          BY <1>0, <1>1, <2>1, <3>1, <4>1, <4>3, <5>1, SoloKeeps DEF In
      <4>4. QED
        BY <2>1, <3>1, <4>2, <4>3
    <3>2. ASSUME reader[o].pc = "arm", r.pc = "flag", NEW d \in Capture, fr' = [fr EXCEPT !.cap = d],
                 d.lines = fr.ring, d.left = Post, d.trig = reader[o].at, d.solo = (reader[o].at = fr.seq /\ Alone(o))
          PROVE  RingOK(g.ring, g.seq) /\ Solo(reader', g)
      <4>1. g.ring = fr.ring /\ g.seq = fr.seq /\ g.cap = d
        BY <1>0, <2>4, <3>2 DEF Faults
      <4>2. g.cap.solo => \A p \in Observers : In(reader[p]) => p = o
        BY <3>2, <4>1, SoloIs DEF Alone
      <4>3. g.cap.solo => CaptureOK(g.cap, "idle", g.seq)
        BY <1>0, <1>1, <3>2, <4>1, CaptureStarts
      <4>4. QED
        BY <1>0, <1>1, <2>1, <3>2, <4>1, <4>2, <4>3, SoloArms DEF In
    <3>3. QED
      BY <2>1, <3>1, <3>2
  <2>6. QED
    BY <2>2, <2>3, <2>4, <2>5, DumpNext, DumpsStay, SameFull
<1>11. CASE Tests(o) \/ Flags(o) \/ Lines(o) \/ Posts(o) \/ Errs(o)
  <2>1. PICK r \in Reading :
           /\ reader' = [reader EXCEPT ![o] = r] /\ fr' = fr
           /\ \/ /\ r.at = reader[o].at /\ r.mine = reader[o].mine /\ reader[o].pc = "test"
                 /\ \/ r.pc = "error" /\ fr.cap = NoDump
                    \/ r.pc = "dump" /\ fr.cap.left <= 0
                    \/ r.pc = "check" /\ ~(fr.cap.left <= 0)
              \/ reader[o].pc \in {"flag", "line", "publish", "error"} /\ r.pc \in {"line", "publish", "idle"}
    BY <1>11, MovesIs
  <2>2. Held(reader')
    BY <1>0, <1>1, <2>1, HeldKeeps
  <2>3. Solo(reader', fr)
    <3>1. CASE fr.cap = NoDump
      BY <1>0, <3>1 DEF Solo
    <3>2. CASE /\ reader[o].pc = "test" /\ r.at = reader[o].at
               /\ \/ r.pc = "dump" /\ fr.cap.left <= 0
                  \/ r.pc = "check" /\ ~(fr.cap.left <= 0)
      <4>1. Carried(reader[o], fr) => Carried(r, fr)
        BY <1>0, <3>2, CaptureMoves DEF Carried
      <4>2. QED
        BY <1>0, <1>1, <2>1, <3>2, <4>1, SoloKeeps DEF In
    <3>3. CASE reader[o].pc \in {"flag", "line", "publish", "error"} /\ r.pc \in {"line", "publish", "idle"}
      BY <1>0, <1>1, <2>1, <3>3, SoloRests DEF In
    <3>4. QED
      BY <2>1, <3>1, <3>2, <3>3
  <2>4. JobsFull(q)' /\ dumps' = dumps
    <3>1. reader[o].fb.n \in Nat
      BY GoesTyped
    <3>2. QED
      BY <1>11, <3>1, RecordedFull, SameFull DEF Tests, Flags, Lines, Posts, Errs, out
  <2>5. QED
    BY <1>1, <2>1, <2>2, <2>3, <2>4, DumpNext, DumpsStay
<1>12. QED
  BY <1>4, <1>5, <1>6, <1>7, <1>8, <1>9, <1>10, <1>11 DEF Observer

LEMMA DumpInit == Init => DumpInv
<1>1. SUFFICES ASSUME Init PROVE DumpInv
  OBVIOUS
<1>2. PICK e : e = <<>>
  OBVIOUS
<1>3. /\ fr = [ring |-> e, seq |-> 0, cap |-> NoDump, last |-> FALSE, since |-> Closed]
      /\ reader = [o \in Observers |-> Idle] /\ dumps = {} /\ q = e
  BY <1>1, <1>2, Zenon DEF Init
<1>4. Len(e) = 0 /\ e = <<>> /\ Ring \in Nat
  BY <1>2, TelemetryAssumption
<1>5. RingOK(fr.ring, fr.seq)
  BY <1>3, <1>4 DEF RingOK, Gapless
<1>6. SoloOK
  BY <1>3 DEF SoloOK, NoDump
<1>7. HeldOK
  BY <1>3 DEF HeldOK, Idle
<1>8. JobsFull(q) /\ DumpsWhole
  BY <1>3, <1>4 DEF JobsFull, DumpsWhole
<1>9. QED
  BY <1>5, <1>6, <1>7, <1>8 DEF DumpInv

-----------------------------------------------------------------------------
(* Flushes: Covered and FlushOK for given values. *)

Cov(p, m, t, j, dead, s) ==
  p <= t \/ p <= j \/ dead \/ \E i \in 1..m : s[i].k = "state" /\ p <= s[i].snap.pub

Stands(step, td) == td # <<>> /\ Head(td) = step
Tokened(td)      == \E i \in 1..Len(td) : td[i] = "token"

FOK(c, td, ca, p, n, kept, t, j, dead, s) ==
  /\ FlushOrdered(td)
  /\ ca # None => Stands("put", td)
  /\ Stands("put", td) => Cov(p, Len(s), t, j, dead, s) \/ ca.pub = p
  /\ Stands("token", td) => Cov(p, Len(s), t, j, dead, s)
  /\ \A i \in 1..Len(s) : s[i].k = "token" /\ s[i].of = c =>
       s[i].nth <= n /\ (s[i].nth = n => Cov(p, i - 1, t, j, dead, s) /\ ~Tokened(td))
  /\ kept => ~Tokened(td) /\ t >= p

LEMMA FlushIs ==
  ASSUME NEW c \in Callers
  PROVE  FlushOK(c) <=> FOK(c, todo[c], carry[c], ghost.want[c].pub, ghost.want[c].nth, ghost.kept[c],
                            ghost.top, disk.job.pub, disk.pc = "dead", q)
BY DEF FlushOK, FOK, Covered, Cov, At, Stands, Flushing, Tokened

LEMMA FlushNext ==
  ASSUME NEW c \in Callers, NEW td, NEW ca, NEW p, NEW n, NEW kept, NEW t, NEW j, NEW dead, NEW s,
         todo'[c] = td, carry'[c] = ca, ghost'.want[c].pub = p, ghost'.want[c].nth = n,
         ghost'.kept[c] = kept, ghost'.top = t, disk'.job.pub = j, (disk'.pc = "dead") = dead, q' = s,
         FOK(c, td, ca, p, n, kept, t, j, dead, s)
  PROVE  FlushOK(c)'
<1>1. FOK(c, todo'[c], carry'[c], ghost'.want[c].pub, ghost'.want[c].nth, ghost'.kept[c],
          ghost'.top, disk'.job.pub, disk'.pc = "dead", q')
  OBVIOUS
<1>2. /\ FlushOrdered(todo'[c]) /\ (carry'[c] # None => At(c, "put")')
      /\ At(c, "put")' => Covered(ghost.want[c].pub, Len(q))' \/ carry'[c].pub = ghost'.want[c].pub
      /\ At(c, "token")' => Covered(ghost.want[c].pub, Len(q))'
      /\ ghost'.kept[c] => ~Flushing(c)' /\ ghost'.top >= ghost'.want[c].pub
  BY <1>1 DEF FOK, Covered, Cov, At, Stands, Flushing, Tokened
<1>3. ASSUME NEW i \in 1..Len(q'), q'[i].k = "token", q'[i].of = c
      PROVE  /\ q'[i].nth <= ghost'.want[c].nth
             /\ q'[i].nth = ghost'.want[c].nth => Covered(ghost.want[c].pub, i - 1)' /\ ~Flushing(c)'
  BY <1>1, <1>3 DEF FOK, Covered, Cov, Flushing, Tokened
<1>4. QED
  BY <1>2, <1>3 DEF FlushOK, FlushOrdered

LEMMA LatestIs == LatestKept <=> \/ Cov(pubs, Len(q), ghost.top, disk.job.pub, disk.pc = "dead", q)
                                 \/ slot.pub = pubs \/ \E c \in Callers : carry[c].pub = pubs
BY DEF LatestKept, Covered, Cov

LEMMA LatestNext ==
  ASSUME NEW t, NEW j, NEW dead, NEW s, NEW ps, NEW sl,
         ghost'.top = t, disk'.job.pub = j, (disk'.pc = "dead") = dead, q' = s, pubs' = ps, slot'.pub = sl,
         Cov(ps, Len(s), t, j, dead, s) \/ sl = ps \/ \E c \in Callers : carry'[c].pub = ps
  PROVE  LatestKept'
BY DEF LatestKept, Covered, Cov

LEMMA CovGrows ==
  ASSUME NEW s \in Seq(Job), NEW s2 \in Seq(Job), Len(s) <= Len(s2), \A i \in 1..Len(s) : s2[i] = s[i],
         NEW m \in 0..Len(s), NEW m2 \in m..Len(s2), NEW p \in Nat, NEW t \in Nat, NEW j \in Nat,
         NEW t2 \in Nat, NEW j2 \in Nat, t <= t2, j <= j2 \/ j <= t2, NEW dead, NEW dead2, dead => dead2,
         Cov(p, m, t, j, dead, s)
  PROVE  Cov(p, m2, t2, j2, dead2, s2)
<1>1. CASE p <= t \/ p <= j
  <2>1. p <= t2 \/ p <= j2
    BY <1>1
  <2>2. QED
    BY <2>1 DEF Cov
<1>2. CASE dead
  BY <1>2 DEF Cov
<1>3. CASE \E i \in 1..m : s[i].k = "state" /\ p <= s[i].snap.pub
  <2>1. PICK i \in 1..m : s[i].k = "state" /\ p <= s[i].snap.pub
    BY <1>3
  <2>2. i \in 1..m2 /\ i \in 1..Len(s)
    OBVIOUS
  <2>3. s2[i] = s[i]
    BY <2>2
  <2>4. QED
    BY <2>1, <2>2, <2>3 DEF Cov
<1>4. QED
  BY <1>1, <1>2, <1>3 DEF Cov

\* A step that queues at most one job, none of it a token of c, or writes a
\* snapshot to disk, or ends the disk thread.
LEMMA FokGrows ==
  ASSUME NEW c \in Callers, NEW td, NEW ca, NEW p \in Nat, NEW n \in Nat, NEW kept,
         NEW t \in Nat, NEW j \in Nat, NEW t2 \in Nat, NEW j2 \in Nat, t <= t2, j <= j2 \/ j <= t2,
         NEW dead, NEW dead2, dead => dead2, NEW s \in Seq(Job), NEW s2 \in Seq(Job),
         s2 = s \/ \E x \in Job : s2 = Append(s, x) /\ ~(x.k = "token" /\ x.of = c),
         FOK(c, td, ca, p, n, kept, t, j, dead, s)
  PROVE  FOK(c, td, ca, p, n, kept, t2, j2, dead2, s2)
<1>1. /\ Len(s) <= Len(s2) /\ Len(s) \in Nat /\ Len(s2) \in Nat /\ \A i \in 1..Len(s) : s2[i] = s[i]
      /\ \A i \in 1..Len(s2) : i \in 1..Len(s) \/ ~(s2[i].k = "token" /\ s2[i].of = c)
  <2>1. CASE s2 = s
    BY <2>1
  <2>2. CASE \E x \in Job : s2 = Append(s, x) /\ ~(x.k = "token" /\ x.of = c)
    <3>1. PICK x \in Job : s2 = Append(s, x) /\ ~(x.k = "token" /\ x.of = c)
      BY <2>2
    <3>2. Len(s2) = Len(s) + 1 /\ s2[Len(s) + 1] = x /\ \A i \in 1..Len(s) : s2[i] = s[i]
      BY <3>1
    <3>3. \A i \in 1..Len(s2) : i \in 1..Len(s) \/ i = Len(s) + 1
      BY <3>2
    <3>4. QED
      BY <3>1, <3>2, <3>3
  <2>3. QED
    BY <2>1, <2>2
<1>2. ASSUME NEW m \in 0..Len(s), NEW m2 \in m..Len(s2), Cov(p, m, t, j, dead, s)
      PROVE  Cov(p, m2, t2, j2, dead2, s2)
  BY <1>1, <1>2, CovGrows
<1>3. Len(s) \in 0..Len(s) /\ Len(s2) \in Len(s)..Len(s2)
  BY <1>1
<1>4. Cov(p, Len(s), t, j, dead, s) => Cov(p, Len(s2), t2, j2, dead2, s2)
  BY <1>2, <1>3
<1>5. ASSUME NEW i \in 1..Len(s2), s2[i].k = "token", s2[i].of = c
      PROVE  s2[i].nth <= n /\ (s2[i].nth = n => Cov(p, i - 1, t2, j2, dead2, s2) /\ ~Tokened(td))
  <2>1. i \in 1..Len(s) /\ s2[i] = s[i]
    BY <1>1, <1>5
  <2>2. s[i].nth <= n /\ (s[i].nth = n => Cov(p, i - 1, t, j, dead, s) /\ ~Tokened(td))
    BY <1>5, <2>1 DEF FOK
  <2>3. i - 1 \in 0..Len(s) /\ i - 1 \in (i - 1)..Len(s2)
    BY <1>1, <2>1
  <2>4. Cov(p, i - 1, t, j, dead, s) => Cov(p, i - 1, t2, j2, dead2, s2)
    BY <1>2, <2>3
  <2>5. QED
    BY <2>1, <2>2, <2>4
<1>6. kept => ~Tokened(td) /\ t2 >= p
  BY DEF FOK
<1>7. QED
  BY <1>4, <1>5, <1>6 DEF FOK

LEMMA CovTail ==
  ASSUME NEW s \in Seq(Job), s # <<>>, NEW m \in 0..Len(s), NEW p \in Nat, NEW t \in Nat, NEW t2 \in Nat,
         t <= t2, NEW dead, Head(s).k = "state" => Head(s).snap.pub <= t2, Cov(p, m, t, 0, dead, s)
  PROVE  /\ m > 0 => Cov(p, m - 1, t2, 0, dead, Tail(s))
         /\ m = 0 => Cov(p, 0, t2, 0, dead, Tail(s))
<1>1. /\ Tail(s) \in Seq(Job) /\ Len(s) \in Nat \ {0} /\ Head(s) = s[1]
      /\ Len(Tail(s)) = Len(s) - 1 /\ \A i \in 1..Len(Tail(s)) : Tail(s)[i] = s[i + 1]
  BY TailIs
<1>2. CASE p <= t \/ p <= 0 \/ dead
  <2>1. p <= t2 \/ p <= 0 \/ dead
    BY <1>2
  <2>2. QED
    BY <2>1 DEF Cov
<1>3. CASE \E i \in 1..m : s[i].k = "state" /\ p <= s[i].snap.pub
  <2>1. PICK i \in 1..m : s[i].k = "state" /\ p <= s[i].snap.pub
    BY <1>3
  <2>2. CASE i = 1
    <3>1. s[1] \in Job
      BY <1>1
    <3>2. s[1].snap.pub \in Nat
      BY <2>1, <2>2, <3>1, JobIs DEF Snap
    <3>3. p <= t2
      BY <1>1, <2>1, <2>2, <3>2
    <3>4. QED
      BY <3>3 DEF Cov
  <2>3. CASE i # 1
    <3>1. i - 1 \in 1..(m - 1) /\ i - 1 \in 1..Len(Tail(s)) /\ m > 0
      BY <1>1, <2>1, <2>3
    <3>2. Tail(s)[i - 1] = s[i]
      <4>1. Tail(s)[i - 1] = s[(i - 1) + 1]
        BY <1>1, <3>1
      <4>2. (i - 1) + 1 = i
        OBVIOUS
      <4>3. QED
        BY <4>1, <4>2
    <3>3. QED
      <4>1. PICK l, j : l = Tail(s) /\ j = i - 1
        OBVIOUS
      <4>2. j \in 1..(m - 1) /\ l[j] = s[i]
        BY <3>1, <3>2, <4>1
      <4>3. Cov(p, m - 1, t2, 0, dead, l)
        BY <2>1, <4>2 DEF Cov
      <4>4. QED
        BY <3>1, <4>1, <4>3
  <2>4. QED
    BY <2>2, <2>3
<1>4. QED
  BY <1>2, <1>3 DEF Cov

\* The disk thread takes a job off the queue.
LEMMA FokDrains ==
  ASSUME NEW c \in Callers, NEW td, NEW ca, NEW p \in Nat, NEW n \in Nat, NEW kept,
         NEW t \in Nat, NEW t2 \in Nat, t <= t2, NEW s \in Seq(Job), s # <<>>,
         Head(s).k = "state" => Head(s).snap.pub <= t2,
         FOK(c, td, ca, p, n, kept, t, 0, FALSE, s)
  PROVE  /\ FOK(c, td, ca, p, n, kept, t2, 0, FALSE, Tail(s))
         /\ Head(s).k = "token" /\ Head(s).of = c /\ Head(s).nth = n => ~Tokened(td) /\ t2 >= p
<1>1. /\ Tail(s) \in Seq(Job) /\ Len(s) \in Nat \ {0} /\ Head(s) = s[1]
      /\ Len(Tail(s)) = Len(s) - 1 /\ \A i \in 1..Len(Tail(s)) : Tail(s)[i] = s[i + 1]
  BY TailIs
<1>2. ASSUME NEW m \in 1..Len(s), Cov(p, m, t, 0, FALSE, s)
      PROVE  Cov(p, m - 1, t2, 0, FALSE, Tail(s))
  <2>1. m \in 0..Len(s) /\ m > 0
    BY <1>1
  <2>2. QED
    BY <1>2, <2>1, CovTail
<1>3. Cov(p, Len(s), t, 0, FALSE, s) => Cov(p, Len(Tail(s)), t2, 0, FALSE, Tail(s))
  <2>1. Len(s) \in 1..Len(s)
    BY <1>1
  <2>2. Cov(p, Len(s), t, 0, FALSE, s) => Cov(p, Len(s) - 1, t2, 0, FALSE, Tail(s))
    BY <1>2, <2>1
  <2>3. Len(s) - 1 = Len(Tail(s))
    BY <1>1
  <2>4. QED
    BY <2>2, <2>3, Zenon
<1>4. ASSUME NEW i \in 1..Len(Tail(s)), Tail(s)[i].k = "token", Tail(s)[i].of = c
      PROVE  /\ Tail(s)[i].nth <= n
             /\ Tail(s)[i].nth = n => Cov(p, i - 1, t2, 0, FALSE, Tail(s)) /\ ~Tokened(td)
  <2>1. i + 1 \in 1..Len(s) /\ Tail(s)[i] = s[i + 1] /\ i \in 1..Len(s) /\ (i + 1) - 1 = i
    BY <1>1
  <2>2. s[i + 1].nth <= n /\ (s[i + 1].nth = n => Cov(p, i, t, 0, FALSE, s) /\ ~Tokened(td))
    BY <1>4, <2>1 DEF FOK
  <2>3. Cov(p, i, t, 0, FALSE, s) => Cov(p, i - 1, t2, 0, FALSE, Tail(s))
    BY <1>2, <2>1
  <2>4. QED
    BY <2>1, <2>2, <2>3
<1>5. ASSUME Head(s).k = "token", Head(s).of = c, Head(s).nth = n PROVE ~Tokened(td) /\ t2 >= p
  <2>1. 1 \in 1..Len(s) /\ 1 - 1 = 0
    BY <1>1
  <2>2. Cov(p, 0, t, 0, FALSE, s) /\ ~Tokened(td)
    BY <1>1, <1>5, <2>1 DEF FOK
  <2>3. p <= t \/ p <= 0
    BY <2>2 DEF Cov
  <2>4. QED
    BY <2>2, <2>3
<1>6. kept => ~Tokened(td) /\ t2 >= p
  BY DEF FOK
<1>7. QED
  BY <1>3, <1>4, <1>5, <1>6 DEF FOK

LEMMA FokBreaks ==   \* nothing is handled any more
  ASSUME NEW c \in Callers, NEW td, NEW ca, NEW p \in Nat, NEW n \in Nat, NEW kept, NEW t \in Nat,
         NEW j \in Nat, NEW j2 \in Nat, NEW dead, NEW s \in Seq(Job), NEW s2,
         s2 = s \/ (s # <<>> /\ s2 = Tail(s)), FOK(c, td, ca, p, n, kept, t, j, dead, s)
  PROVE  FOK(c, td, ca, p, n, kept, t, j2, TRUE, s2)
<1>1. \A i \in 1..Len(s2) : \E k \in 1..Len(s) : s2[i] = s[k]
  <2>1. CASE s2 = s
    BY <2>1
  <2>2. CASE s # <<>> /\ s2 = Tail(s)
    <3>1. Len(s2) = Len(s) - 1 /\ Len(s) \in Nat \ {0} /\ \A i \in 1..Len(s2) : s2[i] = s[i + 1]
      BY <2>2, TailIs
    <3>2. \A i \in 1..Len(s2) : i + 1 \in 1..Len(s)
      BY <3>1
    <3>3. QED
      BY <3>1, <3>2
  <2>3. QED
    BY <2>1, <2>2
<1>2. \A m : Cov(p, m, t, j2, TRUE, s2)
  BY DEF Cov
<1>3. QED
  BY <1>1, <1>2 DEF FOK

LEMMA OrderedTail ==
  ASSUME NEW s \in Seq(Steps), FlushOrdered(s), s # <<>>
  PROVE  /\ FlushOrdered(Tail(s))
         /\ Stands("put", Tail(s)) <=> Head(s) = "promote"
         /\ Stands("token", Tail(s)) => Head(s) = "put"
         /\ Tokened(Tail(s)) => Tokened(s) /\ Head(s) # "token"
<1>1. PICK r : r = Tail(s)
  OBVIOUS
<1>2. /\ r \in Seq(Steps) /\ Len(s) \in Nat \ {0} /\ Head(s) = s[1] /\ Len(r) = Len(s) - 1
      /\ \A i \in 1..Len(r) : r[i] = s[i + 1]
  BY <1>1, TailIs
<1>3. ASSUME NEW i \in 1..Len(r)
      PROVE  i + 1 \in 1..Len(s) /\ r[i] = s[i + 1] /\ (i > 1 => i - 1 \in 1..Len(r) /\ r[i - 1] = s[i])
  <2>1. i + 1 \in 1..Len(s) /\ r[i] = s[i + 1]
    BY <1>2
  <2>2. ASSUME i > 1 PROVE i - 1 \in 1..Len(r) /\ r[i - 1] = s[i]
    <3>1. i - 1 \in 1..Len(r) /\ (i - 1) + 1 = i
      BY <1>2, <2>2
    <3>2. QED
      BY <1>2, <3>1
  <2>3. QED
    BY <2>1, <2>2
<1>4. FlushOrdered(r)
  <2>1. ASSUME NEW i \in 1..Len(r)
        PROVE  /\ r[i] = "promote" => i + 2 <= Len(r) /\ r[i + 1] = "put" /\ r[i + 2] = "token"
               /\ r[i] = "put" => i + 1 <= Len(r) /\ r[i + 1] = "token" /\ (i > 1 => r[i - 1] = "promote")
               /\ r[i] = "token" /\ i > 1 => r[i - 1] = "put"
               /\ r[i] = "open" => i + 1 <= Len(r) /\ r[i + 1] = "mark"
               /\ r[i] = "shut" => i + 1 <= Len(r) /\ r[i + 1] = "unmark"
    <3>1. PICK k \in 1..Len(s) : k = i + 1 /\ r[i] = s[k] /\ k > 1 /\ (i > 1 => r[i - 1] = s[k - 1])
      BY <1>3
    <3>2. /\ s[k] = "promote" => k + 2 <= Len(s) /\ s[k + 1] = "put" /\ s[k + 2] = "token"
          /\ s[k] = "put" => k + 1 <= Len(s) /\ s[k + 1] = "token" /\ (k > 1 => s[k - 1] = "promote")
          /\ s[k] = "token" /\ k > 1 => s[k - 1] = "put"
          /\ s[k] = "open" => k + 1 <= Len(s) /\ s[k + 1] = "mark"
          /\ s[k] = "shut" => k + 1 <= Len(s) /\ s[k + 1] = "unmark"
      BY DEF FlushOrdered
    <3>3. k + 1 <= Len(s) => i + 1 <= Len(r) /\ r[i + 1] = s[k + 1]
      BY <1>2, <3>1
    <3>4. k + 2 <= Len(s) => i + 2 <= Len(r) /\ r[i + 2] = s[k + 2]
      <4>1. ASSUME k + 2 <= Len(s) PROVE i + 2 \in 1..Len(r) /\ (i + 2) + 1 = k + 2
        BY <1>2, <3>1, <4>1
      <4>2. QED
        BY <1>2, <4>1
    <3>5. k + 2 <= Len(s) => k + 1 <= Len(s)
      BY <1>2
    <3>6. QED
      BY <3>1, <3>2, <3>3, <3>4, <3>5
  <2>2. ASSUME NEW i \in 1..Len(r), NEW k \in 1..Len(r), r[i] = "token", r[k] = "token" PROVE i = k
    <3>1. i + 1 \in 1..Len(s) /\ k + 1 \in 1..Len(s) /\ s[i + 1] = "token" /\ s[k + 1] = "token"
      BY <1>3, <2>2
    <3>2. i + 1 = k + 1
      BY <3>1 DEF FlushOrdered
    <3>3. QED
      BY <3>2
  <2>3. QED
    BY <2>1, <2>2 DEF FlushOrdered
<1>5. ASSUME NEW x PROVE Stands(x, r) <=> Len(s) >= 2 /\ s[2] = x
  <2>1. r # <<>> <=> Len(s) >= 2
    BY <1>2
  <2>2. Len(s) >= 2 => Head(r) = s[2]
    BY <1>2, <2>1
  <2>3. QED
    BY <2>1, <2>2 DEF Stands
<1>6. Stands("put", r) <=> s[1] = "promote"
  <2>1. ASSUME s[1] = "promote" PROVE Len(s) >= 2 /\ s[2] = "put"
    <3>1. 1 \in 1..Len(s) /\ 1 + 1 = 2 /\ 1 + 2 = 3
      BY <1>2
    <3>2. 3 <= Len(s) /\ s[2] = "put"
      BY <2>1, <3>1 DEF FlushOrdered
    <3>3. QED
      BY <1>2, <3>2
  <2>2. ASSUME Len(s) >= 2, s[2] = "put" PROVE s[1] = "promote"
    <3>1. 2 \in 1..Len(s) /\ 2 > 1 /\ 2 - 1 = 1
      BY <1>2, <2>2
    <3>2. QED
      BY <2>2, <3>1 DEF FlushOrdered
  <2>3. QED
    BY <1>5, <2>1, <2>2
<1>7. Stands("token", r) => s[1] = "put"
  <2>1. ASSUME Len(s) >= 2, s[2] = "token" PROVE s[1] = "put"
    <3>1. 2 \in 1..Len(s) /\ 2 > 1 /\ 2 - 1 = 1
      BY <1>2, <2>1
    <3>2. QED
      BY <2>1, <3>1 DEF FlushOrdered
  <2>2. QED
    BY <1>5, <2>1
<1>8. Tokened(r) => Tokened(s) /\ s[1] # "token"
  <2>1. ASSUME NEW i \in 1..Len(r), r[i] = "token" PROVE Tokened(s) /\ s[1] # "token"
    <3>1. i + 1 \in 1..Len(s) /\ s[i + 1] = "token" /\ i + 1 # 1 /\ 1 \in 1..Len(s)
      BY <1>2, <1>3, <2>1
    <3>2. QED
      BY <3>1 DEF Tokened, FlushOrdered
  <2>2. QED
    BY <2>1 DEF Tokened
<1>9. QED
  BY <1>1, <1>2, <1>4, <1>6, <1>7, <1>8

\* What is left of a call after a step of it.
Walked(td, td2) ==
  \/ td2 = <<>>
  \/ td # <<>> /\ td2 = Tail(td)
  \/ td # <<>> /\ Head(td) \in {"open", "shut"} /\ td2 = Tail(Tail(td))

LEMMA OrderedWalk ==
  ASSUME NEW td \in Seq(Steps), NEW td2, FlushOrdered(td), Walked(td, td2),
         td = <<>> \/ Head(td) \notin {"promote", "put", "token"}
  PROVE  /\ FlushOrdered(td2) /\ ~Stands("put", td2) /\ ~Stands("token", td2)
         /\ Tokened(td2) => Tokened(td)
<1>1. CASE td2 = <<>>
  <2>1. Len(td2) = 0
    BY <1>1
  <2>2. QED
    BY <1>1, <2>1 DEF FlushOrdered, Stands, Tokened
<1>2. CASE td # <<>> /\ td2 = Tail(td)
  BY <1>2, OrderedTail
<1>3. CASE td # <<>> /\ Head(td) \in {"open", "shut"} /\ td2 = Tail(Tail(td))
  <2>1. PICK r : r = Tail(td)
    OBVIOUS
  <2>2. Len(td) >= 2 /\ td[2] \in {"mark", "unmark"}
    BY <1>3, SkipIs
  <2>3. r \in Seq(Steps) /\ r # <<>> /\ Head(r) = td[2]
    <3>1. r \in Seq(Steps) /\ Len(r) = Len(td) - 1 /\ Len(r) >= 1 /\ \A i \in 1..Len(r) : r[i] = td[i + 1]
      BY <1>3, <2>1, <2>2, TailIs
    <3>2. r # <<>> /\ Head(r) = r[1] /\ 1 \in 1..Len(r) /\ 1 + 1 = 2
      BY <3>1
    <3>3. QED
      BY <3>1, <3>2
  <2>4. FlushOrdered(r) /\ (Tokened(r) => Tokened(td))
    BY <1>3, <2>1, OrderedTail
  <2>5. /\ FlushOrdered(Tail(r)) /\ (Tokened(Tail(r)) => Tokened(r))
        /\ Stands("put", Tail(r)) <=> Head(r) = "promote"
        /\ Stands("token", Tail(r)) => Head(r) = "put"
    BY <2>3, <2>4, OrderedTail
  <2>6. QED
    BY <1>3, <2>1, <2>2, <2>3, <2>4, <2>5
<1>4. QED
  BY <1>1, <1>2, <1>3 DEF Walked

LEMMA FokWalks ==   \* a step of c outside its flush
  ASSUME NEW c \in Callers, NEW td \in Seq(Steps), NEW td2, NEW ca, NEW p, NEW n, NEW kept, NEW t, NEW j, NEW dead,
         NEW s, FOK(c, td, ca, p, n, kept, t, j, dead, s), Walked(td, td2),
         td = <<>> \/ Head(td) \notin {"promote", "put", "token"}
  PROVE  FOK(c, td2, ca, p, n, kept, t, j, dead, s)
<1>1. FlushOrdered(td)
  BY DEF FOK
<1>2. /\ FlushOrdered(td2) /\ ~Stands("put", td2) /\ ~Stands("token", td2) /\ (Tokened(td2) => Tokened(td))
  BY <1>1, OrderedWalk
<1>3. ca = None
  BY DEF FOK, Stands
<1>4. QED
  BY <1>2, <1>3 DEF FOK

LEMMA FokPromotes ==
  ASSUME NEW c \in Callers, NEW td \in Seq(Steps), Stands("promote", td), NEW ca, NEW ca2, NEW p, NEW p2 \in Nat,
         NEW n, NEW kept, NEW t, NEW j, NEW dead, NEW s \in Seq(Job),
         FOK(c, td, ca, p, n, kept, t, j, dead, s),
         Cov(p2, Len(s), t, j, dead, s) \/ ca2.pub = p2
  PROVE  FOK(c, Tail(td), ca2, p2, n, kept, t, j, dead, s)
<1>1. FlushOrdered(td) /\ td # <<>> /\ Head(td) = "promote"
  BY DEF FOK, Stands
<1>2. /\ FlushOrdered(Tail(td)) /\ Stands("put", Tail(td)) /\ ~Stands("token", Tail(td))
      /\ Tokened(Tail(td)) => Tokened(td)
  BY <1>1, OrderedTail
<1>3. Tokened(td)
  <2>1. 1 \in 1..Len(td) /\ td[1] = "promote" /\ 1 + 2 = 3 /\ Len(td) \in Nat
    BY <1>1
  <2>2. 3 <= Len(td) /\ td[3] = "token"
    BY <1>1, <2>1 DEF FlushOrdered
  <2>3. 3 \in 1..Len(td)
    BY <2>1, <2>2
  <2>4. QED
    BY <2>2, <2>3 DEF Tokened
<1>4. QED
  BY <1>2, <1>3 DEF FOK

LEMMA FokPuts ==
  ASSUME NEW c \in Callers, NEW td \in Seq(Steps), Stands("put", td), NEW ca \in Snap, NEW p \in Nat,
         NEW n \in Nat, NEW kept, NEW t \in Nat, NEW j \in Nat, NEW dead, NEW s \in Seq(Job), NEW s2 \in Seq(Job),
         FOK(c, td, ca, p, n, kept, t, j, dead, s),
         s2 = IF ca = None THEN s ELSE Append(s, State(ca))
  PROVE  FOK(c, Tail(td), None, p, n, kept, t, j, dead, s2)
<1>1. FlushOrdered(td) /\ td # <<>> /\ Head(td) = "put"
  BY DEF FOK, Stands
<1>2. /\ FlushOrdered(Tail(td)) /\ ~Stands("put", Tail(td)) /\ (Tokened(Tail(td)) => Tokened(td))
  BY <1>1, OrderedTail
<1>3. State(ca) \in Job /\ State(ca).k = "state" /\ State(ca).snap = ca
  BY DEF State, Job
<1>4. s2 = s \/ \E x \in Job : s2 = Append(s, x) /\ ~(x.k = "token" /\ x.of = c)
  BY <1>3
<1>5. FOK(c, td, ca, p, n, kept, t, j, dead, s2)
  <2>1. t <= t /\ j <= j
    OBVIOUS
  <2>2. QED
    BY <1>4, <2>1, FokGrows
<1>6. Cov(p, Len(s2), t, j, dead, s2)
  <2>1. Cov(p, Len(s2), t, j, dead, s2) \/ ca.pub = p
    BY <1>5 DEF FOK
  <2>2. CASE ca.pub = p /\ ca = None
    <3>1. p <= t
      BY <2>2 DEF None
    <3>2. QED
      BY <3>1 DEF Cov
  <2>3. CASE ca.pub = p /\ ca # None
    <3>1. Len(s2) = Len(s) + 1 /\ s2[Len(s) + 1] = State(ca) /\ Len(s) \in Nat
      BY <1>3, <2>3
    <3>2. Len(s2) \in 1..Len(s2) /\ s2[Len(s2)].k = "state" /\ p <= s2[Len(s2)].snap.pub
      BY <1>3, <2>3, <3>1
    <3>3. QED
      BY <3>2 DEF Cov
  <2>4. QED
    BY <2>1, <2>2, <2>3
<1>7. QED
  BY <1>2, <1>5, <1>6 DEF FOK

LEMMA FokTokens ==
  ASSUME NEW c \in Callers, NEW td \in Seq(Steps), Stands("token", td), NEW ca, NEW p \in Nat,
         NEW n \in Nat, NEW kept, NEW t \in Nat, NEW j \in Nat, NEW dead, NEW s \in Seq(Job), NEW x \in Job,
         x.k = "token", x.of = c, x.nth = n, FOK(c, td, ca, p, n, kept, t, j, dead, s)
  PROVE  FOK(c, Tail(td), ca, p, n, kept, t, j, dead, Append(s, x))
<1>1. FlushOrdered(td) /\ td # <<>> /\ Head(td) = "token"
  BY DEF FOK, Stands
<1>2. /\ FlushOrdered(Tail(td)) /\ ~Stands("put", Tail(td)) /\ ~Stands("token", Tail(td)) /\ ~Tokened(Tail(td))
  BY <1>1, OrderedTail
<1>3. PICK s2 : s2 = Append(s, x)
  OBVIOUS
<1>4. /\ s2 \in Seq(Job) /\ Len(s) \in Nat /\ Len(s2) = Len(s) + 1 /\ s2[Len(s) + 1] = x
      /\ \A i \in 1..Len(s) : s2[i] = s[i]
  BY <1>3
<1>5. ASSUME NEW m \in 0..Len(s), Cov(p, m, t, j, dead, s) PROVE Cov(p, m, t, j, dead, s2)
  <2>1. CASE p <= t \/ p <= j \/ dead
    BY <2>1 DEF Cov
  <2>2. CASE \E i \in 1..m : s[i].k = "state" /\ p <= s[i].snap.pub
    <3>1. \A i \in 1..m : s2[i] = s[i]
      BY <1>4
    <3>2. QED
      BY <2>2, <3>1 DEF Cov
  <2>3. QED
    BY <1>5, <2>1, <2>2 DEF Cov
<1>6. ASSUME NEW i \in 1..Len(s2), s2[i].k = "token", s2[i].of = c
      PROVE  s2[i].nth <= n /\ (s2[i].nth = n => Cov(p, i - 1, t, j, dead, s2))
  <2>1. CASE i = Len(s) + 1
    <3>1. Len(s) \in 0..Len(s) /\ i - 1 = Len(s) /\ s2[i].nth = n /\ n <= n
      BY <1>4, <2>1
    <3>2. Cov(p, Len(s), t, j, dead, s)
      BY DEF FOK
    <3>3. Cov(p, Len(s), t, j, dead, s2)
      BY <1>5, <3>1, <3>2
    <3>4. QED
      BY <3>1, <3>3
  <2>2. CASE i # Len(s) + 1
    <3>1. i \in 1..Len(s) /\ s2[i] = s[i] /\ i - 1 \in 0..Len(s)
      BY <1>4, <2>2
    <3>2. s[i].nth <= n /\ (s[i].nth = n => Cov(p, i - 1, t, j, dead, s))
      BY <1>6, <3>1 DEF FOK
    <3>3. QED
      BY <1>5, <3>1, <3>2
  <2>3. QED
    BY <2>1, <2>2
<1>7. kept => t >= p
  BY DEF FOK
<1>8. ca # None => FALSE
  BY <1>1 DEF FOK, Stands
<1>9. FOK(c, Tail(td), ca, p, n, kept, t, j, dead, s2)
  BY <1>2, <1>6, <1>7, <1>8 DEF FOK
<1>10. QED
  BY <1>3, <1>9

LEMMA FokCalls ==   \* tokens of earlier calls are not this call's
  ASSUME NEW c \in Callers, NEW td, NEW ca, NEW p, NEW n \in Nat, NEW kept, NEW t, NEW j, NEW dead, NEW s \in Seq(Job),
         NEW name \in Names, FOK(c, <<>>, ca, p, n, kept, t, j, dead, s), td = Program(name)
  PROVE  FOK(c, td, ca, p, n + 1, FALSE, t, j, dead, s)
<1>1. FlushOrdered(td) /\ ~Stands("put", td) /\ ~Stands("token", td)
  <2>1. CASE name = "connect"
    BY <2>1 DEF Program, FlushOrdered, Stands
  <2>2. CASE name = "disconnect"
    BY <2>2 DEF Program, FlushOrdered, Stands
  <2>3. CASE name = "record_start"
    BY <2>3 DEF Program, FlushOrdered, Stands
  <2>4. CASE name = "record_stop"
    BY <2>4 DEF Program, FlushOrdered, Stands
  <2>5. CASE name = "log"
    BY <2>5 DEF Program, FlushOrdered, Stands
  <2>6. CASE name = "clear"
    BY <2>6 DEF Program, FlushOrdered, Stands
  <2>7. CASE name = "close"
    BY <2>7 DEF Program, FlushOrdered, Stands
  <2>8. QED
    BY <2>1, <2>2, <2>3, <2>4, <2>5, <2>6, <2>7 DEF Names
<1>2. ca = None
  BY DEF FOK, Stands
<1>3. ASSUME NEW i \in 1..Len(s), s[i].k = "token", s[i].of = c PROVE s[i].nth <= n + 1 /\ s[i].nth # n + 1
  <2>1. s[i] \in Job
    OBVIOUS
  <2>2. s[i].nth \in Nat /\ s[i].nth <= n
    BY <1>3, <2>1, JobIs DEF FOK
  <2>3. QED
    BY <2>2
<1>4. QED
  BY <1>1, <1>2, <1>3 DEF FOK

\* What the disk thread, and the comparison state of c, do in a step.
Rises == /\ ghost'.top \in Nat /\ disk'.job.pub \in Nat /\ ghost.top <= ghost'.top
         /\ disk.job.pub <= disk'.job.pub \/ disk.job.pub <= ghost'.top
         /\ disk.pc = "dead" => disk'.pc = "dead"

Same(c) == /\ carry'[c] = carry[c] /\ ghost'.want[c].pub = ghost.want[c].pub
           /\ ghost'.want[c].nth = ghost.want[c].nth /\ ghost'.kept[c] = ghost.kept[c]

Queues(c) == q' = q \/ \E x \in Job : q' = Append(q, x) /\ ~(x.k = "token" /\ x.of = c)

LEMMA ValuesTyped ==
  ASSUME TypeOK
  PROVE  /\ ghost.top \in Nat /\ disk.job.pub \in Nat /\ q \in Seq(Job) /\ pubs \in Nat /\ slot.pub \in Nat
         /\ \A c \in Callers : /\ todo[c] \in Seq(Steps) /\ carry[c] \in Snap /\ ghost.want[c].pub \in Nat
                               /\ ghost.want[c].nth \in Nat /\ ghost.kept[c] \in BOOLEAN /\ carry[c].pub \in Nat
BY DEF TypeOK, Ghosts, Thread, Snap, Want

LEMMA RestsKeep ==   \* c does nothing
  ASSUME TypeOK, NEW c \in Callers, FlushOK(c), Rises, Same(c), Queues(c), todo'[c] = todo[c]
  PROVE  FlushOK(c)'
<1>1. PICK td, ca, p, n, kept : td = todo[c] /\ ca = carry[c] /\ p = ghost.want[c].pub
                                /\ n = ghost.want[c].nth /\ kept = ghost.kept[c]
  OBVIOUS
<1>2. PICK t, j, s : t = ghost.top /\ j = disk.job.pub /\ s = q
  OBVIOUS
<1>3. PICK t2, j2, s2 : t2 = ghost'.top /\ j2 = disk'.job.pub /\ s2 = q'
  OBVIOUS
<1>4. PICK dead \in BOOLEAN : dead = (disk.pc = "dead")
  OBVIOUS
<1>5. PICK dead2 \in BOOLEAN : dead2 = (disk'.pc = "dead")
  OBVIOUS
<1>6. /\ t \in Nat /\ j \in Nat /\ t2 \in Nat /\ j2 \in Nat /\ p \in Nat /\ n \in Nat /\ s \in Seq(Job)
      /\ t <= t2 /\ (j <= j2 \/ j <= t2) /\ (dead => dead2)
  BY <1>1, <1>2, <1>3, <1>4, <1>5, ValuesTyped DEF Rises
<1>7. s2 \in Seq(Job) /\ (s2 = s \/ \E x \in Job : s2 = Append(s, x) /\ ~(x.k = "token" /\ x.of = c))
  <2>1. CASE q' = q
    BY <1>2, <1>3, <1>6, <2>1
  <2>2. CASE \E x \in Job : q' = Append(q, x) /\ ~(x.k = "token" /\ x.of = c)
    BY <1>2, <1>3, <1>6, <2>2
  <2>3. QED
    BY <2>1, <2>2 DEF Queues
<1>8. FOK(c, td, ca, p, n, kept, t, j, dead, s)
  BY <1>1, <1>2, <1>4, FlushIs
<1>9. FOK(c, td, ca, p, n, kept, t2, j2, dead2, s2)
  BY <1>6, <1>7, <1>8, FokGrows
<1>10. /\ todo'[c] = td /\ carry'[c] = ca /\ ghost'.want[c].pub = p /\ ghost'.want[c].nth = n
       /\ ghost'.kept[c] = kept
  BY <1>1 DEF Same
<1>11. QED
  BY <1>3, <1>5, <1>9, <1>10, FlushNext

LEMMA WalksKeep ==   \* c takes a step outside its flush
  ASSUME TypeOK, NEW c \in Callers, FlushOK(c), Rises, Same(c), Queues(c), Walked(todo[c], todo'[c]),
         todo[c] = <<>> \/ Head(todo[c]) \notin {"promote", "put", "token"}
  PROVE  FlushOK(c)'
<1>1. PICK td, ca, p, n, kept : td = todo[c] /\ ca = carry[c] /\ p = ghost.want[c].pub
                                /\ n = ghost.want[c].nth /\ kept = ghost.kept[c]
  OBVIOUS
<1>2. PICK t, j, s : t = ghost.top /\ j = disk.job.pub /\ s = q
  OBVIOUS
<1>3. PICK t2, j2, s2 : t2 = ghost'.top /\ j2 = disk'.job.pub /\ s2 = q'
  OBVIOUS
<1>4. PICK dead \in BOOLEAN : dead = (disk.pc = "dead")
  OBVIOUS
<1>5. PICK dead2 \in BOOLEAN : dead2 = (disk'.pc = "dead")
  OBVIOUS
<1>0. PICK td2 : td2 = todo'[c]
  OBVIOUS
<1>6. /\ t \in Nat /\ j \in Nat /\ t2 \in Nat /\ j2 \in Nat /\ p \in Nat /\ n \in Nat /\ s \in Seq(Job)
      /\ t <= t2 /\ (j <= j2 \/ j <= t2) /\ (dead => dead2) /\ td \in Seq(Steps)
  BY <1>1, <1>2, <1>3, <1>4, <1>5, ValuesTyped DEF Rises
<1>7. s2 \in Seq(Job) /\ (s2 = s \/ \E x \in Job : s2 = Append(s, x) /\ ~(x.k = "token" /\ x.of = c))
  <2>1. CASE q' = q
    BY <1>2, <1>3, <1>6, <2>1
  <2>2. CASE \E x \in Job : q' = Append(q, x) /\ ~(x.k = "token" /\ x.of = c)
    BY <1>2, <1>3, <1>6, <2>2
  <2>3. QED
    BY <2>1, <2>2 DEF Queues
<1>8. FOK(c, td, ca, p, n, kept, t, j, dead, s)
  BY <1>1, <1>2, <1>4, FlushIs
<1>9. FOK(c, td2, ca, p, n, kept, t, j, dead, s)
  <2>1. Walked(td, td2) /\ (td = <<>> \/ Head(td) \notin {"promote", "put", "token"})
    BY <1>0, <1>1
  <2>2. QED
    BY <1>6, <1>8, <2>1, FokWalks
<1>10. FOK(c, td2, ca, p, n, kept, t2, j2, dead2, s2)
  BY <1>6, <1>7, <1>9, FokGrows
<1>11. /\ todo'[c] = td2 /\ carry'[c] = ca /\ ghost'.want[c].pub = p /\ ghost'.want[c].nth = n
       /\ ghost'.kept[c] = kept
  BY <1>0, <1>1 DEF Same
<1>12. QED
  BY <1>3, <1>5, <1>10, <1>11, FlushNext

LEMMA LatestGrows ==
  ASSUME TypeOK, LatestKept, Rises, pubs' = pubs, carry' = carry,
         slot' = slot \/ slot.pub <= disk'.job.pub, q' = q \/ \E x \in Job : q' = Append(q, x)
  PROVE  LatestKept'
<1>2. PICK t, j, s : t = ghost.top /\ j = disk.job.pub /\ s = q
  OBVIOUS
<1>3. PICK t2, j2, s2 : t2 = ghost'.top /\ j2 = disk'.job.pub /\ s2 = q'
  OBVIOUS
<1>4. PICK dead \in BOOLEAN : dead = (disk.pc = "dead")
  OBVIOUS
<1>5. PICK dead2 \in BOOLEAN : dead2 = (disk'.pc = "dead")
  OBVIOUS
<1>6. /\ t \in Nat /\ j \in Nat /\ t2 \in Nat /\ j2 \in Nat /\ pubs \in Nat /\ s \in Seq(Job)
      /\ t <= t2 /\ (j <= j2 \/ j <= t2) /\ (dead => dead2)
  BY <1>2, <1>3, <1>4, <1>5, ValuesTyped DEF Rises
<1>7. s2 \in Seq(Job) /\ Len(s) \in Nat /\ Len(s) <= Len(s2) /\ \A i \in 1..Len(s) : s2[i] = s[i]
  <2>1. CASE q' = q
    BY <1>2, <1>3, <1>6, <2>1
  <2>2. CASE \E x \in Job : q' = Append(q, x)
    BY <1>2, <1>3, <1>6, <2>2
  <2>3. QED
    BY <2>1, <2>2
<1>8. CASE Cov(pubs, Len(s), t, j, dead, s)
  <2>1. Len(s) \in 0..Len(s) /\ Len(s2) \in Len(s)..Len(s2)
    BY <1>7
  <2>2. Cov(pubs, Len(s2), t2, j2, dead2, s2)
    BY <1>6, <1>7, <1>8, <2>1, CovGrows
  <2>3. QED
    BY <1>3, <1>5, <2>2, LatestNext
<1>9. CASE slot.pub = pubs
  <2>1. CASE slot' = slot
    BY <1>3, <1>5, <1>9, <2>1, LatestNext
  <2>2. CASE slot.pub <= disk'.job.pub
    <3>1. Cov(pubs, Len(s2), t2, j2, dead2, s2)
      BY <1>3, <1>9, <2>2 DEF Cov
    <3>2. QED
      BY <1>3, <1>5, <3>1, LatestNext
  <2>3. QED
    BY <2>1, <2>2
<1>10. CASE \E c \in Callers : carry[c].pub = pubs
  BY <1>3, <1>5, <1>10, LatestNext
<1>11. QED
  BY <1>2, <1>4, <1>8, <1>9, <1>10, LatestIs

LEMMA LatestPublished ==
  ASSUME slot'.pub = pubs'
  PROVE  LatestKept'
BY DEF LatestKept

LEMMA Resting == TypeOK /\ disk' = disk /\ ghost'.top = ghost.top => Rises
BY ValuesTyped DEF Rises

LEMMA SameGhost == ghost' = ghost /\ carry' = carry => \A d \in Callers : Same(d)
BY DEF Same

LEMMA RecordedSame ==
  ASSUME TypeOK, NEW n \in Nat, Recorded(n), carry' = carry
  PROVE  /\ \A d \in Callers : Same(d) /\ Queues(d)
         /\ ghost'.top = ghost.top /\ \E x \in Job : q' = Append(q, x)
<1>1. ghost \in Ghosts /\ Line(n) \in Job /\ Line(n).k = "line"
  BY QueueTyped DEF TypeOK
<1>2. \A d \in Callers : Queues(d)
  BY <1>1 DEF Queues, Recorded
<1>3. ghost'.want = ghost.want /\ ghost'.kept = ghost.kept /\ ghost'.top = ghost.top
  BY <1>1 DEF Recorded, Ghosts
<1>4. QED
  BY <1>1, <1>2, <1>3 DEF Same, Recorded

\* Steps of c outside its flush.
LEMMA PlainKeeps ==
  ASSUME TypeOK, FlushInv, NEW c \in Callers, disk' = disk, ghost'.top = ghost.top, LatestKept',
         \A d \in Callers : Same(d) /\ Queues(d), \A d \in Callers \ {c} : todo'[d] = todo[d],
         Walked(todo[c], todo'[c]), Head(todo[c]) \notin {"promote", "put", "token"} \/ todo[c] = <<>>
  PROVE  FlushInv'
<1>1. Rises
  BY Resting
<1>2. ASSUME NEW d \in Callers PROVE FlushOK(d)'
  <2>1. FlushOK(d) /\ Same(d) /\ Queues(d)
    BY DEF FlushInv
  <2>2. CASE d = c
    BY <1>1, <2>1, <2>2, WalksKeep
  <2>3. CASE d # c
    <3>1. todo'[d] = todo[d]
      BY <2>3
    <3>2. QED
      BY <1>1, <2>1, <3>1, RestsKeep
  <2>4. QED
    BY <2>2, <2>3
<1>3. (disk.pc # "write" => disk.job.pub = 0)'
  BY DEF FlushInv
<1>4. QED
  BY <1>2, <1>3 DEF FlushInv

LEMMA ThenWalks ==
  ASSUME TypeOK, NEW c \in Callers, NEW step, At(c, step), Then(c)
  PROVE  /\ Walked(todo[c], todo'[c]) /\ Head(todo[c]) = step
         /\ \A d \in Callers \ {c} : todo'[d] = todo[d]
<1>1. todo' = [todo EXCEPT ![c] = Tail(todo[c])] /\ todo \in [Callers -> Seq(Steps)]
  BY DEF Then, TypeOK
<1>2. todo'[c] = Tail(todo[c]) /\ \A d \in Callers \ {c} : todo'[d] = todo[d]
  BY <1>1
<1>3. QED
  BY <1>2 DEF Walked, At

LEMMA SkipWalks ==
  ASSUME TypeOK, NEW c \in Callers, NEW step \in {"open", "shut"}, At(c, step),
         todo' = [todo EXCEPT ![c] = Tail(Tail(@))]
  PROVE  /\ Walked(todo[c], todo'[c]) /\ Head(todo[c]) = step
         /\ \A d \in Callers \ {c} : todo'[d] = todo[d]
<1>1. todo' = [todo EXCEPT ![c] = Tail(Tail(todo[c]))] /\ todo \in [Callers -> Seq(Steps)]
  BY DEF TypeOK
<1>2. todo'[c] = Tail(Tail(todo[c])) /\ \A d \in Callers \ {c} : todo'[d] = todo[d]
  BY <1>1
<1>3. QED
  BY <1>2 DEF Walked, At

LEMMA PlainFlush ==
  ASSUME TypeOK, FlushInv, NEW c \in Callers,
         Locks(c) \/ Connects(c) \/ Starts(c) \/ Halts(c) \/ Marks(c) \/ Clears(c) \/ Awaits(c) \/ Unlocks(c)
  PROVE  FlushInv'
<1>1. /\ Then(c) /\ ghost' = ghost /\ carry' = carry /\ q' = q /\ disk' = disk
      /\ (pubs' = pubs /\ slot' = slot) \/ Publishes
      /\ \E step \in {"lock", "enter", "leave", "start", "halt", "mark", "unmark", "ring", "capture", "last",
                      "await", "publish", "unlock"} : At(c, step)
  <2>1. CASE Locks(c)
    BY <2>1 DEF Locks, out
  <2>2. CASE Connects(c)
    BY <2>2 DEF Connects, out
  <2>3. CASE Halts(c)
    BY <2>3 DEF Halts, out
  <2>4. CASE Marks(c)
    BY <2>4 DEF Marks, out
  <2>5. CASE Clears(c)
    BY <2>5 DEF Clears, out
  <2>6. CASE Awaits(c)
    BY <2>6 DEF Awaits, cache, obs, out
  <2>7. CASE Starts(c)
    BY <2>7 DEF Starts, out
  <2>8. CASE Unlocks(c)
    BY <2>8 DEF Unlocks, out
  <2>9. QED
    BY <2>1, <2>2, <2>3, <2>4, <2>5, <2>6, <2>7, <2>8
<1>2. PICK step : At(c, step) /\ step \notin {"promote", "put", "token"}
  BY <1>1
<1>3. /\ Walked(todo[c], todo'[c]) /\ Head(todo[c]) = step
      /\ \A d \in Callers \ {c} : todo'[d] = todo[d]
  BY <1>1, <1>2, ThenWalks
<1>4. LatestKept'
  <2>1. CASE pubs' = pubs /\ slot' = slot
    BY <1>1, <2>1, Resting, LatestGrows DEF FlushInv
  <2>2. CASE Publishes
    <3>1. PICK sn \in Snap : sn = [None EXCEPT !.conn = conn]
      BY NoneIsSnap DEF TypeOK
    <3>2. Publish(sn)
      BY <2>2, <3>1 DEF Publishes
    <3>3. QED
      BY <3>2, PublishTyped, LatestPublished DEF TypeOK
  <2>3. QED
    BY <1>1, <2>1, <2>2
<1>5. \A d \in Callers : Same(d) /\ Queues(d)
  BY <1>1, SameGhost DEF Queues
<1>6. QED
  BY <1>1, <1>2, <1>3, <1>4, <1>5, PlainKeeps

LEMMA QueuesFlush ==
  ASSUME TypeOK, FlushInv, NEW c \in Callers, Opens(c) \/ Shuts(c) \/ Logs(c)
  PROVE  FlushInv'
<1>0. ghost \in Ghosts /\ clock \in Seconds /\ ghost.want[c] \in Want /\ ghost.want \in [Callers -> Want]
  BY WantTyped DEF TypeOK
<1>1. CASE Opens(c)
  <2>1. /\ disk' = disk /\ carry' = carry /\ pubs' = pubs /\ slot' = slot /\ At(c, "open")
        /\ IF flag THEN todo' = [todo EXCEPT ![c] = Tail(Tail(@))] /\ UNCHANGED <<q, ghost>>
           ELSE /\ q' = Append(q, Open(clock)) /\ Then(c)
                /\ ghost' = [ghost EXCEPT !.opens[clock] = @ + 1, !.took = <<>>, !.last = clock]
    BY <1>1 DEF Opens, out
  <2>2. /\ Walked(todo[c], todo'[c]) /\ Head(todo[c]) = "open"
        /\ \A d \in Callers \ {c} : todo'[d] = todo[d]
    BY <2>1, ThenWalks, SkipWalks
  <2>3. ghost'.want = ghost.want /\ ghost'.kept = ghost.kept /\ ghost'.top = ghost.top
    BY <1>0, <2>1 DEF Ghosts
  <2>4. q' = q \/ \E x \in Job : q' = Append(q, x) /\ x.k # "token"
    BY <2>1, QueueTyped
  <2>5. \A d \in Callers : Same(d) /\ Queues(d)
    BY <2>1, <2>3, <2>4 DEF Same, Queues
  <2>6. LatestKept'
    BY <2>1, <2>3, <2>4, Resting, LatestGrows DEF FlushInv
  <2>7. QED
    BY <2>1, <2>2, <2>3, <2>5, <2>6, PlainKeeps
<1>2. CASE Shuts(c)
  <2>1. /\ disk' = disk /\ carry' = carry /\ pubs' = pubs /\ slot' = slot /\ At(c, "shut")
        /\ IF ~flag THEN todo' = [todo EXCEPT ![c] = Tail(Tail(@))] /\ UNCHANGED <<q, ghost>>
           ELSE /\ q' = Append(q, Close) /\ Then(c)
                /\ ghost' = [ghost EXCEPT !.want[c].path = ghost.last, !.want[c].lines = ghost.took,
                                    !.last = Closed, !.took = <<>>]
    BY <1>2 DEF Shuts, out
  <2>2. /\ Walked(todo[c], todo'[c]) /\ Head(todo[c]) = "shut"
        /\ \A d \in Callers \ {c} : todo'[d] = todo[d]
    BY <2>1, ThenWalks, SkipWalks
  <2>3. /\ ghost'.kept = ghost.kept /\ ghost'.top = ghost.top
        /\ \A d \in Callers : ghost'.want[d].pub = ghost.want[d].pub /\ ghost'.want[d].nth = ghost.want[d].nth
    <3>1. CASE ghost' = ghost
      BY <3>1
    <3>2. CASE ghost' = [ghost EXCEPT !.want[c].path = ghost.last, !.want[c].lines = ghost.took,
                                    !.last = Closed, !.took = <<>>]
      <4>1. PICK w : w = [[ghost.want[c] EXCEPT !.path = ghost.last] EXCEPT !.lines = ghost.took]
        OBVIOUS
      <4>2. PICK e : e = <<>>
        OBVIOUS
      <4>3. [ghost EXCEPT !.want[c].path = ghost.last, !.want[c].lines = ghost.took]
              = [ghost EXCEPT !.want[c] = w]
        BY <1>0, <4>1 DEF Ghosts
      <4>4. ghost' = [[[ghost EXCEPT !.want[c] = w] EXCEPT !.last = Closed] EXCEPT !.took = e]
        BY <3>2, <4>2, <4>3
      <4>5. w.pub = ghost.want[c].pub /\ w.nth = ghost.want[c].nth
        BY <1>0, <4>1 DEF Want
      <4>6. ghost'.kept = ghost.kept /\ ghost'.top = ghost.top /\ ghost'.want = [ghost.want EXCEPT ![c] = w]
        BY <1>0, <4>4 DEF Ghosts
      <4>7. QED
        BY <1>0, <4>5, <4>6
    <3>3. QED
      BY <2>1, <3>1, <3>2
  <2>4. q' = q \/ \E x \in Job : q' = Append(q, x) /\ x.k # "token"
    BY <2>1, QueueTyped
  <2>5. \A d \in Callers : Same(d) /\ Queues(d)
    BY <2>1, <2>3, <2>4 DEF Same, Queues
  <2>6. LatestKept'
    BY <2>1, <2>3, <2>4, Resting, LatestGrows DEF FlushInv
  <2>7. QED
    BY <2>1, <2>2, <2>3, <2>5, <2>6, PlainKeeps
<1>3. CASE Logs(c)
  <2>1. /\ disk' = disk /\ carry' = carry /\ pubs' = pubs /\ slot' = slot
        /\ At(c, "check") \/ At(c, "line")
        /\ Then(c) \/ Return(c)
        /\ UNCHANGED <<q, ghost>> \/ Recorded(reader[c].fb.n)
    BY <1>3 DEF Logs, out
  <2>2. PICK step \in {"check", "line"} : At(c, step)
    BY <2>1
  <2>3. /\ Walked(todo[c], todo'[c]) /\ Head(todo[c]) = step
        /\ \A d \in Callers \ {c} : todo'[d] = todo[d]
    <3>1. CASE Then(c)
      BY <2>2, <3>1, ThenWalks
    <3>2. CASE Return(c)
      <4>1. todo'[c] = <<>> /\ \A d \in Callers \ {c} : todo'[d] = todo[d]
        BY <3>2 DEF Return, TypeOK
      <4>2. QED
        BY <2>2, <4>1 DEF At, Walked
    <3>3. QED
      BY <2>1, <3>1, <3>2
  <2>4. /\ \A d \in Callers : Same(d) /\ Queues(d)
        /\ ghost'.top = ghost.top /\ (q' = q \/ \E x \in Job : q' = Append(q, x))
    <3>1. reader[c].fb.n \in Nat
      BY GoesTyped DEF Observers
    <3>2. CASE UNCHANGED <<q, ghost>>
      BY <2>1, <3>2, SameGhost DEF Queues
    <3>3. CASE Recorded(reader[c].fb.n)
      BY <2>1, <3>1, <3>3, RecordedSame
    <3>4. QED
      BY <2>1, <3>2, <3>3
  <2>5. LatestKept'
    BY <2>1, <2>4, Resting, LatestGrows DEF FlushInv
  <2>6. QED
    BY <2>1, <2>3, <2>4, <2>5, PlainKeeps
<1>4. QED
  BY <1>1, <1>2, <1>3

\* A step of c's flush: the others rest.
LEMMA FlushSteps ==
  ASSUME TypeOK, FlushInv, NEW c \in Callers, disk' = disk, ghost'.top = ghost.top, LatestKept', FlushOK(c)',
         \A d \in Callers \ {c} : Same(d) /\ Queues(d) /\ todo'[d] = todo[d]
  PROVE  FlushInv'
<1>1. Rises
  BY Resting
<1>2. ASSUME NEW d \in Callers PROVE FlushOK(d)'
  <2>1. CASE d = c
    BY <2>1
  <2>2. CASE d # c
    <3>1. Same(d) /\ Queues(d) /\ todo'[d] = todo[d] /\ FlushOK(d)
      BY <2>2 DEF FlushInv
    <3>2. QED
      BY <1>1, <3>1, RestsKeep
  <2>3. QED
    BY <2>1, <2>2
<1>3. (disk.pc # "write" => disk.job.pub = 0)'
  BY DEF FlushInv
<1>4. QED
  BY <1>2, <1>3 DEF FlushInv

LEMMA CallsFlush ==
  ASSUME TypeOK, FlushInv, NEW c \in Callers, NEW name \in Names, Calls(c, name)
  PROVE  FlushInv'
<1>1. /\ disk' = disk /\ carry' = carry /\ pubs' = pubs /\ slot' = slot /\ q' = q /\ todo[c] = <<>>
      /\ todo' = [todo EXCEPT ![c] = Program(name)]
      /\ ghost' = [ghost EXCEPT !.kept[c] = FALSE, !.want[c].path = Closed, !.want[c].nth = @ + 1]
  BY DEF Calls, cache, obs, out
<1>2. ghost \in Ghosts /\ ghost.want[c] \in Want /\ ghost.want \in [Callers -> Want]
  BY WantTyped DEF TypeOK
<1>3. PICK w : w = [ghost.want[c] EXCEPT !.path = Closed, !.nth = @ + 1]
  OBVIOUS
<1>4. w.pub = ghost.want[c].pub /\ w.nth = ghost.want[c].nth + 1
  BY <1>2, <1>3 DEF Want
<1>5. ghost' = [ghost EXCEPT !.kept[c] = FALSE, !.want[c] = w]
  BY <1>1, <1>2, <1>3 DEF Ghosts
<1>6. /\ ghost'.top = ghost.top /\ ghost'.want = [ghost.want EXCEPT ![c] = w]
      /\ ghost'.kept = [ghost.kept EXCEPT ![c] = FALSE] /\ ghost.kept \in [Callers -> BOOLEAN]
  BY <1>2, <1>5 DEF Ghosts
<1>7. \A d \in Callers \ {c} : Same(d) /\ Queues(d) /\ todo'[d] = todo[d]
  BY <1>1, <1>2, <1>6 DEF Same, Queues, TypeOK
<1>8. LatestKept'
  BY <1>1, <1>6, Resting, LatestGrows DEF FlushInv
<1>9. FlushOK(c)'
  <2>1. PICK ca, p, n, kept : /\ ca = carry[c] /\ p = ghost.want[c].pub
                              /\ n = ghost.want[c].nth /\ kept = ghost.kept[c]
    OBVIOUS
  <2>2. PICK t, j, s : t = ghost.top /\ j = disk.job.pub /\ s = q
    OBVIOUS
  <2>3. PICK dead : dead = (disk.pc = "dead")
    OBVIOUS
  <2>4. PICK td : td = Program(name)
    OBVIOUS
  <2>5. FlushOK(c) /\ n \in Nat /\ s \in Seq(Job)
    BY <2>1, <2>2, ValuesTyped DEF FlushInv
  <2>6. FOK(c, <<>>, ca, p, n, kept, t, j, dead, s)
    BY <1>1, <2>1, <2>2, <2>3, <2>5, FlushIs
  <2>7. FOK(c, td, ca, p, n + 1, FALSE, t, j, dead, s)
    BY <2>4, <2>5, <2>6, FokCalls
  <2>8. todo'[c] = td /\ carry'[c] = ca
    BY <1>1, <2>1, <2>4 DEF TypeOK
  <2>9. /\ ghost'.want[c].pub = p /\ ghost'.want[c].nth = n + 1 /\ ghost'.kept[c] = FALSE
        /\ ghost'.top = t /\ disk'.job.pub = j /\ (disk'.pc = "dead") = dead /\ q' = s
    BY <1>1, <1>2, <1>4, <1>6, <2>1, <2>2, <2>3
  <2>10. QED
    BY <2>7, <2>8, <2>9, FlushNext
<1>10. QED
  BY <1>1, <1>6, <1>7, <1>8, <1>9, FlushSteps

LEMMA PromotesFlush ==
  ASSUME TypeOK, FlushInv, NEW c \in Callers, Promotes(c)
  PROVE  FlushInv'
<1>1. /\ disk' = disk /\ pubs' = pubs /\ slot' = None /\ q' = q /\ At(c, "promote") /\ Then(c)
      /\ carry' = [carry EXCEPT ![c] = slot] /\ ghost' = [ghost EXCEPT !.want[c].pub = Owed]
  BY DEF Promotes, cache, obs, out
<1>2. ghost \in Ghosts /\ ghost.want[c] \in Want /\ ghost.want \in [Callers -> Want]
  BY WantTyped DEF TypeOK
<1>3. PICK o \in Nat : o = Owed
  BY DEF Owed, TypeOK
<1>4. PICK w : w = [ghost.want[c] EXCEPT !.pub = o]
  OBVIOUS
<1>5. w.pub = o /\ w.nth = ghost.want[c].nth
  BY <1>2, <1>4 DEF Want
<1>6. ghost' = [ghost EXCEPT !.want[c] = w]
  BY <1>1, <1>2, <1>3, <1>4 DEF Ghosts
<1>7. /\ ghost'.top = ghost.top /\ ghost'.want = [ghost.want EXCEPT ![c] = w] /\ ghost'.kept = ghost.kept
  BY <1>2, <1>6 DEF Ghosts
<1>8. Head(todo[c]) = "promote" /\ \A d \in Callers \ {c} : todo'[d] = todo[d]
  BY <1>1, ThenWalks
<1>9. carry'[c] = slot /\ \A d \in Callers \ {c} : carry'[d] = carry[d]
  BY <1>1 DEF TypeOK
<1>10. \A d \in Callers \ {c} : Same(d) /\ Queues(d) /\ todo'[d] = todo[d]
  BY <1>1, <1>2, <1>7, <1>8, <1>9 DEF Same, Queues
<1>11. carry[c] = None
  BY <1>8 DEF FlushInv, FlushOK, At
<1>12. LatestKept'
  <2>1. CASE slot.pub = pubs
    BY <1>1, <1>9, <2>1 DEF LatestKept
  <2>2. CASE Covered(pubs, Len(q)) \/ \E d \in Callers : carry[d].pub = pubs
    <3>1. PICK t, j, s : t = ghost.top /\ j = disk.job.pub /\ s = q
      OBVIOUS
    <3>2. PICK dead : dead = (disk.pc = "dead")
      OBVIOUS
    <3>3. \/ Cov(pubs, Len(s), t, j, dead, s) \/ \E d \in Callers : carry[d].pub = pubs
      BY <2>2, <3>1, <3>2 DEF Covered, Cov
    <3>4. Cov(pubs, Len(s), t, j, dead, s) \/ \E d \in Callers : carry'[d].pub = pubs
      <4>1. CASE \E d \in Callers \ {c} : carry[d].pub = pubs
        BY <1>9, <4>1
      <4>2. CASE carry[c].pub = pubs
        <5>1. pubs <= t
          BY <1>11, <3>1, <4>2, ValuesTyped DEF None
        <5>2. QED
          BY <5>1 DEF Cov
      <4>3. QED
        BY <3>3, <4>1, <4>2
    <3>5. ghost'.top = t /\ disk'.job.pub = j /\ (disk'.pc = "dead") = dead /\ q' = s
      BY <1>1, <1>7, <3>1, <3>2
    <3>6. QED
      BY <1>1, <3>4, <3>5, LatestNext
  <2>3. QED
    BY <2>1, <2>2 DEF FlushInv, LatestKept
<1>13. FlushOK(c)'
  <2>1. PICK td, ca, p, n, kept : /\ td = todo[c] /\ ca = carry[c] /\ p = ghost.want[c].pub
                                  /\ n = ghost.want[c].nth /\ kept = ghost.kept[c]
    OBVIOUS
  <2>2. PICK t, j, s : t = ghost.top /\ j = disk.job.pub /\ s = q
    OBVIOUS
  <2>3. PICK dead : dead = (disk.pc = "dead")
    OBVIOUS
  <2>4. PICK ca2 : ca2 = slot
    OBVIOUS
  <2>5. FlushOK(c) /\ td \in Seq(Steps) /\ s \in Seq(Job) /\ t \in Nat
    BY <2>1, <2>2, ValuesTyped DEF FlushInv
  <2>6. FOK(c, td, ca, p, n, kept, t, j, dead, s)
    BY <2>1, <2>2, <2>3, <2>5, FlushIs
  <2>7. Cov(o, Len(s), t, j, dead, s) \/ ca2.pub = o
    <3>1. CASE o = 0
      <4>1. o <= t
        BY <2>5, <3>1
      <4>2. QED
        BY <4>1 DEF Cov
    <3>2. CASE o # 0
      <4>1. o = pubs /\ \A d \in Callers : carry[d] = None
        BY <1>3, <3>2 DEF Owed
      <4>2. \A d \in Callers : carry[d].pub # pubs
        BY <3>2, <4>1 DEF None
      <4>3. Cov(pubs, Len(s), t, j, dead, s) \/ slot.pub = pubs
        BY <2>2, <2>3, <4>2, LatestIs DEF FlushInv
      <4>4. QED
        BY <2>4, <4>1, <4>3
    <3>3. QED
      BY <3>1, <3>2
  <2>8. Stands("promote", td)
    BY <1>1, <2>1 DEF At, Stands
  <2>9. FOK(c, Tail(td), ca2, o, n, kept, t, j, dead, s)
    BY <2>5, <2>6, <2>7, <2>8, FokPromotes
  <2>10. todo'[c] = Tail(td) /\ carry'[c] = ca2
    BY <1>1, <1>9, <2>1, <2>4 DEF Then, TypeOK
  <2>11. /\ ghost'.want[c].pub = o /\ ghost'.want[c].nth = n /\ ghost'.kept[c] = kept
         /\ ghost'.top = t /\ disk'.job.pub = j /\ (disk'.pc = "dead") = dead /\ q' = s
    BY <1>1, <1>2, <1>5, <1>7, <2>1, <2>2, <2>3
  <2>12. QED
    BY <2>9, <2>10, <2>11, FlushNext
<1>14. QED
  BY <1>1, <1>7, <1>10, <1>12, <1>13, FlushSteps

LEMMA PutsFlush ==
  ASSUME TypeOK, FlushInv, NEW c \in Callers, Puts(c)
  PROVE  FlushInv'
<1>1. /\ disk' = disk /\ pubs' = pubs /\ slot' = slot /\ At(c, "put") /\ Then(c) /\ ghost' = ghost
      /\ carry' = [carry EXCEPT ![c] = None]
      /\ q' = IF carry[c] = None THEN q ELSE Append(q, State(carry[c]))
  BY DEF Puts, cache, obs, out
<1>2. Head(todo[c]) = "put" /\ \A d \in Callers \ {c} : todo'[d] = todo[d]
  BY <1>1, ThenWalks
<1>3. carry'[c] = None /\ \A d \in Callers \ {c} : carry'[d] = carry[d]
  BY <1>1 DEF TypeOK
<1>4. carry[c] \in Snap /\ q \in Seq(Job)
  BY DEF TypeOK
<1>5. State(carry[c]) \in Job /\ State(carry[c]).k = "state" /\ State(carry[c]).snap = carry[c]
  BY <1>4, QueueTyped
<1>6. \A d \in Callers : Queues(d)
  BY <1>1, <1>5 DEF Queues
<1>7. \A d \in Callers \ {c} : Same(d) /\ Queues(d) /\ todo'[d] = todo[d]
  BY <1>1, <1>2, <1>3, <1>6 DEF Same
<1>8. PICK td, ca, p, n, kept : /\ td = todo[c] /\ ca = carry[c] /\ p = ghost.want[c].pub
                                /\ n = ghost.want[c].nth /\ kept = ghost.kept[c]
  OBVIOUS
<1>9. PICK t, j, s, s2 : t = ghost.top /\ j = disk.job.pub /\ s = q /\ s2 = q'
  OBVIOUS
<1>10. PICK dead \in BOOLEAN : dead = (disk.pc = "dead")
  OBVIOUS
<1>11. /\ FlushOK(c) /\ td \in Seq(Steps) /\ s \in Seq(Job) /\ t \in Nat /\ j \in Nat /\ ca \in Snap
       /\ p \in Nat /\ n \in Nat /\ pubs \in Nat
  BY <1>8, <1>9, ValuesTyped DEF FlushInv
<1>12. s2 \in Seq(Job) /\ s2 = IF ca = None THEN s ELSE Append(s, State(ca))
  BY <1>1, <1>4, <1>5, <1>8, <1>9
<1>13. ghost'.top = t /\ disk'.job.pub = j /\ (disk'.pc = "dead") = dead /\ q' = s2
  BY <1>1, <1>9, <1>10
<1>14. FlushOK(c)'
  <2>1. FOK(c, td, ca, p, n, kept, t, j, dead, s)
    BY <1>8, <1>9, <1>10, <1>11, FlushIs
  <2>2. Stands("put", td)
    BY <1>1, <1>8 DEF At, Stands
  <2>3. FOK(c, Tail(td), None, p, n, kept, t, j, dead, s2)
    BY <1>11, <1>12, <2>1, <2>2, FokPuts
  <2>4. todo'[c] = Tail(td)
    BY <1>1, <1>8 DEF Then, TypeOK
  <2>5. ghost'.want[c].pub = p /\ ghost'.want[c].nth = n /\ ghost'.kept[c] = kept
    BY <1>1, <1>8
  <2>6. QED
    BY <1>3, <1>13, <2>3, <2>4, <2>5, FlushNext
<1>15. LatestKept'
  <2>1. Cov(pubs, Len(s2), t, j, dead, s2) \/ slot.pub = pubs \/ \E d \in Callers : carry'[d].pub = pubs
    <3>1. CASE Cov(pubs, Len(s), t, j, dead, s)
      <4>1. Len(s) \in Nat /\ Len(s) <= Len(s2) /\ \A i \in 1..Len(s) : s2[i] = s[i]
        <5>1. CASE ca = None
          BY <1>11, <1>12, <5>1
        <5>2. CASE ca # None
          BY <1>5, <1>8, <1>11, <1>12, <5>2
        <5>3. QED
          BY <5>1, <5>2
      <4>2. \A i \in 1..Len(s) : i \in 1..Len(s2)
        BY <1>12, <4>1
      <4>3. QED
        BY <3>1, <4>1, <4>2 DEF Cov
    <3>2. CASE slot.pub = pubs
      BY <3>2
    <3>3. CASE \E d \in Callers \ {c} : carry[d].pub = pubs
      BY <1>3, <3>3
    <3>4. CASE ca.pub = pubs /\ ca = None
      <4>1. pubs <= t
        BY <1>11, <3>4 DEF None
      <4>2. QED
        BY <4>1 DEF Cov
    <3>5. CASE ca.pub = pubs /\ ca # None
      <4>1. s2 = Append(s, State(ca)) /\ State(ca) \in Job /\ State(ca).k = "state" /\ State(ca).snap = ca
        BY <1>5, <1>8, <1>12, <3>5
      <4>2. Len(s2) = Len(s) + 1 /\ s2[Len(s) + 1] = State(ca) /\ Len(s) \in Nat
        BY <1>11, <4>1
      <4>3. Len(s2) \in 1..Len(s2) /\ s2[Len(s2)].k = "state" /\ pubs <= s2[Len(s2)].snap.pub
        BY <1>11, <3>5, <4>1, <4>2
      <4>4. QED
        BY <4>3 DEF Cov
    <3>6. Cov(pubs, Len(s), t, j, dead, s) \/ slot.pub = pubs \/ \E d \in Callers : carry[d].pub = pubs
      BY <1>9, <1>10, LatestIs DEF FlushInv
    <3>7. QED
      BY <1>8, <3>1, <3>2, <3>3, <3>4, <3>5, <3>6
  <2>2. QED
    BY <1>1, <1>13, <2>1, LatestNext
<1>16. QED
  BY <1>1, <1>7, <1>14, <1>15, FlushSteps

LEMMA TokensFlush ==
  ASSUME TypeOK, FlushInv, NEW c \in Callers, Tokens(c)
  PROVE  FlushInv'
<1>1. /\ disk' = disk /\ pubs' = pubs /\ slot' = slot /\ At(c, "token") /\ Then(c) /\ ghost' = ghost
      /\ carry' = carry /\ q' = Append(q, Token(c))
  BY DEF Tokens, cache, obs, out
<1>2. PICK x \in Job : x = Token(c) /\ x.k = "token" /\ x.of = c /\ x.nth = ghost.want[c].nth
  BY QueueTyped
<1>3. \A d \in Callers \ {c} : todo'[d] = todo[d]
  BY <1>1, ThenWalks
<1>4. \A d \in Callers \ {c} : Same(d) /\ Queues(d) /\ todo'[d] = todo[d]
  BY <1>1, <1>2, <1>3 DEF Same, Queues
<1>5. LatestKept'
  BY <1>1, <1>2, Resting, LatestGrows DEF FlushInv
<1>6. FlushOK(c)'
  <2>1. PICK td, ca, p, n, kept : /\ td = todo[c] /\ ca = carry[c] /\ p = ghost.want[c].pub
                                  /\ n = ghost.want[c].nth /\ kept = ghost.kept[c]
    OBVIOUS
  <2>2. PICK t, j, s : t = ghost.top /\ j = disk.job.pub /\ s = q
    OBVIOUS
  <2>3. PICK dead : dead = (disk.pc = "dead")
    OBVIOUS
  <2>4. /\ FlushOK(c) /\ td \in Seq(Steps) /\ s \in Seq(Job) /\ t \in Nat /\ j \in Nat /\ p \in Nat /\ n \in Nat
    BY <2>1, <2>2, ValuesTyped DEF FlushInv
  <2>5. FOK(c, td, ca, p, n, kept, t, j, dead, s)
    BY <2>1, <2>2, <2>3, <2>4, FlushIs
  <2>6. Stands("token", td) /\ x.nth = n
    BY <1>1, <1>2, <2>1 DEF At, Stands
  <2>7. FOK(c, Tail(td), ca, p, n, kept, t, j, dead, Append(s, x))
    BY <1>2, <2>4, <2>5, <2>6, FokTokens
  <2>8. todo'[c] = Tail(td) /\ carry'[c] = ca
    BY <1>1, <2>1 DEF Then, TypeOK
  <2>9. /\ ghost'.want[c].pub = p /\ ghost'.want[c].nth = n /\ ghost'.kept[c] = kept
        /\ ghost'.top = t /\ disk'.job.pub = j /\ (disk'.pc = "dead") = dead /\ q' = Append(s, x)
    BY <1>1, <1>2, <2>1, <2>2, <2>3
  <2>10. QED
    BY <2>7, <2>8, <2>9, FlushNext
<1>7. QED
  BY <1>1, <1>4, <1>5, <1>6, FlushSteps

\* A step of another thread that leaves the calls alone.
LEMMA OthersStep ==
  ASSUME TypeOK, FlushInv, todo' = todo, Rises, LatestKept', \A d \in Callers : Same(d) /\ Queues(d),
         (disk.pc # "write" => disk.job.pub = 0)'
  PROVE  FlushInv'
<1>1. ASSUME NEW d \in Callers PROVE FlushOK(d)'
  <2>1. FlushOK(d) /\ Same(d) /\ Queues(d) /\ todo'[d] = todo[d]
    BY DEF FlushInv
  <2>2. QED
    BY <2>1, RestsKeep
<1>2. QED
  BY <1>1 DEF FlushInv

LEMMA ReaderFlush ==
  ASSUME TypeOK, FlushInv, NEW o \in Observers, Observer(o)
  PROVE  FlushInv'
<1>1. /\ todo' = todo /\ carry' = carry /\ disk' = disk
      /\ \/ ghost' = ghost /\ (q' = q \/ \E d \in Capture : q' = Append(q, Dump(d)))
         \/ Recorded(reader[o].fb.n)
      /\ \/ pubs' = pubs /\ slot' = slot
         \/ \E s \in Snap : Publish(s)
  <2>0. reader[o].snap \in Snap /\ [None EXCEPT !.conn = conn] \in Snap
    BY GoesTyped, NoneIsSnap DEF TypeOK
  <2>1. CASE Polls(o) \/ Snaps(o) \/ Tests(o) \/ Flags(o)
    BY <2>1 DEF Polls, Snaps, Tests, Flags, cache, out
  <2>2. CASE Rings(o) \/ Appends(o) \/ Counts(o) \/ Checks(o)
    BY <2>2 DEF Rings, Appends, Counts, Checks, out
  <2>3. CASE Dumps(o)
    <3>1. fr.cap \in Capture /\ reader[o].mine \in Capture
      BY GoesTyped, FaultEdits DEF TypeOK
    <3>2. q' = q \/ \E d \in Capture : q' = Append(q, Dump(d))
      BY <2>3, <3>1, DumpsIs
    <3>3. QED
      BY <2>3, <3>2 DEF Dumps, out
  <2>4. CASE Lines(o)
    BY <2>4 DEF Lines, cache, out
  <2>5. CASE Posts(o)
    BY <2>0, <2>5 DEF Posts, cache, out
  <2>6. CASE Errs(o)
    <3>1. (pubs' = pubs /\ slot' = slot) \/ Publish([None EXCEPT !.conn = conn])
      BY <2>6 DEF Errs, Publishes
    <3>2. QED
      BY <2>0, <2>6, <3>1 DEF Errs, cache, out
  <2>7. QED
    BY <2>1, <2>2, <2>3, <2>4, <2>5, <2>6 DEF Observer
<1>2. /\ \A d \in Callers : Same(d) /\ Queues(d)
      /\ ghost'.top = ghost.top /\ (q' = q \/ \E x \in Job : q' = Append(q, x))
  <2>1. CASE ghost' = ghost /\ (q' = q \/ \E d \in Capture : q' = Append(q, Dump(d)))
    <3>1. ASSUME NEW d \in Capture PROVE Dump(d) \in Job /\ Dump(d).k = "dump"
      BY QueueTyped
    <3>2. q' = q \/ \E x \in Job : q' = Append(q, x) /\ x.k = "dump"
      BY <2>1, <3>1
    <3>3. QED
      BY <1>1, <2>1, <3>2, SameGhost DEF Queues
  <2>2. CASE Recorded(reader[o].fb.n)
    <3>1. reader[o].fb.n \in Nat
      BY GoesTyped
    <3>2. QED
      BY <1>1, <2>2, <3>1, RecordedSame
  <2>3. QED
    BY <1>1, <2>1, <2>2
<1>3. Rises
  BY <1>1, <1>2, Resting
<1>4. LatestKept'
  <2>1. CASE pubs' = pubs /\ slot' = slot
    BY <1>1, <1>2, <1>3, <2>1, LatestGrows DEF FlushInv
  <2>2. CASE \E s \in Snap : Publish(s)
    BY <2>2, PublishTyped, LatestPublished DEF TypeOK
  <2>3. QED
    BY <1>1, <2>1, <2>2
<1>5. (disk.pc # "write" => disk.job.pub = 0)'
  BY <1>1 DEF FlushInv
<1>6. QED
  BY <1>1, <1>2, <1>3, <1>4, <1>5, OthersStep

LEMMA DrainsFlush ==
  ASSUME TypeOK, FlushInv, Drains
  PROVE  FlushInv'
<1>1. /\ disk.pc = "drain" /\ q # <<>> /\ q' = Tail(q) /\ Handles(Head(q))
      /\ todo' = todo /\ carry' = carry /\ slot' = slot /\ pubs' = pubs
  BY DEF Drains
<1>2. PICK h \in Job : h = Head(q)
  BY <1>1, TailIs DEF TypeOK
<1>3. Handles(h) /\ ghost \in Ghosts /\ ghost' \in Ghosts
  BY <1>1, <1>2, HandlesTyped DEF TypeOK
<1>4. disk'.pc = disk.pc /\ disk'.job = disk.job
  BY <1>2, <1>3, HandlesTyped
<1>5. PICK t, t2, s : t = ghost.top /\ t2 = ghost'.top /\ s = q
  OBVIOUS
<1>6. /\ ghost'.want = ghost.want /\ t \in Nat /\ t2 \in Nat /\ t <= t2
      /\ h.k = "state" => h.snap.pub <= t2
      /\ \A c \in Callers : /\ ghost'.kept[c] \in BOOLEAN
                            /\ ghost'.kept[c] => \/ ghost.kept[c]
                                                 \/ h.k = "token" /\ h.of = c /\ h.nth = ghost.want[c].nth
  <2>0. t \in Nat /\ t2 \in Nat /\ \A c \in Callers : ghost'.kept[c] \in BOOLEAN
    BY <1>3, <1>5 DEF Ghosts
  <2>1. CASE h.k = "state"
    <3>1. h.snap \in Snap /\ Written(h.snap)
      BY <1>3, <2>1, JobIs DEF Handles
    <3>2. h.snap.pub \in Nat
      BY <3>1 DEF Snap
    <3>3. /\ ghost'.top >= ghost.top /\ ghost'.top >= h.snap.pub
          /\ ghost'.want = ghost.want /\ ghost'.kept = ghost.kept
      BY <1>3, <3>1, WrittenTyped
    <3>4. QED
      BY <1>5, <2>0, <2>1, <3>2, <3>3
  <2>2. CASE h.k = "token"
    <3>1. ghost' = [ghost EXCEPT !.kept[h.of] = @ \/ h.nth = ghost.want[h.of].nth]
      BY <1>3, <2>2 DEF Handles
    <3>2. PICK b \in BOOLEAN : b = (ghost.kept[h.of] \/ h.nth = ghost.want[h.of].nth)
      OBVIOUS
    <3>3. /\ ghost'.kept = [ghost.kept EXCEPT ![h.of] = b] /\ ghost'.want = ghost.want
          /\ ghost'.top = ghost.top /\ ghost.kept \in [Callers -> BOOLEAN]
      BY <1>3, <3>1, <3>2 DEF Ghosts
    <3>4. ASSUME NEW c \in Callers, ghost'.kept[c]
          PROVE  ghost.kept[c] \/ (h.of = c /\ h.nth = ghost.want[c].nth)
      <4>1. CASE c = h.of
        BY <3>2, <3>3, <3>4, <4>1
      <4>2. CASE c # h.of
        BY <3>3, <3>4, <4>2
      <4>3. QED
        BY <4>1, <4>2
    <3>5. t <= t2
      BY <1>5, <2>0, <3>3
    <3>6. QED
      BY <1>5, <2>0, <2>2, <3>3, <3>4, <3>5
  <2>3. CASE h.k \notin {"state", "token"}
    <3>1. ghost' = ghost
      BY <1>3, <2>3 DEF Handles
    <3>2. QED
      BY <1>5, <2>0, <2>3, <3>1
  <2>4. QED
    BY <2>1, <2>2, <2>3
<1>7. disk.job.pub = 0 /\ disk.pc # "dead" /\ s \in Seq(Job) /\ s # <<>> /\ Head(s) = h
  BY <1>1, <1>2, <1>5 DEF FlushInv, TypeOK
<1>8. ASSUME NEW c \in Callers PROVE FlushOK(c)'
  <2>1. PICK td, ca, p, n : td = todo[c] /\ ca = carry[c] /\ p = ghost.want[c].pub /\ n = ghost.want[c].nth
    OBVIOUS
  <2>2. PICK kept, kept2 : kept = ghost.kept[c] /\ kept2 = ghost'.kept[c]
    OBVIOUS
  <2>3. /\ p \in Nat /\ n \in Nat /\ kept \in BOOLEAN /\ kept2 \in BOOLEAN
        /\ kept2 => kept \/ (h.k = "token" /\ h.of = c /\ h.nth = n)
    BY <1>6, <2>1, <2>2, ValuesTyped
  <2>4. FOK(c, td, ca, p, n, kept, t, 0, FALSE, s)
    <3>1. FOK(c, td, ca, p, n, kept, t, disk.job.pub, disk.pc = "dead", s)
      BY <1>5, <2>1, <2>2, FlushIs DEF FlushInv
    <3>2. (disk.pc = "dead") = FALSE
      BY <1>7
    <3>3. QED
      BY <1>7, <3>1, <3>2
  <2>5. FOK(c, td, ca, p, n, kept2, t2, 0, FALSE, Tail(s))
    <3>1. /\ FOK(c, td, ca, p, n, kept, t2, 0, FALSE, Tail(s))
          /\ h.k = "token" /\ h.of = c /\ h.nth = n => ~Tokened(td) /\ t2 >= p
      <4>1. t \in Nat /\ t2 \in Nat /\ t <= t2 /\ (Head(s).k = "state" => Head(s).snap.pub <= t2)
        BY <1>6, <1>7
      <4>2. /\ FOK(c, td, ca, p, n, kept, t2, 0, FALSE, Tail(s))
            /\ Head(s).k = "token" /\ Head(s).of = c /\ Head(s).nth = n => ~Tokened(td) /\ t2 >= p
        BY <1>7, <2>3, <2>4, <4>1, FokDrains
      <4>3. QED
        BY <1>7, <4>2
    <3>2. QED
      BY <2>3, <3>1 DEF FOK
  <2>6. /\ todo'[c] = td /\ carry'[c] = ca /\ ghost'.want[c].pub = p /\ ghost'.want[c].nth = n
        /\ ghost'.kept[c] = kept2 /\ ghost'.top = t2 /\ disk'.job.pub = 0 /\ (disk'.pc = "dead") = FALSE
        /\ q' = Tail(s)
    BY <1>1, <1>4, <1>5, <1>6, <1>7, <2>1, <2>2
  <2>7. QED
    BY <2>5, <2>6, FlushNext
<1>9. LatestKept'
  <2>1. Cov(pubs, Len(s), t, 0, FALSE, s) \/ slot.pub = pubs \/ \E d \in Callers : carry[d].pub = pubs
    <3>1. (disk.pc = "dead") = FALSE
      BY <1>7
    <3>2. QED
      BY <1>5, <1>7, <3>1, LatestIs DEF FlushInv
  <2>2. CASE Cov(pubs, Len(s), t, 0, FALSE, s)
    <3>1. Len(s) \in 0..Len(s) /\ Len(s) > 0 /\ Len(Tail(s)) = Len(s) - 1
      BY <1>7, TailIs
    <3>2. pubs \in Nat
      BY DEF TypeOK
    <3>3. Cov(pubs, Len(s) - 1, t2, 0, FALSE, Tail(s))
      BY <1>6, <1>7, <2>2, <3>1, <3>2, CovTail
    <3>4. Cov(pubs, Len(Tail(s)), t2, 0, FALSE, Tail(s))
      BY <3>1, <3>3, Zenon
    <3>5. ghost'.top = t2 /\ disk'.job.pub = 0 /\ (disk'.pc = "dead") = FALSE /\ q' = Tail(s)
      BY <1>1, <1>4, <1>5, <1>7
    <3>6. QED
      BY <1>1, <3>4, <3>5, LatestNext
  <2>3. CASE slot.pub = pubs
    BY <1>1, <2>3, LatestPublished
  <2>4. CASE \E d \in Callers : carry[d].pub = pubs
    BY <1>1, <2>4 DEF LatestKept
  <2>5. QED
    BY <2>1, <2>2, <2>3, <2>4
<1>10. (disk.pc # "write" => disk.job.pub = 0)'
  BY <1>4, <1>7
<1>11. QED
  BY <1>8, <1>9, <1>10 DEF FlushInv

LEMMA DiskFlush ==
  ASSUME TypeOK, FlushInv, Takes \/ Writes \/ Waits \/ Wakes \/ Second
  PROVE  FlushInv'
<1>0. disk \in Thread /\ ghost \in Ghosts /\ slot \in Snap
  BY DEF TypeOK
<1>1. CASE Waits \/ Wakes \/ Second
  <2>1. /\ todo' = todo /\ carry' = carry /\ slot' = slot /\ pubs' = pubs /\ q' = q /\ ghost' = ghost
    BY <1>1 DEF Waits, Wakes, Second, cache, obs, out
  <2>2. disk'.job = disk.job /\ (disk.pc = "dead" => disk'.pc = "dead")
        /\ (disk.pc = "write" => disk'.pc = disk.pc)
    BY <1>0, <1>1 DEF Waits, Wakes, Second, cache, obs, out, Thread
  <2>3. Rises
    BY <2>1, <2>2, ValuesTyped DEF Rises
  <2>4. LatestKept'
    BY <2>1, <2>3, LatestGrows DEF FlushInv
  <2>5. \A d \in Callers : Same(d) /\ Queues(d)
    BY <2>1, SameGhost DEF Queues
  <2>6. (disk.pc # "write" => disk.job.pub = 0)'
    BY <2>2 DEF FlushInv
  <2>7. QED
    BY <2>1, <2>3, <2>4, <2>5, <2>6, OthersStep
<1>2. CASE Takes
  <2>1. /\ todo' = todo /\ carry' = carry /\ pubs' = pubs /\ q' = q /\ ghost' = ghost
        /\ disk.pc = "drain"
        /\ disk'.job = slot /\ disk'.pc = "write"
    BY <1>0, <1>2 DEF Takes, cache, obs, out, Thread
  <2>2. disk.job.pub = 0 /\ disk'.job.pub \in Nat /\ slot.pub \in Nat
    <3>1. disk.job.pub = 0 /\ slot.pub \in Nat
      BY <1>0, <2>1 DEF FlushInv, Snap
    <3>2. QED
      BY <2>1, <3>1
  <2>3. Rises
    BY <2>1, <2>2, ValuesTyped DEF Rises
  <2>4. slot' = slot \/ slot.pub <= disk'.job.pub
    BY <2>1, <2>2
  <2>5. LatestKept'
    BY <2>1, <2>3, <2>4, LatestGrows DEF FlushInv
  <2>6. \A d \in Callers : Same(d) /\ Queues(d)
    BY <2>1, SameGhost DEF Queues
  <2>7. (disk.pc # "write" => disk.job.pub = 0)'
    BY <2>1, <2>2
  <2>8. QED
    BY <2>1, <2>3, <2>5, <2>6, <2>7, OthersStep
<1>3. CASE Writes
  <2>1. /\ todo' = todo /\ carry' = carry /\ pubs' = pubs /\ slot' = slot /\ q' = q
        /\ disk.pc = "write" /\ Written(disk.job) /\ disk'.job = None
    BY <1>3 DEF Writes, cache
  <2>2. /\ disk.job \in Snap /\ disk'.job.pub = 0
    BY <1>0, <2>1 DEF Thread, None
  <2>3. /\ ghost' \in Ghosts /\ ghost'.top >= ghost.top /\ ghost'.top >= disk.job.pub
        /\ ghost'.want = ghost.want /\ ghost'.kept = ghost.kept
    BY <1>0, <2>1, <2>2, WrittenTyped
  <2>4. ghost'.top \in Nat
    BY <2>3 DEF Ghosts
  <2>5. Rises
    BY <2>1, <2>2, <2>3, <2>4, ValuesTyped DEF Rises
  <2>6. LatestKept'
    BY <2>1, <2>5, LatestGrows DEF FlushInv
  <2>7. \A d \in Callers : Same(d) /\ Queues(d)
    BY <2>1, <2>3 DEF Same, Queues
  <2>8. (disk.pc # "write" => disk.job.pub = 0)'
    BY <2>2
  <2>9. QED
    BY <2>1, <2>5, <2>6, <2>7, <2>8, OthersStep
<1>4. QED
  BY <1>1, <1>2, <1>3

LEMMA BreaksFlush ==
  ASSUME TypeOK, FlushInv, Breaks
  PROVE  FlushInv'
<1>1. /\ todo' = todo /\ carry' = carry /\ pubs' = pubs /\ slot' = slot /\ ghost' = ghost
      /\ q' = q \/ (q # <<>> /\ q' = Tail(q))
      /\ disk'.job = None /\ disk'.pc = "dead"
  BY DEF Breaks, cache, obs, out
<1>2. disk'.job.pub = 0
  BY <1>1 DEF None
<1>3. ASSUME NEW c \in Callers PROVE FlushOK(c)'
  <2>1. PICK td, ca, p, n, kept : /\ td = todo[c] /\ ca = carry[c] /\ p = ghost.want[c].pub
                                  /\ n = ghost.want[c].nth /\ kept = ghost.kept[c]
    OBVIOUS
  <2>2. PICK t, j, s, s2 : t = ghost.top /\ j = disk.job.pub /\ s = q /\ s2 = q'
    OBVIOUS
  <2>3. PICK dead : dead = (disk.pc = "dead")
    OBVIOUS
  <2>4. /\ FlushOK(c) /\ s \in Seq(Job) /\ t \in Nat /\ j \in Nat /\ p \in Nat /\ n \in Nat
        /\ s2 = s \/ (s # <<>> /\ s2 = Tail(s))
    BY <1>1, <2>1, <2>2, ValuesTyped DEF FlushInv
  <2>5. FOK(c, td, ca, p, n, kept, t, j, dead, s)
    BY <2>1, <2>2, <2>3, <2>4, FlushIs
  <2>6. FOK(c, td, ca, p, n, kept, t, 0, TRUE, s2)
    BY <2>4, <2>5, FokBreaks
  <2>7. /\ todo'[c] = td /\ carry'[c] = ca /\ ghost'.want[c].pub = p /\ ghost'.want[c].nth = n
        /\ ghost'.kept[c] = kept /\ ghost'.top = t /\ disk'.job.pub = 0 /\ (disk'.pc = "dead") = TRUE /\ q' = s2
    BY <1>1, <1>2, <2>1, <2>2
  <2>8. QED
    BY <2>6, <2>7, FlushNext
<1>4. LatestKept'
  BY <1>1 DEF LatestKept, Covered
<1>5. (disk.pc # "write" => disk.job.pub = 0)'
  BY <1>2
<1>6. QED
  BY <1>3, <1>4, <1>5 DEF FlushInv

LEMMA CallerFlush ==
  ASSUME TypeOK, FlushInv, NEW c \in Callers, Caller(c)
  PROVE  FlushInv'
<1>1. CASE \E name \in DOMAIN left \ Events : Calls(c, name)
  <2>1. DOMAIN left \subseteq Names \cup Events
    BY DEF TypeOK
  <2>2. PICK name \in Names : Calls(c, name)
    BY <1>1, <2>1
  <2>3. QED
    BY <2>2, CallsFlush
<1>2. CASE Locks(c) \/ Connects(c) \/ Starts(c) \/ Halts(c) \/ Marks(c) \/ Clears(c) \/ Awaits(c) \/ Unlocks(c)
  BY <1>2, PlainFlush
<1>3. CASE Opens(c) \/ Shuts(c) \/ Logs(c)
  BY <1>3, QueuesFlush
<1>4. CASE Promotes(c)
  BY <1>4, PromotesFlush
<1>5. CASE Puts(c)
  BY <1>5, PutsFlush
<1>6. CASE Tokens(c)
  BY <1>6, TokensFlush
<1>7. QED
  BY <1>1, <1>2, <1>3, <1>4, <1>5, <1>6 DEF Caller

LEMMA FlushInit == Init => FlushInv
<1>1. SUFFICES ASSUME Init PROVE FlushInv
  OBVIOUS
<1>2. PICK e : e = <<>>
  OBVIOUS
<1>3. /\ disk = [pc |-> "drain", job |-> None, file |-> Closed] /\ pubs = 0 /\ slot = None /\ q = e
      /\ todo = [c \in Callers |-> e] /\ carry = [c \in Callers |-> None]
  BY <1>1, <1>2, Zenon DEF Init
<1>4. ghost.kept = [c \in Callers |-> FALSE]
  <2>1. ghost = [top |-> 0, opens |-> [s \in 0..MaxClock |-> 0], took |-> <<>>, last |-> Closed,
                 want |-> [c \in Callers |-> [nth |-> 0, pub |-> 0, path |-> Closed, lines |-> <<>>]],
                 kept |-> [c \in Callers |-> FALSE]]
    BY <1>1, Zenon DEF Init
  <2>2. QED
    BY <2>1
<1>5. Len(e) = 0 /\ e = <<>>
  BY <1>2
<1>6. disk.job.pub = 0 /\ slot.pub = pubs
  BY <1>3 DEF None
<1>7. ASSUME NEW c \in Callers PROVE FlushOK(c)
  <2>1. todo[c] = e /\ carry[c] = None /\ ~ghost.kept[c]
    BY <1>3, <1>4
  <2>2. QED
    BY <1>3, <1>5, <2>1 DEF FlushOK, FlushOrdered, At
<1>8. QED
  BY <1>6, <1>7 DEF FlushInv, LatestKept

LEMMA NextKeeps == IInv /\ [Next]_vars => IInv'
<1>1. SUFFICES ASSUME IInv, [Next]_vars PROVE IInv'
  OBVIOUS
<1>2. TypeOK /\ DumpInv /\ FlushInv
  BY <1>1 DEF IInv
<1>3. CASE UNCHANGED vars
  <2>1. TypeOK'
    BY <1>2, <1>3 DEF vars, cache, obs, out, TypeOK
  <2>2. DumpInv'
    <3>1. UNCHANGED <<reader, fr, q, dumps>>
      BY <1>3 DEF vars, cache, obs, out
    <3>2. QED
      BY <1>2, <3>1, DumpSame, SameFull, DumpsStay
  <2>3. FlushInv'
    <3>1. UNCHANGED <<q, todo, carry, disk, ghost, slot, pubs>>
      BY <1>3 DEF vars, cache, obs, out
    <3>2. ASSUME NEW c \in Callers, FlushOK(c) PROVE FlushOK(c)'
      BY <3>1, <3>2 DEF FlushOK, Covered, At, Flushing
    <3>3. LatestKept => LatestKept'
      BY <3>1 DEF LatestKept, Covered
    <3>4. QED
      BY <1>2, <3>1, <3>2, <3>3 DEF FlushInv
  <2>4. QED
    BY <2>1, <2>2, <2>3 DEF IInv
<1>4. CASE Next
  <2>1. TypeOK'
    BY <1>1, <1>4, TypeKeeps
  <2>2. CASE Second \/ Disk \/ Breaks
    BY <1>2, <2>1, <2>2, DiskKeepsDumps, DrainsFlush, DiskFlush, BreaksFlush DEF IInv, Disk
  <2>3. CASE \E o \in Observers : Observer(o)
    BY <1>2, <2>1, <2>3, ReaderKeepsDumps, ReaderFlush DEF IInv
  <2>4. CASE \E c \in Callers : Caller(c)
    BY <1>2, <2>1, <2>4, CallerKeepsDumps, CallerFlush DEF IInv
  <2>5. QED
    BY <1>4, <2>2, <2>3, <2>4 DEF Next
<1>5. QED
  BY <1>1, <1>3, <1>4

-----------------------------------------------------------------------------
(* The session keeps types; while the observers take turns, a capture of   *)
(* the fault recorder has one line for each observation since its trigger, *)
(* and is what its observer takes it to be at each of its steps (nothing   *)
(* is claimed of a capture during which two were inside observe at once);  *)
(* and what a flush owes is covered before its token is handled.           *)
THEOREM RecorderInvariant == Spec => []IInv
<1>1. Init => IInv
  BY TypedInit, DumpInit, FlushInit DEF IInv
<1>2. QED
  BY <1>1, NextKeeps, PTL DEF Spec

(* Every fault dump on disk during whose capture the observers took turns  *)
(* is the observations up to its trigger without a gap and exactly the     *)
(* next Post, whatever clear does between the steps of an observer and     *)
(* whichever thread made each observation.                                 *)
THEOREM DumpsAreWhole == Spec => []DumpsWhole
<1>1. IInv => DumpsWhole
  BY DEF IInv, DumpInv
<1>2. QED
  BY <1>1, RecorderInvariant, PTL

(* When the token of a flush is set, the snapshot that was the latest at   *)
(* its call has been on disk, or a later one, unless another flush held it.*)
THEOREM FlushesCover == Spec => []FlushCovers
<1>1. IInv => FlushCovers
  BY DEF IInv, FlushInv, FlushOK, FlushCovers
<1>2. QED
  BY <1>1, RecorderInvariant, PTL

-----------------------------------------------------------------------------
(* Recordings: what the queue owes to a file, for given values. *)

LEMMA GrownIs ==
  ASSUME NEW s \in Seq(Job), NEW x \in Job, NEW s2, s2 = Append(s, x)
  PROVE  /\ s2 \in Seq(Job) /\ Len(s) \in Nat /\ Len(s2) = Len(s) + 1 /\ s2[Len(s) + 1] = x
         /\ \A i \in 1..Len(s) : i \in 1..Len(s2) /\ s2[i] = s[i]
         /\ \A i \in 1..Len(s2) : i \in 1..Len(s) \/ i = Len(s) + 1
BY AppendIs

LEMMA ShrunkIs ==
  ASSUME NEW s \in Seq(Job), s # <<>>, NEW s2, s2 = Tail(s)
  PROVE  /\ s2 \in Seq(Job) /\ Len(s) \in Nat \ {0} /\ Len(s2) = Len(s) - 1 /\ 1 \in 1..Len(s)
         /\ \A i \in 1..Len(s2) : i + 1 \in 1..Len(s) /\ s2[i] = s[i + 1]
         /\ \A i \in 1..Len(s) : i = 1 \/ (i - 1 \in 1..Len(s2) /\ s2[i - 1] = s[i])
<1>1. /\ s2 \in Seq(Job) /\ Len(s) \in Nat \ {0} /\ Len(s2) = Len(s) - 1
      /\ \A i \in 1..Len(s2) : s2[i] = s[i + 1]
  BY TailIs
<1>2. ASSUME NEW i \in 1..Len(s), i # 1 PROVE i - 1 \in 1..Len(s2) /\ (i - 1) + 1 = i
  BY <1>1, <1>2
<1>3. QED
  BY <1>1, <1>2

\* Which file is open in front of a job depends on the jobs before it.
LEMMA InFrontSame ==
  ASSUME NEW s, NEW s2, NEW file, NEW p, NEW i \in Nat,
         \A j \in 1..(i - 1) : s2[j] = s[j], InFront(s, file, p, i)
  PROVE  InFront(s2, file, p, i)
<1>1. ASSUME NEW j \in 1..(i - 1), Switches(s2[j]), \A m \in (j + 1)..(i - 1) : ~Switches(s2[m])
      PROVE  Leaves(s2[j]) = p
  <2>1. \A m \in (j + 1)..(i - 1) : m \in 1..(i - 1)
    OBVIOUS
  <2>2. Switches(s[j]) /\ \A m \in (j + 1)..(i - 1) : ~Switches(s[m])
    BY <1>1, <2>1
  <2>3. QED
    BY <2>2 DEF InFront
<1>2. (\A j \in 1..(i - 1) : ~Switches(s2[j])) => file = p
  BY DEF InFront
<1>3. QED
  BY <1>1, <1>2 DEF InFront

LEMMA InFrontNext ==   \* behind the job it is in front of
  ASSUME NEW s, NEW file, NEW p, NEW i \in Nat \ {0}, InFront(s, file, p, i)
  PROVE  InFront(s, file, IF Switches(s[i]) THEN Leaves(s[i]) ELSE p, i + 1)
<1>1. PICK r : r = IF Switches(s[i]) THEN Leaves(s[i]) ELSE p
  OBVIOUS
<1>2. (i + 1) - 1 = i /\ i \in 1..i /\ \A j \in 1..(i - 1) : j \in 1..i
  OBVIOUS
<1>3. ASSUME \A j \in 1..i : ~Switches(s[j]) PROVE file = r
  <2>1. ~Switches(s[i]) /\ \A j \in 1..(i - 1) : ~Switches(s[j])
    BY <1>2, <1>3
  <2>2. QED
    BY <1>1, <2>1 DEF InFront
<1>4. ASSUME NEW j \in 1..i, Switches(s[j]), \A m \in (j + 1)..i : ~Switches(s[m]) PROVE Leaves(s[j]) = r
  <2>1. CASE j = i
    BY <1>1, <1>4, <2>1
  <2>2. CASE j # i
    <3>1. j \in 1..(i - 1) /\ i \in (j + 1)..i /\ \A m \in (j + 1)..(i - 1) : m \in (j + 1)..i
      BY <2>2
    <3>2. ~Switches(s[i]) /\ \A m \in (j + 1)..(i - 1) : ~Switches(s[m])
      BY <1>4, <3>1
    <3>3. QED
      BY <1>1, <1>4, <3>1, <3>2 DEF InFront
  <2>3. QED
    BY <2>1, <2>2
<1>5. InFront(s, file, r, i + 1)
  BY <1>2, <1>3, <1>4 DEF InFront
<1>6. QED
  BY <1>1, <1>5

LEMMA InFrontTail ==   \* the first job has been handled
  ASSUME NEW s, NEW s2, NEW file, NEW p, NEW i \in Nat \ {0},
         \A j \in 1..(i - 1) : s2[j] = s[j + 1], InFront(s, file, p, i + 1)
  PROVE  InFront(s2, IF Switches(s[1]) THEN Leaves(s[1]) ELSE file, p, i)
<1>1. PICK r : r = IF Switches(s[1]) THEN Leaves(s[1]) ELSE file
  OBVIOUS
<1>2. (i + 1) - 1 = i /\ 1 \in 1..i /\ \A j \in 1..i : j = 1 \/ (j - 1 \in 1..(i - 1) /\ (j - 1) + 1 = j)
  OBVIOUS
<1>3. ASSUME \A j \in 1..(i - 1) : ~Switches(s2[j]) PROVE r = p
  <2>1. \A j \in 2..i : ~Switches(s[j])
    <3>1. ASSUME NEW j \in 2..i PROVE j - 1 \in 1..(i - 1) /\ (j - 1) + 1 = j
      OBVIOUS
    <3>2. QED
      BY <1>3, <3>1
  <2>2. CASE Switches(s[1])
    BY <1>1, <1>2, <2>1, <2>2 DEF InFront
  <2>3. CASE ~Switches(s[1])
    <3>1. \A j \in 1..i : ~Switches(s[j])
      BY <2>1, <2>3
    <3>2. QED
      BY <1>1, <1>2, <2>3, <3>1 DEF InFront
  <2>4. QED
    BY <2>2, <2>3
<1>4. ASSUME NEW j \in 1..(i - 1), Switches(s2[j]), \A m \in (j + 1)..(i - 1) : ~Switches(s2[m])
      PROVE  Leaves(s2[j]) = p
  <2>1. j + 1 \in 1..i /\ s2[j] = s[j + 1]
    OBVIOUS
  <2>2. ASSUME NEW m \in ((j + 1) + 1)..i PROVE ~Switches(s[m])
    <3>1. m - 1 \in (j + 1)..(i - 1) /\ m - 1 \in 1..(i - 1) /\ (m - 1) + 1 = m
      OBVIOUS
    <3>2. QED
      BY <1>4, <3>1
  <2>3. QED
    BY <1>2, <1>4, <2>1, <2>2 DEF InFront
<1>5. QED
  BY <1>1, <1>3, <1>4 DEF InFront

LEMMA PlacedGrows ==
  ASSUME NEW s \in Seq(Job), NEW x \in Job, NEW file, NEW last, Placed(s, file, last),
         x.k = "line" => x.of = last
  PROVE  Placed(Append(s, x), file, IF Switches(x) THEN Leaves(x) ELSE last)
<1>1. PICK s2 : s2 = Append(s, x)
  OBVIOUS
<1>2. /\ s2 \in Seq(Job) /\ Len(s) \in Nat /\ Len(s2) = Len(s) + 1 /\ s2[Len(s) + 1] = x
      /\ \A i \in 1..Len(s) : i \in 1..Len(s2) /\ s2[i] = s[i]
      /\ \A i \in 1..Len(s2) : i \in 1..Len(s) \/ i = Len(s) + 1
  BY <1>1, GrownIs
<1>3. ASSUME NEW i \in 1..(Len(s) + 1), NEW p, InFront(s, file, p, i) PROVE InFront(s2, file, p, i)
  <2>1. i \in Nat /\ \A j \in 1..(i - 1) : s2[j] = s[j]
    BY <1>2
  <2>2. QED
    BY <1>3, <2>1, InFrontSame
<1>4. InFront(s2, file, last, Len(s) + 1)
  <2>1. Len(s) + 1 \in 1..(Len(s) + 1)
    BY <1>2
  <2>2. QED
    BY <1>3, <2>1 DEF Placed
<1>5. InFront(s2, file, IF Switches(x) THEN Leaves(x) ELSE last, (Len(s) + 1) + 1)
  <2>1. Len(s) + 1 \in Nat \ {0}
    BY <1>2
  <2>2. QED
    BY <1>2, <1>4, <2>1, InFrontNext
<1>6. ASSUME NEW i \in 1..Len(s2), s2[i].k = "line" PROVE InFront(s2, file, s2[i].of, i)
  <2>1. CASE i \in 1..Len(s)
    <3>1. InFront(s, file, s[i].of, i) /\ s2[i] = s[i] /\ i \in 1..(Len(s) + 1)
      BY <1>2, <1>6, <2>1 DEF Placed
    <3>2. QED
      BY <1>3, <3>1
  <2>2. CASE i = Len(s) + 1
    BY <1>2, <1>4, <1>6, <2>2
  <2>3. QED
    BY <1>2, <2>1, <2>2
<1>7. QED
  BY <1>1, <1>2, <1>5, <1>6 DEF Placed

LEMMA PlacedTail ==
  ASSUME NEW s \in Seq(Job), s # <<>>, NEW file, NEW last, Placed(s, file, last)
  PROVE  /\ Placed(Tail(s), IF Switches(s[1]) THEN Leaves(s[1]) ELSE file, last)
         /\ s[1].k = "line" => s[1].of = file
<1>1. PICK s2 : s2 = Tail(s)
  OBVIOUS
<1>2. /\ s2 \in Seq(Job) /\ Len(s) \in Nat \ {0} /\ Len(s2) = Len(s) - 1 /\ 1 \in 1..Len(s)
      /\ \A i \in 1..Len(s2) : i + 1 \in 1..Len(s) /\ s2[i] = s[i + 1]
  BY <1>1, ShrunkIs
<1>3. PICK r : r = IF Switches(s[1]) THEN Leaves(s[1]) ELSE file
  OBVIOUS
<1>4. ASSUME NEW i \in 1..Len(s), NEW p, InFront(s, file, p, i + 1) PROVE InFront(s2, r, p, i)
  <2>1. i \in Nat \ {0} /\ \A j \in 1..(i - 1) : s2[j] = s[j + 1]
    BY <1>2
  <2>2. QED
    BY <1>3, <1>4, <2>1, InFrontTail
<1>5. InFront(s2, r, last, Len(s2) + 1)
  <2>1. Len(s) \in 1..Len(s) /\ Len(s2) + 1 = Len(s)
    BY <1>2
  <2>2. QED
    BY <1>4, <2>1 DEF Placed
<1>6. ASSUME NEW i \in 1..Len(s2), s2[i].k = "line" PROVE InFront(s2, r, s2[i].of, i)
  <2>1. i \in 1..Len(s) /\ s2[i] = s[i + 1] /\ InFront(s, file, s[i + 1].of, i + 1)
    BY <1>2, <1>6 DEF Placed
  <2>2. QED
    BY <1>4, <2>1
<1>7. ASSUME s[1].k = "line" PROVE s[1].of = file
  <2>1. InFront(s, file, s[1].of, 1)
    BY <1>2, <1>7 DEF Placed
  <2>2. QED
    BY <2>1 DEF InFront
<1>8. QED
  BY <1>1, <1>3, <1>5, <1>6, <1>7 DEF Placed

LEMMA OwesGrows ==   \* by a job that is no line of it
  ASSUME NEW s \in Seq(Job), NEW x \in Job, NEW f, NEW p, NEW lines, Owes(s, f, p, lines), ~IsLine(x, p)
  PROVE  Owes(Append(s, x), f, p, lines)
<1>1. PICK s2 : s2 = Append(s, x)
  OBVIOUS
<1>2. /\ s2 \in Seq(Job) /\ Len(s) \in Nat /\ Len(s2) = Len(s) + 1 /\ s2[Len(s) + 1] = x
      /\ \A i \in 1..Len(s) : i \in 1..Len(s2) /\ s2[i] = s[i]
      /\ \A i \in 1..Len(s2) : i \in 1..Len(s) \/ i = Len(s) + 1
  BY <1>1, GrownIs
<1>3. \A i \in 1..Len(s2) : IsLine(s2[i], p) => i \in 1..Len(s) /\ s2[i] = s[i]
  BY <1>2
<1>4. /\ Len(f) <= Len(lines) /\ \A k \in 1..Len(f) : f[k] = lines[k]
      /\ \A i \in 1..Len(s2) : IsLine(s2[i], p) => s2[i].nth > Len(f) /\ s2[i].nth <= Len(lines)
                                                   /\ s2[i].n = lines[s2[i].nth]
  BY <1>3 DEF Owes
<1>5. \A i, j \in 1..Len(s2) : i < j /\ IsLine(s2[i], p) /\ IsLine(s2[j], p) => s2[i].nth < s2[j].nth
  BY <1>3 DEF Owes
<1>6. \A k \in 1..Len(lines) : k > Len(f) => \E i \in 1..Len(s2) : IsLine(s2[i], p) /\ s2[i].nth = k
  BY <1>2 DEF Owes
<1>7. QED
  BY <1>1, <1>4, <1>5, <1>6 DEF Owes

LEMMA OwesLine ==   \* by its next line
  ASSUME NEW s \in Seq(Job), NEW x \in Job, NEW f \in Seq(Nat), NEW p, NEW lines \in Seq(Nat),
         Owes(s, f, p, lines), IsLine(x, p), x.nth = Len(lines) + 1, x.n \in Nat
  PROVE  Owes(Append(s, x), f, p, Append(lines, x.n))
<1>1. PICK s2 : s2 = Append(s, x)
  OBVIOUS
<1>2. /\ s2 \in Seq(Job) /\ Len(s) \in Nat /\ Len(s2) = Len(s) + 1 /\ s2[Len(s) + 1] = x
      /\ \A i \in 1..Len(s) : i \in 1..Len(s2) /\ s2[i] = s[i]
      /\ \A i \in 1..Len(s2) : i \in 1..Len(s) \/ i = Len(s) + 1
  BY <1>1, GrownIs
<1>3. PICK l2 : l2 = Append(lines, x.n)
  OBVIOUS
<1>4. /\ l2 \in Seq(Nat) /\ Len(lines) \in Nat /\ Len(l2) = Len(lines) + 1 /\ l2[Len(lines) + 1] = x.n
      /\ \A k \in 1..Len(lines) : l2[k] = lines[k]
      /\ Len(f) \in Nat /\ Len(f) <= Len(lines)
  BY <1>3, AppendIs DEF Owes
<1>5. /\ Len(f) <= Len(l2) /\ \A k \in 1..Len(f) : f[k] = l2[k]
  <2>1. \A k \in 1..Len(f) : k \in 1..Len(lines) /\ f[k] = lines[k]
    BY <1>4 DEF Owes
  <2>2. QED
    BY <1>4, <2>1
<1>6. ASSUME NEW i \in 1..Len(s2), IsLine(s2[i], p)
      PROVE  s2[i].nth > Len(f) /\ s2[i].nth <= Len(l2) /\ s2[i].n = l2[s2[i].nth]
  <2>1. CASE i \in 1..Len(s)
    <3>1. s2[i] = s[i] /\ s[i] \in Job
      BY <1>2, <2>1
    <3>2. s[i].nth \in Nat
      BY <1>6, <3>1, JobIs DEF IsLine
    <3>3. s[i].nth > Len(f) /\ s[i].nth <= Len(lines) /\ s[i].n = lines[s[i].nth]
      BY <1>6, <2>1, <3>1 DEF Owes
    <3>4. s[i].nth \in 1..Len(lines)
      BY <1>4, <3>2, <3>3
    <3>5. l2[s[i].nth] = lines[s[i].nth]
      BY <1>4, <3>4
    <3>6. s[i].nth <= Len(l2)
      BY <1>4, <3>2, <3>3
    <3>7. QED
      BY <3>1, <3>3, <3>5, <3>6
  <2>2. CASE i = Len(s) + 1
    BY <1>2, <1>4, <2>2
  <2>3. QED
    BY <1>2, <2>1, <2>2
<1>7. ASSUME NEW i \in 1..Len(s2), NEW j \in 1..Len(s2), i < j, IsLine(s2[i], p), IsLine(s2[j], p)
      PROVE  s2[i].nth < s2[j].nth
  <2>1. i \in 1..Len(s) /\ s2[i] = s[i] /\ s[i] \in Job
    BY <1>2, <1>7
  <2>2. CASE j \in 1..Len(s)
    BY <1>2, <1>7, <2>1, <2>2 DEF Owes
  <2>3. CASE j = Len(s) + 1
    <3>1. s[i].nth \in Nat
      BY <1>7, <2>1, JobIs DEF IsLine
    <3>2. s[i].nth <= Len(lines)
      BY <1>7, <2>1 DEF Owes
    <3>3. QED
      BY <1>2, <1>4, <2>1, <2>3, <3>1, <3>2
  <2>4. QED
    BY <1>2, <2>2, <2>3
<1>8. ASSUME NEW k \in 1..Len(l2), k > Len(f) PROVE \E i \in 1..Len(s2) : IsLine(s2[i], p) /\ s2[i].nth = k
  <2>1. CASE k \in 1..Len(lines)
    <3>1. PICK i \in 1..Len(s) : IsLine(s[i], p) /\ s[i].nth = k
      BY <1>8, <2>1 DEF Owes
    <3>2. QED
      BY <1>2, <3>1
  <2>2. CASE k = Len(lines) + 1
    <3>1. Len(s) + 1 \in 1..Len(s2)
      BY <1>2
    <3>2. s2[Len(s) + 1] = x
      BY <1>2
    <3>3. IsLine(s2[Len(s) + 1], p) /\ s2[Len(s) + 1].nth = k
      BY <2>2, <3>2
    <3>4. QED
      BY <3>1, <3>3
  <2>3. QED
    BY <1>4, <2>1, <2>2
<1>9. QED
  BY <1>1, <1>3, <1>5, <1>6, <1>7, <1>8 DEF Owes

LEMMA OwesTail ==   \* the first job was no line of it
  ASSUME NEW s \in Seq(Job), s # <<>>, NEW f, NEW p, NEW lines, Owes(s, f, p, lines), ~IsLine(s[1], p)
  PROVE  Owes(Tail(s), f, p, lines)
<1>1. PICK s2 : s2 = Tail(s)
  OBVIOUS
<1>2. /\ s2 \in Seq(Job) /\ Len(s) \in Nat \ {0} /\ Len(s2) = Len(s) - 1 /\ 1 \in 1..Len(s)
      /\ \A i \in 1..Len(s2) : i + 1 \in 1..Len(s) /\ s2[i] = s[i + 1]
      /\ \A i \in 1..Len(s) : i = 1 \/ (i - 1 \in 1..Len(s2) /\ s2[i - 1] = s[i])
  BY <1>1, ShrunkIs
<1>3. /\ Len(f) <= Len(lines) /\ \A k \in 1..Len(f) : f[k] = lines[k]
      /\ \A i \in 1..Len(s2) : IsLine(s2[i], p) => s2[i].nth > Len(f) /\ s2[i].nth <= Len(lines)
                                                   /\ s2[i].n = lines[s2[i].nth]
  BY <1>2 DEF Owes
<1>4. ASSUME NEW i \in 1..Len(s2), NEW j \in 1..Len(s2), i < j, IsLine(s2[i], p), IsLine(s2[j], p)
      PROVE  s2[i].nth < s2[j].nth
  <2>1. i + 1 \in 1..Len(s) /\ j + 1 \in 1..Len(s) /\ i + 1 < j + 1
    BY <1>2, <1>4
  <2>2. QED
    BY <1>2, <1>4, <2>1 DEF Owes
<1>5. ASSUME NEW k \in 1..Len(lines), k > Len(f) PROVE \E i \in 1..Len(s2) : IsLine(s2[i], p) /\ s2[i].nth = k
  <2>1. PICK i \in 1..Len(s) : IsLine(s[i], p) /\ s[i].nth = k
    BY <1>5 DEF Owes
  <2>2. QED
    BY <1>2, <2>1
<1>6. QED
  BY <1>1, <1>3, <1>4, <1>5 DEF Owes

LEMMA OwesTaken ==   \* the first job was its line, now in the file
  ASSUME NEW s \in Seq(Job), s # <<>>, NEW f \in Seq(Nat), NEW p, NEW lines \in Seq(Nat),
         Owes(s, f, p, lines), IsLine(s[1], p)
  PROVE  Owes(Tail(s), Append(f, s[1].n), p, lines)
<1>1. PICK s2 : s2 = Tail(s)
  OBVIOUS
<1>2. /\ s2 \in Seq(Job) /\ Len(s) \in Nat \ {0} /\ Len(s2) = Len(s) - 1 /\ 1 \in 1..Len(s)
      /\ \A i \in 1..Len(s2) : i + 1 \in 1..Len(s) /\ s2[i] = s[i + 1]
      /\ \A i \in 1..Len(s) : i = 1 \/ (i - 1 \in 1..Len(s2) /\ s2[i - 1] = s[i])
  BY <1>1, ShrunkIs
<1>3. s[1].n \in Nat /\ s[1].nth \in Nat /\ Len(f) \in Nat /\ Len(lines) \in Nat
  BY <1>2, JobIs DEF IsLine
<1>4. PICK f2 : f2 = Append(f, s[1].n)
  OBVIOUS
<1>5. Len(f2) = Len(f) + 1 /\ f2[Len(f) + 1] = s[1].n /\ \A k \in 1..Len(f) : f2[k] = f[k]
  BY <1>3, <1>4, AppendIs
<1>6. s[1].nth > Len(f) /\ s[1].nth <= Len(lines) /\ s[1].n = lines[s[1].nth]
  BY <1>2 DEF Owes
<1>7. ASSUME NEW i \in 1..Len(s), i # 1, IsLine(s[i], p) PROVE s[i].nth \in Nat /\ s[i].nth > s[1].nth
  <2>1. s[i].nth \in Nat /\ 1 < i
    BY <1>2, <1>7, JobIs DEF IsLine
  <2>2. s[1].nth < s[i].nth
    BY <1>2, <1>7, <2>1 DEF Owes
  <2>3. QED
    BY <1>3, <2>1, <2>2
<1>8. s[1].nth = Len(f) + 1
  <2>1. SUFFICES ASSUME s[1].nth # Len(f) + 1 PROVE FALSE
    OBVIOUS
  <2>2. /\ Len(f) \in Nat /\ Len(lines) \in Nat /\ s[1].nth \in Nat
        /\ Len(f) < s[1].nth /\ s[1].nth <= Len(lines)
    BY <1>3, <1>6
  <2>3. PICK k : k = Len(f) + 1
    OBVIOUS
  <2>4. k \in 1..Len(lines) /\ k > Len(f) /\ k < s[1].nth
    BY <2>1, <2>2, <2>3
  <2>5. PICK i \in 1..Len(s) : IsLine(s[i], p) /\ s[i].nth = k
    BY <2>4 DEF Owes
  <2>6. i # 1
    BY <2>2, <2>4, <2>5
  <2>7. s[i].nth > s[1].nth
    BY <1>7, <2>5, <2>6
  <2>8. QED
    BY <2>2, <2>4, <2>5, <2>7
<1>9. Len(f2) <= Len(lines) /\ \A k \in 1..Len(f2) : f2[k] = lines[k]
  <2>1. Len(f2) <= Len(lines)
    BY <1>3, <1>5, <1>6, <1>8
  <2>2. ASSUME NEW k \in 1..Len(f2) PROVE f2[k] = lines[k]
    <3>1. CASE k \in 1..Len(f)
      BY <1>5, <3>1 DEF Owes
    <3>2. CASE k = Len(f) + 1
      BY <1>5, <1>6, <1>8, <3>2
    <3>3. QED
      BY <1>3, <1>5, <3>1, <3>2
  <2>3. QED
    BY <2>1, <2>2
<1>10. ASSUME NEW i \in 1..Len(s2), IsLine(s2[i], p)
       PROVE  s2[i].nth > Len(f2) /\ s2[i].nth <= Len(lines) /\ s2[i].n = lines[s2[i].nth]
  <2>1. i + 1 \in 1..Len(s) /\ s2[i] = s[i + 1] /\ i + 1 # 1
    BY <1>2
  <2>2. s[i + 1].nth \in Nat /\ s[i + 1].nth > s[1].nth
    BY <1>7, <1>10, <2>1
  <2>3. s[i + 1].nth <= Len(lines) /\ s[i + 1].n = lines[s[i + 1].nth]
    BY <1>10, <2>1 DEF Owes
  <2>4. QED
    BY <1>3, <1>5, <1>8, <2>1, <2>2, <2>3
<1>11. ASSUME NEW i \in 1..Len(s2), NEW j \in 1..Len(s2), i < j, IsLine(s2[i], p), IsLine(s2[j], p)
       PROVE  s2[i].nth < s2[j].nth
  <2>1. i + 1 \in 1..Len(s) /\ j + 1 \in 1..Len(s) /\ i + 1 < j + 1
    BY <1>2, <1>11
  <2>2. QED
    BY <1>2, <1>11, <2>1 DEF Owes
<1>12. ASSUME NEW k \in 1..Len(lines), k > Len(f2)
       PROVE  \E i \in 1..Len(s2) : IsLine(s2[i], p) /\ s2[i].nth = k
  <2>1. k > Len(f) /\ k # s[1].nth
    BY <1>3, <1>5, <1>8, <1>12
  <2>2. PICK i \in 1..Len(s) : IsLine(s[i], p) /\ s[i].nth = k
    BY <2>1 DEF Owes
  <2>3. i # 1
    BY <2>1, <2>2
  <2>4. QED
    BY <1>2, <2>2, <2>3
<1>13. QED
  BY <1>1, <1>4, <1>9, <1>10, <1>11, <1>12 DEF Owes

LEMMA OwesNothing ==   \* all lines are in the file
  ASSUME NEW s \in Seq(Job), NEW f \in Seq(Nat), NEW p, NEW lines \in Seq(Nat), Owes(s, f, p, lines),
         \A i \in 1..Len(s) : ~IsLine(s[i], p)
  PROVE  f = lines
<1>1. Len(f) \in Nat /\ Len(lines) \in Nat /\ Len(f) <= Len(lines)
  BY DEF Owes
<1>2. Len(f) = Len(lines)
  <2>1. SUFFICES ASSUME Len(f) < Len(lines) PROVE FALSE
    BY <1>1
  <2>2. Len(f) + 1 \in 1..Len(lines) /\ Len(f) + 1 > Len(f)
    BY <1>1, <2>1
  <2>3. QED
    BY <2>2 DEF Owes
<1>3. \A k \in 1..Len(f) : f[k] = lines[k]
  BY DEF Owes
<1>4. QED
  BY <1>2, <1>3, SeqEqual

LEMMA OwesNew ==   \* a file opened for the first time
  ASSUME NEW s \in Seq(Job), NEW f, f = <<>>, NEW p, NEW lines, lines = <<>>,
         \A i \in 1..Len(s) : ~IsLine(s[i], p)
  PROVE  Owes(s, f, p, lines)
<1>1. Len(f) = 0 /\ Len(lines) = 0
  OBVIOUS
<1>2. QED
  BY <1>1 DEF Owes

LEMMA OpensGrows ==
  ASSUME NEW s \in Seq(Job), NEW x \in Job, NEW f, NEW file, NEW p,
         \/ OpensOnce(s, f, file, p) /\ ~IsOpen(x, p)
         \/ Without(s, p) /\ f = <<>> /\ file # p
  PROVE  OpensOnce(Append(s, x), f, file, p)
<1>1. PICK s2 : s2 = Append(s, x)
  OBVIOUS
<1>2. /\ s2 \in Seq(Job) /\ Len(s) \in Nat /\ Len(s2) = Len(s) + 1 /\ s2[Len(s) + 1] = x
      /\ \A i \in 1..Len(s) : i \in 1..Len(s2) /\ s2[i] = s[i]
      /\ \A i \in 1..Len(s2) : i \in 1..Len(s) \/ i = Len(s) + 1
  BY <1>1, GrownIs
<1>3. CASE OpensOnce(s, f, file, p) /\ ~IsOpen(x, p)
  <2>1. \A i \in 1..Len(s2) : IsOpen(s2[i], p) => i \in 1..Len(s) /\ s2[i] = s[i]
    BY <1>2, <1>3
  <2>2. QED
    BY <1>1, <1>3, <2>1 DEF OpensOnce
<1>4. CASE Without(s, p) /\ f = <<>> /\ file # p
  <2>1. \A i \in 1..Len(s2) : IsOpen(s2[i], p) => i = Len(s) + 1
    BY <1>2, <1>4 DEF Without
  <2>2. QED
    BY <1>1, <1>4, <2>1 DEF OpensOnce
<1>5. QED
  BY <1>3, <1>4

LEMMA OpensTail ==
  ASSUME NEW s \in Seq(Job), s # <<>>, NEW f, NEW file, NEW p, NEW f2, NEW file2, OpensOnce(s, f, file, p),
         ~IsOpen(s[1], p) /\ file # p => f2 = f /\ file2 # p
  PROVE  OpensOnce(Tail(s), f2, file2, p)
<1>1. PICK s2 : s2 = Tail(s)
  OBVIOUS
<1>2. /\ s2 \in Seq(Job) /\ Len(s) \in Nat \ {0} /\ Len(s2) = Len(s) - 1 /\ 1 \in 1..Len(s)
      /\ \A i \in 1..Len(s2) : i + 1 \in 1..Len(s) /\ s2[i] = s[i + 1]
  BY <1>1, ShrunkIs
<1>3. ASSUME NEW i \in 1..Len(s2), IsOpen(s2[i], p)
      PROVE  f2 = <<>> /\ file2 # p /\ \A j \in 1..Len(s2) : IsOpen(s2[j], p) => i = j
  <2>1. /\ f = <<>> /\ file # p /\ i + 1 \in 1..Len(s) /\ i + 1 # 1
        /\ \A j \in 1..Len(s) : IsOpen(s[j], p) => i + 1 = j
    BY <1>2, <1>3 DEF OpensOnce
  <2>2. ~IsOpen(s[1], p)
    BY <1>2, <2>1
  <2>3. ASSUME NEW j \in 1..Len(s2), IsOpen(s2[j], p) PROVE i = j
    <3>1. i + 1 = j + 1
      BY <1>2, <2>1, <2>3
    <3>2. QED
      BY <3>1
  <2>4. QED
    BY <2>1, <2>2, <2>3
<1>4. QED
  BY <1>1, <1>3 DEF OpensOnce

LEMMA WithoutMoves ==
  ASSUME NEW s \in Seq(Job), NEW p, Without(s, p)
  PROVE  /\ \A x \in Job : ~IsLine(x, p) /\ ~IsOpen(x, p) => Without(Append(s, x), p)
         /\ s # <<>> => Without(Tail(s), p) /\ ~IsLine(s[1], p) /\ ~IsOpen(s[1], p)
<1>1. ASSUME NEW x \in Job, ~IsLine(x, p), ~IsOpen(x, p) PROVE Without(Append(s, x), p)
  <2>1. PICK s2 : s2 = Append(s, x)
    OBVIOUS
  <2>2. \A i \in 1..Len(s2) : (i \in 1..Len(s) /\ s2[i] = s[i]) \/ s2[i] = x
    BY <2>1, GrownIs
  <2>3. QED
    BY <1>1, <2>1, <2>2 DEF Without
<1>2. ASSUME s # <<>> PROVE Without(Tail(s), p) /\ ~IsLine(s[1], p) /\ ~IsOpen(s[1], p)
  <2>1. PICK s2 : s2 = Tail(s)
    OBVIOUS
  <2>2. 1 \in 1..Len(s) /\ \A i \in 1..Len(s2) : i + 1 \in 1..Len(s) /\ s2[i] = s[i + 1]
    BY <1>2, <2>1, ShrunkIs
  <2>3. QED
    BY <2>1, <2>2 DEF Without
<1>3. QED
  BY <1>1, <1>2

LEMMA BehindMoves ==
  ASSUME NEW s \in Seq(Job), NEW p, NEW c, NEW n, Behind(s, p, c, n)
  PROVE  /\ \A x \in Job : ~IsLine(x, p) => Behind(Append(s, x), p, c, n)
         /\ s # <<>> => Behind(Tail(s), p, c, n)
<1>1. ASSUME NEW x \in Job, ~IsLine(x, p) PROVE Behind(Append(s, x), p, c, n)
  <2>1. PICK s2 : s2 = Append(s, x)
    OBVIOUS
  <2>2. /\ Len(s) \in Nat /\ Len(s2) = Len(s) + 1 /\ s2[Len(s) + 1] = x
        /\ \A i \in 1..Len(s) : s2[i] = s[i]
        /\ \A i \in 1..Len(s2) : i \in 1..Len(s) \/ i = Len(s) + 1
    BY <2>1, GrownIs
  <2>3. ASSUME NEW i \in 1..Len(s2), NEW j \in 1..Len(s2), i < j, IsToken(s2[i], c, n) PROVE ~IsLine(s2[j], p)
    <3>1. CASE j \in 1..Len(s)
      <4>1. i \in 1..Len(s)
        BY <2>2, <2>3, <3>1
      <4>2. QED
        BY <2>2, <2>3, <3>1, <4>1 DEF Behind
    <3>2. CASE j = Len(s) + 1
      BY <1>1, <2>2, <3>2
    <3>3. QED
      BY <2>2, <3>1, <3>2
  <2>4. QED
    BY <2>1, <2>3 DEF Behind
<1>2. ASSUME s # <<>> PROVE Behind(Tail(s), p, c, n)
  <2>1. PICK s2 : s2 = Tail(s)
    OBVIOUS
  <2>2. Len(s2) \in Nat /\ \A i \in 1..Len(s2) : i + 1 \in 1..Len(s) /\ s2[i] = s[i + 1]
    BY <1>2, <2>1, ShrunkIs
  <2>3. ASSUME NEW i \in 1..Len(s2), NEW j \in 1..Len(s2), i < j, IsToken(s2[i], c, n) PROVE ~IsLine(s2[j], p)
    <3>1. i + 1 < j + 1 /\ i + 1 \in 1..Len(s) /\ j + 1 \in 1..Len(s)
      BY <2>2, <2>3
    <3>2. QED
      BY <2>2, <2>3, <3>1 DEF Behind
  <2>4. QED
    BY <2>1, <2>3 DEF Behind
<1>3. QED
  BY <1>1, <1>2

\* The scripts: what follows the closing of the file stays behind it.
LEMMA ClosesTail ==
  ASSUME NEW td \in Seq(Steps), td # <<>>, ClosesFirst(td)
  PROVE  /\ ClosesFirst(Tail(td))
         /\ \A x : (\E i \in 1..Len(Tail(td)) : Tail(td)[i] = x) => \E i \in 1..Len(td) : td[i] = x
         /\ (\E i \in 1..Len(Tail(td)) : Tail(td)[i] = "shut") => Head(td) # "token"
<1>1. PICK r : r = Tail(td)
  OBVIOUS
<1>2. /\ Len(td) \in Nat \ {0} /\ Head(td) = td[1] /\ Len(r) = Len(td) - 1 /\ 1 \in 1..Len(td)
      /\ \A i \in 1..Len(r) : r[i] = td[i + 1]
  BY <1>1, TailIs
<1>3. \A i \in 1..Len(r) : i + 1 \in 1..Len(td) /\ i + 1 > 1
  BY <1>2
<1>4. ClosesFirst(r)
  <2>1. ASSUME NEW i \in 1..Len(r), NEW j \in 1..Len(r), r[i] = "shut", r[j] = "token" PROVE i < j
    <3>1. i + 1 < j + 1
      BY <1>2, <1>3, <2>1 DEF ClosesFirst
    <3>2. QED
      BY <3>1
  <2>2. QED
    BY <2>1 DEF ClosesFirst
<1>5. ASSUME NEW i \in 1..Len(r), r[i] = "shut", td[1] = "token" PROVE FALSE
  <2>1. i + 1 < 1
    BY <1>2, <1>3, <1>5 DEF ClosesFirst
  <2>2. QED
    BY <1>3, <2>1
<1>6. QED
  BY <1>1, <1>2, <1>3, <1>4, <1>5

-----------------------------------------------------------------------------
(* Recordings: the steps. *)

LEMMA RecordTyped ==
  ASSUME TypeOK
  PROVE  /\ q \in Seq(Job) /\ ghost.took \in Seq(Nat) /\ ghost.last \in Seconds \cup {Closed}
         /\ disk.file \in Seconds \cup {Closed} /\ Closed \notin Seconds
         /\ \A p \in Seconds : files[p] \in Seq(Nat) /\ ghost.opens[p] \in Nat
         /\ \A c \in Callers : /\ ghost.want[c].path \in Seconds \cup {Closed}
                               /\ ghost.want[c].lines \in Seq(Nat) /\ ghost.want[c].nth \in Nat
                               /\ ghost.kept[c] \in BOOLEAN /\ todo[c] \in Seq(Steps)
<1>1. Closed \notin Seconds
  BY TelemetryAssumption DEF Closed, Seconds
<1>2. /\ q \in Seq(Job) /\ ghost.took \in Seq(Nat) /\ ghost.last \in Seconds \cup {Closed}
      /\ disk.file \in Seconds \cup {Closed}
      /\ \A p \in Seconds : files[p] \in Seq(Nat) /\ ghost.opens[p] \in Nat
  BY DEF TypeOK, Ghosts, Thread
<1>3. ASSUME NEW c \in Callers
      PROVE  /\ ghost.want[c].path \in Seconds \cup {Closed}
             /\ ghost.want[c].lines \in Seq(Nat) /\ ghost.want[c].nth \in Nat
             /\ ghost.kept[c] \in BOOLEAN /\ todo[c] \in Seq(Steps)
  <2>1. ghost.want[c] \in Want
    BY WantTyped DEF TypeOK
  <2>2. ghost.kept[c] \in BOOLEAN /\ todo[c] \in Seq(Steps)
    BY DEF TypeOK, Ghosts
  <2>3. QED
    BY <2>1, <2>2 DEF Want
<1>4. QED
  BY <1>1, <1>2, <1>3

\* What c is to find in the file it has closed.
SameAsk(c) == /\ ghost'.want[c].path = ghost.want[c].path /\ ghost'.want[c].lines = ghost.want[c].lines
              /\ ghost'.want[c].nth = ghost.want[c].nth

\* A job is queued that is no line of the file, or the thread is over.
LEMMA StoppedGrows ==
  ASSUME TypeOK, NEW c \in Callers, StoppedOK(c), SameAsk(c), ghost'.kept[c] => ghost.kept[c],
         files' = files, Handling' => Handling,
         LET p == ghost.want[c].path
         IN /\ p # Closed /\ ghost'.opens[p] = 1 => ghost.opens[p] = 1 /\ ghost'.last # p
            /\ \/ q' = q
               \/ \E x \in Job : q' = Append(q, x) /\ (Once(p) => ~IsLine(x, p))
               \/ q # <<>> /\ q' = Tail(q) /\ ~Handling'
  PROVE  StoppedOK(c)'
<1>1. PICK p, lines, n : p = ghost.want[c].path /\ lines = ghost.want[c].lines /\ n = ghost.want[c].nth
  OBVIOUS
<1>2. ghost'.want[c].path = p /\ ghost'.want[c].lines = lines /\ ghost'.want[c].nth = n
  BY <1>1 DEF SameAsk
<1>3. SUFFICES ASSUME p # Closed, ghost'.opens[p] = 1
               PROVE  /\ ghost'.last # p /\ Behind(q', p, c, n)
                      /\ Handling' => Owes(q', files'[p], p, lines)
                      /\ ghost'.kept[c] => files'[p] = lines
  BY <1>2 DEF StoppedOK, Once
<1>4. Once(p) /\ ghost'.last # p
  BY <1>1, <1>3 DEF Once
<1>5. Behind(q, p, c, n) /\ (Handling => Owes(q, files[p], p, lines)) /\ (ghost.kept[c] => files[p] = lines)
  BY <1>1, <1>4 DEF StoppedOK
<1>6. PICK s, s2, f : s = q /\ s2 = q' /\ f = files[p]
  OBVIOUS
<1>7. s \in Seq(Job) /\ Behind(s, p, c, n) /\ (Handling => Owes(s, f, p, lines))
  BY <1>5, <1>6, RecordTyped
<1>8. Behind(s2, p, c, n) /\ (Handling' => Owes(s2, f, p, lines))
  <2>1. CASE q' = q
    BY <1>6, <1>7, <2>1
  <2>2. CASE \E x \in Job : q' = Append(q, x) /\ (Once(p) => ~IsLine(x, p))
    <3>1. PICK x \in Job : s2 = Append(s, x) /\ ~IsLine(x, p)
      BY <1>4, <1>6, <2>2
    <3>2. QED
      BY <1>7, <3>1, BehindMoves, OwesGrows
  <2>3. CASE q # <<>> /\ q' = Tail(q) /\ ~Handling'
    <3>1. s # <<>> /\ s2 = Tail(s)
      BY <1>6, <2>3
    <3>2. QED
      BY <1>7, <2>3, <3>1, BehindMoves
  <2>4. QED
    BY <1>1, <2>1, <2>2, <2>3
<1>9. QED
  BY <1>4, <1>5, <1>6, <1>8

LEMMA StoppedNot ==
  ASSUME NEW c \in Callers, ghost'.want[c].path = Closed
  PROVE  StoppedOK(c)'
BY DEF StoppedOK, Once

LEMMA ScriptMoves ==
  ASSUME TypeOK, NEW c \in Callers, ScriptOK(c), ClosesFirst(todo'[c]), Closing(c)' => Closing(c),
         ghost'.want[c].nth = ghost.want[c].nth,
         LET n == ghost.want[c].nth
         IN /\ ghost'.kept[c] => ghost.kept[c] \/ \E i \in 1..Len(q) : IsToken(q[i], c, n)
            /\ \/ q' = q
               \/ \E x \in Job : q' = Append(q, x) /\ (IsToken(x, c, n) => ~Closing(c)')
               \/ q # <<>> /\ q' = Tail(q)
  PROVE  ScriptOK(c)'
<1>1. PICK n : n = ghost.want[c].nth
  OBVIOUS
<1>2. ClosesFirst(todo[c])'
  BY DEF ClosesFirst
<1>3. SUFFICES ASSUME Closing(c)' PROVE ~ghost'.kept[c] /\ \A i \in 1..Len(q') : ~IsToken(q'[i], c, n)
  BY <1>1, <1>2 DEF ScriptOK
<1>4. PICK s, s2 : s = q /\ s2 = q'
  OBVIOUS
<1>5. s \in Seq(Job) /\ ~ghost.kept[c] /\ \A i \in 1..Len(s) : ~IsToken(s[i], c, n)
  BY <1>1, <1>3, <1>4, RecordTyped DEF ScriptOK
<1>6. ~ghost'.kept[c]
  BY <1>1, <1>4, <1>5
<1>7. ASSUME NEW i \in 1..Len(s2) PROVE ~IsToken(s2[i], c, n)
  <2>1. CASE q' = q
    BY <1>4, <1>5, <2>1
  <2>2. CASE \E x \in Job : q' = Append(q, x) /\ (IsToken(x, c, n) => ~Closing(c)')
    <3>1. PICK x \in Job : s2 = Append(s, x) /\ ~IsToken(x, c, n)
      BY <1>3, <1>4, <2>2
    <3>2. (i \in 1..Len(s) /\ s2[i] = s[i]) \/ s2[i] = x
      BY <1>5, <3>1, GrownIs
    <3>3. QED
      BY <1>5, <3>1, <3>2
  <2>3. CASE q # <<>> /\ q' = Tail(q)
    <3>1. s # <<>> /\ s2 = Tail(s)
      BY <1>4, <2>3
    <3>2. i + 1 \in 1..Len(s) /\ s2[i] = s[i + 1]
      BY <1>5, <3>1, ShrunkIs
    <3>3. QED
      BY <1>5, <3>2
  <2>4. QED
    BY <1>1, <2>1, <2>2, <2>3
<1>8. QED
  BY <1>4, <1>6, <1>7

LEMMA ScriptRests ==   \* c does nothing
  ASSUME TypeOK, NEW c \in Callers, ScriptOK(c), todo'[c] = todo[c], ghost'.want[c].nth = ghost.want[c].nth,
         LET n == ghost.want[c].nth
         IN /\ ghost'.kept[c] => ghost.kept[c] \/ \E i \in 1..Len(q) : IsToken(q[i], c, n)
            /\ \/ q' = q
               \/ \E x \in Job : q' = Append(q, x) /\ ~IsToken(x, c, n)
               \/ q # <<>> /\ q' = Tail(q)
  PROVE  ScriptOK(c)'
<1>1. ClosesFirst(todo'[c]) /\ (Closing(c)' => Closing(c))
  BY DEF ScriptOK, Closing
<1>2. QED
  BY <1>1, ScriptMoves

LEMMA ScriptWalks ==   \* a step of c
  ASSUME TypeOK, NEW c \in Callers, ScriptOK(c), FlushOrdered(todo[c]), Walked(todo[c], todo'[c]), todo[c] # <<>>
  PROVE  /\ ClosesFirst(todo'[c]) /\ (Closing(c)' => Closing(c))
         /\ Head(todo[c]) = "token" /\ todo'[c] = Tail(todo[c]) => ~Closing(c)'
<1>1. PICK td, td2 : td = todo[c] /\ td2 = todo'[c]
  OBVIOUS
<1>2. td \in Seq(Steps) /\ ClosesFirst(td) /\ td # <<>>
  BY <1>1, RecordTyped DEF ScriptOK
<1>3. /\ Closing(c) <=> \E i \in 1..Len(td) : td[i] = "shut"
      /\ Closing(c)' <=> \E i \in 1..Len(td2) : td2[i] = "shut"
  BY <1>1 DEF Closing
<1>4. CASE td2 = <<>>
  <2>1. Len(td2) = 0
    BY <1>4
  <2>2. QED
    BY <1>1, <1>3, <2>1 DEF ClosesFirst
<1>5. CASE td2 = Tail(td)
  BY <1>1, <1>2, <1>3, <1>5, ClosesTail
<1>6. CASE Head(td) \in {"open", "shut"} /\ td2 = Tail(Tail(td))
  <2>1. PICK r : r = Tail(td)
    OBVIOUS
  <2>2. /\ ClosesFirst(r) /\ r \in Seq(Steps)
        /\ (\E i \in 1..Len(r) : r[i] = "shut") => \E i \in 1..Len(td) : td[i] = "shut"
    BY <1>2, <2>1, ClosesTail, TailIs
  <2>3. r # <<>>
    <3>1. Len(td) >= 2
      BY <1>1, <1>2, <1>6, SkipIs
    <3>2. QED
      BY <1>2, <2>1, <3>1, TailIs
  <2>4. /\ ClosesFirst(td2)
        /\ (\E i \in 1..Len(td2) : td2[i] = "shut") => \E i \in 1..Len(r) : r[i] = "shut"
    BY <1>6, <2>1, <2>2, <2>3, ClosesTail
  <2>5. QED
    BY <1>1, <1>3, <1>6, <2>2, <2>4
<1>7. QED
  BY <1>1, <1>4, <1>5, <1>6 DEF Walked

\* A step that opens no file.
LEMMA FilesKeep ==
  ASSUME TypeOK, FilesOK, files' = files, disk'.file = disk.file,
         Handling' => Handling, ghost'.opens = ghost.opens, ghost'.last = ghost.last \/ ghost'.last = Closed,
         \A c \in Callers : ghost'.want[c].path \in {ghost.want[c].path, Closed, ghost.last},
         \/ q' = q
         \/ \E x \in Job : q' = Append(q, x) /\ x.k # "open" /\ (x.k = "line" => x.of = ghost.last)
         \/ q # <<>> /\ q' = Tail(q) /\ ~Handling'
  PROVE  FilesOK'
<1>1. PICK s, s2 : s = q /\ s2 = q'
  OBVIOUS
<1>2. s \in Seq(Job) /\ Closed \notin Seconds
  BY <1>1, RecordTyped
<1>3. ASSUME NEW p \in Seconds, ghost'.opens[p] = 0 PROVE Untouched(p)'
  <2>1. /\ files[p] = <<>> /\ disk.file # p /\ ghost.last # p /\ Without(s, p)
        /\ \A c \in Callers : ghost.want[c].path # p
    BY <1>1, <1>3 DEF FilesOK, Untouched
  <2>2. Without(s2, p)
    <3>1. CASE q' = q
      BY <1>1, <2>1, <3>1
    <3>2. CASE \E x \in Job : q' = Append(q, x) /\ x.k # "open" /\ (x.k = "line" => x.of = ghost.last)
      <4>1. PICK x \in Job : s2 = Append(s, x) /\ x.k # "open" /\ (x.k = "line" => x.of = ghost.last)
        BY <1>1, <3>2
      <4>2. ~IsLine(x, p) /\ ~IsOpen(x, p)
        BY <2>1, <4>1 DEF IsLine, IsOpen
      <4>3. QED
        BY <1>2, <2>1, <4>1, <4>2, WithoutMoves
    <3>3. CASE q # <<>> /\ q' = Tail(q)
      <4>1. s # <<>> /\ s2 = Tail(s)
        BY <1>1, <3>3
      <4>2. QED
        BY <1>2, <2>1, <4>1, WithoutMoves
    <3>4. QED
      BY <3>1, <3>2, <3>3
  <2>3. disk'.file # p /\ ghost'.last # p /\ \A c \in Callers : ghost'.want[c].path # p
    BY <1>2, <2>1
  <2>4. QED
    BY <1>1, <2>1, <2>2, <2>3 DEF Untouched
<1>4. ASSUME NEW p \in Seconds, Handling', ghost'.opens[p] = 1
      PROVE  OpensOnce(q', files'[p], disk'.file, p)
  <2>1. OpensOnce(s, files[p], disk.file, p) /\ disk'.file = disk.file
    BY <1>1, <1>4 DEF FilesOK
  <2>2. CASE q' = q
    BY <1>1, <2>1, <2>2
  <2>3. CASE \E x \in Job : q' = Append(q, x) /\ x.k # "open" /\ (x.k = "line" => x.of = ghost.last)
    <3>1. PICK x \in Job : s2 = Append(s, x) /\ x.k # "open"
      BY <1>1, <2>3
    <3>2. ~IsOpen(x, p)
      BY <3>1 DEF IsOpen
    <3>3. OpensOnce(s2, files[p], disk.file, p)
      BY <1>2, <2>1, <3>1, <3>2, OpensGrows
    <3>4. QED
      BY <1>1, <2>1, <3>3
  <2>4. QED
    BY <1>4, <2>2, <2>3
<1>5. QED
  BY <1>3, <1>4 DEF FilesOK

LEMMA FilesOpens ==   \* start_recording
  ASSUME TypeOK, FilesOK, files' = files, disk' = disk, ghost'.opens = [ghost.opens EXCEPT ![clock] = @ + 1],
         ghost'.last = clock, \A c \in Callers : ghost'.want[c].path = ghost.want[c].path,
         NEW x \in Job, q' = Append(q, x), x.k = "open", x.path = clock
  PROVE  FilesOK'
<1>1. PICK s, s2 : s = q /\ s2 = q'
  OBVIOUS
<1>2. s \in Seq(Job) /\ s2 = Append(s, x) /\ clock \in Seconds /\ ghost.opens \in [Seconds -> Nat]
  BY <1>1, RecordTyped DEF TypeOK, Ghosts
<1>3. /\ ghost'.opens[clock] = ghost.opens[clock] + 1 /\ ghost.opens[clock] \in Nat
      /\ \A p \in Seconds \ {clock} : ghost'.opens[p] = ghost.opens[p]
  BY <1>2
<1>4. ASSUME NEW p \in Seconds, ghost'.opens[p] = 0 PROVE Untouched(p)'
  <2>1. p # clock
    BY <1>3, <1>4
  <2>2. /\ files[p] = <<>> /\ disk.file # p /\ Without(s, p)
        /\ \A c \in Callers : ghost.want[c].path # p
    BY <1>1, <1>3, <1>4, <2>1 DEF FilesOK, Untouched
  <2>3. ~IsLine(x, p) /\ ~IsOpen(x, p)
    BY <2>1 DEF IsLine, IsOpen
  <2>4. Without(s2, p)
    BY <1>2, <2>2, <2>3, WithoutMoves
  <2>5. QED
    BY <1>1, <2>1, <2>2, <2>4 DEF Untouched
<1>5. ASSUME NEW p \in Seconds, Handling', ghost'.opens[p] = 1
      PROVE  OpensOnce(q', files'[p], disk'.file, p)
  <2>1. Handling
    BY <1>5 DEF Handling
  <2>2. CASE p = clock
    <3>1. ghost.opens[p] = 0
      BY <1>3, <1>5, <2>2
    <3>2. files[p] = <<>> /\ disk.file # p /\ Without(s, p)
      BY <1>1, <3>1 DEF FilesOK, Untouched
    <3>3. OpensOnce(s2, files[p], disk.file, p)
      BY <1>2, <3>2, OpensGrows
    <3>4. QED
      BY <1>1, <3>3
  <2>3. CASE p # clock
    <3>1. OpensOnce(s, files[p], disk.file, p)
      BY <1>1, <1>3, <1>5, <2>1, <2>3 DEF FilesOK
    <3>2. ~IsOpen(x, p)
      BY <2>3 DEF IsOpen
    <3>3. OpensOnce(s2, files[p], disk.file, p)
      BY <1>2, <3>1, <3>2, OpensGrows
    <3>4. QED
      BY <1>1, <3>3
  <2>4. QED
    BY <2>2, <2>3
<1>6. QED
  BY <1>4, <1>5 DEF FilesOK

\* A step that neither queues a line nor opens or closes a file.
LEMMA RecordKeeps ==
  ASSUME TypeOK, RecordInv, files' = files,
         disk'.file = disk.file, Handling' => Handling,
         ghost'.opens = ghost.opens, ghost'.last = ghost.last, ghost'.took = ghost.took,
         \A c \in Callers : \/ SameAsk(c) /\ (ghost'.kept[c] => ghost.kept[c])
                           \/ ghost'.want[c].path = Closed,
         \/ q' = q
         \/ \E x \in Job : q' = Append(q, x) /\ x.k \notin {"open", "close", "line"}
         \/ q # <<>> /\ q' = Tail(q) /\ ~Handling',
         \A c \in Callers : ScriptOK(c)'
  PROVE  RecordInv'
<1>1. PICK s, s2 : s = q /\ s2 = q'
  OBVIOUS
<1>2. s \in Seq(Job)
  BY <1>1, RecordTyped
<1>3. FilesOK'
  <2>1. \A c \in Callers : ghost'.want[c].path \in {ghost.want[c].path, Closed, ghost.last}
    BY DEF SameAsk
  <2>2. \/ q' = q
        \/ \E x \in Job : q' = Append(q, x) /\ x.k # "open" /\ (x.k = "line" => x.of = ghost.last)
        \/ q # <<>> /\ q' = Tail(q) /\ ~Handling'
    OBVIOUS
  <2>3. FilesOK
    BY DEF RecordInv
  <2>4. QED
    BY <2>1, <2>2, <2>3, FilesKeep
<1>4. ASSUME NEW c \in Callers PROVE StoppedOK(c)'
  <2>1. CASE ghost'.want[c].path = Closed
    BY <2>1, StoppedNot
  <2>2. CASE SameAsk(c) /\ (ghost'.kept[c] => ghost.kept[c])
    <3>1. StoppedOK(c)
      BY DEF RecordInv
    <3>2. PICK p : p = ghost.want[c].path
      OBVIOUS
    <3>3. p # Closed /\ ghost'.opens[p] = 1 => ghost.opens[p] = 1 /\ ghost'.last # p
      BY <3>1, <3>2 DEF StoppedOK, Once
    <3>4. \/ q' = q
          \/ \E x \in Job : q' = Append(q, x) /\ (Once(p) => ~IsLine(x, p))
          \/ q # <<>> /\ q' = Tail(q) /\ ~Handling'
      BY DEF IsLine
    <3>5. QED
      BY <2>2, <3>1, <3>2, <3>3, <3>4, StoppedGrows
  <2>3. QED
    BY <2>1, <2>2
<1>5. ASSUME Handling' PROVE /\ Placed(q', disk'.file, ghost'.last)
                             /\ Once(ghost.last) => Owes(q', files'[ghost'.last], ghost'.last, ghost'.took)
  <2>1. PICK file, last, f, took : /\ file = disk.file /\ last = ghost.last /\ took = ghost.took
                                   /\ f = files[ghost.last]
    OBVIOUS
  <2>2. Placed(s, file, last) /\ (Once(last) => Owes(s, f, last, took)) /\ disk'.file = file
    BY <1>1, <1>5, <2>1 DEF RecordInv
  <2>3. Placed(s2, file, last) /\ (Once(last) => Owes(s2, f, last, took))
    <3>1. CASE q' = q
      BY <1>1, <2>2, <3>1
    <3>2. CASE \E x \in Job : q' = Append(q, x) /\ x.k \notin {"open", "close", "line"}
      <4>1. PICK x \in Job : s2 = Append(s, x) /\ x.k \notin {"open", "close", "line"}
        BY <1>1, <3>2
      <4>2. ~Switches(x) /\ ~IsLine(x, last) /\ (x.k = "line" => x.of = last)
        BY <4>1 DEF Switches, IsLine
      <4>3. Placed(s2, file, IF Switches(x) THEN Leaves(x) ELSE last)
        BY <1>2, <2>2, <4>1, <4>2, PlacedGrows
      <4>4. QED
        BY <1>2, <2>2, <4>1, <4>2, <4>3, OwesGrows
    <3>3. QED
      BY <1>5, <3>1, <3>2
  <2>4. QED
    BY <1>1, <2>1, <2>2, <2>3
<1>6. Once(ghost.last)' => Once(ghost.last)
  BY DEF Once
<1>7. QED
  BY <1>3, <1>4, <1>5, <1>6 DEF RecordInv

\* A line is queued, for the recording open by then or for none.
LEMMA RecordsLine ==
  ASSUME TypeOK, RecordInv, NEW n \in Nat, Recorded(n), files' = files, disk' = disk,
         \A c \in Callers : ScriptOK(c)'
  PROVE  RecordInv'
<1>1. PICK x \in Job : /\ x = Line(n) /\ x.k = "line" /\ x.n = n /\ x.of = ghost.last
                       /\ x.nth = Len(ghost.took) + 1
  BY QueueTyped
<1>2. PICK s, s2 : s = q /\ s2 = q'
  OBVIOUS
<1>3. PICK file, last, took, took2 : /\ file = disk.file /\ last = ghost.last /\ took = ghost.took
                                     /\ took2 = ghost'.took
  OBVIOUS
<1>4. s \in Seq(Job) /\ s2 = Append(s, x) /\ took \in Seq(Nat)
  BY <1>1, <1>2, <1>3, RecordTyped DEF Recorded
<1>5. /\ ghost'.opens = ghost.opens /\ ghost'.last = ghost.last /\ ghost'.want = ghost.want
      /\ ghost'.kept = ghost.kept /\ (last # Closed => took2 = Append(took, n))
  <2>1. ghost \in Ghosts
    BY DEF TypeOK
  <2>2. CASE last = Closed
    BY <1>3, <2>2 DEF Recorded
  <2>3. CASE last # Closed
    <3>1. ghost' = [ghost EXCEPT !.took = Append(took, n)]
      BY <1>3, <2>1, <2>3 DEF Recorded, Ghosts
    <3>2. QED
      BY <1>3, <2>1, <3>1 DEF Ghosts
  <2>4. QED
    BY <2>2, <2>3
<1>6. Handling' <=> Handling
  BY DEF Handling
<1>7. FilesOK'
  <2>1. \E y \in Job : q' = Append(q, y) /\ y.k # "open" /\ (y.k = "line" => y.of = ghost.last)
    BY <1>1, <1>2, <1>4
  <2>2. FilesOK /\ \A c \in Callers : ghost'.want[c].path \in {ghost.want[c].path, Closed, ghost.last}
    BY <1>5 DEF RecordInv
  <2>3. QED
    BY <1>5, <1>6, <2>1, <2>2, FilesKeep
<1>8. ASSUME NEW c \in Callers PROVE StoppedOK(c)'
  <2>1. StoppedOK(c) /\ SameAsk(c)
    BY <1>5 DEF RecordInv, SameAsk
  <2>2. PICK p : p = ghost.want[c].path
    OBVIOUS
  <2>3. p # Closed /\ ghost'.opens[p] = 1 => ghost.opens[p] = 1 /\ ghost'.last # p
    BY <1>5, <2>1, <2>2 DEF StoppedOK, Once
  <2>4. Once(p) => ~IsLine(x, p)
    BY <1>1, <2>1, <2>2 DEF StoppedOK, IsLine
  <2>5. \E y \in Job : q' = Append(q, y) /\ (Once(p) => ~IsLine(y, p))
    BY <1>2, <1>4, <2>4
  <2>6. QED
    BY <1>5, <1>6, <2>1, <2>2, <2>3, <2>5, StoppedGrows
<1>9. ASSUME Handling PROVE Placed(s2, file, last) /\ (Once(last) => Owes(s2, files[last], last, took2))
  <2>1. Placed(s, file, last) /\ (Once(last) => Owes(s, files[last], last, took))
    BY <1>2, <1>3, <1>9 DEF RecordInv
  <2>2. ~Switches(x) /\ x.of = last /\ IsLine(x, last)
    BY <1>1, <1>3 DEF Switches, IsLine
  <2>3. Placed(s2, file, IF Switches(x) THEN Leaves(x) ELSE last)
    BY <1>4, <2>1, <2>2, PlacedGrows
  <2>4. ASSUME Once(last) PROVE Owes(s2, files[last], last, took2)
    <3>1. PICK f : f = files[last]
      OBVIOUS
    <3>2. last # Closed /\ f \in Seq(Nat)
      BY <1>3, <2>4, <3>1, RecordTyped DEF Once
    <3>3. Owes(Append(s, x), f, last, Append(took, x.n))
      BY <1>1, <1>3, <1>4, <2>1, <2>2, <2>4, <3>1, <3>2, OwesLine
    <3>4. QED
      BY <1>1, <1>4, <1>5, <3>1, <3>2, <3>3
  <2>5. QED
    BY <2>2, <2>3, <2>4
<1>10. (Once(ghost.last))' => Once(ghost.last)
  BY <1>5 DEF Once
<1>11. QED
  BY <1>2, <1>3, <1>5, <1>6, <1>7, <1>8, <1>9, <1>10 DEF RecordInv

LEMMA RecordsOpen ==   \* start_recording
  ASSUME TypeOK, RecordInv, files' = files, disk' = disk, q' = Append(q, Open(clock)),
         ghost' = [ghost EXCEPT !.opens[clock] = @ + 1, !.took = <<>>, !.last = clock],
         \A c \in Callers : ScriptOK(c)'
  PROVE  RecordInv'
<1>1. PICK x \in Job : x = Open(clock) /\ x.k = "open" /\ x.path = clock
  BY QueueTyped
<1>2. PICK s, s2, file, last, e : s = q /\ s2 = q' /\ file = disk.file /\ last = ghost.last /\ e = <<>>
  OBVIOUS
<1>3. s \in Seq(Job) /\ s2 = Append(s, x) /\ clock \in Seconds /\ clock # Closed /\ ghost \in Ghosts
  BY <1>1, <1>2, RecordTyped DEF TypeOK
<1>4. /\ ghost'.opens = [ghost.opens EXCEPT ![clock] = @ + 1] /\ ghost'.last = clock /\ ghost'.took = e
      /\ ghost'.want = ghost.want /\ ghost'.kept = ghost.kept
  BY <1>2, <1>3 DEF Ghosts
<1>5. ghost.opens \in [Seconds -> Nat]
  BY <1>3 DEF Ghosts
<1>6. /\ ghost'.opens[clock] = ghost.opens[clock] + 1 /\ ghost.opens[clock] \in Nat
      /\ \A p \in Seconds \ {clock} : ghost'.opens[p] = ghost.opens[p]
  BY <1>3, <1>4, <1>5
<1>7. Handling' <=> Handling
  BY DEF Handling
<1>8. FilesOK'
  <2>1. FilesOK
    BY DEF RecordInv
  <2>2. QED
    BY <1>1, <1>2, <1>3, <1>4, <2>1, FilesOpens
<1>9. ASSUME NEW c \in Callers PROVE StoppedOK(c)'
  <2>1. StoppedOK(c) /\ SameAsk(c)
    BY <1>4 DEF RecordInv, SameAsk
  <2>2. PICK p : p = ghost.want[c].path
    OBVIOUS
  <2>3. ASSUME p # Closed, ghost'.opens[p] = 1 PROVE ghost.opens[p] = 1 /\ ghost'.last # p
    <3>1. p \in Seconds
      BY <2>2, <2>3, RecordTyped
    <3>2. p # clock
      <4>1. SUFFICES ASSUME p = clock PROVE FALSE
        OBVIOUS
      <4>2. ghost.opens[p] = 0
        BY <1>6, <2>3, <4>1
      <4>3. QED
        BY <2>2, <3>1, <4>2 DEF RecordInv, FilesOK, Untouched
    <3>3. QED
      BY <1>4, <1>6, <2>3, <3>1, <3>2
  <2>4. ~IsLine(x, p)
    BY <1>1 DEF IsLine
  <2>5. \E y \in Job : q' = Append(q, y) /\ (Once(p) => ~IsLine(y, p))
    BY <1>2, <1>3, <2>4
  <2>6. QED
    BY <1>4, <1>7, <2>1, <2>2, <2>3, <2>5, StoppedGrows
<1>10. ASSUME Handling PROVE Placed(s2, file, clock)
  <2>1. Placed(s, file, last)
    BY <1>2, <1>10 DEF RecordInv
  <2>2. Switches(x) /\ Leaves(x) = clock /\ x.k # "line"
    BY <1>1 DEF Switches, Leaves
  <2>3. Placed(s2, file, IF Switches(x) THEN Leaves(x) ELSE last)
    BY <1>3, <2>1, <2>2, PlacedGrows
  <2>4. QED
    BY <2>2, <2>3
<1>11. ASSUME ghost'.opens[clock] = 1 PROVE Owes(s2, files[clock], clock, e)
  <2>1. ghost.opens[clock] = 0
    BY <1>6, <1>11
  <2>2. files[clock] = <<>> /\ Without(s, clock)
    BY <1>2, <1>3, <2>1 DEF RecordInv, FilesOK, Untouched
  <2>3. \A i \in 1..Len(s2) : (i \in 1..Len(s) /\ s2[i] = s[i]) \/ s2[i] = x
    BY <1>3, GrownIs
  <2>4. ~IsLine(x, clock)
    BY <1>1 DEF IsLine
  <2>5. \A i \in 1..Len(s2) : ~IsLine(s2[i], clock)
    BY <2>2, <2>3, <2>4 DEF Without
  <2>6. s2 \in Seq(Job) /\ e = <<>>
    BY <1>2, <1>3, GrownIs
  <2>7. PICK f : f = files[clock]
    OBVIOUS
  <2>8. Owes(s2, f, clock, e)
    BY <2>2, <2>5, <2>6, <2>7, OwesNew
  <2>9. QED
    BY <2>7, <2>8
<1>12. (Once(ghost.last))' => ghost'.opens[clock] = 1
  BY <1>4 DEF Once
<1>13. QED
  BY <1>2, <1>4, <1>7, <1>8, <1>9, <1>10, <1>11, <1>12 DEF RecordInv

LEMMA RecordsClose ==   \* stop_recording
  ASSUME TypeOK, RecordInv, NEW c \in Callers, Closing(c), files' = files, disk' = disk, q' = Append(q, Close),
         ghost' = [ghost EXCEPT !.want[c].path = ghost.last, !.want[c].lines = ghost.took,
                                !.last = Closed, !.took = <<>>],
         \A d \in Callers : ScriptOK(d)'
  PROVE  RecordInv'
<1>1. PICK x \in Job : x = Close /\ x.k = "close"
  BY QueueTyped
<1>2. PICK s, s2, file, last, took : s = q /\ s2 = q' /\ file = disk.file /\ last = ghost.last /\ took = ghost.took
  OBVIOUS
<1>3. s \in Seq(Job) /\ s2 = Append(s, x) /\ ghost \in Ghosts /\ ghost.want \in [Callers -> Want]
  BY <1>1, <1>2, RecordTyped, WantTyped DEF TypeOK
<1>4. /\ ghost'.opens = ghost.opens /\ ghost'.last = Closed /\ ghost'.kept = ghost.kept
      /\ ghost'.want[c].path = last /\ ghost'.want[c].lines = took /\ ghost'.want[c].nth = ghost.want[c].nth
      /\ \A d \in Callers \ {c} : ghost'.want[d] = ghost.want[d]
  <2>1. PICK w : w = [[ghost.want[c] EXCEPT !.path = last] EXCEPT !.lines = took]
    OBVIOUS
  <2>2. PICK e : e = <<>>
    OBVIOUS
  <2>3. [ghost EXCEPT !.want[c].path = last, !.want[c].lines = took] = [ghost EXCEPT !.want[c] = w]
    BY <1>3, <2>1 DEF Ghosts
  <2>4. ghost' = [[[ghost EXCEPT !.want[c] = w] EXCEPT !.last = Closed] EXCEPT !.took = e]
    BY <1>2, <2>2, <2>3
  <2>5. w.path = last /\ w.lines = took /\ w.nth = ghost.want[c].nth
    BY <1>3, <2>1 DEF Want
  <2>6. /\ ghost'.opens = ghost.opens /\ ghost'.last = Closed /\ ghost'.kept = ghost.kept
        /\ ghost'.want = [ghost.want EXCEPT ![c] = w]
    BY <1>3, <2>4 DEF Ghosts
  <2>7. ghost'.want[c] = w /\ \A d \in Callers \ {c} : ghost'.want[d] = ghost.want[d]
    BY <1>3, <2>6
  <2>8. QED
    BY <2>5, <2>6, <2>7
<1>5. Handling' <=> Handling
  BY DEF Handling
<1>6. FilesOK'
  <2>1. x.k # "open" /\ x.k # "line" /\ q' = Append(q, x)
    BY <1>1, <1>2, <1>3
  <2>2. FilesOK
    BY DEF RecordInv
  <2>3. \A d \in Callers : ghost'.want[d].path \in {ghost.want[d].path, Closed, ghost.last}
    BY <1>2, <1>4
  <2>4. QED
    BY <1>4, <1>5, <2>1, <2>2, <2>3, FilesKeep
<1>7. \A p : ~IsLine(x, p)
  BY <1>1 DEF IsLine
<1>8. ASSUME NEW d \in Callers, d # c PROVE StoppedOK(d)'
  <2>1. StoppedOK(d) /\ SameAsk(d)
    BY <1>4, <1>8 DEF RecordInv, SameAsk
  <2>2. PICK p : p = ghost.want[d].path
    OBVIOUS
  <2>3. p # Closed /\ ghost'.opens[p] = 1 => ghost.opens[p] = 1 /\ ghost'.last # p
    BY <1>4
  <2>4. \E y \in Job : q' = Append(q, y) /\ (Once(p) => ~IsLine(y, p))
    BY <1>2, <1>3, <1>7
  <2>5. QED
    BY <1>4, <1>5, <2>1, <2>2, <2>3, <2>4, StoppedGrows
<1>9. StoppedOK(c)'
  <2>1. SUFFICES ASSUME last # Closed, ghost'.opens[last] = 1
                 PROVE  /\ ghost'.last # last /\ Behind(q', last, c, ghost.want[c].nth)
                        /\ Handling' => Owes(q', files'[last], last, took)
                        /\ ghost'.kept[c] => files'[last] = took
    BY <1>4 DEF StoppedOK, Once
  <2>2. PICK n : n = ghost.want[c].nth
    OBVIOUS
  <2>3. ~ghost.kept[c] /\ \A i \in 1..Len(s) : ~IsToken(s[i], c, n)
    BY <1>2, <2>2 DEF RecordInv, ScriptOK
  <2>4. \A i \in 1..Len(s2) : ~IsToken(s2[i], c, n)
    <3>1. \A i \in 1..Len(s2) : (i \in 1..Len(s) /\ s2[i] = s[i]) \/ s2[i] = x
      BY <1>3, GrownIs
    <3>2. ~IsToken(x, c, n)
      BY <1>1 DEF IsToken
    <3>3. QED
      BY <2>3, <3>1, <3>2
  <2>5. Behind(s2, last, c, n)
    BY <2>4 DEF Behind
  <2>6. ASSUME Handling PROVE Owes(s2, files[last], last, took)
    <3>1. PICK f : f = files[last]
      OBVIOUS
    <3>2. Owes(s, f, last, took)
      BY <1>2, <1>4, <2>1, <2>6, <3>1 DEF RecordInv, Once
    <3>3. Owes(s2, f, last, took)
      BY <1>3, <1>7, <3>2, OwesGrows
    <3>4. QED
      BY <3>1, <3>3
  <2>7. QED
    BY <1>2, <1>4, <1>5, <2>1, <2>2, <2>3, <2>5, <2>6
<1>10. ASSUME Handling PROVE Placed(s2, file, Closed)
  <2>1. Placed(s, file, last)
    BY <1>2, <1>10 DEF RecordInv
  <2>2. Switches(x) /\ Leaves(x) = Closed /\ x.k # "line"
    BY <1>1 DEF Switches, Leaves
  <2>3. Placed(s2, file, IF Switches(x) THEN Leaves(x) ELSE last)
    BY <1>3, <2>1, <2>2, PlacedGrows
  <2>4. QED
    BY <2>2, <2>3
<1>11. ~(Once(ghost.last))'
  BY <1>4 DEF Once
<1>12. QED
  BY <1>2, <1>4, <1>5, <1>6, <1>8, <1>9, <1>10, <1>11 DEF RecordInv

\* What handling a job does to the files and to the comparison state.
LEMMA HandlesFiles ==
  ASSUME TypeOK, NEW h \in Job, Handles(h), Handling
  PROVE  /\ Handling' /\ disk'.file = IF Switches(h) THEN Leaves(h) ELSE disk.file
         /\ ghost'.opens = ghost.opens /\ ghost'.last = ghost.last /\ ghost'.took = ghost.took
         /\ ghost'.want = ghost.want
         /\ \A c \in Callers : ghost'.kept[c] => ghost.kept[c] \/ IsToken(h, c, ghost.want[c].nth)
         /\ \A p \in Seconds : files'[p] = IF IsOpen(h, p) THEN <<>>
                                           ELSE IF h.k = "line" /\ disk.file = p THEN Append(files[p], h.n)
                                           ELSE files[p]
<1>0. /\ h.k = "open" => h.path \in Seconds
      /\ h.k = "token" => h.of \in Callers /\ h.nth \in Nat
      /\ h.k = "state" => h.snap \in Snap
  BY JobIs
<1>1. ghost \in Ghosts /\ disk \in Thread /\ files \in [Seconds -> Seq(Nat)]
  BY DEF TypeOK
<1>2. Handling' /\ disk'.file = IF Switches(h) THEN Leaves(h) ELSE disk.file
  BY <1>1 DEF Handles, Handling, Switches, Leaves, Thread
<1>3. /\ ghost'.opens = ghost.opens /\ ghost'.last = ghost.last /\ ghost'.took = ghost.took
      /\ ghost'.want = ghost.want
      /\ \A c \in Callers : ghost'.kept[c] => ghost.kept[c] \/ IsToken(h, c, ghost.want[c].nth)
  <2>1. CASE h.k = "state"
    <3>1. PICK t : t = IF h.snap.pub > ghost.top THEN h.snap.pub ELSE ghost.top
      OBVIOUS
    <3>2. ghost' = [ghost EXCEPT !.top = t]
      BY <1>1, <2>1, <3>1 DEF Handles, Written, Ghosts
    <3>3. QED
      BY <1>1, <3>2 DEF Ghosts
  <2>2. CASE h.k = "token"
    <3>1. ghost' = [ghost EXCEPT !.kept[h.of] = ghost.kept[h.of] \/ h.nth = ghost.want[h.of].nth]
      BY <2>2 DEF Handles
    <3>2. PICK b \in BOOLEAN : b = (ghost.kept[h.of] \/ h.nth = ghost.want[h.of].nth)
      OBVIOUS
    <3>3. /\ ghost'.kept = [ghost.kept EXCEPT ![h.of] = b] /\ ghost.kept \in [Callers -> BOOLEAN]
          /\ ghost'.opens = ghost.opens /\ ghost'.last = ghost.last /\ ghost'.took = ghost.took
          /\ ghost'.want = ghost.want
      BY <1>1, <3>1, <3>2 DEF Ghosts
    <3>4. ASSUME NEW c \in Callers, ghost'.kept[c] PROVE ghost.kept[c] \/ IsToken(h, c, ghost.want[c].nth)
      <4>1. CASE c = h.of
        BY <1>0, <2>2, <3>2, <3>3, <3>4, <4>1 DEF IsToken
      <4>2. CASE c # h.of
        BY <3>3, <3>4, <4>2
      <4>3. QED
        BY <4>1, <4>2
    <3>5. QED
      BY <3>3, <3>4
  <2>3. CASE h.k \notin {"state", "token"}
    BY <2>3 DEF Handles
  <2>4. QED
    BY <2>1, <2>2, <2>3
<1>4. ASSUME NEW p \in Seconds
      PROVE  files'[p] = IF IsOpen(h, p) THEN <<>>
                         ELSE IF h.k = "line" /\ disk.file = p THEN Append(files[p], h.n) ELSE files[p]
  <2>1. CASE h.k = "open"
    <3>1. PICK e : e = <<>>
      OBVIOUS
    <3>2. files' = [files EXCEPT ![h.path] = e]
      BY <2>1, <3>1 DEF Handles
    <3>3. QED
      BY <1>0, <1>1, <2>1, <3>1, <3>2 DEF IsOpen
  <2>2. CASE h.k = "line" /\ disk.file # Closed
    <3>1. files' = [files EXCEPT ![disk.file] = Append(files[disk.file], h.n)] /\ disk.file \in Seconds
      BY <1>1, <2>2 DEF Handles, Thread
    <3>2. QED
      BY <1>1, <2>2, <3>1 DEF IsOpen
  <2>3. CASE h.k # "open" /\ ~(h.k = "line" /\ disk.file # Closed)
    <3>1. files' = files /\ p # Closed
      BY <2>3, RecordTyped DEF Handles
    <3>2. QED
      BY <2>3, <3>1 DEF IsOpen
  <2>4. QED
    BY <2>1, <2>2, <2>3
<1>5. QED
  BY <1>2, <1>3, <1>4

LEMMA RecordsDrain ==
  ASSUME TypeOK, RecordInv, Drains, \A c \in Callers : ScriptOK(c)'
  PROVE  RecordInv'
<1>1. Handling /\ q # <<>> /\ q' = Tail(q) /\ Handles(Head(q))
  BY DEF Drains, Handling
<1>2. PICK s, s2, file, last, took : /\ s = q /\ s2 = q' /\ file = disk.file /\ last = ghost.last
                                     /\ took = ghost.took
  OBVIOUS
<1>3. s \in Seq(Job) /\ s # <<>> /\ s2 = Tail(s) /\ file \in Seconds \cup {Closed} /\ Closed \notin Seconds
  BY <1>1, <1>2, RecordTyped
<1>4. PICK h \in Job : h = s[1] /\ h = Head(q)
  BY <1>2, <1>3, TailIs
<1>5. PICK file2 : file2 = IF Switches(h) THEN Leaves(h) ELSE file
  OBVIOUS
<1>6. /\ Handling' /\ disk'.file = file2
      /\ ghost'.opens = ghost.opens /\ ghost'.last = last /\ ghost'.took = took /\ ghost'.want = ghost.want
      /\ \A c \in Callers : ghost'.kept[c] => ghost.kept[c] \/ IsToken(h, c, ghost.want[c].nth)
      /\ \A p \in Seconds : files'[p] = IF IsOpen(h, p) THEN <<>>
                                        ELSE IF h.k = "line" /\ file = p THEN Append(files[p], h.n)
                                        ELSE files[p]
  <2>1. Handles(h)
    BY <1>1, <1>4
  <2>2. QED
    BY <1>1, <1>2, <1>5, <2>1, HandlesFiles
<1>7. Placed(s2, file2, last) /\ (h.k = "line" => h.of = file)
  <2>1. Placed(s, file, last)
    BY <1>1, <1>2 DEF RecordInv
  <2>2. QED
    BY <1>3, <1>4, <1>5, <2>1, PlacedTail
<1>8. ASSUME NEW p \in Seconds
      PROVE  /\ files[p] \in Seq(Nat)
             /\ files'[p] = IF IsOpen(h, p) THEN <<>> ELSE IF IsLine(h, p) THEN Append(files[p], h.n) ELSE files[p]
             /\ file # p /\ ~IsOpen(h, p) => file2 # p
             /\ IsLine(h, p) => file = p /\ ~IsOpen(h, p)
             /\ ghost.opens[p] = 1 => OpensOnce(s, files[p], file, p)
             /\ ghost.opens[p] = 1 /\ IsOpen(h, p) => files[p] = <<>>
  <2>1. IsLine(h, p) <=> h.k = "line" /\ file = p
    BY <1>7 DEF IsLine
  <2>2. file # p /\ ~IsOpen(h, p) => file2 # p
    BY <1>3, <1>5 DEF Switches, Leaves, IsOpen
  <2>3. ghost.opens[p] = 1 => OpensOnce(s, files[p], file, p)
    BY <1>1, <1>2 DEF RecordInv, FilesOK
  <2>4. 1 \in 1..Len(s)
    BY <1>3, ShrunkIs
  <2>5. IsLine(h, p) => ~IsOpen(h, p)
    BY DEF IsLine, IsOpen
  <2>6. QED
    BY <1>4, <1>6, <2>1, <2>2, <2>3, <2>4, <2>5, RecordTyped DEF OpensOnce
<1>9. FilesOK'
  <2>1. ASSUME NEW p \in Seconds, ghost'.opens[p] = 0 PROVE Untouched(p)'
    <3>1. /\ files[p] = <<>> /\ file # p /\ last # p /\ Without(s, p)
          /\ \A c \in Callers : ghost.want[c].path # p
      BY <1>2, <1>6, <2>1 DEF RecordInv, FilesOK, Untouched
    <3>2. Without(s2, p) /\ ~IsLine(h, p) /\ ~IsOpen(h, p)
      BY <1>3, <1>4, <3>1, WithoutMoves
    <3>3. files'[p] = <<>> /\ file2 # p
      BY <1>8, <3>1, <3>2
    <3>4. QED
      BY <1>2, <1>6, <3>1, <3>2, <3>3 DEF Untouched
  <2>2. ASSUME NEW p \in Seconds, ghost'.opens[p] = 1 PROVE OpensOnce(q', files'[p], disk'.file, p)
    <3>1. PICK f, f2 : f = files[p] /\ f2 = files'[p]
      OBVIOUS
    <3>2. OpensOnce(s, f, file, p) /\ (~IsOpen(h, p) /\ file # p => f2 = f /\ file2 # p)
      BY <1>6, <1>8, <2>2, <3>1
    <3>3. OpensOnce(s2, f2, file2, p)
      BY <1>3, <1>4, <3>2, OpensTail
    <3>4. QED
      BY <1>2, <1>6, <3>1, <3>3
  <2>3. QED
    BY <2>1, <2>2 DEF FilesOK
<1>10. ASSUME NEW p \in Seconds, ghost.opens[p] = 1, NEW lines \in Seq(Nat), Owes(s, files[p], p, lines)
       PROVE  Owes(s2, files'[p], p, lines)
  <2>1. PICK f, f2 : f = files[p] /\ f2 = files'[p]
    OBVIOUS
  <2>2. f \in Seq(Nat) /\ Owes(s, f, p, lines)
    BY <1>8, <1>10, <2>1
  <2>3. CASE IsLine(h, p)
    <3>1. f2 = Append(f, h.n)
      BY <1>8, <2>1, <2>3
    <3>2. Owes(s2, Append(f, h.n), p, lines)
      BY <1>3, <1>4, <2>2, <2>3, OwesTaken
    <3>3. QED
      BY <2>1, <3>1, <3>2
  <2>4. CASE ~IsLine(h, p)
    <3>1. f2 = f
      BY <1>8, <1>10, <2>1, <2>4
    <3>2. Owes(s2, f, p, lines)
      BY <1>3, <1>4, <2>2, <2>4, OwesTail
    <3>3. QED
      BY <2>1, <3>1, <3>2
  <2>5. QED
    BY <2>3, <2>4
<1>11. ASSUME NEW c \in Callers PROVE StoppedOK(c)'
  <2>1. PICK p, lines, n : p = ghost.want[c].path /\ lines = ghost.want[c].lines /\ n = ghost.want[c].nth
    OBVIOUS
  <2>2. SUFFICES ASSUME p # Closed, ghost.opens[p] = 1
                 PROVE  /\ ghost'.last # p /\ Behind(q', p, c, n) /\ Owes(q', files'[p], p, lines)
                        /\ ghost'.kept[c] => files'[p] = lines
    BY <1>6, <2>1 DEF StoppedOK, Once
  <2>3. /\ last # p /\ Behind(s, p, c, n) /\ Owes(s, files[p], p, lines)
        /\ ghost.kept[c] => files[p] = lines
    BY <1>1, <1>2, <2>1, <2>2 DEF RecordInv, StoppedOK, Once
  <2>4. p \in Seconds /\ lines \in Seq(Nat)
    BY <2>1, <2>2, RecordTyped
  <2>5. Behind(s2, p, c, n)
    BY <1>3, <2>3, BehindMoves
  <2>6. Owes(s2, files'[p], p, lines)
    BY <1>10, <2>2, <2>3, <2>4
  <2>7. PICK f : f = files[p]
    OBVIOUS
  <2>8. f \in Seq(Nat) /\ Owes(s, f, p, lines) /\ 1 \in 1..Len(s) /\ Len(s) \in Nat
    BY <1>3, <1>8, <2>3, <2>4, <2>7, ShrunkIs
  <2>9. ASSUME ghost.kept[c] PROVE files'[p] = lines
    <3>1. f = lines
      BY <2>3, <2>7, <2>9
    <3>2. ~IsLine(h, p)
      <4>1. SUFFICES ASSUME IsLine(h, p) PROVE FALSE
        OBVIOUS
      <4>2. h.nth > Len(f) /\ h.nth <= Len(lines)
        BY <1>4, <2>8, <4>1 DEF Owes
      <4>3. h.nth \in Nat /\ Len(f) \in Nat
        BY <2>8, <4>1, JobIs DEF IsLine
      <4>4. QED
        BY <3>1, <4>2, <4>3
    <3>3. QED
      BY <1>8, <2>2, <2>4, <2>7, <3>1, <3>2
  <2>10. ASSUME IsToken(h, c, n) PROVE files'[p] = lines
    <3>1. ~IsLine(h, p) /\ ~IsOpen(h, p)
      BY <2>10 DEF IsToken, IsLine, IsOpen
    <3>2. ASSUME NEW j \in 1..Len(s) PROVE ~IsLine(s[j], p)
      <4>1. CASE j = 1
        BY <1>4, <3>1, <4>1
      <4>2. CASE j # 1
        <5>1. 1 < j
          BY <2>8, <4>2
        <5>2. QED
          BY <1>4, <2>3, <2>8, <2>10, <5>1 DEF Behind
      <4>3. QED
        BY <4>1, <4>2
    <3>3. f = lines
      BY <1>3, <2>4, <2>8, <3>2, OwesNothing
    <3>4. QED
      BY <1>8, <2>4, <2>7, <3>1, <3>3
  <2>11. QED
    BY <1>2, <1>6, <2>1, <2>3, <2>5, <2>6, <2>9, <2>10
<1>12. ASSUME Once(last) PROVE Owes(s2, files'[last], last, took)
  <2>1. last \in Seconds /\ ghost.opens[last] = 1 /\ took \in Seq(Nat)
    BY <1>2, <1>12, RecordTyped DEF Once
  <2>2. Owes(s, files[last], last, took)
    BY <1>1, <1>2, <1>12 DEF RecordInv
  <2>3. QED
    BY <1>10, <2>1, <2>2
<1>13. (Once(ghost.last))' => Once(last)
  BY <1>6 DEF Once
<1>14. QED
  BY <1>2, <1>6, <1>7, <1>9, <1>11, <1>12, <1>13 DEF RecordInv

\* The scripts of the calls after a step of c, and after one of another thread.
LEMMA ScriptsStep ==
  ASSUME TypeOK, FlushInv, RecordInv, NEW c \in Callers, todo[c] # <<>>, Walked(todo[c], todo'[c]),
         \A d \in Callers \ {c} : todo'[d] = todo[d],
         \A d \in Callers : ghost'.want[d].nth = ghost.want[d].nth /\ (ghost'.kept[d] => ghost.kept[d]),
         \/ q' = q
         \/ \E x \in Job : /\ q' = Append(q, x)
                           /\ \A d \in Callers : IsToken(x, d, ghost.want[d].nth) =>
                                d = c /\ Head(todo[c]) = "token" /\ todo'[c] = Tail(todo[c])
  PROVE  \A d \in Callers : ScriptOK(d)'
<1>1. ASSUME NEW d \in Callers PROVE ScriptOK(d)'
  <2>1. ScriptOK(d) /\ FlushOrdered(todo[d])
    BY DEF RecordInv, FlushInv, FlushOK
  <2>2. CASE d = c
    <3>1. /\ ClosesFirst(todo'[c]) /\ (Closing(c)' => Closing(c))
          /\ Head(todo[c]) = "token" /\ todo'[c] = Tail(todo[c]) => ~Closing(c)'
      BY <2>1, <2>2, ScriptWalks
    <3>2. PICK n : n = ghost.want[c].nth
      OBVIOUS
    <3>3. q' = q \/ \E x \in Job : q' = Append(q, x) /\ (IsToken(x, c, n) => ~Closing(c)')
      BY <3>1, <3>2
    <3>4. QED
      BY <2>1, <2>2, <3>1, <3>2, <3>3, ScriptMoves
  <2>3. CASE d # c
    <3>1. PICK n : n = ghost.want[d].nth
      OBVIOUS
    <3>2. todo'[d] = todo[d] /\ (q' = q \/ \E x \in Job : q' = Append(q, x) /\ ~IsToken(x, d, n))
      BY <2>3, <3>1
    <3>3. QED
      BY <2>1, <3>1, <3>2, ScriptRests
  <2>4. QED
    BY <2>2, <2>3
<1>2. QED
  BY <1>1

LEMMA ScriptsRest ==
  ASSUME TypeOK, RecordInv, todo' = todo,
         \A d \in Callers : /\ ghost'.want[d].nth = ghost.want[d].nth
                            /\ ghost'.kept[d] => \/ ghost.kept[d]
                                                 \/ \E i \in 1..Len(q) : IsToken(q[i], d, ghost.want[d].nth),
         \/ q' = q
         \/ \E x \in Job : q' = Append(q, x) /\ x.k # "token"
         \/ q # <<>> /\ q' = Tail(q)
  PROVE  \A d \in Callers : ScriptOK(d)'
<1>1. ASSUME NEW d \in Callers PROVE ScriptOK(d)'
  <2>1. ScriptOK(d) /\ todo'[d] = todo[d]
    BY DEF RecordInv
  <2>2. \/ q' = q
        \/ \E x \in Job : q' = Append(q, x) /\ ~IsToken(x, d, ghost.want[d].nth)
        \/ q # <<>> /\ q' = Tail(q)
    BY DEF IsToken
  <2>3. QED
    BY <2>1, <2>2, ScriptRests
<1>2. QED
  BY <1>1

LEMMA SameAsks == ghost' = ghost => \A c \in Callers : SameAsk(c) /\ ghost'.kept[c] = ghost.kept[c]
BY DEF SameAsk

\* Steps of a call that leave the recordings alone.
LEMMA PlainRecord ==
  ASSUME TypeOK, FlushInv, RecordInv, NEW c \in Callers,
         \/ Locks(c) \/ Connects(c) \/ Starts(c) \/ Halts(c) \/ Marks(c) \/ Clears(c) \/ Awaits(c) \/ Unlocks(c)
         \/ Puts(c) \/ Tokens(c) \/ Promotes(c)
  PROVE  RecordInv'
<1>1. /\ Then(c) /\ files' = files /\ disk' = disk
      /\ ghost' = ghost \/ ghost' = [ghost EXCEPT !.want[c].pub = Owed]
      /\ \/ q' = q
         \/ \E s \in Snap : q' = Append(q, State(s))
         \/ At(c, "token") /\ q' = Append(q, Token(c))
      /\ \E step : At(c, step)
  <2>1. CASE Locks(c)
    BY <2>1 DEF Locks, out
  <2>2. CASE Connects(c)
    BY <2>2 DEF Connects, out
  <2>3. CASE Halts(c)
    BY <2>3 DEF Halts, out
  <2>4. CASE Marks(c)
    BY <2>4 DEF Marks, out
  <2>5. CASE Clears(c)
    BY <2>5 DEF Clears, out
  <2>6. CASE Awaits(c)
    BY <2>6 DEF Awaits, cache, obs, out
  <2>7. CASE Starts(c)
    BY <2>7 DEF Starts, out
  <2>8. CASE Unlocks(c)
    BY <2>8 DEF Unlocks, out
  <2>9. CASE Puts(c)
    <3>1. carry[c] \in Snap
      BY DEF TypeOK
    <3>2. QED
      BY <2>9, <3>1 DEF Puts, cache, obs, out
  <2>10. CASE Tokens(c)
    BY <2>10 DEF Tokens, cache, obs, out
  <2>11. CASE Promotes(c)
    BY <2>11 DEF Promotes, cache, obs, out
  <2>12. QED
    BY <2>1, <2>2, <2>3, <2>4, <2>5, <2>6, <2>7, <2>8, <2>9, <2>10, <2>11
<1>2. PICK step : At(c, step)
  BY <1>1
<1>3. /\ Walked(todo[c], todo'[c]) /\ Head(todo[c]) = step /\ todo[c] # <<>>
      /\ \A d \in Callers \ {c} : todo'[d] = todo[d]
  BY <1>1, <1>2, ThenWalks DEF At
<1>4. todo'[c] = Tail(todo[c])
  BY <1>1 DEF Then, TypeOK
<1>5. /\ ghost'.opens = ghost.opens /\ ghost'.last = ghost.last /\ ghost'.took = ghost.took
      /\ \A d \in Callers : SameAsk(d) /\ (ghost'.kept[d] => ghost.kept[d])
  <2>1. CASE ghost' = ghost
    BY <2>1, SameAsks
  <2>2. CASE ghost' = [ghost EXCEPT !.want[c].pub = Owed]
    <3>1. ghost \in Ghosts /\ ghost.want[c] \in Want /\ ghost.want \in [Callers -> Want]
      BY WantTyped DEF TypeOK
    <3>2. PICK o \in Nat : o = Owed
      BY DEF Owed, TypeOK
    <3>3. PICK w : w = [ghost.want[c] EXCEPT !.pub = o]
      OBVIOUS
    <3>4. w.path = ghost.want[c].path /\ w.lines = ghost.want[c].lines /\ w.nth = ghost.want[c].nth
      BY <3>1, <3>3 DEF Want
    <3>5. ghost' = [ghost EXCEPT !.want[c] = w]
      BY <2>2, <3>1, <3>2, <3>3 DEF Ghosts
    <3>6. /\ ghost'.opens = ghost.opens /\ ghost'.last = ghost.last /\ ghost'.took = ghost.took
          /\ ghost'.want = [ghost.want EXCEPT ![c] = w] /\ ghost'.kept = ghost.kept
      BY <3>1, <3>5 DEF Ghosts
    <3>7. QED
      BY <3>1, <3>4, <3>6 DEF SameAsk
  <2>3. QED
    BY <1>1, <2>1, <2>2
<1>6. \/ q' = q
      \/ \E x \in Job : /\ q' = Append(q, x) /\ x.k \notin {"open", "close", "line"}
                        /\ \A d \in Callers : IsToken(x, d, ghost.want[d].nth) =>
                             d = c /\ Head(todo[c]) = "token" /\ todo'[c] = Tail(todo[c])
  <2>1. CASE q' = q
    BY <2>1
  <2>2. CASE \E s \in Snap : q' = Append(q, State(s))
    <3>1. PICK s \in Snap : q' = Append(q, State(s))
      BY <2>2
    <3>2. State(s) \in Job /\ State(s).k = "state"
      BY QueueTyped
    <3>3. QED
      BY <3>1, <3>2 DEF IsToken
  <2>3. CASE At(c, "token") /\ q' = Append(q, Token(c))
    <3>1. Token(c) \in Job /\ Token(c).k = "token" /\ Token(c).of = c
      BY QueueTyped
    <3>2. QED
      BY <1>4, <2>3, <3>1 DEF IsToken, At
  <2>4. QED
    BY <1>1, <2>1, <2>2, <2>3
<1>7. \A d \in Callers : ScriptOK(d)'
  <2>1. \A d \in Callers : ghost'.want[d].nth = ghost.want[d].nth /\ (ghost'.kept[d] => ghost.kept[d])
    BY <1>5 DEF SameAsk
  <2>2. \/ q' = q
        \/ \E x \in Job : /\ q' = Append(q, x)
                          /\ \A d \in Callers : IsToken(x, d, ghost.want[d].nth) =>
                               d = c /\ Head(todo[c]) = "token" /\ todo'[c] = Tail(todo[c])
    BY <1>6
  <2>3. QED
    BY <1>3, <2>1, <2>2, ScriptsStep
<1>8. Handling' => Handling
  BY <1>1 DEF Handling
<1>9. \/ q' = q
      \/ \E x \in Job : q' = Append(q, x) /\ x.k \notin {"open", "close", "line"}
  BY <1>6
<1>10. QED
  BY <1>1, <1>5, <1>7, <1>8, <1>9, RecordKeeps

\* A step that neither queues nor takes a job, nor writes a file.
LEMMA RecordRests ==
  ASSUME TypeOK, RecordInv, files' = files, disk' = disk, q' = q, ghost' = ghost, \A d \in Callers : ScriptOK(d)'
  PROVE  RecordInv'
<1>1. \A d \in Callers : SameAsk(d) /\ (ghost'.kept[d] => ghost.kept[d])
  BY SameAsks
<1>2. Handling' => Handling
  BY DEF Handling
<1>3. QED
  BY <1>1, <1>2, RecordKeeps

LEMMA OpensRecord ==
  ASSUME TypeOK, FlushInv, RecordInv, NEW c \in Callers, Opens(c)
  PROVE  RecordInv'
<1>1. /\ disk' = disk /\ files' = files /\ At(c, "open")
      /\ IF flag THEN todo' = [todo EXCEPT ![c] = Tail(Tail(@))] /\ UNCHANGED <<q, ghost>>
         ELSE /\ q' = Append(q, Open(clock)) /\ Then(c)
              /\ ghost' = [ghost EXCEPT !.opens[clock] = @ + 1, !.took = <<>>, !.last = clock]
  BY DEF Opens, out
<1>2. /\ Walked(todo[c], todo'[c]) /\ todo[c] # <<>>
      /\ \A d \in Callers \ {c} : todo'[d] = todo[d]
  BY <1>1, ThenWalks, SkipWalks DEF At
<1>3. ghost'.want = ghost.want /\ ghost'.kept = ghost.kept
  BY <1>1 DEF TypeOK, Ghosts
<1>4. q' = q \/ \E x \in Job : q' = Append(q, x) /\ x.k # "token"
  BY <1>1, QueueTyped
<1>5. \A d \in Callers : ScriptOK(d)'
  BY <1>2, <1>3, <1>4, ScriptsStep DEF IsToken
<1>6. CASE flag
  BY <1>1, <1>5, <1>6, RecordRests
<1>7. CASE ~flag
  BY <1>1, <1>5, <1>7, RecordsOpen
<1>8. QED
  BY <1>6, <1>7

LEMMA ShutsRecord ==
  ASSUME TypeOK, FlushInv, RecordInv, NEW c \in Callers, Shuts(c)
  PROVE  RecordInv'
<1>1. /\ disk' = disk /\ files' = files /\ At(c, "shut")
      /\ IF ~flag THEN todo' = [todo EXCEPT ![c] = Tail(Tail(@))] /\ UNCHANGED <<q, ghost>>
         ELSE /\ q' = Append(q, Close) /\ Then(c)
              /\ ghost' = [ghost EXCEPT !.want[c].path = ghost.last, !.want[c].lines = ghost.took,
                                  !.last = Closed, !.took = <<>>]
  BY DEF Shuts, out
<1>2. /\ Walked(todo[c], todo'[c]) /\ todo[c] # <<>>
      /\ \A d \in Callers \ {c} : todo'[d] = todo[d]
  BY <1>1, ThenWalks, SkipWalks DEF At
<1>3. \A d \in Callers : ghost'.want[d].nth = ghost.want[d].nth /\ (ghost'.kept[d] => ghost.kept[d])
  <2>1. CASE ghost' = ghost
    BY <2>1
  <2>2. CASE ghost' = [ghost EXCEPT !.want[c].path = ghost.last, !.want[c].lines = ghost.took,
                                    !.last = Closed, !.took = <<>>]
    <3>1. ghost \in Ghosts /\ ghost.want[c] \in Want /\ ghost.want \in [Callers -> Want]
      BY WantTyped DEF TypeOK
    <3>2. PICK w : w = [[ghost.want[c] EXCEPT !.path = ghost.last] EXCEPT !.lines = ghost.took]
      OBVIOUS
    <3>3. PICK e : e = <<>>
      OBVIOUS
    <3>4. [ghost EXCEPT !.want[c].path = ghost.last, !.want[c].lines = ghost.took] = [ghost EXCEPT !.want[c] = w]
      BY <3>1, <3>2 DEF Ghosts
    <3>5. ghost' = [[[ghost EXCEPT !.want[c] = w] EXCEPT !.last = Closed] EXCEPT !.took = e]
      BY <2>2, <3>3, <3>4
    <3>6. w.nth = ghost.want[c].nth
      BY <3>1, <3>2 DEF Want
    <3>7. ghost'.kept = ghost.kept /\ ghost'.want = [ghost.want EXCEPT ![c] = w]
      BY <3>1, <3>5 DEF Ghosts
    <3>8. QED
      BY <3>1, <3>6, <3>7
  <2>3. QED
    BY <1>1, <2>1, <2>2
<1>4. q' = q \/ \E x \in Job : q' = Append(q, x) /\ x.k # "token"
  BY <1>1, QueueTyped
<1>5. \A d \in Callers : ScriptOK(d)'
  BY <1>2, <1>3, <1>4, ScriptsStep DEF IsToken
<1>6. Closing(c)
  <2>1. todo[c] # <<>> /\ Head(todo[c]) = "shut" /\ todo[c] \in Seq(Steps)
    BY <1>1 DEF At, TypeOK
  <2>2. 1 \in 1..Len(todo[c]) /\ todo[c][1] = "shut"
    BY <2>1, TailIs
  <2>3. QED
    BY <2>2 DEF Closing
<1>7. CASE ~flag
  BY <1>1, <1>5, <1>7, RecordRests
<1>8. CASE flag
  BY <1>1, <1>5, <1>6, <1>8, RecordsClose
<1>9. QED
  BY <1>7, <1>8

LEMMA RecordedScripts ==   \* a line moves no script
  ASSUME TypeOK, NEW n \in Nat, Recorded(n)
  PROVE  /\ \A d \in Callers : ghost'.want[d].nth = ghost.want[d].nth /\ (ghost'.kept[d] => ghost.kept[d])
         /\ \E x \in Job : q' = Append(q, x) /\ x.k # "token"
<1>1. Line(n) \in Job /\ Line(n).k = "line" /\ ghost \in Ghosts
  BY QueueTyped DEF TypeOK
<1>2. ghost'.want = ghost.want /\ ghost'.kept = ghost.kept
  BY <1>1 DEF Recorded, Ghosts
<1>3. QED
  BY <1>1, <1>2 DEF Recorded

LEMMA LogsRecord ==
  ASSUME TypeOK, FlushInv, RecordInv, NEW c \in Callers, Logs(c)
  PROVE  RecordInv'
<1>1. /\ disk' = disk /\ files' = files
      /\ At(c, "check") \/ At(c, "line")
      /\ Then(c) \/ Return(c)
      /\ UNCHANGED <<q, ghost>> \/ Recorded(reader[c].fb.n)
  BY DEF Logs, out
<1>2. PICK step \in {"check", "line"} : At(c, step)
  BY <1>1
<1>3. /\ Walked(todo[c], todo'[c]) /\ todo[c] # <<>>
      /\ \A d \in Callers \ {c} : todo'[d] = todo[d]
  <2>1. CASE Then(c)
    BY <1>2, <2>1, ThenWalks DEF At
  <2>2. CASE Return(c)
    <3>1. todo'[c] = <<>> /\ \A d \in Callers \ {c} : todo'[d] = todo[d]
      BY <2>2 DEF Return, TypeOK
    <3>2. QED
      BY <1>2, <3>1 DEF At, Walked
  <2>3. QED
    BY <1>1, <2>1, <2>2
<1>4. reader[c].fb.n \in Nat
  BY GoesTyped DEF Observers
<1>5. \A d \in Callers : ScriptOK(d)'
  <2>1. CASE UNCHANGED <<q, ghost>>
    BY <1>3, <2>1, ScriptsStep
  <2>2. CASE Recorded(reader[c].fb.n)
    BY <1>3, <1>4, <2>2, RecordedScripts, ScriptsStep DEF IsToken
  <2>3. QED
    BY <1>1, <2>1, <2>2
<1>6. CASE UNCHANGED <<q, ghost>>
  BY <1>1, <1>5, <1>6, RecordRests
<1>7. CASE Recorded(reader[c].fb.n)
  BY <1>1, <1>4, <1>5, <1>7, RecordsLine
<1>8. QED
  BY <1>1, <1>6, <1>7

LEMMA ProgramCloses ==
  ASSUME NEW name \in Names
  PROVE  ClosesFirst(Program(name))
<1>1. CASE name = "connect"
  BY <1>1 DEF Program, ClosesFirst
<1>2. CASE name = "disconnect"
  BY <1>2 DEF Program, ClosesFirst
<1>3. CASE name = "record_start"
  BY <1>3 DEF Program, ClosesFirst
<1>4. CASE name = "record_stop"
  BY <1>4 DEF Program, ClosesFirst
<1>5. CASE name = "log"
  BY <1>5 DEF Program, ClosesFirst
<1>6. CASE name = "clear"
  BY <1>6 DEF Program, ClosesFirst
<1>7. CASE name = "close"
  BY <1>7 DEF Program, ClosesFirst
<1>8. QED
  BY <1>1, <1>2, <1>3, <1>4, <1>5, <1>6, <1>7 DEF Names

LEMMA CallsRecord ==
  ASSUME TypeOK, FlushInv, RecordInv, NEW c \in Callers, NEW name \in Names, Calls(c, name)
  PROVE  RecordInv'
<1>1. /\ disk' = disk /\ files' = files /\ q' = q
      /\ todo' = [todo EXCEPT ![c] = Program(name)]
      /\ ghost' = [ghost EXCEPT !.kept[c] = FALSE, !.want[c].path = Closed, !.want[c].nth = @ + 1]
  BY DEF Calls, cache, obs, out
<1>2. ghost \in Ghosts /\ ghost.want[c] \in Want /\ ghost.want \in [Callers -> Want]
  BY WantTyped DEF TypeOK
<1>3. PICK n \in Nat : n = ghost.want[c].nth
  BY <1>2 DEF Want
<1>4. PICK w : w = [ghost.want[c] EXCEPT !.path = Closed, !.nth = @ + 1]
  OBVIOUS
<1>5. w.path = Closed /\ w.nth = n + 1
  BY <1>2, <1>3, <1>4 DEF Want
<1>6. ghost' = [ghost EXCEPT !.kept[c] = FALSE, !.want[c] = w]
  BY <1>1, <1>2, <1>4 DEF Ghosts
<1>7. /\ ghost'.want = [ghost.want EXCEPT ![c] = w] /\ ghost'.kept = [ghost.kept EXCEPT ![c] = FALSE]
      /\ ghost'.opens = ghost.opens /\ ghost'.last = ghost.last /\ ghost'.took = ghost.took
      /\ ghost.kept \in [Callers -> BOOLEAN]
  BY <1>2, <1>6 DEF Ghosts
<1>8. ghost'.want[c].path = Closed /\ ghost'.want[c].nth = n + 1 /\ ~ghost'.kept[c]
  BY <1>2, <1>5, <1>7
<1>9. \A d \in Callers \ {c} : /\ SameAsk(d) /\ (ghost'.kept[d] => ghost.kept[d]) /\ todo'[d] = todo[d]
                               /\ ghost'.want[d].nth = ghost.want[d].nth
  BY <1>1, <1>2, <1>7 DEF SameAsk, TypeOK
<1>10. ScriptOK(c)'
  <2>1. ClosesFirst(todo'[c])
    BY <1>1, ProgramCloses DEF TypeOK
  <2>2. ClosesFirst(todo[c])'
    BY <2>1 DEF ClosesFirst
  <2>3. ASSUME NEW i \in 1..Len(q) PROVE ~IsToken(q[i], c, n + 1)
    <3>1. SUFFICES ASSUME q[i].k = "token", q[i].of = c, q[i].nth = n + 1 PROVE FALSE
      BY DEF IsToken
    <3>2. q[i].nth <= n
      BY <1>3, <3>1 DEF FlushInv, FlushOK
    <3>3. QED
      BY <3>1, <3>2
  <2>4. QED
    BY <1>1, <1>8, <2>2, <2>3 DEF ScriptOK
<1>11. ASSUME NEW d \in Callers PROVE ScriptOK(d)'
  <2>1. CASE d = c
    BY <1>10, <2>1
  <2>2. CASE d # c
    <3>1. ScriptOK(d)
      BY DEF RecordInv
    <3>2. QED
      BY <1>1, <1>9, <2>2, <3>1, ScriptRests
  <2>3. QED
    BY <2>1, <2>2
<1>12. \A d \in Callers : (SameAsk(d) /\ (ghost'.kept[d] => ghost.kept[d])) \/ ghost'.want[d].path = Closed
  BY <1>8, <1>9
<1>13. Handling' => Handling
  BY <1>1 DEF Handling
<1>14. QED
  BY <1>1, <1>7, <1>11, <1>12, <1>13, RecordKeeps

LEMMA CallerRecord ==
  ASSUME TypeOK, FlushInv, RecordInv, NEW c \in Callers, Caller(c)
  PROVE  RecordInv'
<1>1. CASE \E name \in DOMAIN left \ Events : Calls(c, name)
  <2>1. DOMAIN left \subseteq Names \cup Events
    BY DEF TypeOK
  <2>2. PICK name \in Names : Calls(c, name)
    BY <1>1, <2>1
  <2>3. QED
    BY <2>2, CallsRecord
<1>2. CASE \/ Locks(c) \/ Connects(c) \/ Starts(c) \/ Halts(c) \/ Marks(c) \/ Clears(c) \/ Awaits(c) \/ Unlocks(c)
           \/ Puts(c) \/ Tokens(c) \/ Promotes(c)
  BY <1>2, PlainRecord
<1>3. CASE Opens(c)
  BY <1>3, OpensRecord
<1>4. CASE Shuts(c)
  BY <1>4, ShutsRecord
<1>5. CASE Logs(c)
  BY <1>5, LogsRecord
<1>6. QED
  BY <1>1, <1>2, <1>3, <1>4, <1>5 DEF Caller

LEMMA ReaderRecord ==
  ASSUME TypeOK, RecordInv, NEW o \in Observers, Observer(o)
  PROVE  RecordInv'
<1>1. /\ todo' = todo /\ disk' = disk /\ files' = files
      /\ \/ ghost' = ghost /\ (q' = q \/ \E d \in Capture : q' = Append(q, Dump(d)))
         \/ Recorded(reader[o].fb.n)
  <2>1. CASE Polls(o) \/ Snaps(o) \/ Tests(o) \/ Flags(o) \/ Posts(o) \/ Errs(o)
    BY <2>1 DEF Polls, Snaps, Tests, Flags, Posts, Errs, cache, out
  <2>2. CASE Rings(o) \/ Appends(o) \/ Counts(o) \/ Checks(o)
    BY <2>2 DEF Rings, Appends, Counts, Checks, out
  <2>3. CASE Dumps(o)
    <3>1. fr.cap \in Capture /\ reader[o].mine \in Capture
      BY GoesTyped, FaultEdits DEF TypeOK
    <3>2. q' = q \/ \E d \in Capture : q' = Append(q, Dump(d))
      BY <2>3, <3>1, DumpsIs
    <3>3. QED
      BY <2>3, <3>2 DEF Dumps, out
  <2>4. CASE Lines(o)
    BY <2>4 DEF Lines, out
  <2>5. QED
    BY <2>1, <2>2, <2>3, <2>4 DEF Observer
<1>2. CASE ghost' = ghost /\ (q' = q \/ \E d \in Capture : q' = Append(q, Dump(d)))
  <2>1. ASSUME NEW d \in Capture PROVE Dump(d) \in Job /\ Dump(d).k = "dump"
    BY QueueTyped
  <2>2. q' = q \/ \E x \in Job : q' = Append(q, x) /\ x.k = "dump"
    BY <1>2, <2>1
  <2>3. \A d \in Callers : ScriptOK(d)'
    BY <1>1, <1>2, <2>2, ScriptsRest
  <2>4. \A d \in Callers : SameAsk(d) /\ (ghost'.kept[d] => ghost.kept[d])
    BY <1>2, SameAsks
  <2>5. Handling' => Handling
    BY <1>1 DEF Handling
  <2>6. q' = q \/ \E x \in Job : q' = Append(q, x) /\ x.k \notin {"open", "close", "line"}
    BY <2>2
  <2>7. QED
    BY <1>1, <1>2, <2>3, <2>4, <2>5, <2>6, RecordKeeps
<1>3. CASE Recorded(reader[o].fb.n)
  <2>1. reader[o].fb.n \in Nat
    BY GoesTyped
  <2>2. \A d \in Callers : ScriptOK(d)'
    BY <1>1, <1>3, <2>1, RecordedScripts, ScriptsRest
  <2>3. QED
    BY <1>1, <1>3, <2>1, <2>2, RecordsLine
<1>4. QED
  BY <1>1, <1>2, <1>3

LEMMA DrainsRecord ==
  ASSUME TypeOK, RecordInv, Drains
  PROVE  RecordInv'
<1>1. Handling /\ q # <<>> /\ q' = Tail(q) /\ Handles(Head(q)) /\ todo' = todo
  BY DEF Drains, Handling
<1>2. PICK h \in Job : h = Head(q) /\ h = q[1]
  BY <1>1, TailIs DEF TypeOK
<1>3. 1 \in 1..Len(q)
  BY <1>1, TailIs DEF TypeOK
<1>4. /\ ghost'.want = ghost.want
      /\ \A c \in Callers : ghost'.kept[c] => ghost.kept[c] \/ IsToken(h, c, ghost.want[c].nth)
  BY <1>1, <1>2, HandlesFiles
<1>5. \A d \in Callers : ScriptOK(d)'
  BY <1>1, <1>2, <1>3, <1>4, ScriptsRest
<1>6. QED
  BY <1>5, RecordsDrain

\* The disk thread writes a snapshot or breaks; or the clock ticks.
LEMMA DiskRecord ==
  ASSUME TypeOK, RecordInv, Takes \/ Writes \/ Waits \/ Wakes \/ Second \/ Breaks
  PROVE  RecordInv'
<1>1. ghost \in Ghosts /\ disk \in Thread
  BY DEF TypeOK
<1>2. /\ todo' = todo /\ files' = files
      /\ ghost' = ghost \/ \E s \in Snap : Written(s)
      /\ disk'.file = disk.file
      /\ disk'.pc # "dead" => disk.pc # "dead"
      /\ q' = q \/ (q # <<>> /\ q' = Tail(q) /\ disk'.pc = "dead")
  <2>1. CASE Takes
    BY <1>1, <2>1 DEF Takes, out, Thread
  <2>2. CASE Writes
    <3>1. disk.job \in Snap
      BY <1>1 DEF Thread
    <3>2. QED
      BY <1>1, <2>2, <3>1 DEF Writes, Thread
  <2>3. CASE Waits
    BY <1>1, <2>3 DEF Waits, out, Thread
  <2>4. CASE Wakes
    BY <1>1, <2>4 DEF Wakes, out, Thread
  <2>5. CASE Second
    BY <2>5 DEF Second, out
  <2>6. CASE Breaks
    BY <1>1, <2>6 DEF Breaks, out, Thread
  <2>7. QED
    BY <2>1, <2>2, <2>3, <2>4, <2>5, <2>6
<1>3. /\ ghost'.opens = ghost.opens /\ ghost'.last = ghost.last /\ ghost'.took = ghost.took
      /\ ghost'.want = ghost.want /\ ghost'.kept = ghost.kept
  <2>1. CASE ghost' = ghost
    BY <2>1
  <2>2. CASE \E s \in Snap : Written(s)
    <3>1. PICK s \in Snap : Written(s)
      BY <2>2
    <3>2. PICK t : t = IF s.pub > ghost.top THEN s.pub ELSE ghost.top
      OBVIOUS
    <3>3. ghost' = [ghost EXCEPT !.top = t]
      BY <1>1, <3>1, <3>2 DEF Written, Ghosts
    <3>4. QED
      BY <1>1, <3>3 DEF Ghosts
  <2>3. QED
    BY <1>2, <2>1, <2>2
<1>4. \A d \in Callers : SameAsk(d) /\ (ghost'.kept[d] => ghost.kept[d])
  BY <1>3 DEF SameAsk
<1>5. \A d \in Callers : ScriptOK(d)'
  BY <1>2, <1>3, ScriptsRest
<1>6. /\ Handling' => Handling
      /\ disk'.file = disk.file
      /\ q' = q \/ (q # <<>> /\ q' = Tail(q) /\ ~Handling')
  BY <1>2 DEF Handling
<1>7. QED
  BY <1>2, <1>3, <1>4, <1>5, <1>6, RecordKeeps

LEMMA RecordInit == Init => RecordInv
<1>1. SUFFICES ASSUME Init PROVE RecordInv
  OBVIOUS
<1>2. PICK e : e = <<>>
  OBVIOUS
<1>3. /\ disk = [pc |-> "drain", job |-> None, file |-> Closed] /\ q = e
      /\ todo = [c \in Callers |-> e] /\ files = [s \in Seconds |-> e]
  BY <1>1, <1>2, Zenon DEF Init, Seconds
<1>4. /\ ghost.opens = [s \in Seconds |-> 0] /\ ghost.last = Closed /\ ghost.kept = [c \in Callers |-> FALSE]
      /\ ghost.want = [c \in Callers |-> [nth |-> 0, pub |-> 0, path |-> Closed, lines |-> <<>>]]
  <2>1. ghost = [top |-> 0, opens |-> [s \in Seconds |-> 0], took |-> <<>>, last |-> Closed,
                 want |-> [c \in Callers |-> [nth |-> 0, pub |-> 0, path |-> Closed, lines |-> <<>>]],
                 kept |-> [c \in Callers |-> FALSE]]
    BY <1>1, Zenon DEF Init, Seconds
  <2>2. QED
    BY <2>1
<1>5. Len(e) = 0 /\ e = <<>> /\ Len(q) = 0 /\ disk.file = Closed
  BY <1>2, <1>3
<1>6. Closed \notin Seconds
  BY TelemetryAssumption DEF Closed, Seconds
<1>7. \A c \in Callers : ghost.want[c].path = Closed /\ ~ghost.kept[c] /\ todo[c] = e
  BY <1>3, <1>4
<1>8. Placed(q, disk.file, ghost.last)
  BY <1>4, <1>5 DEF Placed, InFront
<1>9. FilesOK
  <2>1. ASSUME NEW p \in Seconds PROVE Untouched(p) /\ ghost.opens[p] = 0
    BY <1>3, <1>4, <1>5, <1>6, <1>7 DEF Untouched, Without
  <2>2. QED
    BY <2>1 DEF FilesOK
<1>10. \A c \in Callers : StoppedOK(c) /\ ScriptOK(c)
  BY <1>5, <1>7 DEF StoppedOK, ScriptOK, Once, ClosesFirst, Closing
<1>11. ~Once(ghost.last)
  BY <1>4 DEF Once
<1>12. QED
  BY <1>8, <1>9, <1>10, <1>11 DEF RecordInv

LEMMA RecordNext == IInv /\ RecordInv /\ [Next]_vars => RecordInv'
<1>1. SUFFICES ASSUME IInv, RecordInv, [Next]_vars PROVE RecordInv'
  OBVIOUS
<1>2. TypeOK /\ FlushInv
  BY <1>1 DEF IInv
<1>3. CASE UNCHANGED vars
  <2>1. disk' = disk /\ files' = files /\ q' = q /\ ghost' = ghost /\ todo' = todo
    BY <1>3 DEF vars, cache, obs, out
  <2>2. \A d \in Callers : ScriptOK(d)'
    BY <1>1, <1>2, <2>1, ScriptsRest
  <2>3. QED
    BY <1>1, <1>2, <2>1, <2>2, RecordRests
<1>4. CASE Next
  BY <1>1, <1>2, <1>4, DrainsRecord, DiskRecord, ReaderRecord, CallerRecord DEF Next, Disk
<1>5. QED
  BY <1>1, <1>3, <1>4

(* The queue opens, fills and closes the recordings in the order of the    *)
(* calls: each line finds its own file open, and a file holds the first    *)
(* lines of its recording while the queue has the rest in order.           *)
THEOREM RecordingsInvariant == Spec => []RecordInv
<1>1. Init => RecordInv
  BY RecordInit
<1>2. QED
  BY <1>1, RecorderInvariant, RecordNext, PTL DEF Spec

(* When stop_recording has flushed, the file of the recording holds every  *)
(* line queued between its opening and its close, in order and no other,   *)
(* unless another recording was started in the same second.  The other     *)
(* calls that close a recording (disconnect, close) flush nothing, and     *)
(* nothing is said of them.                                                *)
THEOREM RecordingsComplete == Spec => []RecordingComplete
<1>1. RecordInv => RecordingComplete
  BY DEF RecordInv, StoppedOK, Once, RecordingComplete
<1>2. QED
  BY <1>1, RecordingsInvariant, PTL
=============================================================================
