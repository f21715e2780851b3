------------------------- MODULE HostSession_proofs -------------------------
(***************************************************************************)
(* Proofs about HostSession, for any number of threads, any length of the  *)
(* queue and all plans of calls.                                           *)
(***************************************************************************)
EXTENDS HostSession, SequenceTheorems, TLAPS

-----------------------------------------------------------------------------
(* Sequences. *)

\* r is s without its first n elements.
Off(s, r, n) ==
  /\ n \in 0..Len(s) /\ Len(r) = Len(s) - n
  /\ \A i \in 1..Len(r) : r[i] = s[i + n]

LEMMA TailOff ==
  ASSUME NEW S, NEW s \in Seq(S), s # <<>>
  PROVE  /\ Tail(s) \in Seq(S) /\ Off(s, Tail(s), 1) /\ Len(s) \in Nat \ {0}
         /\ Head(s) = s[1] /\ Head(s) \in S
BY DEF Off

LEMMA SubSeqOff ==
  ASSUME NEW S, NEW s \in Seq(S), NEW n \in 0..Len(s)
  PROVE  SubSeq(s, n + 1, Len(s)) \in Seq(S) /\ Off(s, SubSeq(s, n + 1, Len(s)), n)
BY DEF Off

LEMMA TailTailOff ==
  ASSUME NEW S, NEW s \in Seq(S), Len(s) >= 2
  PROVE  Tail(Tail(s)) \in Seq(S) /\ Off(s, Tail(Tail(s)), 2)
<1>1. Tail(s) \in Seq(S) /\ Len(Tail(s)) = Len(s) - 1 /\ \A i \in 1..(Len(s) - 1) : Tail(s)[i] = s[i + 1]
  OBVIOUS
<1>2. PICK q : q = Tail(s)
  OBVIOUS
<1>3. q \in Seq(S) /\ Len(q) = Len(s) - 1 /\ Len(q) >= 1 /\ q # <<>>
  <2>1. q \in Seq(S) /\ Len(q) = Len(s) - 1
    BY <1>1, <1>2
  <2>2. Len(q) >= 1
    BY <2>1
  <2>3. QED
    BY <2>1, <2>2
<1>4. Tail(q) \in Seq(S) /\ Len(Tail(q)) = Len(q) - 1 /\ \A i \in 1..(Len(q) - 1) : Tail(q)[i] = q[i + 1]
  BY <1>3
<1>5. \A i \in 1..(Len(s) - 2) : Tail(q)[i] = s[i + 2]
  BY <1>1, <1>2, <1>3, <1>4
<1>6. QED
  BY <1>2, <1>3, <1>4, <1>5 DEF Off

-----------------------------------------------------------------------------
(* The replies among some frames. *)

LEMMA ReplyIs ==
  ASSUME NEW s \in Seq(Frame), NEW x
  PROVE  x \in RepliesIn(s) <=> \E i \in 1..Len(s) : s[i].kind = "reply" /\ s[i].n = x
<1>1. DOMAIN s = 1..Len(s)
  OBVIOUS
<1>2. QED
  BY <1>1, Zenon DEF RepliesIn

Its(f) == IF f.kind = "reply" THEN {f.n} ELSE {}   \* the reply a frame is

LEMMA RepliesNone == RepliesIn(<<>>) = {}
BY DEF RepliesIn

LEMMA RepliesAppend ==
  ASSUME NEW s \in Seq(Frame), NEW f \in Frame
  PROVE  RepliesIn(Append(s, f)) = RepliesIn(s) \cup Its(f)
<1>1. PICK a : a = Append(s, f)
  OBVIOUS
<1>2. a \in Seq(Frame) /\ Len(a) = Len(s) + 1 /\ a[Len(s) + 1] = f /\ \A i \in 1..Len(s) : a[i] = s[i]
  BY <1>1
<1>3. ASSUME NEW x PROVE x \in RepliesIn(a) <=> x \in RepliesIn(s) \cup Its(f)
  <2>1. x \in RepliesIn(a) <=> \E i \in 1..Len(a) : a[i].kind = "reply" /\ a[i].n = x
    BY <1>2, ReplyIs
  <2>2. x \in RepliesIn(s) <=> \E i \in 1..Len(s) : s[i].kind = "reply" /\ s[i].n = x
    BY ReplyIs
  <2>3. QED
    BY <1>2, <2>1, <2>2 DEF Its
<1>4. QED
  BY <1>1, <1>3

LEMMA RepliesTail ==
  ASSUME NEW s \in Seq(Frame), s # <<>>
  PROVE  RepliesIn(s) = RepliesIn(Tail(s)) \cup Its(Head(s))
<1>1. PICK a : a = Tail(s)
  OBVIOUS
<1>2. a \in Seq(Frame) /\ Len(a) = Len(s) - 1 /\ Head(s) = s[1] /\ \A i \in 1..Len(a) : a[i] = s[i + 1]
  BY <1>1
<1>3. ASSUME NEW x PROVE x \in RepliesIn(s) <=> x \in RepliesIn(a) \cup Its(s[1])
  <2>1. x \in RepliesIn(a) <=> \E i \in 1..Len(a) : a[i].kind = "reply" /\ a[i].n = x
    BY <1>2, ReplyIs
  <2>2. x \in RepliesIn(s) <=> \E i \in 1..Len(s) : s[i].kind = "reply" /\ s[i].n = x
    BY ReplyIs
  <2>3. ASSUME NEW i \in 1..Len(s) PROVE i = 1 \/ (i - 1 \in 1..Len(a) /\ a[i - 1] = s[i])
    BY <1>2
  <2>4. Len(s) >= 1 /\ \A i \in 1..Len(a) : i + 1 \in 1..Len(s)
    BY <1>2
  <2>5. QED
    BY <1>2, <2>1, <2>2, <2>3, <2>4 DEF Its
<1>4. QED
  BY <1>1, <1>2, <1>3

LEMMA RepliesConcat ==
  ASSUME NEW a \in Seq(Frame), NEW b \in Seq(Frame)
  PROVE  RepliesIn(a \o b) = RepliesIn(a) \cup RepliesIn(b)
<1>1. PICK c : c = a \o b
  OBVIOUS
<1>2. /\ c \in Seq(Frame) /\ Len(c) = Len(a) + Len(b)
      /\ \A i \in 1..Len(c) : c[i] = IF i <= Len(a) THEN a[i] ELSE b[i - Len(a)]
  BY <1>1, ConcatProperties
<1>3. ASSUME NEW x PROVE x \in RepliesIn(c) <=> x \in RepliesIn(a) \cup RepliesIn(b)
  <2>1. x \in RepliesIn(a) <=> \E i \in 1..Len(a) : a[i].kind = "reply" /\ a[i].n = x
    BY ReplyIs
  <2>2. x \in RepliesIn(b) <=> \E i \in 1..Len(b) : b[i].kind = "reply" /\ b[i].n = x
    BY ReplyIs
  <2>3. x \in RepliesIn(c) <=> \E i \in 1..Len(c) : c[i].kind = "reply" /\ c[i].n = x
    BY <1>2, ReplyIs
  <2>4. \A i \in 1..Len(c) : (i \in 1..Len(a) /\ c[i] = a[i]) \/ (i - Len(a) \in 1..Len(b) /\ c[i] = b[i - Len(a)])
    BY <1>2
  <2>5. \A i \in 1..Len(a) : i \in 1..Len(c) /\ c[i] = a[i]
    BY <1>2
  <2>6. \A i \in 1..Len(b) : i + Len(a) \in 1..Len(c) /\ c[i + Len(a)] = b[i]
    BY <1>2
  <2>7. x \in RepliesIn(c) => x \in RepliesIn(a) \cup RepliesIn(b)
    BY <2>1, <2>2, <2>3, <2>4, Zenon
  <2>8. x \in RepliesIn(a) => x \in RepliesIn(c)
    BY <2>1, <2>3, <2>5, Zenon
  <2>9. x \in RepliesIn(b) => x \in RepliesIn(c)
    BY <2>2, <2>3, <2>6, Zenon
  <2>10. QED
    BY <2>7, <2>8, <2>9
<1>4. QED
  BY <1>1, <1>3

LEMMA RepliesPart ==
  ASSUME NEW s \in Seq(Frame), NEW m \in 1..(Len(s) + 1), NEW n \in Nat, n <= Len(s)
  PROVE  SubSeq(s, m, n) \in Seq(Frame) /\ RepliesIn(SubSeq(s, m, n)) \subseteq RepliesIn(s)
<1>1. PICK a : a = SubSeq(s, m, n)
  OBVIOUS
<1>2. a \in Seq(Frame) /\ \A i \in 1..Len(a) : i + m - 1 \in 1..Len(s) /\ a[i] = s[i + m - 1]
  BY <1>1
<1>3. ASSUME NEW x \in RepliesIn(a) PROVE x \in RepliesIn(s)
  <2>1. PICK i \in 1..Len(a) : a[i].kind = "reply" /\ a[i].n = x
    BY <1>2, ReplyIs
  <2>2. i + m - 1 \in 1..Len(s) /\ s[i + m - 1].kind = "reply" /\ s[i + m - 1].n = x
    BY <1>2, <2>1
  <2>3. \E j \in 1..Len(s) : s[j].kind = "reply" /\ s[j].n = x
    BY <2>2
  <2>4. QED
    BY <2>3, ReplyIs
<1>4. QED
  BY <1>1, <1>2, <1>3

-----------------------------------------------------------------------------
(* Scripts. *)

Kinds == Opens \cup Shared \cup {"rpc", "close"}

LEMMA Scripts ==
  ASSUME NEW call \in Kinds, NEW at, call = "close" => at = "closing"
  PROVE  /\ Script(call) \in Seq(Steps) /\ Len(Script(call)) \in Nat \ {0}
         /\ Ordered(Script(call), at) /\ ~Starting(Script(call))
         /\ Script(call)[1] \notin {"ask", "poll"}
         /\ call \in Shared => \A i \in 1..Len(Script(call)) : Script(call)[i] \in Common
<1> DEFINE Good(s) == /\ s \in Seq(Steps) /\ Len(s) \in Nat \ {0} /\ Ordered(s, at) /\ ~Starting(s)
                      /\ s[1] \notin {"ask", "poll"}
           Plain(s) == \A i \in 1..Len(s) : s[i] \in Common
<1> USE DEF Ordered, Starting, Steps, Common
<1>1. CASE call = "open"
  <2>1. Good(Script(call)) /\ call \notin Shared
    BY <1>1 DEF Script, Shared
  <2>2. QED
    BY <2>1
<1>2. CASE call = "open_armed"
  <2>1. Good(Script(call)) /\ call \notin Shared
    BY <1>2 DEF Script, Shared
  <2>2. QED
    BY <2>1
<1>3. CASE call = "arm"
  <2>1. Good(Script(call)) /\ Plain(Script(call))
    BY <1>3 DEF Script
  <2>2. QED
    BY <2>1
<1>4. CASE call = "disarm"
  <2>1. Good(Script(call)) /\ Plain(Script(call))
    BY <1>4 DEF Script
  <2>2. QED
    BY <2>1
<1>5. CASE call = "refresh"
  <2>1. Good(Script(call)) /\ Plain(Script(call))
    BY <1>5 DEF Script, HubSend
  <2>2. QED
    BY <2>1
<1>6. CASE call = "look"
  <2>1. Good(Script(call)) /\ Plain(Script(call))
    BY <1>6 DEF Script
  <2>2. QED
    BY <2>1
<1>7. CASE call = "status"
  <2>1. Good(Script(call)) /\ Plain(Script(call))
    BY <1>7 DEF Script
  <2>2. QED
    BY <2>1
<1>8. CASE call = "rpc"
  <2>1. Good(Script(call)) /\ call \notin Shared
    BY <1>8 DEF Script, Rpc, Shared
  <2>2. QED
    BY <2>1
<1>9. CASE call = "close"
  <2>1. Good(Script(call)) /\ call \notin Shared
    BY <1>9 DEF Script, Close, Shared
  <2>2. QED
    BY <2>1
<1>10. QED
  BY <1>1, <1>2, <1>3, <1>4, <1>5, <1>6, <1>7, <1>8, <1>9 DEF Kinds, Opens, Shared

\* Where a script of the opener's thread is, after some of its steps.
LEMMA OrderedOff ==
  ASSUME NEW s \in Seq(Steps), NEW r \in Seq(Steps), NEW n \in Nat, NEW at,
         Off(s, r, n), Ordered(s, at)
  PROVE  Ordered(r, at)
<1>1. Len(r) = Len(s) - n /\ Len(s) \in Nat /\ Len(r) \in Nat /\ \A i \in 1..Len(r) : r[i] = s[i + n] /\ i + n \in 1..Len(s)
  BY DEF Off
<1>2. ASSUME NEW i \in 1..Len(r)
      PROVE  /\ r[i] \notin {"store", "stats"}
             /\ r[i] = "alive" => i + 3 <= Len(r) /\ r[i + 3] = "spawn"
             /\ r[i] = "spawn" /\ i > 1 => r[i - 1] = "write"
             /\ r[i] = "spawn" => (i > 3 => r[i - 3] = "alive") /\ \A j \in 1..Len(r) : r[j] = "spawn" => j = i
             /\ r[i] \in {"pause", "stop"} => i + 1 <= Len(r) /\ r[i + 1] = "join"
             /\ r[i] = "ask" /\ i > 1 => r[i - 1] = "join"
             /\ r[i] = "poll" /\ i > 1 => r[i - 1] = "ask"
             /\ r[i] = "resume" => i + 1 <= Len(r) /\ r[i + 1] = "alive"
             /\ r[i] \in {"linger", "stop", "shut"} => at = "closing"
  <2> DEFINE k == i + n
  <2>1. k \in 1..Len(s) /\ r[i] = s[k]
    BY <1>1
  <2>2. /\ s[k] \notin {"store", "stats"}
        /\ s[k] = "alive" => k + 3 <= Len(s) /\ s[k + 3] = "spawn"
        /\ s[k] = "spawn" /\ k > 1 => s[k - 1] = "write"
        /\ s[k] = "spawn" => (k > 3 => s[k - 3] = "alive") /\ \A j \in 1..Len(s) : s[j] = "spawn" => j = k
        /\ s[k] \in {"pause", "stop"} => k + 1 <= Len(s) /\ s[k + 1] = "join"
        /\ s[k] = "ask" /\ k > 1 => s[k - 1] = "join"
        /\ s[k] = "poll" /\ k > 1 => s[k - 1] = "ask"
        /\ s[k] = "resume" => k + 1 <= Len(s) /\ s[k + 1] = "alive"
        /\ s[k] \in {"linger", "stop", "shut"} => at = "closing"
    BY <2>1 DEF Ordered
  <2>3. r[i] = "alive" => i + 3 <= Len(r) /\ r[i + 3] = "spawn"
    BY <1>1, <2>1, <2>2
  <2>4. r[i] = "spawn" => (i > 3 => r[i - 3] = "alive") /\ \A j \in 1..Len(r) : r[j] = "spawn" => j = i
    <3>1. SUFFICES ASSUME r[i] = "spawn" PROVE (i > 3 => r[i - 3] = "alive") /\ \A j \in 1..Len(r) : r[j] = "spawn" => j = i
      OBVIOUS
    <3>2. i > 3 => r[i - 3] = "alive"
      <4>1. ASSUME i > 3 PROVE i - 3 \in 1..Len(r) /\ (i - 3) + n = k - 3 /\ k > 3
        BY <1>1, <4>1
      <4>2. ASSUME i > 3 PROVE r[i - 3] = s[k - 3] /\ k > 3
        <5>1. r[i - 3] = s[(i - 3) + n]
          BY <1>1, <4>1, <4>2
        <5>2. QED
          BY <5>1, <4>1, <4>2
      <4>3. QED
        BY <2>1, <2>2, <3>1, <4>2
    <3>3. QED
      BY <1>1, <2>1, <2>2, <3>1, <3>2
  <2>5. r[i] \in {"pause", "stop"} => i + 1 <= Len(r) /\ r[i + 1] = "join"
    BY <1>1, <2>1, <2>2
  <2>6. i > 1 => r[i - 1] = s[k - 1] /\ k > 1
    <3>1. ASSUME i > 1 PROVE i - 1 \in 1..Len(r) /\ (i - 1) + n = k - 1 /\ k > 1
      BY <1>1, <3>1
    <3>2. ASSUME i > 1 PROVE r[i - 1] = s[(i - 1) + n]
      BY <1>1, <3>1, <3>2
    <3>3. QED
      BY <3>1, <3>2
  <2>7. r[i] = "resume" => i + 1 <= Len(r) /\ r[i + 1] = "alive"
    BY <1>1, <2>1, <2>2
  <2>8. QED
    BY <2>1, <2>2, <2>3, <2>4, <2>5, <2>6, <2>7
<1>3. QED
  BY <1>2 DEF Ordered

\* After one step that is not "alive" no start of the stream begins.
LEMMA StartingOff ==
  ASSUME NEW s \in Seq(Steps), NEW r \in Seq(Steps), NEW n \in Nat, NEW at, Off(s, r, n), Ordered(s, at),
         \/ n = 1 /\ s[1] # "alive"
         \/ n = 2 /\ s[1] = "pause"
         \/ n = 4 /\ s[1] = "alive"
         \/ n = 5 /\ s[1] = "resume"
  PROVE  Starting(r) => Starting(s) /\ s[1] # "spawn"
<1>1. /\ Len(r) = Len(s) - n /\ Len(s) \in Nat /\ n <= Len(s) /\ Len(r) \in Nat
      /\ \A i \in 1..Len(r) : r[i] = s[i + n] /\ i + n \in 1..Len(s)
  BY DEF Off
<1>2. SUFFICES ASSUME NEW i \in 1..Len(r), i <= 3, r[i] = "spawn" PROVE Starting(s) /\ s[1] # "spawn"
  BY DEF Starting
<1>3. s[i + n] = "spawn" /\ i + n \in 1..Len(s)
  BY <1>1, <1>2
<1>4. (i + n > 3 => s[(i + n) - 3] = "alive") /\ \A j \in 1..Len(s) : s[j] = "spawn" => j = i + n
  BY <1>3 DEF Ordered
<1>5. CASE n = 1 /\ s[1] # "alive"
  <2>1. i + 1 <= 3
    <3>1. i = 3 => s[(i + n) - 3] = s[1] /\ i + n > 3
      BY <1>5
    <3>2. QED
      BY <1>2, <1>4, <1>5, <3>1
  <2>2. Starting(s)
    BY <1>3, <1>5, <2>1 DEF Starting
  <2>3. s[1] # "spawn"
    BY <1>3, <1>4, <1>5
  <2>4. QED
    BY <1>5, <2>2, <2>3
<1>6. CASE n = 2 /\ s[1] = "pause"
  <2>1. s[2] = "join"
    BY <1>1, <1>6 DEF Ordered
  <2>2. (i = 2 => (i + n) - 3 = 1 /\ i + n > 3) /\ (i = 3 => (i + n) - 3 = 2 /\ i + n > 3) /\ i \in 1..3
    BY <1>2, <1>6
  <2>3. i = 1 
    BY <1>4, <1>6, <2>1, <2>2
  <2>4. s[3] = "spawn" /\ 3 \in 1..Len(s)
    BY <1>3, <1>6, <2>3
  <2>5. QED
    BY <1>6, <2>4 DEF Starting
<1>7. CASE n = 4 /\ s[1] = "alive"
  <2>1. s[4] = "spawn" /\ 4 \in 1..Len(s)
    BY <1>1, <1>7 DEF Ordered
  <2>2. QED
    BY <1>4, <1>7, <2>1
<1>8. CASE n = 5 /\ s[1] = "resume"
  <2>1. s[2] = "alive" /\ 2 \in 1..Len(s)
    BY <1>1, <1>8 DEF Ordered
  <2>2. s[2 + 3] = "spawn" /\ 2 + 3 \in 1..Len(s)
    BY <1>1, <1>8, <2>1 DEF Ordered
  <2>3. QED
    BY <1>4, <1>8, <2>2
<1>9. QED
  BY <1>5, <1>6, <1>7, <1>8

-----------------------------------------------------------------------------
(* What a step of one thread keeps. *)

\* Only thread t may have changed.
Only(t) == th' \in [Threads -> Thread] /\ \A u \in Threads \ {t} : th'[u] = th[u]

LEMMA ThreadIs ==
  ASSUME TypeOK, NEW t \in Threads
  PROVE  /\ th[t] \in Thread /\ th[t].todo \in Seq(Steps) /\ th[t].hold \in Seq(Frame)
         /\ th[t].img \in BOOLEAN /\ th[t].got \in Frame /\ th[t].was \in BOOLEAN
BY DEF TypeOK, Thread

LEMMA HoldMoves ==
  ASSUME HoldInv, NEW t \in Threads, Only(t),
         th'[t].hold # <<>> => th'[t].todo # <<>> /\ Head(th'[t].todo) \in {"drain", "push"}
  PROVE  HoldInv'
<1>1. ASSUME NEW u \in Threads, th'[u].hold # <<>> PROVE At(u, "drain")' \/ At(u, "push")'
  <2>1. CASE u = t
    BY <1>1, <2>1 DEF At
  <2>2. CASE u # t
    <3>1. th'[u] = th[u]
      BY <2>2 DEF Only
    <3>2. At(u, "drain") \/ At(u, "push")
      BY <1>1, <3>1 DEF HoldInv
    <3>3. QED
      BY <3>1, <3>2 DEF At
  <2>3. QED
    BY <2>1, <2>2
<1>2. QED
  BY <1>1 DEF HoldInv

\* What the threads other than t hold.
HeldBut(t) == UNION {RepliesIn(th[u].hold) : u \in Threads \ {t}}

LEMMA HeldIs ==
  ASSUME NEW t \in Threads
  PROVE  Held = HeldBut(t) \cup RepliesIn(th[t].hold)
BY DEF Held, HeldBut

LEMMA HeldButSame ==
  ASSUME NEW t \in Threads, Only(t)
  PROVE  HeldBut(t)' = HeldBut(t)
BY DEF HeldBut, Only

LEMMA HeldNext ==
  ASSUME NEW t \in Threads, Only(t)
  PROVE  Held' = HeldBut(t) \cup RepliesIn(th'[t].hold)
<1>1. Held' = HeldBut(t)' \cup RepliesIn(th'[t].hold)
  BY DEF Held, HeldBut
<1>2. QED
  BY <1>1, HeldButSame

LEMMA OthersMove ==
  ASSUME OthersInv, NEW t \in Threads, Only(t), plan' = plan,
         t \in Others => \A i \in 1..Len(th'[t].todo) : th'[t].todo[i] \in Common
  PROVE  OthersInv'
<1>1. ASSUME NEW u \in Others
      PROVE  /\ \A i \in 1..Len(th'[u].todo) : th'[u].todo[i] \in Common
             /\ \A i \in 1..Len(plan'.calls[u]) : plan'.calls[u][i] \in Shared
  <2>1. \A i \in 1..Len(plan'.calls[u]) : plan'.calls[u][i] \in Shared
    BY DEF OthersInv
  <2>2. CASE u = t
    BY <2>1, <2>2
  <2>3. CASE u # t
    <3>1. th'[u] = th[u]
      BY <2>3 DEF Only, Threads, Callers
    <3>2. \A i \in 1..Len(th[u].todo) : th[u].todo[i] \in Common
      BY DEF OthersInv
    <3>3. QED
      BY <2>1, <3>1, <3>2
  <2>4. QED
    BY <2>2, <2>3
<1>2. QED
  BY <1>1 DEF OthersInv

LEMMA CommonOff ==
  ASSUME NEW s \in Seq(Steps), NEW r \in Seq(Steps), NEW n \in Nat, Off(s, r, n),
         \A i \in 1..Len(s) : s[i] \in Common
  PROVE  \A i \in 1..Len(r) : r[i] \in Common
<1>1. Len(r) = Len(s) - n /\ Len(s) \in Nat /\ \A i \in 1..Len(r) : r[i] = s[i + n] /\ i + n \in 1..Len(s)
  BY DEF Off
<1>2. QED
  BY <1>1

\* A thread that is not draining takes steps of its script.
LEMMA Walk ==
  ASSUME TypeOK, HoldInv, OthersInv, RepliesKept, NEW t \in Threads, NEW n \in Nat,
         Only(t), th[t].todo # <<>>, Head(th[t].todo) \notin {"drain", "push"},
         Off(th[t].todo, th'[t].todo, n), th'[t].hold \in {th[t].hold, <<>>},
         UNCHANGED <<queue, plan>>, asked'.answered = asked.answered,
         ghost'.taken = ghost.taken, ghost'.lost = ghost.lost
  PROVE  HoldInv' /\ OthersInv' /\ RepliesKept'
<1>1. th[t].hold = <<>> /\ th'[t].hold = <<>>
  BY DEF HoldInv, At
<1>2. HoldInv'
  BY <1>1, HoldMoves
<1>3. th[t].todo \in Seq(Steps) /\ th'[t].todo \in Seq(Steps)
  BY DEF Only, TypeOK, Thread
<1>4. t \in Others => \A i \in 1..Len(th'[t].todo) : th'[t].todo[i] \in Common
  <2>1. SUFFICES ASSUME t \in Others PROVE \A i \in 1..Len(th'[t].todo) : th'[t].todo[i] \in Common
    OBVIOUS
  <2>2. \A i \in 1..Len(th[t].todo) : th[t].todo[i] \in Common
    BY <2>1 DEF OthersInv
  <2>3. QED
    BY <1>3, <2>2, CommonOff
<1>5. OthersInv'
  BY <1>4, OthersMove
<1>6. Held' = Held
  BY <1>1, HeldIs, HeldNext
<1>7. RepliesKept'
  BY <1>6 DEF RepliesKept
<1>8. QED
  BY <1>2, <1>5, <1>7

LEMMA StreamStays ==
  ASSUME StreamInv, th'["stream"].todo = th["stream"].todo
  PROVE  StreamInv' /\ (Streaming' <=> Streaming)
BY DEF StreamInv, Streaming

-----------------------------------------------------------------------------
(* The opener's thread. *)

LEMMA OwnerIs ==
  /\ Owner \in Threads /\ Owner \in Callers /\ "stream" \in Threads /\ Owner # "stream"
  /\ \A c \in Callers : c \in Threads /\ c # "stream" /\ (c = Owner \/ (c \in Others /\ c # Owner))
BY SessionAssumption DEF Threads, Callers

\* Where nobody but another caller moved, what is known of the opener stays.
LEMMA OwnerStays ==
  ASSUME TypeOK, OwnerInv, ClosingInv,
         th'[Owner].todo = th[Owner].todo, th'[Owner].img = th[Owner].img,
         th'["stream"].todo = th["stream"].todo, th'["stream"].img = th["stream"].img,
         phase' = phase, stopping' = stopping, plan'.calls[Owner] = plan.calls[Owner],
         ghost.crossed => ghost'.crossed,
         phase = "closing" /\ ~ghost'.crossed => apply' = apply /\ board' = board,
         phase = "closed" => board' = board
  PROVE  OwnerInv' /\ ClosingInv'
<1>1. OwnerInv'
  BY DEF OwnerInv, Streaming, At
<1>2. Reached(Len(th[Owner].todo)) /\ phase = "closing" /\ ~ghost'.crossed => Reached(Len(th[Owner].todo))'
  BY DEF Reached, Streaming, At
<1>3. phase = "closing" /\ ~ghost'.crossed => Reached(Len(th[Owner].todo))'
  BY <1>2 DEF ClosingInv
<1>4. Streaming' <=> Streaming
  BY DEF Streaming
<1>5. phase = "closed" => (board' => ghost'.crossed)
  BY DEF ClosingInv
<1>6. ClosingInv'
  BY <1>3, <1>4, <1>5 DEF ClosingInv
<1>7. QED
  BY <1>1, <1>6

LEMMA Unphased ==
  ASSUME NEW s \in Seq(Steps), NEW at, NEW after, Ordered(s, at), at = after \/ at # "closing"
  PROVE  Ordered(s, after)
BY DEF Ordered

\* The opener's thread takes n steps of its script.
LEMMA OwnerWalks ==
  ASSUME TypeOK, OwnerInv, NEW n \in Nat, Only(Owner), th[Owner].todo # <<>>,
         Off(th[Owner].todo, th'[Owner].todo, n),
         phase' = phase \/ phase # "closing", plan' = plan,
         \/ n = 1 /\ ~At(Owner, "alive") /\ ~At(Owner, "pause") /\ ~At(Owner, "stop") /\ stopping' = stopping
         \/ n = 1 /\ At(Owner, "alive") /\ ~Streaming /\ ~stopping'
         \/ n = 1 /\ (At(Owner, "pause") \/ At(Owner, "stop"))
         \/ n = 2 /\ At(Owner, "pause") /\ ~Streaming /\ stopping' = stopping
         \/ n = 4 /\ At(Owner, "alive") /\ stopping' = stopping
         \/ n = 5 /\ At(Owner, "resume") /\ stopping' = stopping,
         At(Owner, "join") => ~Streaming
  PROVE  OwnerInv'
<1> DEFINE s == th[Owner].todo
           r == th'[Owner].todo
<1>1. s \in Seq(Steps) /\ r \in Seq(Steps) /\ th'["stream"] = th["stream"] /\ (Streaming' <=> Streaming)
  BY OwnerIs DEF TypeOK, Only, Thread, Streaming
<1>2. \A step : At(Owner, step) <=> s[1] = step
  BY <1>1, TailOff DEF At
<1>3. \A step : At(Owner, step)' <=> r # <<>> /\ r[1] = step
  BY <1>1, TailOff DEF At
<1>4. /\ Ordered(s, phase) /\ (Starting(s) => ~Streaming /\ ~stopping)
      /\ (s[1] \in {"ask", "poll"} => ~Streaming) /\ (Streaming /\ stopping => s[1] = "join")
  BY <1>2 DEF OwnerInv
<1>5. /\ n \in 0..Len(s) /\ Len(r) = Len(s) - n /\ Len(s) \in Nat /\ Len(r) \in Nat
      /\ \A i \in 1..Len(r) : r[i] = s[i + n] /\ i + n \in 1..Len(s)
  BY <1>1 DEF Off
<1>6. \/ n = 1 /\ s[1] \notin {"alive", "pause", "stop"} /\ stopping' = stopping
      \/ n = 1 /\ s[1] = "alive" /\ ~Streaming /\ ~stopping'
      \/ n = 1 /\ s[1] \in {"pause", "stop"}
      \/ n = 2 /\ s[1] = "pause" /\ ~Streaming /\ stopping' = stopping
      \/ n = 4 /\ s[1] = "alive" /\ stopping' = stopping
      \/ n = 5 /\ s[1] = "resume" /\ stopping' = stopping
  BY <1>2
<1>7. s[1] = "join" => ~Streaming
  BY <1>2
<1>8. Off(s, r, n)
  OBVIOUS
<1> HIDE DEF s, r
<1>9. Ordered(r, phase')
  <2>1. Ordered(r, phase)
    BY <1>1, <1>4, <1>8, OrderedOff
  <2>2. QED
    BY <1>1, <2>1, Unphased
<1>10. 1 \in 1..Len(s)
  BY <1>1, <1>5, <1>6
<1>11. Starting(r) => ~Streaming /\ ~stopping'
  <2>1. CASE n = 1 /\ s[1] = "alive" /\ ~Streaming /\ ~stopping'
    BY <2>1
  <2>2. CASE ~(n = 1 /\ s[1] = "alive")
    <3>1. Starting(r) => Starting(s) /\ s[1] # "spawn"
      BY <1>1, <1>4, <1>6, <1>8, <2>2, StartingOff
    <3>2. s[1] \in {"pause", "stop"} /\ n = 1 => ~Starting(r)
      <4>1. SUFFICES ASSUME s[1] \in {"pause", "stop"}, n = 1, NEW i \in 1..Len(r), i <= 3, r[i] = "spawn" PROVE FALSE
        BY DEF Starting
      <4>2. s[2] = "join" /\ s[i + 1] = "spawn" /\ i + 1 \in 1..Len(s)
        BY <1>4, <1>5, <1>10, <4>1 DEF Ordered
      <4>3. s[(i + 1) - 1] = "write" /\ (i + 1 > 3 => s[(i + 1) - 3] = "alive")
        <5> DEFINE k == i + 1
        <5>1. k \in 1..Len(s) /\ k > 1 /\ s[k] = "spawn"
          BY <4>2
        <5> HIDE DEF k
        <5>2. s[k - 1] = "write" /\ (k > 3 => s[k - 3] = "alive")
          BY <1>4, <5>1 DEF Ordered
        <5>3. QED
          BY <5>2 DEF k
      <4>4. (i = 1 \/ i = 2 \/ i = 3) /\ (i + 1) - 1 = i
        BY <4>1
      <4>5. i # 1
        BY <4>1, <4>3
      <4>6. i # 2
        BY <4>2, <4>3
      <4>7. i # 3
        <5>1. i = 3 => i + 1 > 3 /\ (i + 1) - 3 = 1
          OBVIOUS
        <5>2. QED
          BY <4>1, <4>3, <5>1
      <4>8. QED
        BY <4>4, <4>5, <4>6, <4>7
    <3>3. QED
      BY <1>4, <1>6, <2>2, <3>1, <3>2
  <2>3. QED
    BY <1>6, <2>1, <2>2
<1>12. r # <<>> => Len(r) >= 1
  BY <1>1
<1>13. r # <<>> /\ r[1] \in {"ask", "poll"} => ~Streaming
  <2>1. SUFFICES ASSUME r # <<>>, r[1] \in {"ask", "poll"} PROVE ~Streaming
    OBVIOUS
  <2>2. 1 + n \in 1..Len(s) /\ s[1 + n] = r[1] /\ 1 \in 1..Len(r)
    BY <1>5, <1>12, <2>1
  <2> DEFINE k == 1 + n
  <2>3. k \in 1..Len(s) /\ k > 1 /\ k - 1 = n
    BY <1>6, <2>2
  <2>4. (s[k] = "ask" => s[k - 1] = "join") /\ (s[k] = "poll" => s[k - 1] = "ask")
    <3> HIDE DEF k
    <3>1. QED
      BY <1>4, <2>3 DEF Ordered
  <2>5. s[n] \in {"join", "ask"}
    BY <2>1, <2>2, <2>3, <2>4
  <2>6. CASE n = 1
    BY <1>4, <1>7, <2>5, <2>6
  <2>7. CASE n = 2
    BY <1>6, <2>7
  <2>8. CASE n = 4
    <3>1. s[4] = "spawn"
      BY <1>4, <1>6, <1>10, <2>8 DEF Ordered
    <3>2. QED
      BY <2>5, <2>8, <3>1
  <2>9. CASE n = 5
    <3>1. s[2] = "alive" /\ 2 \in 1..Len(s)
      BY <1>4, <1>6, <1>10, <2>9 DEF Ordered
    <3>2. s[2 + 3] = "spawn"
      BY <1>4, <3>1 DEF Ordered
    <3>3. QED
      BY <2>5, <2>9, <3>2
  <2>10. QED
    BY <1>6, <2>6, <2>7, <2>8, <2>9
<1>14. Streaming /\ stopping' => r # <<>> /\ r[1] = "join"
  <2>1. CASE n = 1 /\ s[1] \in {"pause", "stop"}
    <3>1. s[2] = "join" /\ 2 \in 1..Len(s)
      BY <1>4, <1>10, <2>1 DEF Ordered
    <3>2. 1 \in 1..Len(r) /\ r[1] = s[2]
      BY <1>5, <2>1, <3>1
    <3>3. r # <<>>
      BY <1>1, <3>2
    <3>4. QED
      BY <3>1, <3>2, <3>3
  <2>2. CASE ~(n = 1 /\ s[1] \in {"pause", "stop"})
    BY <1>4, <1>6, <1>7, <2>2
  <2>3. QED
    BY <2>1, <2>2
<1>15. \A i \in 1..(Len(plan'.calls[Owner]) - 1) : plan'.calls[Owner][i] # "close"
  BY DEF OwnerInv
<1>16. /\ Ordered(th'[Owner].todo, phase') /\ (Starting(th'[Owner].todo) => ~Streaming' /\ ~stopping')
       /\ (At(Owner, "ask")' \/ At(Owner, "poll")' => ~Streaming')
       /\ (Streaming' /\ stopping' => At(Owner, "join")')
  BY <1>1, <1>3, <1>9, <1>11, <1>13, <1>14 DEF r
<1>17. QED
  BY <1>15, <1>16 DEF OwnerInv

-----------------------------------------------------------------------------
(* Closing. *)

LEMMA CloseIs ==
  /\ Close[1] = "disarm" /\ Close[2] = "build" /\ Close[3] = "write" /\ Close[4] = "drain"
  /\ Close[5] = "publish" /\ Close[6] = "alive" /\ Close[7] = "build" /\ Close[8] = "write"
  /\ Close[9] = "spawn" /\ Close[10] = "linger" /\ Close[11] = "stop" /\ Close[12] = "join"
  /\ Close[13] = "shut" /\ Len(Close) = 13
BY DEF Close

\* Which step is next says how many are left.
LeftAt(m) ==
  /\ At(Owner, "disarm") => m = 13
  /\ At(Owner, "build") => m \in {7, 12}
  /\ At(Owner, "write") => m \in {6, 11}
  /\ At(Owner, "drain") \/ At(Owner, "push") => m = 10
  /\ At(Owner, "publish") => m = 9
  /\ At(Owner, "alive") => m = 8
  /\ At(Owner, "spawn") => m = 5
  /\ At(Owner, "linger") => m = 4
  /\ At(Owner, "stop") => m = 3
  /\ At(Owner, "join") => m = 2
  /\ At(Owner, "shut") => m = 1
  /\ \A step \in {"arm", "keep", "opened", "pause", "ask", "poll", "resume"} : ~At(Owner, step)

LEMMA WhenClosing ==
  ASSUME TypeOK, ClosingInv, phase = "closing"
  PROVE  \E m \in 1..13 : m = Len(th[Owner].todo) /\ LeftAt(m)
<1> DEFINE s == th[Owner].todo
<1>1. s \in Seq(Steps) /\ Len(s) \in 1..13
  BY ThreadIs, OwnerIs DEF ClosingInv
<1>2. s # <<>>
  <2>1. Len(<<>>) = 0
    OBVIOUS
  <2>2. ASSUME s = <<>> PROVE FALSE
    <3>1. Len(s) = 0
      BY <2>1, <2>2, Zenon
    <3>2. \A n \in 1..13 : n # 0
      OBVIOUS
    <3>3. QED
      BY <1>1, <3>1, <3>2
  <2>3. QED
    BY <2>2
<1>3. Head(s) = s[1] /\ 1 \in 1..Len(s)
  BY <1>1, <1>2
<1>4. s[1] = Close[13 - Len(s) + 1] \/ (Len(s) = 10 /\ s[1] = "push")
  BY <1>1, <1>3 DEF ClosingInv
<1>5. PICK n \in 1..13 : n = Len(s)
  BY <1>1
<1>6. PICK x : x = s[1]
  OBVIOUS
<1>7. \A step : At(Owner, step) <=> x = step
  BY <1>2, <1>3, <1>6 DEF At
<1>8. x = Close[14 - n] \/ (n = 10 /\ x = "push")
  BY <1>4, <1>5, <1>6
<1>9. \/ <<n, x>> \in {<<13, "disarm">>, <<12, "build">>, <<11, "write">>, <<10, "drain">>, <<10, "push">>}
      \/ <<n, x>> \in {<<9, "publish">>, <<8, "alive">>, <<7, "build">>, <<6, "write">>, <<5, "spawn">>}
      \/ <<n, x>> \in {<<4, "linger">>, <<3, "stop">>, <<2, "join">>, <<1, "shut">>}
  BY <1>8, CloseIs
<1>10. LeftAt(n)
  BY <1>7, <1>9 DEF LeftAt
<1>11. QED
  BY <1>5, <1>10

\* The opener's thread takes k steps while it closes.
LEMMA ClosingWalks ==
  ASSUME TypeOK, ClosingInv, Only(Owner), phase = "closing", phase' = phase, plan' = plan,
         NEW m \in 1..13, NEW k \in 1..12, NEW j \in 1..12, m = Len(th[Owner].todo), j = m - k,
         Off(th[Owner].todo, th'[Owner].todo, k), j = 1 => ~Streaming,
         ~ghost'.crossed => ~ghost.crossed /\ (Reached(m) => Reached(j)')
  PROVE  ClosingInv'
<1> DEFINE s == th[Owner].todo
           r == th'[Owner].todo
<1>1. s \in Seq(Steps) /\ r \in Seq(Steps) /\ (Streaming' <=> Streaming)
  BY OwnerIs DEF TypeOK, Only, Thread, Streaming
<1>2. Off(s, r, k) /\ m = Len(s)
  OBVIOUS
<1>3. /\ plan.calls[Owner] = <<>> /\ (~ghost.crossed => Reached(m))
      /\ \A i \in 1..m : s[i] = Close[13 - m + i] \/ (i = 1 /\ m = 10 /\ s[i] = "push")
  BY DEF ClosingInv
<1> HIDE DEF s, r
<1>4. Len(r) = j /\ \A i \in 1..j : r[i] = s[i + k]
  BY <1>1, <1>2 DEF Off
<1>5. ASSUME NEW i \in 1..j PROVE r[i] = Close[13 - j + i]
  <2> HIDE DEF s
  <2>1. r[i] = s[i + k]
    BY <1>4
  <2>2. i + k \in 1..m /\ i + k # 1
    OBVIOUS
  <2>3. s[i + k] = Close[13 - m + (i + k)]
    BY <1>3, <2>2
  <2>4. 13 - m + (i + k) = 13 - j + i
    OBVIOUS
  <2>5. QED
    BY <2>1, <2>3, <2>4
<1>6. ~ghost'.crossed => Reached(j)'
  BY <1>3
<1>7. /\ j \in 1..13 /\ plan'.calls[Owner] = <<>> /\ (j = 1 => ~Streaming')
      /\ \A i \in 1..j : r[i] = Close[13 - j + i] \/ (i = 1 /\ j = 10 /\ r[i] = "push")
  <2>1. j \in 1..13
    OBVIOUS
  <2>2. plan'.calls[Owner] = <<>> /\ (j = 1 => ~Streaming')
    BY <1>1, <1>3
  <2>3. QED
    BY <1>5, <2>1, <2>2
<1>8. j = Len(th'[Owner].todo)
  BY <1>4 DEF r
<1>9. QED
  BY <1>6, <1>7, <1>8 DEF ClosingInv, r

LEMMA NotClosing ==
  ASSUME ClosingInv, th[Owner].todo # <<>>, phase # "closing", phase' = phase
  PROVE  ClosingInv'
BY DEF ClosingInv

-----------------------------------------------------------------------------
(* The steps of a caller. *)

LEMMA Effect ==
  ASSUME TypeOK, NEW t \in Threads, NEW r \in Thread, th' = [th EXCEPT ![t] = r]
  PROVE  Only(t) /\ th'[t] = r
BY DEF TypeOK, Only

\* A thread leaves its first step, and may set its other fields.
LEMMA StepTaken ==
  ASSUME TypeOK, NEW t \in Threads, NEW step, At(t, step), NEW img \in BOOLEAN, NEW got \in Frame, NEW was \in BOOLEAN,
         th' = [th EXCEPT ![t] = [todo |-> Tail(th[t].todo), img |-> img, hold |-> th[t].hold, got |-> got, was |-> was]]
  PROVE  /\ Only(t) /\ Off(th[t].todo, th'[t].todo, 1) /\ th'[t].hold = th[t].hold /\ th'[t].img = img
         /\ th[t].todo # <<>> /\ Head(th[t].todo) = step /\ Len(th'[t].todo) = Len(th[t].todo) - 1
<1> DEFINE r == [todo |-> Tail(th[t].todo), img |-> img, hold |-> th[t].hold, got |-> got, was |-> was]
<1>1. th[t].todo # <<>> /\ Head(th[t].todo) = step
  BY DEF At
<1>2. th[t].todo \in Seq(Steps) /\ th[t].hold \in Seq(Frame)
  BY ThreadIs
<1>3. Tail(th[t].todo) \in Seq(Steps) /\ Off(th[t].todo, Tail(th[t].todo), 1)
  BY <1>1, <1>2, TailOff
<1>4. r \in Thread
  BY <1>2, <1>3 DEF Thread
<1>5. th' = [th EXCEPT ![t] = r]
  OBVIOUS
<1>6. r.todo = Tail(th[t].todo) /\ r.hold = th[t].hold /\ r.img = img
  OBVIOUS
<1> HIDE DEF r
<1>7. Only(t) /\ th'[t] = r
  BY <1>4, <1>5, Effect
<1>8. Len(th'[t].todo) = Len(th[t].todo) - 1
  BY <1>3, <1>6, <1>7 DEF Off
<1>9. QED
  BY <1>1, <1>3, <1>6, <1>7, <1>8

LEMMA Shorter ==
  ASSUME NEW f \in Thread, NEW s
  PROVE  [f EXCEPT !.todo = s] = [todo |-> s, img |-> f.img, hold |-> f.hold, got |-> f.got, was |-> f.was]
BY DEF Thread

LEMMA DoneIs ==
  ASSUME TypeOK, NEW t \in Threads, NEW step, At(t, step), Done(t)
  PROVE  /\ Only(t) /\ Off(th[t].todo, th'[t].todo, 1) /\ th'[t].hold = th[t].hold /\ th'[t].img = th[t].img
         /\ th[t].todo # <<>> /\ Head(th[t].todo) = step /\ Len(th'[t].todo) = Len(th[t].todo) - 1
<1>1. th[t].img \in BOOLEAN /\ th[t].got \in Frame /\ th[t].was \in BOOLEAN
  BY ThreadIs
<1>2. [th[t] EXCEPT !.todo = Tail(@)]
        = [todo |-> Tail(th[t].todo), img |-> th[t].img, hold |-> th[t].hold, got |-> th[t].got, was |-> th[t].was]
  BY ThreadIs, Shorter
<1>3. th' = [th EXCEPT ![t] = [th[t] EXCEPT !.todo = Tail(@)]]
  BY DEF Done
<1>4. th' = [th EXCEPT ![t] = [todo |-> Tail(th[t].todo), img |-> th[t].img, hold |-> th[t].hold,
                               got |-> th[t].got, was |-> th[t].was]]
  BY <1>2, <1>3
<1>5. QED
  BY <1>1, <1>4, StepTaken

LEMMA AtOne ==
  ASSUME NEW t, NEW a, NEW b, At(t, a), At(t, b)
  PROVE  a = b
BY DEF At

\* What any step of a caller that is not draining keeps.
LEMMA CallerWalks ==
  ASSUME IInv, NEW c \in Callers, NEW n \in Nat, NEW step \in Steps \ {"drain", "push"}, At(c, step),
         Only(c), Off(th[c].todo, th'[c].todo, n), th'[c].hold \in {th[c].hold, <<>>},
         UNCHANGED <<queue, plan>>, asked'.answered = asked.answered,
         ghost'.taken = ghost.taken, ghost'.lost = ghost.lost
  PROVE  HoldInv' /\ OthersInv' /\ RepliesKept' /\ StreamInv'
<1>1. TypeOK /\ HoldInv /\ OthersInv /\ StreamInv /\ RepliesKept
  BY DEF IInv
<1>2. th[c].todo # <<>> /\ Head(th[c].todo) \notin {"drain", "push"}
  BY DEF At
<1>3. HoldInv' /\ OthersInv' /\ RepliesKept'
  BY <1>1, <1>2, OwnerIs, Walk
<1>4. StreamInv'
  BY <1>1, OwnerIs, StreamStays DEF Only
<1>5. QED
  BY <1>3, <1>4

LEMMA OnlyOwner ==
  ASSUME IInv, NEW c \in Callers, NEW step, At(c, step), step \notin Common
  PROVE  c = Owner
<1>1. SUFFICES ASSUME c \in Others PROVE FALSE
  BY OwnerIs
<1>2. th[c].todo \in Seq(Steps) /\ th[c].todo # <<>> /\ Head(th[c].todo) = step
  BY ThreadIs, OwnerIs DEF IInv, At
<1>3. Head(th[c].todo) = th[c].todo[1] /\ 1 \in 1..Len(th[c].todo)
  BY <1>2, TailOff
<1>4. th[c].todo[1] \in Common
  BY <1>1, <1>3 DEF IInv, OthersInv
<1>5. QED
  BY <1>2, <1>3, <1>4

LEMMA SetsKeeps ==
  ASSUME IInv, NEW c \in Callers, NEW on \in BOOLEAN, Sets(c, "arm", on) \/ (Sets(c, "disarm", on) /\ ~on)
  PROVE  IInv'
<1>1. PICK step \in {"arm", "disarm"} : Sets(c, step, on) /\ (step = "disarm" => ~on)
  OBVIOUS
<1>2. TypeOK /\ HoldInv /\ OthersInv /\ StreamInv /\ OwnerInv /\ ClosingInv /\ RepliesKept
  BY DEF IInv
<1>3. /\ c \in Threads /\ c # "stream" /\ At(c, step) /\ Done(c) /\ apply' = on
      /\ ghost' = [ghost EXCEPT !.crossed = @ \/ (phase = "closing" /\ c # Owner)]
      /\ UNCHANGED <<phase, queue, stopping, latest, gen, hot, tele, shown, board, tick, asked, plan>>
  BY <1>1, OwnerIs DEF Sets
<1>4. /\ Only(c) /\ Off(th[c].todo, th'[c].todo, 1) /\ th'[c].hold = th[c].hold /\ th'[c].img = th[c].img
      /\ th[c].todo # <<>> /\ Head(th[c].todo) = step /\ Len(th'[c].todo) = Len(th[c].todo) - 1
  BY <1>2, <1>3, DoneIs
<1>5. /\ ghost'.taken = ghost.taken /\ ghost'.lost = ghost.lost /\ ghost' \in [taken : SUBSET Nat, lost : SUBSET Nat, crossed : BOOLEAN]
      /\ ghost'.crossed = (ghost.crossed \/ (phase = "closing" /\ c # Owner))
  BY <1>2, <1>3 DEF TypeOK
<1>6. TypeOK'
  BY <1>2, <1>3, <1>4, <1>5 DEF TypeOK, Only
<1>7. HoldInv' /\ OthersInv' /\ RepliesKept' /\ StreamInv'
  BY <1>3, <1>4, <1>5, CallerWalks DEF Steps, Common
<1>9. CASE c = Owner
  <2>1. OwnerInv'
    <3>1. ~At(Owner, "alive") /\ ~At(Owner, "pause") /\ ~At(Owner, "stop") /\ ~At(Owner, "join")
      BY <1>3, <1>9, AtOne
    <3>2. QED
      BY <1>2, <1>3, <1>4, <1>9, <3>1, OwnerWalks
  <2>2. ASSUME phase = "closing" PROVE ClosingInv'
    <3>1. PICK m \in 1..13 : m = Len(th[Owner].todo) /\ LeftAt(m)
      BY <1>2, <2>2, WhenClosing
    <3>2. step = "disarm" /\ m = 13
      BY <1>3, <1>9, <3>1 DEF LeftAt
    <3>3. ~apply'
      BY <1>1, <1>3, <3>2, Zenon
    <3>4. Reached(12)'
      BY <3>3 DEF Reached
    <3>5. 12 = m - 1 /\ 12 \in 1..12 /\ 1 \in 1..12 /\ 12 # 1
      BY <3>2
    <3>6. QED
      BY <1>2, <1>3, <1>4, <1>5, <1>9, <2>2, <3>1, <3>4, <3>5, ClosingWalks
  <2>3. ASSUME phase # "closing" PROVE ClosingInv'
    BY <1>2, <1>3, <1>4, <1>9, <2>3, NotClosing
  <2>5. ClosingInv'
    BY <2>2, <2>3
  <2>6. QED
    BY <1>6, <1>7, <2>1, <2>5 DEF IInv
<1>10. CASE c \in Others /\ c # Owner
  <2>1. OwnerInv' /\ ClosingInv'
    BY <1>2, <1>3, <1>4, <1>5, <1>10, OwnerIs, OwnerStays DEF Only
  <2>2. QED
    BY <1>6, <1>7, <2>1 DEF IInv
<1>11. QED
  BY <1>9, <1>10, OwnerIs

LEMMA ThreadRecord ==
  ASSUME NEW f \in Thread
  PROVE  f = [todo |-> f.todo, img |-> f.img, hold |-> f.hold, got |-> f.got, was |-> f.was]
BY DEF Thread

LEMMA WithImage ==
  ASSUME NEW f \in Thread, NEW s, NEW b
  PROVE  [[f EXCEPT !.todo = s] EXCEPT !.img = b]
           = [todo |-> s, img |-> b, hold |-> f.hold, got |-> f.got, was |-> f.was]
<1>1. PICK a, c, d, e, g : f = [todo |-> a, img |-> c, hold |-> d, got |-> e, was |-> g]
  BY ThreadRecord
<1>2. [f EXCEPT !.todo = s] = [todo |-> s, img |-> c, hold |-> d, got |-> e, was |-> g]
  BY <1>1
<1>3. [[todo |-> s, img |-> c, hold |-> d, got |-> e, was |-> g] EXCEPT !.img = b]
        = [todo |-> s, img |-> b, hold |-> d, got |-> e, was |-> g]
  OBVIOUS
<1>4. f.hold = d /\ f.got = e /\ f.was = g
  BY <1>1
<1>5. QED
  BY <1>2, <1>3, <1>4, Zenon

LEMMA BuildsIs ==
  ASSUME TypeOK, NEW t \in Threads, Builds(t)
  PROVE  /\ At(t, "build") /\ th[t].todo # <<>>
         /\ UNCHANGED <<phase, apply, queue, stopping, latest, gen, hot, tele, shown, board, tick, asked, plan, ghost>>
         /\ Only(t) /\ Off(th[t].todo, th'[t].todo, 1) /\ th'[t].hold = th[t].hold /\ th'[t].img = apply
<1>1. /\ At(t, "build") /\ th[t].todo # <<>>
      /\ UNCHANGED <<phase, apply, queue, stopping, latest, gen, hot, tele, shown, board, tick, asked, plan, ghost>>
  BY DEF Builds, At
<1>2. th' = [th EXCEPT ![t].todo = Tail(@), ![t].img = apply]
  BY DEF Builds
<1>3. th' = [th EXCEPT ![t] = [[th[t] EXCEPT !.todo = Tail(th[t].todo)] EXCEPT !.img = apply]]
  BY <1>2
<1>4. th[t] \in Thread
  BY ThreadIs
<1>5. [[th[t] EXCEPT !.todo = Tail(th[t].todo)] EXCEPT !.img = apply]
        = [todo |-> Tail(th[t].todo), img |-> apply, hold |-> th[t].hold, got |-> th[t].got, was |-> th[t].was]
  BY <1>4, WithImage, Zenon
<1>6. th' = [th EXCEPT ![t] = [todo |-> Tail(th[t].todo), img |-> apply, hold |-> th[t].hold,
                               got |-> th[t].got, was |-> th[t].was]]
  BY <1>3, <1>5, Zenon
<1>7. apply \in BOOLEAN /\ th[t].got \in Frame /\ th[t].was \in BOOLEAN
  BY ThreadIs DEF TypeOK
<1>8. /\ Only(t) /\ Off(th[t].todo, th'[t].todo, 1) /\ th'[t].hold = th[t].hold /\ th'[t].img = apply
  BY <1>1, <1>6, <1>7, StepTaken
<1>9. QED
  BY <1>1, <1>8

LEMMA BuildsKeeps ==
  ASSUME IInv, NEW c \in Callers, Builds(c)
  PROVE  IInv'
<1>1. TypeOK /\ OwnerInv /\ ClosingInv
  BY DEF IInv
<1>2. c \in Threads /\ c # "stream"
  BY OwnerIs
<1>3. /\ At(c, "build") /\ th[c].todo # <<>>
      /\ UNCHANGED <<phase, apply, queue, stopping, latest, gen, hot, tele, shown, board, tick, asked, plan, ghost>>
  BY <1>1, <1>2, BuildsIs
<1>4. /\ Only(c) /\ Off(th[c].todo, th'[c].todo, 1) /\ th'[c].hold = th[c].hold /\ th'[c].img = apply
      /\ th[c].todo # <<>>
  BY <1>1, <1>2, BuildsIs
<1>5. TypeOK'
  BY <1>1, <1>3, <1>4 DEF TypeOK, Only
<1>6. HoldInv' /\ OthersInv' /\ RepliesKept' /\ StreamInv'
  BY <1>3, <1>4, CallerWalks DEF Steps, Common
<1>7. CASE c = Owner
  <2>1. ~At(Owner, "alive") /\ ~At(Owner, "pause") /\ ~At(Owner, "stop") /\ ~At(Owner, "join")
    BY <1>3, <1>7, AtOne
  <2>2. OwnerInv'
    BY <1>1, <1>3, <1>4, <1>7, <2>1, OwnerWalks
  <2>3. ASSUME phase = "closing" PROVE ClosingInv'
    <3>1. PICK m \in 1..13 : m = Len(th[Owner].todo) /\ LeftAt(m)
      BY <1>1, <2>3, WhenClosing
    <3>2. m \in {7, 12}
      BY <1>3, <1>7, <3>1 DEF LeftAt
    <3>3. th'["stream"] = th["stream"]
      BY <1>2, <1>4, <1>7, OwnerIs DEF Only
    <3>4. PICK j \in 1..12 : j = m - 1 /\ j # 1 /\ 1 \in 1..12
      BY <3>2
    <3>5. Reached(m) => Reached(j)'
      BY <1>3, <1>4, <1>7, <3>2, <3>3, <3>4 DEF Reached, Streaming, At
    <3>6. QED
      BY <1>1, <1>3, <1>4, <1>7, <2>3, <3>1, <3>4, <3>5, ClosingWalks
  <2>4. ASSUME phase # "closing" PROVE ClosingInv'
    BY <1>1, <1>3, <1>4, <1>7, <2>4, NotClosing
  <2>5. QED
    BY <1>5, <1>6, <2>2, <2>3, <2>4 DEF IInv
<1>8. CASE c \in Others /\ c # Owner
  <2>1. OwnerInv' /\ ClosingInv'
    BY <1>1, <1>3, <1>4, <1>8, OwnerIs, OwnerStays DEF Only
  <2>2. QED
    BY <1>5, <1>6, <2>1 DEF IInv
<1>9. QED
  BY <1>7, <1>8, OwnerIs

LEMMA PublishesKeeps ==
  ASSUME IInv, NEW c \in Callers, Publishes(c) \/ Keeps(c)
  PROVE  IInv'
<1>1. TypeOK /\ OwnerInv /\ ClosingInv
  BY DEF IInv
<1>2. c \in Threads /\ c # "stream" /\ th[c] \in Thread
  BY <1>1, OwnerIs, ThreadIs
<1>3. PICK step \in {"publish", "keep"} :
        /\ At(c, step)
        /\ UNCHANGED <<phase, apply, queue, stopping, board, tick, asked, plan, ghost>>
        /\ th' = [th EXCEPT ![c] = [todo |-> Tail(th[c].todo), img |-> th[c].img, hold |-> th[c].hold,
                                    got |-> NoFrame, was |-> th[c].was]]
  BY <1>2 DEF Publishes, Keeps, Thread
<1>4. NoFrame \in Frame
  BY DEF NoFrame, Fb, Frame
<1>5. /\ Only(c) /\ Off(th[c].todo, th'[c].todo, 1) /\ th'[c].hold = th[c].hold /\ th'[c].img = th[c].img
      /\ th[c].todo # <<>>
  BY <1>1, <1>2, <1>3, <1>4, StepTaken, ThreadIs
<1>6. TypeOK'
  BY <1>1, <1>3, <1>5 DEF TypeOK, Only
<1>7. HoldInv' /\ OthersInv' /\ RepliesKept' /\ StreamInv'
  BY <1>3, <1>5, CallerWalks DEF Steps, Common
<1>8. CASE c = Owner
  <2>1. ~At(Owner, "alive") /\ ~At(Owner, "pause") /\ ~At(Owner, "stop") /\ ~At(Owner, "join")
    BY <1>3, <1>8, AtOne
  <2>2. OwnerInv'
    BY <1>1, <1>3, <1>5, <1>8, <2>1, OwnerWalks
  <2>3. ASSUME phase = "closing" PROVE ClosingInv'
    <3>1. PICK m \in 1..13 : m = Len(th[Owner].todo) /\ LeftAt(m)
      BY <1>1, <2>3, WhenClosing
    <3>2. m = 9
      BY <1>3, <1>8, <3>1 DEF LeftAt
    <3>3. th'["stream"] = th["stream"]
      BY <1>2, <1>5, <1>8, OwnerIs DEF Only
    <3>4. PICK j \in 1..12 : j = m - 1 /\ j # 1 /\ 1 \in 1..12
      BY <3>2
    <3>5. Reached(m) => Reached(j)'
      BY <1>3, <3>2, <3>3, <3>4 DEF Reached, Streaming, At
    <3>6. QED
      BY <1>1, <1>3, <1>5, <1>8, <2>3, <3>1, <3>4, <3>5, ClosingWalks
  <2>4. ASSUME phase # "closing" PROVE ClosingInv'
    BY <1>1, <1>3, <1>5, <1>8, <2>4, NotClosing
  <2>5. QED
    BY <1>6, <1>7, <2>2, <2>3, <2>4 DEF IInv
<1>9. CASE c \in Others /\ c # Owner
  <2>1. OwnerInv' /\ ClosingInv'
    BY <1>1, <1>3, <1>5, <1>9, OwnerIs, OwnerStays DEF Only
  <2>2. QED
    BY <1>6, <1>7, <2>1 DEF IInv
<1>10. QED
  BY <1>8, <1>9, OwnerIs

LEMMA WritesKeeps ==
  ASSUME IInv, NEW c \in Callers, Writes(c)
  PROVE  IInv'
<1>1. TypeOK /\ OwnerInv /\ ClosingInv
  BY DEF IInv
<1>2. c \in Threads /\ c # "stream" /\ th[c] \in Thread /\ th[c].todo \in Seq(Steps) /\ th[c].img \in BOOLEAN
  BY <1>1, OwnerIs, ThreadIs
<1>3. /\ At(c, "write") /\ th[c].todo # <<>>
      /\ UNCHANGED <<phase, apply, queue, stopping, latest, gen, hot, tele, shown, tick, asked, plan>>
  BY DEF Writes, At
<1>4. CASE phase = "closed"
  <2>1. th' = [th EXCEPT ![c] = Idle] /\ board' = board /\ ghost' = ghost
    BY <1>4 DEF Writes
  <2>2. Idle \in Thread /\ Idle.todo = <<>> /\ Idle.hold = <<>>
    BY DEF Idle, Thread, NoFrame, Fb, Frame
  <2>3. Only(c) /\ th'[c] = Idle
    BY <1>1, <1>2, <2>1, <2>2, Effect
  <2>4. Off(th[c].todo, th'[c].todo, Len(th[c].todo)) /\ Len(th[c].todo) \in Nat
    <3>1. Len(th[c].todo) \in Nat /\ Len(<<>>) = 0
      BY <1>2
    <3>2. PICK n \in Nat : n = Len(th[c].todo)
      BY <3>1
    <3>3. Off(th[c].todo, <<>>, n)
      BY <3>1, <3>2 DEF Off
    <3>4. QED
      BY <2>2, <2>3, <3>2, <3>3
  <2>5. th'[c].hold \in {th[c].hold, <<>>}
    BY <2>2, <2>3
  <2>6. HoldInv' /\ OthersInv' /\ RepliesKept' /\ StreamInv'
    BY <1>3, <2>1, <2>3, <2>4, <2>5, CallerWalks DEF Steps, Common
  <2>7. c \in Others /\ c # Owner
    BY <1>1, <1>3, <1>4, OwnerIs DEF ClosingInv
  <2>8. OwnerInv' /\ ClosingInv'
    BY <1>1, <1>3, <2>1, <2>3, <2>7, OwnerIs, OwnerStays DEF Only
  <2>9. TypeOK'
    BY <1>1, <1>3, <2>1, <2>3 DEF TypeOK, Only
  <2>10. QED
    BY <2>6, <2>8, <2>9 DEF IInv
<1>5. CASE phase # "closed"
  <2>1. /\ Done(c) /\ board' = th[c].img
        /\ ghost' = [ghost EXCEPT !.crossed = @ \/ (phase = "closing" /\ c \in Others)]
    BY <1>5 DEF Writes
  <2>2. /\ Only(c) /\ Off(th[c].todo, th'[c].todo, 1) /\ th'[c].hold = th[c].hold /\ th'[c].img = th[c].img
    BY <1>1, <1>2, <1>3, <2>1, DoneIs
  <2>3. /\ ghost'.taken = ghost.taken /\ ghost'.lost = ghost.lost /\ ghost' \in [taken : SUBSET Nat, lost : SUBSET Nat, crossed : BOOLEAN]
        /\ ghost'.crossed = (ghost.crossed \/ (phase = "closing" /\ c \in Others))
    BY <1>1, <2>1 DEF TypeOK
  <2>4. board' \in BOOLEAN
    BY <1>2, <2>1
  <2>5. TypeOK'
    BY <1>1, <1>3, <2>2, <2>3, <2>4 DEF TypeOK, Only
  <2>6. HoldInv' /\ OthersInv' /\ RepliesKept' /\ StreamInv'
    BY <1>3, <2>2, <2>3, CallerWalks DEF Steps, Common
  <2>7. CASE c = Owner
    <3>1. ~At(Owner, "alive") /\ ~At(Owner, "pause") /\ ~At(Owner, "stop") /\ ~At(Owner, "join")
      BY <1>3, <2>7, AtOne
    <3>2. OwnerInv'
      BY <1>1, <1>3, <2>2, <2>7, <3>1, OwnerWalks
    <3>3. ASSUME phase = "closing" PROVE ClosingInv'
      <4>1. PICK m \in 1..13 : m = Len(th[Owner].todo) /\ LeftAt(m)
        BY <1>1, <3>3, WhenClosing
      <4>2. m \in {6, 11}
        BY <1>3, <2>7, <4>1 DEF LeftAt
      <4>3. PICK j \in 1..12 : j = m - 1 /\ j # 1 /\ 1 \in 1..12
        BY <4>2
      <4>4. Reached(m) => ~apply /\ ~th[Owner].img
        BY <4>2 DEF Reached
      <4>5. Reached(m) => ~apply' /\ ~board'
        BY <1>3, <2>1, <2>7, <4>4
      <4>6. Reached(m) => Reached(j)'
        BY <4>2, <4>3, <4>5 DEF Reached
      <4>7. ~ghost'.crossed => ~ghost.crossed
        BY <2>3
      <4>8. QED
        BY <1>1, <1>3, <2>2, <2>7, <3>3, <4>1, <4>3, <4>6, <4>7, ClosingWalks
    <3>4. ASSUME phase # "closing" PROVE ClosingInv'
      BY <1>1, <1>3, <2>2, <2>7, <3>4, NotClosing
    <3>5. QED
      BY <2>5, <2>6, <3>2, <3>3, <3>4 DEF IInv
  <2>8. CASE c \in Others /\ c # Owner
    <3>1. OwnerInv' /\ ClosingInv'
      BY <1>1, <1>3, <1>5, <2>2, <2>3, <2>8, OwnerIs, OwnerStays DEF Only
    <3>2. QED
      BY <2>5, <2>6, <3>1 DEF IInv
  <2>9. QED
    BY <2>7, <2>8, OwnerIs
<1>6. QED
  BY <1>4, <1>5

-----------------------------------------------------------------------------
(* The steps only the opener's thread takes. *)

\* One step that leaves the threads as they are otherwise.
LEMMA OwnerDoes ==
  ASSUME IInv, NEW c \in Callers, NEW step \in {"ask", "poll", "resume", "linger", "stop", "join"},
         At(c, step), Done(c), UNCHANGED <<phase, apply, queue, plan, board, ghost, tick>>,
         asked' \in [n : Nat, answered : Nat], asked'.answered = asked.answered,
         IF step = "stop" THEN stopping' = TRUE ELSE stopping' = stopping,
         step = "join" => ~Streaming,
         step = "linger" => (Streaming => th["stream"].img = apply)
  PROVE  IInv'
<1>1. TypeOK /\ OwnerInv /\ ClosingInv
  BY DEF IInv
<1>2. c = Owner /\ c \in Threads /\ c # "stream"
  BY OwnerIs, OnlyOwner DEF Common
<1>3. /\ Only(c) /\ Off(th[c].todo, th'[c].todo, 1) /\ th'[c].hold = th[c].hold
      /\ th'[c].img = th[c].img /\ th[c].todo # <<>>
  BY <1>1, <1>2, DoneIs
<1>4. stopping' \in BOOLEAN
  <2>1. stopping' = TRUE \/ stopping' = stopping
    OBVIOUS
  <2>2. stopping \in BOOLEAN
    BY <1>1 DEF TypeOK
  <2>3. QED
    BY <2>1, <2>2, Zenon
<1>5. TypeOK'
  BY <1>1, <1>3, <1>4 DEF TypeOK, Only
<1>6. HoldInv' /\ OthersInv' /\ RepliesKept' /\ StreamInv'
  BY <1>3, CallerWalks DEF Steps, Common
<1>7. ~At(Owner, "alive") /\ ~At(Owner, "pause") /\ (At(Owner, "stop") <=> step = "stop")
      /\ (At(Owner, "join") <=> step = "join")
  BY <1>2, AtOne
<1>8. OwnerInv'
  BY <1>1, <1>2, <1>3, <1>7, OwnerWalks
<1>9. ASSUME phase = "closing" PROVE ClosingInv'
  <2>1. PICK m \in 1..13 : m = Len(th[Owner].todo) /\ LeftAt(m)
    BY <1>1, <1>9, WhenClosing
  <2>2. \/ m = 4 /\ step = "linger"
        \/ m = 3 /\ step = "stop"
        \/ m = 2 /\ step = "join"
    BY <1>2, <2>1 DEF LeftAt
  <2>3. th'["stream"] = th["stream"] /\ (Streaming' <=> Streaming)
    BY <1>2, <1>3, OwnerIs DEF Only, Streaming
  <2>4. PICK j \in 1..12 : j = m - 1 /\ 1 \in 1..12
    BY <2>2
  <2>5. j = 1 => ~Streaming
    BY <2>2, <2>4
  <2>6. Reached(m) => Reached(j)'
    <3>1. CASE m = 4 /\ step = "linger"
      <4>1. Reached(m) => ~apply /\ Streaming /\ ~stopping /\ (board => th["stream"].img \/ At("stream", "write"))
        BY <3>1 DEF Reached
      <4>2. Reached(m) => ~th["stream"].img
        BY <3>1, <4>1
      <4>3. stopping' = stopping /\ j = 3
        BY <2>4, <3>1
      <4>4. At("stream", "write")' <=> At("stream", "write")
        BY <2>3 DEF At
      <4>5. QED
        BY <2>3, <4>1, <4>2, <4>3, <4>4 DEF Reached
    <3>2. CASE m = 3 /\ step = "stop"
      BY <2>3, <2>4, <3>2 DEF Reached, At
    <3>3. CASE m = 2 /\ step = "join"
      BY <2>3, <2>4, <3>3 DEF Reached, At
    <3>4. QED
      BY <2>2, <3>1, <3>2, <3>3
  <2>7. QED
    BY <1>1, <1>2, <1>3, <1>9, <2>1, <2>4, <2>5, <2>6, ClosingWalks
<1>10. ASSUME phase # "closing" PROVE ClosingInv'
  BY <1>1, <1>2, <1>3, <1>10, NotClosing
<1>11. QED
  BY <1>5, <1>6, <1>8, <1>9, <1>10 DEF IInv

LEMMA BenchKeeps ==
  ASSUME IInv, NEW c \in Callers, BenchWrites(c) \/ TimesOut(c) \/ Lingers(c) \/ Stops(c) \/ Joins(c)
  PROVE  IInv'
<1>1. asked \in [n : Nat, answered : Nat]
  BY DEF IInv, TypeOK
<1>2. CASE BenchWrites(c)
  <2>1. asked' \in [n : Nat, answered : Nat] /\ asked'.answered = asked.answered
    BY <1>1, <1>2 DEF BenchWrites
  <2>2. QED
    BY <1>2, <2>1, OwnerDoes DEF BenchWrites
<1>3. CASE TimesOut(c)
  BY <1>1, <1>3, OwnerDoes DEF TimesOut
<1>4. CASE Lingers(c)
  BY <1>1, <1>4, OwnerDoes DEF Lingers
<1>5. CASE Stops(c)
  BY <1>1, <1>5, OwnerDoes DEF Stops
<1>6. CASE Joins(c)
  BY <1>1, <1>6, OwnerDoes DEF Joins
<1>7. QED
  BY <1>2, <1>3, <1>4, <1>5, <1>6

LEMMA PausesKeeps ==
  ASSUME IInv, NEW c \in Callers, Pauses(c)
  PROVE  IInv'
<1>1. TypeOK /\ OwnerInv /\ ClosingInv
  BY DEF IInv
<1>2. At(c, "pause") /\ th[c].todo # <<>>
      /\ UNCHANGED <<phase, apply, queue, latest, gen, hot, tele, shown, board, tick, asked, plan, ghost>>
  BY DEF Pauses, At
<1>3. c = Owner /\ c \in Threads /\ c # "stream" /\ At(Owner, "pause")
  BY <1>2, OwnerIs, OnlyOwner DEF Common
<1>4. th[c] \in Thread /\ th[c].todo \in Seq(Steps) /\ th \in [Threads -> Thread] /\ stopping \in BOOLEAN
  BY <1>1, <1>3, ThreadIs DEF TypeOK
<1>5. Len(th[c].todo) >= 2
  <2>1. th[c].todo[1] = "pause" /\ 1 \in 1..Len(th[c].todo)
    BY <1>2, <1>4, TailOff DEF At
  <2>2. 1 + 1 <= Len(th[c].todo)
    BY <1>1, <1>3, <2>1 DEF OwnerInv, Ordered
  <2>3. QED
    BY <2>2
<1>6. PICK q : q = IF Streaming THEN Tail(th[c].todo) ELSE Tail(Tail(th[c].todo))
  OBVIOUS
<1>7. PICK n \in {1, 2} : q \in Seq(Steps) /\ Off(th[c].todo, q, n) /\ (n = 2 <=> ~Streaming)
  <2>1. Tail(th[c].todo) \in Seq(Steps) /\ Off(th[c].todo, Tail(th[c].todo), 1)
    BY <1>2, <1>4, TailOff
  <2>2. Tail(Tail(th[c].todo)) \in Seq(Steps) /\ Off(th[c].todo, Tail(Tail(th[c].todo)), 2)
    BY <1>4, <1>5, TailTailOff
  <2>3. CASE Streaming
    <3>1. q \in Seq(Steps) /\ Off(th[c].todo, q, 1)
      BY <1>6, <2>1, <2>3, Zenon
    <3>2. QED
      BY <2>3, <3>1
  <2>4. CASE ~Streaming
    <3>1. q \in Seq(Steps) /\ Off(th[c].todo, q, 2)
      BY <1>6, <2>2, <2>4, Zenon
    <3>2. QED
      BY <2>4, <3>1
  <2>5. QED
    BY <2>3, <2>4
<1>8. Only(c) /\ Off(th[c].todo, th'[c].todo, n) /\ th'[c].hold = th[c].hold
  <2>1. PICK b \in BOOLEAN : b = Streaming
    BY Zenon DEF Streaming
  <2>2. th' = [th EXCEPT ![c].todo = IF Streaming THEN Tail(@) ELSE Tail(Tail(@)), ![c].was = Streaming]
    BY DEF Pauses
  <2>3. th' = [th EXCEPT ![c] = [[th[c] EXCEPT !.todo = q] EXCEPT !.was = b]]
    BY <1>6, <2>1, <2>2
  <2>4. PICK r : r = [[th[c] EXCEPT !.todo = q] EXCEPT !.was = b]
    OBVIOUS
  <2>5. r \in Thread /\ r.todo = q /\ r.hold = th[c].hold
    BY <1>4, <1>7, <2>4 DEF Thread
  <2>6. QED
    BY <1>1, <1>3, <1>7, <2>3, <2>4, <2>5, Effect
<1>9. (stopping' <=> stopping \/ Streaming) /\ stopping' \in BOOLEAN
  BY DEF Pauses
<1>10. TypeOK'
  BY <1>1, <1>2, <1>8, <1>9 DEF TypeOK, Only
<1>11. HoldInv' /\ OthersInv' /\ RepliesKept' /\ StreamInv'
  BY <1>2, <1>8, CallerWalks DEF Steps, Common
<1>12. ~At(Owner, "join")
  BY <1>3, AtOne
<1>13. n = 2 => ~Streaming /\ stopping' = stopping
  BY <1>4, <1>7, <1>9
<1>14. OwnerInv'
  BY <1>1, <1>2, <1>3, <1>7, <1>8, <1>12, <1>13, OwnerWalks
<1>15. phase # "closing"
  <2>1. ASSUME phase = "closing" PROVE \E m \in 1..13 : m = Len(th[Owner].todo) /\ LeftAt(m)
    BY <1>1, <2>1, WhenClosing
  <2>2. QED
    BY <1>3, <2>1 DEF LeftAt
<1>16. ClosingInv'
  BY <1>1, <1>2, <1>3, <1>15, NotClosing
<1>17. QED
  BY <1>10, <1>11, <1>14, <1>16 DEF IInv

LEMMA SkipIs ==
  ASSUME TypeOK, NEW t \in Threads, NEW n \in Nat, n <= Len(th[t].todo), Skip(t, n)
  PROVE  Only(t) /\ Off(th[t].todo, th'[t].todo, n) /\ th'[t].hold = th[t].hold /\ th'[t].img = th[t].img
<1>1. th[t] \in Thread /\ th[t].todo \in Seq(Steps)
  BY ThreadIs
<1>2. n \in 0..Len(th[t].todo)
  BY <1>1
<1>3. PICK q : q = SubSeq(th[t].todo, n + 1, Len(th[t].todo))
  OBVIOUS
<1>4. q \in Seq(Steps) /\ Off(th[t].todo, q, n)
  BY <1>1, <1>2, <1>3, SubSeqOff
<1>5. th' = [th EXCEPT ![t].todo = SubSeq(@, n + 1, Len(@))]
  BY DEF Skip
<1>6. th' = [th EXCEPT ![t] = [th[t] EXCEPT !.todo = q]]
  BY <1>3, <1>5
<1>7. PICK r : r = [th[t] EXCEPT !.todo = q]
  OBVIOUS
<1>8. r \in Thread /\ r.todo = q /\ r.hold = th[t].hold /\ r.img = th[t].img
  BY <1>1, <1>4, <1>7 DEF Thread
<1>9. QED
  BY <1>4, <1>6, <1>7, <1>8, Effect

LEMMA ResumesKeeps ==
  ASSUME IInv, NEW c \in Callers, Resumes(c)
  PROVE  IInv'
<1>1. TypeOK /\ OwnerInv /\ ClosingInv
  BY DEF IInv
<1>2. /\ At(c, "resume") /\ th[c].todo # <<>>
      /\ UNCHANGED <<phase, apply, queue, stopping, latest, gen, hot, tele, shown, board, tick, asked, plan, ghost>>
  BY DEF Resumes, At
<1>3. c = Owner /\ c \in Threads /\ c # "stream" /\ At(Owner, "resume")
  BY <1>2, OwnerIs, OnlyOwner DEF Common
<1>4. CASE Done(c)
  <2>1. asked' \in [n : Nat, answered : Nat] /\ asked'.answered = asked.answered
    BY <1>1, <1>2 DEF TypeOK
  <2>2. QED
    BY <1>2, <1>4, <2>1, OwnerDoes
<1>5. CASE Skip(c, 5)
  <2>1. 5 <= Len(th[c].todo)
    <3>1. th[c].todo \in Seq(Steps) /\ th[c].todo[1] = "resume" /\ 1 \in 1..Len(th[c].todo)
      BY <1>1, <1>2, <1>3, ThreadIs, TailOff DEF At
    <3>2. th[c].todo[2] = "alive" /\ 2 \in 1..Len(th[c].todo)
      BY <1>1, <1>3, <3>1 DEF OwnerInv, Ordered
    <3>3. 2 + 3 <= Len(th[c].todo)
      BY <1>1, <1>3, <3>2 DEF OwnerInv, Ordered
    <3>4. QED
      BY <3>3
  <2>2. Only(c) /\ Off(th[c].todo, th'[c].todo, 5) /\ th'[c].hold = th[c].hold
    BY <1>1, <1>3, <1>5, <2>1, SkipIs
  <2>3. TypeOK'
    BY <1>1, <1>2, <2>2 DEF TypeOK, Only
  <2>4. HoldInv' /\ OthersInv' /\ RepliesKept' /\ StreamInv'
    BY <1>2, <2>2, CallerWalks DEF Steps, Common
  <2>5. ~At(Owner, "join")
    BY <1>3, AtOne
  <2>6. OwnerInv'
    BY <1>1, <1>2, <1>3, <2>2, <2>5, OwnerWalks
  <2>7. phase # "closing"
    <3>1. ASSUME phase = "closing" PROVE \E m \in 1..13 : m = Len(th[Owner].todo) /\ LeftAt(m)
      BY <1>1, <3>1, WhenClosing
    <3>2. QED
      BY <1>3, <3>1 DEF LeftAt
  <2>8. ClosingInv'
    BY <1>1, <1>2, <1>3, <2>7, NotClosing
  <2>9. QED
    BY <2>3, <2>4, <2>6, <2>8 DEF IInv
<1>6. QED
  BY <1>4, <1>5 DEF Resumes

LEMMA StartsKeeps ==
  ASSUME IInv, NEW c \in Callers, StartsUnlessAlive(c)
  PROVE  IInv'
<1>1. TypeOK /\ OwnerInv /\ ClosingInv
  BY DEF IInv
<1>2. /\ At(c, "alive") /\ th[c].todo # <<>>
      /\ UNCHANGED <<phase, apply, queue, tele, shown, board, tick, asked, plan, ghost>>
  BY DEF StartsUnlessAlive, At
<1>3. c = Owner /\ c \in Threads /\ c # "stream" /\ At(Owner, "alive")
  BY <1>2, OwnerIs, OnlyOwner DEF Common
<1>4. ~At(Owner, "join")
  BY <1>3, AtOne
<1>5. PICK n \in {1, 4} :
        /\ n = 1 => ~Streaming /\ stopping' = FALSE
        /\ n = 4 => Streaming /\ stopping' = stopping
        /\ Only(c) /\ Off(th[c].todo, th'[c].todo, n) /\ th'[c].hold = th[c].hold /\ th'[c].img = th[c].img
  <2>1. CASE Streaming
    <3>1. Skip(c, 4) /\ stopping' = stopping
      BY <2>1 DEF StartsUnlessAlive
    <3>2. 4 <= Len(th[c].todo)
      <4>1. th[c].todo \in Seq(Steps) /\ th[c].todo[1] = "alive" /\ 1 \in 1..Len(th[c].todo)
        BY <1>1, <1>2, <1>3, ThreadIs, TailOff DEF At
      <4>2. 1 + 3 <= Len(th[c].todo)
        BY <1>1, <1>3, <4>1 DEF OwnerInv, Ordered
      <4>3. QED
        BY <4>2
    <3>3. Only(c) /\ Off(th[c].todo, th'[c].todo, 4) /\ th'[c].hold = th[c].hold /\ th'[c].img = th[c].img
      BY <1>1, <1>3, <3>1, <3>2, SkipIs
    <3>4. QED
      BY <2>1, <3>1, <3>3
  <2>2. CASE ~Streaming
    <3>1. Done(c) /\ stopping' = FALSE
      BY <2>2 DEF StartsUnlessAlive
    <3>2. Only(c) /\ Off(th[c].todo, th'[c].todo, 1) /\ th'[c].hold = th[c].hold /\ th'[c].img = th[c].img
      BY <1>1, <1>2, <1>3, <3>1, DoneIs
    <3>3. QED
      BY <2>2, <3>1, <3>2
  <2>3. QED
    BY <2>1, <2>2
<1>6. stopping' \in BOOLEAN
  <2>1. stopping \in BOOLEAN
    BY <1>1 DEF TypeOK
  <2>2. QED
    BY <1>5, <2>1
<1>7. TypeOK'
  BY <1>1, <1>2, <1>5, <1>6 DEF TypeOK, Only
<1>8. HoldInv' /\ OthersInv' /\ RepliesKept' /\ StreamInv'
  BY <1>2, <1>5, CallerWalks DEF Steps, Common
<1>9. OwnerInv'
  BY <1>1, <1>2, <1>3, <1>4, <1>5, OwnerWalks
<1>10. ASSUME phase = "closing" PROVE ClosingInv'
  <2>1. PICK m \in 1..13 : m = Len(th[Owner].todo) /\ LeftAt(m)
    BY <1>1, <1>10, WhenClosing
  <2>2. m = 8
    BY <1>3, <2>1 DEF LeftAt
  <2>3. th'["stream"] = th["stream"] /\ (Streaming' <=> Streaming)
    BY <1>3, <1>5, OwnerIs DEF Only, Streaming
  <2>4. PICK j \in 1..12 : j = m - n /\ j # 1 /\ n \in 1..12 /\ j \in {4, 7} /\ (j = 7 <=> n = 1)
    BY <2>2
  <2>5. Streaming => ~stopping
    BY <1>1, <1>4 DEF OwnerInv
  <2>6. Reached(m) => Reached(j)'
    <3>1. Reached(m) => ~apply' /\ (board' => Streaming' /\ (th'["stream"].img \/ At("stream", "write")'))
      BY <1>2, <2>2, <2>3 DEF Reached, At
    <3>2. j = 4 => Streaming' /\ ~stopping'
      BY <1>5, <2>3, <2>4, <2>5
    <3>3. QED
      BY <2>4, <3>1, <3>2 DEF Reached
  <2>7. QED
    BY <1>1, <1>2, <1>3, <1>5, <1>10, <2>1, <2>4, <2>6, ClosingWalks
<1>11. ASSUME phase # "closing" PROVE ClosingInv'
  BY <1>1, <1>2, <1>3, <1>11, NotClosing
<1>12. QED
  BY <1>7, <1>8, <1>9, <1>10, <1>11 DEF IInv

LEMMA ShutsKeeps ==
  ASSUME IInv, NEW c \in Callers, Shuts(c)
  PROVE  IInv'
<1>1. TypeOK /\ OwnerInv /\ ClosingInv
  BY DEF IInv
<1>2. /\ At(c, "shut") /\ Done(c) /\ phase' = "closed"
      /\ UNCHANGED <<apply, queue, stopping, latest, gen, hot, tele, shown, board, tick, asked, plan, ghost>>
  BY DEF Shuts
<1>3. c = Owner /\ c \in Threads /\ c # "stream" /\ At(Owner, "shut")
  BY <1>2, OwnerIs, OnlyOwner DEF Common
<1>4. /\ Only(c) /\ Off(th[c].todo, th'[c].todo, 1) /\ th'[c].hold = th[c].hold /\ th[c].todo # <<>>
  BY <1>1, <1>2, <1>3, DoneIs
<1>5. TypeOK'
  BY <1>1, <1>2, <1>4 DEF TypeOK, Only
<1>6. HoldInv' /\ OthersInv' /\ RepliesKept' /\ StreamInv'
  BY <1>2, <1>4, CallerWalks DEF Steps, Common
<1>7. phase = "closing"
  <2>1. th[c].todo \in Seq(Steps) /\ th[c].todo[1] = "shut" /\ 1 \in 1..Len(th[c].todo)
    BY <1>1, <1>2, <1>3, ThreadIs, TailOff DEF At
  <2>2. QED
    BY <1>1, <1>3, <2>1 DEF OwnerInv, Ordered
<1>8. PICK m \in 1..13 : m = Len(th[Owner].todo) /\ LeftAt(m)
  BY <1>1, <1>7, WhenClosing
<1>9. m = 1
  BY <1>3, <1>8 DEF LeftAt
<1>10. th'[Owner].todo = <<>>
  <2>1. Len(th'[Owner].todo) = m - 1 /\ th'[Owner].todo \in Seq(Steps)
    BY <1>3, <1>4, <1>8 DEF Off, Only, Thread
  <2>2. Len(th'[Owner].todo) = 0
    BY <1>9, <2>1
  <2>3. QED
    BY <2>1, <2>2, EmptySeq
<1>11. ~Streaming /\ plan.calls[Owner] = <<>> /\ (~ghost.crossed => Reached(1))
  BY <1>1, <1>7, <1>8, <1>9 DEF ClosingInv
<1>12. ~Streaming'
  BY <1>3, <1>4, <1>11, OwnerIs DEF Only, Streaming
<1>13. board => ghost.crossed
  BY <1>11 DEF Reached
<1>14. ClosingInv'
  BY <1>2, <1>10, <1>11, <1>12, <1>13 DEF ClosingInv
<1>15. OwnerInv'
  <2>1. Ordered(<<>>, "closed") /\ ~Starting(<<>>)
    BY DEF Ordered, Starting
  <2>2. \A step : ~At(Owner, step)'
    BY <1>10 DEF At
  <2>3. \A i \in 1..(Len(plan'.calls[Owner]) - 1) : plan'.calls[Owner][i] # "close"
    BY <1>1, <1>2 DEF OwnerInv
  <2>4. QED
    BY <1>2, <1>10, <1>12, <2>1, <2>2, <2>3 DEF OwnerInv
<1>16. QED
  BY <1>5, <1>6, <1>14, <1>15 DEF IInv

LEMMA OpenedKeeps ==
  ASSUME IInv, NEW c \in Callers, Opened(c)
  PROVE  IInv'
<1>1. TypeOK /\ OwnerInv /\ ClosingInv
  BY DEF IInv
<1>2. /\ At(c, "opened") /\ Done(c) /\ phase' = "open"
      /\ UNCHANGED <<apply, queue, stopping, latest, gen, hot, tele, shown, board, tick, asked, plan, ghost>>
  BY DEF Opened
<1>3. c = Owner /\ c \in Threads /\ c # "stream" /\ At(Owner, "opened")
  BY <1>2, OwnerIs, OnlyOwner DEF Common
<1>4. /\ Only(c) /\ Off(th[c].todo, th'[c].todo, 1) /\ th'[c].hold = th[c].hold /\ th[c].todo # <<>>
  BY <1>1, <1>2, <1>3, DoneIs
<1>5. TypeOK'
  BY <1>1, <1>2, <1>4 DEF TypeOK, Only
<1>6. HoldInv' /\ OthersInv' /\ RepliesKept' /\ StreamInv'
  BY <1>2, <1>4, CallerWalks DEF Steps, Common
<1>7. phase # "closing"
  <2>1. ASSUME phase = "closing" PROVE \E m \in 1..13 : m = Len(th[Owner].todo) /\ LeftAt(m)
    BY <1>1, <2>1, WhenClosing
  <2>2. QED
    BY <1>3, <2>1 DEF LeftAt
<1>8. ~At(Owner, "alive") /\ ~At(Owner, "pause") /\ ~At(Owner, "stop") /\ ~At(Owner, "join")
  BY <1>3, AtOne
<1>9. OwnerInv'
  BY <1>1, <1>2, <1>3, <1>4, <1>7, <1>8, OwnerWalks
<1>10. ClosingInv'
  BY <1>2 DEF ClosingInv
<1>11. QED
  BY <1>5, <1>6, <1>9, <1>10 DEF IInv

LEMMA Fresh ==
  ASSUME NEW q \in Seq(Steps)
  PROVE  /\ [Idle EXCEPT !.todo = q] \in Thread /\ [Idle EXCEPT !.todo = q].todo = q
         /\ [Idle EXCEPT !.todo = q].hold = <<>> /\ [Idle EXCEPT !.todo = q].img = FALSE
<1>1. [Idle EXCEPT !.todo = q] = [todo |-> q, img |-> FALSE, hold |-> <<>>, got |-> NoFrame, was |-> FALSE]
  <2>1. PICK e, f : e = <<>> /\ f = FALSE
    OBVIOUS
  <2>2. Idle = [todo |-> e, img |-> f, hold |-> e, got |-> NoFrame, was |-> f]
    BY <2>1 DEF Idle
  <2>3. [[todo |-> e, img |-> f, hold |-> e, got |-> NoFrame, was |-> f] EXCEPT !.todo = q]
          = [todo |-> q, img |-> f, hold |-> e, got |-> NoFrame, was |-> f]
    OBVIOUS
  <2>4. QED
    BY <2>1, <2>2, <2>3, Zenon
<1>2. NoFrame \in Frame /\ <<>> \in Seq(Frame)
  BY DEF NoFrame, Fb, Frame
<1>3. [todo |-> q, img |-> FALSE, hold |-> <<>>, got |-> NoFrame, was |-> FALSE] \in Thread
  BY <1>2 DEF Thread
<1>4. QED
  BY <1>1, <1>3

LEMMA SpawnsKeeps ==
  ASSUME IInv, NEW c \in Callers, Spawns(c)
  PROVE  IInv'
<1>1. TypeOK /\ HoldInv /\ OthersInv /\ OwnerInv /\ ClosingInv /\ RepliesKept
  BY DEF IInv
<1>2. /\ At(c, "spawn") /\ th[c].todo # <<>> /\ Head(th[c].todo) = "spawn"
      /\ UNCHANGED <<phase, apply, queue, stopping, latest, gen, hot, shown, board, tick, asked, plan, ghost>>
  BY DEF Spawns, At
<1>3. c = Owner /\ c \in Threads /\ c # "stream" /\ At(Owner, "spawn")
  BY <1>2, OwnerIs, OnlyOwner DEF Common
<1>4. th[Owner] \in Thread /\ th[Owner].todo \in Seq(Steps) /\ th \in [Threads -> Thread]
  BY <1>1, <1>3, ThreadIs DEF TypeOK
<1>5. PICK r : r = [th[Owner] EXCEPT !.todo = Tail(th[Owner].todo)]
  OBVIOUS
<1>6. PICK s : s = [Idle EXCEPT !.todo = <<"stats">>]
  OBVIOUS
<1>7. Tail(th[Owner].todo) \in Seq(Steps) /\ Off(th[Owner].todo, Tail(th[Owner].todo), 1)
      /\ th[Owner].todo[1] = "spawn" /\ 1 \in 1..Len(th[Owner].todo)
  BY <1>2, <1>3, <1>4, TailOff
<1>8. r \in Thread /\ r.todo = Tail(th[Owner].todo) /\ r.hold = th[Owner].hold /\ r.img = th[Owner].img
  BY <1>4, <1>5, <1>7 DEF Thread
<1>9. s \in Thread /\ s.todo = <<"stats">> /\ s.hold = <<>> /\ s.img = FALSE
  <2>1. <<"stats">> \in Seq(Steps)
    BY DEF Steps
  <2>2. QED
    BY <1>6, <2>1, Fresh
<1>10. th' = [[th EXCEPT ![Owner] = r] EXCEPT !["stream"] = s]
  BY <1>3, <1>5, <1>6 DEF Spawns
<1>11. /\ th' \in [Threads -> Thread] /\ th'[Owner] = r /\ th'["stream"] = s
       /\ \A u \in Threads \ {Owner, "stream"} : th'[u] = th[u]
  BY <1>4, <1>8, <1>9, <1>10, OwnerIs
<1>12. TypeOK'
  BY <1>1, <1>2, <1>11 DEF TypeOK
<1>13. ~Streaming /\ ~stopping
  <2>1. Starting(th[Owner].todo)
    BY <1>7 DEF Starting
  <2>2. QED
    BY <1>1, <2>1 DEF OwnerInv
<1>14. th[Owner].hold = <<>> /\ th["stream"].hold = <<>>
  BY <1>1, <1>2, <1>3, <1>13, OwnerIs DEF HoldInv, At, Streaming
<1>15. \A u \in Threads : th'[u].hold = th[u].hold
  BY <1>8, <1>9, <1>11, <1>14
<1>16. HoldInv'
  <2>1. ASSUME NEW u \in Threads, th'[u].hold # <<>> PROVE At(u, "drain")' \/ At(u, "push")'
    <3>1. u \in Threads \ {Owner, "stream"} /\ th[u].hold # <<>>
      BY <1>14, <1>15, <2>1
    <3>2. th'[u] = th[u] /\ (At(u, "drain") \/ At(u, "push"))
      BY <1>1, <1>11, <3>1 DEF HoldInv
    <3>3. QED
      BY <3>2 DEF At
  <2>2. QED
    BY <2>1 DEF HoldInv
<1>17. RepliesKept'
  <2>1. Held' = Held
    BY <1>15 DEF Held
  <2>2. QED
    BY <1>1, <1>2, <2>1 DEF RepliesKept
<1>18. OthersInv'
  BY <1>1, <1>2, <1>11, OwnerIs, SessionAssumption DEF OthersInv, Threads, Callers
<1>19. StreamInv' /\ Streaming' /\ ~At("stream", "write")'
  <2>1. th'["stream"].todo = <<"stats">>
    BY <1>9, <1>11
  <2>2. Streaming' /\ ~At("stream", "write")'
    BY <2>1 DEF Streaming, At
  <2>3. StreamInv'
    BY <2>1 DEF StreamInv, Round
  <2>4. QED
    BY <2>2, <2>3
<1>20. OwnerInv'
  <2>1. Ordered(th[Owner].todo, phase)
    BY <1>1 DEF OwnerInv
  <2>2. PICK q : q = Tail(th[Owner].todo)
    OBVIOUS
  <2>3. q \in Seq(Steps) /\ Off(th[Owner].todo, q, 1) /\ th'[Owner].todo = q
    BY <1>7, <1>8, <1>11, <2>2
  <2>4. Ordered(q, phase)
    BY <1>4, <2>1, <2>3, OrderedOff
  <2>5. Starting(q) => Starting(th[Owner].todo) /\ th[Owner].todo[1] # "spawn"
    BY <1>4, <1>7, <2>1, <2>3, StartingOff
  <2>6. ~Starting(q)
    BY <1>7, <2>5
  <2>7. q # <<>> => Head(q) \notin {"ask", "poll"}
    <3>1. SUFFICES ASSUME q # <<>>, Head(q) \in {"ask", "poll"} PROVE FALSE
      OBVIOUS
    <3>2. q[1] = Head(q) /\ 1 \in 1..Len(q)
      BY <2>3, <3>1, TailOff
    <3>3. th[Owner].todo[2] = q[1] /\ 2 \in 1..Len(th[Owner].todo)
      BY <1>4, <2>3, <3>2 DEF Off
    <3>4. th[Owner].todo[2 - 1] \in {"join", "ask"}
      BY <2>1, <3>1, <3>2, <3>3 DEF Ordered
    <3>5. QED
      BY <1>7, <3>4
  <2>8. ~At(Owner, "ask")' /\ ~At(Owner, "poll")'
    BY <2>3, <2>7 DEF At
  <2>9. \A i \in 1..(Len(plan'.calls[Owner]) - 1) : plan'.calls[Owner][i] # "close"
    BY <1>1, <1>2 DEF OwnerInv
  <2>10. ~stopping'
    BY <1>2, <1>13
  <2>11. QED
    BY <1>2, <2>3, <2>4, <2>6, <2>8, <2>9, <2>10 DEF OwnerInv
<1>21. ASSUME phase = "closing" PROVE ClosingInv'
  <2>1. PICK m \in 1..13 : m = Len(th[Owner].todo) /\ LeftAt(m)
    BY <1>1, <1>21, WhenClosing
  <2>2. m = 5
    BY <1>3, <2>1 DEF LeftAt
  <2>3. plan'.calls[Owner] = <<>> /\ (~ghost.crossed => Reached(5))
    BY <1>1, <1>2, <1>21, <2>1, <2>2 DEF ClosingInv
  <2>4. Reached(5) => Reached(4)'
    <3>1. Reached(5) => ~apply' /\ ~board'
      BY <1>2, <1>13 DEF Reached
    <3>2. QED
      BY <1>2, <1>13, <1>19, <3>1 DEF Reached
  <2>5. PICK q : q = th'[Owner].todo
    OBVIOUS
  <2>6. q \in Seq(Steps) /\ Off(th[Owner].todo, q, 1)
    BY <1>7, <1>8, <1>11, <2>5
  <2>7. Len(q) = 4 /\ \A i \in 1..4 : q[i] = th[Owner].todo[i + 1]
    <3>1. Len(q) = m - 1 /\ \A i \in 1..Len(q) : q[i] = th[Owner].todo[i + 1]
      BY <2>1, <2>6 DEF Off
    <3>2. m - 1 = 4
      BY <2>2
    <3>3. QED
      BY <3>1, <3>2
  <2>8. \A i \in 1..5 : th[Owner].todo[i] = Close[8 + i]
    BY <1>1, <1>21, <2>1, <2>2 DEF ClosingInv
  <2>9. ASSUME NEW i \in 1..4 PROVE q[i] = Close[13 - 4 + i]
    <3>1. i + 1 \in 1..5 /\ 8 + (i + 1) = 13 - 4 + i
      OBVIOUS
    <3>2. QED
      BY <2>7, <2>8, <3>1
  <2>10. PICK j \in 1..13 : j = 4
    OBVIOUS
  <2>11. /\ j = Len(th'[Owner].todo) /\ (~ghost'.crossed => Reached(j)') /\ j # 1
         /\ \A i \in 1..j : th'[Owner].todo[i] = Close[13 - j + i]
    BY <1>2, <2>3, <2>4, <2>5, <2>7, <2>9, <2>10
  <2>12. QED
    BY <1>2, <1>21, <2>3, <2>11 DEF ClosingInv
<1>22. ASSUME phase # "closing" PROVE ClosingInv'
  BY <1>1, <1>2, <1>3, <1>22, NotClosing
<1>23. QED
  BY <1>12, <1>16, <1>17, <1>18, <1>19, <1>20, <1>21, <1>22 DEF IInv

-----------------------------------------------------------------------------
(* A call begins. *)

LEMMA CallsKeeps ==
  ASSUME IInv, NEW c \in Callers, Calls(c)
  PROVE  IInv'
<1>1. TypeOK /\ HoldInv /\ OthersInv /\ StreamInv /\ OwnerInv /\ ClosingInv /\ RepliesKept
  BY DEF IInv
<1>2. c \in Threads /\ c # "stream"
  BY OwnerIs
<1>3. PICK call : call = Head(plan.calls[c])
  OBVIOUS
<1>4. /\ th[c].todo = <<>> /\ plan.calls[c] # <<>> /\ (call \in Opens <=> phase = "new")
      /\ th' = [th EXCEPT ![c] = [Idle EXCEPT !.todo = Script(call)]]
      /\ phase' = IF call = "close" THEN "closing" ELSE phase
      /\ plan' = [plan EXCEPT !.calls[c] = Tail(@)]
      /\ UNCHANGED <<apply, queue, stopping, latest, gen, hot, tele, shown, board, tick, asked, ghost>>
  BY <1>3 DEF Calls
<1>5. plan \in [frames : Nat, calls : [Callers -> Seq(Kinds)]] /\ plan.calls[c] \in Seq(Kinds)
  BY <1>1 DEF TypeOK, Kinds
<1>6. /\ Tail(plan.calls[c]) \in Seq(Kinds) /\ Off(plan.calls[c], Tail(plan.calls[c]), 1)
      /\ call = plan.calls[c][1] /\ call \in Kinds /\ 1 \in 1..Len(plan.calls[c])
  BY <1>3, <1>4, <1>5, TailOff
<1>7. /\ plan' \in [frames : Nat, calls : [Callers -> Seq(Kinds)]]
      /\ plan'.calls[c] = Tail(plan.calls[c]) /\ \A u \in Callers \ {c} : plan'.calls[u] = plan.calls[u]
  BY <1>4, <1>5, <1>6
<1>8. \A i \in 1..Len(plan'.calls[c]) : plan'.calls[c][i] = plan.calls[c][i + 1] /\ i + 1 \in 1..Len(plan.calls[c])
  BY <1>5, <1>6, <1>7 DEF Off
<1>9. PICK s : s = Script(call)
  OBVIOUS
<1>10. /\ s \in Seq(Steps) /\ Len(s) \in Nat \ {0} /\ Ordered(s, phase') /\ ~Starting(s)
       /\ s[1] \notin {"ask", "poll"} /\ (call \in Shared => \A i \in 1..Len(s) : s[i] \in Common)
  BY <1>4, <1>6, <1>9, Scripts
<1>11. PICK r : r = [Idle EXCEPT !.todo = s]
  OBVIOUS
<1>12. r \in Thread /\ r.todo = s /\ r.hold = <<>>
  BY <1>10, <1>11, Fresh
<1>13. Only(c) /\ th'[c] = r
  BY <1>1, <1>2, <1>4, <1>9, <1>11, <1>12, Effect
<1>14. phase' \in {"new", "open", "closing", "closed"}
  BY <1>1, <1>4 DEF TypeOK
<1>15. TypeOK'
  BY <1>1, <1>4, <1>7, <1>13, <1>14 DEF TypeOK, Only, Kinds
<1>16. HoldInv'
  BY <1>1, <1>2, <1>12, <1>13, HoldMoves
<1>17. RepliesKept'
  <2>1. th[c].hold = <<>>
    BY <1>1, <1>2, <1>4 DEF HoldInv, At
  <2>2. Held' = Held
    BY <1>2, <1>12, <1>13, <2>1, HeldIs, HeldNext
  <2>3. QED
    BY <1>1, <1>4, <2>2 DEF RepliesKept
<1>18. StreamInv' /\ (Streaming' <=> Streaming) /\ th'["stream"] = th["stream"]
  BY <1>1, <1>2, <1>13, OwnerIs, StreamStays DEF Only
<1>19. OthersInv'
  <2>1. ASSUME NEW u \in Others
        PROVE  /\ \A i \in 1..Len(th'[u].todo) : th'[u].todo[i] \in Common
               /\ \A i \in 1..Len(plan'.calls[u]) : plan'.calls[u][i] \in Shared
    <3>1. /\ \A i \in 1..Len(th[u].todo) : th[u].todo[i] \in Common
          /\ \A i \in 1..Len(plan.calls[u]) : plan.calls[u][i] \in Shared
      BY <1>1 DEF OthersInv
    <3>2. CASE u = c
      <4>1. call \in Shared
        BY <1>6, <3>1, <3>2
      <4>2. \A i \in 1..Len(plan'.calls[u]) : plan'.calls[u][i] \in Shared
        BY <1>8, <3>1, <3>2
      <4>3. th'[u].todo = s
        BY <1>12, <1>13, <3>2
      <4>4. QED
        BY <1>10, <4>1, <4>2, <4>3
    <3>3. CASE u # c
      <4>1. th'[u] = th[u] /\ plan'.calls[u] = plan.calls[u]
        BY <1>7, <1>13, <3>3 DEF Only, Threads, Callers
      <4>2. QED
        BY <3>1, <4>1
    <3>4. QED
      BY <3>2, <3>3
  <2>2. QED
    BY <2>1 DEF OthersInv
<1>20. CASE c \in Others /\ c # Owner
  <2>1. call \in Shared
    BY <1>1, <1>6, <1>20 DEF OthersInv
  <2>2. phase' = phase
    BY <1>4, <2>1 DEF Shared
  <2>3. OwnerInv' /\ ClosingInv'
    BY <1>1, <1>4, <1>7, <1>13, <1>18, <1>20, <2>2, OwnerIs, OwnerStays DEF Only
  <2>4. QED
    BY <1>15, <1>16, <1>17, <1>18, <1>19, <2>3 DEF IInv
<1>21. CASE c = Owner
  <2>1. ~(Streaming /\ stopping)
    BY <1>1, <1>4, <1>21 DEF OwnerInv, At
  <2>2. th'[Owner].todo = s /\ s # <<>> /\ Head(s) = s[1]
    BY <1>10, <1>12, <1>13, <1>21
  <2>3. OwnerInv'
    <3>1. \A i \in 1..(Len(plan'.calls[Owner]) - 1) : plan'.calls[Owner][i] # "close"
      <4>1. SUFFICES ASSUME NEW i \in 1..(Len(plan'.calls[Owner]) - 1) PROVE plan'.calls[Owner][i] # "close"
        OBVIOUS
      <4>2. Len(plan'.calls[Owner]) = Len(plan.calls[Owner]) - 1 /\ Len(plan.calls[Owner]) \in Nat
        <5>1. plan.calls[Owner] \in Seq(Kinds) /\ Off(plan.calls[Owner], plan'.calls[Owner], 1)
          BY <1>5, <1>6, <1>7, <1>21
        <5>2. QED
          BY <5>1 DEF Off
      <4>3. i \in 1..Len(plan'.calls[Owner]) /\ i + 1 \in 1..(Len(plan.calls[Owner]) - 1)
        BY <4>2
      <4>4. plan.calls[Owner][i + 1] # "close"
        BY <1>1, <4>3 DEF OwnerInv
      <4>5. QED
        BY <1>8, <1>21, <4>3, <4>4
    <3>2. ~At(Owner, "ask")' /\ ~At(Owner, "poll")'
      BY <1>10, <2>2 DEF At
    <3>3. ~(Streaming' /\ stopping')
      BY <1>4, <1>18, <2>1
    <3>4. QED
      BY <1>10, <2>2, <3>1, <3>2, <3>3 DEF OwnerInv
  <2>4. phase # "closing" /\ phase # "closed"
    <3>1. phase = "closing" => Len(th[Owner].todo) \in 1..13
      BY <1>1 DEF ClosingInv
    <3>2. Len(<<>>) = 0 /\ 0 \notin 1..13
      OBVIOUS
    <3>3. phase # "closing"
      BY <1>4, <1>21, <3>1, <3>2
    <3>4. phase # "closed"
      BY <1>1, <1>4, <1>21 DEF ClosingInv
    <3>5. QED
      BY <3>3, <3>4
  <2>5. CASE call # "close"
    <3>1. ClosingInv'
      BY <1>4, <2>4, <2>5 DEF ClosingInv
    <3>2. QED
      BY <1>15, <1>16, <1>17, <1>18, <1>19, <2>3, <3>1 DEF IInv
  <2>6. CASE call = "close"
    <3>1. s = Close /\ Len(s) = 13 /\ phase' = "closing"
      BY <1>4, <1>9, <2>6, CloseIs DEF Script
    <3>2. plan'.calls[Owner] = <<>>
      <4>1. Len(plan.calls[Owner]) = 1
        <5>1. Len(plan.calls[Owner]) \in Nat /\ 1 <= Len(plan.calls[Owner])
          BY <1>5, <1>6, <1>21
        <5>2. ~(1 \in 1..(Len(plan.calls[Owner]) - 1))
          BY <1>1, <1>6, <1>21, <2>6 DEF OwnerInv
        <5>3. PICK n \in Nat : n = Len(plan.calls[Owner])
          BY <5>1
        <5>4. 1 <= n /\ ~(1 \in 1..(n - 1))
          BY <5>1, <5>2, <5>3, Zenon
        <5>5. n = 1
          BY <5>4
        <5>6. QED
          BY <5>3, <5>5
      <4>2. Len(plan'.calls[Owner]) = 0 /\ plan'.calls[Owner] \in Seq(Kinds)
        <5>1. Off(plan.calls[Owner], plan'.calls[Owner], 1) /\ plan'.calls[Owner] \in Seq(Kinds)
          BY <1>6, <1>7, <1>21
        <5>2. Len(plan'.calls[Owner]) = Len(plan.calls[Owner]) - 1
          BY <5>1 DEF Off
        <5>3. QED
          BY <4>1, <5>1, <5>2
      <4>3. QED
        BY <4>2, EmptySeq
    <3>3. Reached(13)'
      BY DEF Reached
    <3>4. PICK j \in 1..13 : j = 13
      OBVIOUS
    <3>5. \A i \in 1..j : s[i] = Close[13 - j + i]
      BY <3>1, <3>4
    <3>6. j = Len(th'[Owner].todo) /\ Reached(j)' /\ j # 1
      BY <2>2, <3>1, <3>3, <3>4
    <3>7. ClosingInv'
      BY <2>2, <3>1, <3>2, <3>5, <3>6 DEF ClosingInv
    <3>8. QED
      BY <1>15, <1>16, <1>17, <1>18, <1>19, <2>3, <3>7 DEF IInv
  <2>7. QED
    BY <2>5, <2>6
<1>22. QED
  BY <1>20, <1>21, OwnerIs

-----------------------------------------------------------------------------
(* Draining. *)

LEMMA RoundOff ==
  ASSUME NEW s \in Seq(Steps), NEW r \in Seq(Steps), Round(s), Off(s, r, 1), s[1] # "stats"
  PROVE  Round(r) /\ r # <<>>
<1>1. Len(r) = Len(s) - 1 /\ Len(s) \in Nat /\ Len(r) \in Nat /\ \A i \in 1..Len(r) : r[i] = s[i + 1] /\ i + 1 \in 1..Len(s)
  BY DEF Off
<1>2. s # <<>> /\ s[Len(s)] = "stats"
  <2>1. 1 <= Len(s)
    BY <1>1
  <2>2. s # <<>>
    BY <2>1
  <2>3. QED
    BY <2>2 DEF Round
<1>3. Len(s) # 1
  BY <1>2
<1>4. Len(r) >= 1
  BY <1>1, <1>3
<1>5. r # <<>>
  BY <1>4
<1>6. r[Len(r)] = s[Len(r) + 1] /\ Len(r) + 1 = Len(s)
  BY <1>1, <1>4
<1>7. ASSUME NEW i \in 1..Len(r)
      PROVE  /\ r[i] \in {"drain", "push", "store", "build", "write", "stats"}
             /\ r[i] = "build" => i + 1 <= Len(r) /\ r[i + 1] = "write"
  <2> DEFINE k == i + 1
  <2>1. k \in 1..Len(s) /\ r[i] = s[k]
    BY <1>1
  <2>2. s[k] \in {"drain", "push", "store", "build", "write", "stats"} /\ (s[k] = "build" => k + 1 <= Len(s) /\ s[k + 1] = "write")
    BY <2>1 DEF Round
  <2>3. r[i] = "build" => i + 1 <= Len(r) /\ r[i + 1] = "write"
    BY <1>1, <2>1, <2>2
  <2>4. QED
    BY <2>1, <2>2, <2>3
<1>8. QED
  BY <1>2, <1>5, <1>6, <1>7 DEF Round

\* The stream takes a step that neither builds an image nor writes one.
LEMMA StreamMoves ==
  ASSUME TypeOK, OwnerInv, ClosingInv, th'[Owner] = th[Owner],
         phase' = phase, apply' = apply, board' = board, stopping' = stopping, plan' = plan,
         ghost'.crossed = ghost.crossed, th'["stream"].img = th["stream"].img,
         Streaming, Streaming', ~At("stream", "write")
  PROVE  OwnerInv' /\ ClosingInv'
<1>1. OwnerInv'
  BY DEF OwnerInv, At
<1>2. phase # "closed"
  BY DEF ClosingInv
<1>3. phase = "closing" /\ ~ghost.crossed => Reached(Len(th[Owner].todo))
  BY DEF ClosingInv
<1>4. Reached(Len(th[Owner].todo)) => Reached(Len(th[Owner].todo))'
  BY DEF Reached
<1>5. phase = "closing" => ~(Len(th'[Owner].todo) = 1)
  BY DEF ClosingInv
<1>6. QED
  BY <1>1, <1>2, <1>3, <1>4, <1>5 DEF ClosingInv

\* A thread leaves a drain, or the frames it put aside.
LEMMA DrainEnds ==
  ASSUME IInv, NEW t \in Threads, NEW step \in {"drain", "push"}, At(t, step),
         Only(t), Off(th[t].todo, th'[t].todo, 1), th'[t].img = th[t].img,
         UNCHANGED <<phase, apply, stopping, board, plan>>, ghost'.crossed = ghost.crossed
  PROVE  OthersInv' /\ StreamInv' /\ OwnerInv' /\ ClosingInv'
<1>1. TypeOK /\ OthersInv /\ StreamInv /\ OwnerInv /\ ClosingInv
  BY DEF IInv
<1>2. /\ th[t].todo \in Seq(Steps) /\ th[t].todo # <<>> /\ Head(th[t].todo) = step /\ th[t].todo[1] = step
      /\ th'[t].todo \in Seq(Steps)
  BY <1>1, ThreadIs, TailOff DEF At, Only, Thread
<1>3. OthersInv'
  <2>1. t \in Others => \A i \in 1..Len(th'[t].todo) : th'[t].todo[i] \in Common
    <3>1. SUFFICES ASSUME t \in Others PROVE \A i \in 1..Len(th'[t].todo) : th'[t].todo[i] \in Common
      OBVIOUS
    <3>2. \A i \in 1..Len(th[t].todo) : th[t].todo[i] \in Common
      BY <1>1, <3>1 DEF OthersInv
    <3>3. QED
      BY <1>2, <3>2, CommonOff
  <2>2. QED
    BY <1>1, <2>1, OthersMove
<1>4. CASE t = "stream"
  <2>1. Round(th'["stream"].todo) /\ th'["stream"].todo # <<>>
    BY <1>1, <1>2, <1>4, RoundOff DEF StreamInv
  <2>2. Streaming /\ Streaming' /\ ~At("stream", "write")
    BY <1>2, <1>4, <2>1 DEF Streaming, At
  <2>3. th'[Owner] = th[Owner]
    BY <1>4, OwnerIs DEF Only
  <2>4. OwnerInv' /\ ClosingInv'
    BY <1>1, <1>4, <2>2, <2>3, StreamMoves
  <2>5. QED
    BY <1>3, <2>1, <2>4 DEF StreamInv
<1>5. CASE t = Owner
  <2>1. th'["stream"] = th["stream"]
    BY <1>5, OwnerIs DEF Only
  <2>2. StreamInv' /\ (Streaming' <=> Streaming)
    BY <1>1, <2>1, StreamStays
  <2>3. ~At(Owner, "alive") /\ ~At(Owner, "pause") /\ ~At(Owner, "stop") /\ ~At(Owner, "join")
    BY <1>5, AtOne
  <2>4. OwnerInv'
    BY <1>1, <1>2, <1>5, <2>3, OwnerWalks
  <2>5. ASSUME phase = "closing" PROVE ClosingInv'
    <3>1. PICK m \in 1..13 : m = Len(th[Owner].todo) /\ LeftAt(m)
      BY <1>1, <2>5, WhenClosing
    <3>2. m = 10
      BY <1>5, <3>1 DEF LeftAt
    <3>3. PICK j \in 1..12 : j = m - 1 /\ j # 1 /\ 1 \in 1..12
      BY <3>2
    <3>4. At("stream", "write")' <=> At("stream", "write")
      BY <2>1 DEF At
    <3>5. Reached(m) => Reached(j)'
      BY <2>1, <2>2, <3>2, <3>3, <3>4 DEF Reached
    <3>6. QED
      BY <1>1, <1>5, <2>5, <3>1, <3>3, <3>5, ClosingWalks
  <2>6. ASSUME phase # "closing" PROVE ClosingInv'
    BY <1>1, <1>2, <1>5, <2>6, NotClosing
  <2>7. QED
    BY <1>3, <2>2, <2>4, <2>5, <2>6
<1>6. CASE t # Owner /\ t # "stream"
  <2>1. th'["stream"] = th["stream"] /\ th'[Owner] = th[Owner]
    BY <1>6, OwnerIs DEF Only
  <2>2. QED
    BY <1>1, <1>3, <2>1, StreamStays, OwnerStays
<1>7. QED
  BY <1>4, <1>5, <1>6

LEMMA PopsKeeps ==
  ASSUME IInv, NEW t \in Threads, Pops(t)
  PROVE  IInv'
<1>1. TypeOK /\ HoldInv /\ OthersInv /\ StreamInv /\ OwnerInv /\ ClosingInv /\ RepliesKept
  BY DEF IInv
<1>2. /\ At(t, "drain") /\ queue # <<>> /\ queue' = Tail(queue)
      /\ UNCHANGED <<phase, apply, stopping, latest, gen, hot, tele, shown, board, tick, asked, plan, ghost>>
  BY DEF Pops
<1>3. /\ th[t] \in Thread /\ th[t].todo \in Seq(Steps) /\ th[t].hold \in Seq(Frame) /\ th \in [Threads -> Thread]
  BY <1>1, ThreadIs DEF TypeOK
<1>4. queue \in Seq(Frame) /\ Tail(queue) \in Seq(Frame) /\ Head(queue) \in Frame
  BY <1>1, <1>2, TailOff DEF TypeOK
<1>5. /\ Only(t) /\ th'[t].todo = th[t].todo /\ th'[t].img = th[t].img
      /\ RepliesIn(th'[t].hold) = RepliesIn(th[t].hold) \cup Its(Head(queue))
  <2>1. CASE Head(queue).kind = "fb"
    <3>1. th' = [th EXCEPT ![t].got = Head(queue)]
      BY <2>1 DEF Pops
    <3>2. PICK r : r = [th[t] EXCEPT !.got = Head(queue)]
      OBVIOUS
    <3>3. r \in Thread /\ r.todo = th[t].todo /\ r.img = th[t].img /\ r.hold = th[t].hold
      BY <1>3, <1>4, <3>2 DEF Thread
    <3>4. Only(t) /\ th'[t] = r
      BY <1>1, <3>1, <3>2, <3>3, Effect
    <3>5. Its(Head(queue)) = {}
      BY <2>1 DEF Its
    <3>6. QED
      BY <3>3, <3>4, <3>5
  <2>2. CASE Head(queue).kind # "fb"
    <3>1. th' = [th EXCEPT ![t].hold = Append(@, Head(queue))]
      BY <2>2 DEF Pops
    <3>2. PICK h : h = Append(th[t].hold, Head(queue))
      OBVIOUS
    <3>3. h \in Seq(Frame) /\ RepliesIn(h) = RepliesIn(th[t].hold) \cup Its(Head(queue))
      BY <1>3, <1>4, <3>2, RepliesAppend
    <3>4. PICK r : r = [th[t] EXCEPT !.hold = h]
      OBVIOUS
    <3>5. r \in Thread /\ r.todo = th[t].todo /\ r.img = th[t].img /\ r.hold = h
      BY <1>3, <3>3, <3>4 DEF Thread
    <3>6. th' = [th EXCEPT ![t] = r]
      BY <3>1, <3>2, <3>4
    <3>7. Only(t) /\ th'[t] = r
      BY <1>1, <3>5, <3>6, Effect
    <3>8. QED
      BY <3>3, <3>5, <3>7
  <2>3. QED
    BY <2>1, <2>2
<1>6. TypeOK'
  BY <1>1, <1>2, <1>4, <1>5 DEF TypeOK, Only
<1>7. HoldInv'
  BY <1>1, <1>2, <1>5, HoldMoves DEF At
<1>8. RepliesKept'
  <2>1. RepliesIn(queue) = RepliesIn(queue') \cup Its(Head(queue))
    BY <1>2, <1>4, RepliesTail
  <2>2. Held = HeldBut(t) \cup RepliesIn(th[t].hold) /\ Held' = HeldBut(t) \cup RepliesIn(th'[t].hold)
    BY <1>5, HeldIs, HeldNext
  <2>3. RepliesIn(queue') \cup Held' = RepliesIn(queue) \cup Held
    BY <1>5, <2>1, <2>2
  <2>4. QED
    BY <1>1, <1>2, <2>3 DEF RepliesKept
<1>9. OthersInv'
  <2>1. t \in Others => \A i \in 1..Len(th'[t].todo) : th'[t].todo[i] \in Common
    BY <1>1, <1>5 DEF OthersInv
  <2>2. QED
    BY <1>1, <1>2, <1>5, <2>1, OthersMove
<1>10. \A u \in Threads : th'[u].todo = th[u].todo /\ th'[u].img = th[u].img
  BY <1>5 DEF Only
<1>11. StreamInv'
  BY <1>1, <1>10, OwnerIs, StreamStays
<1>12. OwnerInv' /\ ClosingInv'
  BY <1>1, <1>2, <1>10, OwnerIs, OwnerStays
<1>13. QED
  BY <1>6, <1>7, <1>8, <1>9, <1>11, <1>12 DEF IInv

\* r is s with its first step, a drain, replaced by "push".
Turned(s, r) ==
  /\ s[1] = "drain" /\ r[1] = "push" /\ Len(s) >= 1 /\ Len(r) = Len(s)
  /\ \A i \in 1..Len(s) : i # 1 => r[i] = s[i]

LEMMA TurnedIs ==
  ASSUME NEW s \in Seq(Steps), s # <<>>, Head(s) = "drain", NEW r, r = <<"push">> \o Tail(s)
  PROVE  r \in Seq(Steps) /\ r # <<>> /\ Turned(s, r)
<1>1. Tail(s) \in Seq(Steps) /\ Off(s, Tail(s), 1) /\ Len(s) \in Nat \ {0} /\ s[1] = "drain"
  BY TailOff
<1>2. PICK q : q = Tail(s)
  OBVIOUS
<1>3. q \in Seq(Steps) /\ Len(q) = Len(s) - 1 /\ \A i \in 1..Len(q) : q[i] = s[i + 1]
  BY <1>1, <1>2 DEF Off
<1>4. <<"push">> \in Seq(Steps) /\ Len(<<"push">>) = 1 /\ <<"push">>[1] = "push"
  BY DEF Steps, Common
<1>5. PICK p : p = <<"push">>
  OBVIOUS
<1>6. p \in Seq(Steps) /\ Len(p) = 1 /\ p[1] = "push"
  BY <1>4, <1>5
<1>7. /\ p \o q \in Seq(Steps) /\ Len(p \o q) = Len(p) + Len(q)
      /\ \A i \in 1..(Len(p) + Len(q)) : (p \o q)[i] = IF i <= Len(p) THEN p[i] ELSE q[i - Len(p)]
  <2>1. p \in Seq(Steps) /\ q \in Seq(Steps)
    BY <1>3, <1>6
  <2>2. QED
    BY <2>1, ConcatProperties
<1>8. r = p \o q
  BY <1>2, <1>5
<1>9. r \in Seq(Steps) /\ Len(r) = Len(s)
  BY <1>1, <1>3, <1>6, <1>7, <1>8
<1>10. \A i \in 1..Len(s) : r[i] = IF i <= 1 THEN p[i] ELSE q[i - 1]
  BY <1>1, <1>3, <1>6, <1>7, <1>8
<1>11. \A i \in 1..Len(s) : i # 1 => r[i] = s[i]
  <2>1. SUFFICES ASSUME NEW i \in 1..Len(s), i # 1 PROVE r[i] = s[i]
    OBVIOUS
  <2>2. i - 1 \in 1..Len(q) /\ (i - 1) + 1 = i /\ ~(i <= 1)
    BY <1>1, <1>3, <2>1
  <2>3. q[i - 1] = s[(i - 1) + 1]
    BY <1>3, <2>2
  <2>4. QED
    BY <1>10, <2>2, <2>3
<1>12. r[1] = "push"
  BY <1>1, <1>6, <1>10
<1>13. Len(s) >= 1
  BY <1>1
<1>14. r # <<>>
  BY <1>9, <1>13
<1>15. QED
  BY <1>1, <1>9, <1>11, <1>12, <1>13, <1>14 DEF Turned

LEMMA TurnedOrdered ==
  ASSUME NEW s \in Seq(Steps), NEW r \in Seq(Steps), NEW at, Turned(s, r), Ordered(s, at)
  PROVE  Ordered(r, at) /\ (Starting(r) => Starting(s))
<1>1. s[1] = "drain" /\ r[1] = "push" /\ Len(s) >= 1 /\ Len(r) = Len(s) /\ Len(s) \in Nat
      /\ \A i \in 1..Len(s) : i # 1 => r[i] = s[i]
  BY DEF Turned
<1>2. \A i \in 1..Len(s), x \in Steps \ {"drain", "push"} : r[i] = x <=> s[i] = x
  BY <1>1 DEF Steps, Common
<1>3. ASSUME NEW i \in 1..Len(r)
      PROVE  /\ r[i] \notin {"store", "stats"}
             /\ r[i] = "alive" => i + 3 <= Len(r) /\ r[i + 3] = "spawn"
             /\ r[i] = "spawn" /\ i > 1 => r[i - 1] = "write"
             /\ r[i] = "spawn" => (i > 3 => r[i - 3] = "alive") /\ \A j \in 1..Len(r) : r[j] = "spawn" => j = i
             /\ r[i] \in {"pause", "stop"} => i + 1 <= Len(r) /\ r[i + 1] = "join"
             /\ r[i] = "ask" /\ i > 1 => r[i - 1] = "join"
             /\ r[i] = "poll" /\ i > 1 => r[i - 1] = "ask"
             /\ r[i] = "resume" => i + 1 <= Len(r) /\ r[i + 1] = "alive"
             /\ r[i] \in {"linger", "stop", "shut"} => at = "closing"
  <2>1. i \in 1..Len(s)
    BY <1>1
  <2>2. /\ s[i] \notin {"store", "stats"}
        /\ s[i] = "alive" => i + 3 <= Len(s) /\ s[i + 3] = "spawn"
        /\ s[i] = "spawn" /\ i > 1 => s[i - 1] = "write"
        /\ s[i] = "spawn" => (i > 3 => s[i - 3] = "alive") /\ \A j \in 1..Len(s) : s[j] = "spawn" => j = i
        /\ s[i] \in {"pause", "stop"} => i + 1 <= Len(s) /\ s[i + 1] = "join"
        /\ s[i] = "ask" /\ i > 1 => s[i - 1] = "join"
        /\ s[i] = "poll" /\ i > 1 => s[i - 1] = "ask"
        /\ s[i] = "resume" => i + 1 <= Len(s) /\ s[i + 1] = "alive"
        /\ s[i] \in {"linger", "stop", "shut"} => at = "closing"
    BY <2>1 DEF Ordered
  <2>3. CASE i = 1
    BY <1>1, <2>3
  <2>4. CASE i # 1
    <3>1. r[i] = s[i]
      BY <1>1, <2>1, <2>4
    <3>2. /\ i + 3 <= Len(s) => r[i + 3] = s[i + 3]
          /\ i + 1 <= Len(s) => r[i + 1] = s[i + 1]
      BY <1>1, <2>1
    <3>3. i - 1 \in 1..Len(s) /\ (s[i - 1] # "drain" => r[i - 1] = s[i - 1])
      <4>1. i - 1 \in 1..Len(s)
        BY <1>1, <2>1, <2>4
      <4>2. QED
        BY <1>1, <4>1
    <3>4. i > 3 => r[i - 3] = s[i - 3] \/ s[i - 3] = "drain"
      <4>1. i > 3 => i - 3 \in 1..Len(s)
        BY <2>1
      <4>2. QED
        BY <1>1, <4>1
    <3>5. \A j \in 1..Len(r) : r[j] = "spawn" => s[j] = "spawn"
      BY <1>1
    <3>6. QED
      BY <1>1, <2>2, <3>1, <3>2, <3>3, <3>4, <3>5
  <2>5. QED
    BY <2>3, <2>4
<1>4. Starting(r) => Starting(s)
  BY <1>1 DEF Starting
<1>5. QED
  BY <1>3, <1>4 DEF Ordered

LEMMA TurnedRound ==
  ASSUME NEW s \in Seq(Steps), NEW r \in Seq(Steps), r # <<>>, Turned(s, r), Round(s)
  PROVE  Round(r)
<1>1. s[1] = "drain" /\ r[1] = "push" /\ Len(s) >= 1 /\ Len(r) = Len(s) /\ Len(s) \in Nat
      /\ \A i \in 1..Len(s) : i # 1 => r[i] = s[i]
  BY DEF Turned
<1>2. s # <<>>
  BY <1>1
<1>3. s[Len(s)] = "stats" /\ Len(s) \in 1..Len(s)
  BY <1>1, <1>2 DEF Round
<1>4. Len(s) # 1
  BY <1>1, <1>3
<1>5. r[Len(r)] = "stats"
  BY <1>1, <1>3, <1>4
<1>6. \A i \in 1..Len(r) : r[i] \in {"drain", "push", "store", "build", "write", "stats"}
  BY <1>1 DEF Round
<1>7. ASSUME NEW i \in 1..Len(r), r[i] = "build" PROVE i + 1 <= Len(r) /\ r[i + 1] = "write"
  <2>1. i # 1 /\ i \in 1..Len(s) /\ s[i] = "build"
    BY <1>1, <1>7
  <2>2. i + 1 <= Len(s) /\ s[i + 1] = "write"
    BY <2>1 DEF Round
  <2>3. QED
    BY <1>1, <2>1, <2>2
<1>8. QED
  BY <1>5, <1>6, <1>7 DEF Round

LEMMA DrainsKeeps ==
  ASSUME IInv, NEW t \in Threads, Drains(t)
  PROVE  IInv'
<1>1. TypeOK /\ HoldInv /\ OthersInv /\ StreamInv /\ OwnerInv /\ ClosingInv /\ RepliesKept
  BY DEF IInv
<1>2. /\ At(t, "drain") /\ th[t].todo # <<>> /\ Head(th[t].todo) = "drain"
      /\ th' = [th EXCEPT ![t].todo = (IF th[t].hold = <<>> THEN <<>> ELSE <<"push">>) \o Tail(@)]
      /\ UNCHANGED <<phase, apply, queue, stopping, latest, gen, hot, tele, shown, board, tick, asked, plan, ghost>>
  BY DEF Drains, At
<1>3. th[t] \in Thread /\ th[t].todo \in Seq(Steps) /\ th[t].hold \in Seq(Frame)
  BY <1>1, ThreadIs
<1>4. PICK q : q = (IF th[t].hold = <<>> THEN <<>> ELSE <<"push">>) \o Tail(th[t].todo)
  OBVIOUS
<1>5. Tail(th[t].todo) \in Seq(Steps) /\ Off(th[t].todo, Tail(th[t].todo), 1)
  BY <1>2, <1>3, TailOff
<1>6. q \in Seq(Steps) /\ (th[t].hold = <<>> => q = Tail(th[t].todo))
      /\ (th[t].hold # <<>> => q # <<>> /\ Head(q) = "push" /\ Turned(th[t].todo, q))
  <2>1. CASE th[t].hold = <<>>
    <3>1. <<>> \o Tail(th[t].todo) = Tail(th[t].todo)
      BY <1>5, ConcatEmptySeq
    <3>2. QED
      BY <1>4, <1>5, <2>1, <3>1
  <2>2. CASE th[t].hold # <<>>
    <3>1. q = <<"push">> \o Tail(th[t].todo)
      BY <1>4, <2>2
    <3>2. q \in Seq(Steps) /\ q # <<>> /\ Turned(th[t].todo, q)
      BY <1>2, <1>3, <3>1, TurnedIs
    <3>3. Head(q) = q[1] /\ q[1] = "push"
      BY <3>2 DEF Turned
    <3>4. QED
      BY <2>2, <3>2, <3>3
  <2>3. QED
    BY <2>1, <2>2
<1>7. Only(t) /\ th'[t].todo = q /\ th'[t].img = th[t].img /\ th'[t].hold = th[t].hold
  <2>1. PICK r : r = [th[t] EXCEPT !.todo = q]
    OBVIOUS
  <2>2. r \in Thread /\ r.todo = q /\ r.img = th[t].img /\ r.hold = th[t].hold
    BY <1>3, <1>6, <2>1 DEF Thread
  <2>3. th' = [th EXCEPT ![t] = r]
    BY <1>2, <1>4, <2>1
  <2>4. QED
    BY <1>1, <2>2, <2>3, Effect
<1>8. TypeOK'
  BY <1>1, <1>2, <1>7 DEF TypeOK, Only
<1>9. HoldInv'
  BY <1>1, <1>6, <1>7, HoldMoves
<1>10. RepliesKept'
  <2>1. Held' = Held
    BY <1>7, HeldIs, HeldNext
  <2>2. QED
    BY <1>1, <1>2, <2>1 DEF RepliesKept
<1>11. CASE th[t].hold = <<>>
  <2>1. Off(th[t].todo, th'[t].todo, 1)
    BY <1>5, <1>6, <1>7, <1>11
  <2>2. OthersInv' /\ StreamInv' /\ OwnerInv' /\ ClosingInv'
    BY <1>2, <1>7, <2>1, DrainEnds
  <2>3. QED
    BY <1>8, <1>9, <1>10, <2>2 DEF IInv
<1>12. CASE th[t].hold # <<>>
  <2>1. q # <<>> /\ Head(q) = "push" /\ Turned(th[t].todo, q)
    BY <1>6, <1>12
  <2>2. OthersInv'
    <3>1. t \in Others => \A i \in 1..Len(th'[t].todo) : th'[t].todo[i] \in Common
      <4>1. SUFFICES ASSUME t \in Others, NEW i \in 1..Len(q) PROVE q[i] \in Common
        BY <1>7
      <4>2. \A k \in 1..Len(th[t].todo) : th[t].todo[k] \in Common
        BY <1>1, <4>1 DEF OthersInv
      <4>3. q[i] = "push" \/ q[i] = th[t].todo[i]
        BY <2>1 DEF Turned
      <4>4. i \in 1..Len(th[t].todo)
        BY <2>1 DEF Turned
      <4>5. QED
        BY <4>2, <4>3, <4>4 DEF Common
    <3>2. QED
      BY <1>1, <1>2, <1>7, <3>1, OthersMove
  <2>3. CASE t = "stream"
    <3>1. Round(q)
      BY <1>1, <1>3, <1>6, <2>1, <2>3, TurnedRound DEF StreamInv
    <3>2. StreamInv'
      BY <1>7, <2>3, <3>1 DEF StreamInv
    <3>3. Streaming /\ Streaming' /\ ~At("stream", "write")
      BY <1>2, <1>7, <2>1, <2>3 DEF Streaming, At
    <3>4. th'[Owner] = th[Owner]
      BY <1>7, <2>3, OwnerIs DEF Only
    <3>5. OwnerInv' /\ ClosingInv'
      BY <1>1, <1>2, <1>7, <2>3, <3>3, <3>4, StreamMoves
    <3>6. QED
      BY <1>8, <1>9, <1>10, <2>2, <3>2, <3>5 DEF IInv
  <2>4. CASE t = Owner
    <3>1. th'["stream"] = th["stream"]
      BY <1>7, <2>4, OwnerIs DEF Only
    <3>2. StreamInv' /\ (Streaming' <=> Streaming)
      BY <1>1, <3>1, StreamStays
    <3>3. Ordered(q, phase) /\ (Starting(q) => Starting(th[Owner].todo))
      BY <1>1, <1>3, <1>6, <2>1, <2>4, TurnedOrdered DEF OwnerInv
    <3>4. ~At(Owner, "join")
      BY <1>2, <2>4, AtOne
    <3>5. ~At(Owner, "ask")' /\ ~At(Owner, "poll")'
      BY <1>7, <2>1, <2>4 DEF At
    <3>6. \A i \in 1..(Len(plan'.calls[Owner]) - 1) : plan'.calls[Owner][i] # "close"
      BY <1>1, <1>2 DEF OwnerInv
    <3>7. (Starting(th[Owner].todo) => ~Streaming /\ ~stopping) /\ ~(Streaming /\ stopping)
      BY <1>1, <3>4 DEF OwnerInv
    <3>8. OwnerInv'
      BY <1>2, <1>7, <2>4, <3>2, <3>3, <3>5, <3>6, <3>7 DEF OwnerInv
    <3>9. ASSUME phase = "closing" PROVE ClosingInv'
      <4>1. PICK m \in 1..13 : m = Len(th[Owner].todo) /\ LeftAt(m)
        BY <1>1, <3>9, WhenClosing
      <4>2. m = 10
        BY <1>2, <2>4, <4>1 DEF LeftAt
      <4>3. m = Len(q) /\ q[1] = "push" /\ \A i \in 1..m : i # 1 => q[i] = th[Owner].todo[i]
        BY <2>1, <2>4, <4>1 DEF Turned
      <4>4. \A i \in 1..m : i # 1 => th[Owner].todo[i] = Close[13 - m + i]
        BY <1>1, <3>9, <4>1 DEF ClosingInv
      <4>5. plan'.calls[Owner] = <<>> /\ (~ghost.crossed => Reached(m))
        BY <1>1, <1>2, <3>9, <4>1 DEF ClosingInv
      <4>6. Reached(m) => Reached(m)'
        <5>1. At("stream", "write")' <=> At("stream", "write")
          BY <3>1 DEF At
        <5>2. QED
          BY <1>2, <3>1, <3>2, <4>2, <5>1 DEF Reached
      <4>7. m = Len(th'[Owner].todo) /\ \A i \in 1..m : th'[Owner].todo[i] = Close[13 - m + i] \/ (i = 1 /\ m = 10 /\ th'[Owner].todo[i] = "push")
        BY <1>7, <2>4, <4>2, <4>3, <4>4
      <4>8. m # 1 /\ (~ghost'.crossed => Reached(m)')
        BY <1>2, <4>2, <4>5, <4>6
      <4>9. QED
        BY <1>2, <3>9, <4>5, <4>7, <4>8 DEF ClosingInv
    <3>10. ASSUME phase # "closing" PROVE ClosingInv'
      BY <1>1, <1>2, <2>4, <3>10, NotClosing
    <3>11. QED
      BY <1>8, <1>9, <1>10, <2>2, <3>2, <3>8, <3>9, <3>10 DEF IInv
  <2>5. CASE t # Owner /\ t # "stream"
    <3>1. th'["stream"] = th["stream"] /\ th'[Owner] = th[Owner]
      BY <1>7, <2>5, OwnerIs DEF Only
    <3>2. StreamInv' /\ OwnerInv' /\ ClosingInv'
      BY <1>1, <1>2, <3>1, StreamStays, OwnerStays
    <3>3. QED
      BY <1>8, <1>9, <1>10, <2>2, <3>2 DEF IInv
  <2>6. QED
    BY <2>3, <2>4, <2>5
<1>13. QED
  BY <1>11, <1>12

LEMMA PushesKeeps ==
  ASSUME IInv, NEW t \in Threads, Pushes(t)
  PROVE  IInv'
<1>1. TypeOK /\ HoldInv /\ RepliesKept
  BY DEF IInv
<1>2. /\ At(t, "push") /\ th[t].todo # <<>> /\ PushesBack(t)
      /\ UNCHANGED <<phase, apply, stopping, latest, gen, hot, tele, shown, board, tick, asked, plan>>
  BY DEF Pushes, At
<1>3. th[t] \in Thread /\ th[t].todo \in Seq(Steps) /\ th[t].hold \in Seq(Frame) /\ queue \in Seq(Frame)
  BY <1>1, ThreadIs DEF TypeOK
<1>4. PICK all : all = th[t].hold \o queue
  OBVIOUS
<1>5. all \in Seq(Frame) /\ Len(all) \in Nat /\ RepliesIn(all) = RepliesIn(th[t].hold) \cup RepliesIn(queue)
  BY <1>3, <1>4, RepliesConcat, ConcatProperties
<1>6. PICK n \in Nat : n = (IF Len(all) > Cap THEN Cap ELSE Len(all)) /\ n <= Len(all)
  BY <1>5, SessionAssumption
<1>7. PICK keep : keep = SubSeq(all, 1, n)
  OBVIOUS
<1>8. keep \in Seq(Frame) /\ RepliesIn(keep) \subseteq RepliesIn(all)
  <2>1. 1 \in 1..(Len(all) + 1)
    BY <1>5
  <2>2. QED
    BY <1>5, <1>6, <1>7, <2>1, RepliesPart
<1>9. /\ queue' = keep /\ ghost' = [ghost EXCEPT !.lost = @ \cup (RepliesIn(all) \ RepliesIn(keep))]
      /\ th' = [th EXCEPT ![t].todo = Tail(@), ![t].hold = <<>>]
  BY <1>2, <1>4, <1>6, <1>7 DEF PushesBack
<1>10. RepliesIn(all) \subseteq Nat
  <2>1. ASSUME NEW x \in RepliesIn(all) PROVE x \in Nat
    <3>1. PICK i \in 1..Len(all) : all[i].kind = "reply" /\ all[i].n = x
      BY <1>5, ReplyIs
    <3>2. all[i] \in Frame
      BY <1>5
    <3>3. QED
      BY <3>1, <3>2 DEF Frame
  <2>2. QED
    BY <2>1
<1>11. /\ ghost'.taken = ghost.taken /\ ghost'.crossed = ghost.crossed
       /\ ghost'.lost = ghost.lost \cup (RepliesIn(all) \ RepliesIn(keep))
       /\ ghost' \in [taken : SUBSET Nat, lost : SUBSET Nat, crossed : BOOLEAN]
  BY <1>1, <1>9, <1>10 DEF TypeOK
<1>12. /\ Only(t) /\ Off(th[t].todo, th'[t].todo, 1) /\ th'[t].img = th[t].img /\ th'[t].hold = <<>>
  <2>1. PICK q : q = Tail(th[t].todo)
    OBVIOUS
  <2>2. q \in Seq(Steps) /\ Off(th[t].todo, q, 1)
    BY <1>2, <1>3, <2>1, TailOff
  <2>3. <<>> \in Seq(Frame)
    OBVIOUS
  <2>4. PICK e : e = <<>>
    OBVIOUS
  <2>5. e \in Seq(Frame)
    BY <2>3, <2>4
  <2>6. PICK r : r = [[th[t] EXCEPT !.todo = q] EXCEPT !.hold = e]
    OBVIOUS
  <2>7. r \in Thread /\ r.todo = q /\ r.img = th[t].img /\ r.hold = e
    BY <1>3, <2>2, <2>5, <2>6 DEF Thread
  <2>8. r \in Thread /\ r.todo = q /\ r.img = th[t].img /\ r.hold = <<>>
    BY <2>4, <2>7
  <2>9. th' = [th EXCEPT ![t] = r]
    BY <1>9, <2>1, <2>4, <2>6
  <2>10. QED
    BY <1>1, <2>2, <2>8, <2>9, Effect
<1>13. TypeOK'
  BY <1>1, <1>2, <1>8, <1>9, <1>11, <1>12 DEF TypeOK, Only
<1>14. HoldInv'
  BY <1>1, <1>12, HoldMoves
<1>15. RepliesKept'
  <2>1. Held = HeldBut(t) \cup RepliesIn(th[t].hold) /\ Held' = HeldBut(t)
    BY <1>12, HeldIs, HeldNext, RepliesNone
  <2>2. RepliesIn(queue') \cup Held' \cup ghost'.taken \cup ghost'.lost
          = RepliesIn(queue) \cup Held \cup ghost.taken \cup ghost.lost
    BY <1>5, <1>8, <1>9, <1>11, <2>1
  <2>3. QED
    BY <1>1, <1>2, <2>2 DEF RepliesKept
<1>16. OthersInv' /\ StreamInv' /\ OwnerInv' /\ ClosingInv'
  BY <1>2, <1>11, <1>12, DrainEnds
<1>17. QED
  BY <1>13, <1>14, <1>15, <1>16 DEF IInv

LEMMA PollsKeeps ==
  ASSUME IInv, NEW c \in Callers, Polls(c)
  PROVE  IInv'
<1>1. TypeOK /\ HoldInv /\ OthersInv /\ StreamInv /\ OwnerInv /\ ClosingInv /\ RepliesKept
  BY DEF IInv
<1>2. /\ At(c, "poll") /\ th[c].todo # <<>> /\ queue # <<>> /\ queue' = Tail(queue)
      /\ UNCHANGED <<phase, apply, stopping, latest, gen, hot, tele, shown, board, tick, asked, plan>>
  BY DEF Polls, At
<1>3. c = Owner /\ c \in Threads /\ c # "stream" /\ At(Owner, "poll")
  BY <1>2, OwnerIs, OnlyOwner DEF Common
<1>4. queue \in Seq(Frame) /\ queue' \in Seq(Frame) /\ Head(queue) \in Frame
  BY <1>1, <1>2, TailOff DEF TypeOK
<1>5. RepliesIn(queue) = RepliesIn(queue') \cup Its(Head(queue))
  BY <1>2, <1>4, RepliesTail
<1>6. CASE Head(queue).kind = "reply"
  <2>1. Done(c) /\ ghost' = [ghost EXCEPT !.taken = @ \cup {Head(queue).n}]
    BY <1>6 DEF Polls
  <2>2. Head(queue).n \in Nat /\ Its(Head(queue)) = {Head(queue).n}
    BY <1>4, <1>6 DEF Frame, Its
  <2>3. /\ ghost'.taken = ghost.taken \cup {Head(queue).n} /\ ghost'.crossed = ghost.crossed
        /\ ghost'.lost = ghost.lost /\ ghost' \in [taken : SUBSET Nat, lost : SUBSET Nat, crossed : BOOLEAN]
    BY <1>1, <2>1, <2>2 DEF TypeOK
  <2>4. /\ Only(c) /\ Off(th[c].todo, th'[c].todo, 1) /\ th'[c].hold = th[c].hold
    BY <1>1, <1>2, <1>3, <2>1, DoneIs
  <2>5. TypeOK'
    BY <1>1, <1>2, <1>4, <2>3, <2>4 DEF TypeOK, Only
  <2>6. th[c].hold = <<>> /\ ~At(c, "drain") /\ ~At(c, "push")
    BY <1>1, <1>2, <1>3 DEF HoldInv, At
  <2>7. HoldInv'
    BY <1>1, <1>3, <2>4, <2>6, HoldMoves
  <2>8. RepliesKept'
    <3>1. Held' = Held
      BY <1>3, <2>4, HeldIs, HeldNext
    <3>2. RepliesIn(queue') \cup ghost'.taken = RepliesIn(queue) \cup ghost.taken
      BY <1>5, <2>2, <2>3
    <3>3. QED
      BY <1>1, <1>2, <2>3, <3>1, <3>2 DEF RepliesKept
  <2>9. OthersInv'
    BY <1>1, <1>2, <1>3, <2>4, OthersMove, SessionAssumption
  <2>10. StreamInv'
    BY <1>1, <1>3, <2>4, OwnerIs, StreamStays DEF Only
  <2>11. ~At(Owner, "alive") /\ ~At(Owner, "pause") /\ ~At(Owner, "stop") /\ ~At(Owner, "join")
    BY <1>3, AtOne
  <2>12. OwnerInv'
    BY <1>1, <1>2, <1>3, <2>4, <2>11, OwnerWalks
  <2>13. phase # "closing"
    <3>1. ASSUME phase = "closing" PROVE \E m \in 1..13 : m = Len(th[Owner].todo) /\ LeftAt(m)
      BY <1>1, <3>1, WhenClosing
    <3>2. QED
      BY <1>3, <3>1 DEF LeftAt
  <2>14. ClosingInv'
    BY <1>1, <1>2, <1>3, <2>13, NotClosing
  <2>15. QED
    BY <2>5, <2>7, <2>8, <2>9, <2>10, <2>12, <2>14 DEF IInv
<1>7. CASE Head(queue).kind # "reply"
  <2>1. th' = th /\ ghost' = ghost /\ Its(Head(queue)) = {}
    BY <1>7 DEF Polls, Its
  <2>2. TypeOK'
    BY <1>1, <1>2, <1>4, <2>1 DEF TypeOK
  <2>3. HoldInv' /\ OthersInv' /\ StreamInv'
    BY <1>1, <1>2, <2>1 DEF HoldInv, OthersInv, StreamInv, At
  <2>4. RepliesKept'
    BY <1>1, <1>2, <1>5, <2>1 DEF RepliesKept, Held
  <2>5. OwnerInv' /\ ClosingInv'
    BY <1>1, <1>2, <2>1, OwnerStays
  <2>6. QED
    BY <2>2, <2>3, <2>4, <2>5 DEF IInv
<1>8. QED
  BY <1>6, <1>7

-----------------------------------------------------------------------------
(* Frames arrive. *)

LEMMA FeedsKeeps ==
  ASSUME IInv, NEW f \in Frame, Feeds(f), tick' \in Nat, asked' \in [n : Nat, answered : Nat],
         1..asked'.answered = (1..asked.answered) \cup Its(f)
  PROVE  IInv'
<1>1. TypeOK /\ HoldInv /\ OthersInv /\ StreamInv /\ OwnerInv /\ ClosingInv /\ RepliesKept
  BY DEF IInv
<1>2. phase # "closed" /\ UNCHANGED <<phase, apply, stopping, latest, gen, hot, th, tele, shown, board, plan>>
  BY DEF Feeds
<1>3. PICK all : all = Append(queue, f)
  OBVIOUS
<1>4. queue \in Seq(Frame)
  BY <1>1 DEF TypeOK
<1>5. all \in Seq(Frame) /\ Len(all) \in Nat /\ RepliesIn(all) = RepliesIn(queue) \cup Its(f)
  BY <1>3, <1>4, RepliesAppend
<1>6. PICK n \in Nat : n = Len(all) /\ n <= Len(all)
  BY <1>5
<1>7. PICK m \in 1..(n + 1) : m = n - (IF n > Cap THEN Cap ELSE n) + 1
  <2>1. PICK c \in Nat : c = (IF n > Cap THEN Cap ELSE n) /\ c <= n
    BY SessionAssumption
  <2>2. n - c + 1 \in 1..(n + 1)
    BY <2>1
  <2>3. QED
    BY <2>1, <2>2
<1>8. PICK keep : keep = SubSeq(all, m, n)
  OBVIOUS
<1>9. keep \in Seq(Frame) /\ RepliesIn(keep) \subseteq RepliesIn(all)
  BY <1>5, <1>6, <1>7, <1>8, RepliesPart
<1>10. /\ queue' = keep /\ ghost' = [ghost EXCEPT !.lost = @ \cup (RepliesIn(all) \ RepliesIn(keep))]
  BY <1>3, <1>6, <1>7, <1>8 DEF Feeds
<1>11. RepliesIn(all) \subseteq Nat
  <2>1. ASSUME NEW x \in RepliesIn(all) PROVE x \in Nat
    <3>1. PICK i \in 1..Len(all) : all[i].kind = "reply" /\ all[i].n = x
      BY <1>5, ReplyIs
    <3>2. all[i] \in Frame
      BY <1>5
    <3>3. QED
      BY <3>1, <3>2 DEF Frame
  <2>2. QED
    BY <2>1
<1>12. /\ ghost'.taken = ghost.taken /\ ghost'.crossed = ghost.crossed
       /\ ghost'.lost = ghost.lost \cup (RepliesIn(all) \ RepliesIn(keep))
       /\ ghost' \in [taken : SUBSET Nat, lost : SUBSET Nat, crossed : BOOLEAN]
  BY <1>1, <1>10, <1>11 DEF TypeOK
<1>13. TypeOK'
  BY <1>1, <1>2, <1>9, <1>10, <1>12 DEF TypeOK
<1>14. HoldInv' /\ OthersInv'
  BY <1>1, <1>2 DEF HoldInv, OthersInv, At
<1>15. StreamInv' /\ OwnerInv' /\ ClosingInv'
  BY <1>1, <1>2, <1>12, StreamStays, OwnerStays
<1>16. RepliesKept'
  <2>1. Held' = Held
    BY <1>2 DEF Held
  <2>2. QED
    BY <1>1, <1>5, <1>9, <1>10, <1>12, <2>1 DEF RepliesKept
<1>17. QED
  BY <1>13, <1>14, <1>15, <1>16 DEF IInv

LEMMA ArrivalsKeep ==
  ASSUME IInv, FeedsBack \/ Answers
  PROVE  IInv'
<1>1. tick \in Nat /\ asked \in [n : Nat, answered : Nat]
  BY DEF IInv, TypeOK
<1>2. CASE FeedsBack
  <2>1. PICK f : f = Fb(tick + 1)
    OBVIOUS
  <2>2. f \in Frame /\ Its(f) = {}
    BY <1>1, <2>1 DEF Fb, Frame, Its
  <2>3. Feeds(f) /\ tick' = tick + 1 /\ asked' = asked
    BY <1>2, <2>1 DEF FeedsBack
  <2>4. QED
    BY <1>1, <2>2, <2>3, FeedsKeeps
<1>3. CASE Answers
  <2>1. PICK f : f = Reply(asked.answered + 1)
    OBVIOUS
  <2>2. f \in Frame /\ Its(f) = {asked.answered + 1}
    BY <1>1, <2>1 DEF Reply, Frame, Its
  <2>3. Feeds(f) /\ tick' = tick /\ asked' = [asked EXCEPT !.answered = @ + 1]
    BY <1>3, <2>1 DEF Answers
  <2>4. asked' \in [n : Nat, answered : Nat] /\ asked'.answered = asked.answered + 1
    BY <1>1, <2>3
  <2>5. PICK a \in Nat : a = asked.answered
    BY <1>1
  <2>6. 1..(a + 1) = (1..a) \cup {a + 1}
    OBVIOUS
  <2>7. 1..asked'.answered = (1..asked.answered) \cup Its(f)
    BY <2>2, <2>4, <2>5, <2>6
  <2>8. QED
    BY <1>1, <2>2, <2>3, <2>4, <2>7, FeedsKeeps
<1>4. QED
  BY <1>2, <1>3

-----------------------------------------------------------------------------
(* The steps of the stream. *)

\* What its steps outside a drain keep.
LEMMA StreamWalks ==
  ASSUME IInv, NEW step \in {"store", "build", "write"}, At("stream", step),
         Only("stream"), Off(th["stream"].todo, th'["stream"].todo, 1),
         th'["stream"].hold = th["stream"].hold,
         UNCHANGED <<queue, plan, asked>>, ghost'.taken = ghost.taken, ghost'.lost = ghost.lost
  PROVE  /\ HoldInv' /\ OthersInv' /\ RepliesKept' /\ StreamInv'
         /\ Streaming /\ Streaming' /\ th'[Owner] = th[Owner] /\ "stream" \in Threads
         /\ (step = "build" => At("stream", "write")')
<1>1. TypeOK /\ HoldInv /\ OthersInv /\ StreamInv /\ RepliesKept /\ "stream" \in Threads
  BY OwnerIs DEF IInv
<1> DEFINE s == th["stream"].todo
           r == th'["stream"].todo
<1>2. s \in Seq(Steps) /\ r \in Seq(Steps) /\ s # <<>> /\ Head(s) = step /\ s[1] = step
  BY <1>1, ThreadIs, TailOff DEF At, Only, Thread
<1>3. HoldInv' /\ OthersInv' /\ RepliesKept'
  BY <1>1, <1>2, Walk
<1>4. Round(r) /\ r # <<>>
  BY <1>1, <1>2, RoundOff DEF StreamInv
<1>5. th'[Owner] = th[Owner]
  BY OwnerIs DEF Only
<1>6. ASSUME step = "build" PROVE At("stream", "write")'
  <2>1. Off(s, r, 1) /\ Round(s)
    BY <1>1 DEF StreamInv
  <2> HIDE DEF s, r
  <2>2. Len(s) >= 1
    BY <1>2
  <2>3. s[1 + 1] = "write"
    BY <1>2, <1>6, <2>1, <2>2 DEF Round
  <2>4. Len(r) >= 1
    BY <1>2, <1>4
  <2>5. r[1] = "write" /\ Head(r) = r[1]
    BY <1>2, <1>4, <2>1, <2>3, <2>4 DEF Off
  <2>6. QED
    BY <1>4, <2>5 DEF At, r
<1>7. QED
  BY <1>1, <1>2, <1>3, <1>4, <1>5, <1>6 DEF Streaming, StreamInv

LEMMA StoresKeeps ==
  ASSUME IInv, Stores
  PROVE  IInv'
<1>1. TypeOK /\ OwnerInv /\ ClosingInv
  BY DEF IInv
<1>2. "stream" \in Threads /\ th["stream"] \in Thread /\ NoFrame \in Frame
  BY <1>1, OwnerIs, ThreadIs DEF NoFrame, Fb, Frame
<1>3. At("stream", "store") /\ UNCHANGED <<phase, apply, queue, stopping, board, tick, asked, plan, ghost>>
  BY DEF Stores
<1>4. /\ Only("stream") /\ Off(th["stream"].todo, th'["stream"].todo, 1)
      /\ th'["stream"].hold = th["stream"].hold /\ th'["stream"].img = th["stream"].img
  <2>1. PICK q : q = Tail(th["stream"].todo)
    OBVIOUS
  <2>2. q \in Seq(Steps) /\ Off(th["stream"].todo, q, 1)
    BY <1>1, <1>2, <1>3, <2>1, TailOff, ThreadIs DEF At
  <2>3. PICK r : r = [[th["stream"] EXCEPT !.todo = q] EXCEPT !.got = NoFrame]
    OBVIOUS
  <2>4. r \in Thread /\ r.todo = q /\ r.img = th["stream"].img /\ r.hold = th["stream"].hold
    BY <1>2, <2>2, <2>3 DEF Thread
  <2>5. th' = [th EXCEPT !["stream"] = r]
    BY <2>1, <2>3 DEF Stores
  <2>6. QED
    BY <1>1, <1>2, <2>2, <2>4, <2>5, Effect
<1>5. TypeOK'
  BY <1>1, <1>3, <1>4 DEF TypeOK, Only
<1>6. /\ HoldInv' /\ OthersInv' /\ RepliesKept' /\ StreamInv'
      /\ Streaming /\ Streaming' /\ th'[Owner] = th[Owner]
  BY <1>3, <1>4, StreamWalks
<1>7. ~At("stream", "write")
  BY <1>3, AtOne
<1>8. OwnerInv' /\ ClosingInv'
  BY <1>1, <1>3, <1>4, <1>6, <1>7, StreamMoves
<1>9. QED
  BY <1>5, <1>6, <1>8 DEF IInv

\* The stream builds an image or writes the one it built.
LEMMA StreamCommands ==
  ASSUME IInv, Builds("stream") \/ Writes("stream")
  PROVE  IInv'
<1>1. TypeOK /\ OwnerInv /\ ClosingInv
  BY DEF IInv
<1>2. "stream" \in Threads /\ th["stream"] \in Thread /\ th["stream"].img \in BOOLEAN /\ "stream" \notin Others
  BY <1>1, OwnerIs, ThreadIs, SessionAssumption
<1>3. phase = "closing" /\ ~ghost.crossed => Reached(Len(th[Owner].todo))
  BY <1>1 DEF ClosingInv
<1>4. CASE Builds("stream")
  <2>1. /\ At("stream", "build")
        /\ UNCHANGED <<phase, apply, queue, stopping, latest, gen, hot, tele, shown, board, tick, asked, plan, ghost>>
    BY <1>1, <1>2, <1>4, BuildsIs
  <2>2. /\ Only("stream") /\ Off(th["stream"].todo, th'["stream"].todo, 1)
        /\ th'["stream"].hold = th["stream"].hold /\ th'["stream"].img = apply
    BY <1>1, <1>2, <1>4, BuildsIs
  <2>3. TypeOK'
    BY <1>1, <2>1, <2>2 DEF TypeOK, Only
  <2>4. /\ HoldInv' /\ OthersInv' /\ RepliesKept' /\ StreamInv'
        /\ Streaming /\ Streaming' /\ th'[Owner] = th[Owner] /\ At("stream", "write")'
    BY <2>1, <2>2, StreamWalks
  <2>5. OwnerInv'
    BY <1>1, <2>1, <2>4 DEF OwnerInv, At
  <2>6. ASSUME phase = "closing" PROVE \E m \in 1..13 : m = Len(th[Owner].todo)
    BY <1>1, <2>6, WhenClosing
  <2>7. ASSUME phase = "closing", ~ghost.crossed PROVE Reached(Len(th[Owner].todo))'
    <3>1. PICK m \in 1..13 : m = Len(th[Owner].todo)
      BY <2>6, <2>7
    <3>2. Reached(m)
      BY <1>3, <2>7, <3>1
    <3>3. Reached(m)'
      BY <2>1, <2>2, <2>4, <3>1, <3>2 DEF Reached
    <3>4. QED
      BY <2>4, <3>1, <3>3
  <2>8. phase # "closed" /\ (phase = "closing" => Len(th[Owner].todo) # 1)
    BY <1>1, <2>4 DEF ClosingInv
  <2>9. ClosingInv'
    BY <1>1, <2>1, <2>4, <2>7, <2>8 DEF ClosingInv
  <2>10. QED
    BY <2>3, <2>4, <2>5, <2>9 DEF IInv
<1>5. CASE Writes("stream")
  <2>1. At("stream", "write") /\ UNCHANGED <<phase, apply, queue, stopping, tick, asked, plan>>
    BY <1>5 DEF Writes
  <2>2. phase # "closed"
    BY <1>1, <2>1 DEF ClosingInv, Streaming, At
  <2>3. /\ Done("stream") /\ board' = th["stream"].img
        /\ ghost' = [ghost EXCEPT !.crossed = @ \/ (phase = "closing" /\ "stream" \in Others)]
    BY <1>5, <2>2 DEF Writes
  <2>4. /\ Only("stream") /\ Off(th["stream"].todo, th'["stream"].todo, 1)
        /\ th'["stream"].hold = th["stream"].hold /\ th'["stream"].img = th["stream"].img
    BY <1>1, <1>2, <2>1, <2>3, DoneIs
  <2>5. /\ ghost'.taken = ghost.taken /\ ghost'.lost = ghost.lost /\ ghost'.crossed = ghost.crossed
        /\ ghost' \in [taken : SUBSET Nat, lost : SUBSET Nat, crossed : BOOLEAN]
    BY <1>1, <1>2, <2>3 DEF TypeOK
  <2>6. TypeOK'
    BY <1>1, <1>2, <2>1, <2>3, <2>4, <2>5 DEF TypeOK, Only
  <2>7. /\ HoldInv' /\ OthersInv' /\ RepliesKept' /\ StreamInv'
        /\ Streaming /\ Streaming' /\ th'[Owner] = th[Owner]
    BY <2>1, <2>4, <2>5, StreamWalks
  <2>8. OwnerInv'
    BY <1>1, <2>1, <2>7 DEF OwnerInv, At
  <2>9. ASSUME phase = "closing", ~ghost.crossed PROVE Reached(Len(th[Owner].todo))'
    <3>1. PICK m \in 1..13 : m = Len(th[Owner].todo)
      BY <1>1, <2>9, WhenClosing
    <3>2. Reached(m)
      BY <1>3, <2>9, <3>1
    <3>3. Reached(m)'
      BY <2>1, <2>3, <2>4, <2>7, <3>1, <3>2 DEF Reached
    <3>4. QED
      BY <2>7, <3>1, <3>3
  <2>10. phase = "closing" => Len(th[Owner].todo) # 1
    BY <1>1, <2>7 DEF ClosingInv
  <2>11. ClosingInv'
    BY <1>1, <2>1, <2>2, <2>5, <2>7, <2>9, <2>10 DEF ClosingInv
  <2>12. QED
    BY <2>6, <2>7, <2>8, <2>11 DEF IInv
<1>6. QED
  BY <1>4, <1>5

LEMMA EndsRoundKeeps ==
  ASSUME IInv, EndsRound
  PROVE  IInv'
<1>1. TypeOK /\ HoldInv /\ OthersInv /\ StreamInv /\ OwnerInv /\ ClosingInv /\ RepliesKept
  BY DEF IInv
<1>2. "stream" \in Threads /\ th["stream"] \in Thread /\ th["stream"].img \in BOOLEAN /\ "stream" \notin Others
  BY <1>1, OwnerIs, ThreadIs, SessionAssumption
<1>3. /\ At("stream", "stats") /\ Streaming /\ ~At("stream", "write")
      /\ ~At("stream", "drain") /\ ~At("stream", "push")
      /\ UNCHANGED <<phase, apply, queue, stopping, board, tick, asked, plan, ghost>>
  <2>1. At("stream", "stats") /\ UNCHANGED <<phase, apply, queue, stopping, board, tick, asked, plan, ghost>>
    BY DEF EndsRound
  <2>2. QED
    BY <2>1, AtOne DEF At, Streaming
<1>4. PICK next : next = IF stopping THEN <<>> ELSE Loop
  OBVIOUS
<1>5. /\ next \in Seq(Steps) /\ Round(next)
      /\ (stopping => next = <<>>) /\ (~stopping => next # <<>>)
  <2>1. Loop \in Seq(Steps) /\ Len(Loop) = 5 /\ Loop # <<>>
    BY DEF Loop, Steps, Common
  <2>2. \A i \in 1..5 : i = 1 \/ i = 2 \/ i = 3 \/ i = 4 \/ i = 5
    OBVIOUS
  <2>3. Loop[1] = "drain" /\ Loop[2] = "store" /\ Loop[3] = "build" /\ Loop[4] = "write" /\ Loop[5] = "stats"
    BY DEF Loop
  <2>4. Round(Loop)
    BY <2>1, <2>2, <2>3 DEF Round
  <2>5. <<>> \in Seq(Steps) /\ Round(<<>>)
    BY DEF Round
  <2>6. QED
    BY <1>4, <2>1, <2>4, <2>5
<1>6. PICK r : r = [th["stream"] EXCEPT !.todo = next]
  OBVIOUS
<1>7. r \in Thread /\ r.todo = next /\ r.img = th["stream"].img /\ r.hold = th["stream"].hold
  BY <1>2, <1>5, <1>6 DEF Thread
<1>8. th' = [th EXCEPT !["stream"] = r]
  BY <1>4, <1>6 DEF EndsRound
<1>9. Only("stream") /\ th'["stream"] = r
  BY <1>1, <1>2, <1>7, <1>8, Effect
<1>10. th'[Owner] = th[Owner]
  BY <1>9, OwnerIs DEF Only
<1>11. TypeOK'
  BY <1>1, <1>3, <1>9 DEF TypeOK, Only
<1>12. th["stream"].hold = <<>>
  BY <1>1, <1>2, <1>3 DEF HoldInv
<1>13. HoldInv' /\ OthersInv' /\ StreamInv'
  BY <1>1, <1>2, <1>3, <1>5, <1>7, <1>9, <1>12, HoldMoves, OthersMove DEF StreamInv
<1>14. RepliesKept'
  <2>1. Held' = Held
    BY <1>2, <1>7, <1>9, HeldIs, HeldNext
  <2>2. QED
    BY <1>1, <1>3, <2>1 DEF RepliesKept
<1>15. CASE ~stopping
  <2>1. Streaming'
    BY <1>5, <1>7, <1>9, <1>15 DEF Streaming
  <2>2. OwnerInv' /\ ClosingInv'
    BY <1>1, <1>3, <1>7, <1>9, <1>10, <2>1, StreamMoves
  <2>3. QED
    BY <1>11, <1>13, <1>14, <2>2 DEF IInv
<1>16. CASE stopping
  <2>1. ~Streaming' /\ At(Owner, "join")
    BY <1>1, <1>3, <1>5, <1>7, <1>9, <1>16 DEF Streaming, OwnerInv
  <2>2. OwnerInv'
    BY <1>1, <1>3, <1>10, <1>16, <2>1 DEF OwnerInv, At
  <2>3. phase # "closed"
    BY <1>1, <1>3 DEF ClosingInv
  <2>4. ASSUME phase = "closing", ~ghost.crossed PROVE Reached(Len(th[Owner].todo))'
    <3>1. PICK m \in 1..13 : m = Len(th[Owner].todo) /\ LeftAt(m)
      BY <1>1, <2>4, WhenClosing
    <3>2. m = 2
      BY <2>1, <3>1 DEF LeftAt
    <3>3. Reached(m)
      BY <1>1, <2>4, <3>1 DEF ClosingInv
    <3>4. ~apply /\ ~th["stream"].img /\ ~board
      BY <1>3, <3>2, <3>3 DEF Reached
    <3>5. Reached(m)'
      BY <1>3, <1>7, <1>9, <3>2, <3>4 DEF Reached
    <3>6. QED
      BY <1>10, <3>1, <3>5
  <2>5. ClosingInv'
    BY <1>1, <1>3, <1>10, <2>1, <2>3, <2>4 DEF ClosingInv
  <2>6. QED
    BY <1>11, <1>13, <1>14, <2>2, <2>5 DEF IInv
<1>17. QED
  BY <1>15, <1>16

-----------------------------------------------------------------------------
(* Every step. *)

LEMMA Unchanged ==
  ASSUME IInv, UNCHANGED <<phase, apply, queue, stopping, th, board, tick, asked, plan, ghost>>
  PROVE  IInv'
<1>1. TypeOK' /\ HoldInv' /\ OthersInv' /\ StreamInv'
  BY DEF IInv, TypeOK, HoldInv, OthersInv, StreamInv, At
<1>2. OwnerInv' /\ ClosingInv'
  BY OwnerStays DEF IInv
<1>3. RepliesKept'
  <2>1. Held' = Held
    BY DEF Held
  <2>2. QED
    BY <2>1 DEF IInv, RepliesKept
<1>4. QED
  BY <1>1, <1>2, <1>3 DEF IInv

LEMMA InitHolds == Init => IInv
<1>1. SUFFICES ASSUME Init PROVE IInv
  OBVIOUS
<1>2. Idle \in Thread /\ Idle.todo = <<>> /\ Idle.hold = <<>>
  BY DEF Idle, Thread, NoFrame, Fb, Frame
<1>3. \A t \in Threads : th[t] = Idle
  BY <1>1 DEF Init
<1>4. th[Owner].todo = <<>> /\ th["stream"].todo = <<>> /\ Len(<<>>) = 0
  BY <1>2, <1>3, OwnerIs
<1>5. TypeOK
  <2>1. th \in [Threads -> Thread]
    BY <1>1, <1>2 DEF Init
  <2>2. plan \in [frames : Nat, calls : [Callers -> Seq(Opens \cup Shared \cup {"rpc", "close"})]]
    BY <1>1, PlansAssumption DEF Init
  <2>3. queue \in Seq(Frame) /\ tick \in Nat /\ asked \in [n : Nat, answered : Nat]
    BY <1>1 DEF Init
  <2>4. ghost \in [taken : SUBSET Nat, lost : SUBSET Nat, crossed : BOOLEAN]
    BY <1>1 DEF Init
  <2>5. phase \in {"new", "open", "closing", "closed"} /\ apply \in BOOLEAN /\ board \in BOOLEAN /\ stopping \in BOOLEAN
    BY <1>1 DEF Init
  <2>6. QED
    BY <2>1, <2>2, <2>3, <2>4, <2>5 DEF TypeOK
<1>6. HoldInv
  BY <1>2, <1>3 DEF HoldInv
<1>7. OthersInv
  <2>1. ASSUME NEW t \in Others
        PROVE  /\ \A i \in 1..Len(th[t].todo) : th[t].todo[i] \in Common
               /\ \A i \in 1..Len(plan.calls[t]) : plan.calls[t][i] \in Shared
    <3>1. th[t].todo = <<>>
      BY <1>2, <1>3 DEF Threads, Callers
    <3>2. \A i \in 1..Len(plan.calls[t]) : plan.calls[t][i] \in Shared
      BY <1>1, PlansAssumption DEF Init
    <3>3. QED
      BY <1>4, <3>1, <3>2
  <2>2. QED
    BY <2>1 DEF OthersInv
<1>8. StreamInv
  BY <1>4 DEF StreamInv, Round
<1>9. OwnerInv
  <2>1. \A i \in 1..(Len(plan.calls[Owner]) - 1) : plan.calls[Owner][i] # "close"
    BY <1>1, PlansAssumption DEF Init
  <2>2. Ordered(<<>>, phase) /\ ~Starting(<<>>)
    BY <1>4 DEF Ordered, Starting
  <2>3. ~Streaming
    BY <1>4 DEF Streaming
  <2>4. QED
    BY <1>4, <2>1, <2>2, <2>3 DEF OwnerInv
<1>10. ClosingInv
  BY <1>1 DEF Init, ClosingInv
<1>11. RepliesKept
  <2>1. \A t \in Threads : RepliesIn(th[t].hold) = {}
    BY <1>2, <1>3, RepliesNone
  <2>2. Held = {}
    BY <2>1 DEF Held
  <2>3. queue = <<>> /\ asked.answered = 0 /\ ghost.taken = {} /\ ghost.lost = {}
    BY <1>1 DEF Init
  <2>4. 1..0 = {}
    OBVIOUS
  <2>5. QED
    BY <2>2, <2>3, <2>4, RepliesNone DEF RepliesKept
<1>12. QED
  BY <1>5, <1>6, <1>7, <1>8, <1>9, <1>10, <1>11 DEF IInv

LEMMA CallerKeeps ==
  ASSUME IInv, NEW c \in Callers, Caller(c)
  PROVE  IInv'
<1>1. c \in Threads
  BY OwnerIs
<1>2. CASE Calls(c)
  BY <1>2, CallsKeeps
<1>3. CASE Sets(c, "arm", TRUE)
  BY <1>3, SetsKeeps
<1>4. CASE Sets(c, "disarm", FALSE)
  BY <1>4, SetsKeeps
<1>5. CASE Builds(c)
  BY <1>5, BuildsKeeps
<1>6. CASE Writes(c)
  BY <1>6, WritesKeeps
<1>7. CASE Pops(c)
  BY <1>1, <1>7, PopsKeeps
<1>8. CASE Drains(c)
  BY <1>1, <1>8, DrainsKeeps
<1>9. CASE Pushes(c)
  BY <1>1, <1>9, PushesKeeps
<1>10. CASE Publishes(c) \/ Keeps(c)
  BY <1>10, PublishesKeeps
<1>11. CASE Pauses(c)
  BY <1>11, PausesKeeps
<1>12. CASE BenchWrites(c) \/ TimesOut(c) \/ Lingers(c) \/ Stops(c) \/ Joins(c)
  BY <1>12, BenchKeeps
<1>13. CASE Polls(c)
  BY <1>13, PollsKeeps
<1>14. CASE Resumes(c)
  BY <1>14, ResumesKeeps
<1>15. CASE StartsUnlessAlive(c)
  BY <1>15, StartsKeeps
<1>16. CASE Spawns(c)
  BY <1>16, SpawnsKeeps
<1>17. CASE Shuts(c)
  BY <1>17, ShutsKeeps
<1>18. CASE Opened(c)
  BY <1>18, OpenedKeeps
<1>19. QED
  BY <1>2, <1>3, <1>4, <1>5, <1>6, <1>7, <1>8, <1>9, <1>10, <1>11, <1>12, <1>13, <1>14, <1>15, <1>16,
     <1>17, <1>18 DEF Caller

LEMMA NextKeeps == IInv /\ [Next]_vars => IInv'
<1>1. SUFFICES ASSUME IInv, [Next]_vars PROVE IInv'
  OBVIOUS
<1>2. CASE \E c \in Callers : Caller(c)
  BY <1>1, <1>2, CallerKeeps
<1>3. CASE Stream
  <2>1. "stream" \in Threads
    BY OwnerIs
  <2>2. CASE Pops("stream")
    BY <1>1, <2>1, <2>2, PopsKeeps
  <2>3. CASE Drains("stream")
    BY <1>1, <2>1, <2>3, DrainsKeeps
  <2>4. CASE Pushes("stream")
    BY <1>1, <2>1, <2>4, PushesKeeps
  <2>5. CASE Stores
    BY <1>1, <2>5, StoresKeeps
  <2>6. CASE Builds("stream") \/ Writes("stream")
    BY <1>1, <2>6, StreamCommands
  <2>7. CASE EndsRound
    BY <1>1, <2>7, EndsRoundKeeps
  <2>8. QED
    BY <1>3, <2>2, <2>3, <2>4, <2>5, <2>6, <2>7 DEF Stream
<1>4. CASE Telemetry
  <2>1. UNCHANGED <<phase, apply, queue, stopping, th, board, tick, asked, plan, ghost>>
    BY <1>4 DEF Telemetry, Looks, Samples, TelePublishes
  <2>2. QED
    BY <1>1, <2>1, Unchanged
<1>5. CASE FeedsBack \/ Answers
  BY <1>1, <1>5, ArrivalsKeep
<1>6. CASE UNCHANGED vars
  BY <1>1, <1>6, Unchanged DEF vars
<1>7. QED
  BY <1>1, <1>2, <1>3, <1>4, <1>5, <1>6 DEF Next

-----------------------------------------------------------------------------
(* The theorems. *)

\* The inductive invariant of the session: who takes which step of which
\* script, what stands in the queue, what the opener knows of the stream, and
\* how far a closing has come.
THEOREM SessionInvariant == Spec => []IInv
<1>1. Init => IInv
  BY InitHolds
<1>2. IInv /\ [Next]_vars => IInv'
  BY NextKeeps
<1>3. QED
  BY <1>1, <1>2, PTL DEF Spec

\* No thread drops the reply another one waits for, with any number of
\* threads that drain the same queue (_drain_latest_plant_feedback).
THEOREM RepliesAreKept == Spec => []RepliesKept
<1>1. IInv => RepliesKept
  BY DEF IInv
<1>2. QED
  BY <1>1, SessionInvariant, PTL

\* While a bench call polls for its reply the stream does not run, whatever
\* the other threads do (pause_plant_stream).
THEOREM PauseIsQuiet == Spec => []PausedIsQuiet
<1>1. IInv => PausedIsQuiet
  <2>1. SUFFICES ASSUME IInv, NEW c \in Callers, At(c, "poll") PROVE ~Streaming
    BY DEF PausedIsQuiet
  <2>2. c = Owner
    BY <2>1, OnlyOwner DEF Common
  <2>3. QED
    BY <2>1, <2>2 DEF IInv, OwnerInv
<1>2. QED
  BY <1>1, SessionInvariant, PTL

\* A closed session leaves an image on the board that does not apply the
\* plant, unless another thread commanded it meanwhile (HostProxy.close).
THEOREM ClosingLeavesIdle == Spec => []ClosedIsIdle
<1>1. IInv => ClosedIsIdle
  BY DEF IInv, ClosingInv, ClosedIsIdle
<1>2. QED
  BY <1>1, SessionInvariant, PTL
=============================================================================
