-------------------------- MODULE BenchProbe_proofs --------------------------
(***************************************************************************)
(* Proofs about BenchProbe, for any drives, buses, ids, ranges and targets, *)
(* and any number of operations, interrupts, and lost or late messages.     *)
(***************************************************************************)
EXTENDS BenchProbe, FiniteSetTheorems, WellFoundedInduction, TLAPS

-----------------------------------------------------------------------------
(* Sequences and sets.                                                     *)

LEMMA TailIs ==
  ASSUME NEW S, NEW s \in Seq(S), s # <<>>
  PROVE  /\ Tail(s) \in Seq(S) /\ Len(s) \in Nat \ {0} /\ Len(Tail(s)) = Len(s) - 1
         /\ Head(s) = s[1] /\ Head(s) \in S
         /\ \A i \in 1 .. Len(Tail(s)) : Tail(s)[i] = s[i + 1]
         /\ Tail(s) = <<>> <=> Len(s) = 1
<1>1. Tail(s) \in Seq(S) /\ Len(s) \in Nat \ {0} /\ Len(Tail(s)) = Len(s) - 1
      /\ Head(s) = s[1] /\ Head(s) \in S /\ \A i \in 1 .. Len(Tail(s)) : Tail(s)[i] = s[i + 1]
  OBVIOUS
<1>2. \A t \in Seq(S) : t = <<>> <=> Len(t) = 0
  OBVIOUS
<1>3. PICK t : t = Tail(s)
  OBVIOUS
<1>4. t \in Seq(S) /\ Len(t) = Len(s) - 1
  BY <1>1, <1>3, Zenon
<1>5. t = <<>> <=> Len(s) = 1
  BY <1>1, <1>2, <1>4
<1>6. QED
  BY <1>1, <1>3, <1>5, Zenon

LEMMA AppendIs ==
  ASSUME NEW S, NEW s \in Seq(S), NEW x \in S, NEW p, p = Append(s, x)
  PROVE  /\ p \in Seq(S) /\ Len(p) = Len(s) + 1 /\ p # <<>>
         /\ p[Len(s) + 1] = x /\ \A i \in 1 .. Len(s) : p[i] = s[i]
OBVIOUS

LEMMA ConcatIs ==
  ASSUME NEW S, NEW s \in Seq(S), NEW t \in Seq(S), NEW p, p = s \o t
  PROVE  /\ p \in Seq(S) /\ Len(p) = Len(s) + Len(t)
         /\ \A i \in 1 .. Len(p) :
              \/ i \in 1 .. Len(s) /\ p[i] = s[i]
              \/ (i - Len(s)) \in 1 .. Len(t) /\ p[i] = t[i - Len(s)]
         /\ s = <<>> => p = t
OBVIOUS

LEMMA EmptyIs == \A S : <<>> \in Seq(S) /\ Len(<<>>) = 0 /\ \A s \in Seq(S) : s = <<>> <=> Len(s) = 0
OBVIOUS

LEMMA OneIs == \A S : \A x \in S : /\ <<x>> \in Seq(S) /\ Len(<<x>>) = 1 /\ <<x>>[1] = x /\ <<x>> # <<>>
OBVIOUS

LEMMA TwoIs ==
  \A S : \A x, y \in S : /\ <<x, y>> \in Seq(S) /\ Len(<<x, y>>) = 2
                         /\ <<x, y>>[1] = x /\ <<x, y>>[2] = y
OBVIOUS

LEMMA Least ==
  ASSUME NEW S \in SUBSET Nat, S # {}
  PROVE  \E x \in S : \A y \in S : x <= y
<1> DEFINE R == OpToRel(<, Nat)
<1> HIDE DEF R
<1>1. IsWellFoundedOn(R, Nat)
  BY NatLessThanWellFounded DEF R
<1>2. PICK x \in S : \A y \in S : ~(<<y, x>> \in R)
  BY <1>1, WFMin
<1>3. \A a \in Nat, b \in Nat : a < b => <<a, b>> \in R
  BY DEF OpToRel, R
<1>4. \A y \in S : ~(y < x)
  BY <1>2, <1>3
<1>5. \A y \in S : x <= y
  BY <1>4
<1>6. QED
  BY <1>5

LEMMA MinIs ==
  ASSUME NEW S \in SUBSET Nat, S # {}
  PROVE  Min(S) \in S /\ \A y \in S : Min(S) <= y
BY Least DEF Min

LEMMA PairMinMax ==
  ASSUME NEW a \in Nat, NEW b \in Nat
  PROVE  /\ Min({a, b}) = IF a <= b THEN a ELSE b
         /\ Max({a, b}) = IF a >= b THEN a ELSE b
<1>1. \E x \in {a, b} : \A y \in {a, b} : x <= y
  OBVIOUS
<1>2. \E x \in {a, b} : \A y \in {a, b} : x >= y
  OBVIOUS
<1>3. Min({a, b}) \in {a, b} /\ \A y \in {a, b} : Min({a, b}) <= y
  BY <1>1 DEF Min
<1>4. Max({a, b}) \in {a, b} /\ \A y \in {a, b} : Max({a, b}) >= y
  BY <1>2 DEF Max
<1>5. QED
  BY <1>3, <1>4

(* What SetToSeq makes of a finite set has its elements, each once.        *)
LEMMA SetToSeqIs ==
  ASSUME NEW S, IsFiniteSet(S)
  PROVE  /\ SetToSeq(S) \in Seq(S) /\ Len(SetToSeq(S)) = Cardinality(S)
         /\ \A x \in S : \E i \in 1 .. Len(SetToSeq(S)) : SetToSeq(S)[i] = x
         /\ \A i \in 1 .. Len(SetToSeq(S)) : SetToSeq(S)[i] \in S
<1>1. Cardinality(S) \in Nat /\ ExistsBijection(1..Cardinality(S), S)
  BY FS_CardinalityType
<1>2. \E f \in [1..Cardinality(S) -> S] : IsInjective(f)
  BY <1>1 DEF ExistsBijection, Bijection, Injection
<1>3. SetToSeq(S) \in [1..Cardinality(S) -> S] /\ IsInjective(SetToSeq(S))
  BY <1>2 DEF SetToSeq
<1>4. SetToSeq(S) \in Injection(1..Cardinality(S), S)
  BY <1>3 DEF Injection
<1>5. Cardinality(1..Cardinality(S)) = Cardinality(S)
  BY <1>1, FS_Interval
<1>6. SetToSeq(S) \in Surjection(1..Cardinality(S), S)
  BY <1>4, <1>5, FS_Injection
<1>7. \A x \in S : \E i \in 1..Cardinality(S) : SetToSeq(S)[i] = x
  BY <1>6 DEF Surjection
<1>8. QED
  BY <1>1, <1>3, <1>7

-----------------------------------------------------------------------------
(* Operations, requests and frames.                                        *)

LEMMA RunningIs ==
  ASSUME NEW h \in Running
  PROVE  /\ h.pc \in Steps /\ h.ret \in Steps /\ h.op \in Ops /\ h.kind \in Kinds \cup {"none"}
         /\ h.id \in 0 .. MaxId /\ h.resp \in Frame \cup {None} /\ h.saw \in BOOLEAN
         /\ h.hits \in SUBSET (Buses \X (0 .. MaxId)) /\ h.found \in SUBSET (Buses \X (0 .. MaxId))
         /\ h.good \in BOOLEAN /\ h.begun \in BOOLEAN /\ h.stop \in BOOLEAN /\ h.tainted \in BOOLEAN
         /\ h.left \in Nat /\ h.lo \in Ids /\ h.cur \in 1 .. MaxId + 1 /\ h.hi \in Ids
         /\ h.new \in 0 .. MaxId /\ h.all \in SUBSET Buses /\ h.bus \in Buses
         /\ h.cells \in Seq(Buses) /\ h.mask \in SUBSET Buses /\ h.stream \in BOOLEAN
BY DEF Running

\* An operation has these fields, and a value of its type may be put in any of
\* them.  One field at a time: the whole of Running at once is hard on the solver.
LEMMA DomainIs ==
  \A h \in Running :
    DOMAIN h = {"pc", "ret", "op", "kind", "id", "resp", "hits", "saw", "found", "good", "begun",
                "stop", "tainted", "left", "lo", "cur", "hi", "new", "all", "bus", "cells", "mask",
                "stream"}
BY DEF Running

\* The fields of an exchange.
LEMMA SetExchange ==
  ASSUME NEW h \in Running
  PROVE  /\ \A v \in Steps : [h EXCEPT !.pc = v] \in Running
         /\ \A v \in Steps : [h EXCEPT !.ret = v] \in Running
         /\ \A v \in Kinds \cup {"none"} : [h EXCEPT !.kind = v] \in Running
         /\ \A v \in 0 .. MaxId : [h EXCEPT !.id = v] \in Running
         /\ \A v \in Frame \cup {None} : [h EXCEPT !.resp = v] \in Running
         /\ \A v \in SUBSET (Buses \X (0 .. MaxId)) : [h EXCEPT !.hits = v] \in Running
         /\ \A v \in BOOLEAN : [h EXCEPT !.saw = v] \in Running
         /\ \A v \in BOOLEAN : [h EXCEPT !.tainted = v] \in Running
         /\ \A v \in BOOLEAN : [h EXCEPT !.stop = v] \in Running
<1>1. \A v \in Steps : [h EXCEPT !.pc = v] \in Running
  BY DEF Running
<1>2. \A v \in Steps : [h EXCEPT !.ret = v] \in Running
  BY DEF Running
<1>3. \A v \in Kinds \cup {"none"} : [h EXCEPT !.kind = v] \in Running
  BY DEF Running
<1>4. \A v \in 0 .. MaxId : [h EXCEPT !.id = v] \in Running
  BY DEF Running
<1>5. \A v \in Frame \cup {None} : [h EXCEPT !.resp = v] \in Running
  BY DEF Running
<1>6. \A v \in SUBSET (Buses \X (0 .. MaxId)) : [h EXCEPT !.hits = v] \in Running
  BY DEF Running
<1>7. \A v \in BOOLEAN : [h EXCEPT !.saw = v] \in Running
  BY DEF Running
<1>8. \A v \in BOOLEAN : [h EXCEPT !.tainted = v] \in Running
  BY DEF Running
<1>9. \A v \in BOOLEAN : [h EXCEPT !.stop = v] \in Running
  BY DEF Running
<1>10. QED
  BY <1>1, <1>2, <1>3, <1>4, <1>5, <1>6, <1>7, <1>8, <1>9

\* Those of an operation.
LEMMA SetOperation ==
  ASSUME NEW h \in Running
  PROVE  /\ \A v \in Ops : [h EXCEPT !.op = v] \in Running
         /\ \A v \in SUBSET (Buses \X (0 .. MaxId)) : [h EXCEPT !.found = v] \in Running
         /\ \A v \in BOOLEAN : [h EXCEPT !.good = v] \in Running
         /\ \A v \in BOOLEAN : [h EXCEPT !.begun = v] \in Running
         /\ \A v \in Nat : [h EXCEPT !.left = v] \in Running
         /\ \A v \in Ids : [h EXCEPT !.lo = v] \in Running
         /\ \A v \in 1 .. MaxId + 1 : [h EXCEPT !.cur = v] \in Running
         /\ \A v \in Ids : [h EXCEPT !.hi = v] \in Running
         /\ \A v \in 0 .. MaxId : [h EXCEPT !.new = v] \in Running
         /\ \A v \in SUBSET Buses : [h EXCEPT !.all = v] \in Running
         /\ \A v \in Buses : [h EXCEPT !.bus = v] \in Running
         /\ \A v \in Seq(Buses) : [h EXCEPT !.cells = v] \in Running
         /\ \A v \in SUBSET Buses : [h EXCEPT !.mask = v] \in Running
<1>1. \A v \in Ops : [h EXCEPT !.op = v] \in Running
  BY DEF Running
<1>2. \A v \in SUBSET (Buses \X (0 .. MaxId)) : [h EXCEPT !.found = v] \in Running
  BY DEF Running
<1>3. \A v \in BOOLEAN : [h EXCEPT !.good = v] \in Running
  BY DEF Running
<1>4. \A v \in BOOLEAN : [h EXCEPT !.begun = v] \in Running
  BY DEF Running
<1>5. \A v \in Nat : [h EXCEPT !.left = v] \in Running
  BY DEF Running
<1>6. \A v \in Ids : [h EXCEPT !.lo = v] \in Running
  BY DEF Running
<1>7. \A v \in 1 .. MaxId + 1 : [h EXCEPT !.cur = v] \in Running
  BY DEF Running
<1>8. \A v \in Ids : [h EXCEPT !.hi = v] \in Running
  BY DEF Running
<1>9. \A v \in 0 .. MaxId : [h EXCEPT !.new = v] \in Running
  BY DEF Running
<1>10. \A v \in SUBSET Buses : [h EXCEPT !.all = v] \in Running
  BY DEF Running
<1>11. \A v \in Buses : [h EXCEPT !.bus = v] \in Running
  BY DEF Running
<1>12. \A v \in Seq(Buses) : [h EXCEPT !.cells = v] \in Running
  <2> SUFFICES ASSUME NEW v \in Seq(Buses), NEW g, g = [h EXCEPT !.cells = v]
               PROVE  g \in Running
    OBVIOUS
  <2>1. /\ DOMAIN g = DOMAIN h /\ g.cells = v /\ g = [x \in DOMAIN g |-> g[x]]
        /\ \A x \in DOMAIN g \ {"cells"} : g[x] = h[x]
    BY DomainIs
  <2>2. /\ g.pc \in Steps /\ g.ret \in Steps /\ g.op \in Ops /\ g.kind \in Kinds \cup {"none"}
        /\ g.id \in 0 .. MaxId /\ g.resp \in Frame \cup {None} /\ g.saw \in BOOLEAN
        /\ g.hits \in SUBSET (Buses \X (0 .. MaxId)) /\ g.found \in SUBSET (Buses \X (0 .. MaxId))
        /\ g.good \in BOOLEAN /\ g.begun \in BOOLEAN /\ g.stop \in BOOLEAN /\ g.tainted \in BOOLEAN
        /\ g.left \in Nat /\ g.lo \in Ids /\ g.cur \in 1 .. MaxId + 1 /\ g.hi \in Ids
        /\ g.new \in 0 .. MaxId /\ g.all \in SUBSET Buses /\ g.bus \in Buses
        /\ g.mask \in SUBSET Buses /\ g.stream \in BOOLEAN
    BY <2>1, DomainIs, RunningIs
  <2>3. QED
    BY <2>1, <2>2, DomainIs DEF Running
<1>13. \A v \in SUBSET Buses : [h EXCEPT !.mask = v] \in Running
  BY DEF Running
<1>14. QED
  BY <1>1, <1>2, <1>3, <1>4, <1>5, <1>6, <1>7, <1>8, <1>9, <1>10, <1>11, <1>12, <1>13

LEMMA FrameIs ==
  ASSUME NEW f \in Frame
  PROVE  /\ f.old \in BOOLEAN /\ f.kind \in Kinds /\ f.id \in 0 .. MaxId /\ f.found \in BOOLEAN
         /\ f.disc \in 0 .. MaxId /\ f.bus \in Buses
         /\ f.mms \in {"rest", "running", "cali", "away", "zero"}
BY DEF Frame

LEMMA AskingIs ==
  ASSUME NEW r \in Asking
  PROVE  /\ r.old \in BOOLEAN /\ r.kind \in Kinds /\ r.bus \in Buses /\ r.id \in 0 .. MaxId
         /\ r.hi \in Ids /\ r.new \in 0 .. MaxId /\ r.mask \in SUBSET Buses /\ r.sure \in BOOLEAN
BY DEF Asking

LEMMA DriveIs ==
  ASSUME NEW D \in [Drives -> Drive], NEW d \in Drives
  PROVE  /\ D[d].bus \in Buses /\ D[d].id \in Ids /\ D[d].saved \in Ids
         /\ D[d].zero \in {"off", "ram", "flash"} /\ D[d].spun \in BOOLEAN /\ D[d].seen \in BOOLEAN
BY DEF Drive

\* The operation an exchange is written for, but for what it has found so far.
SameOp(h, g) ==
  /\ g.op = h.op /\ g.bus = h.bus /\ g.lo = h.lo /\ g.hi = h.hi /\ g.new = h.new
  /\ g.all = h.all /\ g.cells = h.cells /\ g.mask = h.mask

\* What Ask leaves in the operation.
Waits(g, h, kind, id, ret) ==
  /\ g \in Running /\ SameOp(h, g)
  /\ g.begun = h.begun /\ g.cur = h.cur /\ g.found = h.found
  /\ g.pc = "await" /\ g.ret = ret /\ g.kind = kind /\ g.id = id
  /\ g.resp = None /\ g.hits = {} /\ g.saw = FALSE

LEMMA AskHost ==
  ASSUME NEW h \in Running, NEW kind \in Kinds, NEW id \in 0 .. MaxId, NEW new, NEW drain, NEW ret \in Steps,
         Ask(h, kind, id, new, drain, ret)
  PROVE  /\ Waits(host', h, kind, id, ret)
         /\ host'.tainted = (h.tainted \/ (/\ toFw # <<>> \/ (~drain /\ reader # <<>>)
                                           /\ kind \notin {"begin", "end"}))
<1> DEFINE t == h.tainted \/ (/\ toFw # <<>> \/ (~drain /\ reader # <<>>)
                              /\ kind \notin {"begin", "end"})
<1>1. host' = [h EXCEPT !.pc = "await", !.ret = ret, !.kind = kind, !.id = id, !.resp = None,
                 !.hits = {}, !.saw = FALSE, !.tainted = t]
  BY DEF Ask
<1>2. t \in BOOLEAN
  BY RunningIs
<1> HIDE DEF t
<1>3. "await" \in Steps
  BY DEF Steps
<1>4. host' \in Running
  <2>1. PICK f \in Running : f = [[[[h EXCEPT !.pc = "await"] EXCEPT !.ret = ret]
                                    EXCEPT !.kind = kind] EXCEPT !.id = id]
    BY <1>3, SetExchange
  <2>2. PICK g \in Running : g = [[[[f EXCEPT !.resp = None] EXCEPT !.hits = {}]
                                    EXCEPT !.saw = FALSE] EXCEPT !.tainted = t]
    BY <1>2, SetExchange
  <2>3. QED
    BY <1>1, <2>1, <2>2
<1>5. /\ host'.pc = "await" /\ host'.ret = ret /\ host'.kind = kind /\ host'.id = id
      /\ host'.resp = None /\ host'.hits = {} /\ host'.saw = FALSE /\ host'.tainted = t
      /\ host'.begun = h.begun /\ host'.cur = h.cur /\ host'.found = h.found /\ host'.op = h.op /\ host'.bus = h.bus /\ host'.lo = h.lo
      /\ host'.hi = h.hi /\ host'.new = h.new /\ host'.all = h.all /\ host'.cells = h.cells
      /\ host'.mask = h.mask
  BY <1>1, DomainIs
<1>6. QED
  BY <1>4, <1>5 DEF Waits, SameOp, t

\* r is q but for its age.
Aged(r, q) ==
  /\ r.old = TRUE /\ r.kind = q.kind /\ r.bus = q.bus /\ r.id = q.id

LEMMA OlderIs ==
  /\ \A q \in Seq(Asking) :
       /\ Older(q) \in Seq(Asking) /\ Len(Older(q)) = Len(q)
       /\ \A i \in 1 .. Len(q) : /\ Aged(Older(q)[i], q[i]) /\ Older(q)[i].hi = q[i].hi
                                 /\ Older(q)[i].new = q[i].new
                                 /\ Older(q)[i].mask = q[i].mask /\ Older(q)[i].sure = q[i].sure
  /\ \A q \in Seq(Frame) :
       /\ Older(q) \in Seq(Frame) /\ Len(Older(q)) = Len(q)
       /\ \A i \in 1 .. Len(q) : Aged(Older(q)[i], q[i])
<1>1. ASSUME NEW q \in Seq(Asking)
      PROVE  /\ Older(q) \in Seq(Asking) /\ Len(Older(q)) = Len(q)
             /\ \A i \in 1 .. Len(q) : /\ Aged(Older(q)[i], q[i]) /\ Older(q)[i].hi = q[i].hi
                                       /\ Older(q)[i].new = q[i].new
                                 /\ Older(q)[i].mask = q[i].mask /\ Older(q)[i].sure = q[i].sure
  <2>1. Len(q) \in Nat /\ DOMAIN q = 1 .. Len(q) /\ \A i \in 1 .. Len(q) : q[i] \in Asking
    OBVIOUS
  <2>2. \A r \in Asking : LET o == [r EXCEPT !.old = TRUE]
                          IN  /\ o \in Asking /\ Aged(o, r) /\ o.hi = r.hi /\ o.new = r.new
                              /\ o.mask = r.mask /\ o.sure = r.sure
    BY DEF Asking, Aged
  <2>3. Older(q) = [i \in 1 .. Len(q) |-> [q[i] EXCEPT !.old = TRUE]]
    BY <2>1 DEF Older
  <2>4. \A i \in 1 .. Len(q) : Older(q)[i] = [q[i] EXCEPT !.old = TRUE]
    BY <2>3
  <2>5. \A i \in 1 .. Len(q) : /\ Older(q)[i] \in Asking /\ Aged(Older(q)[i], q[i]) /\ Older(q)[i].hi = q[i].hi
                               /\ Older(q)[i].new = q[i].new
                                 /\ Older(q)[i].mask = q[i].mask /\ Older(q)[i].sure = q[i].sure
    <3> SUFFICES ASSUME NEW i \in 1 .. Len(q), NEW r \in Asking, NEW o,
                        r = q[i], o = Older(q)[i]
                 PROVE  /\ o \in Asking /\ Aged(o, r) /\ o.hi = r.hi /\ o.new = r.new
                        /\ o.mask = r.mask /\ o.sure = r.sure
      BY <2>1
    <3>1. o = [r EXCEPT !.old = TRUE]
      BY <2>4
    <3>2. QED
      BY <2>2, <3>1
  <2>6. Older(q) \in [1 .. Len(q) -> Asking]
    BY <2>3, <2>4, <2>5
  <2>7. QED
    BY <2>1, <2>5, <2>6
<1>2. ASSUME NEW q \in Seq(Frame)
      PROVE  /\ Older(q) \in Seq(Frame) /\ Len(Older(q)) = Len(q)
             /\ \A i \in 1 .. Len(q) : Aged(Older(q)[i], q[i])
  <2>1. Len(q) \in Nat /\ DOMAIN q = 1 .. Len(q) /\ \A i \in 1 .. Len(q) : q[i] \in Frame
    OBVIOUS
  <2>2. \A r \in Frame : LET o == [r EXCEPT !.old = TRUE] IN o \in Frame /\ Aged(o, r)
    BY DEF Frame, Aged
  <2>3. Older(q) = [i \in 1 .. Len(q) |-> [q[i] EXCEPT !.old = TRUE]]
    BY <2>1 DEF Older
  <2>4. \A i \in 1 .. Len(q) : Older(q)[i] = [q[i] EXCEPT !.old = TRUE]
    BY <2>3
  <2>5. \A i \in 1 .. Len(q) : Older(q)[i] \in Frame /\ Aged(Older(q)[i], q[i])
    BY <2>1, <2>2, <2>4
  <2>6. Older(q) \in [1 .. Len(q) -> Frame]
    BY <2>3, <2>4, <2>5
  <2>7. QED
    BY <2>1, <2>5, <2>6
<1>3. QED
  BY <1>1, <1>2

\* What Ask leaves of the requests: the earlier ones, aged, and its own.
Written(h, kind, id, new) ==
  /\ toFw' \in Seq(Asking) /\ Len(toFw') = Len(toFw) + 1 /\ toFw' # <<>>
  /\ \A i \in 1 .. Len(toFw) : /\ Aged(toFw'[i], toFw[i]) /\ toFw'[i].hi = toFw[i].hi
                               /\ toFw'[i].new = toFw[i].new
                               /\ toFw'[i].mask = toFw[i].mask /\ toFw'[i].sure = toFw[i].sure
  /\ LET r == toFw'[Len(toFw) + 1]
     IN  /\ ~r.old /\ r.kind = kind /\ r.bus = h.bus /\ r.id = id /\ r.hi = h.hi /\ r.new = new
         /\ r.mask = h.mask /\ r.sure = (~h.tainted /\ h.kind # "set")

LEMMA AskFw ==
  ASSUME TypeOK, NEW h \in Running, NEW kind \in Kinds, NEW id \in 0 .. MaxId, NEW new \in 0 .. MaxId,
         NEW drain, NEW ret \in Steps, Ask(h, kind, id, new, drain, ret)
  PROVE  /\ Written(h, kind, id, new)
         /\ reader' = (IF drain THEN <<>> ELSE Older(reader)) /\ reader' \in Seq(Frame)
         /\ UNCHANGED <<fam, drv, leased, used>>
<1>1. toFw \in Seq(Asking) /\ reader \in Seq(Frame)
  BY DEF TypeOK
<1>2. PICK q : q = Older(toFw)
  OBVIOUS
<1>3. /\ q \in Seq(Asking) /\ Len(q) = Len(toFw)
      /\ \A i \in 1 .. Len(toFw) : /\ Aged(q[i], toFw[i]) /\ q[i].hi = toFw[i].hi
                                   /\ q[i].new = toFw[i].new
                                   /\ q[i].mask = toFw[i].mask /\ q[i].sure = toFw[i].sure
  BY <1>1, <1>2, OlderIs
<1>4. PICK r : r = Request(h, kind, id, new)
  OBVIOUS
<1>5. /\ r \in Asking /\ ~r.old /\ r.kind = kind /\ r.bus = h.bus /\ r.id = id /\ r.hi = h.hi
      /\ r.new = new /\ r.mask = h.mask /\ r.sure = (~h.tainted /\ h.kind # "set")
  BY <1>4, RunningIs DEF Request, Asking
<1>6. toFw' = Append(q, r)
  BY <1>2, <1>4 DEF Ask
<1>7. PICK p : p = Append(q, r)
  OBVIOUS
<1>8. /\ p \in Seq(Asking) /\ Len(p) = Len(q) + 1 /\ p # <<>> /\ p[Len(q) + 1] = r
      /\ \A i \in 1 .. Len(q) : p[i] = q[i]
  <2>1. q \in Seq(Asking) /\ r \in Asking
    BY <1>3, <1>5, Zenon
  <2>2. QED
    BY <2>1, <1>7, AppendIs
<1>9. Written(h, kind, id, new)
  BY <1>3, <1>5, <1>6, <1>7, <1>8 DEF Written
<1>10. reader' = (IF drain THEN <<>> ELSE Older(reader)) /\ UNCHANGED <<fam, drv, leased, used>>
  BY DEF Ask
<1>11. QED
  BY <1>1, <1>9, <1>10, OlderIs, EmptyIs

\* What the steps that write nothing leave of the operation and its exchange.
SameAsk(h, g) ==
  /\ SameOp(h, g) /\ g.kind = h.kind /\ g.id = h.id /\ g.ret = h.ret /\ g.found = h.found
  /\ g.begun = h.begun /\ g.tainted = h.tainted /\ g.cur = h.cur

LEMMA ExchangeRawIs ==
  ASSUME host \in Running, NEW f \in Frame, ExchangeRaw(f)
  PROVE  /\ host' \in Running /\ SameAsk(host, host') /\ host'.hits = host.hits /\ host'.saw = host.saw
         /\ IF Matches(f) THEN host'.pc = host.ret /\ host'.resp = f
            ELSE host'.pc = host.pc /\ host'.resp = host.resp
<1>1. CASE Matches(f)
  <2>1. host' = [host EXCEPT !.resp = f, !.pc = host.ret]
    BY <1>1 DEF ExchangeRaw
  <2>2. host' \in Running
    <3>1. PICK g \in Running : g = [host EXCEPT !.resp = f]
      BY SetExchange
    <3>2. [g EXCEPT !.pc = host.ret] \in Running
      BY RunningIs, SetExchange
    <3>3. QED
      BY <2>1, <3>1, <3>2
  <2>3. QED
    BY <1>1, <2>1, <2>2, DomainIs DEF SameAsk, SameOp
<1>2. CASE ~Matches(f)
  BY <1>2 DEF ExchangeRaw, SameAsk, SameOp
<1>3. QED
  BY <1>1, <1>2

LEMMA CollectIs ==
  ASSUME host \in Running, NEW f \in Frame, ExchangeRawCollect(f)
  PROVE  /\ host' \in Running /\ SameAsk(host, host') /\ host'.saw = host.saw
         /\ host'.pc = host.pc /\ host'.resp = host.resp
         /\ host'.hits = IF Matches(f) /\ f.found THEN host.hits \cup {<<f.bus, f.disc>>} ELSE host.hits
<1>1. CASE Matches(f) /\ f.found
  <2>1. host' = [host EXCEPT !.hits = @ \cup {<<f.bus, f.disc>>}]
    BY <1>1 DEF ExchangeRawCollect
  <2>2. <<f.bus, f.disc>> \in Buses \X (0 .. MaxId)
    BY FrameIs
  <2>3. host' \in Running
    <3>1. host.hits \cup {<<f.bus, f.disc>>} \in SUBSET (Buses \X (0 .. MaxId))
      BY <2>2, RunningIs
    <3>2. QED
      BY <2>1, <3>1, SetExchange
  <2>4. QED
    BY <1>1, <2>1, <2>3, DomainIs DEF SameAsk, SameOp
<1>2. CASE ~(Matches(f) /\ f.found)
  BY <1>2 DEF ExchangeRawCollect, SameAsk, SameOp
<1>3. QED
  BY <1>1, <1>2

LEMMA WaitCaliIs ==
  ASSUME host \in Running, NEW f \in Frame, WaitCali(f)
  PROVE  /\ host' \in Running /\ SameAsk(host, host') /\ host'.hits = host.hits
         /\ host'.resp \in {host.resp, f}
         /\ host'.saw => host.saw \/ f.mms = "cali"
         /\ host'.pc = host.pc \/ (host.saw /\ host'.pc = host.ret)
<1>1. CASE Matches(f) /\ f.found
  <2> DEFINE saw == host.saw \/ f.mms = "cali"
             pc  == IF host.saw /\ f.mms # "cali" THEN host.ret ELSE host.pc
  <2>1. host' = [host EXCEPT !.saw = saw, !.resp = f, !.pc = pc]
    BY <1>1 DEF WaitCali
  <2>2. saw \in BOOLEAN /\ pc \in Steps
    BY RunningIs
  <2>3. pc = host.pc \/ (host.saw /\ pc = host.ret)
    OBVIOUS
  <2> HIDE DEF saw, pc
  <2>4. host' \in Running
    <3>1. PICK g \in Running : g = [[host EXCEPT !.saw = saw] EXCEPT !.resp = f]
      BY <2>2, SetExchange
    <3>2. [g EXCEPT !.pc = pc] \in Running
      BY <2>2, SetExchange
    <3>3. QED
      BY <2>1, <3>1, <3>2
  <2>5. host'.saw = saw /\ host'.resp = f /\ host'.pc = pc /\ SameAsk(host, host') /\ host'.hits = host.hits
    BY <2>1, DomainIs DEF SameAsk, SameOp
  <2>6. QED
    BY <2>3, <2>4, <2>5 DEF saw
<1>2. CASE ~(Matches(f) /\ f.found)
  BY <1>2 DEF WaitCali, SameAsk, SameOp
<1>3. QED
  BY <1>1, <1>2

LEMMA PopIs ==
  ASSUME TypeOK, Pop
  PROVE  /\ host.pc = "await" /\ reader # <<>> /\ reader[1] \in Frame
         /\ reader' \in Seq(Frame) /\ Len(reader) \in Nat \ {0} /\ Len(reader') = Len(reader) - 1
         /\ \A i \in 1 .. Len(reader') : reader'[i] = reader[i + 1]
         /\ reader' = <<>> <=> Len(reader) = 1
         /\ UNCHANGED <<fam, drv, toFw, leased, used>>
         /\ host' \in Running /\ SameAsk(host, host') /\ host'.pc \in {"await", host.ret}
         /\ host'.resp \in {host.resp, reader[1]}
         /\ host'.saw => host.saw \/ (host.kind = "cali" /\ reader[1].mms = "cali")
         /\ \A x \in host'.hits : x \in host.hits \/ (reader[1].found /\ x = <<reader[1].bus, reader[1].disc>>)
<1>1. /\ host \in Running /\ reader \in Seq(Frame) /\ host.pc = "await" /\ reader # <<>>
      /\ reader' = Tail(reader) /\ UNCHANGED <<fam, drv, toFw, leased, used>>
  BY DEF TypeOK, Pop
<1>2. PICK t : t = Tail(reader)
  OBVIOUS
<1>3. /\ t \in Seq(Frame) /\ Len(reader) \in Nat \ {0} /\ Len(t) = Len(reader) - 1
      /\ \A i \in 1 .. Len(t) : t[i] = reader[i + 1]
      /\ t = <<>> <=> Len(reader) = 1
      /\ Head(reader) = reader[1] /\ Head(reader) \in Frame
  BY <1>1, <1>2, TailIs, Zenon
<1> DEFINE Goal ==
           /\ host' \in Running /\ SameAsk(host, host') /\ host'.pc \in {"await", host.ret}
           /\ host'.resp \in {host.resp, reader[1]}
           /\ host'.saw => host.saw \/ (host.kind = "cali" /\ reader[1].mms = "cali")
           /\ \A x \in host'.hits :
                x \in host.hits \/ (reader[1].found /\ x = <<reader[1].bus, reader[1].disc>>)
<1>4. ASSUME host.kind = "cali" PROVE Goal
  <2>1. WaitCali(reader[1])
    BY <1>3, <1>4 DEF Pop
  <2>2. QED
    BY <1>1, <1>3, <1>4, <2>1, WaitCaliIs
<1>5. ASSUME host.kind # "cali", Collects PROVE Goal
  <2>1. ExchangeRawCollect(reader[1])
    BY <1>3, <1>5 DEF Pop
  <2>2. QED
    <3>1. /\ host' \in Running /\ SameAsk(host, host') /\ host'.saw = host.saw
          /\ host'.pc = host.pc /\ host'.resp = host.resp
          /\ host'.hits = IF Matches(reader[1]) /\ reader[1].found
                          THEN host.hits \cup {<<reader[1].bus, reader[1].disc>>} ELSE host.hits
      BY <1>1, <1>3, <2>1, CollectIs
    <3>2. \A x \in host'.hits :
            x \in host.hits \/ (reader[1].found /\ x = <<reader[1].bus, reader[1].disc>>)
      BY <3>1
    <3>3. QED
      BY <1>1, <3>1, <3>2
<1>6. ASSUME host.kind # "cali", ~Collects PROVE Goal
  <2>1. ExchangeRaw(reader[1])
    BY <1>3, <1>6 DEF Pop
  <2>2. QED
    BY <1>1, <1>3, <1>6, <2>1, ExchangeRawIs
<1>7. Goal
  BY <1>4, <1>5, <1>6
<1> HIDE DEF Goal
<1>8. QED
  BY <1>1, <1>2, <1>3, <1>7, Zenon DEF Goal

LEMMA TimeoutIs ==
  ASSUME TypeOK, Timeout
  PROVE  /\ host.pc = "await" /\ reader = <<>> /\ UNCHANGED <<fam, drv, toFw, leased, reader>>
         /\ host' \in Running /\ SameAsk(host, host') /\ host'.pc = host.ret /\ host'.resp = host.resp
         /\ host'.saw = host.saw /\ host'.hits = host.hits
         /\ used' \in [runs : Nat, lost : Nat, late : Nat, stops : Nat]
         /\ Clean' => Clean /\ toFw = <<>>
<1>1. host \in Running /\ used \in [runs : Nat, lost : Nat, late : Nat, stops : Nat]
  BY DEF TypeOK
<1>2. host' = [host EXCEPT !.pc = host.ret]
  BY DEF Timeout
<1>3. /\ host' \in Running /\ SameAsk(host, host') /\ host'.pc = host.ret /\ host'.resp = host.resp
      /\ host'.saw = host.saw /\ host'.hits = host.hits
  <2>1. host' \in Running
    BY <1>1, <1>2, RunningIs, SetExchange
  <2>2. QED
    BY <1>1, <1>2, <2>1, DomainIs DEF SameAsk, SameOp
<1>4. CASE toFw = <<>> /\ UNCHANGED used
  BY <1>1, <1>3, <1>4 DEF Timeout, Clean
<1>5. CASE toFw # <<>> /\ used' = [used EXCEPT !.late = @ + 1]
  BY <1>1, <1>3, <1>5 DEF Timeout, Clean
<1>6. QED
  BY <1>4, <1>5 DEF Timeout

LEMMA InterruptIs ==
  ASSUME TypeOK, Interrupt
  PROVE  /\ host.pc = "await" /\ UNCHANGED <<fam, drv, toFw, leased, reader>>
         /\ host' \in Running /\ SameAsk(host, host') /\ host'.resp = None
         /\ host'.saw = host.saw /\ host'.hits = host.hits
         /\ host'.pc = IF host.ret = "restore" \/ (host.kind = "begin" /\ fam = "RS")
                       THEN "restore" ELSE "end"
         /\ used' \in [runs : Nat, lost : Nat, late : Nat, stops : Nat]
         /\ ~Clean'
<1>1. host \in Running /\ used \in [runs : Nat, lost : Nat, late : Nat, stops : Nat]
  BY DEF TypeOK
<1> DEFINE pc == IF host.ret = "restore" \/ (host.kind = "begin" /\ fam = "RS") THEN "restore" ELSE "end"
<1>2. host' = [host EXCEPT !.stop = TRUE, !.resp = None, !.pc = pc]
  BY DEF Interrupt
<1>3. pc \in Steps
  BY DEF Steps
<1> HIDE DEF pc
<1>4. /\ host' \in Running /\ SameAsk(host, host') /\ host'.resp = None
      /\ host'.saw = host.saw /\ host'.hits = host.hits /\ host'.pc = pc
  <2>1. PICK g \in Running : g = [[host EXCEPT !.stop = TRUE] EXCEPT !.resp = None]
    BY <1>1, SetExchange
  <2>2. [g EXCEPT !.pc = pc] \in Running
    BY <1>3, SetExchange
  <2>3. host' \in Running
    BY <1>2, <2>1, <2>2
  <2>4. QED
    BY <1>1, <1>2, <2>3, DomainIs DEF SameAsk, SameOp
<1>5. used' = [used EXCEPT !.stops = @ + 1]
  BY DEF Interrupt
<1>6. used' \in [runs : Nat, lost : Nat, late : Nat, stops : Nat] /\ ~Clean'
  BY <1>1, <1>5 DEF Clean
<1>7. QED
  BY <1>4, <1>6 DEF Interrupt, pc

LEMMA CalAbortedIs ==
  ASSUME TypeOK, CalAborted
  PROVE  /\ host.pc = "await" /\ host.kind = "cali" /\ UNCHANGED <<fam, drv, toFw, leased, reader>>
         /\ host' \in Running /\ SameAsk(host, host') /\ host'.pc = "end" /\ host'.resp = host.resp
         /\ host'.saw = host.saw /\ host'.hits = host.hits
         /\ used' \in [runs : Nat, lost : Nat, late : Nat, stops : Nat]
         /\ ~Clean'
<1>1. host \in Running /\ used \in [runs : Nat, lost : Nat, late : Nat, stops : Nat] /\ "end" \in Steps
  BY DEF TypeOK, Steps
<1>2. host' = [host EXCEPT !.pc = "end"] /\ used' = [used EXCEPT !.stops = @ + 1]
  BY DEF CalAborted
<1>3. /\ host' \in Running /\ SameAsk(host, host') /\ host'.pc = "end" /\ host'.resp = host.resp
      /\ host'.saw = host.saw /\ host'.hits = host.hits
  <2>1. host' \in Running
    BY <1>1, <1>2, SetExchange
  <2>2. QED
    BY <1>1, <1>2, <2>1, DomainIs DEF SameAsk, SameOp
<1>4. used' \in [runs : Nat, lost : Nat, late : Nat, stops : Nat] /\ ~Clean'
  BY <1>1, <1>2 DEF Clean
<1>5. QED
  BY <1>3, <1>4 DEF CalAborted

LEMMA LeaveIs ==
  ASSUME NEW h \in Running, Leave(h)
  PROVE  /\ UNCHANGED <<fam, drv, toFw, leased, reader, used>>
         /\ host' \in Running /\ SameAsk(h, host') /\ host'.pc = "end" /\ host'.resp = h.resp
         /\ host'.saw = h.saw /\ host'.hits = h.hits
<1>1. "end" \in Steps /\ host' = [h EXCEPT !.pc = "end"]
  BY DEF Steps, Leave
<1>2. host' \in Running
  BY <1>1, SetExchange
<1>3. QED
  BY <1>1, <1>2, DomainIs DEF Leave, SameAsk, SameOp

-----------------------------------------------------------------------------
(* Starting an operation, and returning from it.                           *)

LEMMA RangeIs ==
  ASSUME NEW S, NEW s \in Seq(S), s # <<>>
  PROVE  /\ Range(s) \in SUBSET S /\ Head(s) \in S /\ Tail(s) \in Seq(S)
         /\ Head(s) \in Range(s) /\ Range(Tail(s)) \in SUBSET S
         /\ Range(s) = {Head(s)} \cup Range(Tail(s))
<1>1. PICK t : t = Tail(s)
  OBVIOUS
<1>2. /\ t \in Seq(S) /\ Len(s) \in Nat \ {0} /\ Len(t) = Len(s) - 1
      /\ Head(s) = s[1] /\ Head(s) \in S /\ \A i \in 1 .. Len(t) : t[i] = s[i + 1]
  BY <1>1, TailIs, Zenon
<1>3. /\ Range(s) = {s[i] : i \in 1 .. Len(s)} /\ Range(t) = {t[i] : i \in 1 .. Len(t)}
      /\ \A i \in 1 .. Len(s) : s[i] \in S
      /\ \A i \in 1 .. Len(t) : t[i] \in S
  <2>1. DOMAIN s = 1 .. Len(s) /\ DOMAIN t = 1 .. Len(t)
    BY <1>2
  <2>2. (\A i \in 1 .. Len(s) : s[i] \in S) /\ (\A i \in 1 .. Len(t) : t[i] \in S)
    BY <1>2
  <2>3. QED
    BY <2>1, <2>2 DEF Range
<1>4. ASSUME NEW x PROVE x \in Range(s) <=> x = s[1] \/ x \in Range(t)
  <2>1. ASSUME NEW i \in 1 .. Len(s), x = s[i], i # 1 PROVE x \in Range(t)
    <3>1. (i - 1) \in 1 .. Len(t) /\ t[i - 1] = s[i]
      BY <1>2, <2>1
    <3>2. QED
      BY <1>3, <2>1, <3>1
  <2>2. ASSUME NEW i \in 1 .. Len(t), x = t[i] PROVE x \in Range(s)
    <3>1. (i + 1) \in 1 .. Len(s) /\ t[i] = s[i + 1]
      BY <1>2
    <3>2. QED
      BY <1>3, <2>2, <3>1
  <2>3. 1 \in 1 .. Len(s)
    BY <1>2
  <2>4. QED
    BY <1>3, <2>1, <2>2, <2>3
<1>5. Range(s) \in SUBSET S /\ Range(t) \in SUBSET S
  BY <1>3
<1>6. Range(s) = {s[1]} \cup Range(t)
  BY <1>4
<1>7. s[1] \in Range(s)
  BY <1>6
<1>8. QED
  BY <1>1, <1>2, <1>5, <1>6, <1>7, Zenon

LEMMA EmptyRange == Range(<<>>) = {}
BY DEF Range

LEMMA CellsAre ==
  ASSUME NEW cells \in Cells
  PROVE  cells \in Seq(Buses) /\ cells # <<>>
<1>1. CASE \E b \in Buses : cells = <<b>>
  BY <1>1
<1>2. CASE cells = SetToSeq(Buses)
  <2>1. IsFiniteSet(Buses) /\ Buses # {}
    BY BenchAssumption
  <2>2. PICK s : s = SetToSeq(Buses)
    OBVIOUS
  <2>3. s \in Seq(Buses) /\ \A x \in Buses : \E i \in 1 .. Len(s) : s[i] = x
    BY <2>1, <2>2, SetToSeqIs
  <2>4. s # <<>>
    BY <2>1, <2>3
  <2>5. QED
    BY <1>2, <2>2, <2>3, <2>4
<1>3. QED
  BY <1>1, <1>2 DEF Cells

\* An operation the user can start.
Startable(op, cells, range, new) ==
  /\ op \in Ops \ {"none"} /\ cells \in Seq(Buses) /\ cells # <<>>
  /\ range \in Ids \X Ids /\ new \in 0 .. MaxId
  /\ op = "set_can_id" => new \in Ids
  /\ op = "multi" => fam = "RS"
  /\ fam = "RS" \/ op \in NodeOps => op = "multi" \/ Tail(cells) = <<>>
  /\ Belongs(op, "none")

LEMMA UserCommandIs ==
  ASSUME TypeOK, UserCommand
  PROVE  \E op, cells, range, new : Startable(op, cells, range, new) /\ Start(op, cells, range, new)
<1> USE DEF NodeOps, Ops, Belongs
<1>1. fam \in {"RS", "DM", "CM", "ZE"} /\ MaxId \in Nat /\ MaxId > 0 /\ Ids = 1 .. MaxId
  BY BenchAssumption DEF TypeOK, Families, Ids
<1>2. \A b \in Buses : <<b>> \in Seq(Buses) /\ <<b>> # <<>> /\ Tail(<<b>>) = <<>>
  OBVIOUS
<1>3. ASSUME NEW t \in Targets
      PROVE  t[1] \in Buses /\ t[2] \in Ids /\ <<t[2], t[2]>> \in Ids \X Ids
  BY <1>1, BenchAssumption
<1>4. CASE DiscoverQueued
  <2>1. PICK cells \in Cells, range \in Ranges :
          /\ fam # "RS" => Max({range[1], range[2]}) <= MaxId
          /\ Start(IF fam = "RS" /\ Len(cells) > 1 THEN "multi" ELSE "discover",
                   cells, NormalizeIdRange(range), 0)
    BY <1>4 DEF DiscoverQueued
  <2>2. cells \in Seq(Buses) /\ cells # <<>>
    BY CellsAre
  <2>3. range[1] \in Nat \ {0} /\ range[2] \in Nat \ {0}
    BY BenchAssumption
  <2>4. NormalizeIdRange(range) \in Ids \X Ids
    <3> DEFINE c(i) == IF fam = "RS" /\ i > MaxId THEN MaxId ELSE i
    <3>1. NormalizeIdRange(range) =
            <<Min({c(range[1]), c(range[2])}), Max({c(range[1]), c(range[2])})>>
      BY DEF NormalizeIdRange
    <3>2. CASE fam = "RS"
      <4>1. c(range[1]) \in Ids /\ c(range[2]) \in Ids
        BY <1>1, <2>3, <3>2
      <4>2. PICK a, b : a = c(range[1]) /\ b = c(range[2])
        OBVIOUS
      <4>3. a \in Ids /\ b \in Ids
        BY <4>1, <4>2
      <4>4. Min({a, b}) \in Ids /\ Max({a, b}) \in Ids
        <5>1. a \in Nat /\ b \in Nat
          BY <1>1, <4>3
        <5>2. Min({a, b}) \in {a, b} /\ Max({a, b}) \in {a, b}
          BY <5>1, PairMinMax
        <5>3. QED
          BY <4>3, <5>2
      <4> HIDE DEF c
      <4>5. QED
        BY <3>1, <4>2, <4>4
    <3>3. CASE fam # "RS"
      <4>1. PICK a, b : a = range[1] /\ b = range[2]
        OBVIOUS
      <4>2. c(range[1]) = a /\ c(range[2]) = b /\ a \in Nat \ {0} /\ b \in Nat \ {0}
        BY <2>3, <3>3, <4>1
      <4>3. Max({a, b}) <= MaxId
        BY <2>1, <3>3, <4>1
      <4>4. a \in Ids /\ b \in Ids
        <5>1. Max({a, b}) = IF a >= b THEN a ELSE b
          BY <4>2, PairMinMax
        <5>2. QED
          BY <1>1, <4>2, <4>3, <5>1
      <4>5. Min({a, b}) \in {a, b} /\ Max({a, b}) \in {a, b}
        BY <4>2, PairMinMax
      <4>6. Min({a, b}) \in Ids /\ Max({a, b}) \in Ids
        BY <4>4, <4>5
      <4> HIDE DEF c
      <4>7. QED
        BY <3>1, <4>2, <4>6
    <3>4. QED
      BY <3>2, <3>3
  <2>5. fam = "RS" /\ ~(Len(cells) > 1) => Tail(cells) = <<>>
    BY <2>2, TailIs
  <2>6. QED
    BY <1>1, <2>1, <2>2, <2>4, <2>5 DEF Startable
<1>5. CASE SetCanIdCommand
  <2>1. PICK t \in Targets, new \in Ids :
          fam = "RS" /\ Start("set_can_id", <<t[1]>>, <<t[2], t[2]>>, new)
    BY <1>5 DEF SetCanIdCommand
  <2>2. Startable("set_can_id", <<t[1]>>, <<t[2], t[2]>>, new)
    BY <1>1, <1>2, <1>3, <2>1 DEF Startable
  <2>3. QED
    BY <2>1, <2>2
<1>6. CASE RobstrideCommand
  <2>1. PICK t \in Targets, op \in {"probe", "calibrate"} :
          fam = "RS" /\ Start(op, <<t[1]>>, <<t[2], t[2]>>, 0)
    BY <1>6 DEF RobstrideCommand
  <2>2. Startable(op, <<t[1]>>, <<t[2], t[2]>>, 0)
    BY <1>1, <1>2, <1>3, <2>1 DEF Startable
  <2>3. QED
    BY <2>1, <2>2
<1>7. CASE ZeroErrCommand
  <2>1. PICK t \in Targets, op \in {"node", "boot", "position"} :
          fam = "ZE" /\ Start(op, <<t[1]>>, <<t[2], t[2]>>, 0)
    BY <1>7 DEF ZeroErrCommand
  <2>2. Startable(op, <<t[1]>>, <<t[2], t[2]>>, 0)
    BY <1>1, <1>2, <1>3, <2>1 DEF Startable
  <2>3. QED
    BY <2>1, <2>2
<1>8. QED
  BY <1>4, <1>5, <1>6, <1>7 DEF UserCommand

LEMMA StartIs ==
  ASSUME TypeOK, NEW op, NEW cells, NEW range, NEW new, Startable(op, cells, range, new),
         Start(op, cells, range, new)
  PROVE  /\ host.pc = "idle" /\ UNCHANGED <<fam, drv, toFw, leased, reader>>
         /\ host' \in Running /\ host'.op = op /\ host'.kind = host.kind /\ host'.id = host.id
         /\ host'.found = {} /\ host'.begun = FALSE /\ host'.tainted = FALSE /\ host'.resp = None
         /\ host'.lo = range[1] /\ host'.cur = range[1] /\ host'.hi = range[2] /\ host'.new = new
         /\ host'.all = Range(cells) /\ host'.bus = Head(cells) /\ Head(cells) \in Range(cells)
         /\ host'.cells = (IF op = "multi" THEN <<>> ELSE Tail(cells))
         /\ host'.mask = (IF op = "multi" THEN Range(cells) ELSE {Head(cells)})
         /\ host'.pc = (IF op \in NodeOps THEN "body" ELSE "begin")
         /\ Range(cells) = {Head(cells)} \cup Range(Tail(cells))
         /\ used' \in [runs : Nat, lost : Nat, late : Nat, stops : Nat] /\ (Clean' <=> Clean)
<1>1. /\ host \in Running /\ used \in [runs : Nat, lost : Nat, late : Nat, stops : Nat]
      /\ Resets \in Nat /\ MaxId \in Nat /\ MaxId > 0
  BY BenchAssumption DEF TypeOK
<1>2. /\ op \in Ops /\ cells \in Seq(Buses) /\ cells # <<>>
      /\ range[1] \in Ids /\ range[2] \in Ids /\ new \in 0 .. MaxId
  BY DEF Startable
<1> DEFINE all   == Range(cells)
           bus   == Head(cells)
           rest  == IF op = "multi" THEN <<>> ELSE Tail(cells)
           mask  == IF op = "multi" THEN Range(cells) ELSE {Head(cells)}
           pc    == IF op \in NodeOps THEN "body" ELSE "begin"
<1>3. /\ all \in SUBSET Buses /\ bus \in Buses /\ bus \in all /\ rest \in Seq(Buses)
      /\ mask \in SUBSET Buses /\ pc \in Steps /\ all = {bus} \cup Range(Tail(cells))
  <2>1. /\ Range(cells) \in SUBSET Buses /\ Head(cells) \in Buses /\ Tail(cells) \in Seq(Buses)
        /\ Head(cells) \in Range(cells) /\ Range(cells) = {Head(cells)} \cup Range(Tail(cells))
    BY <1>2, RangeIs, Zenon
  <2>2. <<>> \in Seq(Buses) /\ {Head(cells)} \in SUBSET Buses
    BY <2>1
  <2>3. QED
    BY <2>1, <2>2, Zenon DEF Steps
<1> HIDE DEF all, bus, rest, mask, pc
<1>5. range[1] \in 1 .. MaxId + 1
  BY <1>1, <1>2 DEF Ids
<1>6. PICK h : h = [host EXCEPT
           !.op = op, !.found = {}, !.good = FALSE, !.stop = FALSE,
           !.begun = FALSE, !.tainted = FALSE, !.left = Resets, !.resp = None]
  OBVIOUS
<1>7. /\ h \in Running /\ h.op = op /\ h.found = {} /\ h.begun = FALSE /\ h.tainted = FALSE
      /\ h.resp = None /\ h.kind = host.kind /\ h.id = host.id
  <2>1. PICK f \in Running : f = [[[[host EXCEPT !.op = op] EXCEPT !.found = {}]
                                       EXCEPT !.good = FALSE] EXCEPT !.stop = FALSE]
    BY <1>1, <1>2, SetExchange, SetOperation
  <2>2. PICK g \in Running : g = [[[[f EXCEPT !.begun = FALSE] EXCEPT !.tainted = FALSE]
                                    EXCEPT !.left = Resets] EXCEPT !.resp = None]
    BY <1>1, SetExchange, SetOperation
  <2>3. h \in Running
    BY <1>6, <2>1, <2>2
  <2>4. QED
    BY <1>1, <1>6, <2>3, DomainIs
<1>12. host' = [h EXCEPT
           !.lo = range[1], !.cur = range[1], !.hi = range[2], !.new = new,
           !.all = all, !.bus = bus, !.cells = rest, !.mask = mask, !.pc = pc]
  <2>1. host' = [host EXCEPT
           !.op = op, !.found = {}, !.good = FALSE, !.stop = FALSE,
           !.begun = FALSE, !.tainted = FALSE, !.left = Resets, !.resp = None,
           !.lo = range[1], !.cur = range[1], !.hi = range[2], !.new = new,
           !.all = all, !.bus = bus, !.cells = rest, !.mask = mask, !.pc = pc]
    BY DEF Start, NodeOps, all, bus, rest, mask, pc
  <2>2. QED
    BY <1>1, <1>6, <2>1, DomainIs
<1>13. /\ host' \in Running /\ host'.op = op /\ host'.kind = host.kind /\ host'.id = host.id
       /\ host'.found = {} /\ host'.begun = FALSE /\ host'.tainted = FALSE /\ host'.resp = None
       /\ host'.lo = range[1] /\ host'.cur = range[1] /\ host'.hi = range[2] /\ host'.new = new
       /\ host'.all = all /\ host'.bus = bus /\ host'.cells = rest /\ host'.mask = mask
       /\ host'.pc = pc
  <2>1. range[1] \in Ids
    BY <1>2
  <2>2. PICK f \in Running : f = [[[[h EXCEPT !.lo = range[1]] EXCEPT !.cur = range[1]]
                                    EXCEPT !.hi = range[2]] EXCEPT !.new = new]
    BY <1>2, <1>5, <1>7, SetOperation
  <2>3. PICK g \in Running : g = [[[[f EXCEPT !.all = all] EXCEPT !.bus = bus]
                                    EXCEPT !.cells = rest] EXCEPT !.mask = mask]
    BY <1>3, SetOperation
  <2>4. [g EXCEPT !.pc = pc] \in Running
    BY <1>3, SetExchange
  <2>5. host' \in Running
    BY <1>12, <2>2, <2>3, <2>4
  <2>6. QED
    BY <1>7, <1>12, <2>5, DomainIs
<1>8. used' = [used EXCEPT !.runs = @ + 1]
  BY DEF Start
<1>9. used' \in [runs : Nat, lost : Nat, late : Nat, stops : Nat] /\ (Clean' <=> Clean)
  BY <1>1, <1>8 DEF Clean
<1>10. host.pc = "idle" /\ UNCHANGED <<fam, drv, toFw, leased, reader>>
  BY DEF Start
<1>11. QED
  BY <1>3, <1>9, <1>10, <1>13, Zenon DEF all, bus, rest, mask, pc

LEMMA IdleIs ==
  ASSUME NEW on \in BOOLEAN
  PROVE  /\ Idle(on) \in Running /\ Idle(on).pc = "idle" /\ Idle(on).op = "none"
         /\ Idle(on).kind = "none" /\ Idle(on).found = {} /\ Idle(on).tainted = FALSE
         /\ Idle(on).begun = FALSE /\ Idle(on).cells = <<>> /\ Idle(on).resp = None
         /\ Idle(on).mask = {}
<1>1. Min(Buses) \in Buses /\ 1 \in Ids /\ MaxId \in Nat /\ 1 \in 1 .. MaxId + 1
  BY BenchAssumption, MinIs DEF Ids
<1>2. <<>> \in Seq(Buses)
  OBVIOUS
<1>3. Idle(on) \in Running
  BY <1>1, <1>2 DEF Idle, Running, Steps, Ops
<1>4. QED
  BY <1>3 DEF Idle

LEMMA RestoreIs ==
  ASSUME TypeOK, Restore
  PROVE  /\ host.pc = "restore" /\ UNCHANGED <<fam, drv, toFw, leased, reader, used>>
         /\ host' \in Running
         /\ \/ host' \in {Idle(on) : on \in BOOLEAN}
            \/ /\ host.cells # <<>> /\ host'.op = host.op /\ host'.kind = host.kind /\ host'.id = host.id
               /\ host'.found = host.found /\ host'.begun = host.begun /\ host'.tainted = host.tainted
               /\ host'.lo = host.lo /\ host'.hi = host.hi /\ host'.new = host.new
               /\ host'.all = host.all /\ host'.pc = "begin" /\ host'.cur = host.lo
               /\ host'.resp = None /\ host'.mask = {host'.bus}
               /\ Range(host.cells) = {host'.bus} \cup Range(host'.cells)
<1>1. host \in Running /\ host.cells \in Seq(Buses) /\ host.lo \in Ids /\ MaxId \in Nat
  BY BenchAssumption, RunningIs DEF TypeOK
<1>2. CASE host.cells # <<>> /\ ~host.stop
  <2> DEFINE bus  == Head(host.cells)
             rest == Tail(host.cells)
  <2>1. host' = [host EXCEPT !.bus = bus, !.cells = rest, !.mask = {bus}, !.cur = host.lo,
                   !.resp = None, !.pc = "begin"]
    BY <1>2 DEF Restore
  <2>2. bus \in Buses /\ rest \in Seq(Buses) /\ Range(host.cells) = {bus} \cup Range(rest)
    BY <1>1, <1>2, RangeIs, Zenon
  <2> HIDE DEF bus, rest
  <2>3. "begin" \in Steps /\ host.lo \in 1 .. MaxId + 1 /\ {bus} \in SUBSET Buses
    BY <1>1, <2>2 DEF Steps, Ids
  <2>4. host' \in Running
    <3>1. PICK f \in Running : f = [[host EXCEPT !.bus = bus] EXCEPT !.cells = rest]
      BY <1>1, <2>2, SetOperation
    <3>2. PICK g \in Running : g = [[f EXCEPT !.mask = {bus}] EXCEPT !.cur = host.lo]
      BY <2>3, SetOperation
    <3>3. [[g EXCEPT !.resp = None] EXCEPT !.pc = "begin"] \in Running
      BY <2>3, SetExchange
    <3>4. QED
      BY <2>1, <3>1, <3>2, <3>3
  <2>5. /\ host'.op = host.op /\ host'.kind = host.kind /\ host'.id = host.id
        /\ host'.found = host.found /\ host'.begun = host.begun /\ host'.tainted = host.tainted
        /\ host'.lo = host.lo /\ host'.hi = host.hi /\ host'.new = host.new
        /\ host'.all = host.all /\ host'.pc = "begin" /\ host'.cur = host.lo
        /\ host'.resp = None /\ host'.mask = {bus} /\ host'.bus = bus /\ host'.cells = rest
    BY <1>1, <2>1 DEF Running
  <2>6. QED
    BY <1>2, <2>2, <2>4, <2>5, Zenon DEF Restore
<1>3. CASE ~(host.cells # <<>> /\ ~host.stop)
  <2>1. host' = Idle(host.stream) /\ host.stream \in BOOLEAN
    BY <1>1, <1>3, RunningIs DEF Restore
  <2>2. host' \in Running
    BY <2>1, IdleIs
  <2>3. QED
    BY <2>1, <2>2, Zenon DEF Restore
<1>4. QED
  BY <1>2, <1>3

-----------------------------------------------------------------------------
(* Answers, and what they leave in the drives.                             *)

LEMMA SameDrives ==
  ASSUME UNCHANGED drv
  PROVE  \A b, i : At(b, i)' = At(b, i)
BY DEF At

LEMMA AtIs ==
  ASSUME drv \in [Drives -> Drive], NEW b, NEW i, At(b, i) # {}
  PROVE  b \in Buses /\ i \in Ids
BY DriveIs DEF At

\* What the request r and its answer a leave in the drives.
Leaves(r, a) ==
  /\ drv' \in [Drives -> Drive]
  /\ \A d \in Drives :
       /\ d \notin At(r.bus, r.id) => drv'[d] = drv[d]
       /\ drv'[d].bus = drv[d].bus
       /\ r.kind # "set" => /\ drv'[d].id = drv[d].id /\ (drv[d].seen => drv'[d].seen)
                            /\ drv[d].spun => drv'[d].spun
       /\ r.kind # "set" /\ d \in At(r.bus, r.id) => drv'[d].seen
       /\ r.kind = "cali" /\ a[1].mms = "cali" /\ d \in At(r.bus, r.id) => drv'[d].spun
       /\ drv'[d].saved # drv[d].saved => r.kind = "save" /\ d \in At(r.bus, r.id)
       /\ drv[d].zero = "off" /\ drv'[d].zero # "off" => r.kind = "zero" /\ d \in At(r.bus, r.id)

LEMMA EffectIs ==
  ASSUME drv \in [Drives -> Drive], NEW r \in Asking, r.kind = "set" => r.new \in Ids,
         NEW a, a[1] \in Frame, drv' = Effect(r, a)
  PROVE  Leaves(r, a)
<1> DEFINE new(d) ==
             LET heard == [drv[d] EXCEPT !.seen = TRUE]
             IN  IF d \notin At(r.bus, r.id) THEN drv[d]
                 ELSE CASE r.kind = "set"  -> [drv[d] EXCEPT !.id = r.new, !.seen = FALSE]
                        [] r.kind = "cali" -> [heard EXCEPT !.spun = @ \/ a[1].mms = "cali"]
                        [] r.kind = "zero" -> [heard EXCEPT !.zero = "ram"]
                        [] r.kind = "save" ->
                             [heard EXCEPT !.saved = drv[d].id,
                                !.zero = IF @ = "ram" THEN "flash" ELSE @]
                        [] OTHER           -> heard
<1>1. drv' = [d \in Drives |-> new(d)]
  BY DEF Effect
<1> DEFINE Fine(d, n) ==
              /\ n \in Drive
              /\ d \notin At(r.bus, r.id) => n = drv[d]
              /\ n.bus = drv[d].bus
              /\ r.kind # "set" => /\ n.id = drv[d].id /\ (drv[d].seen => n.seen)
                                   /\ drv[d].spun => n.spun
              /\ r.kind # "set" /\ d \in At(r.bus, r.id) => n.seen
              /\ r.kind = "cali" /\ a[1].mms = "cali" /\ d \in At(r.bus, r.id) => n.spun
              /\ n.saved # drv[d].saved => r.kind = "save" /\ d \in At(r.bus, r.id)
              /\ drv[d].zero = "off" /\ n.zero # "off" => r.kind = "zero" /\ d \in At(r.bus, r.id)
<1>2. ASSUME NEW d \in Drives PROVE Fine(d, new(d))
  <2>1. drv[d] \in Drive
    OBVIOUS
  <2>2. PICK D : D = drv[d]
    OBVIOUS
  <2>3. CASE d \notin At(r.bus, r.id)
    BY <2>1, <2>3
  <2>4. CASE d \in At(r.bus, r.id) /\ r.kind = "set"
    <3>1. new(d) = [D EXCEPT !.id = r.new, !.seen = FALSE]
      BY <2>2, <2>4
    <3>2. QED
      BY <2>1, <2>2, <2>4, <3>1 DEF Drive
  <2>5. CASE d \in At(r.bus, r.id) /\ r.kind = "cali"
    <3>1. new(d) = [[D EXCEPT !.seen = TRUE] EXCEPT !.spun = @ \/ a[1].mms = "cali"]
      BY <2>2, <2>5
    <3>2. QED
      BY <2>1, <2>2, <2>5, <3>1 DEF Drive
  <2>6. CASE d \in At(r.bus, r.id) /\ r.kind = "zero"
    <3>1. new(d) = [[D EXCEPT !.seen = TRUE] EXCEPT !.zero = "ram"]
      BY <2>2, <2>6
    <3>2. QED
      BY <2>1, <2>2, <2>6, <3>1 DEF Drive
  <2>7. CASE d \in At(r.bus, r.id) /\ r.kind = "save"
    <3>1. new(d) = [[D EXCEPT !.seen = TRUE] EXCEPT !.saved = D.id,
                      !.zero = IF @ = "ram" THEN "flash" ELSE @]
      BY <2>2, <2>7
    <3>2. QED
      BY <2>1, <2>2, <2>7, <3>1 DEF Drive
  <2>8. CASE d \in At(r.bus, r.id) /\ r.kind \notin {"set", "cali", "zero", "save"}
    <3>1. new(d) = [D EXCEPT !.seen = TRUE]
      BY <2>2, <2>8
    <3>2. QED
      BY <2>1, <2>2, <2>8, <3>1 DEF Drive
  <2>9. QED
    BY <2>3, <2>4, <2>5, <2>6, <2>7, <2>8
<1> HIDE DEF new
<1>3. \A d \in Drives : drv'[d] = new(d)
  BY <1>1
<1>4. \A d \in Drives : Fine(d, drv'[d])
  BY <1>2, <1>3
<1>5. drv' \in [Drives -> Drive]
  BY <1>1, <1>3, <1>4
<1>6. QED
  BY <1>4, <1>5 DEF Leaves

LEMMA ReplyIs ==
  ASSUME NEW r \in Asking, NEW found \in BOOLEAN, NEW disc \in 0 .. MaxId
  PROVE  LET f == Reply(r, found, disc)
         IN  /\ f \in Frame /\ f.old = r.old /\ f.kind = r.kind /\ f.id = r.id
             /\ f.found = found /\ f.disc = disc /\ f.bus = r.bus /\ f.mms = "rest"
BY AskingIs DEF Reply, Frame

\* A frame that answers r.
Tells(f, r) == f \in Frame /\ f.old = r.old /\ f.kind = r.kind /\ f.id = r.id

LEMMA OneHitIs ==
  ASSUME NEW r \in Asking
  PROVE  LET f == OneHit(r)
         IN  /\ Tells(f, r) /\ f.bus = r.bus /\ f.mms = "rest"
             /\ f.found <=> At(r.bus, r.id) # {}
             /\ f.found => f.disc = r.id
<1>1. r.id \in 0 .. MaxId /\ MaxId \in Nat
  BY AskingIs, BenchAssumption
<1>2. CASE At(r.bus, r.id) = {}
  <2>1. PICK f : f = OneHit(r)
    OBVIOUS
  <2>2. f = Reply(r, FALSE, 0) /\ 0 \in 0 .. MaxId
    BY <1>1, <1>2, <2>1 DEF OneHit
  <2>3. Tells(f, r) /\ f.bus = r.bus /\ f.mms = "rest" /\ f.found = FALSE
    BY <2>2, ReplyIs DEF Tells
  <2>4. QED
    BY <1>2, <2>1, <2>3
<1>3. CASE At(r.bus, r.id) # {}
  <2>1. PICK f : f = OneHit(r)
    OBVIOUS
  <2>2. f = Reply(r, TRUE, r.id)
    BY <1>3, <2>1 DEF OneHit
  <2>3. Tells(f, r) /\ f.bus = r.bus /\ f.mms = "rest" /\ f.found = TRUE /\ f.disc = r.id
    BY <1>1, <2>2, ReplyIs DEF Tells
  <2>4. QED
    BY <1>3, <2>1, <2>3
<1>4. QED
  BY <1>2, <1>3

LEMMA FirstHitIs ==
  ASSUME NEW r \in Asking
  PROVE  LET f == FirstHit(r)
         IN  /\ Tells(f, r) /\ f.bus = r.bus
             /\ f.found <=> Answering(r) # {}
             /\ f.found => f.disc = Min(Answering(r)) /\ At(r.bus, f.disc) # {}
<1>1. r.id \in 0 .. MaxId /\ r.hi \in 1 .. MaxId /\ MaxId \in Nat
  BY AskingIs, BenchAssumption DEF Ids
<1>2. CASE Answering(r) = {}
  <2>1. PICK f : f = FirstHit(r)
    OBVIOUS
  <2>2. f = Reply(r, FALSE, 0) /\ 0 \in 0 .. MaxId
    BY <1>1, <1>2, <2>1 DEF FirstHit
  <2>3. Tells(f, r) /\ f.bus = r.bus /\ f.mms = "rest" /\ f.found = FALSE
    BY <2>2, ReplyIs DEF Tells
  <2>4. QED
    BY <1>2, <2>1, <2>3
<1>3. CASE Answering(r) # {}
  <2>1. PICK m : m = Min(Answering(r))
    OBVIOUS
  <2>2. Answering(r) \in SUBSET Nat
    BY <1>1 DEF Answering
  <2>3. m \in Answering(r)
    BY <1>3, <2>1, <2>2, MinIs
  <2>4. m \in 0 .. MaxId /\ At(r.bus, m) # {}
    BY <1>1, <2>3 DEF Answering
  <2>5. PICK f : f = FirstHit(r)
    OBVIOUS
  <2>6. f = Reply(r, TRUE, m)
    BY <1>3, <2>1, <2>5 DEF FirstHit
  <2>7. Tells(f, r) /\ f.bus = r.bus /\ f.found = TRUE /\ f.disc = m
    BY <2>4, <2>6, ReplyIs DEF Tells
  <2>8. QED
    BY <1>3, <2>1, <2>4, <2>5, <2>7
<1>4. QED
  BY <1>2, <1>3

\* The frames a answer r bus by bus.
OfEach(a, r) ==
  /\ a \in Seq(Frame) /\ a # <<>>
  /\ \A i \in 1 .. Len(a) :
       /\ Tells(a[i], r)
       /\ a[i].found => a[i].bus \in leased /\ At(a[i].bus, r.id) # {} /\ a[i].disc = r.id
  /\ \A b \in leased : At(b, r.id) # {} =>
       \E i \in 1 .. Len(a) : a[i].found /\ a[i].bus = b /\ a[i].disc = r.id

LEMMA EachBusIs ==
  ASSUME TypeOK, NEW r \in Asking
  PROVE  OfEach(EachBus(r), r)
<1> USE DEF OfEach
<1> SUFFICES ASSUME NEW a, a = EachBus(r) PROVE OfEach(a, r)
  OBVIOUS
<1>1. r.id \in 0 .. MaxId /\ MaxId \in Nat /\ IsFiniteSet(Buses) /\ leased \subseteq Buses
  BY AskingIs, BenchAssumption DEF TypeOK
<1> DEFINE hits == {b \in leased : At(b, r.id) # {}}
           Of(b) == [Reply(r, TRUE, r.id) EXCEPT !.bus = b]
           S    == {Of(b) : b \in hits}
           f    == [b \in hits |-> Of(b)]
<1>2. IsFiniteSet(hits)
  BY <1>1, FS_Subset
<1>3. CASE hits = {}
  <2>1. PICK x : x = Reply(r, FALSE, 0)
    OBVIOUS
  <2>2. a = <<x>>
    BY <1>3, <2>1, Zenon DEF EachBus
  <2>3. 0 \in 0 .. MaxId
    BY <1>1
  <2>4. x \in Frame /\ Tells(x, r) /\ x.found = FALSE
    BY <2>1, <2>3, ReplyIs DEF Tells
  <2>5. a \in Seq(Frame) /\ Len(a) = 1 /\ a[1] = x /\ a # <<>>
    BY <2>2, <2>4, OneIs, Zenon
  <2>6. QED
    BY <1>3, <2>4, <2>5
<1>4. CASE hits # {}
  <2>1. a = SetToSeq(S)
    BY <1>4 DEF EachBus
  <2>2. ASSUME NEW b \in hits
        PROVE  /\ Of(b) \in Frame /\ Tells(Of(b), r) /\ Of(b).found /\ Of(b).bus = b /\ Of(b).disc = r.id
    <3>1. PICK x : x = Reply(r, TRUE, r.id)
      OBVIOUS
    <3>2. x \in Frame /\ x.old = r.old /\ x.kind = r.kind /\ x.id = r.id /\ x.found = TRUE /\ x.disc = r.id
      BY <1>1, <3>1, ReplyIs
    <3>3. Of(b) = [x EXCEPT !.bus = b] /\ b \in Buses
      BY <1>1, <3>1
    <3>4. QED
      BY <3>2, <3>3 DEF Frame, Tells
  <2> HIDE DEF Of
  <2>3. f \in Surjection(hits, S)
    BY DEF Surjection
  <2>4. IsFiniteSet(S)
    BY <1>2, <2>3, FS_Surjection
  <2> HIDE DEF f
  <2>5. /\ a \in Seq(S)
        /\ \A x \in S : \E i \in 1 .. Len(a) : a[i] = x
        /\ \A i \in 1 .. Len(a) : a[i] \in S
    BY <2>1, <2>4, SetToSeqIs
  <2>6. S \subseteq Frame
    BY <2>2
  <2>7. S # {}
    BY <1>4
  <2>8. a \in Seq(Frame) /\ a # <<>>
    <3>1. Len(a) \in Nat /\ a \in [1 .. Len(a) -> S]
      BY <2>5
    <3>2. \A i \in 1 .. Len(a) : a[i] \in Frame
      BY <2>5, <2>6
    <3>3. a # <<>>
      <4>1. PICK x : x \in S
        BY <2>7
      <4>2. PICK i \in 1 .. Len(a) : a[i] = x
        BY <2>5, <4>1
      <4>3. Len(a) # 0
        BY <3>1
      <4>4. QED
        BY <4>3, EmptyIs
    <3>4. QED
      BY <3>1, <3>2, <3>3
  <2>9. ASSUME NEW i \in 1 .. Len(a)
        PROVE  /\ Tells(a[i], r)
               /\ a[i].found => a[i].bus \in leased /\ At(a[i].bus, r.id) # {} /\ a[i].disc = r.id
    <3>1. PICK b \in hits : a[i] = Of(b)
      BY <2>5
    <3>2. QED
      BY <2>2, <3>1
  <2>10. ASSUME NEW b \in leased, At(b, r.id) # {}
         PROVE  \E i \in 1 .. Len(a) : a[i].found /\ a[i].bus = b /\ a[i].disc = r.id
    <3>1. b \in hits /\ Of(b) \in S
      BY <2>10
    <3>2. PICK i \in 1 .. Len(a) : a[i] = Of(b)
      BY <2>5, <3>1
    <3>3. QED
      BY <2>2, <3>1, <3>2
  <2>11. QED
    BY <2>8, <2>9, <2>10
<1>5. QED
  BY <1>3, <1>4

\* Whether the firmware answers r with a frame for each bus.
Many(r) == r.kind \in {"enable", "promisc"} /\ Cardinality(leased) > 1

LEMMA AnswersAre ==
  ASSUME TypeOK, NEW r \in Asking, NEW a \in Answers(r)
  PROVE  /\ a \in Seq(Frame) /\ a # <<>>
         /\ \A i \in 1 .. Len(a) : Tells(a[i], r)
         /\ r.kind \in Probes => \A i \in 1 .. Len(a) : a[i].found =>
              At(a[i].bus, a[i].disc) # {} /\ (a[i].bus = r.bus \/ (Many(r) /\ a[i].bus \in leased))
         /\ r.kind = "cali" => Len(a) <= 2 /\ \A i \in 1 .. Len(a) : a[i].mms = "cali" => a[1].mms = "cali"
         /\ r.kind # "cali" /\ ~Many(r) => Len(a) = 1
         /\ r.kind = "sweep" => /\ a[1].found <=> Answering(r) # {}
                                /\ a[1].found => a[1].disc = Min(Answering(r))
         /\ r.kind \in {"scan", "enable", "promisc"} /\ ~Many(r) =>
              /\ a[1].found <=> At(r.bus, r.id) # {}
              /\ a[1].found => a[1].bus = r.bus /\ a[1].disc = r.id
         /\ Many(r) => \A b \in leased : At(b, r.id) # {} =>
              \E i \in 1 .. Len(a) : a[i].found /\ a[i].bus = b /\ a[i].disc = r.id
<1> DEFINE Goal == 
         /\ a \in Seq(Frame) /\ a # <<>>
         /\ \A i \in 1 .. Len(a) : Tells(a[i], r)
         /\ r.kind \in Probes => \A i \in 1 .. Len(a) : a[i].found =>
              At(a[i].bus, a[i].disc) # {} /\ (a[i].bus = r.bus \/ (Many(r) /\ a[i].bus \in leased))
         /\ r.kind = "cali" => Len(a) <= 2 /\ \A i \in 1 .. Len(a) : a[i].mms = "cali" => a[1].mms = "cali"
         /\ r.kind # "cali" /\ ~Many(r) => Len(a) = 1
         /\ r.kind = "sweep" => /\ a[1].found <=> Answering(r) # {}
                                /\ a[1].found => a[1].disc = Min(Answering(r))
         /\ r.kind \in {"scan", "enable", "promisc"} /\ ~Many(r) =>
              /\ a[1].found <=> At(r.bus, r.id) # {}
              /\ a[1].found => a[1].bus = r.bus /\ a[1].disc = r.id
         /\ Many(r) => \A b \in leased : At(b, r.id) # {} =>
              \E i \in 1 .. Len(a) : a[i].found /\ a[i].bus = b /\ a[i].disc = r.id
<1>1. r.kind \in Kinds /\ r.id \in 0 .. MaxId /\ 0 \in 0 .. MaxId
  BY AskingIs, BenchAssumption
<1>2. PICK one : one = OneHit(r)
  OBVIOUS
<1>3. /\ Tells(one, r) /\ one.bus = r.bus /\ one.mms = "rest" /\ (one.found <=> At(r.bus, r.id) # {})
      /\ one.found => one.disc = r.id
  BY <1>2, OneHitIs
<1>4. ASSUME NEW m \in {"rest", "running", "cali", "away", "zero"}
      PROVE  Tells([one EXCEPT !.mms = m], r) /\ [one EXCEPT !.mms = m].mms = m
  BY <1>3 DEF Tells, Frame
<1>5. CASE r.kind \in {"begin", "end"}
  <2>1. PICK x : x = Reply(r, TRUE, 0)
    OBVIOUS
  <2>2. Tells(x, r)
    BY <1>1, <2>1, ReplyIs DEF Tells
  <2>3. a = <<x>>
    BY <1>5, <2>1 DEF Answers
  <2>4. a \in Seq(Frame) /\ Len(a) = 1 /\ a[1] = x /\ a # <<>>
    BY <2>2, <2>3, OneIs DEF Tells
  <2>5. QED
    BY <1>5, <2>2, <2>4 DEF Many, Probes
<1>6. CASE r.kind = "sweep"
  <2>1. PICK x : x = FirstHit(r)
    OBVIOUS
  <2>2. /\ Tells(x, r) /\ x.bus = r.bus /\ (x.found <=> Answering(r) # {})
        /\ x.found => x.disc = Min(Answering(r)) /\ At(r.bus, x.disc) # {}
    BY <2>1, FirstHitIs
  <2>3. a = <<x>>
    BY <1>6, <2>1 DEF Answers
  <2>4. a \in Seq(Frame) /\ Len(a) = 1 /\ a[1] = x /\ a # <<>>
    BY <2>2, <2>3, OneIs DEF Tells
  <2>5. QED
    BY <1>6, <2>2, <2>4 DEF Many
<1>7. CASE Many(r)
  <2>1. a = EachBus(r)
    BY <1>7 DEF Answers, Many
  <2>2. OfEach(a, r)
    BY <2>1, EachBusIs
  <2>3. r.kind \notin {"cali", "sweep"}
    BY <1>7 DEF Many
  <2>4. QED
    BY <1>7, <2>2, <2>3 DEF OfEach
<1>8. CASE r.kind = "cali"
  <2>1. a \in Calibration(r)
    BY <1>8 DEF Answers
  <2>2. CASE At(r.bus, r.id) = {}
    <3>1. PICK x : x = Reply(r, FALSE, 0)
      OBVIOUS
    <3>2. Tells(x, r) /\ x.mms = "rest"
      BY <1>1, <3>1, ReplyIs DEF Tells
    <3>3. a = <<x>>
      BY <2>1, <2>2, <3>1 DEF Calibration
    <3>4. a \in Seq(Frame) /\ Len(a) = 1 /\ a[1] = x /\ a # <<>>
      BY <3>2, <3>3, OneIs DEF Tells
    <3>5. QED
      BY <1>8, <3>2, <3>4 DEF Many, Probes
  <2>3. CASE a = <<one>>
    <3>1. a \in Seq(Frame) /\ Len(a) = 1 /\ a[1] = one /\ a # <<>>
      BY <1>3, <2>3, OneIs DEF Tells
    <3>2. QED
      BY <1>3, <1>8, <3>1 DEF Many, Probes
  <2>4. ASSUME NEW m \in {"rest", "running", "cali"},
               a = <<[one EXCEPT !.mms = "cali"], [one EXCEPT !.mms = m]>>
        PROVE  Goal
    <3>1. PICK x, y : x = [one EXCEPT !.mms = "cali"] /\ y = [one EXCEPT !.mms = m]
      OBVIOUS
    <3>2. Tells(x, r) /\ Tells(y, r) /\ x.mms = "cali"
      BY <1>4, <3>1
    <3>3. a = <<x, y>>
      BY <2>4, <3>1
    <3>4. a \in Seq(Frame) /\ Len(a) = 2 /\ a[1] = x /\ a[2] = y /\ a # <<>>
      BY <3>2, <3>3, TwoIs DEF Tells
    <3>5. QED
      BY <1>8, <3>2, <3>4 DEF Many, Probes
  <2>5. \/ At(r.bus, r.id) = {} \/ a = <<one>>
        \/ \E m \in {"rest", "running", "cali"} :
             a = <<[one EXCEPT !.mms = "cali"], [one EXCEPT !.mms = m]>>
    BY <1>2, <2>1 DEF Calibration
  <2>6. QED
    BY <2>2, <2>3, <2>4, <2>5
<1>9. CASE r.kind \in {"mech", "reset", "write"}
  <2>1. PICK m \in {"rest", "running", "cali", "away", "zero"} : a = <<[one EXCEPT !.mms = m]>>
    <3>1. CASE r.kind = "mech"
      <4>1. a = <<[one EXCEPT !.mms = IF \E d \in At(r.bus, r.id) : drv[d].zero = "off"
                                      THEN "away" ELSE "zero"]>>
        BY <1>2, <3>1 DEF Answers
      <4>2. QED
        BY <4>1
    <3>2. CASE r.kind \in {"reset", "write"}
      BY <1>2, <3>2 DEF Answers
    <3>3. QED
      BY <1>9, <3>1, <3>2
  <2>2. PICK x : x = [one EXCEPT !.mms = m]
    OBVIOUS
  <2>3. Tells(x, r)
    BY <1>4, <2>2
  <2>4. a \in Seq(Frame) /\ Len(a) = 1 /\ a[1] = x /\ a # <<>>
    <3>1. a = <<x>>
      BY <2>1, <2>2
    <3>2. QED
      BY <2>3, <3>1, OneIs DEF Tells
  <2>5. QED
    BY <1>9, <2>3, <2>4 DEF Many, Probes
<1>10. CASE r.kind \notin {"begin", "end", "sweep", "cali", "mech", "reset", "write"} /\ ~Many(r)
  <2>1. a = <<one>>
    BY <1>2, <1>10 DEF Answers, Many
  <2>2. a \in Seq(Frame) /\ Len(a) = 1 /\ a[1] = one /\ a # <<>>
    BY <1>3, <2>1, OneIs DEF Tells
  <2>3. one.found => At(one.bus, one.disc) # {}
    BY <1>3
  <2>4. QED
    BY <1>3, <1>10, <2>2, <2>3
<1>11. QED
  BY <1>5, <1>6, <1>7, <1>8, <1>9, <1>10

\* The first request is taken from those under way.
Taken ==
  /\ toFw # <<>> /\ toFw[1] \in Asking /\ toFw' \in Seq(Asking)
  /\ Len(toFw) \in Nat \ {0} /\ Len(toFw') = Len(toFw) - 1
  /\ \A i \in 1 .. Len(toFw') : toFw'[i] = toFw[i + 1]
  /\ toFw' = <<>> <=> Len(toFw) = 1

LEMMA TakenIs ==
  ASSUME toFw \in Seq(Asking), toFw # <<>>, toFw' = Tail(toFw)
  PROVE  Taken /\ Head(toFw) = toFw[1]
BY TailIs, Zenon DEF Taken

LEMMA DropIs ==
  ASSUME TypeOK, Drop
  PROVE  /\ Taken /\ UNCHANGED <<fam, drv, leased, reader, host>>
         /\ used' \in [runs : Nat, lost : Nat, late : Nat, stops : Nat] /\ ~Clean'
<1>1. used \in [runs : Nat, lost : Nat, late : Nat, stops : Nat] /\ toFw \in Seq(Asking)
  BY DEF TypeOK
<1>2. Taken /\ UNCHANGED <<fam, drv, leased, reader, host>>
  BY <1>1, TakenIs DEF Drop
<1>3. used' = [used EXCEPT !.lost = @ + 1]
  BY DEF Drop
<1>4. used' \in [runs : Nat, lost : Nat, late : Nat, stops : Nat] /\ ~Clean'
  BY <1>1, <1>3 DEF Clean
<1>5. QED
  BY <1>2, <1>4

LEMMA ServeIs ==
  ASSUME TypeOK, IdOK, Serve
  PROVE  /\ Taken /\ UNCHANGED <<fam, host>> /\ leased' \in SUBSET Buses
         /\ leased' = (IF toFw[1].kind = "begin" THEN toFw[1].mask
                       ELSE IF toFw[1].kind = "end" THEN {} ELSE leased)
         /\ used' \in [runs : Nat, lost : Nat, late : Nat, stops : Nat]
         /\ \E a \in Answers(toFw[1]) :
              /\ Leaves(toFw[1], a)
              /\ \/ reader' = reader \o a /\ UNCHANGED used
                 \/ UNCHANGED reader /\ ~Clean'
<1>1. /\ used \in [runs : Nat, lost : Nat, late : Nat, stops : Nat] /\ toFw \in Seq(Asking)
      /\ drv \in [Drives -> Drive] /\ leased \in SUBSET Buses
  BY DEF TypeOK
<1>2. Taken /\ Head(toFw) = toFw[1]
  BY <1>1, TakenIs DEF Serve
<1>3. PICK r : r = toFw[1]
  OBVIOUS
<1>4. r \in Asking /\ r.mask \in SUBSET Buses /\ Head(toFw) = r
  BY <1>2, <1>3, AskingIs DEF Taken
<1>5. leased' = (IF r.kind = "begin" THEN r.mask ELSE IF r.kind = "end" THEN {} ELSE leased)
  BY <1>4 DEF Serve, Session
<1>6. leased' \in SUBSET Buses
  BY <1>1, <1>4, <1>5
<1>7. PICK a \in Answers(r) :
         /\ drv' = Effect(r, a)
         /\ \/ reader' = reader \o a /\ UNCHANGED used
            \/ used' = [used EXCEPT !.lost = @ + 1] /\ UNCHANGED reader
  BY <1>4 DEF Serve
<1>8. r.kind = "set" => r.new \in Ids
  BY <1>2, <1>3 DEF IdOK, Taken
<1>9. a \in Seq(Frame) /\ a # <<>>
  BY <1>4, AnswersAre
<1>10. a[1] \in Frame
  BY <1>9, TailIs
<1>11. Leaves(r, a)
  BY <1>1, <1>4, <1>7, <1>8, <1>10, EffectIs
<1>12. /\ used' \in [runs : Nat, lost : Nat, late : Nat, stops : Nat]
       /\ \/ reader' = reader \o a /\ UNCHANGED used
          \/ UNCHANGED reader /\ ~Clean'
  <2>1. CASE reader' = reader \o a /\ UNCHANGED used
    BY <1>1, <2>1
  <2>2. CASE used' = [used EXCEPT !.lost = @ + 1] /\ UNCHANGED reader
    <3>1. used' \in [runs : Nat, lost : Nat, late : Nat, stops : Nat] /\ used'.lost # 0
      BY <1>1, <2>2
    <3>2. QED
      BY <2>2, <3>1 DEF Clean
  <2>3. QED
    BY <1>7, <2>1, <2>2
<1>13. \E x \in Answers(r) :
              /\ Leaves(r, x)
              /\ \/ reader' = reader \o x /\ UNCHANGED used
                 \/ UNCHANGED reader /\ ~Clean'
  BY <1>11, <1>12
<1>14. UNCHANGED <<fam, host>>
  BY DEF Serve
<1>15. QED
  BY <1>2, <1>3, <1>5, <1>6, <1>12, <1>13, <1>14, Zenon

\* A step that takes the first request off leaves the drives where they are
\* unless it renumbers one.
LEMMA Unmoved ==
  ASSUME drv \in [Drives -> Drive], NEW r, NEW a, Leaves(r, a), r.kind # "set"
  PROVE  \A b, i : At(b, i)' = At(b, i)
BY DEF Leaves, At

-----------------------------------------------------------------------------
(* The firmware's own steps.                                               *)

LEMMA TurnIs ==
  ASSUME NEW op, NEW kind, NEW ret, Turn(op, kind, ret)
  PROVE  /\ ret \notin {"idle", "await", "begin", "end"}
         /\ ret = "body" <=> kind = "begin"
         /\ op \notin NodeOps => (ret = "restore" <=> kind = "end")
         /\ op \in NodeOps => kind = op /\ ret = "restore"
         /\ kind \in {"begin", "end"} => op \notin NodeOps
         /\ kind = "cali" <=> ret = "spun"
         /\ kind = "cali" => op = "calibrate"
         /\ op = "discover" => kind \in Probes \cup {"begin", "end"}
         /\ op = "multi" => kind \in {"enable", "promisc", "begin", "end"}
         /\ kind = "set" => op = "set_can_id"
BY DEF Turn, NodeOps, Probes

LEMMA SameExact ==
  ASSUME \A b, i : At(b, i)' = At(b, i),
         host'.kind = host.kind, host'.id = host.id, host'.bus = host.bus, host'.hi = host.hi
  PROVE  \A f : Exact(f)' <=> Exact(f)
<1>1. Answering(host)' = Answering(host)
  BY DEF Answering
<1>2. QED
  BY <1>1 DEF Exact

LEMMA StaleKeeps ==
  ASSUME IInv, StaleHost
  PROVE  IInv'
<1>1. leased' = {} /\ UNCHANGED <<fam, drv, toFw, reader, host, used>>
  BY DEF StaleHost
<1>2. \A b, i : At(b, i)' = At(b, i)
  BY <1>1, SameDrives
<1>3. TypeOK'
  BY <1>1 DEF IInv, TypeOK
<1>4. ScriptOK' /\ IdOK'
  BY <1>1 DEF IInv, ScriptOK, IdOK, Belongs, Turn, Searching, Busy
<1>5. FreshOK' /\ LeaseOK'
  BY <1>1 DEF IInv, FreshOK, LeaseOK, Begun, Busy
<1>6. ExchangeOK'
  BY <1>1, <1>2 DEF IInv, ExchangeOK, Busy, Asked, Heard, Real, RealAt, Opened
<1>7. FoundOK'
  BY <1>1, <1>2 DEF IInv, FoundOK, HitsAreReal, Searching
<1>8. SureOK'
  BY <1>1, <1>2 DEF IInv, SureOK
<1>9. CleanOK'
  <2>1. \A f : Exact(f)' <=> Exact(f)
    BY <1>1, <1>2, SameExact
  <2>2. Collected(<<>>)' <=> Collected(<<>>)
    BY <1>1, <1>2 DEF Collected
  <2>3. Answered' <=> Answered
    BY <1>1, <1>2, <2>1 DEF Answered, Collects, Collected
  <2>4. QED
    BY <1>1, <2>1, <2>2, <2>3 DEF IInv, CleanOK, Clean, Asked, Heard
<1>10. ProgressOK'
  BY <1>1 DEF IInv, ProgressOK, Clean, Searching, Busy, Swept
<1>11. CleanLease'
  <2>1. host.op # "multi"
    <3>1. host.pc = "idle" \/ (host.pc = "await" /\ host.kind \in {"cali", "sweep"})
      BY DEF StaleHost, HostSilent
    <3>2. CASE host.pc = "idle"
      BY <3>2 DEF IInv, ScriptOK
    <3>3. CASE host.pc = "await" /\ host.kind \in {"cali", "sweep"}
      <4>1. Turn(host.op, host.kind, host.ret)
        BY <3>3 DEF IInv, ScriptOK
      <4>2. QED
        BY <3>3, <4>1, TurnIs
    <3>4. QED
      BY <3>1, <3>2, <3>3
  <2>2. QED
    BY <1>1, <2>1 DEF IInv, CleanLease, Clean
<1>12. QED
  BY <1>3, <1>4, <1>5, <1>6, <1>7, <1>8, <1>9, <1>10, <1>11 DEF IInv

LEMMA DropKeeps ==
  ASSUME IInv, Drop
  PROVE  IInv'
<1> USE DEF IInv
<1>1. /\ Taken /\ UNCHANGED <<fam, drv, leased, reader, host>>
      /\ used' \in [runs : Nat, lost : Nat, late : Nat, stops : Nat] /\ ~Clean'
  BY DropIs
<1>2. \A b, i : At(b, i)' = At(b, i)
  BY <1>1, SameDrives
<1>3. TypeOK'
  BY <1>1 DEF TypeOK, Taken
<1>4. /\ toFw # <<>> /\ Len(toFw) \in Nat \ {0} /\ Len(toFw') = Len(toFw) - 1
      /\ \A i \in 1 .. Len(toFw') : toFw'[i] = toFw[i + 1]
      /\ Len(toFw) = 1 => toFw' = <<>>
      /\ \A i \in 1 .. Len(toFw') : i + 1 \in 1 .. Len(toFw)
  BY <1>1 DEF Taken
<1>5. ScriptOK' /\ IdOK'
  <2>1. ScriptOK'
    BY <1>1 DEF ScriptOK, Belongs, Turn, Searching, Busy
  <2>2. IdOK'
    BY <1>1, <1>4 DEF IdOK, Searching, Busy
  <2>3. QED
    BY <2>1, <2>2
<1>6. FreshOK'
  <2> SUFFICES ASSUME host.kind = "begin", host.pc \in {"await", "body"}
               PROVE  FreshOK'
    BY <1>1 DEF FreshOK
  <2>1. ~(Begun \/ \E i \in 1 .. Len(reader) : ~reader[i].old)
    BY <1>4 DEF FreshOK
  <2>2. ~(Begun' \/ \E i \in 1 .. Len(reader') : ~reader'[i].old)
    BY <1>1, <2>1 DEF Begun
  <2>3. ASSUME NEW i \in 1 .. Len(toFw'), ~toFw'[i].old
        PROVE  i = Len(toFw') /\ toFw'[i].kind = "begin" /\ toFw'[i].mask = host'.mask
    <3>1. i + 1 = Len(toFw) /\ toFw[i + 1].kind = "begin" /\ toFw[i + 1].mask = host.mask
      BY <1>4, <2>3 DEF FreshOK
    <3>2. QED
      BY <1>1, <1>4, <3>1
  <2>4. QED
    BY <2>2, <2>3 DEF FreshOK
<1>7. LeaseOK'
  BY <1>1 DEF LeaseOK, Busy
<1>8. ExchangeOK'
  <2> SUFFICES ASSUME ~host.tainted, Busy, host.kind \in Body
               PROVE  ExchangeOK'
    BY <1>1 DEF ExchangeOK, Busy
  <2>1. toFw' = <<>>
    BY <1>4 DEF ExchangeOK
  <2>2. QED
    BY <1>1, <1>2, <2>1 DEF ExchangeOK, Busy, Asked, Heard, Real, RealAt, Opened
<1>9. FoundOK'
  <2>1. HitsAreReal'
    BY <1>1, <1>2 DEF FoundOK, HitsAreReal
  <2>2. QED
    BY <1>1, <1>4, <2>1 DEF FoundOK, Searching
<1>10. SureOK'
  <2> SUFFICES ASSUME NEW i \in 1 .. Len(toFw'), toFw'[i].sure, toFw'[i].kind \in {"save", "zero"}
               PROVE  /\ \A j \in 1 .. (i - 1) : toFw'[j].kind # "set"
                      /\ \A d \in At(toFw'[i].bus, toFw'[i].id) :
                           drv[d].seen /\ (toFw'[i].kind = "zero" => drv[d].spun)
    BY <1>1, <1>2 DEF SureOK
  <2>1. i + 1 \in 1 .. Len(toFw) /\ toFw'[i] = toFw[i + 1]
    BY <1>4
  <2>2. \A j \in 1 .. (i - 1) : j + 1 \in 1 .. ((i + 1) - 1) /\ toFw'[j] = toFw[j + 1]
    BY <1>4
  <2>3. \A j \in 1 .. ((i + 1) - 1) : toFw[j].kind # "set"
    BY <2>1 DEF SureOK
  <2>4. QED
    BY <2>1, <2>2, <2>3 DEF SureOK
<1>11. CleanOK' /\ CleanLease' /\ ProgressOK'
  BY <1>1 DEF CleanOK, CleanLease, ProgressOK
<1>12. QED
  BY <1>3, <1>5, <1>6, <1>7, <1>8, <1>9, <1>10, <1>11

LEMMA FewBuses ==
  /\ \A S, b : S \subseteq {b} => ~(Cardinality(S) > 1)
  /\ \A S, b : IsFiniteSet(S) /\ b \in S /\ ~(Cardinality(S) > 1) => S = {b}
<1>1. ASSUME NEW S, NEW b, S \subseteq {b} PROVE ~(Cardinality(S) > 1)
  <2>1. IsFiniteSet({b}) /\ Cardinality({b}) = 1
    BY FS_Singleton
  <2>2. Cardinality(S) <= Cardinality({b}) /\ Cardinality(S) \in Nat
    BY <1>1, <2>1, FS_Subset, FS_CardinalityType
  <2>3. QED
    BY <2>1, <2>2
<1>2. ASSUME NEW S, NEW b, IsFiniteSet(S), b \in S, ~(Cardinality(S) > 1) PROVE S = {b}
  <2>1. {b} \subseteq S /\ IsFiniteSet({b}) /\ Cardinality({b}) = 1
    BY <1>2, FS_Singleton
  <2>2. Cardinality({b}) <= Cardinality(S) /\ Cardinality(S) \in Nat
    BY <1>2, <2>1, FS_Subset, FS_CardinalityType
  <2>3. Cardinality({b}) = Cardinality(S)
    BY <1>2, <2>1, <2>2
  <2>4. QED
    BY <1>2, <2>1, <2>3, FS_Subset
<1>3. QED
  BY <1>1, <1>2

\* What an operation on one bus is answered by one frame at a time.
LEMMA OneBus ==
  ASSUME TypeOK, ScriptOK, CleanLease, Clean, host.op \notin {"none", "multi"}
  PROVE  ~(Cardinality(leased) > 1)
<1>1. leased \subseteq {host.bus}
  BY DEF ScriptOK, CleanLease
<1>2. QED
  BY <1>1, FewBuses

LEMMA ServeKeeps ==
  ASSUME IInv, Serve
  PROVE  IInv'
<1> USE DEF IInv
<1>1. /\ Taken /\ UNCHANGED <<fam, host>> /\ leased' \in SUBSET Buses
      /\ leased' = (IF toFw[1].kind = "begin" THEN toFw[1].mask
                       ELSE IF toFw[1].kind = "end" THEN {} ELSE leased)
      /\ used' \in [runs : Nat, lost : Nat, late : Nat, stops : Nat]
  BY ServeIs
<1>2. PICK r : r = toFw[1]
  OBVIOUS
<1>3. PICK a \in Answers(toFw[1]) :
              /\ Leaves(toFw[1], a)
              /\ \/ reader' = reader \o a /\ UNCHANGED used
                 \/ UNCHANGED reader /\ ~Clean'
  BY ServeIs
<1>4. /\ toFw # <<>> /\ r \in Asking /\ toFw' \in Seq(Asking)
      /\ Len(toFw) \in Nat \ {0} /\ Len(toFw') = Len(toFw) - 1
      /\ \A i \in 1 .. Len(toFw') : toFw'[i] = toFw[i + 1]
      /\ Len(toFw) = 1 => toFw' = <<>>
      /\ \A i \in 1 .. Len(toFw') : i + 1 \in 1 .. Len(toFw)
      /\ 1 \in 1 .. Len(toFw)
  BY <1>1, <1>2 DEF Taken
<1>5. /\ Leaves(r, a) /\ a \in Answers(r)
      /\ leased' = (IF r.kind = "begin" THEN r.mask ELSE IF r.kind = "end" THEN {} ELSE leased)
      /\ (reader' = reader \o a /\ UNCHANGED used) \/ (UNCHANGED reader /\ ~Clean')
  BY <1>1, <1>2, <1>3
<1>6. /\ drv \in [Drives -> Drive] /\ reader \in Seq(Frame) /\ host \in Running /\ toFw \in Seq(Asking)
      /\ used \in [runs : Nat, lost : Nat, late : Nat, stops : Nat] /\ leased \in SUBSET Buses
  BY DEF TypeOK
<1>7. /\ a \in Seq(Frame) /\ a # <<>>
      /\ \A i \in 1 .. Len(a) : Tells(a[i], r)
      /\ r.kind \in Probes => \A i \in 1 .. Len(a) : a[i].found =>
              At(a[i].bus, a[i].disc) # {} /\ (a[i].bus = r.bus \/ (Many(r) /\ a[i].bus \in leased))
      /\ r.kind = "cali" => Len(a) <= 2 /\ \A i \in 1 .. Len(a) : a[i].mms = "cali" => a[1].mms = "cali"
      /\ r.kind # "cali" /\ ~Many(r) => Len(a) = 1
      /\ r.kind = "sweep" => /\ a[1].found <=> Answering(r) # {}
                             /\ a[1].found => a[1].disc = Min(Answering(r))
      /\ r.kind \in {"scan", "enable", "promisc"} /\ ~Many(r) =>
              /\ a[1].found <=> At(r.bus, r.id) # {}
              /\ a[1].found => a[1].bus = r.bus /\ a[1].disc = r.id
      /\ Many(r) => \A b \in leased : At(b, r.id) # {} =>
              \E i \in 1 .. Len(a) : a[i].found /\ a[i].bus = b /\ a[i].disc = r.id
  BY <1>4, <1>5, AnswersAre, Zenon
<1>30. Len(a) \in Nat \ {0}
  BY <1>7
<1>8. r.kind # "set" => \A b, i : At(b, i)' = At(b, i)
  BY <1>5, <1>6, Unmoved
<1>9. /\ reader' \in Seq(Frame)
      /\ \A i \in 1 .. Len(reader') : \/ i \in 1 .. Len(reader) /\ reader'[i] = reader[i]
                                      \/ \E j \in 1 .. Len(a) : reader'[i] = a[j]
      /\ reader = <<>> => reader' = a \/ (reader' = <<>> /\ ~Clean')
      /\ Clean' => Clean /\ (reader = <<>> => reader' = a)
  <2>1. CASE reader' = reader \o a /\ UNCHANGED used
    <3>1. PICK s : s = reader \o a
      OBVIOUS
    <3>2. /\ s \in Seq(Frame) /\ (reader = <<>> => s = a)
          /\ \A i \in 1 .. Len(s) : \/ i \in 1 .. Len(reader) /\ s[i] = reader[i]
                                    \/ (i - Len(reader)) \in 1 .. Len(a) /\ s[i] = a[i - Len(reader)]
      <4>1. reader \in Seq(Frame) /\ a \in Seq(Frame)
        BY <1>6, <1>7, Zenon
      <4>2. QED
        BY <3>1, <4>1, ConcatIs
    <3>3. reader' = s /\ (Clean' <=> Clean)
      BY <2>1, <3>1 DEF Clean
    <3>4. QED
      BY <3>2, <3>3
  <2>2. CASE UNCHANGED reader /\ ~Clean'
    BY <1>6, <2>2
  <2>3. QED
    BY <1>5, <2>1, <2>2
<1>10. TypeOK'
  BY <1>1, <1>4, <1>5, <1>9 DEF TypeOK, Leaves
<1>11. ScriptOK'
  BY <1>1 DEF ScriptOK, Belongs, Turn, Searching, Busy
<1>12. IdOK'
  BY <1>1, <1>4 DEF IdOK, Searching, Busy
<1>13. FreshOK'
  <2> SUFFICES ASSUME host.kind = "begin", host.pc \in {"await", "body"} PROVE FreshOK'
    BY <1>1 DEF FreshOK
  <2>1. /\ \A i \in 1 .. Len(toFw) : ~toFw[i].old =>
             i = Len(toFw) /\ toFw[i].kind = "begin" /\ toFw[i].mask = host.mask
        /\ ~Begun /\ \A i \in 1 .. Len(reader) : reader[i].old
    BY <1>4 DEF FreshOK
  <2>2. \A i \in 1 .. Len(toFw') : ~toFw'[i].old =>
             i = Len(toFw') /\ toFw'[i].kind = "begin" /\ toFw'[i].mask = host'.mask
    <3> SUFFICES ASSUME NEW i \in 1 .. Len(toFw'), ~toFw'[i].old
                 PROVE  i = Len(toFw') /\ toFw'[i].kind = "begin" /\ toFw'[i].mask = host'.mask
      OBVIOUS
    <3>1. i + 1 = Len(toFw) /\ toFw[i + 1].kind = "begin" /\ toFw[i + 1].mask = host.mask
      BY <1>4, <2>1
    <3>2. QED
      BY <1>1, <1>4, <3>1
  <2>3. CASE r.old
    <3>1. \A i \in 1 .. Len(reader') : reader'[i].old
      BY <1>7, <1>9, <2>1, <2>3 DEF Tells
    <3>2. ~Begun'
      BY <1>1, <2>1 DEF Begun
    <3>3. QED
      BY <2>2, <3>1, <3>2 DEF FreshOK
  <2>4. CASE ~r.old
    <3>1. toFw' = <<>> /\ leased' = host.mask
      BY <1>2, <1>4, <1>5, <2>1, <2>4
    <3>2. QED
      BY <1>1, <2>2, <3>1 DEF FreshOK
  <2>5. QED
    BY <2>3, <2>4
<1>14. ASSUME ~host.tainted, Busy, host.kind \in Body
       PROVE  /\ toFw' = <<>> /\ r.kind = host.kind /\ r.bus = host.bus /\ r.id = host.id
              /\ reader = <<>> /\ host.resp = None /\ host.saw = FALSE /\ host.hits = {}
              /\ leased' = leased
  <2>1. Len(toFw) = 1 /\ Asked(toFw[1]) /\ ~Heard /\ host.hits = {}
    BY <1>4, <1>14 DEF ExchangeOK
  <2>2. r.kind = host.kind /\ r.bus = host.bus /\ r.id = host.id
    BY <1>2, <2>1 DEF Asked
  <2>3. host.saw = FALSE /\ host.resp = None /\ reader = <<>>
    BY <1>6, <2>1, RunningIs DEF Heard
  <2>4. QED
    BY <1>4, <1>5, <1>14, <2>1, <2>2, <2>3 DEF Body
<1>15. LeaseOK'
  BY <1>1, <1>14 DEF LeaseOK, Busy
<1>16. ExchangeOK'
  <2> SUFFICES ASSUME ~host.tainted, Busy, host.kind \in Body PROVE ExchangeOK'
    BY <1>1 DEF ExchangeOK, Busy
  <2>1. /\ toFw' = <<>> /\ r.kind = host.kind /\ r.bus = host.bus /\ r.id = host.id
        /\ reader = <<>> /\ host.resp = None /\ host.saw = FALSE /\ host.hits = {}
    BY <1>14
  <2>2. host' = host /\ (reader' = a \/ reader' = <<>>)
    BY <1>1, <1>9, <2>1
  <2>3. ASSUME host.kind \in Probes, NEW i \in 1 .. Len(reader'), reader'[i].found
        PROVE  /\ At(reader'[i].bus, reader'[i].disc) # {}
               /\ (fam = "RS" => host.begun) => reader'[i].bus \in host.mask
    <3>1. PICK j \in 1 .. Len(a) : reader'[i] = a[j]
      BY <1>9, <2>1
    <3>2. a[j].found => At(a[j].bus, a[j].disc) # {}
                        /\ (a[j].bus = host.bus \/ (Many(r) /\ a[j].bus \in leased))
      BY <1>7, <2>1, <2>3
    <3>4. host.bus \in host.mask
      BY DEF ScriptOK, Busy
    <3>5. Many(r) /\ Opened => leased \subseteq host.mask
      <4>1. Many(r) => fam = "RS"
        BY <2>1 DEF Many, ScriptOK, Belongs
      <4>2. QED
        BY <4>1 DEF Opened, LeaseOK
    <3>6. (fam = "RS" => host.begun) => a[j].bus \in host.mask
      BY <2>3, <3>1, <3>2, <3>4, <3>5 DEF Opened
    <3>7. QED
      BY <2>3, <3>1, <3>2, <3>6
  <2>4. ASSUME host.kind # "set", NEW d \in At(host.bus, host.id)' PROVE drv'[d].seen
    <3>1. d \in At(r.bus, r.id) /\ d \in Drives
      BY <1>8, <2>1, <2>2, <2>4 DEF At
    <3>2. QED
      BY <1>5, <2>1, <2>4, <3>1 DEF Leaves
  <2>5. ASSUME host.kind = "cali", NEW i \in 1 .. Len(reader'), reader'[i].mms = "cali",
               NEW d \in At(host.bus, host.id)'
        PROVE  drv'[d].spun
    <3>1. d \in At(r.bus, r.id) /\ d \in Drives
      BY <1>8, <2>1, <2>2, <2>5 DEF At
    <3>2. PICK j \in 1 .. Len(a) : reader'[i] = a[j]
      BY <1>9, <2>1
    <3>3. a[1].mms = "cali"
      BY <1>7, <2>1, <2>5, <3>2
    <3>4. QED
      BY <1>5, <2>1, <2>5, <3>1, <3>3 DEF Leaves
  <2>6. host.kind \in Probes => \A b, k : At(b, k)' = At(b, k)
    BY <1>8, <2>1 DEF Probes
  <2>7. host.kind \in Probes =>
          \A i \in 1 .. Len(reader') : reader'[i].found =>
             /\ At(reader'[i].bus, reader'[i].disc) # {}
             /\ (fam = "RS" => host.begun) => reader'[i].bus \in host.mask
    BY <2>3
  <2>8. (\A i \in 1 .. Len(reader) : Real(reader[i]))' <=>
          \A i \in 1 .. Len(reader') : reader'[i].found =>
             /\ (At(reader[i].bus, reader[i].disc) # {})'
             /\ (fam = "RS" => host.begun) => reader'[i].bus \in host.mask
    BY <1>1 DEF Real, RealAt, Opened
  <2>9. host.kind \in Probes => (\A i \in 1 .. Len(reader) : Real(reader[i]))'
    BY <2>6, <2>7, <2>8
  <2>10. QED
    BY <2>1, <2>2, <2>4, <2>5, <2>9 DEF ExchangeOK, Heard
<1>17. FoundOK'
  <2>1. HitsAreReal'
    <3> SUFFICES ASSUME ~host.tainted, fam = "RS" => host.begun, NEW x \in host.found
                 PROVE  At(x[1], x[2])' # {}
      BY <1>1 DEF HitsAreReal
    <3>1. r.kind # "set"
      BY <1>2, <1>4 DEF FoundOK, ScriptOK
    <3>2. At(x[1], x[2]) # {}
      BY DEF FoundOK, HitsAreReal
    <3>3. QED
      BY <1>8, <3>1, <3>2
  <2>2. QED
    BY <1>1, <1>4, <2>1 DEF FoundOK, Searching
<1>18. SureOK'
  <2>1. ASSUME NEW i \in 1 .. Len(toFw'), toFw'[i].sure, toFw'[i].kind \in {"save", "zero"}
        PROVE  /\ \A j \in 1 .. (i - 1) : toFw'[j].kind # "set"
               /\ \A b, k : At(b, k)' = At(b, k)
               /\ \A d \in At(toFw'[i].bus, toFw'[i].id) :
                    drv'[d].seen /\ (toFw'[i].kind = "zero" => drv'[d].spun)
    <3>1. i + 1 \in 1 .. Len(toFw) /\ toFw'[i] = toFw[i + 1] /\ 1 \in 1 .. ((i + 1) - 1)
      BY <1>4
    <3>2. \A j \in 1 .. (i - 1) : j + 1 \in 1 .. ((i + 1) - 1) /\ toFw'[j] = toFw[j + 1]
      BY <1>4
    <3>3. \A j \in 1 .. ((i + 1) - 1) : toFw[j].kind # "set"
      BY <2>1, <3>1 DEF SureOK
    <3>4. r.kind # "set"
      BY <1>2, <3>1, <3>3
    <3>5. \A d \in At(toFw'[i].bus, toFw'[i].id) : drv[d].seen /\ (toFw'[i].kind = "zero" => drv[d].spun)
      BY <2>1, <3>1 DEF SureOK
    <3>6. \A b, k : At(b, k) \subseteq Drives
      BY DEF At
    <3>7. QED
      BY <1>5, <1>8, <3>2, <3>3, <3>4, <3>5, <3>6 DEF Leaves
  <2>2. QED
    BY <2>1 DEF SureOK
<1>19. ASSUME Clean'
       PROVE  /\ Clean /\ host.pc = "await" /\ toFw' = <<>> /\ reader' = a /\ ~host.tainted
              /\ Turn(host.op, host.kind, host.ret) /\ host.op # "none"
              /\ r.kind = host.kind /\ r.bus = host.bus /\ r.id = host.id /\ r.hi = host.hi
              /\ r.mask = host.mask /\ host.saw = FALSE /\ host.hits = {}
  <2>1. Clean /\ (reader = <<>> => reader' = a)
    BY <1>9, <1>19
  <2>2. /\ ~host.tainted /\ host.pc = "await" /\ Len(toFw) = 1 /\ Asked(toFw[1])
        /\ toFw[1].mask = host.mask /\ ~Heard /\ host.hits = {}
    BY <1>4, <2>1 DEF CleanOK
  <2>3. host.saw = FALSE /\ reader = <<>>
    BY <1>6, <2>2, RunningIs DEF Heard
  <2>4. Turn(host.op, host.kind, host.ret) /\ host.op # "none"
    BY <2>2 DEF ScriptOK
  <2>5. QED
    BY <1>2, <1>4, <2>1, <2>2, <2>3, <2>4 DEF Asked
<1>20. CleanOK'
  <2> SUFFICES ASSUME Clean' PROVE CleanOK'
    BY DEF CleanOK
  <2>1. /\ Clean /\ host.pc = "await" /\ toFw' = <<>> /\ reader' = a /\ ~host.tainted
        /\ Turn(host.op, host.kind, host.ret) /\ host.op # "none"
        /\ r.kind = host.kind /\ r.bus = host.bus /\ r.id = host.id /\ r.hi = host.hi
        /\ r.mask = host.mask /\ host.saw = FALSE /\ host.hits = {}
    BY <1>19
  <2>2. host.op # "multi" => ~Many(r)
    BY <2>1, OneBus DEF Many
  <2>3. \A i \in 1 .. Len(a) : a[i].kind = host.kind /\ a[i].id = host.id
    BY <1>7, <2>1 DEF Tells
  <2>4. 1 \in 1 .. Len(a)
    BY <1>30
  <2>5. Answered'
    <3>1. CASE host.kind = "cali"
      BY <1>1, <1>7, <2>1, <3>1 DEF Answered, Collects, Probes
    <3>2. CASE Collects
      <4>1. host.op = "multi" /\ host.kind \in {"enable", "promisc"}
        BY <3>2 DEF Collects
      <4>2. \A b, i : At(b, i)' = At(b, i)
        BY <1>8, <2>1, <4>1
      <4>3. leased = host.mask /\ host.bus \in host.mask
        BY <2>1, <4>1 DEF CleanLease, ScriptOK
      <4>4. ASSUME NEW b \in host.mask, At(b, host.id) # {}
            PROVE  \E i \in 1 .. Len(a) : a[i].found /\ <<a[i].bus, a[i].disc>> = <<b, host.id>>
        <5>1. CASE Many(r)
          BY <1>7, <2>1, <4>3, <4>4, <5>1
        <5>2. CASE ~Many(r)
          <6>1. IsFiniteSet(leased)
            BY <1>6, BenchAssumption, FS_Subset
          <6>2. ~(Cardinality(leased) > 1)
            BY <2>1, <4>1, <5>2 DEF Many
          <6>3. leased = {host.bus}
            BY <4>3, <6>1, <6>2, FewBuses
          <6>4. b = host.bus
            BY <4>3, <6>3
          <6>5. QED
            BY <1>7, <2>1, <2>4, <4>1, <4>4, <5>2, <6>4
        <5>3. QED
          BY <5>1, <5>2
      <4>5. Collected(reader)'
        BY <1>1, <2>1, <2>3, <4>2, <4>4 DEF Collected
      <4>6. QED
        BY <1>1, <4>1, <4>5 DEF Answered, Collects
    <3>3. CASE host.kind \in Probes /\ host.op = "discover"
      <4>1. Len(a) = 1 /\ ~Many(r)
        BY <1>7, <2>2, <3>3, <2>1 DEF Probes
      <4>2. \A b, i : At(b, i)' = At(b, i)
        BY <1>8, <2>1, <3>3 DEF Probes
      <4>3. \A f : Exact(f)' <=> Exact(f)
        BY <1>1, <4>2, SameExact
      <4>4. Answering(r) = Answering(host)
        BY <2>1 DEF Answering
      <4>5. Exact(a[1])
        BY <1>7, <2>1, <2>3, <2>4, <3>3, <4>1, <4>4 DEF Exact, Probes
      <4>6. Exact(reader[1])'
        BY <2>1, <4>3, <4>5
      <4>7. QED
        BY <1>1, <2>1, <3>3, <4>1, <4>6 DEF Answered, Collects, Probes
    <3>4. CASE host.kind \in {"begin", "end"}
      <4>1. Len(a) = 1
        BY <1>7, <2>1, <3>4 DEF Many
      <4>2. QED
        BY <1>1, <2>1, <2>3, <2>4, <3>4, <4>1 DEF Answered, Collects, Probes
    <3>5. CASE host.kind \notin {"cali", "begin", "end"} /\ host.op \notin {"discover", "multi"}
      <4>1. Len(a) = 1
        BY <1>7, <2>1, <2>2, <3>5
      <4>2. QED
        BY <1>1, <2>1, <3>5, <4>1 DEF Answered, Collects
    <3>6. QED
      BY <2>1, <3>1, <3>2, <3>3, <3>4, <3>5, TurnIs DEF Collects
  <2>6. QED
    BY <1>1, <2>1, <2>5 DEF CleanOK
<1>21. CleanLease'
  <2> SUFFICES ASSUME Clean' PROVE CleanLease'
    BY DEF CleanLease
  <2>1. /\ Clean /\ host.pc = "await" /\ toFw' = <<>> /\ toFw # <<>>
        /\ Turn(host.op, host.kind, host.ret) /\ host.op # "none"
        /\ r.kind = host.kind /\ r.mask = host.mask
    BY <1>4, <1>19
  <2>2. host.kind \in {"begin", "end"} => host.op \notin NodeOps
    BY <2>1, TurnIs
  <2>3. leased' = (IF host.kind = "begin" THEN host.mask ELSE IF host.kind = "end" THEN {} ELSE leased)
    BY <1>5, <2>1
  <2>4. QED
    BY <1>1, <2>1, <2>2, <2>3 DEF CleanLease
<1>22. ProgressOK'
  <2> SUFFICES ASSUME Clean', Searching PROVE ProgressOK'
    BY <1>1 DEF ProgressOK, Searching
  <2>1. r.kind # "set" /\ Clean
    BY <1>19, TurnIs DEF Searching
  <2>2. \A d \in Drives : drv'[d].bus = drv[d].bus /\ drv'[d].id = drv[d].id
    BY <1>5, <2>1 DEF Leaves
  <2>3. \A b, n : Swept(b, n) <=> Swept(b, n)'
    BY <1>1, <2>2 DEF Swept
  <2>4. QED
    BY <1>1, <2>1, <2>3 DEF ProgressOK, Busy
<1>23. QED
  BY <1>10, <1>11, <1>12, <1>13, <1>15, <1>16, <1>17, <1>18, <1>20, <1>21, <1>22


-----------------------------------------------------------------------------
(* The operation waits, and stops waiting.                                 *)

\* What the operation has heard, it or the reader had before.
HeardBefore ==
  /\ \A i \in 1 .. Len(reader') : \E j \in 1 .. Len(reader) : reader'[i] = reader[j]
  /\ host'.resp # None =>
       host'.resp = host.resp \/ \E j \in 1 .. Len(reader) : host'.resp = reader[j]
  /\ host'.saw =>
       host.saw \/ (host.kind = "cali" /\ \E j \in 1 .. Len(reader) : reader[j].mms = "cali")
  /\ \A x \in host'.hits :
       x \in host.hits \/ \E j \in 1 .. Len(reader) :
                            reader[j].found /\ x = <<reader[j].bus, reader[j].disc>>

LEMMA WaitKeeps ==
  ASSUME IInv, host.pc = "await", host' \in Running, SameAsk(host, host'),
         UNCHANGED <<fam, drv, toFw, leased>>, reader' \in Seq(Frame), HeardBefore,
         used' \in [runs : Nat, lost : Nat, late : Nat, stops : Nat],
         host'.pc \in {"await", host.ret, "restore"} \/ (host'.pc = "end" /\ host.ret # "restore")
  PROVE  /\ TypeOK' /\ ScriptOK' /\ IdOK' /\ FreshOK' /\ LeaseOK' /\ ExchangeOK' /\ FoundOK' /\ SureOK'
         /\ Turn(host.op, host.kind, host.ret) /\ host.op # "none"
<1> USE DEF IInv
<1>1. /\ host'.op = host.op /\ host'.bus = host.bus /\ host'.lo = host.lo /\ host'.hi = host.hi
      /\ host'.new = host.new /\ host'.all = host.all /\ host'.cells = host.cells
      /\ host'.mask = host.mask /\ host'.kind = host.kind /\ host'.id = host.id
      /\ host'.ret = host.ret /\ host'.found = host.found /\ host'.begun = host.begun
      /\ host'.tainted = host.tainted /\ host'.cur = host.cur
  BY DEF SameAsk, SameOp
<1>2. \A b, i : At(b, i)' = At(b, i)
  BY SameDrives
<1>3. Turn(host.op, host.kind, host.ret) /\ host.op # "none"
  BY DEF ScriptOK
<1>4. /\ host.ret \notin {"idle", "await", "begin", "end"}
      /\ host.ret = "body" <=> host.kind = "begin"
      /\ host.op \in NodeOps => host.ret = "restore"
  BY <1>3, TurnIs
<1>5. host'.pc \notin {"idle", "begin"} /\ (host'.pc = "body" => host.kind = "begin")
      /\ (host'.pc = "end" => host.op \notin NodeOps)
  BY <1>4
<1>6. TypeOK'
  BY DEF TypeOK
<1>7. ScriptOK'
  <2>1. host'.pc \notin {"idle", "begin", "body", "end", "restore"}
          => Turn(host'.op, host'.kind, IF host'.pc = "await" THEN host'.ret ELSE host'.pc)
    BY <1>1, <1>3
  <2>2. host'.pc = "body" => host'.kind = IF host'.op \in NodeOps THEN "none" ELSE "begin"
    BY <1>1, <1>3, <1>4, <1>5
  <2>3. host.kind = "begin" => (fam = "RS" => host.found = {})
    BY DEF ScriptOK
  <2>4. (/\ host.op # "none" =>
             /\ host.bus \in host.all /\ Range(host.cells) \subseteq host.all
             /\ host.mask = IF host.op = "multi" THEN host.all ELSE {host.bus}
         /\ fam = "RS" \/ host.op \in NodeOps => host.cells = <<>>
         /\ host.found # {} \/ host.begun => Searching
         /\ Belongs(host.op, host.kind))'
    BY <1>1 DEF ScriptOK, Searching, Belongs
  <2>5. QED
    BY <1>1, <1>3, <1>5, <2>1, <2>2, <2>3, <2>4, Zenon DEF ScriptOK
<1>8. IdOK'
  BY <1>1, <1>3, <1>5 DEF IdOK, Searching, Busy, ScriptOK
<1>9. FreshOK'
  <2> SUFFICES ASSUME host.kind = "begin", host'.pc \in {"await", "body"} PROVE FreshOK'
    BY <1>1 DEF FreshOK
  <2>1. Begun' => Begun \/ \E j \in 1 .. Len(reader) : ~reader[j].old
    BY DEF Begun, HeardBefore
  <2>2. (\E i \in 1 .. Len(reader') : ~reader'[i].old) => \E j \in 1 .. Len(reader) : ~reader[j].old
    BY DEF HeardBefore
  <2>3. QED
    BY <1>1, <2>1, <2>2 DEF FreshOK
<1>10. LeaseOK'
  BY <1>1 DEF LeaseOK, Busy
<1>11. Heard' => Heard
  <2>1. ASSUME reader' # <<>> PROVE reader # <<>>
    <3>1. 1 \in 1 .. Len(reader')
      BY <2>1
    <3>2. QED
      BY <3>1 DEF HeardBefore, TypeOK
  <2>2. \A j \in 1 .. Len(reader) : reader # <<>>
    BY DEF TypeOK
  <2>3. QED
    BY <2>1, <2>2 DEF Heard, HeardBefore
<1>12. ExchangeOK'
  <2> SUFFICES ASSUME ~host.tainted, host.kind \in Body PROVE ExchangeOK'
    BY <1>1 DEF ExchangeOK
  <2>1. /\ \/ toFw = <<>>
           \/ Len(toFw) = 1 /\ Asked(toFw[1]) /\ ~Heard /\ host.hits = {}
        /\ host.kind \in Probes =>
             /\ \A i \in 1 .. Len(reader) : Real(reader[i])
             /\ host.resp # None => Real(host.resp)
             /\ \A x \in host.hits : RealAt(x)
        /\ host.kind # "set" /\ (Heard \/ host.kind = "zero")
             => \A d \in At(host.bus, host.id) : drv[d].seen
        /\ host.kind = "cali" /\ (host.saw \/ \E i \in 1 .. Len(reader) : reader[i].mms = "cali")
             => \A d \in At(host.bus, host.id) : drv[d].spun
    BY DEF ExchangeOK, Busy
  <2>2. \/ toFw' = <<>>
        \/ Len(toFw') = 1 /\ Asked(toFw[1])' /\ ~Heard' /\ host'.hits = {}
    <3>1. CASE toFw = <<>>
      BY <3>1
    <3>2. CASE Len(toFw) = 1 /\ Asked(toFw[1]) /\ ~Heard /\ host.hits = {}
      <4>1. \A j \in 1 .. Len(reader) : FALSE
        BY <3>2 DEF Heard
      <4>2. host'.hits = {}
        BY <3>2, <4>1 DEF HeardBefore
      <4>3. QED
        BY <1>1, <1>11, <3>2, <4>2 DEF Asked
    <3>3. QED
      BY <2>1, <3>1, <3>2
  <2>3. (\A x : RealAt(x)' <=> RealAt(x)) /\ (\A f : Real(f)' <=> Real(f))
    <3>1. \A x : RealAt(x)' <=> RealAt(x)
      BY <1>1, <1>2 DEF RealAt, Opened
    <3>2. QED
      BY <3>1 DEF Real
  <2>4. ASSUME host.kind \in Probes
        PROVE  /\ \A i \in 1 .. Len(reader') : Real(reader'[i])
               /\ host'.resp # None => Real(host'.resp)
               /\ \A x \in host'.hits : RealAt(x)
    <3>1. /\ \A i \in 1 .. Len(reader) : Real(reader[i])
          /\ host.resp # None => Real(host.resp)
          /\ \A x \in host.hits : RealAt(x)
      BY <2>1, <2>4
    <3>2. \A i \in 1 .. Len(reader') : Real(reader'[i])
      BY <3>1 DEF HeardBefore
    <3>3. ASSUME host'.resp # None PROVE Real(host'.resp)
      BY <3>1, <3>3 DEF HeardBefore
    <3>4. ASSUME NEW x \in host'.hits PROVE RealAt(x)
      <4>1. CASE x \in host.hits
        BY <3>1, <4>1
      <4>2. ASSUME NEW j \in 1 .. Len(reader), reader[j].found, x = <<reader[j].bus, reader[j].disc>>
            PROVE  RealAt(x)
        BY <3>1, <4>2 DEF Real
      <4>3. QED
        BY <4>1, <4>2 DEF HeardBefore
    <3>5. QED
      BY <3>2, <3>3, <3>4
  <2>5. host.kind \in Probes =>
          (/\ \A i \in 1 .. Len(reader) : Real(reader[i])
           /\ host.resp # None => Real(host.resp)
           /\ \A x \in host.hits : RealAt(x))'
    BY <2>3, <2>4
  <2>6. (host.kind # "set" /\ (Heard \/ host.kind = "zero")
             => \A d \in At(host.bus, host.id) : drv[d].seen)'
    BY <1>1, <1>2, <1>11, <2>1
  <2>7. (host.kind = "cali" /\ (host.saw \/ \E i \in 1 .. Len(reader) : reader[i].mms = "cali")
             => \A d \in At(host.bus, host.id) : drv[d].spun)'
    <3> SUFFICES ASSUME host.kind = "cali",
                        host'.saw \/ \E i \in 1 .. Len(reader') : reader'[i].mms = "cali"
                 PROVE  (\A d \in At(host.bus, host.id) : drv[d].spun)'
      BY <1>1
    <3>1. host.saw \/ \E i \in 1 .. Len(reader) : reader[i].mms = "cali"
      BY DEF HeardBefore
    <3>2. QED
      BY <1>1, <1>2, <2>1, <3>1
  <2>8. QED
    BY <1>1, <2>2, <2>5, <2>6, <2>7, Zenon DEF ExchangeOK
<1>13. FoundOK'
  BY <1>1, <1>2 DEF FoundOK, HitsAreReal, Searching
<1>14. SureOK'
  BY <1>2 DEF SureOK
<1>15. QED
  BY <1>3, <1>6, <1>7, <1>8, <1>9, <1>10, <1>12, <1>13, <1>14

\* The wait of an exchange nothing disturbed: its answer is there.
LEMMA GoesOn ==
  ASSUME IInv, Clean, host.pc = "await", toFw = <<>>, SameAsk(host, host'),
         UNCHANGED <<drv, toFw, leased>>, host'.pc \in {"await", host.ret}
  PROVE  CleanLease' /\ ProgressOK' /\ Answered /\ ~host.tainted
<1> USE DEF IInv
<1>1. /\ host'.op = host.op /\ host'.bus = host.bus /\ host'.lo = host.lo /\ host'.hi = host.hi
      /\ host'.new = host.new /\ host'.all = host.all /\ host'.cells = host.cells
      /\ host'.mask = host.mask /\ host'.kind = host.kind /\ host'.id = host.id
      /\ host'.ret = host.ret /\ host'.found = host.found /\ host'.begun = host.begun
      /\ host'.tainted = host.tainted /\ host'.cur = host.cur
  BY DEF SameAsk, SameOp
<1>2. Turn(host.op, host.kind, host.ret) /\ host.op # "none"
  BY DEF ScriptOK
<1>3. /\ host.ret \notin {"idle", "await", "begin", "end"}
      /\ host.ret = "body" <=> host.kind = "begin"
      /\ host.op \notin NodeOps => (host.ret = "restore" <=> host.kind = "end")
      /\ host.op \in NodeOps => host.ret = "restore" /\ host.kind \notin {"begin", "end"}
      /\ host.op = "multi" => host.op \notin NodeOps
      /\ Searching => host.op \notin NodeOps
  <2>1. host.op \in NodeOps => host.kind \notin {"begin", "end"}
    BY <1>2, TurnIs
  <2>2. QED
    BY <1>2, <2>1, TurnIs DEF NodeOps, Searching
<1>4. CleanLease'
  BY <1>1, <1>2, <1>3 DEF CleanLease
<1>5. ProgressOK'
  <2> SUFFICES ASSUME Searching PROVE ProgressOK'
    BY <1>1 DEF ProgressOK, Searching
  <2>1. \A b, n : Swept(b, n)' <=> Swept(b, n)
    BY <1>1 DEF Swept
  <2>2. QED
    BY <1>1, <1>3, <2>1 DEF ProgressOK, Busy
<1>6. Answered /\ ~host.tainted
  BY DEF CleanOK
<1>7. QED
  BY <1>4, <1>5, <1>6

LEMMA PopKeeps ==
  ASSUME IInv, Pop
  PROVE  IInv'
<1> USE DEF IInv
<1>1. /\ host.pc = "await" /\ reader # <<>> /\ reader[1] \in Frame
      /\ reader' \in Seq(Frame) /\ Len(reader) \in Nat \ {0} /\ Len(reader') = Len(reader) - 1
      /\ \A i \in 1 .. Len(reader') : reader'[i] = reader[i + 1]
      /\ reader' = <<>> <=> Len(reader) = 1
      /\ UNCHANGED <<fam, drv, toFw, leased, used>>
      /\ host' \in Running /\ SameAsk(host, host') /\ host'.pc \in {"await", host.ret}
      /\ host'.resp \in {host.resp, reader[1]}
      /\ host'.saw => host.saw \/ (host.kind = "cali" /\ reader[1].mms = "cali")
      /\ \A x \in host'.hits : x \in host.hits \/ (reader[1].found /\ x = <<reader[1].bus, reader[1].disc>>)
  BY PopIs
<1>2. HeardBefore
  <2>1. 1 \in 1 .. Len(reader) /\ \A i \in 1 .. Len(reader') : i + 1 \in 1 .. Len(reader)
    BY <1>1
  <2>2. QED
    BY <1>1, <2>1 DEF HeardBefore
<1>3. used \in [runs : Nat, lost : Nat, late : Nat, stops : Nat] /\ host \in Running
  BY DEF TypeOK
<1>4. /\ TypeOK' /\ ScriptOK' /\ IdOK' /\ FreshOK' /\ LeaseOK' /\ ExchangeOK' /\ FoundOK' /\ SureOK'
      /\ Turn(host.op, host.kind, host.ret) /\ host.op # "none"
  BY <1>1, <1>2, <1>3, WaitKeeps
<1>5. ASSUME Clean
      PROVE  toFw = <<>> /\ CleanLease' /\ ProgressOK' /\ Answered /\ ~host.tainted
  <2>1. toFw = <<>>
    BY <1>1, <1>5 DEF CleanOK, Heard
  <2>2. QED
    BY <1>1, <1>5, <2>1, GoesOn
<1>6. Clean' <=> Clean
  BY <1>1 DEF Clean
<1>7. CleanLease' /\ ProgressOK'
  BY <1>5, <1>6 DEF CleanLease, ProgressOK
<1>8. CleanOK'
  <2> SUFFICES ASSUME Clean PROVE CleanOK'
    BY <1>6 DEF CleanOK
  <2> DEFINE Done == /\ host'.pc # "await" => reader' = <<>>
                     /\ host'.pc = "await" => Answered'
                     /\ host.op = "discover" /\ host'.pc \in {"swept", "scanned", "enabled", "promised"}
                          => host'.resp # None /\ Exact(reader[1]) /\ host'.resp = reader[1]
                     /\ host.op = "multi" => host'.pc \notin {"enabled", "promised"}
  <2>1. /\ host'.op = host.op /\ host'.kind = host.kind /\ host'.id = host.id /\ host'.bus = host.bus
        /\ host'.hi = host.hi /\ host'.mask = host.mask /\ host'.ret = host.ret
        /\ host'.tainted = host.tainted
    BY <1>1 DEF SameAsk, SameOp
  <2>2. \A b, i : At(b, i)' = At(b, i)
    BY <1>1, SameDrives
  <2>3. toFw = <<>> /\ Answered /\ ~host.tainted
    BY <1>5
  <2>4. ASSUME host.kind = "cali" PROVE Done
    <3>1. WaitCali(reader[1])
      BY <1>1, <2>4, TailIs DEF Pop, TypeOK
    <3>2. host'.pc = "await" \/ host.saw
      BY <1>1, <1>3, <3>1, WaitCaliIs
    <3>3. host.op = "calibrate"
      BY <1>4, <2>4, TurnIs
    <3>4. Len(reader) <= 2 /\ (Len(reader) = 2 => ~host.saw)
      BY <2>3, <2>4 DEF Answered, Collects, Probes
    <3>5. Len(reader') <= 2 /\ Len(reader') # 2 /\ (host.saw => reader' = <<>>)
      BY <1>1, <3>4
    <3>6. Answered'
      BY <2>1, <2>4, <3>5 DEF Answered, Collects, Probes
    <3>7. QED
      BY <3>2, <3>3, <3>5, <3>6
  <2>5. ASSUME host.kind # "cali", Collects PROVE Done
    <3>1. ExchangeRawCollect(reader[1])
      BY <1>1, <2>5, TailIs DEF Pop, TypeOK
    <3>2. /\ host'.pc = "await"
          /\ host'.hits = IF Matches(reader[1]) /\ reader[1].found
                          THEN host.hits \cup {<<reader[1].bus, reader[1].disc>>} ELSE host.hits
      BY <1>1, <1>3, <3>1, CollectIs
    <3>3. host.op = "multi" /\ host.kind \in {"enable", "promisc"} /\ fam = "RS"
      BY <2>5 DEF Collects, ScriptOK, Belongs
    <3>4. Collected(reader)
      BY <2>3, <2>5, <3>3 DEF Answered
    <3>5. 1 \in 1 .. Len(reader) /\ reader[1].kind = host.kind /\ reader[1].id = host.id
      BY <1>1, <3>4 DEF Collected
    <3>6. Matches(reader[1])
      BY <3>3, <3>5 DEF Matches
    <3>7. \A i \in 1 .. Len(reader') : i + 1 \in 1 .. Len(reader)
      BY <1>1
    <3>8. \A i \in 1 .. Len(reader') : reader'[i].kind = host.kind /\ reader'[i].id = host.id
      <4>1. \A i \in 1 .. Len(reader) : reader[i].kind = host.kind /\ reader[i].id = host.id
        BY <3>4 DEF Collected
      <4>2. \A i \in 1 .. Len(reader') : reader'[i] = reader[i + 1]
        BY <1>1
      <4>3. QED
        BY <3>7, <4>1, <4>2
    <3>9. ASSUME NEW b \in host.mask, At(b, host.id) # {}
          PROVE  \/ <<b, host.id>> \in host'.hits
                 \/ \E i \in 1 .. Len(reader') :
                      reader'[i].found /\ <<reader'[i].bus, reader'[i].disc>> = <<b, host.id>>
      <4>1. CASE <<b, host.id>> \in host.hits
        BY <3>2, <4>1
      <4>2. ASSUME NEW i \in 1 .. Len(reader), reader[i].found,
                   <<reader[i].bus, reader[i].disc>> = <<b, host.id>>
            PROVE  \/ <<b, host.id>> \in host'.hits
                   \/ \E j \in 1 .. Len(reader') :
                        reader'[j].found /\ <<reader'[j].bus, reader'[j].disc>> = <<b, host.id>>
        <5>1. CASE i = 1
          BY <3>2, <3>6, <4>2, <5>1
        <5>2. CASE i # 1
          <6>1. (i - 1) \in 1 .. Len(reader') /\ reader'[i - 1] = reader[i]
            BY <1>1, <4>2, <5>2
          <6>2. QED
            BY <4>2, <6>1
        <5>3. QED
          BY <5>1, <5>2
      <4>3. QED
        BY <3>4, <3>9, <4>1, <4>2 DEF Collected
    <3>10. Collected(reader)'
      BY <2>1, <2>2, <3>8, <3>9 DEF Collected
    <3>11. Answered'
      <4>1. Collects' /\ host'.kind # "cali" /\ host'.op # "discover" /\ host'.kind \notin {"begin", "end"}
        BY <2>1, <3>3 DEF Collects
      <4>2. QED
        BY <3>10, <4>1 DEF Answered
    <3>12. QED
      BY <3>2, <3>11
  <2>6. ASSUME host.kind # "cali", ~Collects PROVE Done
    <3>1. ExchangeRaw(reader[1])
      BY <1>1, <2>6, TailIs DEF Pop, TypeOK
    <3>2. IF Matches(reader[1]) THEN host'.pc = host.ret /\ host'.resp = reader[1]
          ELSE host'.pc = host.pc /\ host'.resp = host.resp
      BY <1>1, <1>3, <3>1, ExchangeRawIs
    <3>3. host.op = "multi" => host.kind \in {"begin", "end"}
      BY <1>4, <2>6, TurnIs DEF Collects
    <3>4. host.op = "discover" => host.kind \in Probes \cup {"begin", "end"}
      BY <1>4, TurnIs
    <3>5. /\ host.ret = "body" <=> host.kind = "begin"
          /\ host.kind = "end" => host.ret = "restore"
          /\ host.ret # "await"
      BY <1>4, TurnIs
    <3>6. reader[1] # None
      BY <1>1, NoneAssumption
    <3>7. CASE host.kind \in Probes /\ host.op = "discover"
      <4>1. Len(reader) = 1 /\ Exact(reader[1])
        BY <2>3, <2>6, <3>7 DEF Answered, Probes
      <4>2. Matches(reader[1])
        BY <3>7, <4>1 DEF Matches, Exact, Probes
      <4>3. QED
        BY <1>1, <3>2, <3>5, <3>6, <3>7, <4>1, <4>2
    <3>8. CASE host.kind \in {"begin", "end"}
      <4>1. Len(reader) = 1 /\ reader[1].kind = host.kind
        BY <2>3, <2>6, <3>8 DEF Answered, Probes
      <4>2. Matches(reader[1])
        BY <3>8, <4>1 DEF Matches
      <4>3. QED
        BY <1>1, <3>2, <3>5, <3>8, <4>1, <4>2
    <3>9. CASE host.kind \notin {"begin", "end"} /\ host.op \notin {"discover", "multi"}
      <4>1. Len(reader) <= 1
        BY <2>3, <2>6, <3>9 DEF Answered
      <4>2. reader' = <<>> /\ Len(reader') <= 1
        BY <1>1, <4>1
      <4>3. Answered'
        BY <2>1, <2>6, <3>9, <4>2 DEF Answered, Collects
      <4>4. QED
        BY <3>9, <4>2, <4>3
    <3>10. QED
      BY <3>3, <3>4, <3>7, <3>8, <3>9
  <2>7. Done
    BY <2>4, <2>5, <2>6
  <2>8. \A f : Exact(f)' <=> Exact(f)
    BY <2>1, <2>2, SameExact
  <2>9. (host.op = "discover" /\ host.pc \in {"swept", "scanned", "enabled", "promised"}
           => host.resp # None /\ Exact(host.resp))'
    BY <2>1, <2>7, <2>8
  <2>10. QED
    BY <1>1, <2>1, <2>3, <2>7, <2>9 DEF CleanOK
<1>9. QED
  BY <1>4, <1>7, <1>8

LEMMA TimeoutKeeps ==
  ASSUME IInv, Timeout
  PROVE  IInv'
<1> USE DEF IInv
<1>1. /\ host.pc = "await" /\ reader = <<>> /\ UNCHANGED <<fam, drv, toFw, leased, reader>>
      /\ host' \in Running /\ SameAsk(host, host') /\ host'.pc = host.ret /\ host'.resp = host.resp
      /\ host'.saw = host.saw /\ host'.hits = host.hits
      /\ used' \in [runs : Nat, lost : Nat, late : Nat, stops : Nat]
      /\ Clean' => Clean /\ toFw = <<>>
  BY TimeoutIs
<1>2. HeardBefore /\ reader' \in Seq(Frame)
  BY <1>1 DEF HeardBefore, TypeOK
<1>3. /\ TypeOK' /\ ScriptOK' /\ IdOK' /\ FreshOK' /\ LeaseOK' /\ ExchangeOK' /\ FoundOK' /\ SureOK'
      /\ Turn(host.op, host.kind, host.ret) /\ host.op # "none"
  BY <1>1, <1>2, WaitKeeps
<1>4. ASSUME Clean' PROVE CleanLease' /\ ProgressOK' /\ Answered /\ ~host.tainted /\ toFw = <<>>
  BY <1>1, <1>4, GoesOn
<1>5. CleanLease' /\ ProgressOK'
  BY <1>4 DEF CleanLease, ProgressOK
<1>6. CleanOK'
  <2> SUFFICES ASSUME Clean' PROVE CleanOK'
    BY DEF CleanOK
  <2>1. Answered /\ ~host.tainted /\ toFw = <<>> /\ Len(reader) = 0
    BY <1>1, <1>4
  <2>2. ~(host.kind \in Probes /\ host.op = "discover") /\ host.kind \notin {"begin", "end"}
    BY <2>1 DEF Answered, Collects, Probes
  <2>3. host.op # "discover"
    BY <1>3, <2>2, TurnIs
  <2>4. ASSUME host.op = "multi" PROVE Collected(<<>>)'
    <3>1. Collects /\ host.kind # "cali"
      BY <1>3, <2>2, <2>4, TurnIs DEF Collects
    <3>2. Collected(<<>>)
      BY <1>1, <2>1, <3>1 DEF Answered
    <3>3. \A b, i : At(b, i)' = At(b, i)
      BY <1>1, SameDrives
    <3>4. QED
      BY <1>1, <3>2, <3>3 DEF Collected, SameAsk, SameOp
  <2>5. host.ret # "await"
    BY <1>3, TurnIs
  <2>6. QED
    BY <1>1, <2>1, <2>3, <2>4, <2>5 DEF CleanOK, SameAsk, SameOp
<1>7. QED
  BY <1>3, <1>5, <1>6

LEMMA InterruptKeeps ==
  ASSUME IInv, Interrupt \/ CalAborted
  PROVE  IInv'
<1> USE DEF IInv
<1>1. /\ host.pc = "await" /\ UNCHANGED <<fam, drv, toFw, leased, reader>>
      /\ host' \in Running /\ SameAsk(host, host') /\ host'.resp \in {None, host.resp}
      /\ host'.saw = host.saw /\ host'.hits = host.hits
      /\ used' \in [runs : Nat, lost : Nat, late : Nat, stops : Nat]
      /\ ~Clean'
      /\ host'.pc = "restore" \/ (host'.pc = "end" /\ host.ret # "restore")
  <2>1. CASE Interrupt
    BY <2>1, InterruptIs
  <2>2. CASE CalAborted
    <3>1. host.pc = "await" /\ host.kind = "cali"
      BY <2>2, CalAbortedIs
    <3>2. Turn(host.op, host.kind, host.ret)
      BY <3>1 DEF ScriptOK
    <3>3. host.ret = "spun"
      BY <3>1, <3>2, TurnIs
    <3>4. QED
      BY <2>2, <3>3, CalAbortedIs
  <2>3. QED
    BY <2>1, <2>2
<1>2. HeardBefore /\ reader' \in Seq(Frame)
  BY <1>1 DEF HeardBefore, TypeOK
<1>3. /\ TypeOK' /\ ScriptOK' /\ IdOK' /\ FreshOK' /\ LeaseOK' /\ ExchangeOK' /\ FoundOK' /\ SureOK'
  BY <1>1, <1>2, WaitKeeps
<1>4. CleanOK' /\ CleanLease' /\ ProgressOK'
  BY <1>1 DEF CleanOK, CleanLease, ProgressOK
<1>5. QED
  BY <1>3, <1>4

-----------------------------------------------------------------------------
(* Operations and their sessions start and end.                            *)

LEMMA StartKeeps ==
  ASSUME IInv, UserCommand
  PROVE  IInv'
<1> USE DEF IInv
<1>1. PICK op, cells, range, new : Startable(op, cells, range, new) /\ Start(op, cells, range, new)
  BY UserCommandIs
<1>2. /\ host.pc = "idle" /\ UNCHANGED <<fam, drv, toFw, leased, reader>>
      /\ host' \in Running /\ host'.op = op /\ host'.kind = host.kind /\ host'.id = host.id
      /\ host'.found = {} /\ host'.begun = FALSE /\ host'.tainted = FALSE /\ host'.resp = None
      /\ host'.lo = range[1] /\ host'.cur = range[1] /\ host'.hi = range[2] /\ host'.new = new
      /\ host'.all = Range(cells) /\ host'.bus = Head(cells) /\ Head(cells) \in Range(cells)
      /\ host'.cells = (IF op = "multi" THEN <<>> ELSE Tail(cells))
      /\ host'.mask = (IF op = "multi" THEN Range(cells) ELSE {Head(cells)})
      /\ host'.pc = (IF op \in NodeOps THEN "body" ELSE "begin")
      /\ Range(cells) = {Head(cells)} \cup Range(Tail(cells))
      /\ used' \in [runs : Nat, lost : Nat, late : Nat, stops : Nat] /\ (Clean' <=> Clean)
  BY <1>1, StartIs
<1>3. host.op = "none" /\ host'.kind = "none"
  BY <1>2 DEF ScriptOK
<1>4. /\ op \in Ops \ {"none"} /\ (op = "set_can_id" => new \in Ids)
      /\ op = "multi" => fam = "RS"
      /\ fam = "RS" \/ op \in NodeOps => op = "multi" \/ Tail(cells) = <<>>
      /\ Belongs(op, "none")
  BY <1>1 DEF Startable
<1>5. \A b, i : At(b, i)' = At(b, i)
  BY <1>2, SameDrives
<1>6. TypeOK'
  BY <1>2 DEF TypeOK
<1>7. Range(host'.cells) \subseteq host'.all /\ host'.all \subseteq Range(host'.cells) \cup host'.mask
  BY <1>2, EmptyRange
<1>8. op \in NodeOps => op \notin {"multi", "discover"}
  BY DEF NodeOps
<1>9. ScriptOK'
  <2>1. Belongs(host.op, host.kind)'
    BY <1>2, <1>3, <1>4 DEF Belongs
  <2>2. host'.op # "none" /\ host'.pc \in {"body", "begin"}
    BY <1>2, <1>4
  <2>3. fam' = "RS" \/ host'.op \in NodeOps => host'.cells = <<>>
    BY <1>2, <1>4
  <2>4. host'.pc = "body" => host'.op \in NodeOps
    BY <1>2
  <2>5. host'.pc = "begin" => host'.op \notin NodeOps
    BY <1>2
  <2>6. QED
    BY <1>2, <1>3, <1>7, <2>1, <2>2, <2>3, <2>4, <2>5 DEF ScriptOK
<1>10. IdOK'
  <2>1. host'.lo \in Nat /\ host'.cur = host'.lo
    BY <1>2, RunningIs DEF Ids
  <2>2. QED
    BY <1>2, <1>3, <1>4, <2>1 DEF IdOK, Probes, Body, Kinds
<1>11. FreshOK' /\ LeaseOK' /\ ExchangeOK'
  BY <1>2, <1>3 DEF FreshOK, LeaseOK, ExchangeOK, Body, Kinds
<1>12. FoundOK'
  BY <1>2 DEF FoundOK, HitsAreReal
<1>13. SureOK'
  BY <1>2, <1>5 DEF SureOK
<1>14. CleanOK'
  BY <1>2 DEF CleanOK
<1>15. CleanLease'
  <2> SUFFICES ASSUME Clean' PROVE CleanLease'
    BY DEF CleanLease
  <2>1. leased' = {}
    BY <1>2, <1>3 DEF CleanLease
  <2>2. QED
    BY <1>2, <1>4, <1>8, <2>1 DEF CleanLease
<1>16. ProgressOK'
  <2> SUFFICES ASSUME Searching' PROVE ProgressOK'
    BY DEF ProgressOK
  <2>1. host'.pc = "begin"
    BY <1>2, <1>8 DEF Searching
  <2>2. host'.lo \in Nat /\ host'.cur = host'.lo
    BY <1>2, RunningIs DEF Ids
  <2>3. ASSUME NEW b, NEW d \in Drives
        PROVE  drv'[d].id \notin host'.lo .. host'.cur - 1
    <3>1. drv' \in [Drives -> Drive]
      BY <1>6 DEF TypeOK
    <3>2. drv'[d].id \in Ids
      BY <3>1, DriveIs
    <3>3. drv'[d].id \in Nat
      BY <3>2 DEF Ids
    <3>4. QED
      BY <2>2, <3>3
  <2>4. \A b : Swept(b, host.cur - 1)'
    BY <2>3 DEF Swept
  <2>5. QED
    BY <1>2, <1>7, <2>1, <2>2, <2>4 DEF ProgressOK, Busy
<1>17. QED
  BY <1>6, <1>9, <1>10, <1>11, <1>12, <1>13, <1>14, <1>15, <1>16

LEMMA AskClean ==
  ASSUME IInv, NEW h \in Running, NEW kind \in Kinds, NEW id \in 0 .. MaxId, NEW new \in 0 .. MaxId,
         NEW drain \in BOOLEAN, NEW ret \in Steps, SameOp(host, h), h.tainted = host.tainted,
         host.pc # "await", Ask(h, kind, id, new, drain, ret)
  PROVE  /\ TypeOK' /\ CleanOK' /\ (Clean' <=> Clean) /\ SameOp(host, host')
         /\ UNCHANGED <<fam, drv, leased>> /\ toFw' # <<>>
<1> USE DEF IInv
<1>1. /\ Waits(host', h, kind, id, ret)
      /\ host'.tainted = (h.tainted \/ (/\ toFw # <<>> \/ (~drain /\ reader # <<>>)
                                        /\ kind \notin {"begin", "end"}))
  BY AskHost
<1>2. /\ Written(h, kind, id, new)
      /\ reader' = (IF drain THEN <<>> ELSE Older(reader)) /\ reader' \in Seq(Frame)
      /\ UNCHANGED <<fam, drv, leased, used>>
  BY AskFw
<1>3. TypeOK'
  BY <1>1, <1>2 DEF TypeOK, Written, Waits
<1>4. Clean' <=> Clean
  BY <1>2 DEF Clean
<1>5. /\ host'.op = host.op /\ host'.bus = host.bus /\ host'.hi = host.hi /\ host'.mask = host.mask
      /\ host'.pc = "await" /\ host'.kind = kind /\ host'.id = id
      /\ host'.resp = None /\ host'.hits = {} /\ host'.saw = FALSE /\ SameOp(host, host')
  BY <1>1 DEF Waits, SameOp
<1>6. CleanOK'
  <2> SUFFICES ASSUME Clean PROVE CleanOK'
    BY <1>4 DEF CleanOK
  <2>1. toFw = <<>> /\ reader = <<>> /\ host.tainted = FALSE
    BY RunningIs DEF CleanOK, TypeOK
  <2>2. reader' = <<>>
    BY <1>2, <2>1, OlderIs, EmptyIs
  <2>3. Len(toFw) = 0
    BY <2>1
  <2>4. /\ Len(toFw') = 1 /\ toFw'[1].kind = kind /\ toFw'[1].bus = host.bus /\ toFw'[1].id = id
        /\ toFw'[1].hi = host.hi /\ toFw'[1].mask = host.mask
    BY <1>2, <2>3 DEF Written, SameOp
  <2>5. host'.tainted = FALSE
    BY <1>1, <2>1
  <2>6. QED
    BY <1>5, <2>2, <2>4, <2>5 DEF CleanOK, Asked, Heard
<1>7. QED
  BY <1>2, <1>3, <1>4, <1>5, <1>6 DEF Written

\* No renumbering is under way, and the drive at this id has answered to it.
Safe(kind, id) ==
  /\ \A i \in 1 .. Len(toFw) : toFw[i].kind # "set"
  /\ \A d \in At(host.bus, id) : drv[d].seen /\ (kind = "zero" => drv[d].spun)

LEMMA AskSure ==
  ASSUME IInv, NEW h, NEW kind, NEW id, NEW new, Written(h, kind, id, new), UNCHANGED drv,
         h.bus = host.bus,
         kind \in {"save", "zero"} /\ ~h.tainted /\ h.kind # "set" => Safe(kind, id)
  PROVE  SureOK'
<1> USE DEF IInv
<1>1. \A b, i : At(b, i)' = At(b, i)
  BY SameDrives
<1>2. Len(toFw) \in Nat /\ Len(toFw') = Len(toFw) + 1
  BY DEF TypeOK, Written
<1>3. ASSUME NEW i \in 1 .. Len(toFw'), toFw'[i].sure, toFw'[i].kind \in {"save", "zero"}
      PROVE  /\ \A j \in 1 .. (i - 1) : toFw'[j].kind # "set"
             /\ \A d \in At(toFw'[i].bus, toFw'[i].id) :
                    drv[d].seen /\ (toFw'[i].kind = "zero" => drv[d].spun)
  <2>1. \A j \in 1 .. Len(toFw) : toFw'[j].kind = toFw[j].kind
    BY DEF Written, Aged
  <2>2. CASE i \in 1 .. Len(toFw)
    <3>1. /\ toFw[i].sure /\ toFw[i].kind = toFw'[i].kind /\ toFw[i].bus = toFw'[i].bus
          /\ toFw[i].id = toFw'[i].id
      BY <1>3, <2>2 DEF Written, Aged
    <3>2. \A j \in 1 .. (i - 1) : j \in 1 .. Len(toFw)
      BY <1>2, <2>2
    <3>3. QED
      BY <1>3, <2>1, <2>2, <3>1, <3>2 DEF SureOK
  <2>3. CASE i = Len(toFw) + 1
    <3>1. kind \in {"save", "zero"} /\ ~h.tainted /\ h.kind # "set" /\ toFw'[i].kind = kind
          /\ toFw'[i].bus = host.bus /\ toFw'[i].id = id
      BY <1>3, <2>3 DEF Written
    <3>2. \A j \in 1 .. (i - 1) : j \in 1 .. Len(toFw)
      BY <1>2, <2>3
    <3>3. QED
      BY <2>1, <3>1, <3>2 DEF Safe
  <2>4. QED
    BY <1>2, <2>2, <2>3
<1>4. QED
  BY <1>1, <1>3 DEF SureOK

LEMMA BeginKeeps ==
  ASSUME IInv, NEW drain \in BOOLEAN, host.pc = "begin", Ask(host, "begin", 0, 0, drain, "body")
  PROVE  IInv'
<1> USE DEF IInv
<1>1. /\ host \in Running /\ "begin" \in Kinds /\ "body" \in Steps /\ 0 \in 0 .. MaxId
      /\ reader \in Seq(Frame) /\ SameOp(host, host) /\ Len(toFw) \in Nat
  BY BenchAssumption DEF TypeOK, Kinds, Steps, SameOp
<1>2. /\ Waits(host', host, "begin", 0, "body") /\ host'.tainted = host.tainted
  BY <1>1, AskHost, RunningIs
<1>3. /\ Written(host, "begin", 0, 0)
      /\ reader' = (IF drain THEN <<>> ELSE Older(reader))
  BY <1>1, AskFw
<1>4. /\ TypeOK' /\ CleanOK' /\ (Clean' <=> Clean)
      /\ UNCHANGED <<fam, drv, leased>> /\ toFw' # <<>>
  BY <1>1, AskClean
<1>5. SureOK'
  BY <1>3, <1>4, AskSure
<1>6. /\ host'.op = host.op /\ host'.bus = host.bus /\ host'.lo = host.lo /\ host'.hi = host.hi
      /\ host'.new = host.new /\ host'.all = host.all /\ host'.cells = host.cells
      /\ host'.mask = host.mask /\ host'.found = host.found /\ host'.begun = host.begun
      /\ host'.cur = host.cur /\ host'.pc = "await" /\ host'.ret = "body" /\ host'.kind = "begin"
      /\ host'.resp = None
  BY <1>2 DEF Waits, SameOp
<1>7. host.op # "none" /\ host.op \notin NodeOps
  BY DEF ScriptOK
<1>8. ScriptOK'
  <2>1. Belongs(host.op, host.kind)'
    <3>1. fam' = fam /\ Belongs(host.op, host.kind)
      BY <1>4 DEF ScriptOK
    <3>2. Belongs(host.op, "begin")
      BY <3>1 DEF Belongs
    <3>3. QED
      BY <1>6, <3>1, <3>2 DEF Belongs
  <2>2. Turn(host.op, "begin", "body")
    BY <1>7 DEF Turn
  <2>3. Turn(host.op, host.kind, host.ret)'
    BY <1>6, <2>2 DEF Turn
  <2>4. QED
    BY <1>4, <1>6, <1>7, <2>1, <2>3 DEF ScriptOK, Searching
<1>9. \A i \in 1 .. Len(toFw') : IF i = Len(toFw) + 1 THEN toFw'[i].kind = "begin" /\ toFw'[i].mask = host.mask
                                 ELSE i \in 1 .. Len(toFw) /\ toFw'[i].old
  BY <1>1, <1>3 DEF Written, Aged
<1>10. \A i \in 1 .. Len(toFw') : toFw'[i].kind = "begin" \/ (i \in 1 .. Len(toFw) /\ toFw'[i].kind = toFw[i].kind)
  BY <1>1, <1>3 DEF Written, Aged
<1>11. IdOK'
  <2>1. \A i \in 1 .. Len(toFw') : toFw'[i].kind = "set" => toFw'[i].new \in Ids
    <3> SUFFICES ASSUME NEW i \in 1 .. Len(toFw'), toFw'[i].kind = "set" PROVE toFw'[i].new \in Ids
      OBVIOUS
    <3>1. i \in 1 .. Len(toFw) /\ toFw[i].kind = "set"
      BY <1>10
    <3>2. toFw'[i].new = toFw[i].new
      BY <3>1, <1>3 DEF Written
    <3>3. QED
      BY <3>1, <3>2 DEF IdOK
  <2>2. QED
    BY <1>6, <2>1 DEF IdOK, Probes, Body, Searching
<1>12. FreshOK'
  <2>1. \A i \in 1 .. Len(reader') : reader'[i].old
    BY <1>1, <1>3, OlderIs, EmptyIs DEF Aged
  <2>2. ~Begun'
    BY <1>6 DEF Begun
  <2>3. \A i \in 1 .. Len(toFw') : ~toFw'[i].old =>
           i = Len(toFw') /\ toFw'[i].kind = "begin" /\ toFw'[i].mask = host'.mask
    BY <1>3, <1>6, <1>9 DEF Written
  <2>4. QED
    BY <2>1, <2>2, <2>3 DEF FreshOK
<1>13. LeaseOK' /\ ExchangeOK'
  BY <1>6 DEF LeaseOK, ExchangeOK, Body
<1>14. \A b, i : At(b, i)' = At(b, i)
  BY <1>4, SameDrives
<1>15. FoundOK'
  <2>1. HitsAreReal'
    BY <1>2, <1>4, <1>6, <1>14 DEF FoundOK, HitsAreReal
  <2>2. QED
    BY <1>2, <1>6, <1>10, <2>1 DEF FoundOK, Searching
<1>16. CleanLease'
  BY <1>4, <1>6, <1>7 DEF CleanLease
<1>17. ProgressOK'
  <2>1. \A b, n : Swept(b, n)' <=> Swept(b, n)
    BY <1>4, <1>6 DEF Swept
  <2> SUFFICES ASSUME Clean, Searching PROVE ProgressOK'
    BY <1>4, <1>6 DEF ProgressOK, Searching
  <2>2. QED
    BY <1>4, <1>6, <2>1 DEF ProgressOK, Busy
<1>18. QED
  BY <1>4, <1>5, <1>8, <1>11, <1>12, <1>13, <1>15, <1>16, <1>17

LEMMA EndKeeps ==
  ASSUME IInv, NEW drain \in BOOLEAN, host.pc = "end", Ask(host, "end", 0, 0, drain, "restore")
  PROVE  IInv'
<1> USE DEF IInv
<1>1. /\ host \in Running /\ "end" \in Kinds /\ "restore" \in Steps /\ 0 \in 0 .. MaxId
      /\ reader \in Seq(Frame) /\ SameOp(host, host) /\ Len(toFw) \in Nat
  BY BenchAssumption DEF TypeOK, Kinds, Steps, SameOp
<1>2. /\ Waits(host', host, "end", 0, "restore") /\ host'.tainted = host.tainted
  BY <1>1, AskHost, RunningIs
<1>3. Written(host, "end", 0, 0)
  BY <1>1, AskFw
<1>4. /\ TypeOK' /\ CleanOK' /\ (Clean' <=> Clean)
      /\ UNCHANGED <<fam, drv, leased>> /\ toFw' # <<>>
  BY <1>1, AskClean
<1>5. SureOK'
  BY <1>3, <1>4, AskSure
<1>6. /\ host'.op = host.op /\ host'.bus = host.bus /\ host'.lo = host.lo /\ host'.hi = host.hi
      /\ host'.new = host.new /\ host'.all = host.all /\ host'.cells = host.cells
      /\ host'.mask = host.mask /\ host'.found = host.found /\ host'.begun = host.begun
      /\ host'.cur = host.cur /\ host'.pc = "await" /\ host'.ret = "restore" /\ host'.kind = "end"
      /\ host'.resp = None
  BY <1>2 DEF Waits, SameOp
<1>7. host.op # "none" /\ host.op \notin NodeOps
  BY DEF ScriptOK
<1>8. ScriptOK'
  <2>1. Belongs(host.op, host.kind)'
    <3>1. fam' = fam /\ Belongs(host.op, host.kind)
      BY <1>4 DEF ScriptOK
    <3>2. Belongs(host.op, "end")
      BY <3>1 DEF Belongs
    <3>3. QED
      BY <1>6, <3>1, <3>2 DEF Belongs
  <2>2. Turn(host.op, "end", "restore")
    BY <1>7 DEF Turn
  <2>3. Turn(host.op, host.kind, host.ret)'
    BY <1>6, <2>2 DEF Turn
  <2>4. QED
    BY <1>4, <1>6, <1>7, <2>1, <2>3 DEF ScriptOK, Searching
<1>9. \A i \in 1 .. Len(toFw') : toFw'[i].kind = "end" \/ (i \in 1 .. Len(toFw) /\ toFw'[i].kind = toFw[i].kind)
  BY <1>1, <1>3 DEF Written, Aged
<1>10. IdOK'
  <2>1. \A i \in 1 .. Len(toFw') : toFw'[i].kind = "set" => toFw'[i].new \in Ids
    <3> SUFFICES ASSUME NEW i \in 1 .. Len(toFw'), toFw'[i].kind = "set" PROVE toFw'[i].new \in Ids
      OBVIOUS
    <3>1. i \in 1 .. Len(toFw) /\ toFw[i].kind = "set"
      BY <1>9
    <3>2. toFw'[i].new = toFw[i].new
      BY <3>1, <1>3 DEF Written
    <3>3. QED
      BY <3>1, <3>2 DEF IdOK
  <2>2. QED
    BY <1>6, <2>1 DEF IdOK, Probes, Body, Searching
<1>11. FreshOK' /\ LeaseOK' /\ ExchangeOK'
  BY <1>6 DEF FreshOK, LeaseOK, ExchangeOK, Body
<1>12. \A b, i : At(b, i)' = At(b, i)
  BY <1>4, SameDrives
<1>13. FoundOK'
  <2>1. HitsAreReal'
    BY <1>2, <1>4, <1>6, <1>12 DEF FoundOK, HitsAreReal
  <2>2. QED
    BY <1>2, <1>6, <1>9, <2>1 DEF FoundOK, Searching
<1>14. CleanLease'
  BY <1>4, <1>6, <1>7 DEF CleanLease
<1>15. ProgressOK'
  <2>1. \A b, n : Swept(b, n)' <=> Swept(b, n)
    BY <1>4, <1>6 DEF Swept
  <2> SUFFICES ASSUME Clean, Searching PROVE ProgressOK'
    BY <1>4, <1>6 DEF ProgressOK, Searching
  <2>2. QED
    BY <1>4, <1>6, <2>1 DEF ProgressOK, Busy
<1>16. QED
  BY <1>4, <1>5, <1>8, <1>10, <1>11, <1>13, <1>14, <1>15

LEMMA RestoreKeeps ==
  ASSUME IInv, Restore
  PROVE  IInv'
<1> USE DEF IInv
<1>1. /\ host.pc = "restore" /\ UNCHANGED <<fam, drv, toFw, leased, reader, used>> /\ host' \in Running
      /\ \/ host' \in {Idle(on) : on \in BOOLEAN}
         \/ /\ host.cells # <<>> /\ host'.op = host.op /\ host'.kind = host.kind /\ host'.id = host.id
            /\ host'.found = host.found /\ host'.begun = host.begun /\ host'.tainted = host.tainted
            /\ host'.lo = host.lo /\ host'.hi = host.hi /\ host'.new = host.new
            /\ host'.all = host.all /\ host'.pc = "begin" /\ host'.cur = host.lo
            /\ host'.resp = None /\ host'.mask = {host'.bus}
            /\ Range(host.cells) = {host'.bus} \cup Range(host'.cells)
  BY RestoreIs
<1>2. TypeOK' /\ (Clean' <=> Clean)
  BY <1>1 DEF TypeOK, Clean
<1>3. \A b, i : At(b, i)' = At(b, i)
  BY <1>1, SameDrives
<1>4. SureOK'
  BY <1>1, <1>3 DEF SureOK
<1>5. CleanOK'
  <2> SUFFICES ASSUME Clean PROVE CleanOK'
    BY <1>2 DEF CleanOK
  <2>1. toFw' = <<>> /\ reader' = <<>> /\ host.tainted = FALSE
    BY <1>1, RunningIs DEF CleanOK, TypeOK
  <2>2. host'.pc \in {"idle", "begin"} /\ host'.tainted = FALSE
    BY <1>1, <2>1, IdleIs
  <2>3. QED
    BY <2>1, <2>2 DEF CleanOK
<1>6. CASE host' \in {Idle(on) : on \in BOOLEAN}
  <2>1. /\ host'.pc = "idle" /\ host'.op = "none" /\ host'.kind = "none" /\ host'.found = {}
        /\ host'.begun = FALSE
        /\ host'.cells = <<>>
    BY <1>6, IdleIs
  <2>2. ~Searching' /\ Range(<<>>) = {}
    BY <2>1, EmptyRange DEF Searching
  <2>3. ScriptOK'
    <3>1. Belongs(host.op, host.kind)'
      BY <2>1 DEF Belongs, NodeOps
    <3>2. QED
      BY <2>1, <2>2, <3>1 DEF ScriptOK, NodeOps
  <2>4. IdOK'
    <3>1. \A i \in 1 .. Len(toFw') : toFw'[i].kind = "set" => toFw'[i].new \in Ids
      BY <1>1 DEF IdOK
    <3>2. QED
      BY <2>1, <2>2, <3>1 DEF IdOK
  <2>5. FreshOK' /\ LeaseOK' /\ ExchangeOK'
    BY <2>1 DEF FreshOK, LeaseOK, ExchangeOK, Busy
  <2>6. FoundOK'
    BY <2>1 DEF FoundOK, HitsAreReal
  <2>7. CleanLease'
    <3> SUFFICES ASSUME Clean PROVE CleanLease'
      BY <1>2 DEF CleanLease
    <3>1. leased' = {}
      BY <1>1 DEF CleanLease
    <3>2. QED
      BY <2>1, <3>1 DEF CleanLease
  <2>8. ProgressOK'
    BY <2>2 DEF ProgressOK
  <2>9. QED
    BY <1>2, <1>4, <1>5, <2>3, <2>4, <2>5, <2>6, <2>7, <2>8
<1>7. CASE /\ host.cells # <<>> /\ host'.op = host.op /\ host'.kind = host.kind /\ host'.id = host.id
           /\ host'.found = host.found /\ host'.begun = host.begun /\ host'.tainted = host.tainted
           /\ host'.lo = host.lo /\ host'.hi = host.hi /\ host'.new = host.new
           /\ host'.all = host.all /\ host'.pc = "begin" /\ host'.cur = host.lo
           /\ host'.resp = None /\ host'.mask = {host'.bus}
           /\ Range(host.cells) = {host'.bus} \cup Range(host'.cells)
  <2>1. fam # "RS" /\ host.op \notin NodeOps /\ host.op \notin {"none", "multi"}
    <3>1. fam # "RS" /\ host.op \notin NodeOps /\ host.op # "none" /\ Belongs(host.op, host.kind)
      BY <1>1, <1>7 DEF ScriptOK
    <3>2. QED
      BY <3>1 DEF Belongs, NodeOps
  <2>2. /\ host'.bus \in host'.all /\ Range(host'.cells) \subseteq host'.all
        /\ host.mask = {host.bus} /\ host.bus \in host.all
    BY <1>7, <2>1 DEF ScriptOK
  <2>3. ScriptOK'
    <3>1. Belongs(host.op, host.kind)'
      BY <1>1, <1>7 DEF ScriptOK, Belongs
    <3>2. host'.found # {} \/ host'.begun => Searching'
      BY <1>1, <1>7 DEF ScriptOK, Searching
    <3>3. QED
      BY <1>1, <1>7, <2>1, <2>2, <3>1, <3>2 DEF ScriptOK
  <2>4. IdOK'
    <3>1. \A i \in 1 .. Len(toFw') : toFw'[i].kind = "set" => toFw'[i].new \in Ids
      BY <1>1 DEF IdOK
    <3>2. host'.op = "set_can_id" => host'.new \in Ids
      BY <1>1, <1>7 DEF IdOK
    <3>3. host'.op = "set_can_id" /\ host'.kind = "enable" => host'.id = host'.new
      BY <1>1, <1>7 DEF IdOK
    <3>4. host'.op = "calibrate" /\ host'.kind \in Body => host'.id = host'.lo
      BY <1>1, <1>7 DEF IdOK
    <3>5. host'.lo <= host'.cur
      BY <1>7, RunningIs DEF TypeOK, Ids
    <3>6. QED
      BY <1>7, <3>1, <3>2, <3>3, <3>4, <3>5 DEF IdOK, Busy
  <2>5. FreshOK' /\ LeaseOK' /\ ExchangeOK'
    BY <1>7 DEF FreshOK, LeaseOK, ExchangeOK, Busy
  <2>6. FoundOK'
    BY <1>1, <1>3, <1>7 DEF FoundOK, HitsAreReal, Searching
  <2>7. CleanLease'
    <3> SUFFICES ASSUME Clean PROVE CleanLease'
      BY <1>2 DEF CleanLease
    <3>1. leased' = {}
      BY <1>1 DEF CleanLease
    <3>2. QED
      BY <1>7, <2>1, <3>1 DEF CleanLease
  <2>8. ProgressOK'
    <3> SUFFICES ASSUME Clean, Searching PROVE ProgressOK'
      BY <1>2, <1>7 DEF ProgressOK, Searching
    <3>1. \A b, n : Swept(b, n)' <=> Swept(b, n)
      BY <1>1, <1>7 DEF Swept
    <3>2. \A b \in host.all \ (Range(host.cells) \cup host.mask) : Swept(b, host.hi)
      BY DEF ProgressOK
    <3>3. \A b \in host.mask : Swept(b, host.hi)
      BY <1>1 DEF ProgressOK
    <3>4. \A b : Swept(b, host.lo - 1)
      <4>1. host.lo \in Nat /\ drv \in [Drives -> Drive]
        BY RunningIs DEF TypeOK, Ids
      <4>2. \A d \in Drives : drv[d].id \notin host.lo .. (host.lo - 1)
        BY <4>1, DriveIs DEF Ids
      <4>3. QED
        BY <4>2 DEF Swept
    <3>5. \A b \in host'.all \ (Range(host'.cells) \cup host'.mask) : Swept(b, host.hi)
      BY <1>7, <3>2, <3>3
    <3>6. QED
      BY <1>7, <3>1, <3>4, <3>5 DEF ProgressOK, Busy
  <2>9. QED
    BY <1>2, <1>4, <1>5, <2>3, <2>4, <2>5, <2>6, <2>7, <2>8
<1>8. QED
  BY <1>1, <1>6, <1>7

-----------------------------------------------------------------------------
(* The steps between the exchanges of an operation.                        *)

\* The operation with what it has made of the last reply.
Ahead(h) ==
  /\ h \in Running /\ SameOp(host, h) /\ h.tainted = host.tainted /\ h.kind = host.kind
  /\ h.id = host.id /\ h.ret = host.ret /\ h.resp = host.resp /\ h.saw = host.saw
  /\ h.hits = host.hits

\* What it reports stays true.
Stays(h) ==
  /\ host.found \subseteq h.found
  /\ h.found # {} \/ h.begun => Searching
  /\ Searching => host.lo <= h.cur
  /\ ~host.tainted /\ (fam = "RS" => h.begun) => \A x \in h.found : At(x[1], x[2]) # {}
  /\ ~host.tainted /\ h.begun /\ fam = "RS" => leased \subseteq host.mask

\* The drives of the bus, or buses, it works on have been reported up to id n.
SweptBy(h, n) ==
  Clean /\ Searching =>
    \A b \in host.mask : \A d \in Drives :
      drv[d].bus = b /\ drv[d].id \in host.lo .. n => <<b, drv[d].id>> \in h.found

\* The next request is one of this operation.
Fits(h, kind, id, new, ret) ==
  /\ Turn(host.op, kind, ret) /\ Belongs(host.op, kind)
  /\ Searching => id = h.cur /\ id \in host.lo .. host.hi
  /\ host.op = "set_can_id" /\ kind = "enable" => id = host.new
  /\ kind = "set" => new \in Ids
  /\ host.op = "calibrate" => id = host.lo
  /\ kind \in {"save", "zero"} /\ ~host.tainted /\ (host.kind = "set" => kind = "zero") => Safe(kind, id)
  /\ SweptBy(h, IF kind = "scan" THEN host.hi ELSE h.cur - 1)

LEMMA AskKeeps ==
  ASSUME IInv, host.pc \notin {"idle", "await", "begin", "end", "restore"},
         NEW h, Ahead(h), Stays(h),
         NEW kind \in Body, NEW id \in 0 .. MaxId, NEW new \in 0 .. MaxId, NEW ret \in Steps,
         Fits(h, kind, id, new, ret), Ask(h, kind, id, new, TRUE, ret)
  PROVE  IInv'
<1> USE DEF IInv
<1>1. /\ h \in Running /\ kind \in Kinds \ {"begin", "end"} /\ SameOp(host, h)
      /\ h.tainted = host.tainted /\ Len(toFw) \in Nat /\ h.bus = host.bus
      /\ h.kind = host.kind
  BY DEF Ahead, Body, TypeOK, SameOp
<1>2. /\ Waits(host', h, kind, id, ret) /\ host'.tainted = (host.tainted \/ toFw # <<>>)
  BY <1>1, AskHost
<1>3. Written(h, kind, id, new) /\ reader' = <<>>
  BY <1>1, AskFw
<1>4. /\ TypeOK' /\ CleanOK' /\ (Clean' <=> Clean)
      /\ UNCHANGED <<fam, drv, leased>>
  BY <1>1, AskClean
<1>5. SureOK'
  BY <1>1, <1>3, <1>4, AskSure DEF Fits
<1>6. /\ host'.op = host.op /\ host'.bus = host.bus /\ host'.lo = host.lo /\ host'.hi = host.hi
      /\ host'.new = host.new /\ host'.all = host.all /\ host'.cells = host.cells
      /\ host'.mask = host.mask /\ host'.found = h.found /\ host'.begun = h.begun
      /\ host'.cur = h.cur /\ host'.pc = "await" /\ host'.ret = ret /\ host'.kind = kind
      /\ host'.id = id /\ host'.resp = None /\ host'.hits = {} /\ host'.saw = FALSE
  BY <1>1, <1>2 DEF Waits, SameOp
<1>7. host.op # "none" /\ kind \notin {"begin", "end"} /\ kind \in Kinds
  BY <1>1 DEF ScriptOK
<1>8. ScriptOK'
  <2>1. Belongs(host.op, host.kind)'
    BY <1>4, <1>6 DEF Fits, Belongs
  <2>2. Turn(host.op, host.kind, host.ret)'
    BY <1>6 DEF Fits, Turn
  <2>3. host'.found # {} \/ host'.begun => Searching'
    BY <1>6 DEF Stays, Searching
  <2>4. QED
    BY <1>4, <1>6, <1>7, <2>1, <2>2, <2>3 DEF ScriptOK
<1>9. \A i \in 1 .. Len(toFw') :
        IF i = Len(toFw) + 1
        THEN /\ toFw'[i].kind = kind /\ toFw'[i].bus = host.bus /\ toFw'[i].id = id
             /\ toFw'[i].hi = host.hi /\ toFw'[i].new = new
        ELSE i \in 1 .. Len(toFw) /\ toFw'[i].kind = toFw[i].kind /\ toFw'[i].new = toFw[i].new
  BY <1>1, <1>3 DEF Written, Aged, SameOp
<1>10. IdOK'
  <2>1. \A i \in 1 .. Len(toFw') : toFw'[i].kind = "set" => toFw'[i].new \in Ids
    BY <1>9 DEF IdOK, Fits
  <2>2. host'.op = "set_can_id" => host'.new \in Ids
    BY <1>6 DEF IdOK
  <2>3. Searching => host'.lo <= host'.cur /\ host'.id = host'.cur /\ host'.cur \in host'.lo .. host'.hi
    BY <1>6 DEF Stays, Fits
  <2>4. Searching' <=> Searching
    BY <1>6 DEF Searching
  <2>5. /\ host'.op = "set_can_id" /\ host'.kind = "enable" => host'.id = host'.new
        /\ host'.op = "calibrate" => host'.id = host'.lo
    BY <1>6 DEF Fits
  <2>6. QED
    BY <2>1, <2>2, <2>3, <2>4, <2>5 DEF IdOK
<1>11. FreshOK' /\ LeaseOK'
  BY <1>2, <1>4, <1>6, <1>7 DEF FreshOK, LeaseOK, Stays
<1>12. \A b, i : At(b, i)' = At(b, i)
  BY <1>4, SameDrives
<1>13. ExchangeOK'
  <2> SUFFICES ASSUME ~host'.tainted PROVE ExchangeOK'
    BY DEF ExchangeOK
  <2>1. toFw = <<>> /\ Len(toFw) = 0 /\ ~host.tainted
    <3>1. toFw = <<>> /\ ~host.tainted
      BY <1>2, Zenon
    <3>2. QED
      BY <3>1
  <2>2. Len(toFw') = 1 /\ Asked(toFw[1])'
    BY <1>3, <1>6, <1>9, <2>1 DEF Written, Asked
  <2>3. ~Heard' /\ reader' = <<>>
    BY <1>3, <1>6 DEF Heard
  <2>4. kind = "zero" => \A d \in At(host.bus, id) : drv[d].seen
    BY <2>1 DEF Fits, Safe
  <2>5. \A i \in 1 .. Len(reader') : FALSE
    BY <2>3
  <2>6. QED
    BY <1>4, <1>6, <1>12, <2>2, <2>3, <2>4, <2>5 DEF ExchangeOK
<1>14. FoundOK'
  <2>1. HitsAreReal'
    BY <1>2, <1>4, <1>6, <1>12 DEF Stays, HitsAreReal
  <2> SUFFICES ASSUME ~host'.tainted, Searching' PROVE \A i \in 1 .. Len(toFw') : toFw'[i].kind # "set"
    BY <2>1 DEF FoundOK
  <2>2. kind # "set"
    BY <1>6, TurnIs DEF Fits, Searching
  <2>3. toFw = <<>>
    BY <1>2, Zenon
  <2>4. QED
    BY <1>9, <2>2, <2>3
<1>15. CleanLease'
  <2> SUFFICES ASSUME Clean PROVE CleanLease'
    BY <1>4 DEF CleanLease
  <2>1. host.op \in NodeOps => leased = {}
    BY DEF CleanLease
  <2>2. leased \subseteq host.mask
    BY DEF CleanLease
  <2>3. host.op = "multi" => leased = host.mask
    BY DEF CleanLease
  <2>4. QED
    BY <1>4, <1>6, <1>7, <2>1, <2>2, <2>3 DEF CleanLease
<1>16. ProgressOK'
  <2> SUFFICES ASSUME Clean, Searching PROVE ProgressOK'
    BY <1>4, <1>6 DEF ProgressOK, Searching
  <2>1. \A b, n : Swept(b, n) => Swept(b, n)'
    BY <1>4, <1>6 DEF Swept, Stays
  <2>2. \A b \in host.all \ (Range(host.cells) \cup host.mask) : Swept(b, host.hi)'
    BY <1>4, <1>6, <2>1 DEF ProgressOK
  <2>3. \A b \in host.mask : Swept(b, IF kind = "scan" THEN host.hi ELSE host.cur - 1)'
    BY <1>4, <1>6 DEF Fits, SweptBy, Swept
  <2>4. QED
    BY <1>6, <1>7, <2>2, <2>3 DEF ProgressOK, Busy
<1>17. QED
  BY <1>4, <1>5, <1>8, <1>10, <1>11, <1>13, <1>14, <1>15, <1>16

LEMMA LeaveKeeps ==
  ASSUME IInv, host.pc \notin {"idle", "await", "begin", "end", "restore"}, host.op \notin NodeOps,
         NEW h, Ahead(h), Stays(h), SweptBy(h, host.hi),
         host.kind \in Body \/ h.found = host.found,
         host.kind \in Body => h.begun = host.begun,
         Leave(h)
  PROVE  IInv'
<1> USE DEF IInv
<1>1. /\ UNCHANGED <<fam, drv, toFw, leased, reader, used>>
      /\ host' \in Running /\ SameAsk(h, host') /\ host'.pc = "end" /\ host'.resp = h.resp
      /\ host'.saw = h.saw /\ host'.hits = h.hits
  BY LeaveIs DEF Ahead
<1>2. /\ host'.op = host.op /\ host'.bus = host.bus /\ host'.lo = host.lo /\ host'.hi = host.hi
      /\ host'.new = host.new /\ host'.all = host.all /\ host'.cells = host.cells
      /\ host'.mask = host.mask /\ host'.found = h.found /\ host'.begun = h.begun
      /\ host'.cur = h.cur /\ host'.pc = "end" /\ host'.kind = host.kind
      /\ host'.id = host.id /\ host'.resp = host.resp /\ host'.hits = host.hits
      /\ host'.saw = host.saw /\ host'.tainted = host.tainted
  BY <1>1 DEF SameAsk, SameOp, Ahead
<1>3. TypeOK' /\ (Clean' <=> Clean)
  BY <1>1 DEF TypeOK, Clean
<1>4. \A b, i : At(b, i)' = At(b, i)
  BY <1>1, SameDrives
<1>5. host.op # "none" /\ (Searching' <=> Searching)
  BY <1>2 DEF ScriptOK, Searching
<1>6. ScriptOK'
  <2>1. Belongs(host.op, host.kind)'
    BY <1>1, <1>2 DEF ScriptOK, Belongs
  <2>2. host'.found # {} \/ host'.begun => Searching'
    BY <1>2, <1>5 DEF Stays
  <2>3. QED
    BY <1>1, <1>2, <1>5, <2>1, <2>2 DEF ScriptOK
<1>7. IdOK'
  <2>1. \A i \in 1 .. Len(toFw') : toFw'[i].kind = "set" => toFw'[i].new \in Ids
    BY <1>1 DEF IdOK
  <2>2. /\ host'.op = "set_can_id" => host'.new \in Ids
        /\ host'.op = "set_can_id" /\ host'.kind = "enable" => host'.id = host'.new
        /\ host'.op = "calibrate" /\ host'.kind \in Body => host'.id = host'.lo
    BY <1>2 DEF IdOK
  <2>3. Searching => host'.lo <= host'.cur
    BY <1>2 DEF Stays
  <2>4. QED
    BY <1>2, <1>5, <2>1, <2>2, <2>3 DEF IdOK
<1>8. FreshOK' /\ LeaseOK'
  BY <1>1, <1>2 DEF FreshOK, LeaseOK, Stays
<1>9. ExchangeOK'
  <2> SUFFICES ASSUME ~host.tainted, host.kind \in Body PROVE ExchangeOK'
    BY <1>2 DEF ExchangeOK
  <2>1. Busy
    BY DEF Busy
  <2>2. /\ \A r : Asked(r)' <=> Asked(r)
        /\ Heard' <=> Heard
    BY <1>1, <1>2 DEF Asked, Heard
  <2>3. \A x : RealAt(x)' <=> RealAt(x)
    BY <1>1, <1>2, <1>4 DEF RealAt, Opened
  <2>4. \A f : Real(f)' <=> Real(f)
    BY <2>3 DEF Real
  <2>5. Asked(toFw[1])' <=> Asked(toFw[1])
    BY <1>1, <1>2 DEF Asked
  <2>6. (host.kind \in Probes =>
           /\ \A i \in 1 .. Len(reader) : Real(reader[i])
           /\ host.resp # None => Real(host.resp)
           /\ \A x \in host.hits : RealAt(x))'
    <3>1. host.kind \in Probes =>
           /\ \A i \in 1 .. Len(reader) : Real(reader[i])
           /\ host.resp # None => Real(host.resp)
           /\ \A x \in host.hits : RealAt(x)
      BY <2>1 DEF ExchangeOK
    <3>2. QED
      BY <1>1, <1>2, <3>1, <2>3, <2>4
  <2>7. (\/ toFw = <<>>
         \/ Len(toFw) = 1 /\ Asked(toFw[1]) /\ ~Heard /\ host.hits = {})'
    BY <1>1, <1>2, <2>1, <2>2, <2>5 DEF ExchangeOK
  <2>8. QED
    BY <1>1, <1>2, <1>4, <2>1, <2>2, <2>6, <2>7 DEF ExchangeOK
<1>10. FoundOK'
  <2>1. HitsAreReal'
    BY <1>1, <1>2, <1>4 DEF Stays, HitsAreReal
  <2> SUFFICES ASSUME ~host.tainted, Searching, h.found # {}
               PROVE  \A i \in 1 .. Len(toFw) : toFw[i].kind # "set"
    BY <1>1, <1>2, <1>5, <2>1 DEF FoundOK
  <2>2. CASE host.kind \in Body
    <3>1. host.kind # "set"
      <4>1. host.pc # "body"
        BY <2>2 DEF Body, ScriptOK
      <4>2. Turn(host.op, host.kind, host.pc)
        BY <4>1 DEF ScriptOK
      <4>3. QED
        BY <4>2, TurnIs DEF Searching
    <3>2. toFw = <<>> \/ (Len(toFw) = 1 /\ toFw[1].kind = host.kind)
      BY <2>2 DEF ExchangeOK, Busy, Asked
    <3>3. QED
      BY <3>1, <3>2
  <2>3. CASE h.found = host.found
    BY <2>3 DEF FoundOK
  <2>4. QED
    BY <2>2, <2>3
<1>11. SureOK'
  BY <1>1, <1>4 DEF SureOK
<1>12. CleanOK'
  BY <1>1, <1>2, <1>3 DEF CleanOK
<1>13. CleanLease'
  <2> SUFFICES ASSUME Clean PROVE CleanLease'
    BY <1>3 DEF CleanLease
  <2>1. leased \subseteq host.mask
    BY DEF CleanLease
  <2>2. host.op = "multi" => leased = host.mask
    BY DEF CleanLease
  <2>3. QED
    BY <1>1, <1>2, <1>5, <2>1, <2>2 DEF CleanLease
<1>14. ProgressOK'
  <2> SUFFICES ASSUME Clean, Searching PROVE ProgressOK'
    BY <1>3, <1>5 DEF ProgressOK
  <2>1. \A b, n : Swept(b, n) => Swept(b, n)'
    BY <1>1, <1>2 DEF Swept, Stays
  <2>2. \A b \in host.all \ (Range(host.cells) \cup host.mask) : Swept(b, host.hi)'
    BY <1>1, <1>2, <2>1 DEF ProgressOK
  <2>3. \A b \in host.mask : Swept(b, host.hi)'
    BY <1>1, <1>2 DEF SweptBy, Swept
  <2>4. QED
    BY <1>2, <2>2, <2>3 DEF ProgressOK, Busy
<1>15. QED
  BY <1>3, <1>6, <1>7, <1>8, <1>9, <1>10, <1>11, <1>12, <1>13, <1>14

LEMMA AtStep ==
  ASSUME IInv, host.pc \notin {"idle", "await", "begin", "body", "end", "restore"}
  PROVE  Turn(host.op, host.kind, host.pc) /\ host.kind \in Body /\ host.op \notin NodeOps /\ Busy
<1>1. Turn(host.op, host.kind, host.pc) /\ Busy
  BY DEF IInv, ScriptOK, Busy
<1>2. QED
  BY <1>1 DEF Turn, NodeOps, Body, Kinds

LEMMA RsOnly ==
  ASSUME IInv, host.op \in {"set_can_id", "probe", "calibrate", "multi"}
  PROVE  fam = "RS" /\ host.op \notin NodeOps
BY DEF IInv, ScriptOK, Belongs, NodeOps

\* The operation as it was, but for what it counts and returns.
Light(h) == Ahead(h) /\ h.found = host.found /\ h.begun = host.begun

LEMMA LightIs ==
  ASSUME host \in Running
  PROVE  /\ Light(host)
         /\ \A good \in BOOLEAN : Light([host EXCEPT !.good = good])
         /\ \A left \in Nat : Light([host EXCEPT !.left = left])
<1>1. Light(host)
  BY DEF Light, Ahead, SameOp
<1>2. ASSUME NEW good \in BOOLEAN, NEW h, h = [host EXCEPT !.good = good]
      PROVE  Light(h)
  BY <1>2 DEF Light, Ahead, SameOp, Running
<1>3. ASSUME NEW left \in Nat, NEW h, h = [host EXCEPT !.left = left]
      PROVE  Light(h)
  BY <1>3 DEF Light, Ahead, SameOp, Running
<1>4. QED
  BY <1>1, <1>2, <1>3

\* An operation on a single drive reports nothing.
LEMMA Plain ==
  ASSUME IInv, ~Searching, NEW h, Light(h)
  PROVE  Ahead(h) /\ Stays(h) /\ \A n : SweptBy(h, n)
<1>1. host.found = {} /\ host.begun = FALSE
  BY RunningIs DEF IInv, TypeOK, ScriptOK
<1>2. QED
  BY <1>1 DEF Light, Stays, SweptBy

LEMMA PlainAsk ==
  ASSUME IInv, ~Searching, host.pc \notin {"idle", "await", "begin", "end", "restore"},
         NEW h, Light(h), NEW kind, NEW id \in 0 .. MaxId, NEW new \in 0 .. MaxId, NEW ret,
         kind \notin {"sweep", "scan", "begin", "end"}, Turn(host.op, kind, ret),
         fam = "RS" \/ host.op \in NodeOps,
         host.op = "set_can_id" /\ kind = "enable" => id = host.new,
         kind = "set" => new \in Ids, host.op = "calibrate" => id = host.lo,
         kind \in {"save", "zero"} /\ ~host.tainted /\ (host.kind = "set" => kind = "zero") => Safe(kind, id),
         Ask(h, kind, id, new, TRUE, ret)
  PROVE  IInv'
<1>1. Ahead(h) /\ Stays(h) /\ \A n : SweptBy(h, n)
  BY Plain
<1>2. kind \in Body /\ ret \in Steps
  BY DEF Turn, Searching, NodeOps, Body, Kinds, Steps
<1>3. Belongs(host.op, kind)
  <2>1. Belongs(host.op, host.kind)
    BY DEF IInv, ScriptOK
  <2>2. CASE fam = "RS"
    BY <2>1, <2>2 DEF Belongs
  <2>3. CASE fam # "RS" /\ host.op \in NodeOps
    <3>1. kind = host.op
      BY <2>3, TurnIs
    <3>2. QED
      BY <2>1, <2>3, <3>1 DEF Belongs, NodeOps
  <2>4. QED
    BY <2>2, <2>3
<1>4. Fits(h, kind, id, new, ret)
  BY <1>1, <1>3 DEF Fits
<1>5. QED
  BY <1>1, <1>2, <1>4, AskKeeps

LEMMA PlainLeave ==
  ASSUME IInv, ~Searching, host.pc \notin {"idle", "await", "begin", "end", "restore"},
         host.op \notin NodeOps, NEW h, Light(h), Leave(h)
  PROVE  IInv'
<1>1. /\ Ahead(h) /\ Stays(h) /\ \A n : SweptBy(h, n)
      /\ h.found = host.found /\ h.begun = host.begun
  BY Plain DEF Light
<1>2. QED
  BY <1>1, LeaveKeeps

LEMMA ZeProbeKeeps ==
  ASSUME IInv, ZeProbe
  PROVE  IInv'
<1>1. /\ host.op \in NodeOps /\ host.pc = "body" /\ Ask(host, host.op, host.lo, 0, TRUE, "restore")
      /\ ~Searching
  BY DEF ZeProbe, NodeOps, Searching
<1>2. host \in Running /\ host.lo \in 0 .. MaxId /\ 0 \in 0 .. MaxId /\ Light(host)
  BY BenchAssumption, RunningIs, LightIs DEF IInv, TypeOK, Ids
<1>3. Turn(host.op, host.op, "restore") /\ host.op \notin {"sweep", "scan", "begin", "end", "set", "save", "zero", "set_can_id", "calibrate"}
  BY <1>1 DEF Turn, NodeOps
<1>4. QED
  BY <1>1, <1>2, <1>3, PlainAsk

LEMMA RsProbeKeeps ==
  ASSUME IInv, RsProbe
  PROVE  IInv'
<1>1. host.op = "probe" /\ ~Searching /\ fam = "RS" /\ host.op \notin NodeOps
  BY RsOnly DEF RsProbe, Searching
<1>2. host \in Running /\ host.lo \in 0 .. MaxId /\ 0 \in 0 .. MaxId /\ Light(host)
  BY BenchAssumption, RunningIs, LightIs DEF IInv, TypeOK, Ids
<1>3. CASE host.pc = "body" /\ Ask(host, "reset", host.lo, 0, TRUE, "rest")
  <2>1. Turn(host.op, "reset", "rest")
    BY <1>1 DEF Turn
  <2>2. QED
    BY <1>1, <1>2, <1>3, <2>1, PlainAsk
<1>4. CASE host.pc \in {"body", "rest"} /\ Ask(host, "enable", host.lo, 0, TRUE, "read")
  <2>1. Turn(host.op, "enable", "read")
    BY <1>1 DEF Turn
  <2>2. QED
    BY <1>1, <1>2, <1>4, <2>1, PlainAsk
<1>5. CASE host.pc = "read" /\ Leave([host EXCEPT !.good = Found])
  <2>1. Light([host EXCEPT !.good = Found])
    <3>1. Found \in BOOLEAN
      BY <1>2, RunningIs, FrameIs DEF Found
    <3>2. QED
      BY <1>2, <3>1, LightIs
  <2>2. QED
    BY <1>1, <1>5, <2>1, PlainLeave
<1>6. QED
  BY <1>3, <1>4, <1>5 DEF RsProbe

\* An answer of this exchange: nothing is under way, and its drive answered.
LEMMA HeardIt ==
  ASSUME IInv, ~host.tainted, Busy, host.kind \in Body, Heard
  PROVE  toFw = <<>> /\ (host.kind # "set" => \A d \in At(host.bus, host.id) : drv[d].seen)
BY DEF IInv, ExchangeOK

LEMMA SetCanIdKeeps ==
  ASSUME IInv, SetCanId
  PROVE  IInv'
<1>1. host.op = "set_can_id" /\ ~Searching /\ fam = "RS" /\ host.op \notin NodeOps
  BY RsOnly DEF SetCanId, Searching
<1>2. /\ host \in Running /\ host.lo \in 0 .. MaxId /\ 0 \in 0 .. MaxId /\ Light(host)
      /\ host.new \in 0 .. MaxId
  BY BenchAssumption, RunningIs, LightIs DEF IInv, TypeOK, Ids
<1>3. host.pc # "idle" => host.new \in Ids
  BY <1>1 DEF IInv, IdOK
<1>4. CASE host.pc = "body" /\ Ask(host, "set", host.lo, host.new, TRUE, "moved")
  <2>1. Turn(host.op, "set", "moved")
    BY <1>1 DEF Turn
  <2>2. QED
    BY <1>1, <1>2, <1>3, <1>4, <2>1, PlainAsk
<1>5. CASE host.pc = "moved" /\ Ask(host, "enable", host.new, 0, TRUE, "verified")
  <2>1. Turn(host.op, "enable", "verified")
    BY <1>1 DEF Turn
  <2>2. QED
    BY <1>1, <1>2, <1>3, <1>5, <2>1, PlainAsk
<1>6. CASE /\ host.pc \in {"moved", "verified"} /\ Found
           /\ Ask([host EXCEPT !.good = TRUE], "save", host.new, 0, TRUE, "kept")
  <2>1. Turn(host.op, "save", "kept")
    BY <1>1 DEF Turn
  <2>2. Turn(host.op, host.kind, host.pc) /\ host.kind \in Body /\ Busy
    BY <1>6, AtStep
  <2>3. host.kind # "set" => host.kind = "enable"
    BY <1>1, <1>6, <2>2 DEF Turn, NodeOps
  <2>4. host.kind # "set" => host.id = host.new
    BY <1>1, <2>3 DEF IInv, IdOK
  <2>5. Heard
    BY <1>6 DEF Found, Heard
  <2>6. ~host.tainted /\ host.kind # "set" => Safe("save", host.new)
    BY <2>2, <2>3, <2>4, <2>5, HeardIt DEF Safe
  <2>7. PICK h : h = [host EXCEPT !.good = TRUE]
    OBVIOUS
  <2>8. Ask(h, "save", host.new, 0, TRUE, "kept")
    BY <1>6, <2>7, Zenon
  <2>9. Light(h)
    BY <1>2, <2>7, LightIs
  <2>10. QED
    BY <1>1, <1>2, <1>6, <2>1, <2>6, <2>8, <2>9, PlainAsk
<1>7. CASE host.pc \in {"moved", "verified", "kept"} /\ Leave(host)
  BY <1>1, <1>2, <1>7, PlainLeave
<1>8. QED
  BY <1>4, <1>5, <1>6, <1>7 DEF SetCanId

LEMMA CalibrateKeeps ==
  ASSUME IInv, Calibrate
  PROVE  IInv'
<1>1. /\ host.op = "calibrate" /\ ~Searching /\ fam = "RS" /\ host.op \notin NodeOps
      /\ host.op # "set_can_id"
  <2>1. host.op = "calibrate"
    BY DEF Calibrate, CalPrep, CalTest, CalPrepared, CalVolts, CalListen, CalZero, CalSave, CalVerify
  <2>2. QED
    BY <2>1, RsOnly DEF Searching
<1>2. host \in Running /\ host.lo \in 0 .. MaxId /\ 0 \in 0 .. MaxId /\ Light(host)
  BY BenchAssumption, RunningIs, LightIs DEF IInv, TypeOK, Ids
<1>3. /\ \A ret \in {"rest", "read_volts"} : Turn(host.op, "reset", ret)
      /\ Turn(host.op, "write", "tested") /\ Turn(host.op, "vbus", "listen")
      /\ Turn(host.op, "cali", "spun") /\ Turn(host.op, "zero", "zeroed")
      /\ Turn(host.op, "save", "kept") /\ Turn(host.op, "mech", "read")
  BY <1>1 DEF Turn
<1>4. ASSUME NEW kind \in {"reset", "write", "vbus", "cali", "mech"}, NEW ret,
             Turn(host.op, kind, ret), CalAsk(host, kind, ret),
             host.pc \notin {"idle", "await", "begin", "end", "restore"}
      PROVE  IInv'
  <2>1. /\ kind \notin {"sweep", "scan", "begin", "end", "set", "save", "zero"}
        /\ Ask(host, kind, host.lo, 0, TRUE, ret)
    BY <1>4 DEF CalAsk
  <2>2. QED
    BY <1>1, <1>2, <1>4, <2>1, PlainAsk
<1>5. CASE CalPrep
  <2>1. CASE host.pc = "body" /\ CalAsk(host, "reset", "rest")
    BY <1>3, <1>4, <2>1
  <2>2. CASE host.pc = "rest" /\ host.left > 0 /\ CalAsk([host EXCEPT !.left = @ - 1], "reset", "rest")
    <3>1. host.left - 1 \in Nat
      BY <1>2, <2>2, RunningIs
    <3>2. PICK h : h = [host EXCEPT !.left = @ - 1]
      OBVIOUS
    <3>3. CalAsk(h, "reset", "rest")
      BY <2>2, <3>2, Zenon
    <3>4. h.lo = host.lo /\ h = [host EXCEPT !.left = host.left - 1]
      BY <1>2, <3>2 DEF Running
    <3>5. Ask(h, "reset", host.lo, 0, TRUE, "rest")
      BY <3>3, <3>4 DEF CalAsk
    <3>6. Turn(host.op, "reset", "rest")
      BY <1>3
    <3>7. Light(h)
      BY <1>2, <3>1, <3>4, LightIs
    <3>8. QED
      BY <1>1, <1>2, <2>2, <3>5, <3>6, <3>7, PlainAsk
  <2>3. QED
    BY <1>5, <2>1, <2>2 DEF CalPrep
<1>6. CASE CalTest \/ CalVolts \/ CalListen
  BY <1>3, <1>4, <1>6 DEF CalTest, CalPrepared, CalVolts, CalListen
<1>7. CASE CalZero
  <2>1. host.pc = "spun"
    BY <1>7 DEF CalZero
  <2>2. CASE Leave(host)
    BY <1>1, <1>2, <2>1, <2>2, PlainLeave
  <2>3. CASE host.saw /\ CalAsk(host, "zero", "zeroed")
    <3>1. Turn(host.op, host.kind, host.pc) /\ host.kind \in Body /\ Busy
      BY <2>1, AtStep
    <3>2. host.kind = "cali" /\ host.id = host.lo
      <4>1. host.kind = "cali"
        BY <2>1, <3>1, TurnIs
      <4>2. QED
        BY <1>1, <3>1, <4>1 DEF IInv, IdOK
    <3>3. Heard
      BY <2>3 DEF Heard
    <3>4. ~host.tainted => Safe("zero", host.lo)
      <4> SUFFICES ASSUME ~host.tainted PROVE Safe("zero", host.lo)
        OBVIOUS
      <4>1. toFw = <<>> /\ \A d \in At(host.bus, host.id) : drv[d].seen
        BY <3>1, <3>2, <3>3, HeardIt
      <4>2. \A d \in At(host.bus, host.id) : drv[d].spun
        BY <2>3, <3>1, <3>2 DEF IInv, ExchangeOK
      <4>3. QED
        BY <3>2, <4>1, <4>2 DEF Safe
    <3>5. Ask(host, "zero", host.lo, 0, TRUE, "zeroed")
      BY <2>3 DEF CalAsk
    <3>6. QED
      BY <1>1, <1>2, <1>3, <2>1, <3>4, <3>5, PlainAsk
  <2>4. QED
    BY <1>7, <2>2, <2>3 DEF CalZero
<1>8. CASE CalSave
  <2>1. host.pc = "zeroed"
    BY <1>8 DEF CalSave
  <2>2. CASE Leave(host)
    BY <1>1, <1>2, <2>1, <2>2, PlainLeave
  <2>3. CASE CalAsk(host, "save", "kept")
    <3>1. Turn(host.op, host.kind, host.pc) /\ host.kind \in Body /\ Busy
      BY <2>1, AtStep
    <3>2. host.kind = "zero"
      BY <1>1, <2>1, <3>1 DEF Turn, NodeOps
    <3>3. host.id = host.lo
      BY <1>1, <3>1 DEF IInv, IdOK
    <3>4. ~host.tainted => Safe("save", host.lo)
      <4> SUFFICES ASSUME ~host.tainted PROVE Safe("save", host.lo)
        OBVIOUS
      <4>1. /\ toFw = <<>> \/ (Len(toFw) = 1 /\ toFw[1].kind = "zero")
            /\ \A d \in At(host.bus, host.id) : drv[d].seen
        BY <3>1, <3>2 DEF IInv, ExchangeOK, Asked
      <4>2. \A i \in 1 .. Len(toFw) : toFw[i].kind # "set"
        BY <4>1
      <4>3. QED
        BY <3>3, <4>1, <4>2 DEF Safe
    <3>5. Ask(host, "save", host.lo, 0, TRUE, "kept")
      BY <2>3 DEF CalAsk
    <3>6. QED
      BY <1>1, <1>2, <1>3, <2>1, <3>4, <3>5, PlainAsk
  <2>4. QED
    BY <1>8, <2>2, <2>3 DEF CalSave
<1>9. CASE CalVerify
  <2>1. CASE host.pc = "kept" /\ CalAsk(host, "mech", "read")
    BY <1>3, <1>4, <2>1
  <2>2. CASE host.pc = "read" /\ Leave([host EXCEPT !.good = Is("zero")])
    <3>1. Light([host EXCEPT !.good = Is("zero")])
      <4>1. Is("zero") \in BOOLEAN
        BY <1>2, RunningIs, FrameIs DEF Is, Found
      <4>2. QED
        BY <1>2, <4>1, LightIs
    <3>2. QED
      BY <1>1, <2>2, <3>1, PlainLeave
  <2>3. QED
    BY <1>9, <2>1, <2>2 DEF CalVerify
<1>10. QED
  BY <1>5, <1>6, <1>7, <1>8, <1>9 DEF Calibrate

-----------------------------------------------------------------------------
(* The steps of a discover.                                                *)

\* The operation with F found and its cursor at c.
Grown(h, F, c) == Ahead(h) /\ h.found = F /\ h.cur = c /\ h.begun = host.begun

LEMMA GrownIs ==
  ASSUME host \in Running, NEW F \in SUBSET (Buses \X (0 .. MaxId)), NEW c \in 1 .. MaxId + 1, NEW h
  PROVE  /\ h = [host EXCEPT !.cur = c] => Grown(h, host.found, c)
         /\ h = [host EXCEPT !.found = F] => Grown(h, F, host.cur)
         /\ h = [host EXCEPT !.found = F, !.cur = c] => Grown(h, F, c)
         /\ h = [host EXCEPT !.cur = c, !.found = F] => Grown(h, F, c)
<1>1. ASSUME h = [host EXCEPT !.cur = c]
      PROVE  Grown(h, host.found, c)
  <2>1. h \in Running
    BY <1>1, SetOperation
  <2>2. h.found = host.found /\ h.cur = c
    BY <1>1, DomainIs
  <2>3. /\ h.begun = host.begun /\ h.tainted = host.tainted
        /\ h.kind = host.kind /\ h.id = host.id /\ h.ret = host.ret /\ h.resp = host.resp
        /\ h.saw = host.saw /\ h.hits = host.hits
    BY <1>1, DomainIs
  <2>4. /\ h.op = host.op /\ h.bus = host.bus /\ h.lo = host.lo /\ h.hi = host.hi /\ h.new = host.new
        /\ h.all = host.all /\ h.cells = host.cells /\ h.mask = host.mask
    BY <1>1, DomainIs
  <2>5. QED
    BY <2>1, <2>2, <2>3, <2>4 DEF Grown, Ahead, SameOp
<1>2. ASSUME h = [host EXCEPT !.found = F]
      PROVE  Grown(h, F, host.cur)
  <2>1. h \in Running
    BY <1>2, SetOperation
  <2>2. h.found = F /\ h.cur = host.cur
    BY <1>2, DomainIs
  <2>3. /\ h.begun = host.begun /\ h.tainted = host.tainted
        /\ h.kind = host.kind /\ h.id = host.id /\ h.ret = host.ret /\ h.resp = host.resp
        /\ h.saw = host.saw /\ h.hits = host.hits
    BY <1>2, DomainIs
  <2>4. /\ h.op = host.op /\ h.bus = host.bus /\ h.lo = host.lo /\ h.hi = host.hi /\ h.new = host.new
        /\ h.all = host.all /\ h.cells = host.cells /\ h.mask = host.mask
    BY <1>2, DomainIs
  <2>5. QED
    BY <2>1, <2>2, <2>3, <2>4 DEF Grown, Ahead, SameOp
<1>3. ASSUME h = [host EXCEPT !.found = F, !.cur = c]
      PROVE  Grown(h, F, c)
  <2>1. h \in Running
    <3>1. PICK g \in Running : g = [host EXCEPT !.found = F]
      BY SetOperation
    <3>2. [g EXCEPT !.cur = c] \in Running
      BY SetOperation
    <3>3. QED
      BY <1>3, <3>1, <3>2
  <2>2. h.found = F /\ h.cur = c
    BY <1>3, DomainIs
  <2>3. /\ h.begun = host.begun /\ h.tainted = host.tainted
        /\ h.kind = host.kind /\ h.id = host.id /\ h.ret = host.ret /\ h.resp = host.resp
        /\ h.saw = host.saw /\ h.hits = host.hits
    BY <1>3, DomainIs
  <2>4. /\ h.op = host.op /\ h.bus = host.bus /\ h.lo = host.lo /\ h.hi = host.hi /\ h.new = host.new
        /\ h.all = host.all /\ h.cells = host.cells /\ h.mask = host.mask
    BY <1>3, DomainIs
  <2>5. QED
    BY <2>1, <2>2, <2>3, <2>4 DEF Grown, Ahead, SameOp
<1>4. ASSUME h = [host EXCEPT !.cur = c, !.found = F]
      PROVE  Grown(h, F, c)
  <2>1. h \in Running
    <3>1. PICK g \in Running : g = [host EXCEPT !.cur = c]
      BY SetOperation
    <3>2. [g EXCEPT !.found = F] \in Running
      BY SetOperation
    <3>3. QED
      BY <1>4, <3>1, <3>2
  <2>2. h.found = F /\ h.cur = c
    BY <1>4, DomainIs
  <2>3. /\ h.begun = host.begun /\ h.tainted = host.tainted
        /\ h.kind = host.kind /\ h.id = host.id /\ h.ret = host.ret /\ h.resp = host.resp
        /\ h.saw = host.saw /\ h.hits = host.hits
    BY <1>4, DomainIs
  <2>4. /\ h.op = host.op /\ h.bus = host.bus /\ h.lo = host.lo /\ h.hi = host.hi /\ h.new = host.new
        /\ h.all = host.all /\ h.cells = host.cells /\ h.mask = host.mask
    BY <1>4, DomainIs
  <2>5. QED
    BY <2>1, <2>2, <2>3, <2>4 DEF Grown, Ahead, SameOp
<1>5. QED
  BY <1>1, <1>2, <1>3, <1>4

LEMMA BegunIs ==
  ASSUME host \in Running, NEW g \in BOOLEAN, NEW h, h = [host EXCEPT !.begun = g]
  PROVE  Ahead(h) /\ h.found = host.found /\ h.cur = host.cur /\ h.begun = g
<1>1. h \in Running
  BY SetOperation
<1>2. h.found = host.found /\ h.cur = host.cur /\ h.begun = g
  BY DomainIs
<1>3. /\ h.tainted = host.tainted
      /\ h.kind = host.kind /\ h.id = host.id /\ h.ret = host.ret /\ h.resp = host.resp
      /\ h.saw = host.saw /\ h.hits = host.hits
  BY DomainIs
<1>4. /\ h.op = host.op /\ h.bus = host.bus /\ h.lo = host.lo /\ h.hi = host.hi /\ h.new = host.new
      /\ h.all = host.all /\ h.cells = host.cells /\ h.mask = host.mask
  BY DomainIs
<1>5. QED
  BY <1>1, <1>2, <1>3, <1>4 DEF Ahead, SameOp

\* The next probe of a discover, or its end.
LEMMA ProbeNext ==
  ASSUME IInv, Searching, host.pc \notin {"idle", "await", "begin", "end", "restore"},
         NEW h, Ahead(h), Stays(h), host.kind \in Body \/ h.found = host.found,
         host.kind \in Body => h.begun = host.begun,
         NEW kind \in {"sweep", "scan", "enable"}, NEW ret,
         Turn(host.op, kind, ret), Belongs(host.op, kind),
         SweptBy(h, IF kind = "scan" THEN host.hi ELSE h.cur - 1),
         IF h.cur <= h.hi THEN Ask(h, kind, h.cur, 0, TRUE, ret) ELSE Leave(h)
  PROVE  IInv'
<1>1. /\ h \in Running /\ h.cur \in Nat /\ h.hi = host.hi /\ host.lo \in Nat /\ h.hi \in Nat
      /\ h.hi <= MaxId /\ MaxId \in Nat
  <2>1. h \in Running /\ h.hi = host.hi /\ host \in Running /\ MaxId \in Nat
    BY BenchAssumption DEF Ahead, SameOp, IInv, TypeOK
  <2>2. h.cur \in 1 .. MaxId + 1 /\ h.hi \in Ids /\ host.lo \in Ids
    BY <2>1, RunningIs
  <2>3. QED
    BY <2>1, <2>2 DEF Ids
<1>2. host.op \notin NodeOps /\ host.op \notin {"set_can_id", "calibrate"}
  BY DEF Searching, NodeOps
<1>3. CASE h.cur <= h.hi
  <2>1. Ask(h, kind, h.cur, 0, TRUE, ret)
    BY <1>3
  <2>2. h.cur \in 0 .. MaxId /\ 0 \in 0 .. MaxId
    BY <1>1, <1>3
  <2>3. kind \in Body /\ ret \in Steps
    BY DEF Body, Kinds, Turn, Steps, NodeOps, Searching
  <2>4. h.cur \in host.lo .. host.hi
    BY <1>1, <1>3 DEF Stays
  <2>5. Fits(h, kind, h.cur, 0, ret)
    BY <1>2, <2>4 DEF Fits
  <2>6. QED
    BY <2>1, <2>2, <2>3, <2>5, AskKeeps
<1>4. CASE ~(h.cur <= h.hi)
  <2>1. SweptBy(h, host.hi)
    <3> SUFFICES ASSUME Clean, NEW b \in host.mask, NEW d \in Drives,
                        drv[d].bus = b, drv[d].id \in host.lo .. host.hi
                 PROVE  <<b, drv[d].id>> \in h.found
      BY DEF SweptBy
    <3>1. host.hi <= h.cur - 1
      BY <1>1, <1>4
    <3>2. drv[d].id \in host.lo .. (h.cur - 1)
      BY <1>1, <3>1
    <3>3. QED
      BY <3>2 DEF SweptBy
  <2>2. Leave(h)
    BY <1>4
  <2>3. QED
    BY <1>2, <2>1, <2>2, LeaveKeeps
<1>5. QED
  BY <1>3, <1>4

LEMMA GrownStays ==
  ASSUME IInv, Searching, host.kind \in Body, Busy, NEW h, NEW F, NEW c, Grown(h, F, c),
         host.found \subseteq F, host.lo <= c,
         ~host.tainted /\ Opened => \A x \in F : x \in host.found \/ At(x[1], x[2]) # {}
  PROVE  Stays(h)
<1>1. ~host.tainted /\ Opened => \A x \in host.found : At(x[1], x[2]) # {}
  BY DEF IInv, FoundOK, HitsAreReal, Opened
<1>2. ~host.tainted /\ host.begun /\ fam = "RS" => leased \subseteq host.mask
  BY DEF IInv, LeaseOK
<1>3. QED
  BY <1>1, <1>2 DEF Stays, Grown, Opened

LEMMA HitIs ==
  ASSUME IInv, host.op = "discover", host.kind \in Probes, Busy, Found
  PROVE  /\ Hit(host.resp) \in 0 .. MaxId /\ <<host.bus, Hit(host.resp)>> \in Buses \X (0 .. MaxId)
         /\ ~host.tainted /\ Opened => At(host.bus, Hit(host.resp)) # {}
<1>1. host \in Running /\ drv \in [Drives -> Drive] /\ fam \in Families
  BY DEF IInv, TypeOK
<1>2. host.resp \in Frame /\ host.resp.found
  BY <1>1, RunningIs DEF Found
<1>3. Hit(host.resp) \in 0 .. MaxId
  BY <1>2, FrameIs DEF Hit
<1>4. ASSUME ~host.tainted, Opened
      PROVE  At(host.bus, Hit(host.resp)) # {}
  <2>1. Real(host.resp)
    <3>1. host.kind \in Body
      BY DEF Probes, Body, Kinds
    <3>2. QED
      BY <1>2, <1>4, <3>1 DEF IInv, ExchangeOK, Found
  <2>2. At(host.resp.bus, host.resp.disc) # {} /\ host.resp.bus \in host.mask
    BY <1>2, <1>4, <2>1 DEF Real, RealAt
  <2>3. host.mask = {host.bus}
    BY DEF IInv, ScriptOK
  <2>4. host.resp.disc \in Ids
    BY <1>1, <2>2, AtIs
  <2>5. Hit(host.resp) = host.resp.disc
    BY <2>4 DEF Hit, Ids
  <2>6. QED
    BY <2>2, <2>3, <2>5
<1>5. QED
  BY <1>1, <1>3, <1>4, RunningIs

\* The operation at its next id, with what the probe of this one found.
LEMMA NextIs ==
  ASSUME IInv, host.op = "discover", host.kind \in Probes,
         host.pc \notin {"idle", "await", "begin", "body", "end", "restore"}, NEW h,
         h = [host EXCEPT !.cur = @ + 1,
                !.found = IF Found THEN @ \cup {<<host.bus, Hit(host.resp)>>} ELSE @]
  PROVE  /\ Grown(h, IF Found THEN host.found \cup {<<host.bus, Hit(host.resp)>>} ELSE host.found,
                  host.cur + 1)
         /\ Stays(h)
<1> DEFINE F == IF Found THEN host.found \cup {<<host.bus, Hit(host.resp)>>} ELSE host.found
<1>1. /\ host \in Running /\ host.cur \in host.lo .. host.hi /\ host.hi \in Ids /\ MaxId \in Nat
      /\ host.lo \in Nat /\ host.lo >= 1 /\ Busy /\ host.kind \in Body /\ Searching
  <2>1. host \in Running /\ MaxId \in Nat /\ Busy /\ host.kind \in Body /\ Searching
    BY BenchAssumption, AtStep DEF IInv, TypeOK, Searching
  <2>2. host.cur \in host.lo .. host.hi
    BY <2>1 DEF IInv, IdOK
  <2>3. QED
    BY <2>1, <2>2, RunningIs DEF Ids
<1>2. F \in SUBSET (Buses \X (0 .. MaxId))
  BY <1>1, HitIs, RunningIs
<1>3. host.cur + 1 \in 1 .. MaxId + 1 /\ host.lo <= host.cur + 1
  BY <1>1 DEF Ids
<1>4. ~host.tainted /\ Opened => \A x \in F : x \in host.found \/ At(x[1], x[2]) # {}
  BY <1>1, HitIs
<1>5. host.found \subseteq F
  OBVIOUS
<1> HIDE DEF F
<1>6. h = [host EXCEPT !.cur = host.cur + 1, !.found = F]
  BY DEF F
<1>7. Grown(h, F, host.cur + 1)
  BY <1>1, <1>2, <1>3, <1>6, GrownIs
<1>8. Stays(h)
  BY <1>1, <1>3, <1>4, <1>5, <1>7, GrownStays
<1>9. QED
  BY <1>7, <1>8 DEF F

\* A discover that was not cut short and lost nothing has the answer to its probe.
LEMMA KnownNow ==
  ASSUME IInv, Clean, host.op = "discover", host.pc \in {"swept", "scanned", "enabled", "promised"}
  PROVE  /\ host.resp \in Frame /\ Exact(host.resp) /\ (Found <=> host.resp.found)
         /\ host.mask = {host.bus} /\ host.id = host.cur /\ host.cur \in host.lo .. host.hi
         /\ host.cur \in Nat \ {0} /\ host.lo \in Nat /\ host.hi \in Nat
         /\ IF host.kind = "scan" THEN Swept(host.bus, host.hi) ELSE Swept(host.bus, host.cur - 1)
<1>1. Turn(host.op, host.kind, host.pc) /\ Busy /\ host.kind \in Body /\ Searching
  BY AtStep DEF Searching
<1>2. host.kind \in Probes
  BY <1>1, TurnIs DEF Body
<1>3. host \in Running /\ host.resp # None /\ Exact(host.resp)
  BY DEF IInv, TypeOK, CleanOK
<1>4. host.id = host.cur /\ host.cur \in host.lo .. host.hi
  BY <1>1, <1>2 DEF IInv, IdOK
<1>5. host.mask = {host.bus}
  BY DEF IInv, ScriptOK
<1>6. IF host.kind = "scan" THEN Swept(host.bus, host.hi) ELSE Swept(host.bus, host.cur - 1)
  BY <1>1, <1>5 DEF IInv, ProgressOK
<1>7. QED
  BY <1>3, <1>4, <1>5, <1>6, RunningIs, FrameIs DEF Found, Ids

LEMMA BodyStays ==
  ASSUME IInv, Searching, host.pc = "body", NEW h, Ahead(h), h.found = host.found, h.cur = host.cur,
         h.begun = IF fam = "RS" THEN Begun ELSE host.begun
  PROVE  Stays(h) /\ SweptBy(h, h.cur - 1) /\ host.kind \notin Body
<1>1. host.kind = "begin" /\ host.kind \notin Body
  BY DEF IInv, ScriptOK, Searching, NodeOps, Body
<1>2. fam = "RS" => host.found = {}
  BY <1>1 DEF IInv, ScriptOK
<1>3. fam = "RS" /\ Begun => leased \subseteq host.mask
  BY <1>1 DEF IInv, FreshOK
<1>4. fam # "RS" /\ ~host.tainted => \A x \in host.found : At(x[1], x[2]) # {}
  BY DEF IInv, FoundOK, HitsAreReal
<1>5. host.lo <= host.cur
  BY DEF IInv, IdOK
<1>6. Stays(h)
  BY <1>2, <1>3, <1>4, <1>5 DEF Stays
<1>7. SweptBy(h, h.cur - 1)
  BY <1>1 DEF IInv, ProgressOK, SweptBy, Swept
<1>8. QED
  BY <1>1, <1>6, <1>7

\* A sweep nobody answered leaves no drive unreported.
LEMMA SweptOut ==
  ASSUME IInv, host.op = "discover", host.pc = "swept", ~Found
  PROVE  SweptBy(host, host.hi)
<1> SUFFICES ASSUME Clean, NEW b \in host.mask, NEW d \in Drives,
                    drv[d].bus = b, drv[d].id \in host.lo .. host.hi
             PROVE  <<b, drv[d].id>> \in host.found
  BY DEF SweptBy
<1>1. /\ host.resp \in Frame /\ Exact(host.resp) /\ ~host.resp.found
      /\ host.mask = {host.bus} /\ host.id = host.cur /\ host.cur \in host.lo .. host.hi
      /\ host.cur \in Nat \ {0} /\ host.lo \in Nat /\ host.hi \in Nat
      /\ IF host.kind = "scan" THEN Swept(host.bus, host.hi) ELSE Swept(host.bus, host.cur - 1)
  BY KnownNow
<1>2. host.kind = "sweep"
  BY AtStep DEF Turn, NodeOps
<1>3. Answering(host) = {}
  BY <1>1, <1>2 DEF Exact
<1>4. drv[d].id \notin host.cur .. host.hi
  BY <1>1, <1>3 DEF Answering, At
<1>5. drv[d].id \in host.lo .. (host.cur - 1)
  BY <1>1, <1>4
<1>6. QED
  BY <1>1, <1>2, <1>5 DEF Swept

\* A hit is noted and the sweep goes on behind it.
LEMMA SweepHit ==
  ASSUME IInv, host.op = "discover", host.pc = "swept", Found, NEW h, h = Noted
  PROVE  Ahead(h) /\ h.begun = host.begun /\ Stays(h) /\ SweptBy(h, h.cur - 1)
<1> DEFINE hit == Hit(host.resp)
           F   == host.found \cup {<<host.bus, hit>>}
           c   == Max({hit, host.cur}) + 1
<1>1. /\ host \in Running /\ Busy /\ host.kind \in Body /\ host.kind = "sweep" /\ Searching
      /\ host.kind \in Probes /\ MaxId \in Nat
  BY BenchAssumption, AtStep DEF IInv, TypeOK, Searching, Turn, NodeOps, Probes
<1>2. hit \in 0 .. MaxId /\ <<host.bus, hit>> \in Buses \X (0 .. MaxId)
      /\ (~host.tainted /\ Opened => At(host.bus, hit) # {})
  BY <1>1, HitIs
<1>3. /\ host.cur \in host.lo .. host.hi /\ host.hi \in 1 .. MaxId /\ host.lo \in 1 .. MaxId
      /\ host.found \in SUBSET (Buses \X (0 .. MaxId))
  <2>1. host.cur \in host.lo .. host.hi
    BY <1>1 DEF IInv, IdOK
  <2>2. QED
    BY <1>1, <2>1, RunningIs DEF Ids
<1> HIDE DEF hit
<1>4. Max({hit, host.cur}) = IF hit >= host.cur THEN hit ELSE host.cur
  <2>1. hit \in Nat /\ host.cur \in Nat
    BY <1>1, <1>2, <1>3
  <2>2. QED
    BY <2>1, PairMinMax
<1>5. c \in 1 .. MaxId + 1 /\ host.lo <= c /\ F \in SUBSET (Buses \X (0 .. MaxId))
  BY <1>1, <1>2, <1>3, <1>4
<1> HIDE DEF c
<1>6. Grown(h, F, c)
  <2>1. h = [host EXCEPT !.found = F, !.cur = c]
    BY DEF Noted, hit, c
  <2> HIDE DEF F
  <2>2. QED
    BY <1>1, <1>5, <2>1, GrownIs
<1>7. Stays(h)
  BY <1>1, <1>2, <1>5, <1>6, GrownStays
<1>8. SweptBy(h, h.cur - 1)
  <2> SUFFICES ASSUME Clean, NEW b \in host.mask, NEW d \in Drives,
                      drv[d].bus = b, drv[d].id \in host.lo .. (c - 1)
               PROVE  <<b, drv[d].id>> \in F
    BY <1>6 DEF SweptBy, Grown
  <2>1. /\ host.resp \in Frame /\ Exact(host.resp) /\ host.resp.found
        /\ host.mask = {host.bus} /\ host.id = host.cur /\ host.cur \in host.lo .. host.hi
        /\ host.cur \in Nat \ {0} /\ host.lo \in Nat /\ host.hi \in Nat
        /\ Swept(host.bus, host.cur - 1)
    BY <1>1, KnownNow
  <2>2. Answering(host) # {} /\ host.resp.disc = Min(Answering(host))
    BY <1>1, <2>1 DEF Exact
  <2>3. Answering(host) \in SUBSET Nat /\ \A i \in Answering(host) : i \in host.cur .. host.hi
    BY <2>1 DEF Answering
  <2>4. host.resp.disc \in Answering(host) /\ \A i \in Answering(host) : host.resp.disc <= i
    BY <2>2, <2>3, MinIs
  <2>5. host.resp.disc \in host.cur .. host.hi
    BY <2>3, <2>4
  <2>6. hit = host.resp.disc /\ c = hit + 1
    BY <1>4, <2>1, <2>5 DEF Hit, hit, c
  <2>7. drv[d].id \in host.cur .. host.hi => drv[d].id \in Answering(host)
    BY <2>1 DEF Answering, At
  <2>8. drv[d].id \in host.lo .. (host.cur - 1) \/ drv[d].id = hit
    BY <2>1, <2>4, <2>5, <2>6, <2>7
  <2>9. QED
    BY <2>1, <2>8 DEF Swept
<1>9. QED
  BY <1>6, <1>7, <1>8 DEF Grown

\* A sweep, a scan and a probe of one id each go on or end.
LEMMA SweepAllKeeps ==
  ASSUME IInv, fam \in {"DM", "CM", "ZE"}, host.op = "discover",
         \/ host.pc = "body" /\ Sweep(host)
         \/ host.pc = "swept" /\ Found /\ Sweep(Noted)
         \/ host.pc = "swept" /\ ~Found /\ Leave(host)
  PROVE  IInv'
<1>1. /\ Turn(host.op, "sweep", "swept") /\ Belongs(host.op, "sweep") /\ Searching
      /\ host \in Running /\ Ahead(host)
  BY DEF Turn, Belongs, Searching, IInv, TypeOK, Ahead, SameOp
<1>2. CASE host.pc = "body" /\ Sweep(host)
  <2>1. host.begun = IF fam = "RS" THEN Begun ELSE host.begun
    OBVIOUS
  <2>2. Stays(host) /\ SweptBy(host, host.cur - 1) /\ host.kind \notin Body
    BY <1>1, <1>2, <2>1, BodyStays
  <2>3. IF host.cur <= host.hi THEN Ask(host, "sweep", host.cur, 0, TRUE, "swept") ELSE Leave(host)
    BY <1>2 DEF Sweep
  <2>4. QED
    BY <1>1, <1>2, <2>2, <2>3, ProbeNext
<1>3. CASE host.pc = "swept" /\ Found /\ Sweep(Noted)
  <2>1. PICK h : h = Noted
    OBVIOUS
  <2>2. Ahead(h) /\ h.begun = host.begun /\ Stays(h) /\ SweptBy(h, h.cur - 1)
    BY <1>3, <2>1, SweepHit
  <2>3. host.kind \in Body
    BY <1>3, AtStep
  <2>4. IF h.cur <= h.hi THEN Ask(h, "sweep", h.cur, 0, TRUE, "swept") ELSE Leave(h)
    BY <1>3, <2>1 DEF Sweep
  <2>5. QED
    BY <1>1, <1>3, <2>2, <2>3, <2>4, ProbeNext
<1>4. CASE host.pc = "swept" /\ ~Found /\ Leave(host)
  <2>1. Turn(host.op, host.kind, host.pc) /\ host.kind \in Body /\ host.op \notin NodeOps /\ Busy
    BY <1>4, AtStep
  <2>2. host.lo <= host.cur
    BY <1>1 DEF IInv, IdOK
  <2>3. Stays(host)
    BY <1>1, <2>1, <2>2, GrownStays DEF Grown
  <2>4. SweptBy(host, host.hi)
    BY <1>4, SweptOut
  <2>5. QED
    BY <1>1, <1>4, <2>1, <2>3, <2>4, LeaveKeeps
<1>5. QED
  BY <1>2, <1>3, <1>4

LEMMA DmKeeps ==
  ASSUME IInv, DmDiscoverAll
  PROVE  IInv'
<1>1. fam = "DM" /\ host.op = "discover"
  BY DEF DmDiscoverAll, IInv, ScriptOK, Belongs
<1>2. /\ Turn(host.op, "scan", "scanned") /\ Belongs(host.op, "scan") /\ Searching
      /\ host \in Running /\ Ahead(host) /\ host.lo <= host.cur
  BY <1>1 DEF Turn, Belongs, Searching, IInv, TypeOK, Ahead, SameOp, IdOK
<1>3. CASE \/ host.pc = "body" /\ Sweep(host)
           \/ host.pc = "swept" /\ Found /\ Sweep(Noted)
           \/ host.pc = "swept" /\ ~Found /\ Leave(host)
  BY <1>1, <1>3, SweepAllKeeps
<1>4. CASE host.pc = "swept" /\ ~Found /\ Scan([host EXCEPT !.cur = host.lo])
  <2>1. PICK h : h = [host EXCEPT !.cur = host.lo]
    OBVIOUS
  <2>2. host.lo \in 1 .. MaxId + 1 /\ host.lo <= host.lo /\ host.found \in SUBSET (Buses \X (0 .. MaxId))
    BY <1>2, BenchAssumption, RunningIs DEF Ids
  <2>3. Grown(h, host.found, host.lo)
    BY <1>2, <2>1, <2>2, GrownIs
  <2>4. host.kind \in Body /\ Busy
    BY <1>4, AtStep
  <2>5. Stays(h)
    BY <1>2, <2>2, <2>3, <2>4, GrownStays
  <2>6. SweptBy(h, host.hi)
    BY <1>1, <1>4, <2>3, SweptOut DEF SweptBy, Grown
  <2>7. IF h.cur <= h.hi THEN Ask(h, "scan", h.cur, 0, TRUE, "scanned") ELSE Leave(h)
    BY <1>4, <2>1 DEF Scan
  <2>8. QED
    BY <1>2, <1>4, <2>3, <2>4, <2>5, <2>6, <2>7, ProbeNext DEF Grown
<1>5. CASE /\ host.pc = "scanned"
           /\ Scan([host EXCEPT !.cur = @ + 1,
                      !.found = IF Found THEN @ \cup {<<host.bus, Hit(host.resp)>>} ELSE @])
  <2>1. PICK h : h = [host EXCEPT !.cur = @ + 1,
                        !.found = IF Found THEN @ \cup {<<host.bus, Hit(host.resp)>>} ELSE @]
    OBVIOUS
  <2>2. host.kind \in Body /\ Busy /\ host.kind = "scan" /\ host.kind \in Probes
    BY <1>5, AtStep DEF Turn, NodeOps, Probes
  <2>3. /\ Grown(h, IF Found THEN host.found \cup {<<host.bus, Hit(host.resp)>>} ELSE host.found,
                 host.cur + 1)
        /\ Stays(h)
    BY <1>1, <1>5, <2>1, <2>2, NextIs
  <2>4. SweptBy(h, host.hi)
    <3>1. Clean => host.mask = {host.bus} /\ Swept(host.bus, host.hi)
      BY <1>1, <1>5, <2>2, KnownNow
    <3>2. QED
      BY <2>3, <3>1 DEF SweptBy, Swept, Grown
  <2>5. IF h.cur <= h.hi THEN Ask(h, "scan", h.cur, 0, TRUE, "scanned") ELSE Leave(h)
    BY <1>5, <2>1, Zenon DEF Scan
  <2>6. QED
    BY <1>2, <1>5, <2>2, <2>3, <2>4, <2>5, ProbeNext DEF Grown
<1>6. QED
  BY <1>3, <1>4, <1>5 DEF DmDiscoverAll

LEMMA BodyEnable ==
  ASSUME IInv, Searching, fam = "RS", host.pc = "body", Enable([host EXCEPT !.begun = Begun])
  PROVE  IInv'
<1>1. PICK h : h = [host EXCEPT !.begun = Begun]
  OBVIOUS
<1>2. host \in Running /\ Begun \in BOOLEAN
  BY RunningIs, FrameIs DEF IInv, TypeOK, Begun
<1>3. Ahead(h) /\ h.found = host.found /\ h.cur = host.cur /\ h.begun = Begun
  BY <1>1, <1>2, BegunIs
<1>4. Stays(h) /\ SweptBy(h, h.cur - 1) /\ host.kind \notin Body
  BY <1>3, BodyStays
<1>5. Turn(host.op, "enable", "enabled") /\ Belongs(host.op, "enable")
  BY DEF Searching, Turn, Belongs, NodeOps
<1>6. IF h.cur <= h.hi THEN Ask(h, "enable", h.cur, 0, TRUE, "enabled") ELSE Leave(h)
  BY <1>1 DEF Enable
<1>7. QED
  BY <1>3, <1>4, <1>5, <1>6, ProbeNext

\* What the probe of one id found on its bus is all there is of it.
LEMMA NextSwept ==
  ASSUME IInv, host.op = "discover", fam = "RS", host.pc \in {"enabled", "promised"}, NEW h,
         Grown(h, IF Found THEN host.found \cup {<<host.bus, Hit(host.resp)>>} ELSE host.found,
               host.cur + 1)
  PROVE  SweptBy(h, h.cur - 1)
<1> DEFINE F == IF Found THEN host.found \cup {<<host.bus, Hit(host.resp)>>} ELSE host.found
<1> SUFFICES ASSUME Clean, NEW b \in host.mask, NEW d \in Drives,
                    drv[d].bus = b, drv[d].id \in host.lo .. (h.cur - 1)
             PROVE  <<b, drv[d].id>> \in F
  BY DEF SweptBy, Grown
<1>1. /\ host.resp \in Frame /\ Exact(host.resp) /\ (Found <=> host.resp.found)
      /\ host.mask = {host.bus} /\ host.id = host.cur /\ host.cur \in host.lo .. host.hi
      /\ host.cur \in Nat \ {0} /\ host.lo \in Nat /\ host.hi \in Nat
      /\ IF host.kind = "scan" THEN Swept(host.bus, host.hi) ELSE Swept(host.bus, host.cur - 1)
  BY KnownNow
<1>2. host.kind \in {"enable", "promisc"} /\ h.cur = host.cur + 1
  BY AtStep DEF Turn, NodeOps, Grown
<1>3. CASE drv[d].id \in host.lo .. (host.cur - 1)
  BY <1>1, <1>2, <1>3 DEF Swept
<1>4. CASE drv[d].id = host.cur
  <2>1. At(host.bus, host.id) # {}
    BY <1>1, <1>4 DEF At
  <2>2. host.resp.found /\ host.resp.disc = host.id
    BY <1>1, <1>2, <2>1 DEF Exact
  <2>3. Found /\ Hit(host.resp) = host.cur
    BY <1>1, <2>2 DEF Hit
  <2>4. QED
    BY <1>1, <1>4, <2>3
<1>5. QED
  BY <1>1, <1>2, <1>3, <1>4

\* The second probe of the same id.
LEMMA PromiscKeeps ==
  ASSUME IInv, Searching, fam = "RS", host.pc = "enabled", NEW h, NEW F, Grown(h, F, host.cur), Stays(h),
         Ask(h, "promisc", host.cur, 0, TRUE, "promised")
  PROVE  IInv'
<1>1. Turn(host.op, host.kind, host.pc) /\ host.kind \in Body /\ host.op \notin NodeOps /\ Busy
  BY AtStep
<1>2. host.kind = "enable"
  BY <1>1 DEF Turn, Searching
<1>3. host.cur \in host.lo .. host.hi /\ host.cur \in 0 .. MaxId /\ 0 \in 0 .. MaxId
  <2>1. host.cur \in host.lo .. host.hi
    BY <1>1, <1>2 DEF IInv, IdOK, Probes
  <2>2. QED
    BY <2>1, BenchAssumption, RunningIs DEF IInv, TypeOK, Ids
<1>4. Turn(host.op, "promisc", "promised") /\ Belongs(host.op, "promisc")
  BY DEF Searching, Turn, Belongs, NodeOps
<1>5. SweptBy(h, host.cur - 1)
  BY <1>2 DEF IInv, ProgressOK, SweptBy, Swept, Stays
<1>6. Fits(h, "promisc", host.cur, 0, "promised")
  BY <1>3, <1>4, <1>5 DEF Fits, Grown, Searching
<1>7. "promisc" \in Body /\ "promised" \in Steps
  BY DEF Body, Kinds, Steps
<1>8. QED
  BY <1>3, <1>6, <1>7, AskKeeps DEF Grown

LEMMA RsKeeps ==
  ASSUME IInv, RsDiscoverAll
  PROVE  IInv'
<1> DEFINE next == [host EXCEPT !.cur = @ + 1,
                      !.found = IF Found THEN @ \cup {<<host.bus, Hit(host.resp)>>} ELSE @]
<1>1. /\ host.op = "discover" /\ fam = "RS" /\ Searching /\ host \in Running
      /\ Turn(host.op, "enable", "enabled") /\ Belongs(host.op, "enable")
  BY DEF RsDiscoverAll, Searching, Turn, Belongs, NodeOps, IInv, TypeOK
<1>2. CASE host.pc = "body" /\ Enable([host EXCEPT !.begun = Begun])
  BY <1>1, <1>2, BodyEnable
<1>3. CASE host.pc \in {"enabled", "promised"} /\ Enable(next)
  <2>1. PICK h : h = next
    OBVIOUS
  <2>2. host.kind \in Body /\ Busy /\ host.kind \in Probes
    BY <1>3, AtStep DEF Turn, NodeOps, Probes
  <2>3. /\ Grown(h, IF Found THEN host.found \cup {<<host.bus, Hit(host.resp)>>} ELSE host.found,
                 host.cur + 1)
        /\ Stays(h)
    BY <1>1, <1>3, <2>1, <2>2, NextIs
  <2>4. SweptBy(h, h.cur - 1)
    BY <1>1, <1>3, <2>3, NextSwept
  <2>5. IF h.cur <= h.hi THEN Ask(h, "enable", h.cur, 0, TRUE, "enabled") ELSE Leave(h)
    BY <1>3, <2>1, Zenon DEF Enable
  <2>6. QED
    BY <1>1, <1>3, <2>2, <2>3, <2>4, <2>5, ProbeNext DEF Grown
<1>4. CASE host.pc = "enabled" /\ Ask(host, "promisc", host.cur, 0, TRUE, "promised")
  <2>1. Grown(host, host.found, host.cur) /\ host.kind \in Body /\ Busy
    BY <1>1, <1>4, AtStep DEF Grown, Ahead, SameOp
  <2>2. Stays(host)
    BY <1>1, <2>1, GrownStays DEF IInv, IdOK
  <2>3. QED
    BY <1>1, <1>4, <2>1, <2>2, PromiscKeeps
<1>5. QED
  BY <1>2, <1>3, <1>4 DEF RsDiscoverAll

LEMMA MultiKeeps ==
  ASSUME IInv, RsDiscoverAllByBus
  PROVE  IInv'
<1> DEFINE own(x) == IF x[1] \in host.all THEN x ELSE <<host.bus, x[2]>>
           F      == host.found \cup {own(x) : x \in host.hits}
           noted  == [host EXCEPT !.found = @ \cup {own(x) : x \in host.hits}]
<1>1. /\ host.op = "multi" /\ fam = "RS" /\ Searching /\ host \in Running
      /\ Turn(host.op, "enable", "enabled") /\ Belongs(host.op, "enable")
  BY RsOnly DEF RsDiscoverAllByBus, Searching, Turn, Belongs, NodeOps, IInv, TypeOK
<1>2. CASE host.pc = "body" /\ Enable([host EXCEPT !.begun = Begun])
  BY <1>1, <1>2, BodyEnable
<1>3. ASSUME host.pc \in {"enabled", "promised"}
      PROVE  /\ F \in SUBSET (Buses \X (0 .. MaxId))
             /\ ~host.tainted /\ Opened => \A x \in F : x \in host.found \/ At(x[1], x[2]) # {}
             /\ Clean /\ host.pc = "promised" =>
                  \A b \in host.mask : At(b, host.id) # {} => <<b, host.id>> \in F
             /\ host.kind \in {"enable", "promisc"} /\ host.kind \in Body /\ Busy
             /\ host.cur \in host.lo .. host.hi /\ host.id = host.cur
  <2>1. host.kind \in {"enable", "promisc"} /\ host.kind \in Body /\ Busy
    BY <1>1, <1>3, AtStep DEF Turn, NodeOps
  <2>2. \A x \in host.hits : own(x) \in Buses \X (0 .. MaxId)
    BY <1>1, RunningIs
  <2>3. host.mask = host.all
    BY <1>1 DEF IInv, ScriptOK
  <2>4. ASSUME ~host.tainted, Opened, NEW x \in host.hits
        PROVE  At(own(x)[1], own(x)[2]) # {}
    <3>1. RealAt(x)
      BY <2>1, <2>4 DEF IInv, ExchangeOK, Probes
    <3>2. At(x[1], x[2]) # {} /\ x[1] \in host.all
      BY <2>3, <2>4, <3>1 DEF RealAt
    <3>3. QED
      BY <3>2
  <2>5. ASSUME Clean, host.pc = "promised", NEW b \in host.mask, At(b, host.id) # {}
        PROVE  <<b, host.id>> \in F
    <3>1. Collected(<<>>)
      BY <1>1, <2>5 DEF IInv, CleanOK
    <3>2. \A i \in 1 .. Len(<<>>) : FALSE
      BY EmptyIs
    <3>3. <<b, host.id>> \in host.hits
      BY <2>5, <3>1, <3>2 DEF Collected
    <3>4. own(<<b, host.id>>) = <<b, host.id>>
      BY <2>3, <2>5
    <3>5. QED
      BY <3>3, <3>4
  <2>6. host.cur \in host.lo .. host.hi /\ host.id = host.cur
    BY <1>1, <1>3, <2>1 DEF IInv, IdOK, Probes
  <2>7. F \in SUBSET (Buses \X (0 .. MaxId))
    BY <1>1, <2>2, RunningIs
  <2>8. ~host.tainted /\ Opened => \A x \in F : x \in host.found \/ At(x[1], x[2]) # {}
    BY <2>4
  <2>9. Clean /\ host.pc = "promised" =>
          \A b \in host.mask : At(b, host.id) # {} => <<b, host.id>> \in F
    BY <2>5
  <2>10. QED
    BY <2>1, <2>6, <2>7, <2>8, <2>9
<1>4. host.found \subseteq F
  OBVIOUS
<1>5. noted = [host EXCEPT !.found = F]
  OBVIOUS
<1>6. \/ host.pc = "body" /\ Enable([host EXCEPT !.begun = Begun])
      \/ host.pc = "enabled" /\ Ask(noted, "promisc", host.cur, 0, TRUE, "promised")
      \/ host.pc = "promised" /\ Enable([noted EXCEPT !.cur = @ + 1])
  BY DEF RsDiscoverAllByBus
<1>7. PICK g : g = noted
  OBVIOUS
<1> HIDE DEF F, noted
<1>8. ASSUME host.pc \in {"enabled", "promised"}
      PROVE  Grown(g, F, host.cur)
  BY <1>1, <1>3, <1>5, <1>7, <1>8, GrownIs, RunningIs
<1>9. /\ host.lo \in Nat /\ host.hi \in Nat /\ host.hi <= MaxId /\ MaxId \in Nat /\ host.lo >= 1
      /\ host.cur \in Nat
  BY <1>1, BenchAssumption, RunningIs DEF Ids
<1>10. CASE host.pc = "enabled" /\ Ask(noted, "promisc", host.cur, 0, TRUE, "promised")
  <2>1. Stays(g)
    BY <1>1, <1>3, <1>4, <1>8, <1>9, <1>10, GrownStays
  <2>2. QED
    BY <1>1, <1>7, <1>8, <1>10, <2>1, PromiscKeeps
<1>11. CASE host.pc = "promised" /\ Enable([noted EXCEPT !.cur = @ + 1])
  <2>1. PICK h : h = [g EXCEPT !.cur = @ + 1]
    OBVIOUS
  <2>2. g \in Running /\ g.cur = host.cur /\ host.cur + 1 \in 1 .. MaxId + 1
    BY <1>3, <1>8, <1>9, <1>11 DEF Grown, Ahead
  <2>3. Grown(h, F, host.cur + 1)
    <3>1. h \in Running
      BY <2>1, <2>2 DEF Running
    <3>2. /\ h.found = g.found /\ h.cur = host.cur + 1 /\ h.begun = g.begun /\ h.tainted = g.tainted
          /\ h.kind = g.kind /\ h.id = g.id /\ h.ret = g.ret /\ h.resp = g.resp
          /\ h.saw = g.saw /\ h.hits = g.hits /\ SameOp(g, h)
      BY <2>1, <2>2 DEF Running, SameOp
    <3>3. Grown(g, F, host.cur)
      BY <1>8, <1>11
    <3>4. QED
      BY <3>1, <3>2, <3>3 DEF Grown, Ahead, SameOp
  <2>4. Stays(h)
    BY <1>1, <1>3, <1>4, <1>9, <1>11, <2>3, GrownStays
  <2>5. SweptBy(h, h.cur - 1)
    <3> SUFFICES ASSUME Clean, NEW b \in host.mask, NEW d \in Drives,
                        drv[d].bus = b, drv[d].id \in host.lo .. host.cur
                 PROVE  <<b, drv[d].id>> \in F
      BY <1>9, <2>3 DEF SweptBy, Grown
    <3>1. CASE drv[d].id \in host.lo .. (host.cur - 1)
      BY <1>1, <1>3, <1>4, <1>11, <3>1 DEF IInv, ProgressOK, Swept
    <3>2. CASE drv[d].id = host.cur
      BY <1>3, <1>11, <3>2 DEF At
    <3>3. QED
      BY <1>9, <3>1, <3>2
  <2>6. Enable(h)
    BY <1>7, <1>11, <2>1, Zenon
  <2>7. IF h.cur <= h.hi THEN Ask(h, "enable", h.cur, 0, TRUE, "enabled") ELSE Leave(h)
    BY <2>6 DEF Enable
  <2>8. QED
    BY <1>1, <1>3, <1>11, <2>3, <2>4, <2>5, <2>7, ProbeNext DEF Grown
<1>12. QED
  BY <1>2, <1>6, <1>10, <1>11

-----------------------------------------------------------------------------
(* The invariant.                                                          *)

LEMMA InitOK == Init => IInv
<1> SUFFICES ASSUME Init PROVE IInv
  OBVIOUS
<1>1. PICK on \in BOOLEAN : host = Idle(on)
  BY DEF Init
<1>2. /\ host \in Running /\ host.pc = "idle" /\ host.op = "none" /\ host.kind = "none"
      /\ host.found = {} /\ host.begun = FALSE /\ host.cells = <<>> /\ host.tainted = FALSE
  BY <1>1, IdleIs
<1>3. toFw = <<>> /\ leased = {} /\ reader = <<>>
      /\ used = [runs |-> 0, lost |-> 0, late |-> 0, stops |-> 0]
  BY DEF Init
<1>4. drv \in [Drives -> Drive]
  <2>1. PICK at \in [Drives -> Buses \X Ids] :
          drv = [d \in Drives |-> [bus |-> at[d][1], id |-> at[d][2], saved |-> at[d][2],
                                   zero |-> "off", spun |-> FALSE, seen |-> FALSE]]
    BY DEF Init
  <2>2. \A d \in Drives : at[d][1] \in Buses /\ at[d][2] \in Ids
    OBVIOUS
  <2>3. QED
    BY <2>1, <2>2 DEF Drive
<1>5. TypeOK
  BY <1>2, <1>3, <1>4, EmptyIs DEF TypeOK, Families, Init
<1>6. ~Searching /\ Range(<<>>) = {}
  BY <1>2, EmptyRange DEF Searching
<1>7. ScriptOK
  <2>1. Belongs(host.op, host.kind)
    BY <1>2 DEF Belongs, NodeOps
  <2>2. QED
    BY <1>2, <1>6, <2>1 DEF ScriptOK, NodeOps
<1>8. \A i \in 1 .. Len(toFw) : FALSE
  BY <1>3, EmptyIs
<1>9. IdOK
  BY <1>2, <1>6, <1>8 DEF IdOK
<1>10. FreshOK /\ LeaseOK /\ ExchangeOK
  BY <1>2 DEF FreshOK, LeaseOK, ExchangeOK, Busy
<1>11. FoundOK /\ SureOK
  BY <1>2, <1>8 DEF FoundOK, HitsAreReal, SureOK
<1>12. CleanOK /\ CleanLease
  BY <1>2, <1>3 DEF CleanOK, CleanLease
<1>13. ProgressOK
  BY <1>6 DEF ProgressOK
<1>14. QED
  BY <1>5, <1>7, <1>9, <1>10, <1>11, <1>12, <1>13 DEF IInv

LEMMA HostKeeps ==
  ASSUME IInv, HostStep
  PROVE  IInv'
<1>1. CASE Rs2SessionBegin \/ SessionBegin
  <2>1. PICK drain \in BOOLEAN : host.pc = "begin" /\ Ask(host, "begin", 0, 0, drain, "body")
    BY <1>1 DEF Rs2SessionBegin, SessionBegin
  <2>2. QED
    BY <2>1, BeginKeeps
<1>2. CASE Rs2SessionEnd \/ SessionEnd
  <2>1. PICK drain \in BOOLEAN : host.pc = "end" /\ Ask(host, "end", 0, 0, drain, "restore")
    BY <1>2 DEF Rs2SessionEnd, SessionEnd
  <2>2. QED
    BY <2>1, EndKeeps
<1>3. CASE CmDiscoverAll \/ ZeDiscoverAll
  <2>1. fam \in {"CM", "ZE"} /\ SweepAll /\ host.op = "discover"
    BY <1>3 DEF CmDiscoverAll, ZeDiscoverAll, SweepAll, IInv, ScriptOK, Belongs
  <2>2. QED
    BY <2>1, SweepAllKeeps DEF SweepAll
<1>4. QED
  BY <1>1, <1>2, <1>3, RestoreKeeps, DmKeeps, ZeProbeKeeps, RsKeeps, MultiKeeps, RsProbeKeeps,
     SetCanIdKeeps, CalibrateKeeps, PopKeeps, TimeoutKeeps DEF HostStep

LEMMA Inductive == IInv /\ [Next]_vars => IInv'
<1> SUFFICES ASSUME IInv, [Next]_vars PROVE IInv'
  OBVIOUS
<1>1. CASE Next
  BY <1>1, StartKeeps, HostKeeps, InterruptKeeps, ServeKeeps, DropKeeps, StaleKeeps DEF Next
<1>2. CASE UNCHANGED vars
  <2>1. UNCHANGED <<fam, drv, toFw, leased, reader, host, used>>
    BY <1>2 DEF vars
  <2>2. TypeOK' /\ ScriptOK'
    BY <2>1 DEF IInv, TypeOK, ScriptOK, Belongs, Turn, Searching
  <2>3. IdOK' /\ FreshOK' /\ LeaseOK'
    BY <2>1 DEF IInv, IdOK, FreshOK, LeaseOK, Begun, Busy, Searching
  <2>4. /\ \A b, i : At(b, i)' = At(b, i)
        /\ \A r : Answering(r)' = Answering(r)
    BY <2>1 DEF Answering, At
  <2>5. ExchangeOK'
    BY <2>1, <2>4 DEF IInv, ExchangeOK, Busy, Asked, Heard, Real, RealAt, Opened
  <2>6. FoundOK' /\ SureOK'
    BY <2>1, <2>4 DEF IInv, FoundOK, HitsAreReal, SureOK, Searching
  <2>7. CleanOK'
    <3>1. \A f : Exact(f)' <=> Exact(f)
      BY <2>1, <2>4, SameExact
    <3>2. (Exact(reader[1])' <=> Exact(reader[1])) /\ (Exact(host.resp)' <=> Exact(host.resp))
      BY <2>1, <3>1
    <3>3. /\ Collected(reader)' <=> Collected(reader)
          /\ Collected(<<>>)' <=> Collected(<<>>)
      BY <2>1, <2>4 DEF Collected
    <3>4. Answered' <=> Answered
      BY <2>1, <3>2, <3>3 DEF Answered, Collects, Probes
    <3>5. QED
      BY <2>1, <3>2, <3>3, <3>4 DEF IInv, CleanOK, Clean, Asked, Heard
  <2>8. CleanLease' /\ ProgressOK'
    BY <2>1 DEF IInv, CleanLease, ProgressOK, Clean, Searching, Swept, Busy
  <2>9. QED
    BY <2>2, <2>3, <2>5, <2>6, <2>7, <2>8 DEF IInv
<1>3. QED
  BY <1>1, <1>2

(* The invariant behind the bench: the operation is where its script says,  *)
(* and what is on the wire belongs to the exchange it is in, unless a       *)
(* timeout has let an earlier answer in.                                   *)
THEOREM BenchInvariant == Spec => []IInv
<1>1. Init => IInv
  BY InitOK
<1>2. IInv /\ [Next]_vars => IInv'
  BY Inductive
<1>3. QED
  BY <1>1, <1>2, PTL DEF Spec

(* What a discover reports: debug/robstride.py, damiao.py, cubemars.py and  *)
(* zeroerr.py take a frame for the answer of their probe by kind and id;    *)
(* every drive they report is nevertheless where it is reported, unless a   *)
(* timeout let an earlier answer in or RobStride's session was not opened. *)
THEOREM HitsReal == Spec => []HitsAreReal
<1>1. IInv => HitsAreReal
  BY DEF IInv, FoundOK
<1>2. QED
  BY <1>1, BenchInvariant, PTL

(* A discover leaves no drive of its range out, on any of its buses and     *)
(* whichever ids the drives have, when nothing was lost or cut short.      *)
THEOREM AllFound == Spec => []FoundAll
<1>1. IInv => FoundAll
  <2> SUFFICES ASSUME IInv, host.pc = "restore", host.cells = <<>>, host.op \in {"discover", "multi"},
                      used.lost = 0, used.late = 0, used.stops = 0, NEW d \in Drives,
                      drv[d].bus \in host.all, drv[d].id \in host.lo .. host.hi
               PROVE  <<drv[d].bus, drv[d].id>> \in host.found
    BY DEF FoundAll
  <2>1. Clean /\ Searching
    BY DEF Clean, Searching
  <2>2. Swept(drv[d].bus, host.hi)
    <3>1. CASE drv[d].bus \in host.mask
      BY <2>1, <3>1 DEF IInv, ProgressOK
    <3>2. CASE drv[d].bus \notin host.mask
      <4>1. drv[d].bus \in host.all \ (Range(host.cells) \cup host.mask)
        BY <3>2, EmptyRange
      <4>2. QED
        BY <2>1, <4>1 DEF IInv, ProgressOK
    <3>3. QED
      BY <3>1, <3>2
  <2>3. QED
    BY <2>2 DEF Swept
<1>2. QED
  BY <1>1, BenchInvariant, PTL

\* What changes for good in a drive, the request that is served asked for.
LEMMA OnlyServed ==
  ASSUME IInv, [Next]_vars, NEW d \in Drives
  PROVE  /\ drv'[d].saved # drv[d].saved => drv[d].seen \/ ~Head(toFw).sure
         /\ drv[d].zero = "off" /\ drv'[d].zero # "off" => drv[d].spun \/ ~Head(toFw).sure
<1>1. CASE Serve
  <2>1. Taken /\ \E a \in Answers(toFw[1]) : Leaves(toFw[1], a)
    BY <1>1, ServeIs DEF IInv
  <2>2. /\ drv'[d].saved # drv[d].saved => toFw[1].kind = "save" /\ d \in At(toFw[1].bus, toFw[1].id)
        /\ drv[d].zero = "off" /\ drv'[d].zero # "off"
             => toFw[1].kind = "zero" /\ d \in At(toFw[1].bus, toFw[1].id)
    BY <2>1 DEF Leaves
  <2>3. Head(toFw) = toFw[1] /\ 1 \in 1 .. Len(toFw)
    BY <2>1, TailIs DEF Taken, IInv, TypeOK
  <2>4. toFw[1].sure /\ toFw[1].kind \in {"save", "zero"} =>
          \A e \in At(toFw[1].bus, toFw[1].id) : drv[e].seen /\ (toFw[1].kind = "zero" => drv[e].spun)
    BY <2>3 DEF IInv, SureOK
  <2>5. QED
    BY <2>2, <2>3, <2>4
<1>2. CASE UNCHANGED drv
  BY <1>2
<1>3. [Next]_vars => Serve \/ UNCHANGED drv
  BY DEF Next, vars, UserCommand, DiscoverQueued, SetCanIdCommand, RobstrideCommand, ZeroErrCommand,
         Start, HostStep, Rs2SessionBegin, SessionBegin, Rs2SessionEnd, SessionEnd, Restore, DmDiscoverAll,
         CmDiscoverAll, ZeDiscoverAll, SweepAll, Sweep, Scan, ZeProbe, RsDiscoverAll, RsDiscoverAllByBus,
         Enable, RsProbe, SetCanId, Calibrate, CalPrep, CalTest, CalVolts, CalListen, CalZero, CalSave,
         CalVerify, CalAsk, Ask, Leave, Pop, Timeout, Interrupt, CalAborted, Drop, StaleHost
<1>4. QED
  BY <1>1, <1>2, <1>3

(* Whatever is lost, late or cut short, an id is made permanent only in a   *)
(* drive that answered to it (set_can_id saves behind its verification),    *)
(* unless a timeout let an earlier answer in for that verification.        *)
THEOREM DoubtfulSaved == Spec => DoubtfulNeverSaved
<1>1. IInv /\ [Next]_vars => [\A d \in Drives :
         drv'[d].saved # drv[d].saved => drv[d].seen \/ ~Head(toFw).sure]_vars
  BY OnlyServed
<1>2. QED
  BY <1>1, BenchInvariant, PTL DEF Spec, DoubtfulNeverSaved

(* A drive is zeroed only behind its own calibration: _cal_body asks for it *)
(* after it has seen the motor calibrating, whatever else has been about,   *)
(* unless a timeout let an earlier calibration's answer in for this one's. *)
THEOREM CaliZeroed == Spec => ZeroedAfterCali
<1>1. IInv /\ [Next]_vars => [\A d \in Drives :
         drv[d].zero = "off" /\ drv'[d].zero # "off" => drv[d].spun \/ ~Head(toFw).sure]_vars
  BY OnlyServed
<1>2. QED
  BY <1>1, BenchInvariant, PTL DEF Spec, ZeroedAfterCali
=============================================================================
