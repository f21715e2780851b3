------------------------------ MODULE ByteFifo ------------------------------
(* What the receive rings of the firmware promise: a bounded first-in      *)
(* first-out pipe.  A push keeps the longest prefix of its bytes that      *)
(* fits and loses the rest; a read returns some of the oldest bytes.       *)
EXTENDS Naturals, Sequences

CONSTANTS Byte, Cap

VARIABLES queue,   \* bytes accepted and not yet read, oldest first
          out      \* what the last read returned

Least(a, b) == IF a < b THEN a ELSE b

Init == queue = <<>> /\ out = <<>>

Push(bytes) ==
  /\ queue' = queue \o SubSeq(bytes, 1, Least(Len(bytes), Cap - Len(queue)))
  /\ UNCHANGED out

Read(n) ==
  /\ out' = SubSeq(queue, 1, n)
  /\ queue' = SubSeq(queue, n + 1, Len(queue))

Next ==
  \/ \E n \in 1..Cap : \E bytes \in [1..n -> Byte] : Push(bytes)
  \/ \E n \in 1..Len(queue) : Read(n)

Spec == Init /\ [][Next]_<<queue, out>>
=============================================================================
