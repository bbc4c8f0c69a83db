------------------------------ MODULE SinkProofs ------------------------------
(***************************************************************************)
(* Proofs about the sinks: the retry queue, for any number of publishers,  *)
(* any length of the queue and any pattern of failures; and the way of a   *)
(* receipt to a SIEM, for any number of chunks and calls on the receipt.   *)
(*                                                                         *)
(* For the queue, the strengthening says how the queue, what has arrived   *)
(* and what was dropped fit together (`Shape`): receipts are numbered in   *)
(* the order of the lock, what has arrived is in order and not newer than  *)
(* what waits, and both are the same receipt only after a late             *)
(* acknowledgement.                                                        *)
(*                                                                         *)
(* For the export it says what the receipt records of each chunk and call  *)
(* (`ReceiptAgrees`), and of its events that those the adapter has yet to  *)
(* forward are the last ones, in order, and that each of the others is at  *)
(* the stream, was let go, or waits in the queue, in order (`Rest`).       *)
(***************************************************************************)
EXTENDS RetryQueue, ReceiptExport, SequenceTheorems, FiniteSetTheorems, WellFoundedInduction, TLAPS

(* Appending to, and taking the head off, a queue. *)
LEMMA Appended ==
  ASSUME NEW S, NEW s \in Seq(S), NEW e \in S, NEW t, t = Append(s, e)
  PROVE  /\ Len(s) \in Nat /\ DOMAIN s = 1..Len(s)
         /\ t \in Seq(S) /\ Len(t) = Len(s) + 1 /\ DOMAIN t = 1..(Len(s) + 1)
         /\ \A i \in 1..Len(s) : t[i] = s[i]
         /\ t[Len(s) + 1] = e
BY AppendProperties

LEMMA AppendedRange ==
  ASSUME NEW S, NEW s \in Seq(S), NEW e \in S
  PROVE  Range(Append(s, e)) = Range(s) \cup {e}
<1>. DEFINE t == Append(s, e)
<1>1. DOMAIN t = 1..(Len(s) + 1)
  BY Appended
<1>2. (\A i \in 1..Len(s) : t[i] = s[i]) /\ t[Len(s) + 1] = e
  BY Appended
<1>3. Len(s) \in Nat /\ DOMAIN s = 1..Len(s)
  BY Appended
<1>4. \A i \in 1..(Len(s) + 1) : i \in 1..Len(s) \/ i = Len(s) + 1
  BY <1>3
<1>. HIDE DEF t
<1>5. Range(t) = Range(s) \cup {e}
  BY <1>1, <1>2, <1>3, <1>4 DEF Range
<1>. QED  BY <1>5 DEF t

LEMMA HeadTaken ==
  ASSUME NEW S, NEW s \in Seq(S), s # <<>>, NEW t, t = Tail(s)
  PROVE  /\ t \in Seq(S) /\ Len(t) = Len(s) - 1 /\ DOMAIN t = 1..(Len(s) - 1)
         /\ Len(s) \in Nat \ {0} /\ DOMAIN s = 1..Len(s)
         /\ \A i \in 1..(Len(s) - 1) : t[i] = s[i + 1] /\ i + 1 \in 1..Len(s)
         /\ Head(s) = s[1] /\ s[1] \in S
         /\ Range(s) = Range(t) \cup {s[1]}
<1>1. /\ t \in Seq(S) /\ Len(t) = Len(s) - 1
      /\ \A i \in 1..Len(t) : t[i] = s[i + 1]
      /\ Head(s) = s[1]
  BY HeadTailProperties
<1>2. Len(s) \in Nat \ {0} /\ DOMAIN s = 1..Len(s) /\ DOMAIN t = 1..Len(t)
  BY <1>1
<1>3. s[1] \in S
  BY <1>2, ElementOfSeq
<1>4. Range(s) = Range(t) \cup {s[1]}
  <2>1. \A i \in 1..Len(s) : i = 1 \/ (i - 1 \in 1..Len(t) /\ (i - 1) + 1 = i)
    BY <1>1, <1>2
  <2>2. Range(s) \subseteq Range(t) \cup {s[1]}
    <3>. SUFFICES ASSUME NEW i \in 1..Len(s) PROVE s[i] \in Range(t) \cup {s[1]}
      BY <1>2 DEF Range
    <3>1. CASE i = 1
      BY <3>1
    <3>2. CASE i - 1 \in 1..Len(t) /\ (i - 1) + 1 = i
      <4>1. t[i - 1] = s[i]
        BY <1>1, <3>2
      <4>. QED  BY <1>2, <3>2, <4>1 DEF Range
    <3>. QED  BY <2>1, <3>1, <3>2
  <2>3. \A i \in 1..Len(t) : i + 1 \in 1..Len(s)
    BY <1>1, <1>2
  <2>4. Range(t) \cup {s[1]} \subseteq Range(s)
    BY <1>1, <1>2, <2>3 DEF Range
  <2>. QED  BY <2>2, <2>4
<1>. QED  BY <1>1, <1>2, <1>3, <1>4

-----------------------------------------------------------------------------
(* The shape of the data: q waits, d has arrived, l arrived with an         *)
(* exception, x was dropped, n receipts were accepted and the last of them  *)
(* is still in hand.                                                        *)

InOrder(q, d) ==
    /\ \A i, j \in DOMAIN d : i < j => d[i] <= d[j]
    /\ \A i, j \in DOMAIN q : i < j => q[i] < q[j]
    /\ \A i \in DOMAIN d, j \in DOMAIN q : d[i] <= q[j]

Below(q, d, n) ==
    /\ \A i \in DOMAIN d : d[i] < n
    /\ \A j \in DOMAIN q : q[j] < n

OnlyLateTwice(q, d, l) ==
    /\ \A i, j \in DOMAIN d : (i # j /\ d[i] = d[j]) => d[i] \in l
    /\ \A i \in DOMAIN d, j \in DOMAIN q : d[i] = q[j] => d[i] \in l

Shape(q, d, l, x, n, hand) ==
    /\ n \in Nat /\ q \in Seq(Nat) /\ d \in Seq(Nat) /\ l \subseteq 1..n
    /\ InOrder(q, d)
    /\ OnlyLateTwice(q, d, l)
    /\ hand \in BOOLEAN
    /\ hand => n > 0 /\ Below(q, d, n)
    /\ 1..n = Range(d) \cup Range(q) \cup x \cup (IF hand THEN {n} ELSE {})

LEMMA ShapeElements ==
  ASSUME NEW q, NEW d, NEW l, NEW x, NEW n, NEW hand, Shape(q, d, l, x, n, hand)
  PROVE  /\ n \in Nat
         /\ Len(d) \in Nat /\ DOMAIN d = 1..Len(d) /\ \A i \in 1..Len(d) : d[i] \in 1..n
         /\ Len(q) \in Nat /\ DOMAIN q = 1..Len(q) /\ \A i \in 1..Len(q) : q[i] \in 1..n
<1>1. Len(d) \in Nat /\ DOMAIN d = 1..Len(d) /\ Len(q) \in Nat /\ DOMAIN q = 1..Len(q)
  BY DEF Shape
<1>. QED  BY <1>1 DEF Shape, Range

(* The downstream sink takes the oldest receipt. *)
LEMMA ShapeDrained ==
  ASSUME NEW q, NEW d, NEW l, NEW x, NEW n, NEW hand, Shape(q, d, l, x, n, hand), q # <<>>,
         NEW q2, q2 = Tail(q), NEW d2, d2 = Append(d, Head(q))
  PROVE  Shape(q2, d2, l, x, n, hand)
<1>. DEFINE N == Nat
            h == q[1]
<1>1. q \in Seq(N) /\ d \in Seq(N) /\ n \in Nat
  BY DEF Shape
<1>. HIDE DEF N
<1>2. /\ q2 \in Seq(N) /\ DOMAIN q2 = 1..(Len(q) - 1)
      /\ Len(q) \in Nat \ {0}
      /\ \A i \in 1..(Len(q) - 1) : q2[i] = q[i + 1] /\ i + 1 \in 1..Len(q)
      /\ Head(q) = h /\ h \in N
      /\ Range(q) = Range(q2) \cup {h}
  <2>1. q2 \in Seq(N) /\ DOMAIN q2 = 1..(Len(q) - 1) /\ Len(q) \in Nat \ {0}
    BY <1>1, HeadTaken
  <2>2. \A i \in 1..(Len(q) - 1) : q2[i] = q[i + 1] /\ i + 1 \in 1..Len(q)
    BY <1>1, HeadTaken
  <2>3. Head(q) = h /\ h \in N
    BY <1>1, HeadTaken
  <2>4. Range(q) = Range(q2) \cup {h}
    BY <1>1, HeadTaken
  <2>. QED  BY <2>1, <2>2, <2>3, <2>4
<1>. HIDE DEF h
<1>3. /\ d2 \in Seq(N) /\ DOMAIN d2 = 1..(Len(d) + 1)
      /\ \A i \in 1..Len(d) : d2[i] = d[i]
      /\ d2[Len(d) + 1] = h
      /\ Range(d2) = Range(d) \cup {h}
  <2>1. d2 = Append(d, h)
    BY <1>2
  <2>2. d2 \in Seq(N) /\ DOMAIN d2 = 1..(Len(d) + 1)
    BY <1>1, <1>2, <2>1, Appended
  <2>3. /\ \A i \in 1..Len(d) : d2[i] = d[i]
        /\ d2[Len(d) + 1] = h
    BY <1>1, <1>2, <2>1, Appended
  <2>4. Range(d2) = Range(d) \cup {h}
    BY <1>1, <1>2, <2>1, AppendedRange
  <2>. QED  BY <2>2, <2>3, <2>4
<1>. USE DEF N
<1>4. /\ Len(d) \in Nat /\ DOMAIN d = 1..Len(d) /\ \A i \in 1..Len(d) : d[i] \in 1..n
      /\ DOMAIN q = 1..Len(q) /\ \A i \in 1..Len(q) : q[i] \in 1..n
  BY ShapeElements
<1>5. /\ \A i, j \in 1..Len(d) : i < j => d[i] <= d[j]
      /\ \A i, j \in 1..Len(q) : i < j => q[i] < q[j]
      /\ \A i \in 1..Len(d), j \in 1..Len(q) : d[i] <= q[j]
  BY <1>4 DEF Shape, InOrder
<1>6. /\ \A i \in 1..Len(d) : d[i] <= h
      /\ \A j \in 1..(Len(q) - 1) : h < q2[j]
      /\ h \in 1..n
  BY <1>2, <1>4, <1>5 DEF h
<1>7. InOrder(q2, d2)
  <2>1. \A i, j \in 1..(Len(d) + 1) : i < j => d2[i] <= d2[j]
    <3>. SUFFICES ASSUME NEW i \in 1..(Len(d) + 1), NEW j \in 1..(Len(d) + 1), i < j
                  PROVE  d2[i] <= d2[j]
      OBVIOUS
    <3>1. i \in 1..Len(d) /\ (j \in 1..Len(d) \/ j = Len(d) + 1)
      <4>1. Len(d) \in Nat
        BY <1>4
      <4>. QED  BY <4>1
    <3>2. CASE j \in 1..Len(d)
      <4>1. d2[i] = d[i] /\ d2[j] = d[j]
        BY <1>3, <3>1, <3>2
      <4>. QED  BY <1>5, <3>1, <3>2, <4>1
    <3>3. CASE j = Len(d) + 1
      <4>1. d2[i] = d[i] /\ d2[j] = h
        BY <1>3, <3>1, <3>3
      <4>. QED  BY <1>6, <3>1, <4>1
    <3>. QED  BY <3>1, <3>2, <3>3
  <2>2. \A i, j \in 1..(Len(q) - 1) : i < j => q2[i] < q2[j]
    BY <1>2, <1>5
  <2>3. \A i \in 1..(Len(d) + 1), j \in 1..(Len(q) - 1) : d2[i] <= q2[j]
    BY <1>2, <1>3, <1>4, <1>5, <1>6
  <2>. QED  BY <1>2, <1>3, <2>1, <2>2, <2>3 DEF InOrder
<1>8. OnlyLateTwice(q2, d2, l)
  <2>1. /\ \A i, j \in 1..Len(d) : (i # j /\ d[i] = d[j]) => d[i] \in l
        /\ \A i \in 1..Len(d), j \in 1..Len(q) : d[i] = q[j] => d[i] \in l
    BY <1>4 DEF Shape, OnlyLateTwice
  <2>2. \A i \in 1..Len(d) : d[i] = h => h \in l
    BY <1>2, <2>1 DEF h
  <2>3. \A i, j \in 1..(Len(d) + 1) : (i # j /\ d2[i] = d2[j]) => d2[i] \in l
    <3>. SUFFICES ASSUME NEW i \in 1..(Len(d) + 1), NEW j \in 1..(Len(d) + 1), i # j, d2[i] = d2[j]
                  PROVE  d2[i] \in l
      OBVIOUS
    <3>1. (i <= Len(d) => i \in 1..Len(d)) /\ (j <= Len(d) => j \in 1..Len(d)) /\ (i <= Len(d) \/ j <= Len(d))
      BY <1>4
    <3>. QED  BY <1>3, <2>1, <2>2, <3>1
  <2>4. \A i \in 1..(Len(d) + 1), j \in 1..(Len(q) - 1) : d2[i] = q2[j] => d2[i] \in l
    <3>. SUFFICES ASSUME NEW i \in 1..(Len(d) + 1), NEW j \in 1..(Len(q) - 1), d2[i] = q2[j]
                  PROVE  d2[i] \in l
      OBVIOUS
    <3>1. (i <= Len(d) => i \in 1..Len(d)) /\ h # q2[j] /\ q2[j] = q[j + 1] /\ j + 1 \in 1..Len(q)
      BY <1>2, <1>4, <1>6
    <3>. QED  BY <1>3, <2>1, <3>1
  <2>. QED  BY <1>2, <1>3, <2>3, <2>4 DEF OnlyLateTwice
<1>9. hand => Below(q2, d2, n)
  <2>. SUFFICES ASSUME hand PROVE Below(q2, d2, n)
    OBVIOUS
  <2>1. (\A i \in 1..Len(d) : d[i] < n) /\ (\A i \in 1..Len(q) : q[i] < n) /\ h < n
    <3>1. Below(q, d, n) /\ 1 \in 1..Len(q)
      BY <1>2 DEF Shape
    <3>. QED  BY <1>4, <3>1 DEF Below, h
  <2>2. (\A i \in 1..(Len(d) + 1) : d2[i] < n) /\ (\A i \in 1..(Len(q) - 1) : q2[i] < n)
    BY <1>2, <1>3, <1>4, <2>1
  <2>. QED  BY <1>2, <1>3, <2>2 DEF Below
<1>10. 1..n = Range(d2) \cup Range(q2) \cup x \cup (IF hand THEN {n} ELSE {})
  BY <1>2, <1>3 DEF Shape
<1>. QED  BY <1>2, <1>3, <1>7, <1>8, <1>9, <1>10 DEF Shape

(* A receipt that is in nobody's hand and not newer than the queue arrives   *)
(* although the call raises.                                                *)
LEMMA ShapeLate ==
  ASSUME NEW q, NEW d, NEW l, NEW x, NEW n, NEW hand, Shape(q, d, l, x, n, hand),
         NEW r \in 1..n, \A i \in DOMAIN d : d[i] <= r, \A j \in DOMAIN q : r <= q[j],
         hand => r < n,
         NEW d2, d2 = Append(d, r), NEW l2, l2 = l \cup {r}
  PROVE  Shape(q, d2, l2, x, n, hand)
<1>. DEFINE N == Nat
<1>1. q \in Seq(N) /\ d \in Seq(N) /\ n \in Nat /\ r \in N
  BY DEF Shape
<1>. HIDE DEF N
<1>2. /\ d2 \in Seq(N) /\ DOMAIN d2 = 1..(Len(d) + 1)
      /\ \A i \in 1..Len(d) : d2[i] = d[i]
      /\ d2[Len(d) + 1] = r
      /\ Range(d2) = Range(d) \cup {r}
  <2>1. d2 \in Seq(N) /\ DOMAIN d2 = 1..(Len(d) + 1)
    BY <1>1, Appended
  <2>2. /\ \A i \in 1..Len(d) : d2[i] = d[i]
        /\ d2[Len(d) + 1] = r
    BY <1>1, Appended
  <2>3. Range(d2) = Range(d) \cup {r}
    BY <1>1, AppendedRange
  <2>. QED  BY <2>1, <2>2, <2>3
<1>. USE DEF N
<1>3. /\ Len(d) \in Nat /\ DOMAIN d = 1..Len(d) /\ \A i \in 1..Len(d) : d[i] \in 1..n
      /\ DOMAIN q = 1..Len(q) /\ \A i \in 1..Len(q) : q[i] \in 1..n
  BY ShapeElements
<1>4. \A i \in 1..(Len(d) + 1) : i <= Len(d) => i \in 1..Len(d)
  BY <1>3
<1>5. InOrder(q, d2)
  <2>1. \A i, j \in 1..Len(d) : i < j => d[i] <= d[j]
    BY <1>3 DEF Shape, InOrder
  <2>2. \A i, j \in 1..(Len(d) + 1) : i < j => d2[i] <= d2[j]
    <3>. SUFFICES ASSUME NEW i \in 1..(Len(d) + 1), NEW j \in 1..(Len(d) + 1), i < j
                  PROVE  d2[i] <= d2[j]
      OBVIOUS
    <3>1. i \in 1..Len(d) /\ (j \in 1..Len(d) \/ j = Len(d) + 1)
      <4>1. Len(d) \in Nat
        BY <1>3
      <4>. QED  BY <4>1
    <3>2. d2[i] = d[i] /\ d[i] <= r
      BY <1>2, <1>3, <3>1
    <3>3. CASE j \in 1..Len(d)
      BY <1>2, <2>1, <3>1, <3>3
    <3>4. CASE j = Len(d) + 1
      BY <1>2, <3>2, <3>4
    <3>. QED  BY <3>1, <3>3, <3>4
  <2>3. \A i \in 1..Len(d), j \in DOMAIN q : d[i] <= q[j]
    BY <1>3 DEF Shape, InOrder
  <2>4. \A i \in 1..(Len(d) + 1), j \in DOMAIN q : d2[i] <= q[j]
    BY <1>2, <1>4, <2>3
  <2>. QED  BY <1>2, <2>2, <2>4 DEF Shape, InOrder
<1>6. OnlyLateTwice(q, d2, l2)
  <2>1. /\ \A i, j \in 1..Len(d) : (i # j /\ d[i] = d[j]) => d[i] \in l
        /\ \A i \in 1..Len(d), j \in DOMAIN q : d[i] = q[j] => d[i] \in l
    BY <1>3 DEF Shape, OnlyLateTwice
  <2>2. \A i, j \in 1..(Len(d) + 1) : (i # j /\ d2[i] = d2[j]) => d2[i] \in l2
    <3>. SUFFICES ASSUME NEW i \in 1..(Len(d) + 1), NEW j \in 1..(Len(d) + 1), i # j, d2[i] = d2[j]
                  PROVE  d2[i] \in l2
      OBVIOUS
    <3>1. (i <= Len(d) => i \in 1..Len(d)) /\ (j <= Len(d) => j \in 1..Len(d))
      BY <1>4
    <3>. QED  BY <1>2, <2>1, <3>1
  <2>3. \A i \in 1..(Len(d) + 1), j \in DOMAIN q : d2[i] = q[j] => d2[i] \in l2
    BY <1>2, <1>4, <2>1
  <2>. QED  BY <1>2, <2>2, <2>3 DEF OnlyLateTwice
<1>7. hand => Below(q, d2, n)
  <2>. SUFFICES ASSUME hand PROVE Below(q, d2, n)
    OBVIOUS
  <2>1. (\A i \in 1..Len(d) : d[i] < n) /\ (\A i \in DOMAIN q : q[i] < n) /\ r < n
    BY <1>3 DEF Shape, Below
  <2>. QED  BY <1>2, <1>4, <2>1 DEF Below
<1>8. 1..n = Range(d2) \cup Range(q) \cup x \cup (IF hand THEN {n} ELSE {})
  BY <1>2 DEF Shape
<1>9. l2 \subseteq 1..n
  BY DEF Shape
<1>. QED  BY <1>2, <1>5, <1>6, <1>7, <1>8, <1>9 DEF Shape

(* The receipt in hand is queued; a queue that is full lets the oldest go.   *)
LEMMA ShapeQueued ==
  ASSUME NEW q, NEW d, NEW l, NEW x, NEW n, Shape(q, d, l, x, n, TRUE),
         NEW q2, q2 = Append(q, n)
  PROVE  Shape(q2, d, l, x, n, FALSE) /\ q2 # <<>>
<1>. DEFINE N == Nat
<1>1. q \in Seq(N) /\ n \in N
  BY DEF Shape
<1>. HIDE DEF N
<1>2. /\ q2 \in Seq(N) /\ DOMAIN q2 = 1..(Len(q) + 1) /\ Len(q2) = Len(q) + 1
      /\ \A i \in 1..Len(q) : q2[i] = q[i]
      /\ q2[Len(q) + 1] = n
      /\ Range(q2) = Range(q) \cup {n}
  <2>1. q2 \in Seq(N) /\ DOMAIN q2 = 1..(Len(q) + 1) /\ Len(q2) = Len(q) + 1
    BY <1>1, Appended
  <2>2. /\ \A i \in 1..Len(q) : q2[i] = q[i]
        /\ q2[Len(q) + 1] = n
    BY <1>1, Appended
  <2>3. Range(q2) = Range(q) \cup {n}
    BY <1>1, AppendedRange
  <2>. QED  BY <2>1, <2>2, <2>3
<1>. USE DEF N
<1>3. /\ DOMAIN d = 1..Len(d) /\ \A i \in 1..Len(d) : d[i] \in 1..n
      /\ Len(q) \in Nat /\ DOMAIN q = 1..Len(q) /\ \A i \in 1..Len(q) : q[i] \in 1..n
  BY ShapeElements
<1>4. /\ \A i \in DOMAIN d : d[i] < n
      /\ \A i \in 1..Len(q) : q[i] < n
  BY <1>3 DEF Shape, Below
<1>5. \A i \in 1..(Len(q) + 1) : i <= Len(q) => i \in 1..Len(q)
  BY <1>3
<1>6. InOrder(q2, d)
  <2>1. /\ \A i, j \in 1..Len(q) : i < j => q[i] < q[j]
        /\ \A i \in DOMAIN d, j \in 1..Len(q) : d[i] <= q[j]
    BY <1>3 DEF Shape, InOrder
  <2>2. \A i, j \in 1..(Len(q) + 1) : i < j => q2[i] < q2[j]
    <3>. SUFFICES ASSUME NEW i \in 1..(Len(q) + 1), NEW j \in 1..(Len(q) + 1), i < j
                  PROVE  q2[i] < q2[j]
      OBVIOUS
    <3>1. i \in 1..Len(q) /\ (j <= Len(q) => j \in 1..Len(q))
      BY <1>3
    <3>. QED  BY <1>1, <1>2, <1>3, <1>4, <2>1, <3>1
  <2>3. \A i \in DOMAIN d, j \in 1..(Len(q) + 1) : d[i] <= q2[j]
    BY <1>1, <1>2, <1>3, <1>4, <1>5, <2>1
  <2>. QED  BY <1>2, <2>2, <2>3 DEF Shape, InOrder
<1>7. OnlyLateTwice(q2, d, l)
  <2>1. \A i \in DOMAIN d, j \in 1..Len(q) : d[i] = q[j] => d[i] \in l
    BY <1>3 DEF Shape, OnlyLateTwice
  <2>2. \A i \in DOMAIN d : d[i] # n
    BY <1>1, <1>3, <1>4
  <2>3. \A i \in DOMAIN d, j \in 1..(Len(q) + 1) : d[i] = q2[j] => d[i] \in l
    BY <1>2, <1>5, <2>1, <2>2
  <2>. QED  BY <1>2, <2>3 DEF Shape, OnlyLateTwice
<1>8. 1..n = Range(d) \cup Range(q2) \cup x
  BY <1>2 DEF Shape
<1>9. q2 # <<>>
  BY <1>2, <1>3
<1>. QED  BY <1>2, <1>6, <1>7, <1>8, <1>9 DEF Shape

LEMMA ShapeDropped ==
  ASSUME NEW q, NEW d, NEW l, NEW x, NEW n, NEW hand, Shape(q, d, l, x, n, hand), q # <<>>,
         NEW q2, q2 = Tail(q), NEW x2, x2 = x \cup {Head(q)}
  PROVE  Shape(q2, d, l, x2, n, hand)
<1>. DEFINE N == Nat
<1>1. q \in Seq(N)
  BY DEF Shape
<1>. HIDE DEF N
<1>2. /\ q2 \in Seq(N) /\ DOMAIN q2 = 1..(Len(q) - 1)
      /\ Len(q) \in Nat \ {0} /\ DOMAIN q = 1..Len(q)
      /\ \A i \in 1..(Len(q) - 1) : q2[i] = q[i + 1] /\ i + 1 \in 1..Len(q)
      /\ Head(q) = q[1]
      /\ Range(q) = Range(q2) \cup {q[1]}
  <2>1. /\ q2 \in Seq(N) /\ DOMAIN q2 = 1..(Len(q) - 1)
        /\ Len(q) \in Nat \ {0} /\ DOMAIN q = 1..Len(q)
    BY <1>1, HeadTaken
  <2>2. \A i \in 1..(Len(q) - 1) : q2[i] = q[i + 1] /\ i + 1 \in 1..Len(q)
    BY <1>1, HeadTaken
  <2>3. Head(q) = q[1]
    BY <1>1, HeadTaken
  <2>4. Range(q) = Range(q2) \cup {q[1]}
    BY <1>1, HeadTaken
  <2>. QED  BY <2>1, <2>2, <2>3, <2>4
<1>. USE DEF N
<1>3. InOrder(q2, d)
  <2>1. InOrder(q, d)
    BY DEF Shape
  <2>2. \A i, j \in 1..(Len(q) - 1) : i < j => i + 1 < j + 1
    BY <1>2
  <2>3. \A i, j \in DOMAIN q2 : i < j => q2[i] < q2[j]
    BY <1>2, <2>1, <2>2 DEF InOrder
  <2>. QED  BY <1>2, <2>1, <2>3 DEF InOrder
<1>4. OnlyLateTwice(q2, d, l)
  BY <1>2 DEF Shape, OnlyLateTwice
<1>5. hand => Below(q2, d, n)
  BY <1>2 DEF Shape, Below
<1>6. 1..n = Range(d) \cup Range(q2) \cup x2 \cup (IF hand THEN {n} ELSE {})
  BY <1>2 DEF Shape
<1>. QED  BY <1>2, <1>3, <1>4, <1>5, <1>6 DEF Shape

(* What ShapeLate asks for holds of the oldest receipt in the queue. *)
LEMMA ShapeHeadLate ==
  ASSUME NEW q, NEW d, NEW l, NEW x, NEW n, NEW hand, Shape(q, d, l, x, n, hand), q # <<>>,
         NEW d2, d2 = Append(d, Head(q)), NEW l2, l2 = l \cup {Head(q)}
  PROVE  Shape(q, d2, l2, x, n, hand)
<1>. DEFINE h == q[1]
<1>1. q \in Seq(Nat)
  BY DEF Shape
<1>2. Head(q) = h /\ Len(q) \in Nat \ {0} /\ DOMAIN q = 1..Len(q)
  BY <1>1, HeadTaken
<1>3. 1 \in 1..Len(q) /\ \A j \in DOMAIN q : j = 1 \/ 1 < j
  BY <1>2
<1>4. h \in 1..n
  BY <1>3, ShapeElements
<1>5. \A i \in DOMAIN d : d[i] <= h
  BY <1>2, <1>3 DEF Shape, InOrder
<1>6. \A j \in DOMAIN q : h <= q[j]
  <2>. SUFFICES ASSUME NEW j \in DOMAIN q PROVE h <= q[j]
    OBVIOUS
  <2>1. q[j] \in 1..n /\ n \in Nat
    BY <1>2, ShapeElements
  <2>2. 1 < j => h < q[j]
    BY <1>2, <1>3 DEF Shape, InOrder
  <2>. QED  BY <1>3, <1>4, <2>1, <2>2
<1>7. hand => h < n
  BY <1>2, <1>3 DEF Shape, Below
<1>. HIDE DEF h
<1>. QED  BY <1>2, <1>4, <1>5, <1>6, <1>7, ShapeLate

(* A publish takes the lock, and its receipt gets the next number. *)
LEMMA ShapeTaken ==
  ASSUME NEW q, NEW d, NEW l, NEW x, NEW n, Shape(q, d, l, x, n, FALSE),
         NEW n2, n2 = n + 1
  PROVE  Shape(q, d, l, x, n2, TRUE)
<1>1. n \in Nat /\ l \subseteq 1..n /\ 1..n2 = 1..n \cup {n2} /\ n2 \in Nat /\ n2 > 0
  BY DEF Shape
<1>2. /\ DOMAIN d = 1..Len(d) /\ \A i \in 1..Len(d) : d[i] \in 1..n
      /\ DOMAIN q = 1..Len(q) /\ \A i \in 1..Len(q) : q[i] \in 1..n
  BY ShapeElements
<1>3. Below(q, d, n2)
  BY <1>1, <1>2 DEF Below
<1>4. 1..n = Range(d) \cup Range(q) \cup x
  BY DEF Shape
<1>. QED  BY <1>1, <1>3, <1>4 DEF Shape

(* The receipt in hand arrives: it is as if it had been queued and drained.  *)
LEMMA ShapeSent ==
  ASSUME NEW q, NEW d, NEW l, NEW x, NEW n, Shape(q, d, l, x, n, TRUE), q = <<>>,
         NEW d2, d2 = Append(d, n)
  PROVE  Shape(q, d2, l, x, n, FALSE)
<1>. DEFINE one == Append(q, n)
<1>1. Shape(one, d, l, x, n, FALSE) /\ one # <<>>
  BY ShapeQueued
<1>2. Head(one) = n /\ Tail(one) = q
  BY DEF Shape
<1>. HIDE DEF one
<1>. QED  BY <1>1, <1>2, ShapeDrained

-----------------------------------------------------------------------------
(* The inductive invariant.                                                *)

(* Every call past the closed check still gets a number. *)
NumbersSuffice == accepted + Cardinality(entered \ {owner}) <= MaxReceipts

(* While the sink is open, `_warned_full` is set only when the queue is full *)
(* and a warning was issued since it filled.                                *)
WarningIsOfThisOutage ==
    ~Closed => (warnedFull => announced /\ Len(queue) >= MaxLen)

Calls ==
    /\ closes \in 0..MaxCloses
    /\ entered \subseteq Publisher
    /\ owner \in entered \cup {Closer, Nobody}
    /\ owner = Closer => Closed
    /\ downClosed \in BOOLEAN

Warnings ==
    /\ Len(queue) <= MaxLen
    /\ warnedFull \in BOOLEAN
    /\ announced \in BOOLEAN
    /\ WarningIsOfThisOutage

DataShape == Shape(queue, delivered, lateAck, dropped, accepted, owner \in Publisher)

RInv == Calls /\ Warnings /\ NumbersSuffice /\ DataShape

LEMMA SeqOfSubset ==
  ASSUME NEW S, NEW T, NEW s \in Seq(S), Range(s) \subseteq T
  PROVE  s \in Seq(T)
<1>1. DOMAIN s = 1..Len(s) /\ Len(s) \in Nat
  OBVIOUS
<1>2. \A i \in 1..Len(s) : s[i] \in T
  BY <1>1 DEF Range
<1>3. s \in [1..Len(s) -> T]
  BY <1>1, <1>2
<1>. QED  BY <1>1, <1>3

(* The types follow from the shape: receipts are numbered by the accepted.   *)
LEMMA RInvTypes == RInv => RetryTypeOK
<1>. SUFFICES ASSUME RInv PROVE RetryTypeOK
  OBVIOUS
<1>1. accepted \in Nat /\ MaxReceipts \in Nat
  BY RetryQueueAssumption DEF RInv, DataShape, Shape
<1>2. IsFiniteSet(entered \ {owner})
  <2>1. entered \ {owner} \subseteq Publisher
    BY DEF RInv, Calls
  <2>. QED  BY <2>1, RetryQueueAssumption, FS_Subset
<1>3. accepted <= MaxReceipts
  BY <1>1, <1>2, FS_CardinalityType DEF RInv, NumbersSuffice
<1>4. 1..accepted \subseteq Receipt /\ accepted \in {0} \cup Receipt
  BY <1>1, <1>3 DEF Receipt
<1>5. /\ Range(queue) \subseteq Receipt /\ Range(delivered) \subseteq Receipt
      /\ dropped \subseteq Receipt /\ lateAck \subseteq Receipt
  BY <1>4 DEF RInv, DataShape, Shape
<1>6. queue \in Seq(Receipt)
  BY <1>5, SeqOfSubset DEF RInv, DataShape, Shape
<1>7. delivered \in Seq(Receipt)
  BY <1>5, SeqOfSubset DEF RInv, DataShape, Shape
<1>. QED  BY <1>4, <1>5, <1>6, <1>7 DEF RetryTypeOK, RInv, Calls, Warnings

LEMMA RInvInit == RetryInit => RInv
<1>. SUFFICES ASSUME RetryInit PROVE RInv
  OBVIOUS
<1>1. Calls /\ Warnings
  <2>1. Calls
    <3>1. 0 \in 0..MaxCloses
      BY RetryQueueAssumption
    <3>2. owner # Closer
      BY RetryQueueAssumption DEF RetryInit
    <3>. QED  BY <3>1, <3>2 DEF RetryInit, Calls
  <2>2. Len(queue) <= MaxLen
    BY RetryQueueAssumption DEF RetryInit
  <2>. QED  BY <2>1, <2>2 DEF RetryInit, Warnings, WarningIsOfThisOutage
<1>2. NumbersSuffice
  <2>1. entered \ {owner} = {}
    BY DEF RetryInit
  <2>. QED  BY <2>1, FS_EmptySet, RetryQueueAssumption DEF RetryInit, NumbersSuffice
<1>3. DataShape
  <2>1. ~(owner \in Publisher)
    BY RetryQueueAssumption DEF RetryInit
  <2>2. Range(queue) = {} /\ Range(delivered) = {} /\ 1..0 = {}
    BY DEF RetryInit, Range
  <2>3. InOrder(queue, delivered) /\ OnlyLateTwice(queue, delivered, lateAck)
    BY DEF RetryInit, InOrder, OnlyLateTwice
  <2>. QED  BY <2>1, <2>2, <2>3 DEF RetryInit, DataShape, Shape
<1>. QED  BY <1>1, <1>2, <1>3 DEF RInv
(* The calls and the warning, step by step. *)
LEMMA CallsStep == RInv /\ [RetryNext]_vars => Calls'
<1>. SUFFICES ASSUME RInv, [RetryNext]_vars PROVE Calls'
  OBVIOUS
<1>. USE RetryQueueAssumption DEF RInv, Calls, Closed
<1>1. CASE UNCHANGED vars
  BY <1>1 DEF vars
<1>2. ASSUME NEW p \in Publisher, Enter(p) PROVE Calls'
  BY <1>2 DEF Enter
<1>3. ASSUME NEW p \in Publisher, Lock(p) PROVE Calls'
  BY <1>3 DEF Lock
<1>4. ASSUME NEW p \in Publisher, Drain(p) PROVE Calls'
  BY <1>4 DEF Drain
<1>5. ASSUME NEW p \in Publisher, Send(p) PROVE Calls'
  BY <1>5 DEF Send
<1>6. ASSUME NEW p \in Publisher, PublishFails(p) PROVE Calls'
  BY <1>6 DEF PublishFails
<1>7. CASE CloseLock
  <2>1. closes + 1 \in 0..MaxCloses /\ closes + 1 > 0
    BY <1>7, RetryQueueAssumption DEF CloseLock
  <2>. QED  BY <1>7, <2>1 DEF CloseLock
<1>8. CASE CloseDrain
  BY <1>8 DEF CloseDrain
<1>9. CASE CloseEnd
  BY <1>9 DEF CloseEnd
<1>. QED  BY <1>1, <1>2, <1>3, <1>4, <1>5, <1>6, <1>7, <1>8, <1>9 DEF RetryNext, Work

(* What one append does to the length of the queue. *)
LEMMA EnqueueLength ==
  ASSUME NEW q \in Seq(Nat), NEW e \in Nat, NEW q2, Len(q) <= MaxLen,
         q2 = IF Len(Append(q, e)) > MaxLen THEN Tail(Append(q, e)) ELSE Append(q, e)
  PROVE  Len(q2) <= MaxLen /\ (Len(q) >= MaxLen => Len(q2) >= MaxLen)
<1>1. /\ Len(q) \in Nat /\ Len(Append(q, e)) = Len(q) + 1
      /\ Append(q, e) \in Seq(Nat) /\ Append(q, e) # <<>>
  BY AppendProperties
<1>2. Len(Tail(Append(q, e))) = Len(q)
  BY <1>1, HeadTailProperties
<1>. QED  BY <1>1, <1>2, RetryQueueAssumption

LEMMA WarningsStep == RInv /\ [RetryNext]_vars => Warnings'
<1>. SUFFICES ASSUME RInv, [RetryNext]_vars PROVE Warnings'
  OBVIOUS
<1>. USE DEF RInv, Warnings, WarningIsOfThisOutage, Closed
<1>1. queue \in Seq(Nat) /\ accepted \in Nat /\ Len(queue) \in Nat /\ MaxLen \in Nat
  BY RetryQueueAssumption DEF DataShape, Shape
<1>2. ASSUME UNCHANGED <<queue, warnedFull>>, closes' = closes \/ closes' > 0, Announce
      PROVE  Warnings'
  BY <1>1, <1>2 DEF Announce
<1>3. CASE UNCHANGED vars
  BY <1>3 DEF vars
<1>4. ASSUME NEW p \in Publisher, Enter(p), Announce PROVE Warnings'
  BY <1>2, <1>4 DEF Enter
<1>5. ASSUME NEW p \in Publisher, Lock(p), Announce PROVE Warnings'
  BY <1>2, <1>5 DEF Lock
<1>6. queue # <<>> => Len(Tail(queue)) = Len(queue) - 1
  BY <1>1, HeadTailProperties
<1>7. ASSUME NEW p \in Publisher, Drain(p), Announce PROVE Warnings'
  <2>1. /\ queue' = Tail(queue) /\ Len(queue') = Len(queue) - 1
        /\ warnedFull' = (warnedFull /\ Len(queue') >= MaxLen)
        /\ closes' = closes
    BY <1>6, <1>7 DEF Drain
  <2>2. Len(queue') <= MaxLen
    BY <1>1, <2>1
  <2>. QED  BY <1>7, <2>1, <2>2 DEF Announce
<1>8. ASSUME NEW p \in Publisher, Send(p), Announce PROVE Warnings'
  BY <1>2, <1>8 DEF Send
<1>9. ASSUME NEW p \in Publisher, PublishFails(p), Announce PROVE Warnings'
  <2>1. /\ warnedFull' = (warnedFull \/ Len(queue) >= MaxLen)
        /\ queue' = IF Len(Append(queue, accepted)) > MaxLen
                    THEN Tail(Append(queue, accepted)) ELSE Append(queue, accepted)
        /\ closes' = closes
    BY <1>9 DEF PublishFails, Enqueue
  <2>2. Len(queue') <= MaxLen /\ (Len(queue) >= MaxLen => Len(queue') >= MaxLen)
    BY <1>1, <2>1, EnqueueLength
  <2>. QED  BY <1>9, <2>1, <2>2 DEF Announce
<1>10. ASSUME CloseLock, Announce PROVE Warnings'
  <2>1. closes' > 0
    BY <1>10 DEF CloseLock, Calls
  <2>. QED  BY <1>2, <1>10, <2>1 DEF CloseLock
<1>11. ASSUME CloseDrain, Announce PROVE Warnings'
  <2>1. Len(queue') = Len(queue) - 1 /\ UNCHANGED <<warnedFull, closes>> /\ closes > 0
    BY <1>6, <1>11 DEF CloseDrain, Calls
  <2>2. Len(queue') <= MaxLen
    BY <1>1, <2>1
  <2>. QED  BY <1>11, <2>1, <2>2 DEF Announce
<1>12. ASSUME CloseEnd, Announce PROVE Warnings'
  BY <1>2, <1>12 DEF CloseEnd
<1>. QED  BY <1>3, <1>4, <1>5, <1>7, <1>8, <1>9, <1>10, <1>11, <1>12 DEF RetryNext, Work
(* The numbers, step by step: who waits is who entered and does not work.    *)
LEMMA NumbersStep == RInv /\ [RetryNext]_vars => NumbersSuffice'
<1>. SUFFICES ASSUME RInv, [RetryNext]_vars PROVE NumbersSuffice'
  OBVIOUS
<1>. DEFINE coming == entered \ {owner}
<1>1. /\ entered \subseteq Publisher /\ owner \in entered \cup {Closer, Nobody}
      /\ accepted + Cardinality(coming) <= MaxReceipts
      /\ accepted \in Nat /\ MaxReceipts \in Nat
  BY RetryQueueAssumption DEF RInv, Calls, NumbersSuffice, DataShape, Shape
<1>2. Closer \notin Publisher /\ Nobody \notin Publisher /\ IsFiniteSet(Publisher)
  BY RetryQueueAssumption
<1>3. IsFiniteSet(coming)
  BY <1>1, <1>2, FS_Subset
<1>4. Cardinality(coming) \in Nat
  BY <1>3, FS_CardinalityType
<1>5. ASSUME coming' = coming, accepted' = accepted PROVE NumbersSuffice'
  BY <1>1, <1>5 DEF NumbersSuffice
<1>6. CASE UNCHANGED vars
  BY <1>5, <1>6 DEF vars
<1>7. ASSUME NEW p \in Publisher, Enter(p) PROVE NumbersSuffice'
  <2>1. coming' = coming \cup {p} /\ p \notin coming
    BY <1>1, <1>2, <1>7 DEF Enter
  <2>2. accepted + Cardinality(coming) < MaxReceipts /\ accepted' = accepted
    BY <1>7 DEF Enter
  <2>3. Cardinality(coming \cup {p}) = Cardinality(coming) + 1
    BY <1>3, <2>1, FS_AddElement
  <2>4. Cardinality(coming') = Cardinality(coming) + 1
    BY <2>1, <2>3
  <2>. HIDE DEF coming
  <2>5. accepted' + Cardinality(coming') <= MaxReceipts
    BY <1>1, <1>4, <2>2, <2>4
  <2>. QED  BY <2>5 DEF NumbersSuffice, coming
<1>8. ASSUME NEW p \in Publisher, Lock(p) PROVE NumbersSuffice'
  <2>1. coming' = coming \ {p} /\ p \in coming /\ accepted' = accepted + 1
    BY <1>1, <1>2, <1>8 DEF Lock
  <2>2. Cardinality(coming \ {p}) = Cardinality(coming) - 1
    BY <1>3, <2>1, FS_RemoveElement
  <2>3. Cardinality(coming') = Cardinality(coming) - 1
    BY <2>1, <2>2
  <2>. HIDE DEF coming
  <2>4. accepted' + Cardinality(coming') <= MaxReceipts
    BY <1>1, <1>4, <2>1, <2>3
  <2>. QED  BY <2>4 DEF NumbersSuffice, coming
<1>9. ASSUME NEW p \in Publisher, Drain(p) PROVE NumbersSuffice'
  BY <1>5, <1>9 DEF Drain
<1>10. ASSUME NEW p \in Publisher, Send(p) PROVE NumbersSuffice'
  <2>1. coming' = coming
    BY <1>1, <1>2, <1>10 DEF Send
  <2>. QED  BY <1>5, <1>10, <2>1 DEF Send
<1>11. ASSUME NEW p \in Publisher, PublishFails(p) PROVE NumbersSuffice'
  <2>1. coming' = coming
    BY <1>1, <1>2, <1>11 DEF PublishFails
  <2>. QED  BY <1>5, <1>11, <2>1 DEF PublishFails
<1>12. CASE CloseLock
  <2>1. coming' = coming
    BY <1>1, <1>2, <1>12 DEF CloseLock
  <2>. QED  BY <1>5, <1>12, <2>1 DEF CloseLock
<1>13. CASE CloseDrain
  BY <1>5, <1>13 DEF CloseDrain
<1>14. CASE CloseEnd
  <2>1. coming' = coming
    BY <1>1, <1>2, <1>14 DEF CloseEnd
  <2>. QED  BY <1>5, <1>14, <2>1 DEF CloseEnd
<1>. QED  BY <1>6, <1>7, <1>8, <1>9, <1>10, <1>11, <1>12, <1>13, <1>14 DEF RetryNext, Work
(* The data, step by step. *)
LEMMA DataShapeStep == RInv /\ [RetryNext]_vars => DataShape'
<1>. SUFFICES ASSUME RInv, [RetryNext]_vars PROVE DataShape'
  OBVIOUS
<1>. DEFINE ShapeNow(hand) == Shape(queue, delivered, lateAck, dropped, accepted, hand)
<1>1. /\ queue \in Seq(Nat) /\ delivered \in Seq(Nat) /\ accepted \in Nat
      /\ entered \subseteq Publisher /\ Closer \notin Publisher /\ Nobody \notin Publisher
  BY RetryQueueAssumption DEF RInv, Calls, DataShape, Shape
<1>2. (owner \in Publisher => ShapeNow(TRUE)) /\ (owner \notin Publisher => ShapeNow(FALSE))
  BY DEF RInv, DataShape, Shape
<1>3. ASSUME owner' \in Publisher, ShapeNow(TRUE)' PROVE DataShape'
  BY <1>3 DEF DataShape, Shape
<1>4. ASSUME owner' \notin Publisher, ShapeNow(FALSE)' PROVE DataShape'
  BY <1>4 DEF DataShape, Shape
<1>5. ASSUME UNCHANGED <<queue, delivered, lateAck, dropped, accepted, owner>> PROVE DataShape'
  BY <1>5 DEF RInv, DataShape
<1>6. CASE UNCHANGED vars
  BY <1>5, <1>6 DEF vars
<1>7. ASSUME NEW p \in Publisher, Enter(p) PROVE DataShape'
  BY <1>5, <1>7 DEF Enter
<1>8. ASSUME NEW p \in Publisher, Lock(p) PROVE DataShape'
  <2>1. /\ UNCHANGED <<queue, delivered, lateAck, dropped>> /\ accepted' = accepted + 1
        /\ owner' \in Publisher /\ owner = Nobody
    BY <1>8 DEF Lock
  <2>2. ShapeNow(FALSE)
    BY <1>1, <1>2, <2>1
  <2>3. Shape(queue, delivered, lateAck, dropped, accepted', TRUE)
    BY <2>1, <2>2, ShapeTaken
  <2>. QED  BY <1>3, <2>1, <2>3
<1>9. ASSUME queue # <<>>, Accepts(Head(queue)), queue' = Tail(queue),
             UNCHANGED <<dropped, accepted, owner>>
      PROVE  DataShape'
  <2>1. delivered' = Append(delivered, Head(queue)) /\ lateAck' = lateAck
    BY <1>9 DEF Accepts
  <2>2. Shape(queue, delivered, lateAck, dropped, accepted, owner \in Publisher)
    BY DEF RInv, DataShape
  <2>3. Shape(queue', delivered', lateAck, dropped, accepted, owner \in Publisher)
    BY <1>9, <2>1, <2>2, ShapeDrained
  <2>. QED  BY <1>9, <2>1, <2>3 DEF DataShape
<1>10. ASSUME NEW p \in Publisher, Drain(p) PROVE DataShape'
  BY <1>9, <1>10 DEF Drain
<1>11. CASE CloseDrain
  BY <1>9, <1>11 DEF CloseDrain
<1>12. ASSUME NEW p \in Publisher, Send(p) PROVE DataShape'
  <2>1. /\ queue = <<>> /\ delivered' = Append(delivered, accepted)
        /\ UNCHANGED <<queue, lateAck, dropped, accepted>>
        /\ owner' \notin Publisher /\ owner \in Publisher
    BY <1>1, <1>12 DEF Send, Accepts
  <2>2. Shape(queue, delivered', lateAck, dropped, accepted, FALSE)
    BY <1>2, <2>1, ShapeSent
  <2>. QED  BY <1>4, <2>1, <2>2
<1>13. ASSUME NEW p \in Publisher, PublishFails(p) PROVE DataShape'
  <2>. DEFINE longer == Append(queue, accepted)
  <2>1. /\ owner = p /\ owner' = Nobody /\ accepted' = accepted
        /\ Raises(IF queue = <<>> THEN accepted ELSE Head(queue)) /\ Enqueue(accepted)
    BY <1>13 DEF PublishFails
  <2>2. Shape(longer, delivered, lateAck, dropped, accepted, FALSE) /\ longer # <<>>
    BY <1>2, <2>1, ShapeQueued
  <2>3. Head(longer) = IF queue = <<>> THEN accepted ELSE Head(queue)
    <3>1. /\ Len(queue) \in Nat /\ longer[Len(queue) + 1] = accepted
          /\ \A i \in 1..Len(queue) : longer[i] = queue[i]
          /\ longer \in Seq(Nat)
      BY <1>1, AppendProperties
    <3>2. Head(longer) = longer[1]
      BY <2>2, <3>1, HeadTailProperties
    <3>3. CASE queue = <<>>
      BY <3>1, <3>2, <3>3
    <3>4. CASE queue # <<>>
      <4>1. Head(queue) = queue[1] /\ Len(queue) > 0
        BY <1>1, <3>4, HeadTailProperties
      <4>. QED  BY <3>1, <3>2, <3>4, <4>1
    <3>. QED  BY <3>3, <3>4
  <2>. HIDE DEF longer
  <2>4. Shape(longer, delivered', lateAck', dropped, accepted, FALSE)
    <3>1. CASE UNCHANGED <<delivered, lateAck>>
      BY <2>2, <3>1
    <3>2. CASE /\ delivered' = Append(delivered, Head(longer))
               /\ lateAck' = lateAck \cup {Head(longer)}
      BY <2>2, <3>2, ShapeHeadLate
    <3>. QED  BY <2>1, <2>3, <3>1, <3>2 DEF Raises
  <2>5. Shape(queue', delivered', lateAck', dropped', accepted, FALSE)
    <3>1. CASE Len(longer) > MaxLen
      <4>1. queue' = Tail(longer) /\ dropped' = dropped \cup {Head(longer)}
        BY <2>1, <3>1 DEF Enqueue, longer
      <4>. QED  BY <2>2, <2>4, <4>1, ShapeDropped
    <3>2. CASE ~(Len(longer) > MaxLen)
      <4>1. queue' = longer /\ dropped' = dropped
        BY <2>1, <3>2 DEF Enqueue, longer
      <4>. QED  BY <2>4, <4>1
    <3>. QED  BY <3>1, <3>2
  <2>6. owner' \notin Publisher
    BY <1>1, <2>1
  <2>. QED  BY <1>4, <2>1, <2>5, <2>6
<1>14. ASSUME owner = Nobody, owner' = Closer, UNCHANGED <<queue, delivered, lateAck, dropped, accepted>>
       PROVE  DataShape'
  <2>1. ShapeNow(FALSE)
    BY <1>1, <1>2, <1>14
  <2>2. ShapeNow(FALSE)'
    BY <1>14, <2>1
  <2>. QED  BY <1>1, <1>4, <1>14, <2>2
<1>15. CASE CloseLock
  BY <1>14, <1>15 DEF CloseLock
<1>16. CASE CloseEnd
  <2>1. /\ owner = Closer /\ owner' = Nobody /\ UNCHANGED <<queue, dropped, accepted>>
        /\ IF queue = <<>> THEN UNCHANGED <<delivered, lateAck>> ELSE Raises(Head(queue))
    BY <1>16 DEF CloseEnd
  <2>2. ShapeNow(FALSE)
    BY <1>1, <1>2, <2>1
  <2>3. Shape(queue, delivered', lateAck', dropped, accepted, FALSE)
    <3>1. CASE UNCHANGED <<delivered, lateAck>>
      BY <2>2, <3>1
    <3>2. CASE /\ queue # <<>>
               /\ delivered' = Append(delivered, Head(queue))
               /\ lateAck' = lateAck \cup {Head(queue)}
      BY <2>2, <3>2, ShapeHeadLate
    <3>. QED  BY <2>1, <3>1, <3>2 DEF Raises
  <2>. QED  BY <1>1, <1>4, <2>1, <2>3
<1>. QED  BY <1>6, <1>7, <1>8, <1>10, <1>11, <1>12, <1>13, <1>15, <1>16 DEF RetryNext, Work

(* The invariant holds throughout, under any schedule and any failures. *)
LEMMA RInvariant == RetrySpec => []RInv
<1>1. RInv /\ [RetryNext]_vars => RInv'
  BY CallsStep, WarningsStep, NumbersStep, DataShapeStep DEF RInv
<1>. QED  BY <1>1, RInvInit, PTL DEF RetrySpec

-----------------------------------------------------------------------------
(* The theorems.                                                           *)

(* The state of RetryQueueSink is of the declared types, and the queue never *)
(* holds more than maxlen receipts.                                          *)
THEOREM RetryTypeCorrect == RetrySpec => []RetryTypeOK
BY RInvariant, RInvTypes, PTL

(* Receipts arrive downstream in the order in which their publishes took     *)
(* the lock, for any queue length, any threads and any pattern of failures.  *)
THEOREM ReceiptsArriveInOrder == RetrySpec => []FifoDelivery
<1>1. RInv => FifoDelivery
  BY DEF RInv, DataShape, Shape, InOrder, FifoDelivery
<1>. QED  BY <1>1, RInvariant, PTL

(* Every accepted receipt has arrived, waits, is in hand or was dropped by   *)
(* the bound, and arrives twice only after a late acknowledgement.           *)
THEOREM NoReceiptVanishes == RetrySpec => []NothingVanishes
<1>1. RInv => NothingVanishes
  <2>. SUFFICES ASSUME RInv PROVE NothingVanishes
    OBVIOUS
  <2>1. InHand = IF owner \in Publisher THEN {accepted} ELSE {}
    BY DEF InHand
  <2>2. 1..accepted = Range(delivered) \cup Range(queue) \cup dropped \cup InHand
    BY <2>1 DEF RInv, DataShape, Shape
  <2>3. \A i, j \in DOMAIN delivered :
            (i # j /\ delivered[i] = delivered[j]) => delivered[i] \in lateAck
    BY DEF RInv, DataShape, Shape, OnlyLateTwice
  <2>. QED  BY <2>2, <2>3 DEF NothingVanishes
<1>. QED  BY <1>1, RInvariant, PTL

(* No receipt is dropped while the sink is open without a warning that       *)
(* belongs to the same outage.                                               *)
THEOREM DropsAreAnnounced == RetrySpec => DropIsAnnounced
<1>1. RInv /\ [RetryNext]_vars => [(dropped' # dropped /\ ~Closed) => announced']_vars
  <2>. SUFFICES ASSUME RInv, RetryNext, dropped' # dropped, ~Closed PROVE announced'
    BY DEF vars
  <2>1. PICK p \in Publisher : PublishFails(p)
    BY DEF RetryNext, Work, Enter, Lock, Drain, Send, CloseLock, CloseDrain, CloseEnd
  <2>2. /\ warnedFull' = (warnedFull \/ Len(queue) >= MaxLen)
        /\ queue' = IF Len(Append(queue, accepted)) > MaxLen
                    THEN Tail(Append(queue, accepted)) ELSE Append(queue, accepted)
        /\ Len(Append(queue, accepted)) > MaxLen
    BY <2>1 DEF PublishFails, Enqueue
  <2>3. queue \in Seq(Nat) /\ accepted \in Nat /\ Len(queue) <= MaxLen
    BY DEF RInv, Warnings, DataShape, Shape
  <2>4. Len(queue) \in Nat /\ Len(Append(queue, accepted)) = Len(queue) + 1
    BY <2>3, AppendProperties
  <2>5. Len(queue) >= MaxLen
    BY <2>2, <2>4, RetryQueueAssumption
  <2>6. Len(queue') >= MaxLen
    BY <2>2, <2>3, <2>5, EnqueueLength
  <2>7. warnedFull => announced
    BY DEF RInv, Warnings, WarningIsOfThisOutage
  <2>8. warnedFull \in BOOLEAN /\ announced \in BOOLEAN /\ announced' = (announced \/ (warnedFull' /\ ~warnedFull))
    BY <2>6 DEF RetryNext, Announce, RInv, Warnings
  <2>. QED  BY <2>2, <2>5, <2>7, <2>8
<1>. QED  BY <1>1, RInvariant, PTL DEF RetrySpec, DropIsAnnounced

-----------------------------------------------------------------------------
(* The receipt.                                                            *)

(* What the loop over the chunks and the calls leaves on the receipt, and   *)
(* what was done: one decision for each where there is an evaluator, and a  *)
(* chunk shown, or a call allowed, exactly when nothing speaks against it.  *)
ReceiptAgrees ==
    /\ kept \in Seq(BOOLEAN) /\ Len(kept) = Len(sources)
    /\ IF policy.access THEN Len(accessControl) = Len(sources) ELSE accessControl = <<>>
    /\ \A i \in 1..Len(sources) :
           kept[i] <=> /\ sources[i].outcome \notin policy.blocks
                       /\ policy.access => accessControl[i].decision = "allow"
    /\ policy.access =>
           \A i \in 1..Len(sources) : accessControl[i].fingerprint = sources[i].fingerprint

ActionsAgree ==
    /\ executed \in Seq(BOOLEAN) /\ Len(executed) = Len(actions)
    /\ \A i \in 1..Len(actions) : actions[i] = i
    /\ IF policy.tools THEN Len(toolCallControl) = Len(actions) ELSE toolCallControl = <<>>
    /\ \A i \in 1..Len(actions) :
           executed[i] <=> (policy.tools => toolCallControl[i].decision = "allow")
    /\ policy.tools => \A i \in 1..Len(actions) : toolCallControl[i].index = i

ReceiptTypes ==
    /\ policy \in VerificationPolicy
    /\ sources \in Seq(SourceRecord)
    /\ accessControl \in Seq([fingerprint : Fingerprint, decision : Decision])
    /\ actions \in Seq(ActionRecord)
    /\ toolCallControl \in Seq([index : 1..Len(actions), decision : Decision])

ReceiptInv == ReceiptTypes /\ ReceiptAgrees /\ ActionsAgree

LEMMA SeqOfMore ==
  ASSUME NEW S, NEW T, S \subseteq T, NEW s \in Seq(S)
  PROVE  s \in Seq(T)
OBVIOUS

(* A chunk or a call is added. *)
LEMMA JudgeChunkKeeps ==
  ASSUME ReceiptInv, NEW f \in Fingerprint, NEW o \in Flagged \cup {"VERIFIED"}, NEW d \in Decision,
         JudgeChunk(f, o, d)
  PROVE  ReceiptInv'
<1>. DEFINE n == Len(sources)
            s == [fingerprint |-> f, outcome |-> o]
            c == [fingerprint |-> f, decision |-> d]
            b == ~ ShouldBlock(o) /\ d = "allow"
<1>1. /\ policy \in VerificationPolicy /\ sources \in Seq(SourceRecord) /\ kept \in Seq(BOOLEAN)
      /\ accessControl \in Seq([fingerprint : Fingerprint, decision : Decision])
      /\ Len(kept) = n
  BY DEF ReceiptInv, ReceiptTypes, ReceiptAgrees
<1>2. /\ sources' = Append(sources, s) /\ kept' = Append(kept, b)
      /\ accessControl' = IF policy.access THEN Append(accessControl, c) ELSE accessControl
      /\ ~ policy.access => d = "allow"
      /\ UNCHANGED <<policy, actions, toolCallControl, executed>>
  BY DEF JudgeChunk
<1>3. s \in SourceRecord /\ c \in [fingerprint : Fingerprint, decision : Decision] /\ b \in BOOLEAN
      /\ s.outcome = o /\ s.fingerprint = f /\ c.fingerprint = f /\ c.decision = d
      /\ (b <=> o \notin policy.blocks /\ d = "allow")
  BY DEF SourceRecord, ShouldBlock
<1>. HIDE DEF s, c, b
<1>4. /\ n \in Nat /\ sources' \in Seq(SourceRecord) /\ Len(sources') = n + 1
      /\ sources'[n + 1] = s /\ \A i \in 1..n : sources'[i] = sources[i]
  BY <1>1, <1>2, <1>3, Appended
<1>5. /\ kept' \in Seq(BOOLEAN) /\ Len(kept') = n + 1
      /\ kept'[n + 1] = b /\ \A i \in 1..n : kept'[i] = kept[i]
  BY <1>1, <1>2, <1>3, Appended
<1>6. ASSUME policy.access
      PROVE  /\ Len(accessControl) = n /\ Len(accessControl') = n + 1
             /\ accessControl'[n + 1] = c /\ \A i \in 1..n : accessControl'[i] = accessControl[i]
  <2>1. Len(accessControl) = n
    BY <1>6 DEF ReceiptInv, ReceiptAgrees
  <2>2. accessControl' = Append(accessControl, c)
    BY <1>2, <1>6
  <2>. QED  BY <1>1, <1>3, <2>1, <2>2, Appended
<1>7. accessControl' \in Seq([fingerprint : Fingerprint, decision : Decision])
  <2>1. Append(accessControl, c) \in Seq([fingerprint : Fingerprint, decision : Decision])
    BY <1>1, <1>3, Appended
  <2>. QED  BY <1>1, <1>2, <2>1
<1>. HIDE DEF n
<1>8. \A i \in 1..(n + 1) : i \in 1..n \/ i = n + 1
  BY <1>4
<1>9. \A i \in 1..(n + 1) :
        kept'[i] <=> /\ sources'[i].outcome \notin policy.blocks
                     /\ policy.access => accessControl'[i].decision = "allow"
  <2>1. ASSUME NEW i \in 1..n
        PROVE  kept'[i] <=> /\ sources'[i].outcome \notin policy.blocks
                            /\ policy.access => accessControl'[i].decision = "allow"
    <3>1. kept[i] <=> /\ sources[i].outcome \notin policy.blocks
                      /\ policy.access => accessControl[i].decision = "allow"
      BY DEF ReceiptInv, ReceiptAgrees, n
    <3>. QED  BY <1>4, <1>5, <1>6, <3>1, Zenon
  <2>2. kept'[n + 1] <=> /\ sources'[n + 1].outcome \notin policy.blocks
                         /\ policy.access => accessControl'[n + 1].decision = "allow"
    BY <1>2, <1>3, <1>4, <1>5, <1>6, Zenon
  <2>. QED  BY <1>8, <2>1, <2>2, Zenon
<1>10. policy.access => \A i \in 1..(n + 1) : accessControl'[i].fingerprint = sources'[i].fingerprint
  <2>1. policy.access => \A i \in 1..n : accessControl[i].fingerprint = sources[i].fingerprint
    BY DEF ReceiptInv, ReceiptAgrees, n
  <2>. QED  BY <1>3, <1>4, <1>6, <1>8, <2>1
<1>11. IF policy.access THEN Len(accessControl') = n + 1 ELSE accessControl' = <<>>
  BY <1>2, <1>6 DEF ReceiptInv, ReceiptAgrees
<1>12. ReceiptAgrees'
  BY <1>2, <1>4, <1>5, <1>9, <1>10, <1>11 DEF ReceiptAgrees
<1>13. ReceiptTypes' /\ ActionsAgree'
  BY <1>2, <1>4, <1>7 DEF ReceiptInv, ReceiptTypes, ActionsAgree
<1>. QED  BY <1>12, <1>13 DEF ReceiptInv

LEMMA AdmitActionKeeps ==
  ASSUME ReceiptInv, NEW d \in Decision, AdmitAction(d)
  PROVE  ReceiptInv'
<1>. DEFINE n == Len(actions)
            c == [index |-> n + 1, decision |-> d]
            b == d = "allow"
<1>1. /\ actions \in Seq(ActionRecord) /\ executed \in Seq(BOOLEAN) /\ Len(executed) = n
      /\ toolCallControl \in Seq([index : 1..n, decision : Decision])
  BY DEF ReceiptInv, ReceiptTypes, ActionsAgree
<1>2. /\ actions' = Append(actions, n + 1) /\ executed' = Append(executed, b)
      /\ toolCallControl' = IF policy.tools THEN Append(toolCallControl, c) ELSE toolCallControl
      /\ ~ policy.tools => d = "allow"
      /\ UNCHANGED <<policy, sources, accessControl, kept>>
  BY DEF AdmitAction
<1>3. n \in Nat /\ n + 1 \in ActionRecord /\ MaxActions \in Nat
  BY <1>1, ExportAssumption DEF AdmitAction, ActionRecord
<1>4. c \in [index : 1..(n + 1), decision : Decision] /\ c.index = n + 1 /\ c.decision = d
      /\ b \in BOOLEAN /\ (b <=> d = "allow")
  BY <1>3
<1>. HIDE DEF c, b
<1>5. /\ actions' \in Seq(ActionRecord) /\ Len(actions') = n + 1
      /\ actions'[n + 1] = n + 1 /\ \A i \in 1..n : actions'[i] = actions[i]
  BY <1>1, <1>2, <1>3, Appended
<1>6. /\ executed' \in Seq(BOOLEAN) /\ Len(executed') = n + 1
      /\ executed'[n + 1] = b /\ \A i \in 1..n : executed'[i] = executed[i]
  BY <1>1, <1>2, <1>4, Appended
<1>7. toolCallControl \in Seq([index : 1..(n + 1), decision : Decision])
  <2>1. [index : 1..n, decision : Decision] \subseteq [index : 1..(n + 1), decision : Decision]
    BY <1>3
  <2>. QED  BY <1>1, <2>1, SeqOfMore
<1>8. ASSUME policy.tools
      PROVE  /\ Len(toolCallControl) = n /\ Len(toolCallControl') = n + 1
             /\ toolCallControl'[n + 1] = c
             /\ \A i \in 1..n : toolCallControl'[i] = toolCallControl[i]
  <2>1. Len(toolCallControl) = n
    BY <1>8 DEF ReceiptInv, ActionsAgree
  <2>2. toolCallControl' = Append(toolCallControl, c)
    BY <1>2, <1>8
  <2>. QED  BY <1>4, <1>7, <2>1, <2>2, Appended
<1>9. toolCallControl' \in Seq([index : 1..(n + 1), decision : Decision])
  <2>1. Append(toolCallControl, c) \in Seq([index : 1..(n + 1), decision : Decision])
    BY <1>4, <1>7, Appended
  <2>. QED  BY <1>2, <1>7, <2>1
<1>. HIDE DEF n
<1>10. \A i \in 1..(n + 1) : i \in 1..n \/ i = n + 1
  BY <1>3
<1>11. \A i \in 1..(n + 1) : executed'[i] <=> (policy.tools => toolCallControl'[i].decision = "allow")
  <2>1. ASSUME NEW i \in 1..n
        PROVE  executed'[i] <=> (policy.tools => toolCallControl'[i].decision = "allow")
    <3>1. executed[i] <=> (policy.tools => toolCallControl[i].decision = "allow")
      BY DEF ReceiptInv, ActionsAgree, n
    <3>. QED  BY <1>6, <1>8, <3>1, Zenon
  <2>2. executed'[n + 1] <=> (policy.tools => toolCallControl'[n + 1].decision = "allow")
    BY <1>2, <1>4, <1>6, <1>8, Zenon
  <2>. QED  BY <1>10, <2>1, <2>2, Zenon
<1>12. policy.tools => \A i \in 1..(n + 1) : toolCallControl'[i].index = i
  <2>1. policy.tools => \A i \in 1..n : toolCallControl[i].index = i
    BY DEF ReceiptInv, ActionsAgree, n
  <2>. QED  BY <1>4, <1>8, <1>10, <2>1
<1>13. \A i \in 1..(n + 1) : actions'[i] = i
  <2>1. \A i \in 1..n : actions[i] = i
    BY DEF ReceiptInv, ActionsAgree, n
  <2>. QED  BY <1>5, <1>10, <2>1
<1>14. IF policy.tools THEN Len(toolCallControl') = n + 1 ELSE toolCallControl' = <<>>
  BY <1>2, <1>8 DEF ReceiptInv, ActionsAgree
<1>15. ActionsAgree'
  BY <1>2, <1>5, <1>6, <1>11, <1>12, <1>13, <1>14 DEF ActionsAgree
<1>16. ReceiptTypes' /\ ReceiptAgrees'
  BY <1>2, <1>5, <1>9 DEF ReceiptInv, ReceiptTypes, ReceiptAgrees
<1>. QED  BY <1>15, <1>16 DEF ReceiptInv

LEMMA SameReceipt ==
  ASSUME ReceiptInv, UNCHANGED receiptVars
  PROVE  ReceiptInv'
BY DEF ReceiptInv, ReceiptTypes, ReceiptAgrees, ActionsAgree, receiptVars

LEMMA ReceiptStep == ReceiptInv /\ [ExportNext]_exportVars => ReceiptInv'
<1>. SUFFICES ASSUME ReceiptInv, [ExportNext]_exportVars PROVE ReceiptInv'
  OBVIOUS
<1>1. CASE UNCHANGED receiptVars
  BY <1>1, SameReceipt
<1>. QED  BY <1>1, JudgeChunkKeeps, AdmitActionKeeps
          DEF ExportNext, Exporting, Publish, Forward, ForwardFails, Interrupted, EventCall, OtherCall,
              SendReceipt, SendItem, SendFails, BeginClose, EndClose, NextHour, exportVars, receiptVars

-----------------------------------------------------------------------------
(* The events on their way.                                                *)

Total == Len(sources) + Len(actions)

StoredEvent == [hour : 0..MaxHour, event : 1..Total]

(* The numbers up to n from some point on. *)
EndsWith(q, n) == Len(q) <= n /\ \A j \in 1..Len(q) : q[j] = n - Len(q) + j

FlowTypes ==
    /\ pipeline \in Pipeline /\ destination \in Destination
    /\ phase \in {"building", "published", "refused"}
    /\ status \in {"none", "PASS", "PARTIAL", "FAIL"}
    /\ todo \in Seq(1..Total) /\ EndsWith(todo, Total)
    /\ waiting \in Seq(SUBSET (1..Total)) /\ Len(waiting) <= MaxQueue
    /\ call \in {"none", "receipt", "other", "close"} /\ closed \in BOOLEAN
    /\ stored \in Seq(StoredEvent)
    /\ hour \in 0..MaxHour
    /\ lost \subseteq 1..Total
    /\ raises \in 0..MaxRaises

(* A queue holds nothing of the receipt. *)
Bare(q) == \A i \in 1..Len(q) : q[i] = {}

(* The queue before the adapter is sending the receipt. *)
AtWork ==
    /\ call # "none"
    /\ waiting # <<>> => waiting[1] = 1..Total
    /\ waiting = <<>> => call = "receipt"

(* Nothing of the receipt is on its way before it is published; a call for   *)
(* the receipt has something to send; and the summary is that of the         *)
(* finished receipt.                                                         *)
Places ==
    /\ phase # "published" =>
           todo = <<>> /\ call = "none" /\ stored = <<>> /\ lost = {} /\ Bare(waiting)
    /\ phase = "refused" => closed
    /\ ~ HasQueue => waiting = <<>> /\ call = "none"
    /\ call = "receipt" => ~ closed
    /\ (pipeline = "adapter_queue" /\ call = "receipt") => todo # <<>>
    /\ (pipeline = "queue_adapter" /\ todo # <<>>) => AtWork
    /\ phase # "building" => status = OverallStatus

(* How many events the adapter has done with. *)
Done == Total - Len(todo)

Apart(q) == \A i, j \in 1..Len(q) : i # j => q[i] \cap q[j] = {}

AtMost(q, n) == \A i \in 1..Len(q) : \A a \in q[i] : a \in Nat /\ a <= n

Rising(q) ==
    \A i, j \in 1..Len(q) : \A a, b :
        (a \in q[i] /\ b \in q[j]) => (i < j => a < b) /\ (i = j => a = b)

AllOrNone(q) == \A i \in 1..Len(q) : q[i] \in {{}, 1..Total}

(* No event is in a queue twice; behind the adapter they are in order and    *)
(* not beyond n; before it, it is all of them or none.                       *)
Well(q, n) ==
    /\ Apart(q)
    /\ pipeline = "adapter_queue" => AtMost(q, n) /\ Rising(q)
    /\ pipeline = "queue_adapter" => AllOrNone(q)

(* What was let go is neither in a queue nor still to be forwarded. *)
Queues ==
    /\ Well(waiting, Done)
    /\ \A i \in 1..Len(waiting) : waiting[i] \cap lost = {}
    /\ \A e \in lost : e <= Done
    /\ (pipeline = "queue_adapter" /\ call = "receipt") => Bare(waiting) /\ lost = {}

Arrived(e) == \E j \in 1..Len(stored) : stored[j].event = e

Settled(e) == Arrived(e) \/ e \in lost

Held(e) ==
    \/ \E i \in 1..Len(waiting) : e \in waiting[i]
    \/ pipeline = "queue_adapter" /\ call = "receipt"

Ordered ==
    \A i \in 1..Len(stored) : \A e \in 1..(stored[i].event - 1) :
        \/ \E j \in 1..(i - 1) : stored[j].event = e
        \/ e \in lost /\ ~ Arrived(e)

(* Every event that the adapter has done with is at the stream, let go, or   *)
(* held by a queue; without a queue behind it, none of those is held that    *)
(* the adapter has sent before the one at hand.                              *)
Rest ==
    (destination = "stream" /\ phase = "published") =>
        /\ \A e \in 1..Done : Settled(e) \/ Held(e)
        /\ (pipeline # "adapter_queue" /\ todo # <<>>) => \A e \in 1..Done : Settled(e)
        /\ Ordered

ExportInv == ReceiptInv /\ FlowTypes /\ Places /\ Queues /\ Rest

LEMMA NothingIsSeq == \A S : <<>> \in Seq(S) /\ Len(<<>>) = 0
OBVIOUS

LEMMA TotalIsNat == ReceiptInv => Total \in Nat
BY DEF ReceiptInv, ReceiptTypes, Total

LEMMA EventsAre ==
  ASSUME ReceiptInv
  PROVE  /\ EventNumber = 1..Total
         /\ Events \in Seq(1..Total) /\ Len(Events) = Total /\ EndsWith(Events, Total)
<1>1. EventNumber = 1..Total /\ Total \in Nat
  BY TotalIsNat DEF EventNumber, Total
<1>2. Events = [k \in 1..Total |-> k]
  BY <1>1 DEF Events
<1>. HIDE DEF Total
<1>3. Events \in Seq(1..Total) /\ Len(Events) = Total
  BY <1>1, <1>2
<1>. QED  BY <1>1, <1>2, <1>3 DEF EndsWith

LEMMA HeadOfRest ==
  ASSUME NEW S, NEW q \in Seq(S), NEW n \in Nat, EndsWith(q, n), q # <<>>
  PROVE  /\ Head(q) = n - Len(q) + 1 /\ Head(q) \in S /\ Len(q) \in Nat \ {0}
         /\ Tail(q) \in Seq(S) /\ Len(Tail(q)) = Len(q) - 1 /\ EndsWith(Tail(q), n)
         /\ {q[i] : i \in DOMAIN q} = (n - Len(q) + 1)..n
<1>1. /\ Tail(q) \in Seq(S) /\ Len(Tail(q)) = Len(q) - 1 /\ Len(q) \in Nat \ {0}
      /\ \A i \in 1..(Len(q) - 1) : Tail(q)[i] = q[i + 1] /\ i + 1 \in 1..Len(q)
      /\ Head(q) = q[1] /\ q[1] \in S /\ DOMAIN q = 1..Len(q)
  BY HeadTaken
<1>2. \A j \in 1..Len(q) : q[j] = n - Len(q) + j
  BY DEF EndsWith
<1>3. {q[i] : i \in DOMAIN q} = (n - Len(q) + 1)..n
  <2>1. \A i \in 1..Len(q) : n - Len(q) + i \in (n - Len(q) + 1)..n
    BY <1>1
  <2>2. \A e \in (n - Len(q) + 1)..n : e - (n - Len(q)) \in 1..Len(q)
                                       /\ e = n - Len(q) + (e - (n - Len(q)))
    BY <1>1
  <2>3. ASSUME NEW e \in (n - Len(q) + 1)..n PROVE e \in {q[i] : i \in DOMAIN q}
    <3>. DEFINE i == e - (n - Len(q))
    <3>1. i \in 1..Len(q) /\ e = n - Len(q) + i
      BY <2>2
    <3>2. e = q[i]
      BY <1>2, <3>1
    <3>. QED  BY <1>1, <3>1, <3>2
  <2>4. ASSUME NEW e \in {q[i] : i \in DOMAIN q} PROVE e \in (n - Len(q) + 1)..n
    <3>1. PICK i \in 1..Len(q) : e = q[i]
      BY <1>1
    <3>. QED  BY <1>2, <2>1, <3>1
  <2>. QED  BY <2>3, <2>4
<1>. QED  BY <1>1, <1>3 DEF EndsWith

LEMMA FlowFacts ==
  ASSUME ExportInv
  PROVE  /\ ReceiptInv /\ Total \in Nat /\ Done \in Nat /\ Done <= Total /\ Len(todo) \in Nat
         /\ stored \in Seq(StoredEvent) /\ hour \in 0..MaxHour /\ raises \in 0..MaxRaises
         /\ waiting \in Seq(SUBSET (1..Total)) /\ Len(waiting) <= MaxQueue /\ Len(waiting) \in Nat
         /\ EventNumber = 1..Total /\ lost \subseteq 1..Total
         /\ todo = <<>> => Done = Total
<1>1. Total \in Nat /\ EventNumber = 1..Total
  BY TotalIsNat, EventsAre DEF ExportInv
<1>2. todo \in Seq(1..Total) /\ Len(todo) <= Total
  BY DEF ExportInv, FlowTypes, EndsWith
<1>3. Len(todo) \in Nat /\ Len(waiting) \in Nat /\ (todo = <<>> => Len(todo) = 0)
  BY <1>2 DEF ExportInv, FlowTypes
<1>4. Done \in Nat /\ Done <= Total /\ (todo = <<>> => Done = Total)
  BY <1>1, <1>2, <1>3 DEF Done
<1>. QED  BY <1>1, <1>3, <1>4 DEF ExportInv, FlowTypes

(* At the end of the receipt nothing is left to forward. *)
LEMMA NothingLeft ==
  ASSUME ExportInv
  PROVE  <<>> \in Seq(1..Total) /\ EndsWith(<<>>, Total) /\ Total - Len(<<>>) = Total
<1>1. Total \in Nat
  BY FlowFacts
<1>. QED  BY <1>1, NothingIsSeq DEF EndsWith

(* The next event the adapter forwards, and what is left then. *)
LEMMA NextForward ==
  ASSUME ExportInv, todo # <<>>
  PROVE  /\ Head(todo) = Done + 1 /\ Head(todo) \in 1..Total /\ phase = "published"
         /\ Tail(todo) \in Seq(1..Total) /\ EndsWith(Tail(todo), Total)
         /\ Total - Len(Tail(todo)) = Done + 1
         /\ {todo[i] : i \in DOMAIN todo} = (Done + 1)..Total
         /\ Len(todo) = 1 => Tail(todo) = <<>>
         /\ Len(todo) # 1 => Tail(todo) # <<>>
<1>1. todo \in Seq(1..Total) /\ EndsWith(todo, Total) /\ Total \in Nat
  BY FlowFacts DEF ExportInv, FlowTypes
<1>2. /\ Head(todo) = Total - Len(todo) + 1 /\ Head(todo) \in 1..Total /\ Len(todo) \in Nat \ {0}
      /\ Tail(todo) \in Seq(1..Total) /\ Len(Tail(todo)) = Len(todo) - 1
      /\ EndsWith(Tail(todo), Total)
      /\ {todo[i] : i \in DOMAIN todo} = (Total - Len(todo) + 1)..Total
  BY <1>1, HeadOfRest
<1>3. Total - (Len(todo) - 1) = Done + 1
  BY <1>1, <1>2 DEF Done
<1>4. phase = "published"
  BY DEF ExportInv, Places
<1>5. /\ Len(todo) = 1 => Tail(todo) = <<>>
      /\ Len(todo) # 1 => Tail(todo) # <<>>
  <2>1. Len(todo) = 1 => Len(Tail(todo)) = 0
    BY <1>2
  <2>2. Len(todo) # 1 => Len(Tail(todo)) # 0
    BY <1>2
  <2>3. Tail(todo) \in Seq(1..Total) /\ (Len(Tail(todo)) = 0 => Tail(todo) = <<>>)
    <3>1. Tail(todo) \in Seq(1..Total)
      BY <1>2
    <3>. QED  BY <3>1, EmptySeq
  <2>4. Tail(todo) = <<>> => Len(Tail(todo)) = 0
    <3>1. Len(<<>>) = 0
      BY EmptySeq
    <3>. QED  BY <3>1, Zenon
  <2>. QED  BY <2>1, <2>2, <2>3, <2>4, Zenon
<1>. QED  BY <1>2, <1>3, <1>4, <1>5 DEF Done

(* What publish() of the destination does to what is stored. *)
LEMMA StoreAppends ==
  ASSUME ReceiptInv, stored \in Seq(StoredEvent), hour \in 0..MaxHour, NEW k \in 1..Total, Store(k)
  PROVE  /\ stored' \in Seq(StoredEvent)
         /\ destination = "stream" =>
               /\ Len(stored) \in Nat /\ Len(stored') = Len(stored) + 1
               /\ stored'[Len(stored) + 1].event = k
               /\ \A i \in 1..Len(stored) : stored'[i] = stored[i]
<1>. DEFINE o == [hour |-> hour, event |-> k]
            front == SubSeq(stored, 1, Len(stored) - 1)
<1>1. o \in StoredEvent /\ o.event = k
  BY DEF StoredEvent
<1>. HIDE DEF o
<1>2. KeyTaken => front \in Seq(StoredEvent)
  BY DEF KeyTaken
<1>3. stored' = Append(IF KeyTaken THEN front ELSE stored, o)
  BY DEF Store, o
<1>. HIDE DEF front
<1>4. CASE KeyTaken
  <2>1. stored' = Append(front, o)
    BY <1>3, <1>4
  <2>2. destination # "stream"
    BY <1>4 DEF KeyTaken
  <2>. QED  BY <1>1, <1>2, <1>4, <2>1, <2>2, Appended
<1>5. CASE ~ KeyTaken
  <2>1. stored' = Append(stored, o)
    BY <1>3, <1>5
  <2>. QED  BY <1>1, <2>1, Appended
<1>. QED  BY <1>4, <1>5

(* A failure at event k either leaves what is stored alone or stores k. *)
LEMMA FailsStores ==
  ASSUME ReceiptInv, stored \in Seq(StoredEvent), hour \in 0..MaxHour, raises \in 0..MaxRaises,
         NEW k \in 1..Total, Fails(k)
  PROVE  raises' \in 0..MaxRaises /\ stored' \in Seq(StoredEvent) /\ (stored' = stored \/ Store(k))
<1>1. stored' = stored \/ Store(k)
  BY DEF Fails, Takes
<1>2. stored' \in Seq(StoredEvent)
  BY <1>1, StoreAppends
<1>3. raises' \in 0..MaxRaises
  BY ExportAssumption DEF Fails, MayRaise
<1>. QED  BY <1>1, <1>2, <1>3

(* An event keeps the order if those before it are settled and it was not    *)
(* let go; and what is settled stays so.                                     *)
LEMMA ArrivesInOrder ==
  ASSUME Len(stored) \in Nat, Len(stored') = Len(stored) + 1, NEW k, k \notin lost, k \in Nat,
         stored'[Len(stored) + 1].event = k,
         \A i \in 1..Len(stored) : stored'[i] = stored[i], lost \subseteq lost',
         Ordered, \A e \in 1..(k - 1) : Settled(e)
  PROVE  Ordered' /\ Arrived(k)' /\ \A e : Settled(e) => Settled(e)'
<1>. DEFINE n == Len(stored)
<1>1. n \in Nat /\ \A i \in 1..(n + 1) : i \in 1..n \/ i = n + 1
  OBVIOUS
<1>2. \A i \in 1..n : i \in 1..(n + 1) /\ stored'[i] = stored[i]
  OBVIOUS
<1>3. Arrived(k)' /\ (\A e : Arrived(e) => Arrived(e)') /\ (\A e : Arrived(e)' => Arrived(e) \/ e = k)
  BY <1>1, <1>2 DEF Arrived
<1>4. \A e : Settled(e) => Settled(e)'
  BY <1>3 DEF Settled
<1>5. ASSUME NEW i \in 1..n, NEW e \in 1..(stored'[i].event - 1)
      PROVE  \/ \E j \in 1..(i - 1) : stored'[j].event = e
             \/ e \in lost' /\ ~ Arrived(e)'
  <2>1. CASE \E j \in 1..(i - 1) : stored[j].event = e
    <3>1. PICK j \in 1..(i - 1) : stored[j].event = e
      BY <2>1
    <3>2. j \in 1..n
      BY <1>1
    <3>. QED  BY <1>2, <3>1, <3>2
  <2>2. CASE e \in lost /\ ~ Arrived(e)
    BY <1>3, <2>2
  <2>. QED  BY <1>2, <2>1, <2>2 DEF Ordered
<1>6. ASSUME NEW e \in 1..(k - 1)
      PROVE  \/ \E j \in 1..((n + 1) - 1) : stored'[j].event = e
             \/ e \in lost' /\ ~ Arrived(e)'
  <2>1. CASE Arrived(e)
    <3>1. PICK j \in 1..n : stored[j].event = e
      BY <2>1 DEF Arrived
    <3>2. (n + 1) - 1 = n
      BY <1>1
    <3>. QED  BY <1>2, <3>1, <3>2
  <2>2. CASE ~ Arrived(e)
    <3>1. e \in lost /\ e # k
      BY <2>2 DEF Settled
    <3>. QED  BY <1>3, <2>2, <3>1
  <2>. QED  BY <2>1, <2>2
<1>. QED  BY <1>1, <1>3, <1>4, <1>5, <1>6 DEF Ordered

(* The next event is tried, and perhaps arrives. *)
LEMMA NextIsTried ==
  ASSUME ReceiptInv, stored \in Seq(StoredEvent), hour \in 0..MaxHour, destination = "stream", Ordered,
         NEW k \in 1..Total, k \notin lost, \A e \in 1..(k - 1) : Settled(e),
         stored' = stored \/ Store(k), lost \subseteq lost'
  PROVE  /\ Ordered'
         /\ \A e : Settled(e) => Settled(e)'
         /\ Store(k) => Settled(k)'
<1>1. CASE stored' = stored /\ ~ Store(k)
  BY <1>1 DEF Ordered, Arrived, Settled
<1>2. CASE Store(k)
  <2>1. /\ Len(stored) \in Nat /\ Len(stored') = Len(stored) + 1 /\ stored'[Len(stored) + 1].event = k
        /\ \A i \in 1..Len(stored) : stored'[i] = stored[i]
    BY <1>2, StoreAppends
  <2>2. k \in Nat
    BY TotalIsNat
  <2>3. Ordered' /\ Arrived(k)' /\ \A e : Settled(e) => Settled(e)'
    BY <2>1, <2>2, ArrivesInOrder
  <2>. QED  BY <2>3 DEF Settled
<1>. QED  BY <1>1, <1>2

-----------------------------------------------------------------------------
(* The retry queue.                                                        *)

(* r is q without its first d elements. *)
Cut(q, r, d) == Len(r) = Len(q) - d /\ \A i \in 1..Len(r) : i + d \in 1..Len(q) /\ r[i] = q[i + d]

LEMMA CutWell ==
  ASSUME NEW q, NEW r, NEW d \in {0, 1}, Len(q) \in Nat, Cut(q, r, d), NEW n, Well(q, n)
  PROVE  /\ Well(r, n) /\ (Bare(q) => Bare(r))
         /\ d = 1 => \A i \in 1..Len(r) : q[1] \cap r[i] = {}
<1>1. \A i \in 1..Len(r) : i + d \in 1..Len(q) /\ r[i] = q[i + d]
  BY DEF Cut
<1>2. \A i, j \in 1..Len(r) :
        (i # j => i + d # j + d) /\ (i < j => i + d < j + d) /\ (i = j => i + d = j + d)
  BY DEF Cut
<1>3. d = 1 => \A i \in 1..Len(r) : 1 \in 1..Len(q) /\ 1 # i + d
  BY <1>1
<1>4. Apart(q) => Apart(r)
  BY <1>1, <1>2 DEF Apart
<1>5. AtMost(q, n) => AtMost(r, n)
  BY <1>1, Zenon DEF AtMost
<1>6. ASSUME Rising(q), NEW i \in 1..Len(r), NEW j \in 1..Len(r), NEW a, NEW b,
             a \in r[i], b \in r[j]
      PROVE  (i < j => a < b) /\ (i = j => a = b)
  <2>1. /\ i + d \in 1..Len(q) /\ j + d \in 1..Len(q) /\ a \in q[i + d] /\ b \in q[j + d]
        /\ i < j => i + d < j + d
        /\ i = j => i + d = j + d
    BY <1>1, <1>2, <1>6
  <2>2. (i + d < j + d => a < b) /\ (i + d = j + d => a = b)
    BY <1>6, <2>1, Zenon DEF Rising
  <2>. QED  BY <2>1, <2>2, Zenon
<1>7. Rising(q) => Rising(r)
  BY <1>6, Zenon DEF Rising
<1>8. AllOrNone(q) => AllOrNone(r)
  BY <1>1, Zenon DEF AllOrNone
<1>9. Bare(q) => Bare(r)
  BY <1>1, Zenon DEF Bare
<1>. QED  BY <1>1, <1>3, <1>4, <1>5, <1>7, <1>8, <1>9 DEF Well, Apart

LEMMA WellLater ==
  ASSUME NEW q, NEW n \in Nat, NEW m \in Nat, n <= m, Well(q, n)
  PROVE  Well(q, m)
<1>1. AtMost(q, n) => AtMost(q, m)
  <2>1. \A a \in Nat : a <= n => a <= m
    OBVIOUS
  <2>. QED  BY <2>1, Zenon DEF AtMost
<1>. QED  BY <1>1, Zenon DEF Well

(* An item for the queue: nothing, the next event, or all of them at once. *)
Fits(item, q, n, m) ==
    \/ item = {} /\ m = n
    \/ pipeline = "adapter_queue" /\ item = {n + 1} /\ m = n + 1
    \/ pipeline = "queue_adapter" /\ item = 1..Total /\ m = n /\ Bare(q)

LEMMA WellMore ==
  ASSUME Total \in Nat, NEW q \in Seq(SUBSET (1..Total)), NEW item \in SUBSET (1..Total),
         NEW n \in Nat, NEW m, Well(q, n), Fits(item, q, n, m), pipeline \in Pipeline,
         HasQueue, NEW r, r = Append(q, item)
  PROVE  Well(r, m)
<1>. DEFINE l == Len(q)
<1>1. /\ l \in Nat /\ Len(r) = l + 1 /\ r[l + 1] = item /\ \A i \in 1..l : r[i] = q[i]
      /\ \A i \in 1..l : q[i] \in SUBSET (1..Total)
  <2>1. Append(q, item) \in Seq(SUBSET (1..Total))
    BY Appended
  <2>. QED  BY Appended, ElementOfSeq
<1>2. \A i \in 1..(l + 1) : (i \in 1..l /\ i < l + 1) \/ i = l + 1
  BY <1>1
<1>3. \A i \in 1..l : ~ l + 1 < i /\ l + 1 # i
  BY <1>1
<1>4. /\ Apart(q)
      /\ pipeline = "adapter_queue" => AtMost(q, n) /\ Rising(q)
      /\ pipeline = "queue_adapter" => AllOrNone(q)
  BY DEF Well
<1>5. ASSUME \A i \in 1..l : q[i] \cap item = {} PROVE Apart(r)
  <2>1. ASSUME NEW i \in 1..(l + 1), NEW j \in 1..(l + 1), i # j PROVE r[i] \cap r[j] = {}
    <3>1. CASE i \in 1..l /\ j \in 1..l
      BY <1>1, <1>4, <2>1, <3>1 DEF Apart
    <3>2. CASE i \in 1..l /\ j = l + 1
      BY <1>1, <1>5, <3>2
    <3>3. CASE i = l + 1 /\ j \in 1..l
      BY <1>1, <1>5, <3>3
    <3>. QED  BY <1>2, <2>1, <3>1, <3>2, <3>3
  <2>. HIDE DEF l
  <2>. QED  BY <1>1, <2>1 DEF Apart
<1>6. ASSUME AllOrNone(q), item \in {{}, 1..Total} PROVE AllOrNone(r)
  <2>1. \A i \in 1..l : r[i] \in {{}, 1..Total}
    BY <1>1, <1>6 DEF AllOrNone
  <2>. HIDE DEF l
  <2>. QED  BY <1>1, <1>2, <1>6, <2>1 DEF AllOrNone
<1>7. ASSUME AtMost(q, n), Rising(q), (item = {} /\ m = n) \/ (item = {n + 1} /\ m = n + 1)
      PROVE  AtMost(r, m) /\ Rising(r)
  <2>1. ASSUME NEW i \in 1..l, NEW a \in q[i]
        PROVE  a \in Nat /\ a <= m /\ (item # {} => a < n + 1 /\ a # n + 1)
    <3>1. a \in Nat /\ a <= n
      BY <1>7, <2>1 DEF AtMost
    <3>2. m = n \/ m = n + 1
      BY <1>7
    <3>3. a <= m /\ a < n + 1 /\ a # n + 1
      BY <3>1, <3>2
    <3>. QED  BY <3>1, <3>3
  <2>2. item # {} => item = {n + 1} /\ n + 1 \in Nat /\ n + 1 <= m
    <3>1. n + 1 \in Nat /\ n + 1 <= n + 1
      OBVIOUS
    <3>. QED  BY <1>7, <3>1
  <2>. HIDE DEF l
  <2>3. AtMost(r, m)
    BY <1>1, <1>2, <2>1, <2>2 DEF AtMost
  <2>4. ASSUME NEW i \in 1..(l + 1), NEW j \in 1..(l + 1), NEW a, NEW b, a \in r[i], b \in r[j]
        PROVE  (i < j => a < b) /\ (i = j => a = b)
    <3>1. CASE i \in 1..l /\ j \in 1..l
      <4>1. a \in q[i] /\ b \in q[j]
        BY <1>1, <2>4, <3>1
      <4>. QED  BY <1>7, <3>1, <4>1, Zenon DEF Rising, l
    <3>2. CASE i \in 1..l /\ j = l + 1
      <4>1. a \in q[i] /\ b = n + 1 /\ item # {} /\ i # j
        BY <1>1, <1>3, <2>2, <2>4, <3>2
      <4>. QED  BY <2>1, <3>2, <4>1
    <3>3. CASE i = l + 1 /\ j \in 1..l
      BY <1>1, <1>3, <3>3
    <3>4. CASE i = l + 1 /\ j = l + 1
      <4>1. a = b /\ ~ i < j
        BY <1>1, <2>2, <2>4, <3>4
      <4>. QED  BY <4>1
    <3>. QED  BY <1>2, <3>1, <3>2, <3>3, <3>4
  <2>5. Rising(r)
    <3>1. ASSUME NEW i \in 1..Len(r), NEW j \in 1..Len(r), NEW a, NEW b, a \in r[i], b \in r[j]
          PROVE  (i < j => a < b) /\ (i = j => a = b)
      <4>1. i \in 1..(l + 1) /\ j \in 1..(l + 1)
        BY <1>1, <3>1
      <4>. QED  BY <2>4, <3>1, <4>1
    <3>. QED  BY <3>1 DEF Rising
  <2>. QED  BY <2>3, <2>5
<1>8. \A i \in 1..l : q[i] \cap item = {}
  <2>1. CASE item = {}
    BY <2>1
  <2>2. CASE pipeline = "adapter_queue" /\ item = {n + 1}
    <3>1. ASSUME NEW i \in 1..l PROVE n + 1 \notin q[i]
      <4>1. n + 1 \in q[i] => n + 1 <= n
        BY <1>4, <2>2 DEF AtMost
      <4>. QED  BY <4>1
    <3>. QED  BY <2>2, <3>1
  <2>3. CASE Bare(q)
    BY <2>3 DEF Bare
  <2>. QED  BY <2>1, <2>2, <2>3 DEF Fits
<1>9. CASE pipeline = "adapter_queue"
  <2>1. AtMost(q, n) /\ Rising(q) /\ ((item = {} /\ m = n) \/ (item = {n + 1} /\ m = n + 1))
    BY <1>4, <1>9, Zenon DEF Fits
  <2>2. Apart(r) /\ AtMost(r, m) /\ Rising(r)
    BY <1>5, <1>7, <1>8, <2>1
  <2>. QED  BY <1>9, <2>2 DEF Well
<1>10. CASE pipeline = "queue_adapter"
  <2>1. AllOrNone(q) /\ item \in {{}, 1..Total}
    BY <1>4, <1>10 DEF Fits
  <2>2. Apart(r) /\ AllOrNone(r)
    BY <1>5, <1>6, <1>8, <2>1
  <2>. QED  BY <1>10, <2>2 DEF Well
<1>. QED  BY <1>9, <1>10 DEF HasQueue

(* _enqueue(): what the queue held or was given is there or let go. *)
LEMMA ItemIsQueued ==
  ASSUME ExportInv, HasQueue, NEW item \in SUBSET (1..Total), NEW m \in Nat,
         Fits(item, waiting, Done, m), item \cap lost = {}, EnqueueItem(item)
  PROVE  /\ waiting' \in Seq(SUBSET (1..Total)) /\ Len(waiting') <= MaxQueue
         /\ Well(waiting', m)
         /\ lost \subseteq lost' /\ lost' \subseteq 1..Total
         /\ \A i \in 1..Len(waiting') : waiting'[i] \cap lost' = {}
         /\ \A e \in lost' : e \in lost \/ e \in item \/ \E i \in 1..Len(waiting) : e \in waiting[i]
         /\ \A e : (e \in item \/ \E i \in 1..Len(waiting) : e \in waiting[i]) =>
                       e \in lost' \/ \E i \in 1..Len(waiting') : e \in waiting'[i]
<1>. DEFINE longer == Append(waiting, item)
            l == Len(waiting)
<1>1. /\ waiting \in Seq(SUBSET (1..Total)) /\ l <= MaxQueue /\ l \in Nat /\ Total \in Nat
      /\ Done \in Nat /\ lost \subseteq 1..Total /\ pipeline \in Pipeline
      /\ Well(waiting, Done) /\ \A i \in 1..l : waiting[i] \cap lost = {}
      /\ MaxQueue \in Nat
  BY FlowFacts, ExportAssumption DEF ExportInv, FlowTypes, Queues
<1>2. PICK q : q = longer
  OBVIOUS
<1>3. /\ q \in Seq(SUBSET (1..Total)) /\ Len(q) = l + 1 /\ q[l + 1] = item
      /\ \A i \in 1..l : q[i] = waiting[i]
  BY <1>1, <1>2, Appended
<1>4. Well(q, m)
  BY <1>1, <1>2, WellMore
<1>5. \A i \in 1..(l + 1) : q[i] \cap lost = {} /\ q[i] \subseteq 1..Total
  <2>1. \A i \in 1..(l + 1) : i \in 1..l \/ i = l + 1
    BY <1>1
  <2>2. \A i \in 1..(l + 1) : q[i] \in SUBSET (1..Total)
    BY <1>3, ElementOfSeq
  <2>. QED  BY <1>1, <1>3, <2>1, <2>2
<1>6. \E d \in {0, 1} :
         /\ Cut(q, waiting', d) /\ waiting' \in Seq(SUBSET (1..Total)) /\ Len(waiting') <= MaxQueue
         /\ lost' = IF d = 1 THEN lost \cup q[1] ELSE lost
  <2>1. CASE Len(q) > MaxQueue
    <3>1. waiting' = Tail(q) /\ lost' = lost \cup Head(q)
      BY <1>2, <2>1 DEF EnqueueItem
    <3>2. q # <<>>
      BY <1>1, <1>3
    <3>3. /\ Tail(q) \in Seq(SUBSET (1..Total)) /\ Len(Tail(q)) = Len(q) - 1 /\ Head(q) = q[1]
          /\ \A i \in 1..(Len(q) - 1) : Tail(q)[i] = q[i + 1] /\ i + 1 \in 1..Len(q)
      BY <1>3, <3>2, HeadTaken
    <3>4. Len(waiting') = Len(q) - 1 /\ Len(waiting') <= MaxQueue
      BY <1>1, <1>3, <3>1, <3>3
    <3>5. Cut(q, waiting', 1)
      BY <3>1, <3>3, <3>4 DEF Cut
    <3>. QED  BY <3>1, <3>3, <3>4, <3>5
  <2>2. CASE ~ Len(q) > MaxQueue
    <3>1. waiting' = q /\ lost' = lost
      BY <1>2, <2>2 DEF EnqueueItem
    <3>2. Len(q) - 0 = Len(q) /\ \A i \in 1..Len(q) : i + 0 = i
      BY <1>3
    <3>3. Cut(q, waiting', 0)
      BY <3>1, <3>2 DEF Cut
    <3>. QED  BY <1>1, <1>3, <2>2, <3>1, <3>3
  <2>. QED  BY <2>1, <2>2
<1>7. PICK d \in {0, 1} :
         /\ Cut(q, waiting', d) /\ waiting' \in Seq(SUBSET (1..Total)) /\ Len(waiting') <= MaxQueue
         /\ lost' = IF d = 1 THEN lost \cup q[1] ELSE lost
  BY <1>6
<1>8. Len(q) \in Nat
  BY <1>1, <1>3
<1>9. PICK r : r = waiting'
  OBVIOUS
<1>10. d = 1 => \A i \in 1..Len(r) : q[1] \cap r[i] = {}
  BY <1>4, <1>7, <1>8, <1>9, CutWell
<1>11. Well(r, m)
  BY <1>4, <1>7, <1>8, <1>9, CutWell
<1>12. \A i \in 1..Len(r) : i + d \in 1..(l + 1) /\ r[i] = q[i + d]
  BY <1>3, <1>7, <1>9 DEF Cut
<1>13. \A i \in 1..Len(r) : r[i] \cap lost' = {}
  BY <1>5, <1>7, <1>10, <1>11, <1>12
<1>14. 1 \in 1..(l + 1)
  BY <1>1
<1>15. lost \subseteq lost' /\ lost' \subseteq 1..Total
  BY <1>1, <1>5, <1>7, <1>14
<1>16. \A e \in lost' : e \in lost \/ e \in item \/ \E i \in 1..l : e \in waiting[i]
  <2>1. 1 \in 1..l \/ 1 = l + 1
    BY <1>1
  <2>. QED  BY <1>3, <1>7, <2>1
<1>17. ASSUME NEW i \in 1..(l + 1), NEW e \in q[i]
       PROVE  e \in lost' \/ \E j \in 1..Len(r) : e \in r[j]
  <2>1. CASE d = 1 /\ i = 1
    BY <1>7, <1>17, <2>1
  <2>2. CASE ~ (d = 1 /\ i = 1)
    <3>1. i - d \in 1..Len(r) /\ i - d + d = i
      <4>1. Len(r) = l + 1 - d
        BY <1>3, <1>7, <1>9 DEF Cut
      <4>. QED  BY <1>1, <2>2, <4>1
    <3>. QED  BY <1>12, <1>17, <3>1
  <2>. QED  BY <2>1, <2>2
<1>18. \A e : (e \in item \/ \E i \in 1..l : e \in waiting[i]) =>
                       e \in lost' \/ \E i \in 1..Len(r) : e \in r[i]
  <2>1. l + 1 \in 1..(l + 1) /\ \A i \in 1..l : i \in 1..(l + 1)
    BY <1>1
  <2>. QED  BY <1>3, <1>17, <2>1
<1>. QED  BY <1>7, <1>9, <1>11, <1>13, <1>15, <1>16, <1>18

(* popleft(), after the oldest element was taken. *)
LEMMA TurnIsOver ==
  ASSUME ExportInv, TurnPasses
  PROVE  /\ waiting' \in Seq(SUBSET (1..Total)) /\ Len(waiting') <= MaxQueue
         /\ Well(waiting', Done) /\ lost' = lost
         /\ Bare(waiting) => Bare(waiting')
         /\ \A i \in 1..Len(waiting') : waiting'[i] \cap lost = {}
         /\ waiting = <<>> => waiting' = <<>> /\ call' = "none"
         /\ waiting # <<>> => call' = call /\ 1 \in 1..Len(waiting)
         /\ waiting # <<>> => \A i \in 1..Len(waiting) : \A e \in waiting[i] :
                e \in waiting[1] \/ \E j \in 1..Len(waiting') : e \in waiting'[j]
<1>1. /\ waiting \in Seq(SUBSET (1..Total)) /\ Len(waiting) <= MaxQueue /\ Len(waiting) \in Nat
      /\ Well(waiting, Done) /\ \A i \in 1..Len(waiting) : waiting[i] \cap lost = {}
      /\ MaxQueue \in Nat
  BY FlowFacts, ExportAssumption DEF ExportInv, Queues
<1>2. /\ waiting = <<>> => waiting' = waiting /\ call' = "none"
      /\ waiting # <<>> => waiting' = Tail(waiting) /\ call' = call
      /\ lost' = lost
  BY DEF TurnPasses
<1>3. CASE waiting = <<>>
  BY <1>1, <1>2, <1>3
<1>4. CASE waiting # <<>>
  <2>1. PICK r : r = waiting'
    OBVIOUS
  <2>2. /\ r \in Seq(SUBSET (1..Total)) /\ Len(r) = Len(waiting) - 1
        /\ \A i \in 1..(Len(waiting) - 1) : r[i] = waiting[i + 1] /\ i + 1 \in 1..Len(waiting)
        /\ Len(waiting) \in Nat \ {0}
    BY <1>1, <1>2, <1>4, <2>1, HeadTaken
  <2>3. Cut(waiting, r, 1)
    BY <2>2 DEF Cut
  <2>4. Well(r, Done) /\ (Bare(waiting) => Bare(r))
    BY <1>1, <2>3, CutWell
  <2>5. Len(r) <= MaxQueue /\ 1 \in 1..Len(waiting)
    BY <1>1, <2>2
  <2>6. \A i \in 1..Len(r) : r[i] \cap lost = {}
    BY <1>1, <2>2
  <2>7. ASSUME NEW i \in 1..Len(waiting), NEW e \in waiting[i], e \notin waiting[1]
        PROVE  \E j \in 1..Len(r) : e \in r[j]
    <3>1. i - 1 \in 1..Len(r) /\ i - 1 + 1 = i
      BY <2>2, <2>7
    <3>. QED  BY <2>2, <2>7, <3>1
  <2>. QED  BY <1>2, <1>4, <2>1, <2>2, <2>4, <2>5, <2>6, <2>7
<1>. QED  BY <1>3, <1>4

-----------------------------------------------------------------------------
(* Steps.                                                                  *)

LEMMA OverallStatusType == OverallStatus \in {"PASS", "PARTIAL", "FAIL"}
BY DEF OverallStatus

(* The receipt is finished. *)
SameReceiptSteps == UNCHANGED <<receiptVars, pipeline, destination, phase, status>>

LEMMA ReceiptIsFixed ==
  ASSUME ExportInv, SameReceiptSteps
  PROVE  /\ ReceiptInv' /\ Total' = Total /\ Total \in Nat /\ OverallStatus' = OverallStatus
         /\ StoredEvent' = StoredEvent /\ (HasQueue' <=> HasQueue)
         /\ UNCHANGED <<pipeline, destination, phase, status>>
<1>1. UNCHANGED <<sources, actions, policy, toolCallControl>>
  BY DEF SameReceiptSteps, receiptVars
<1>2. Total' = Total /\ StoredEvent' = StoredEvent
  BY <1>1 DEF Total, StoredEvent
<1>3. OverallStatus' = OverallStatus
  BY <1>1 DEF OverallStatus, Denied, ShouldBlock
<1>4. ReceiptInv' /\ Total \in Nat
  BY SameReceipt, TotalIsNat DEF ExportInv, SameReceiptSteps
<1>. QED  BY <1>2, <1>3, <1>4 DEF SameReceiptSteps, HasQueue

(* While the receipt is built nothing of it is on its way. *)
LEMMA BuildingKeeps ==
  ASSUME ExportInv, ReceiptInv', phase = "building", UNCHANGED <<sinkVars, phase, status>>
  PROVE  ExportInv'
<1>1. /\ todo = <<>> /\ call = "none" /\ stored = <<>> /\ lost = {} /\ Bare(waiting)
      /\ UNCHANGED <<pipeline, destination, todo, waiting, call, closed, stored, hour, lost, raises>>
  BY DEF ExportInv, Places, sinkVars
<1>2. Total' \in Nat
  BY DEF ReceiptInv, ReceiptTypes, Total
<1>3. waiting' \in Seq(SUBSET (1..Total')) /\ Bare(waiting')
  <2>1. waiting \in Seq(SUBSET (1..Total)) /\ \A i \in 1..Len(waiting) : waiting[i] = {}
    BY <1>1, FlowFacts DEF Bare
  <2>2. \A i \in 1..Len(waiting) : waiting[i] \in SUBSET (1..Total')
    BY <2>1
  <2>3. waiting \in Seq(SUBSET (1..Total'))
    <3>1. /\ waiting = [i \in 1..Len(waiting) |-> waiting[i]] /\ Len(waiting) \in Nat
      BY <2>1
    <3>. QED  BY <2>2, <3>1
  <2>. QED  BY <1>1, <2>3 DEF Bare
<1>4. /\ todo' \in Seq(1..Total') /\ stored' \in Seq(StoredEvent')
      /\ Len(todo') = 0 /\ Len(stored') = 0 /\ todo' = <<>> /\ call' = "none" /\ lost' = {}
  BY <1>1, NothingIsSeq
<1>5. EndsWith(todo, Total)'
  BY <1>2, <1>4 DEF EndsWith
<1>6. FlowTypes'
  <2>1. /\ pipeline \in Pipeline /\ destination \in Destination
        /\ phase \in {"building", "published", "refused"}
        /\ status \in {"none", "PASS", "PARTIAL", "FAIL"}
        /\ Len(waiting) <= MaxQueue /\ closed \in BOOLEAN /\ hour \in 0..MaxHour /\ raises \in 0..MaxRaises
    BY DEF ExportInv, FlowTypes
  <2>. QED  BY <1>1, <1>3, <1>4, <1>5, <2>1 DEF FlowTypes
<1>7. Places'
  <2>1. (HasQueue' <=> HasQueue) /\ (~ HasQueue => waiting = <<>>)
    BY <1>1 DEF HasQueue, ExportInv, Places
  <2>. QED  BY <1>1, <1>3, <1>4, <2>1 DEF Places
<1>8. Queues'
  <2>1. \A i \in 1..Len(waiting') : waiting'[i] = {}
    BY <1>3 DEF Bare
  <2>2. Well(waiting, Done)'
    BY <2>1 DEF Well, Apart, AtMost, Rising, AllOrNone
  <2>. QED  BY <1>4, <2>1, <2>2 DEF Queues
<1>9. Rest'
  BY DEF Rest
<1>. QED  BY <1>6, <1>7, <1>8, <1>9 DEF ExportInv

LEMMA PublishKeeps ==
  ASSUME ExportInv, Publish
  PROVE  ExportInv'
<1>1. /\ phase = "building" /\ status' = OverallStatus
      /\ UNCHANGED <<receiptVars, pipeline, destination, waiting, closed, stored, hour, lost, raises>>
      /\ \/ phase' = "refused" /\ closed /\ UNCHANGED <<todo, call>>
         \/ /\ phase' = "published" /\ ~ closed
            /\ \/ pipeline = "queue_adapter" /\ call' = "receipt" /\ UNCHANGED todo
               \/ pipeline # "queue_adapter" /\ todo' = Events /\ UNCHANGED call
  BY DEF Publish
<1>2. todo = <<>> /\ call = "none" /\ stored = <<>> /\ lost = {} /\ Bare(waiting)
      /\ (~ HasQueue => waiting = <<>>)
  BY <1>1 DEF ExportInv, Places
<1>3. ReceiptInv' /\ Total' = Total /\ Total \in Nat /\ OverallStatus' = OverallStatus
      /\ StoredEvent' = StoredEvent
  <2>1. UNCHANGED <<sources, actions, policy, toolCallControl>>
    BY <1>1 DEF receiptVars
  <2>2. OverallStatus' = OverallStatus
    BY <2>1 DEF OverallStatus, Denied, ShouldBlock
  <2>. QED  BY <1>1, <2>1, <2>2, SameReceipt, TotalIsNat DEF ExportInv, Total, StoredEvent
<1>4. \/ todo' = <<>>
      \/ todo' = Events
  BY <1>1, <1>2
<1>5. todo' \in Seq(1..Total) /\ EndsWith(todo', Total)
  BY <1>4, EventsAre, NothingLeft DEF ExportInv
<1>6. FlowTypes'
  <2>1. EndsWith(todo, Total)'
    BY <1>3, <1>5 DEF EndsWith
  <2>2. /\ pipeline \in Pipeline /\ destination \in Destination
        /\ waiting \in Seq(SUBSET (1..Total)) /\ stored \in Seq(StoredEvent) /\ lost \subseteq 1..Total
        /\ Len(waiting) <= MaxQueue /\ closed \in BOOLEAN /\ hour \in 0..MaxHour /\ raises \in 0..MaxRaises
    BY DEF ExportInv, FlowTypes
  <2>3. call' \in {"none", "receipt", "other", "close"} /\ phase' \in {"building", "published", "refused"}
    BY <1>1, <1>2
  <2>. QED  BY <1>1, <1>3, <1>5, <2>1, <2>2, <2>3, OverallStatusType DEF FlowTypes
<1>7. Places'
  <2>1. (HasQueue' <=> HasQueue) /\ (pipeline = "queue_adapter" => HasQueue) /\ Bare(waiting')
    BY <1>1, <1>2 DEF HasQueue, Bare
  <2>. QED  BY <1>1, <1>2, <1>3, <2>1 DEF Places
<1>8. Queues'
  <2>1. \A i \in 1..Len(waiting') : waiting'[i] = {}
    BY <1>1, <1>2 DEF Bare
  <2>2. Well(waiting, Done)' /\ Bare(waiting')
    BY <2>1 DEF Well, Bare, Apart, AtMost, Rising, AllOrNone
  <2>. QED  BY <1>1, <1>2, <2>1, <2>2 DEF Queues
<1>9. Rest'
  <2>. SUFFICES ASSUME phase' = "published"
                PROVE  /\ \A e \in 1..Done' : Settled(e)' \/ Held(e)'
                       /\ (pipeline' # "adapter_queue" /\ todo' # <<>>) => \A e \in 1..Done' : Settled(e)'
                       /\ Ordered'
    BY DEF Rest
  <2>1. Ordered'
    <3>1. Len(stored') = 0
      BY <1>1, <1>2, NothingIsSeq
    <3>. QED  BY <3>1 DEF Ordered
  <2>2. CASE pipeline = "queue_adapter"
    BY <1>1, <1>2, <2>1, <2>2 DEF Held
  <2>3. CASE pipeline # "queue_adapter"
    <3>1. Len(Events) = Total /\ todo' = Events
      BY <1>1, <2>3, EventsAre DEF ExportInv
    <3>2. Done' = 0
      BY <1>3, <3>1 DEF Done
    <3>. QED  BY <2>1, <3>2
  <2>. QED  BY <2>2, <2>3
<1>. QED  BY <1>3, <1>6, <1>7, <1>8, <1>9 DEF ExportInv

(* Steps that move no event: a call begins or ends, an hour begins. *)
LEMMA QuietKeeps ==
  ASSUME ExportInv, SameReceiptSteps, UNCHANGED <<todo, waiting, stored, lost, raises>>,
         hour' \in 0..MaxHour, closed' \in BOOLEAN,
         closed => closed',
         \/ call' = call /\ (call = "receipt" => ~ closed')
         \/ /\ call # "receipt" /\ call' \in {"none", "receipt", "other", "close"}
            /\ phase = "published" \/ call' = "none"
            /\ pipeline = "queue_adapter" => todo = <<>>
            /\ HasQueue \/ call' = "none"
            /\ call' = "receipt" => pipeline = "adapter_queue" /\ todo # <<>> /\ ~ closed'
  PROVE  ExportInv'
<1>1. /\ ReceiptInv' /\ Total' = Total /\ OverallStatus' = OverallStatus /\ StoredEvent' = StoredEvent
      /\ (HasQueue' <=> HasQueue) /\ UNCHANGED <<pipeline, destination, phase, status>>
  BY ReceiptIsFixed
<1>2. Done' = Done
  BY <1>1 DEF Done
<1>3. FlowTypes'
  <2>1. EndsWith(todo, Total)' <=> EndsWith(todo, Total)
    BY <1>1 DEF EndsWith
  <2>2. call' \in {"none", "receipt", "other", "close"}
    BY DEF ExportInv, FlowTypes
  <2>. QED  BY <1>1, <2>1, <2>2 DEF ExportInv, FlowTypes
<1>4. (Bare(waiting)' <=> Bare(waiting)) /\ (Well(waiting, Done)' <=> Well(waiting, Done))
  <2>1. (Bare(waiting)' <=> Bare(waiting)) /\ (Apart(waiting)' <=> Apart(waiting))
    BY DEF Bare, Apart
  <2>2. AtMost(waiting, Done)' <=> AtMost(waiting, Done)
    BY <1>2 DEF AtMost
  <2>3. Rising(waiting)' <=> Rising(waiting)
    BY DEF Rising
  <2>4. AllOrNone(waiting)' <=> AllOrNone(waiting)
    BY <1>1 DEF AllOrNone
  <2>. QED  BY <1>1, <2>1, <2>2, <2>3, <2>4 DEF Well
<1>5. Places
  BY DEF ExportInv
<1>6. Places'
  <2>1. call' = call => (AtWork' <=> AtWork)
    BY <1>1 DEF AtWork
  <2>2. /\ phase # "published" =>
             todo' = <<>> /\ call' = "none" /\ stored' = <<>> /\ lost' = {} /\ Bare(waiting)'
        /\ phase = "refused" => closed'
        /\ ~ HasQueue => waiting' = <<>> /\ call' = "none"
        /\ call' = "receipt" => ~ closed'
        /\ (pipeline = "adapter_queue" /\ call' = "receipt") => todo' # <<>>
        /\ (pipeline = "queue_adapter" /\ todo' # <<>>) => AtWork'
        /\ phase # "building" => status = OverallStatus
    BY <1>4, <1>5, <2>1 DEF Places
  <2>. QED  BY <1>1, <1>4, <2>2 DEF Places
<1>7. Queues'
  BY <1>1, <1>2, <1>4 DEF ExportInv, Queues
<1>8. Rest'
  <2>1. (\A e : Settled(e)' <=> Settled(e)) /\ (Ordered' <=> Ordered)
    <3>1. \A e : Arrived(e)' <=> Arrived(e)
      BY DEF Arrived
    <3>. QED  BY <3>1 DEF Settled, Ordered
  <2>2. \A e : Held(e) => Held(e)'
    BY <1>1 DEF Held, ExportInv, Places
  <2>. QED  BY <1>1, <1>2, <2>1, <2>2 DEF ExportInv, Rest
<1>. QED  BY <1>1, <1>3, <1>6, <1>7, <1>8 DEF ExportInv

(* A published receipt moves on: what has to be shown of the step. *)
LEMMA MovedOn ==
  ASSUME ExportInv, SameReceiptSteps, phase = "published",
         NEW n, n = Total - Len(todo'), todo' \in Seq(1..Total), EndsWith(todo', Total),
         waiting' \in Seq(SUBSET (1..Total)), Len(waiting') <= MaxQueue,
         stored' \in Seq(StoredEvent), UNCHANGED <<hour, closed>>, lost' \subseteq 1..Total,
         raises' \in 0..MaxRaises, call' \in {call, "none"},
         Well(waiting', n), \A i \in 1..Len(waiting') : waiting'[i] \cap lost' = {},
         \A e \in lost' : e <= n,
         (pipeline = "queue_adapter" /\ call' = "receipt") => Bare(waiting') /\ lost' = {},
         ~ HasQueue => waiting' = <<>>,
         (pipeline = "adapter_queue" /\ call' = "receipt") => todo' # <<>>,
         (pipeline = "queue_adapter" /\ todo' # <<>>) => AtWork /\ UNCHANGED <<waiting, call>>,
         destination = "stream" =>
             /\ \A e \in 1..n : Settled(e)' \/ Held(e)'
             /\ (pipeline # "adapter_queue" /\ todo' # <<>>) => \A e \in 1..n : Settled(e)'
             /\ Ordered'
  PROVE  ExportInv'
<1>1. /\ ReceiptInv' /\ Total' = Total /\ OverallStatus' = OverallStatus /\ StoredEvent' = StoredEvent
      /\ (HasQueue' <=> HasQueue) /\ UNCHANGED <<pipeline, destination, phase, status>>
  BY ReceiptIsFixed
<1>2. Done' = n
  BY <1>1 DEF Done
<1>3. FlowTypes'
  <2>1. EndsWith(todo, Total)'
    BY <1>1 DEF EndsWith
  <2>2. call' \in {"none", "receipt", "other", "close"}
    BY DEF ExportInv, FlowTypes
  <2>3. /\ pipeline \in Pipeline /\ destination \in Destination
        /\ phase \in {"building", "published", "refused"}
        /\ status \in {"none", "PASS", "PARTIAL", "FAIL"}
        /\ closed \in BOOLEAN /\ hour \in 0..MaxHour
    BY DEF ExportInv, FlowTypes
  <2>. QED  BY <1>1, <2>1, <2>2, <2>3 DEF FlowTypes
<1>4. Places'
  <2>1. (AtWork /\ UNCHANGED <<waiting, call>>) => AtWork'
    BY <1>1 DEF AtWork
  <2>2. /\ ~ HasQueue => call = "none"
        /\ call = "receipt" => ~ closed
        /\ status = OverallStatus
    BY DEF ExportInv, Places
  <2>. QED  BY <1>1, <2>1, <2>2 DEF Places
<1>5. Queues'
  <2>1. Well(waiting, Done)'
    <3>1. Apart(waiting') => Apart(waiting)'
      BY DEF Apart
    <3>2. AtMost(waiting', n) => AtMost(waiting, Done)'
      BY <1>2 DEF AtMost
    <3>3. Rising(waiting') => Rising(waiting)'
      BY DEF Rising
    <3>4. AllOrNone(waiting') => AllOrNone(waiting)'
      BY <1>1 DEF AllOrNone
    <3>. QED  BY <1>1, <3>1, <3>2, <3>3, <3>4 DEF Well
  <2>2. Bare(waiting)' <=> Bare(waiting')
    BY DEF Bare
  <2>. QED  BY <1>1, <1>2, <2>1, <2>2 DEF Queues
<1>6. Rest'
  BY <1>1, <1>2 DEF Rest
<1>. QED  BY <1>1, <1>3, <1>4, <1>5, <1>6 DEF ExportInv

(* Lost events stay behind those that were forwarded. *)
LEMMA LostIsDone ==
  ASSUME ExportInv
  PROVE  /\ \A e \in lost : e \in 1..Total /\ e <= Done /\ e <= Done + 1 /\ e # Done + 1
         /\ Done + 1 \notin lost
         /\ \A i \in 1..Len(waiting) : waiting[i] \subseteq 1..Total /\ waiting[i] \cap lost = {}
<1>1. Done \in Nat /\ Total \in Nat /\ lost \subseteq 1..Total /\ \A e \in lost : e <= Done
  BY FlowFacts DEF ExportInv, Queues
<1>2. \A i \in 1..Len(waiting) : waiting[i] \in SUBSET (1..Total)
  BY FlowFacts, ElementOfSeq
<1>3. \A e \in lost : e \in 1..Total /\ e <= Done /\ e <= Done + 1 /\ e # Done + 1
  BY <1>1
<1>4. \A i \in 1..Len(waiting) : waiting[i] \cap lost = {}
  BY DEF ExportInv, Queues
<1>. QED  BY <1>2, <1>3, <1>4

LEMMA ForwardKeeps ==
  ASSUME ExportInv, Forward
  PROVE  ExportInv'
<1>0. PICK k : k = Head(todo)
  OBVIOUS
<1>1. /\ todo # <<>> /\ pipeline # "adapter_queue" /\ Store(k) /\ todo' = Tail(todo)
      /\ SameReceiptSteps /\ UNCHANGED <<closed, hour, raises>>
      /\ \/ pipeline = "queue_adapter" /\ Len(todo) = 1 /\ TurnPasses
         \/ ~ (pipeline = "queue_adapter" /\ Len(todo) = 1) /\ UNCHANGED <<waiting, call, lost>>
  BY <1>0 DEF Forward, Forwarding, Takes, SameReceiptSteps
<1>2. /\ k = Done + 1 /\ k \in 1..Total /\ phase = "published"
      /\ todo' \in Seq(1..Total) /\ EndsWith(todo', Total) /\ Total - Len(todo') = k
      /\ Len(todo) = 1 => todo' = <<>>
  BY <1>0, <1>1, NextForward
<1>3. /\ Total \in Nat /\ Done \in Nat /\ ReceiptInv /\ stored \in Seq(StoredEvent)
      /\ hour \in 0..MaxHour /\ raises \in 0..MaxRaises /\ lost \subseteq 1..Total
      /\ waiting \in Seq(SUBSET (1..Total)) /\ Len(waiting) <= MaxQueue
      /\ Well(waiting, Done) /\ k \in Nat /\ Done <= k
      /\ (pipeline = "queue_adapter" /\ call = "receipt") => Bare(waiting) /\ lost = {}
  BY <1>2, FlowFacts DEF ExportInv, Queues
<1>4. /\ \A e \in lost : e <= k
      /\ k \notin lost
      /\ \A i \in 1..Len(waiting) : waiting[i] \cap lost = {}
  BY <1>2, LostIsDone
<1>5. stored' \in Seq(StoredEvent)
  BY <1>1, <1>2, <1>3, StoreAppends
<1>6. /\ lost' = lost /\ call' \in {call, "none"}
      /\ waiting' \in Seq(SUBSET (1..Total)) /\ Len(waiting') <= MaxQueue /\ Well(waiting', Done)
      /\ \A i \in 1..Len(waiting') : waiting'[i] \cap lost = {}
      /\ Bare(waiting) => Bare(waiting')
  <2>1. CASE TurnPasses
    BY <2>1, TurnIsOver
  <2>2. CASE UNCHANGED <<waiting, call, lost>>
    BY <1>3, <1>4, <2>2 DEF Bare
  <2>. QED  BY <1>1, <2>1, <2>2
<1>7. Well(waiting', k)
  BY <1>3, <1>6, WellLater
<1>8. ~ HasQueue => waiting' = <<>>
  BY <1>1 DEF HasQueue, ExportInv, Places
<1>9. (pipeline = "queue_adapter" /\ todo' # <<>>) => AtWork /\ UNCHANGED <<waiting, call>>
  BY <1>1, <1>2 DEF ExportInv, Places
<1>10. destination = "stream" => (\A e \in 1..k : Settled(e)') /\ Ordered'
  <2>. SUFFICES ASSUME destination = "stream" PROVE (\A e \in 1..k : Settled(e)') /\ Ordered'
    OBVIOUS
  <2>1. Ordered /\ \A e \in 1..(k - 1) : Settled(e)
    <3>1. k - 1 = Done
      BY <1>2, <1>3
    <3>. QED  BY <1>1, <1>2, <3>1 DEF ExportInv, Rest
  <2>2. Ordered' /\ Settled(k)' /\ \A e : Settled(e) => Settled(e)'
    BY <1>1, <1>2, <1>3, <1>4, <1>6, <2>1, NextIsTried
  <2>3. \A e \in 1..k : e = k \/ e \in 1..(k - 1)
    BY <1>3
  <2>. QED  BY <2>1, <2>2, <2>3
<1>11. call' = "receipt" => call = "receipt"
  BY <1>6
<1>12. (pipeline = "queue_adapter" /\ call' = "receipt") => Bare(waiting') /\ lost' = {}
  BY <1>3, <1>6, <1>11
<1>13. /\ \A i \in 1..Len(waiting') : waiting'[i] \cap lost' = {}
       /\ \A e \in lost' : e <= k
       /\ lost' \subseteq 1..Total /\ raises' \in 0..MaxRaises /\ UNCHANGED <<hour, closed>>
       /\ (pipeline = "adapter_queue" /\ call' = "receipt") => todo' # <<>>
       /\ k = Total - Len(todo')
  BY <1>1, <1>2, <1>3, <1>4, <1>6
<1>14. destination = "stream" =>
             /\ \A e \in 1..k : Settled(e)' \/ Held(e)'
             /\ (pipeline # "adapter_queue" /\ todo' # <<>>) => \A e \in 1..k : Settled(e)'
             /\ Ordered'
  BY <1>10
<1>. QED  BY <1>1, <1>2, <1>5, <1>6, <1>7, <1>8, <1>9, <1>12, <1>13, <1>14, MovedOn

(* The item stays in the queue, and what the call brought follows. *)
LEMMA TurnHasRaised ==
  ASSUME ExportInv, TurnRaises, HasQueue, call # "none", NEW m \in Nat,
         call # "close" => Fits(Carried, waiting, Done, m),
         call = "close" => m = Done,
         Carried \in SUBSET (1..Total), Carried \cap lost = {}
  PROVE  /\ call' = "none"
         /\ waiting' \in Seq(SUBSET (1..Total)) /\ Len(waiting') <= MaxQueue
         /\ Well(waiting', m)
         /\ lost \subseteq lost' /\ lost' \subseteq 1..Total
         /\ \A i \in 1..Len(waiting') : waiting'[i] \cap lost' = {}
         /\ \A e \in lost' : e \in lost \/ e \in Carried \/ \E i \in 1..Len(waiting) : e \in waiting[i]
         /\ \A e : (e \in Carried \/ \E i \in 1..Len(waiting) : e \in waiting[i]) =>
                       e \in lost' \/ \E i \in 1..Len(waiting') : e \in waiting'[i]
<1>1. CASE call = "close"
  <2>1. call' = "none" /\ waiting' = waiting /\ lost' = lost
    BY <1>1 DEF TurnRaises
  <2>2. Carried = {}
    BY <1>1 DEF Carried
  <2>. QED  BY <1>1, <2>1, <2>2, FlowFacts DEF ExportInv, Queues
<1>2. CASE call # "close"
  <2>1. call' = "none" /\ EnqueueItem(Carried)
    BY <1>2 DEF TurnRaises
  <2>2. PICK c : c = Carried
    OBVIOUS
  <2>3. EnqueueItem(c) /\ c \in SUBSET (1..Total) /\ Fits(c, waiting, Done, m) /\ c \cap lost = {}
    BY <1>2, <2>1, <2>2
  <2>. QED  BY <2>1, <2>2, <2>3, ItemIsQueued
<1>. QED  BY <1>1, <1>2

LEMMA ForwardFailsKeeps ==
  ASSUME ExportInv, ForwardFails
  PROVE  ExportInv'
<1>0. PICK k : k = Head(todo)
  OBVIOUS
<1>1. /\ todo # <<>> /\ pipeline # "adapter_queue" /\ Fails(k)
      /\ todo' = IF pipeline = "adapter_multi" THEN Tail(todo) ELSE <<>>
      /\ SameReceiptSteps /\ UNCHANGED <<closed, hour>>
      /\ pipeline = "queue_adapter" => TurnRaises
      /\ pipeline # "queue_adapter" =>
            /\ lost' = lost \cup IF pipeline = "adapter_multi" THEN {k}
                                 ELSE {todo[i] : i \in DOMAIN todo}
            /\ UNCHANGED <<waiting, call>>
  BY <1>0 DEF ForwardFails, Forwarding, SameReceiptSteps
<1>2. /\ k = Done + 1 /\ k \in 1..Total /\ phase = "published"
      /\ Tail(todo) \in Seq(1..Total) /\ EndsWith(Tail(todo), Total) /\ Total - Len(Tail(todo)) = k
      /\ {todo[i] : i \in DOMAIN todo} = (Done + 1)..Total
  BY <1>0, <1>1, NextForward
<1>3. /\ Total \in Nat /\ Done \in Nat /\ Done <= Total /\ ReceiptInv /\ stored \in Seq(StoredEvent)
      /\ hour \in 0..MaxHour /\ raises \in 0..MaxRaises /\ lost \subseteq 1..Total
      /\ waiting \in Seq(SUBSET (1..Total)) /\ Len(waiting) <= MaxQueue
      /\ Well(waiting, Done) /\ k \in Nat /\ EventNumber = 1..Total
      /\ (pipeline = "queue_adapter" /\ call = "receipt") => Bare(waiting) /\ lost = {}
  BY <1>2, FlowFacts DEF ExportInv, Queues
<1>4. /\ \A e \in lost : e <= Done /\ e <= k /\ e <= Total
      /\ k \notin lost
      /\ \A i \in 1..Len(waiting) : waiting[i] \cap lost = {}
  <2>1. /\ \A e \in lost : e \in 1..Total /\ e <= Done /\ e <= Done + 1
        /\ Done + 1 \notin lost /\ \A i \in 1..Len(waiting) : waiting[i] \cap lost = {}
    BY LostIsDone
  <2>2. \A e \in 1..Total : e <= Total
    OBVIOUS
  <2>3. \A e \in lost : e <= Done /\ e <= k /\ e <= Total
    BY <1>2, <2>1, <2>2
  <2>. QED  BY <1>2, <2>1, <2>3, Zenon
<1>5. raises' \in 0..MaxRaises /\ stored' \in Seq(StoredEvent) /\ (stored' = stored \/ Store(k))
  BY <1>1, <1>2, <1>3, FailsStores
<1>6. pipeline = "queue_adapter" => AtWork
  BY <1>1 DEF ExportInv, Places
<1>6a. PICK n : n = IF pipeline = "adapter_multi" THEN k ELSE Total
  OBVIOUS
<1>7. todo' \in Seq(1..Total) /\ EndsWith(todo', Total) /\ Total - Len(todo') = n
      /\ n \in Nat /\ Done <= n /\ n <= Total /\ k <= n
  <2>1. CASE pipeline = "adapter_multi"
    <3>1. n = k /\ todo' = Tail(todo)
      BY <1>1, <1>6a, <2>1
    <3>2. n \in Nat /\ Done <= n /\ n <= Total /\ k <= n
      BY <1>2, <1>3, <3>1
    <3>. QED  BY <1>2, <3>1, <3>2
  <2>2. CASE pipeline # "adapter_multi"
    <3>1. n = Total /\ todo' = <<>>
      BY <1>1, <1>6a, <2>2
    <3>2. n \in Nat /\ Done <= n /\ n <= Total /\ k <= n
      BY <1>2, <1>3, <3>1
    <3>. QED  BY <3>1, <3>2, NothingLeft
  <2>. QED  BY <2>1, <2>2
<1>8. CASE pipeline = "queue_adapter"
  <2>1. call # "none" /\ HasQueue /\ TurnRaises /\ n = Total
    BY <1>1, <1>6, <1>6a, <1>8 DEF AtWork, HasQueue
  <2>2. Carried = IF call = "receipt" THEN 1..Total ELSE {}
    BY <1>3, <1>8 DEF Carried
  <2>3. /\ Fits(Carried, waiting, Done, Done) /\ Carried \in SUBSET (1..Total)
        /\ Carried \cap lost = {}
    BY <1>3, <1>8, <2>2 DEF Fits
  <2>4. /\ call' = "none"
        /\ waiting' \in Seq(SUBSET (1..Total)) /\ Len(waiting') <= MaxQueue
        /\ Well(waiting', Done)
        /\ lost \subseteq lost' /\ lost' \subseteq 1..Total
        /\ \A i \in 1..Len(waiting') : waiting'[i] \cap lost' = {}
        /\ \A e : (e \in Carried \/ \E i \in 1..Len(waiting) : e \in waiting[i]) =>
                      e \in lost' \/ \E i \in 1..Len(waiting') : e \in waiting'[i]
    BY <1>3, <2>1, <2>3, TurnHasRaised
  <2>5. Well(waiting', Total)
    <3>1. \A i \in 1..Len(waiting') : waiting'[i] \in SUBSET (1..Total)
      BY <2>4, ElementOfSeq
    <3>. QED  BY <1>3, <2>4, <3>1, WellLater
  <2>6. \A e \in 1..Total : e \in Carried \/ \E i \in 1..Len(waiting) : e \in waiting[i]
    <3>1. CASE call = "receipt"
      BY <2>2, <3>1
    <3>2. CASE call # "receipt"
      <4>1. waiting # <<>> /\ waiting[1] = 1..Total
        BY <1>6, <1>8, <3>2 DEF AtWork
      <4>2. 1 \in 1..Len(waiting)
        BY <1>3, <4>1
      <4>. QED  BY <4>1, <4>2
    <3>. QED  BY <3>1, <3>2
  <2>7. \A e \in 1..n : Settled(e)' \/ Held(e)'
    BY <2>1, <2>4, <2>6 DEF Settled, Held
  <2>8. destination = "stream" => Ordered'
    <3>. SUFFICES ASSUME destination = "stream" PROVE Ordered'
      OBVIOUS
    <3>1. Ordered /\ \A e \in 1..(k - 1) : Settled(e)
      <4>1. k - 1 = Done
        BY <1>2, <1>3
      <4>. QED  BY <1>1, <1>2, <4>1 DEF ExportInv, Rest
    <3>. QED  BY <1>2, <1>3, <1>4, <1>5, <2>4, <3>1, NextIsTried
  <2>9. /\ todo' = <<>> /\ \A e \in lost' : e <= n
        /\ n = Total - Len(todo')
    BY <1>1, <1>3, <1>7, <1>8, <2>1, <2>4
  <2>. QED  BY <1>1, <1>2, <1>3, <1>5, <1>7, <1>8, <2>1, <2>4, <2>5, <2>7, <2>8, <2>9, MovedOn
<1>9. CASE pipeline # "queue_adapter"
  <2>1. ~ HasQueue /\ waiting = <<>> /\ waiting' = <<>> /\ call = "none" /\ call' = "none"
    BY <1>1, <1>9 DEF HasQueue, ExportInv, Places
  <2>2. lost' = lost \cup k..n
    <3>1. {k} = k..k
      BY <1>3
    <3>. QED  BY <1>1, <1>2, <1>6a, <1>9, <3>1
  <2>3. Len(waiting') = 0 /\ Well(waiting', n)
    BY <2>1, NothingIsSeq DEF Well, Apart, AtMost, Rising, AllOrNone
  <2>4. /\ lost \subseteq lost' /\ lost' \subseteq 1..Total /\ \A e \in lost' : e <= n
        /\ \A e \in 1..n : e \in 1..(k - 1) \/ e \in lost'
    <3>1. \A e \in k..n : e \in 1..Total /\ e <= n
      BY <1>2, <1>3, <1>7
    <3>2. \A e \in lost : e <= n
      <4>1. \A e \in lost : e \in Nat /\ e <= Done
        BY <1>3, <1>4
      <4>. QED  BY <1>3, <1>7, <4>1
    <3>3. \A e \in 1..n : e \in 1..(k - 1) \/ e \in k..n
      BY <1>3, <1>7
    <3>. QED  BY <1>3, <2>2, <3>1, <3>2, <3>3
  <2>5. destination = "stream" => (\A e \in 1..n : Settled(e)') /\ Ordered'
    <3>. SUFFICES ASSUME destination = "stream" PROVE (\A e \in 1..n : Settled(e)') /\ Ordered'
      OBVIOUS
    <3>1. Ordered /\ \A e \in 1..(k - 1) : Settled(e)
      <4>1. k - 1 = Done
        BY <1>2, <1>3
      <4>. QED  BY <1>1, <1>2, <4>1 DEF ExportInv, Rest
    <3>2. Ordered' /\ \A e : Settled(e) => Settled(e)'
      BY <1>2, <1>3, <1>4, <1>5, <2>4, <3>1, NextIsTried
    <3>. QED  BY <2>4, <3>1, <3>2 DEF Settled
  <2>6. \A i \in 1..Len(waiting') : waiting'[i] \cap lost' = {}
    BY <2>3
  <2>7. n = Total - Len(todo') /\ waiting' \in Seq(SUBSET (1..Total)) /\ Len(waiting') <= MaxQueue
    BY <1>3, <1>7, <2>1
  <2>. QED  BY <1>1, <1>2, <1>3, <1>5, <1>7, <1>9, <2>1, <2>3, <2>4, <2>5, <2>6, <2>7, MovedOn
<1>. QED  BY <1>8, <1>9

LEMMA InterruptedKeeps ==
  ASSUME ExportInv, Interrupted
  PROVE  ExportInv'
<1>1. /\ closed /\ todo # <<>> /\ pipeline # "queue_adapter" /\ todo' = <<>>
      /\ lost' = lost \cup {todo[i] : i \in DOMAIN todo}
      /\ SameReceiptSteps /\ UNCHANGED <<waiting, call, closed, stored, hour, raises>>
  BY DEF Interrupted, SameReceiptSteps
<1>2. phase = "published" /\ {todo[i] : i \in DOMAIN todo} = (Done + 1)..Total
  BY <1>1, NextForward
<1>3. /\ Total \in Nat /\ Done \in Nat /\ Done <= Total /\ lost \subseteq 1..Total
      /\ waiting \in Seq(SUBSET (1..Total)) /\ Len(waiting) <= MaxQueue
      /\ stored \in Seq(StoredEvent) /\ raises \in 0..MaxRaises
      /\ Well(waiting, Done) /\ call # "receipt" /\ (~ HasQueue => waiting = <<>>)
  BY <1>1, FlowFacts DEF ExportInv, Queues, Places
<1>4. /\ lost' = lost \cup (Done + 1)..Total /\ lost' \subseteq 1..Total /\ lost \subseteq lost'
      /\ \A e \in lost' : e <= Total
      /\ \A e \in 1..Total : e \in 1..Done \/ e \in lost'
      /\ \A e \in lost' : e \in lost \/ ~ e <= Done
  <2>1. lost' = lost \cup (Done + 1)..Total
    BY <1>1, <1>2
  <2>2. \A e \in (Done + 1)..Total : e \in 1..Total /\ e <= Total /\ ~ e <= Done
    BY <1>3
  <2>3. \A e \in 1..Total : e <= Total /\ (e \in 1..Done \/ e \in (Done + 1)..Total)
    BY <1>3
  <2>. QED  BY <1>3, <2>1, <2>2, <2>3
<1>5. \A i \in 1..Len(waiting) : waiting[i] \cap lost = {}
  BY LostIsDone
<1>6. \A i \in 1..Len(waiting) : \A e \in waiting[i] : e <= Done
  <2>1. CASE HasQueue
    BY <1>1, <1>3, <2>1 DEF Well, HasQueue, AtMost
  <2>2. CASE ~ HasQueue
    BY <1>3, <2>2
  <2>. QED  BY <2>1, <2>2
<1>7. \A i \in 1..Len(waiting) : waiting[i] \cap lost' = {}
  BY <1>4, <1>5, <1>6
<1>8. Well(waiting, Total)
  BY <1>3, <1>5, WellLater
<1>9. destination = "stream" => (\A e \in 1..Total : Settled(e)' \/ Held(e)') /\ Ordered'
  <2>. SUFFICES ASSUME destination = "stream"
                PROVE  (\A e \in 1..Total : Settled(e)' \/ Held(e)') /\ Ordered'
    OBVIOUS
  <2>1. Ordered /\ \A e \in 1..Done : Settled(e) \/ Held(e)
    BY <1>2 DEF ExportInv, Rest
  <2>2. \A e : (Arrived(e)' <=> Arrived(e)) /\ (Settled(e) => Settled(e)')
    BY <1>1, <1>4 DEF Settled, Arrived
  <2>3. \A e : Held(e) => Held(e)'
    BY <1>1 DEF Held, SameReceiptSteps
  <2>4. Ordered'
    BY <1>1, <1>4, <2>1, <2>2 DEF Ordered
  <2>. QED  BY <1>4, <2>1, <2>2, <2>3, <2>4 DEF Settled
<1>10. todo' \in Seq(1..Total) /\ EndsWith(todo', Total) /\ Total = Total - Len(todo')
  BY <1>1, NothingLeft
<1>11. /\ waiting' \in Seq(SUBSET (1..Total)) /\ Len(waiting') <= MaxQueue /\ Well(waiting', Total)
       /\ \A i \in 1..Len(waiting') : waiting'[i] \cap lost' = {}
       /\ ~ HasQueue => waiting' = <<>>
       /\ call' \in {call, "none"} /\ call' # "receipt" /\ UNCHANGED <<hour, closed>>
       /\ stored' \in Seq(StoredEvent) /\ raises' \in 0..MaxRaises
  BY <1>1, <1>3, <1>7, <1>8
<1>. QED  BY <1>1, <1>2, <1>4, <1>9, <1>10, <1>11, MovedOn

LEMMA SendReceiptKeeps ==
  ASSUME ExportInv, SendReceipt
  PROVE  ExportInv'
<1>1. /\ pipeline = "queue_adapter" /\ call # "none" /\ Item # {} /\ todo = <<>> /\ todo' = Events
      /\ SameReceiptSteps /\ UNCHANGED <<waiting, call, closed, stored, hour, lost, raises>>
  BY DEF SendReceipt, HasItem, SameReceiptSteps
<1>2. /\ Total \in Nat /\ lost \subseteq 1..Total /\ EventNumber = 1..Total
      /\ waiting \in Seq(SUBSET (1..Total)) /\ Len(waiting) <= MaxQueue /\ Len(waiting) \in Nat
      /\ stored \in Seq(StoredEvent) /\ raises \in 0..MaxRaises
      /\ Well(waiting, Done) /\ (~ HasQueue => waiting = <<>>) /\ phase = "published"
  BY <1>1, FlowFacts DEF ExportInv, Queues, Places
<1>3. waiting # <<>> => 1 \in 1..Len(waiting) /\ Item = waiting[1] /\ waiting[1] = 1..Total
  <2>. SUFFICES ASSUME waiting # <<>>
                PROVE  1 \in 1..Len(waiting) /\ Item = waiting[1] /\ waiting[1] = 1..Total
    OBVIOUS
  <2>1. 1 \in 1..Len(waiting) /\ Head(waiting) = waiting[1]
    BY <1>2, HeadTaken
  <2>2. Item = waiting[1]
    BY <2>1 DEF Item
  <2>. QED  BY <1>1, <1>2, <2>1, <2>2 DEF Well, AllOrNone
<1>4. waiting = <<>> => call = "receipt"
  BY <1>1 DEF Item, Carried
<1>5. lost = {}
  <2>1. CASE waiting # <<>>
    <3>1. waiting[1] \cap lost = {}
      BY <1>3, <2>1 DEF ExportInv, Queues
    <3>. QED  BY <1>2, <1>3, <2>1, <3>1
  <2>2. CASE waiting = <<>>
    BY <1>1, <1>4, <2>2 DEF ExportInv, Queues
  <2>. QED  BY <2>1, <2>2
<1>6. AtWork
  BY <1>1, <1>3, <1>4 DEF AtWork
<1>7. todo' \in Seq(1..Total) /\ EndsWith(todo', Total) /\ Total - Len(todo') = 0
  BY <1>1, <1>2, EventsAre DEF ExportInv
<1>8. Well(waiting, 0)
  BY <1>1, <1>2 DEF Well
<1>9. destination = "stream" => Ordered'
  <2>1. \A e : Arrived(e)' <=> Arrived(e)
    BY <1>1 DEF Arrived
  <2>. QED  BY <1>1, <1>2, <2>1 DEF ExportInv, Rest, Ordered
<1>10. /\ waiting' \in Seq(SUBSET (1..Total)) /\ Len(waiting') <= MaxQueue /\ Well(waiting', 0)
       /\ \A i \in 1..Len(waiting') : waiting'[i] \cap lost' = {}
       /\ ~ HasQueue => waiting' = <<>>
       /\ call' \in {call, "none"} /\ UNCHANGED <<hour, closed>>
       /\ stored' \in Seq(StoredEvent) /\ raises' \in 0..MaxRaises
       /\ lost' \subseteq 1..Total /\ \A e \in lost' : e <= 0
       /\ 0 = Total - Len(todo')
  BY <1>1, <1>2, <1>5, <1>7, <1>8
<1>11. (pipeline = "queue_adapter" /\ call' = "receipt") => Bare(waiting') /\ lost' = {}
  BY <1>1 DEF ExportInv, Queues, Bare
<1>12. \A e \in 1..0 : FALSE
  OBVIOUS
<1>13. destination = "stream" =>
             /\ \A e \in 1..0 : Settled(e)' \/ Held(e)'
             /\ (pipeline # "adapter_queue" /\ todo' # <<>>) => \A e \in 1..0 : Settled(e)'
             /\ Ordered'
  BY <1>9, <1>12
<1>. QED  BY <1>1, <1>2, <1>6, <1>7, <1>10, <1>11, <1>13, MovedOn

(* What is stored stays settled and in order when more is let go. *)
LEMMA StaysInOrder ==
  ASSUME stored' = stored, lost \subseteq lost'
  PROVE  (Ordered => Ordered') /\ \A e : Settled(e) => Settled(e)'
BY DEF Ordered, Arrived, Settled

(* The item that a call of the queue sends. *)
LEMMA ItemFacts ==
  ASSUME ExportInv, HasItem
  PROVE  /\ phase = "published" /\ call # "none"
         /\ waiting # <<>> => Item = waiting[1] /\ 1 \in 1..Len(waiting)
         /\ waiting = <<>> => Item = Carried /\ call # "close"
         /\ call # "receipt" => Carried = {}
         /\ (pipeline = "queue_adapter" /\ call = "receipt") => Carried = 1..Total
         /\ (pipeline = "adapter_queue" /\ call = "receipt") => Carried = {Done + 1} /\ todo # <<>>
         /\ (pipeline = "queue_adapter" /\ Item = {}) => todo = <<>>
<1>1. /\ phase = "published" /\ call # "none"
      /\ waiting = <<>> => call # "close"
  BY DEF HasItem, ExportInv, Places
<1>2. waiting # <<>> => Item = waiting[1] /\ 1 \in 1..Len(waiting)
  <2>1. waiting # <<>> => Head(waiting) = waiting[1] /\ 1 \in 1..Len(waiting)
    BY FlowFacts, HeadTaken
  <2>. QED  BY <2>1 DEF Item
<1>3. waiting = <<>> => Item = Carried
  BY DEF Item
<1>4. /\ call # "receipt" => Carried = {}
      /\ (pipeline = "queue_adapter" /\ call = "receipt") => Carried = 1..Total
  BY FlowFacts DEF Carried
<1>5. (pipeline = "adapter_queue" /\ call = "receipt") => Carried = {Done + 1} /\ todo # <<>>
  <2>. SUFFICES ASSUME pipeline = "adapter_queue", call = "receipt"
                PROVE  Carried = {Done + 1} /\ todo # <<>>
    OBVIOUS
  <2>1. todo # <<>>
    BY DEF ExportInv, Places
  <2>2. Head(todo) = Done + 1
    BY <2>1, NextForward
  <2>. QED  BY <2>1, <2>2 DEF Carried
<1>6. ASSUME pipeline = "queue_adapter", Item = {}, todo # <<>> PROVE FALSE
  <2>1. AtWork /\ 1..Total # {}
    BY <1>6, NextForward DEF ExportInv, Places
  <2>. QED  BY <1>2, <1>3, <1>4, <1>6, <2>1 DEF AtWork
<1>. QED  BY <1>1, <1>2, <1>3, <1>4, <1>5, <1>6

(* Behind the adapter: everything before the item is settled. *)
LEMMA ItemIsNext ==
  ASSUME ExportInv, HasItem, pipeline = "adapter_queue", NEW k \in Item
  PROVE  /\ Item = {k} /\ k \in 1..Total /\ k \notin lost
         /\ destination = "stream" => Ordered /\ \A e \in 1..(k - 1) : Settled(e)
<1>1. /\ phase = "published" /\ Done \in Nat /\ Total \in Nat /\ Done <= Total /\ Well(waiting, Done)
      /\ \A i \in 1..Len(waiting) : waiting[i] \subseteq 1..Total /\ waiting[i] \cap lost = {}
      /\ Done + 1 \notin lost
  BY ItemFacts, FlowFacts, LostIsDone DEF ExportInv, Queues
<1>2. destination = "stream" =>
         Ordered /\ \A e \in 1..Done : Settled(e) \/ \E i \in 1..Len(waiting) : e \in waiting[i]
  BY <1>1 DEF ExportInv, Rest, Held
<1>3. CASE waiting # <<>>
  <2>1. Item = waiting[1] /\ 1 \in 1..Len(waiting)
    BY <1>3, ItemFacts
  <2>2. /\ \A a, b \in waiting[1] : a = b
        /\ \A i \in 1..Len(waiting) : i # 1 => \A b \in waiting[i] : k < b
        /\ k <= Done
    <3>1. \A i \in 1..Len(waiting) : i # 1 => 1 < i
      BY FlowFacts
    <3>2. AtMost(waiting, Done) /\ Rising(waiting) /\ k \in waiting[1]
      BY <1>1, <2>1 DEF Well
    <3>3. k <= Done
      BY <2>1, <3>2 DEF AtMost
    <3>4. \A a, b \in waiting[1] : a = b
      BY <2>1, <3>2, Zenon DEF Rising
    <3>5. \A i \in 1..Len(waiting) : i # 1 => \A b \in waiting[i] : k < b
      BY <2>1, <3>1, <3>2, Zenon DEF Rising
    <3>. QED  BY <3>3, <3>4, <3>5
  <2>3. Item = {k} /\ k \in 1..Total /\ k \notin lost
    BY <1>1, <2>1, <2>2
  <2>4. ASSUME destination = "stream", NEW e \in 1..(k - 1) PROVE Settled(e)
    <3>1. e \in 1..Done /\ e # k /\ ~ k < e
      BY <1>1, <2>2, <2>3
    <3>2. ASSUME NEW i \in 1..Len(waiting), e \in waiting[i] PROVE FALSE
      <4>1. CASE i = 1
        BY <2>1, <2>2, <3>1, <3>2, <4>1
      <4>2. CASE i # 1
        BY <2>2, <3>1, <3>2, <4>2
      <4>. QED  BY <4>1, <4>2
    <3>. QED  BY <1>2, <2>4, <3>1, <3>2
  <2>. QED  BY <1>2, <2>3, <2>4
<1>4. CASE waiting = <<>>
  <2>1. Item = {Done + 1} /\ todo # <<>>
    BY <1>4, ItemFacts
  <2>2. k = Done + 1 /\ k \in 1..Total /\ k - 1 = Done
    <3>1. Head(todo) = Done + 1 /\ Head(todo) \in 1..Total
      BY <2>1, NextForward
    <3>. QED  BY <1>1, <2>1, <3>1
  <2>3. \A i \in 1..Len(waiting) : FALSE
    BY <1>4
  <2>. QED  BY <1>1, <1>2, <2>1, <2>2, <2>3
<1>. QED  BY <1>3, <1>4

(* What a step of the queue leaves of the adapter's events. *)
LEMMA TodoAfter ==
  ASSUME ExportInv, NEW own \in BOOLEAN, own => todo # <<>>,
         todo' = IF own THEN Tail(todo) ELSE todo
  PROVE  \E n \in Nat : /\ n = Total - Len(todo') /\ n = (IF own THEN Done + 1 ELSE Done)
                        /\ Done <= n /\ todo' \in Seq(1..Total) /\ EndsWith(todo', Total)
                        /\ n <= Total
<1>1. CASE own
  <2>1. /\ Tail(todo) \in Seq(1..Total) /\ EndsWith(Tail(todo), Total)
        /\ Total - Len(Tail(todo)) = Done + 1 /\ Head(todo) = Done + 1 /\ Head(todo) \in 1..Total
    BY <1>1, NextForward
  <2>2. Done \in Nat /\ Total \in Nat
    BY FlowFacts
  <2>3. Done + 1 \in Nat /\ Done <= Done + 1 /\ Done + 1 <= Total
    BY <2>1, <2>2
  <2>. QED  BY <1>1, <2>1, <2>3
<1>2. CASE ~ own
  <2>1. todo' = todo /\ todo \in Seq(1..Total) /\ EndsWith(todo, Total) /\ Done \in Nat /\ Done <= Total
    BY <1>2, FlowFacts DEF ExportInv, FlowTypes
  <2>. QED  BY <1>2, <2>1 DEF Done
<1>. QED  BY <1>1, <1>2

LEMMA SendItemKeeps ==
  ASSUME ExportInv, SendItem
  PROVE  ExportInv'
<1>. DEFINE own == pipeline = "adapter_queue" /\ call = "receipt" /\ waiting = <<>>
<1>1. /\ HasItem /\ TurnPasses /\ SameReceiptSteps /\ UNCHANGED <<closed, hour, raises>>
      /\ todo' = IF own THEN Tail(todo) ELSE todo
      /\ Item = {} => stored' = stored
      /\ Item # {} => pipeline = "adapter_queue" /\ \E k \in Item : Store(k)
  BY DEF SendItem, Takes, SameReceiptSteps
<1>2. /\ phase = "published" /\ call # "none" /\ HasQueue
      /\ Done \in Nat /\ Total \in Nat /\ Done <= Total /\ ReceiptInv
      /\ stored \in Seq(StoredEvent) /\ hour \in 0..MaxHour /\ raises \in 0..MaxRaises
      /\ lost \subseteq 1..Total
      /\ \A e \in lost : e <= Done
      /\ pipeline \in {"queue_adapter", "adapter_queue"}
      /\ (pipeline = "queue_adapter" /\ call = "receipt") => Bare(waiting) /\ lost = {}
      /\ (pipeline = "adapter_queue" /\ call = "receipt") => todo # <<>>
  BY <1>1, ItemFacts, FlowFacts DEF ExportInv, Places, HasQueue, Queues
<1>3. /\ waiting' \in Seq(SUBSET (1..Total)) /\ Len(waiting') <= MaxQueue
      /\ Well(waiting', Done) /\ lost' = lost
      /\ Bare(waiting) => Bare(waiting')
      /\ \A i \in 1..Len(waiting') : waiting'[i] \cap lost = {}
      /\ waiting = <<>> => waiting' = <<>> /\ call' = "none"
      /\ waiting # <<>> => call' = call /\ 1 \in 1..Len(waiting)
      /\ waiting # <<>> => \A i \in 1..Len(waiting) : \A e \in waiting[i] :
             e \in waiting[1] \/ \E j \in 1..Len(waiting') : e \in waiting'[j]
  BY <1>1, TurnIsOver
<1>4. own \in BOOLEAN /\ (own => todo # <<>>)
  BY <1>2
<1>5. PICK n \in Nat : /\ n = Total - Len(todo') /\ n = (IF own THEN Done + 1 ELSE Done)
                        /\ Done <= n /\ todo' \in Seq(1..Total) /\ EndsWith(todo', Total)
                        /\ n <= Total
  BY <1>1, <1>4, TodoAfter
<1>6. \A k \in Item : /\ Item = {k} /\ k \in 1..Total /\ k \notin lost /\ Store(k)
                      /\ destination = "stream" => Ordered /\ \A e \in 1..(k - 1) : Settled(e)
  <2>. SUFFICES ASSUME NEW k \in Item
                PROVE  /\ Item = {k} /\ k \in 1..Total /\ k \notin lost /\ Store(k)
                       /\ destination = "stream" => Ordered /\ \A e \in 1..(k - 1) : Settled(e)
    OBVIOUS
  <2>1. pipeline = "adapter_queue" /\ \E x \in Item : Store(x)
    BY <1>1
  <2>2. /\ Item = {k} /\ k \in 1..Total /\ k \notin lost
        /\ destination = "stream" => Ordered /\ \A e \in 1..(k - 1) : Settled(e)
    BY <1>1, <2>1, ItemIsNext
  <2>. QED  BY <2>1, <2>2
<1>7. stored' \in Seq(StoredEvent)
  <2>1. CASE Item = {}
    BY <1>1, <1>2, <2>1
  <2>2. CASE Item # {}
    BY <1>2, <1>6, <2>2, StoreAppends
  <2>. QED  BY <2>1, <2>2
<1>8. destination = "stream" =>
         Ordered' /\ (\A e : Settled(e) => Settled(e)') /\ \A k \in Item : Settled(k)'
  <2>. SUFFICES ASSUME destination = "stream"
                PROVE  Ordered' /\ (\A e : Settled(e) => Settled(e)') /\ \A k \in Item : Settled(k)'
    OBVIOUS
  <2>1. CASE Item = {}
    <3>1. Ordered
      BY <1>2 DEF ExportInv, Rest
    <3>. QED  BY <1>1, <1>3, <2>1, <3>1, StaysInOrder
  <2>2. CASE Item # {}
    <3>1. PICK k \in Item : TRUE
      BY <2>2
    <3>2. /\ Item = {k} /\ k \in 1..Total /\ k \notin lost /\ Store(k) /\ Ordered
          /\ \A e \in 1..(k - 1) : Settled(e)
      BY <1>6, <3>1
    <3>3. Ordered' /\ (\A e : Settled(e) => Settled(e)') /\ Settled(k)'
      BY <1>2, <1>3, <3>2, NextIsTried
    <3>. QED  BY <3>2, <3>3
  <2>. QED  BY <2>1, <2>2
<1>9. /\ waiting # <<>> => Item = waiting[1]
      /\ waiting = <<>> => Item = Carried
      /\ (pipeline = "queue_adapter" /\ call = "receipt") => Carried = 1..Total
      /\ (pipeline = "adapter_queue" /\ call = "receipt") => Carried = {Done + 1}
      /\ (pipeline = "queue_adapter" /\ Item = {}) => todo = <<>>
  BY <1>1, ItemFacts
<1>10. destination = "stream" => \A e \in 1..n : Settled(e)' \/ Held(e)'
  <2>. SUFFICES ASSUME destination = "stream", NEW e \in 1..n PROVE Settled(e)' \/ Held(e)'
    OBVIOUS
  <2>1. e \in 1..Done \/ (own /\ e = Done + 1)
    BY <1>2, <1>5
  <2>2. CASE own /\ e = Done + 1
    BY <1>8, <1>9, <2>2
  <2>3. CASE e \in 1..Done
    <3>1. Settled(e) \/ Held(e)
      BY <1>2, <2>3 DEF ExportInv, Rest
    <3>2. CASE \E i \in 1..Len(waiting) : e \in waiting[i]
      <4>1. waiting # <<>>
        BY <3>2
      <4>2. e \in Item \/ \E j \in 1..Len(waiting') : e \in waiting'[j]
        BY <1>3, <1>9, <3>2, <4>1
      <4>. QED  BY <1>8, <4>2 DEF Held
    <3>3. CASE pipeline = "queue_adapter" /\ call = "receipt"
      <4>1. CASE waiting = <<>>
        <5>1. e \in 1..Total /\ Item = 1..Total
          BY <1>2, <1>9, <2>3, <3>3, <4>1
        <5>. QED  BY <1>1, <3>3, <5>1
      <4>2. CASE waiting # <<>>
        BY <1>1, <1>3, <3>3, <4>2 DEF Held, SameReceiptSteps
      <4>. QED  BY <4>1, <4>2
    <3>. QED  BY <1>8, <3>1, <3>2, <3>3 DEF Held
  <2>. QED  BY <2>1, <2>2, <2>3
<1>11. Well(waiting', n)
  <2>1. \A i \in 1..Len(waiting') : waiting'[i] \in SUBSET (1..Total)
    BY <1>3, ElementOfSeq
  <2>. QED  BY <1>2, <1>3, <1>5, <2>1, WellLater
<1>12. /\ call' \in {call, "none"} /\ UNCHANGED <<hour, closed>>
       /\ lost' \subseteq 1..Total /\ raises' \in 0..MaxRaises
       /\ \A i \in 1..Len(waiting') : waiting'[i] \cap lost' = {}
       /\ (pipeline = "queue_adapter" /\ call' = "receipt") => Bare(waiting') /\ lost' = {}
       /\ ~ HasQueue => waiting' = <<>>
  BY <1>1, <1>2, <1>3
<1>13. \A e \in lost' : e <= n
  <2>1. \A e \in lost : e \in Nat /\ e <= Done
    BY <1>2
  <2>. QED  BY <1>2, <1>3, <1>5, <2>1
<1>14. (pipeline = "adapter_queue" /\ call' = "receipt") => todo' # <<>>
  BY <1>1, <1>2, <1>3
<1>15. pipeline = "queue_adapter" => todo' = <<>>
  BY <1>1, <1>2, <1>9
<1>16. n = Total - Len(todo') /\ todo' \in Seq(1..Total) /\ EndsWith(todo', Total)
  BY <1>5
<1>17. pipeline # "adapter_queue" => todo' = <<>>
  BY <1>2, <1>15
<1>18. destination = "stream" =>
             /\ \A e \in 1..n : Settled(e)' \/ Held(e)'
             /\ (pipeline # "adapter_queue" /\ todo' # <<>>) => \A e \in 1..n : Settled(e)'
             /\ Ordered'
  BY <1>8, <1>10, <1>17
<1>. HIDE DEF own
<1>. QED  BY <1>1, <1>2, <1>3, <1>7, <1>11, <1>12, <1>13, <1>14, <1>15, <1>16, <1>18, MovedOn

LEMMA SendFailsKeeps ==
  ASSUME ExportInv, SendFails
  PROVE  ExportInv'
<1>. DEFINE own == pipeline = "adapter_queue" /\ call = "receipt"
<1>1. /\ HasItem /\ TurnRaises /\ SameReceiptSteps /\ UNCHANGED <<closed, hour>>
      /\ todo' = IF own THEN Tail(todo) ELSE todo
      /\ Item = {} => stored' = stored /\ MayRaise
      /\ Item # {} => pipeline = "adapter_queue" /\ \E k \in Item : Fails(k)
  BY DEF SendFails, SameReceiptSteps
<1>2. /\ phase = "published" /\ call # "none" /\ HasQueue
      /\ Done \in Nat /\ Total \in Nat /\ Done <= Total /\ ReceiptInv
      /\ stored \in Seq(StoredEvent) /\ hour \in 0..MaxHour /\ raises \in 0..MaxRaises
      /\ lost \subseteq 1..Total
      /\ \A e \in lost : e <= Done
      /\ pipeline \in {"queue_adapter", "adapter_queue"}
      /\ (pipeline = "queue_adapter" /\ call = "receipt") => Bare(waiting) /\ lost = {}
      /\ (pipeline = "adapter_queue" /\ call = "receipt") => todo # <<>>
      /\ Well(waiting, Done)
  BY <1>1, ItemFacts, FlowFacts DEF ExportInv, Places, HasQueue, Queues
<1>3. own \in BOOLEAN /\ (own => todo # <<>>)
  BY <1>2
<1>4. PICK n \in Nat : /\ n = Total - Len(todo') /\ n = (IF own THEN Done + 1 ELSE Done)
                        /\ Done <= n /\ todo' \in Seq(1..Total) /\ EndsWith(todo', Total)
                        /\ n <= Total
  BY <1>1, <1>3, TodoAfter
<1>5. /\ call # "receipt" => Carried = {}
      /\ (pipeline = "queue_adapter" /\ call = "receipt") => Carried = 1..Total
      /\ (pipeline = "adapter_queue" /\ call = "receipt") => Carried = {Done + 1}
      /\ (pipeline = "queue_adapter" /\ Item = {}) => todo = <<>>
  BY <1>1, ItemFacts
<1>6. pipeline = "queue_adapter" => Item = {} /\ todo' = <<>> /\ n = Total
  <2>1. pipeline = "queue_adapter" => todo' = <<>>
    BY <1>1, <1>5
  <2>2. todo' = <<>> => n = Total
    BY <1>4, NothingLeft
  <2>. QED  BY <1>1, <2>1, <2>2
<1>7. /\ call # "close" => Fits(Carried, waiting, Done, n)
      /\ call = "close" => n = Done
      /\ Carried \in SUBSET (1..Total) /\ Carried \cap lost = {}
  <2>1. CASE call # "receipt"
    BY <1>4, <1>5, <2>1 DEF Fits
  <2>2. CASE call = "receipt" /\ pipeline = "queue_adapter"
    BY <1>2, <1>4, <1>5, <2>2 DEF Fits
  <2>3. CASE call = "receipt" /\ pipeline = "adapter_queue"
    <3>1. Done + 1 \notin lost /\ Done + 1 \in 1..Total
      BY <1>2, <1>4, <2>3, LostIsDone
    <3>. QED  BY <1>2, <1>4, <1>5, <2>3, <3>1 DEF Fits
  <2>. QED  BY <1>2, <2>1, <2>2, <2>3
<1>8. /\ call' = "none"
      /\ waiting' \in Seq(SUBSET (1..Total)) /\ Len(waiting') <= MaxQueue
      /\ Well(waiting', n)
      /\ lost \subseteq lost' /\ lost' \subseteq 1..Total
      /\ \A i \in 1..Len(waiting') : waiting'[i] \cap lost' = {}
      /\ \A e \in lost' : e \in lost \/ e \in Carried \/ \E i \in 1..Len(waiting) : e \in waiting[i]
      /\ \A e : (e \in Carried \/ \E i \in 1..Len(waiting) : e \in waiting[i]) =>
                    e \in lost' \/ \E i \in 1..Len(waiting') : e \in waiting'[i]
  BY <1>1, <1>2, <1>7, TurnHasRaised
<1>9. \A k \in Item : /\ Item = {k} /\ k \in 1..Total /\ k \notin lost /\ Fails(k)
                      /\ destination = "stream" => Ordered /\ \A e \in 1..(k - 1) : Settled(e)
  <2>. SUFFICES ASSUME NEW k \in Item
                PROVE  /\ Item = {k} /\ k \in 1..Total /\ k \notin lost /\ Fails(k)
                       /\ destination = "stream" => Ordered /\ \A e \in 1..(k - 1) : Settled(e)
    OBVIOUS
  <2>1. pipeline = "adapter_queue" /\ \E x \in Item : Fails(x)
    BY <1>1
  <2>2. /\ Item = {k} /\ k \in 1..Total /\ k \notin lost
        /\ destination = "stream" => Ordered /\ \A e \in 1..(k - 1) : Settled(e)
    BY <1>1, <2>1, ItemIsNext
  <2>. QED  BY <2>1, <2>2
<1>10. /\ raises' \in 0..MaxRaises /\ stored' \in Seq(StoredEvent)
       /\ \A k \in Item : stored' = stored \/ Store(k)
  <2>1. CASE Item = {}
    <3>1. raises' \in 0..MaxRaises
      BY <1>1, <1>2, <2>1, ExportAssumption DEF MayRaise
    <3>. QED  BY <1>1, <1>2, <2>1, <3>1
  <2>2. CASE Item # {}
    <3>1. PICK k \in Item : TRUE
      BY <2>2
    <3>2. k \in 1..Total /\ Fails(k) /\ Item = {k}
      BY <1>9, <3>1
    <3>. QED  BY <1>2, <3>2, FailsStores
  <2>. QED  BY <2>1, <2>2
<1>11. destination = "stream" => Ordered' /\ \A e : Settled(e) => Settled(e)'
  <2>. SUFFICES ASSUME destination = "stream" PROVE Ordered' /\ \A e : Settled(e) => Settled(e)'
    OBVIOUS
  <2>1. CASE Item = {}
    <3>1. Ordered
      BY <1>2 DEF ExportInv, Rest
    <3>. QED  BY <1>1, <1>8, <2>1, <3>1, StaysInOrder
  <2>2. CASE Item # {}
    <3>1. PICK k \in Item : TRUE
      BY <2>2
    <3>2. /\ k \in 1..Total /\ k \notin lost /\ Ordered
          /\ \A e \in 1..(k - 1) : Settled(e)
      BY <1>9, <3>1
    <3>. QED  BY <1>2, <1>8, <1>10, <3>1, <3>2, NextIsTried
  <2>. QED  BY <2>1, <2>2
<1>12. destination = "stream" => \A e \in 1..n : Settled(e)' \/ Held(e)'
  <2>. SUFFICES ASSUME destination = "stream", NEW e \in 1..n PROVE Settled(e)' \/ Held(e)'
    OBVIOUS
  <2>1. e \in 1..Done \/ (own /\ e = Done + 1)
    BY <1>2, <1>4
  <2>2. CASE own /\ e = Done + 1
    BY <1>5, <1>8, <2>2 DEF Held, Settled
  <2>3. CASE e \in 1..Done
    <3>1. Settled(e) \/ Held(e)
      BY <1>2, <2>3 DEF ExportInv, Rest
    <3>2. CASE \E i \in 1..Len(waiting) : e \in waiting[i]
      BY <1>8, <3>2 DEF Held, Settled
    <3>3. CASE pipeline = "queue_adapter" /\ call = "receipt"
      <4>1. e \in Carried
        BY <1>2, <1>5, <2>3, <3>3
      <4>. QED  BY <1>8, <4>1 DEF Held, Settled
    <3>. QED  BY <1>11, <3>1, <3>2, <3>3 DEF Held
  <2>. QED  BY <2>1, <2>2, <2>3
<1>13. \A e \in lost' : e <= n
  <2>1. CASE pipeline = "queue_adapter"
    BY <1>2, <1>6, <1>8, <2>1
  <2>2. CASE pipeline = "adapter_queue"
    <3>1. \A i \in 1..Len(waiting) : \A e \in waiting[i] : e <= Done
      BY <1>2, <2>2 DEF Well, AtMost
    <3>2. \A e \in Carried : e <= n
      BY <1>2, <1>4, <1>5, <2>2
    <3>3. \A e \in lost' : e \in Nat
      BY <1>2, <1>8
    <3>4. \A e \in lost : e <= Done
      BY DEF ExportInv, Queues
    <3>5. \A e \in lost' : e <= Done \/ e <= n
      BY <1>8, <3>1, <3>2, <3>4
    <3>. QED  BY <1>2, <1>4, <3>3, <3>5
  <2>. QED  BY <1>2, <2>1, <2>2
<1>14. n = Total - Len(todo') /\ todo' \in Seq(1..Total) /\ EndsWith(todo', Total)
  BY <1>4
<1>15. pipeline # "adapter_queue" => todo' = <<>>
  BY <1>2, <1>6
<1>16. destination = "stream" =>
             /\ \A e \in 1..n : Settled(e)' \/ Held(e)'
             /\ (pipeline # "adapter_queue" /\ todo' # <<>>) => \A e \in 1..n : Settled(e)'
             /\ Ordered'
  BY <1>11, <1>12, <1>15
<1>17. UNCHANGED <<hour, closed>>
  BY <1>1
<1>. HIDE DEF own
<1>. QED  BY <1>1, <1>2, <1>6, <1>8, <1>10, <1>13, <1>14, <1>16, <1>17, MovedOn

LEMMA ExportInvInit == ExportInit => ExportInv
<1>. SUFFICES ASSUME ExportInit PROVE ExportInv
  OBVIOUS
<1>1. /\ sources = <<>> /\ accessControl = <<>> /\ kept = <<>>
      /\ actions = <<>> /\ toolCallControl = <<>> /\ executed = <<>>
      /\ todo = <<>> /\ stored = <<>> /\ call = "none" /\ closed \in BOOLEAN /\ lost = {}
      /\ policy \in VerificationPolicy
      /\ phase = "building" /\ status = "none" /\ hour = 0 /\ raises = 0
      /\ pipeline \in Pipeline /\ destination \in Destination
  BY DEF ExportInit
<1>2. MaxHour \in Nat /\ MaxRaises \in Nat /\ MaxQueue \in Nat
  BY ExportAssumption
<1>3. ReceiptInv
  BY <1>1, NothingIsSeq DEF ReceiptInv, ReceiptTypes, ReceiptAgrees, ActionsAgree
<1>4. Total = 0
  BY <1>1, NothingIsSeq DEF Total
<1>5. /\ waiting \in Seq(SUBSET (1..Total)) /\ Len(waiting) <= MaxQueue
      /\ \A i \in 1..Len(waiting) : waiting[i] = {}
      /\ ~ HasQueue => waiting = <<>>
  <2>1. PICK n \in 0..(IF HasQueue THEN MaxQueue ELSE 0) : waiting = [i \in 1..n |-> {}]
    BY DEF ExportInit
  <2>2. n \in Nat /\ n <= MaxQueue /\ (~ HasQueue => n = 0)
    BY <1>2, <2>1
  <2>3. waiting \in Seq(SUBSET (1..Total)) /\ Len(waiting) = n
    <3>1. {} \in SUBSET (1..Total)
      OBVIOUS
    <3>. QED  BY <2>1, <2>2, <3>1
  <2>4. n = 0 => waiting = <<>>
    BY <2>3
  <2>. QED  BY <2>1, <2>2, <2>3, <2>4
<1>6. todo \in Seq(1..Total) /\ stored \in Seq(StoredEvent) /\ EndsWith(todo, Total)
  <2>1. 0 <= 0 /\ \A j \in 1..0 : FALSE
    OBVIOUS
  <2>. QED  BY <1>1, <1>4, <2>1, NothingIsSeq DEF EndsWith
<1>7. FlowTypes
  <2>1. hour \in 0..MaxHour /\ raises \in 0..MaxRaises
    BY <1>1, <1>2
  <2>. QED  BY <1>1, <1>5, <1>6, <2>1 DEF FlowTypes
<1>8. Places
  BY <1>1, <1>5 DEF Places, Bare
<1>9. Queues
  <2>1. Well(waiting, Done)
    BY <1>5 DEF Well, Apart, AtMost, Rising, AllOrNone
  <2>. QED  BY <1>1, <1>5, <2>1 DEF Queues
<1>10. Rest
  BY <1>1 DEF Rest
<1>. QED  BY <1>3, <1>7, <1>8, <1>9, <1>10 DEF ExportInv

LEMMA ExportInvStep == ExportInv /\ [ExportNext]_exportVars => ExportInv'
<1>. SUFFICES ASSUME ExportInv, [ExportNext]_exportVars PROVE ExportInv'
  OBVIOUS
<1>0. /\ ReceiptInv' /\ hour \in 0..MaxHour /\ closed \in BOOLEAN
      /\ call = "receipt" => ~ closed
      /\ (pipeline = "queue_adapter" /\ todo # <<>>) =>
             call # "none" /\ (waiting = <<>> => call = "receipt")
      /\ phase \in {"building", "published", "refused"} /\ (phase = "refused" => closed)
      /\ phase # "published" => call = "none"
  BY ReceiptStep DEF ExportInv, FlowTypes, Places, AtWork
<1>1. ASSUME NEW f \in Fingerprint, NEW o \in Flagged \cup {"VERIFIED"}, NEW d \in Decision,
             JudgeChunk(f, o, d)
      PROVE  ExportInv'
  BY <1>0, <1>1, BuildingKeeps DEF JudgeChunk
<1>2. ASSUME NEW d \in Decision, AdmitAction(d)
      PROVE  ExportInv'
  BY <1>0, <1>2, BuildingKeeps DEF AdmitAction
<1>3. CASE Publish
  BY <1>3, PublishKeeps
<1>4. CASE EventCall
  <2>1. /\ SameReceiptSteps /\ UNCHANGED <<todo, waiting, stored, lost, raises, hour, closed>>
        /\ call = "none" /\ call' = "receipt" /\ pipeline = "adapter_queue" /\ todo # <<>> /\ ~ closed
    BY <1>4 DEF EventCall, SameReceiptSteps
  <2>2. phase = "published" /\ HasQueue
    BY <2>1, NextForward DEF HasQueue
  <2>. QED  BY <1>0, <2>1, <2>2, QuietKeeps
<1>5. CASE OtherCall
  <2>1. /\ SameReceiptSteps /\ UNCHANGED <<todo, waiting, stored, lost, raises, hour, closed>>
        /\ call = "none" /\ call' = "other" /\ HasQueue /\ ~ closed /\ phase # "building"
    BY <1>5 DEF OtherCall, SameReceiptSteps
  <2>. QED  BY <1>0, <2>1, QuietKeeps
<1>6. CASE BeginClose
  <2>1. /\ SameReceiptSteps /\ UNCHANGED <<todo, waiting, stored, lost, raises, hour>>
        /\ call = "none" /\ closed' = TRUE /\ ~ closed /\ phase # "building"
        /\ call' = IF HasQueue THEN "close" ELSE "none"
    BY <1>6 DEF BeginClose, SameReceiptSteps
  <2>. QED  BY <1>0, <2>1, QuietKeeps
<1>7. CASE EndClose
  <2>1. /\ SameReceiptSteps /\ UNCHANGED <<todo, waiting, stored, lost, raises, hour, closed>>
        /\ call = "close" /\ call' = "none" /\ waiting = <<>>
    BY <1>7 DEF EndClose, SameReceiptSteps
  <2>. QED  BY <1>0, <2>1, QuietKeeps
<1>8. CASE NextHour
  <2>1. SameReceiptSteps /\ UNCHANGED <<todo, waiting, stored, lost, raises, call, closed>>
    BY <1>8 DEF NextHour, SameReceiptSteps
  <2>2. hour' \in 0..MaxHour
    BY <1>0, <1>8, ExportAssumption DEF NextHour
  <2>. QED  BY <1>0, <2>1, <2>2, QuietKeeps
<1>9. CASE UNCHANGED exportVars
  <2>1. SameReceiptSteps /\ UNCHANGED <<todo, waiting, stored, lost, raises, call, closed, hour>>
    BY <1>9 DEF exportVars, receiptVars, SameReceiptSteps
  <2>. QED  BY <1>0, <2>1, QuietKeeps
<1>10. CASE Exporting
  BY <1>4, <1>7, <1>10, ForwardKeeps, ForwardFailsKeeps, InterruptedKeeps, SendReceiptKeeps,
     SendItemKeeps, SendFailsKeeps DEF Exporting
<1>. QED  BY <1>1, <1>2, <1>3, <1>5, <1>6, <1>8, <1>9, <1>10 DEF ExportNext

LEMMA ExportInvariant == ExportSpec => []ExportInv
BY ExportInvInit, ExportInvStep, PTL DEF ExportSpec

-----------------------------------------------------------------------------
(* What follows from it.                                                   *)

(* Decisions, events and what is stored are of the kinds the model says,    *)
(* and there is one entry of the histories for each chunk and each call.    *)
THEOREM ExportTypeCorrect == ExportSpec => []ExportTypeOK
<1>1. ExportInv => ExportTypeOK
  <2>. SUFFICES ASSUME ExportInv PROVE ExportTypeOK
    OBVIOUS
  <2>1. ReceiptInv /\ ReceiptTypes /\ FlowTypes
    BY DEF ExportInv, ReceiptInv
  <2>2. EventNumber = 1..Total
    BY <2>1, EventsAre
  <2>3. /\ kept \in [DOMAIN sources -> BOOLEAN] /\ executed \in [DOMAIN actions -> BOOLEAN]
        /\ DOMAIN actions = 1..Len(actions)
    BY <2>1 DEF ReceiptInv, ReceiptTypes, ReceiptAgrees, ActionsAgree
  <2>4. toolCallControl \in Seq([index : DOMAIN actions, decision : Decision])
    BY <2>1, <2>3 DEF ReceiptTypes
  <2>5. stored \in Seq([hour : 0..MaxHour, event : EventNumber])
    BY <2>1, <2>2 DEF FlowTypes, StoredEvent
  <2>6. waiting \in Seq(SUBSET EventNumber) /\ todo \in Seq(EventNumber) /\ lost \subseteq EventNumber
    BY <2>1, <2>2 DEF FlowTypes
  <2>. QED  BY <2>1, <2>2, <2>3, <2>4, <2>5, <2>6 DEF ExportTypeOK, ReceiptTypes, FlowTypes
<1>. QED  BY <1>1, ExportInvariant, PTL

(* A stream has an event only after all the events before it that were not  *)
(* let go, however many failures come between, with or without a retry      *)
(* queue, of whatever length: what a full queue, a MultiSink, an exception  *)
(* or close() lets go never arrives afterwards.                             *)
THEOREM EventsArriveInOrder == ExportSpec => []EventsStayInOrder
<1>1. ExportInv => EventsStayInOrder
  <2>. SUFFICES ASSUME ExportInv, destination = "stream" PROVE EventsStayInOrder
    BY DEF EventsStayInOrder
  <2>1. DOMAIN stored = 1..Len(stored)
    BY DEF ExportInv, FlowTypes
  <2>2. Ordered
    <3>1. CASE phase = "published"
      BY <3>1 DEF ExportInv, Rest
    <3>2. CASE phase # "published"
      <4>1. Len(stored) = 0
        BY <3>2, NothingIsSeq DEF ExportInv, Places
      <4>. QED  BY <4>1 DEF Ordered
    <3>. QED  BY <3>1, <3>2
  <2>3. \A e : Arrived(e) <=> e \in Stored
    BY <2>1 DEF Arrived, Stored
  <2>. QED  BY <2>1, <2>2, <2>3 DEF Ordered, EventsStayInOrder
<1>. QED  BY <1>1, ExportInvariant, PTL

(* A call of a retry queue, wherever the queue stands and whatever its      *)
(* length, that ends without a failure leaves no event behind: all are at   *)
(* the stream but those let go.  That such a call comes is not claimed.     *)
THEOREM CallEmptiesQueue == ExportSpec => EmptiedUnlessRaised
<1>1. ASSUME ExportInv, ExportInv', [ExportNext]_exportVars, call # "none", call' = "none", raises' = raises,
             phase = "published", destination = "stream", todo' = <<>>
      PROVE  EventNumber \subseteq Stored' \cup lost'
  <2>1. /\ HasQueue /\ raises \in 0..MaxRaises /\ MaxRaises \in Nat
        /\ ReceiptInv /\ EventNumber = 1..Total
    BY <1>1, FlowFacts, ExportAssumption DEF ExportInv, Places
  <2>2. ~ MayRaise
    BY <1>1, <2>1 DEF MayRaise
  <2>3. /\ phase' = "published" /\ destination' = "stream" /\ Total' = Total
        /\ pipeline' = pipeline
    <3>1. ~ (phase = "building")
      BY <1>1
    <3>. QED  BY <1>1, <3>1 DEF ExportNext, Exporting, JudgeChunk, AdmitAction, Publish, Forward,
                  ForwardFails, Interrupted, EventCall, OtherCall, SendReceipt, SendItem, SendFails,
                  BeginClose, EndClose, NextHour, exportVars, receiptVars, Total
  <2>4. waiting' = <<>>
    <3>1. CASE TurnPasses
      BY <1>1, <3>1 DEF TurnPasses
    <3>2. CASE EndClose
      BY <3>2 DEF EndClose
    <3>3. ~ ForwardFails /\ ~ SendFails
      BY <1>1, <2>2 DEF ForwardFails, SendFails, Fails
    <3>4. UNCHANGED call \/ TurnPasses \/ EndClose \/ call' # "none"
      BY <1>1, <2>1, <3>3 DEF ExportNext, Exporting, JudgeChunk, AdmitAction, Publish, Forward, Interrupted,
                  EventCall, OtherCall, SendReceipt, SendItem, BeginClose, NextHour, exportVars, sinkVars
    <3>. QED  BY <1>1, <3>1, <3>2, <3>4
  <2>5. Done' = Total
    <3>1. Total' \in Nat /\ Len(todo') = 0
      BY <1>1, NothingIsSeq, TotalIsNat, <2>1, <2>3
    <3>. QED  BY <2>3, <3>1 DEF Done
  <2>6. \A e \in 1..Total : Settled(e)' \/ Held(e)'
    BY <1>1, <2>3, <2>5 DEF ExportInv, Rest
  <2>7. \A e : ~ Held(e)'
    BY <1>1, <2>4 DEF Held
  <2>8. \A e : Arrived(e)' => e \in Stored'
    <3>1. DOMAIN stored' = 1..Len(stored')
      BY <1>1 DEF ExportInv, FlowTypes
    <3>. QED  BY <3>1 DEF Arrived, Stored
  <2>. QED  BY <2>1, <2>6, <2>7, <2>8 DEF Settled
<1>2. ExportInv /\ ExportInv' /\ [ExportNext]_exportVars =>
        [(/\ call # "none" /\ call' = "none" /\ raises' = raises
          /\ phase = "published" /\ destination = "stream" /\ todo' = <<>>)
             => EventNumber \subseteq Stored' \cup lost']_exportVars
  BY <1>1
<1>. QED  BY <1>2, ExportInvariant, PTL DEF ExportSpec, EmptiedUnlessRaised

(* A non-empty set of positions has a greatest one. *)
LEMMA GreatestPosition ==
  ASSUME NEW n \in Nat, NEW S \in SUBSET (1..n), S # {}
  PROVE  \E m \in S : \A i \in S : i <= m
<1>. DEFINE T == {k \in Nat : \E i \in S : k = n - i}
<1>1. PICK i0 \in S : TRUE
  OBVIOUS
<1>2. n - i0 \in T
  OBVIOUS
<1>3. PICK x \in T : \A y \in T : x <= y
  <2>1. \E x \in T : \A y \in T : ~ <<y, x>> \in OpToRel(<, Nat)
    BY <1>2, NatLessThanWellFounded, WFMin
  <2>2. PICK x \in T : \A y \in T : ~ <<y, x>> \in OpToRel(<, Nat)
    BY <2>1
  <2>3. ASSUME NEW y \in T PROVE x <= y
    <3>1. ~ <<y, x>> \in OpToRel(<, Nat)
      BY <2>2
    <3>. QED  BY <3>1 DEF OpToRel
  <2>. QED  BY <2>2, <2>3
<1>4. PICK m \in S : x = n - m
  OBVIOUS
<1>5. ASSUME NEW i \in S PROVE i <= m
  <2>1. n - i \in T
    OBVIOUS
  <2>. QED  BY <1>3, <1>4, <2>1
<1>. QED  BY <1>5

(* The decision the adapter finds by the fingerprint is that on the chunk,  *)
(* unless the last one on the text is another.                              *)
LEMMA DecisionFound ==
  ASSUME ReceiptInv, NEW k \in 1..Len(sources), ~ Overruled(k)
  PROVE  DecisionOn(sources[k].fingerprint)
             = IF policy.access THEN accessControl[k].decision ELSE "none"
<1>. DEFINE f == sources[k].fingerprint
            on == {i \in DOMAIN accessControl : accessControl[i].fingerprint = f}
            last == CHOOSE i \in on : \A j \in on : j <= i
<1>1. CASE policy.access
  <2>1. /\ DOMAIN accessControl = 1..Len(accessControl) /\ Len(accessControl) \in Nat
        /\ Len(accessControl) = Len(sources) /\ accessControl[k].fingerprint = f
    BY <1>1 DEF ReceiptInv, ReceiptTypes, ReceiptAgrees
  <2>2. k \in on /\ on \in SUBSET (1..Len(accessControl))
    BY <2>1
  <2>3. \E i \in on : \A j \in on : j <= i
    BY <2>1, <2>2, GreatestPosition
  <2>4. last \in on /\ \A i \in on : i <= last
    BY <2>3
  <2>5. accessControl[last].decision = accessControl[k].decision
    <3>. SUFFICES ASSUME accessControl[last].decision # accessControl[k].decision
                  PROVE  Overruled(k)
      OBVIOUS
    <3>1. /\ last \in DOMAIN accessControl
          /\ accessControl[last].fingerprint = f
          /\ \A i \in DOMAIN accessControl : accessControl[i].fingerprint = f => i <= last
      BY <2>4
    <3>. HIDE DEF last, on
    <3>. QED  BY <3>1 DEF Overruled
  <2>6. DecisionOn(f) = accessControl[last].decision
    BY <2>2 DEF DecisionOn
  <2>. QED  BY <1>1, <2>5, <2>6
<1>2. CASE ~ policy.access
  <2>1. DOMAIN accessControl = {}
    BY <1>2 DEF ReceiptInv, ReceiptAgrees
  <2>. QED  BY <1>2, <2>1 DEF DecisionOn
<1>. QED  BY <1>1, <1>2

(* A call is denied by the decision that names it, and that is its own. *)
LEMMA DenialIsOwn ==
  ASSUME ReceiptInv, NEW a \in 1..Len(actions)
  PROVE  IsActionDenied(a) <=> policy.tools /\ toolCallControl[a].decision = "deny"
<1>1. CASE policy.tools
  <2>1. /\ DOMAIN toolCallControl = 1..Len(actions)
        /\ \A i \in 1..Len(actions) : toolCallControl[i].index = i
    BY <1>1 DEF ReceiptInv, ReceiptTypes, ActionsAgree
  <2>. QED  BY <1>1, <2>1, Zenon DEF IsActionDenied
<1>2. CASE ~ policy.tools
  <2>1. DOMAIN toolCallControl = {}
    BY <1>2 DEF ReceiptInv, ActionsAgree
  <2>. QED  BY <1>2, <2>1, Zenon DEF IsActionDenied
<1>. QED  BY <1>1, <1>2

LEMMA FindingClass ==
  /\ \A s : SourceEvent(s).class = "Detection Finding" <=> IsSourceBlocked(s)
  /\ \A a : ActionEvent(a).class = "Detection Finding" <=> IsActionDenied(a)
<1>1. ASSUME NEW s PROVE SourceEvent(s).class = "Detection Finding" <=> IsSourceBlocked(s)
  <2>1. CASE IsSourceBlocked(s)
    BY <2>1 DEF SourceEvent, Finding
  <2>2. CASE ~ IsSourceBlocked(s)
    BY <2>2 DEF SourceEvent
  <2>. QED  BY <2>1, <2>2
<1>2. ASSUME NEW a PROVE ActionEvent(a).class = "Detection Finding" <=> IsActionDenied(a)
  <2>1. CASE IsActionDenied(a)
    BY <2>1 DEF ActionEvent, Finding
  <2>2. CASE ~ IsActionDenied(a)
    BY <2>2 DEF ActionEvent
  <2>. QED  BY <2>1, <2>2
<1>. QED  BY <1>1, <1>2

(* The event of a chunk is a finding just if the adapter takes it for       *)
(* blocked, that of a call just if its own decision denies it.              *)
LEMMA FindingsAre ==
  ASSUME ReceiptInv, NEW k \in 1..Total
  PROVE  /\ k <= Len(sources) => k \in 1..Len(sources)
                                 /\ (IsFinding(k) <=> IsSourceBlocked(sources[k]))
         /\ ~ k <= Len(sources) =>
                /\ k - Len(sources) \in 1..Len(actions)
                /\ IsFinding(k) <=> IsActionDenied(k - Len(sources))
                /\ IsFinding(k) <=> ~ executed[k - Len(sources)]
<1>1. Len(sources) \in Nat /\ Len(actions) \in Nat
  BY DEF ReceiptInv, ReceiptTypes
<1>2. ASSUME k <= Len(sources)
      PROVE  k \in 1..Len(sources) /\ (IsFinding(k) <=> IsSourceBlocked(sources[k]))
  <2>1. k \in 1..Len(sources)
    BY <1>1, <1>2 DEF Total
  <2>2. Event(k) = SourceEvent(sources[k])
    BY <1>2 DEF Event
  <2>. QED  BY <2>1, <2>2, FindingClass DEF IsFinding
<1>3. ASSUME ~ k <= Len(sources)
      PROVE  /\ k - Len(sources) \in 1..Len(actions)
             /\ IsFinding(k) <=> IsActionDenied(k - Len(sources))
             /\ IsFinding(k) <=> ~ executed[k - Len(sources)]
  <2>. DEFINE a == k - Len(sources)
  <2>1. a \in 1..Len(actions)
    BY <1>1, <1>3 DEF Total
  <2>2. actions[a] = a /\ Event(k) = ActionEvent(actions[a])
    BY <1>3, <2>1 DEF ReceiptInv, ActionsAgree, Event
  <2>. HIDE DEF a
  <2>3. IsFinding(k) <=> IsActionDenied(a)
    BY <2>2, FindingClass DEF IsFinding
  <2>4. IsActionDenied(a) <=> policy.tools /\ toolCallControl[a].decision = "deny"
    BY <2>1, DenialIsOwn
  <2>5. policy.tools => toolCallControl[a].decision \in Decision
    <3>. SUFFICES ASSUME policy.tools PROVE toolCallControl[a].decision \in Decision
      OBVIOUS
    <3>1. toolCallControl \in Seq([index : 1..Len(actions), decision : Decision])
          /\ Len(toolCallControl) = Len(actions)
      BY DEF ReceiptInv, ReceiptTypes, ActionsAgree
    <3>2. toolCallControl[a] \in [index : 1..Len(actions), decision : Decision]
      BY <2>1, <3>1, ElementOfSeq
    <3>. QED  BY <3>2
  <2>6. executed[a] <=> (policy.tools => toolCallControl[a].decision = "allow")
    BY <2>1 DEF ReceiptInv, ActionsAgree
  <2>7. policy.tools => (toolCallControl[a].decision = "deny" <=> ~ toolCallControl[a].decision = "allow")
    BY <2>5 DEF Decision
  <2>8. IsFinding(k) <=> ~ executed[a]
    BY <2>3, <2>4, <2>6, <2>7, Zenon
  <2>. QED  BY <2>1, <2>3, <2>8, Zenon DEF a
<1>. QED  BY <1>2, <1>3, Zenon

(* The SIEM is told what was done, for any receipt, but of a text that was  *)
(* decided both ways it is told the last decision.  It rests on what the    *)
(* loops left on the receipt, and on every decision naming its call or the  *)
(* text of its chunk.                                                       *)
THEOREM SiemIsTold == ExportSpec => []SiemAgrees
<1>1. ExportInv => SiemAgrees
  <2>. SUFFICES ASSUME ExportInv, NEW k \in Stored
                PROVE  IF k <= Len(sources)
                       THEN Overruled(k) \/ (IsFinding(k) <=> ~ kept[k])
                       ELSE IsFinding(k) <=> ~ executed[k - Len(sources)]
    BY DEF SiemAgrees
  <2>1. ReceiptInv /\ stored \in Seq(StoredEvent)
    BY DEF ExportInv, FlowTypes
  <2>2. k \in 1..Total
    <3>1. PICK i \in DOMAIN stored : k = stored[i].event
      BY DEF Stored
    <3>2. stored[i] \in StoredEvent
      BY <2>1, <3>1, ElementOfSeq
    <3>. QED  BY <3>1, <3>2 DEF StoredEvent
  <2>3. ASSUME k <= Len(sources), ~ Overruled(k)
        PROVE  IsFinding(k) <=> ~ kept[k]
    <3>. DEFINE o == sources[k].outcome
    <3>1. k \in 1..Len(sources) /\ (IsFinding(k) <=> IsSourceBlocked(sources[k]))
      BY <2>1, <2>2, <2>3, FindingsAre
    <3>2. DecisionOn(sources[k].fingerprint)
              = IF policy.access THEN accessControl[k].decision ELSE "none"
      BY <2>1, <2>3, <3>1, DecisionFound
    <3>3. IsSourceBlocked(sources[k])
             <=> o \in policy.blocks \/ (policy.access /\ accessControl[k].decision = "deny")
      BY <3>2 DEF IsSourceBlocked
    <3>4. kept[k] <=> o \notin policy.blocks /\ (policy.access => accessControl[k].decision = "allow")
      BY <2>1, <3>1 DEF ReceiptInv, ReceiptAgrees
    <3>5. policy.access => accessControl[k].decision \in Decision
      <4>. SUFFICES ASSUME policy.access PROVE accessControl[k].decision \in Decision
        OBVIOUS
      <4>1. accessControl \in Seq([fingerprint : Fingerprint, decision : Decision])
            /\ k \in 1..Len(accessControl)
        BY <2>1, <3>1 DEF ReceiptInv, ReceiptTypes, ReceiptAgrees
      <4>2. accessControl[k] \in [fingerprint : Fingerprint, decision : Decision]
        BY <4>1, ElementOfSeq
      <4>. QED  BY <4>2
    <3>6. policy.access => (accessControl[k].decision = "deny" <=> ~ accessControl[k].decision = "allow")
      BY <3>5 DEF Decision
    <3>. QED  BY <3>1, <3>3, <3>4, <3>6, Zenon
  <2>4. ASSUME ~ k <= Len(sources)
        PROVE  IsFinding(k) <=> ~ executed[k - Len(sources)]
    BY <2>1, <2>2, <2>4, FindingsAre
  <2>. QED  BY <2>3, <2>4
<1>. QED  BY <1>1, ExportInvariant, PTL

LEMMA DeniedMeansFinding ==
  ASSUME ReceiptInv
  PROVE  Denied(toolCallControl) <=> \E a \in 1..Len(actions) : IsActionDenied(a)
<1>1. CASE policy.tools
  <2>1. DOMAIN toolCallControl = 1..Len(actions)
    BY <1>1 DEF ReceiptInv, ReceiptTypes, ActionsAgree
  <2>2. \A a \in 1..Len(actions) : IsActionDenied(a) <=> toolCallControl[a].decision = "deny"
    BY <1>1, DenialIsOwn
  <2>. QED  BY <2>1, <2>2, Zenon DEF Denied
<1>2. CASE ~ policy.tools
  <2>1. DOMAIN toolCallControl = {}
    BY <1>2 DEF ReceiptInv, ActionsAgree
  <2>2. \A a \in 1..Len(actions) : ~ IsActionDenied(a)
    BY <1>2, DenialIsOwn
  <2>. QED  BY <2>1, <2>2, Zenon DEF Denied
<1>. QED  BY <1>1, <1>2

LEMMA CriticalMeansUnverified ==
  /\ \A s : SourceEvent(s).severity = "Critical" => s.outcome # "VERIFIED"
  /\ \A a : ActionEvent(a).severity # "Critical"
<1>1. ASSUME NEW s, s.outcome = "VERIFIED" PROVE SourceEvent(s).severity # "Critical"
  <2>1. CASE IsSourceBlocked(s)
    BY <1>1, <2>1 DEF SourceEvent, Finding
  <2>2. CASE ~ IsSourceBlocked(s)
    BY <2>2 DEF SourceEvent
  <2>. QED  BY <2>1, <2>2
<1>2. ASSUME NEW a PROVE ActionEvent(a).severity # "Critical"
  <2>1. CASE IsActionDenied(a)
    BY <2>1 DEF ActionEvent, Finding
  <2>2. CASE ~ IsActionDenied(a)
    BY <2>2 DEF ActionEvent
  <2>. QED  BY <2>1, <2>2
<1>. QED  BY <1>1, <1>2

(* The summary of the receipt fails just if one of its events is a serious  *)
(* finding, and a PASS leaves nothing critical.                             *)
THEOREM SummaryMatchesEvents == ExportSpec => []StatusAgreesWithEvents
<1>1. ExportInv => StatusAgreesWithEvents
  <2>. SUFFICES ASSUME ExportInv, phase = "published" PROVE StatusAgreesWithEvents
    BY DEF StatusAgreesWithEvents
  <2>. DEFINE n == Len(sources)
              serious(k) == IsFinding(k) /\ (k <= n => sources[k].outcome \in policy.blocks)
              blocked == \E i \in 1..n : sources[i].outcome \in policy.blocks
              denied == \E a \in 1..Len(actions) : IsActionDenied(a)
  <2>1. ReceiptInv /\ EventNumber = 1..Total /\ status = OverallStatus
    BY EventsAre DEF ExportInv, Places
  <2>2. n \in Nat /\ Len(actions) \in Nat /\ DOMAIN sources = 1..n /\ Total = n + Len(actions)
    BY <2>1 DEF ReceiptInv, ReceiptTypes, Total
  <2>3. \A k \in 1..Total :
          /\ k <= n => k \in 1..n /\ (IsFinding(k) <=> IsSourceBlocked(sources[k]))
          /\ ~ k <= n => k - n \in 1..Len(actions) /\ (IsFinding(k) <=> IsActionDenied(k - n))
    BY <2>1, FindingsAre
  <2>4. OverallStatus = "FAIL" <=> denied \/ blocked
    BY <2>1, <2>2, DeniedMeansFinding DEF OverallStatus, ShouldBlock
  <2>. HIDE DEF n
  <2>5. ASSUME NEW k \in 1..Total, serious(k) PROVE denied \/ blocked
    <3>1. CASE k <= n
      BY <2>3, <2>5, <3>1
    <3>2. CASE ~ k <= n
      BY <2>3, <2>5, <3>2
    <3>. QED  BY <3>1, <3>2
  <2>6. ASSUME NEW i \in 1..n, sources[i].outcome \in policy.blocks
        PROVE  \E k \in 1..Total : serious(k)
    <3>1. i \in 1..Total /\ i <= n
      BY <2>2
    <3>2. IsSourceBlocked(sources[i])
      BY <2>6 DEF IsSourceBlocked
    <3>3. serious(i)
      BY <2>3, <2>6, <3>1, <3>2
    <3>. QED  BY <3>1, <3>3
  <2>7. ASSUME NEW a \in 1..Len(actions), IsActionDenied(a)
        PROVE  \E k \in 1..Total : serious(k)
    <3>1. PICK m \in 1..Total : ~ m <= n /\ m - n = a
      <4>1. n + a \in 1..Total /\ ~ n + a <= n /\ n + a - n = a
        BY <2>2
      <4>. QED  BY <2>2, <4>1
    <3>2. IsFinding(m) <=> IsActionDenied(m - n)
      BY <2>3, <3>1
    <3>3. serious(m)
      BY <2>7, <3>1, <3>2
    <3>. QED  BY <3>3
  <2>8. status = "FAIL" <=> \E k \in EventNumber : serious(k)
    <3>. HIDE DEF serious
    <3>. QED  BY <2>1, <2>4, <2>5, <2>6, <2>7, Zenon
  <2>9. ASSUME status = "PASS", NEW k \in EventNumber PROVE Event(k).severity # "Critical"
    <3>1. \A i \in 1..n : sources[i].outcome = "VERIFIED"
      BY <2>1, <2>2, <2>9 DEF OverallStatus
    <3>2. CASE k <= n
      <4>1. k \in 1..n /\ Event(k) = SourceEvent(sources[k])
        BY <2>1, <2>3, <3>2 DEF Event, n
      <4>. QED  BY <3>1, <4>1, CriticalMeansUnverified
    <3>3. CASE ~ k <= n
      <4>1. Event(k) = ActionEvent(actions[k - n])
        BY <3>3 DEF Event, n
      <4>. QED  BY <4>1, CriticalMeansUnverified
    <3>. QED  BY <3>2, <3>3
  <2>. QED  BY <2>8, <2>9 DEF StatusAgreesWithEvents, n
<1>. QED  BY <1>1, ExportInvariant, PTL
===============================================================================
