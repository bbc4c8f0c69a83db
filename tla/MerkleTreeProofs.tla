--------------------------- MODULE MerkleTreeProofs ---------------------------
(***************************************************************************)
(* What the Merkle tree and its verifier compute, for a log of any length. *)
(*                                                                         *)
(* The recursive definitions are functions over sizes and positions.  Each *)
(* is first shown to satisfy the equation it is defined by: a table that   *)
(* satisfies it up to some size exists, because the least size without one *)
(* could be added to the table below it.  Claims about all sizes are       *)
(* proved the same way, by their least counterexample.                     *)
(*                                                                         *)
(* The verifier is complete: climbing the audit path of leaf m ends in the *)
(* root, with r and sn both 0.  The induction is over subtrees; q is the   *)
(* power of two a subtree of n leaves would be full at.  On the right edge *)
(* of the log a subtree may have fewer leaves than q: its last node is     *)
(* then carried up unchanged, which is what the verifier's inner loop      *)
(* unwinds.  It is sound: r and sn depend on the length of a path only, so *)
(* two paths that end in the same root have the same length, and the same  *)
(* siblings and the same leaf because hashes are injective.                *)
(***************************************************************************)
EXTENDS MerkleTree, SequenceTheorems, WellFoundedInduction, TLAPS

(* A set of naturals that is not empty has a least element. *)
LEMMA LeastNumber ==
  ASSUME NEW T \in SUBSET Nat, T # {}
  PROVE  \E x \in T : \A y \in T : x <= y
<1>. DEFINE R == {ss \in Nat \X Nat : ss[1] < ss[2]}
<1>1. IsWellFoundedOn(R, Nat)
  BY NatLessThanWellFounded, Zenon DEF OpToRel
<1>2. PICK x \in T : \A y \in T : <<y, x>> \notin R
  BY <1>1, WFMin
<1>3. \A y \in T : ~ (y < x)
  BY <1>2
<1>. QED  BY <1>3

(* A non-empty set of naturals below a bound has a greatest one. *)
LEMMA LastPosition ==
  ASSUME NEW n \in Nat, NEW S \in SUBSET (0..n), S # {}
  PROVE  Max(S) \in S /\ \A i \in S : i <= Max(S)
<1>. DEFINE T == {k \in Nat : \E i \in S : k = n - i}
<1>1. PICK i0 \in S : TRUE
  OBVIOUS
<1>2. n - i0 \in T
  OBVIOUS
<1>3. PICK x \in T : \A y \in T : x <= y
  BY <1>2, LeastNumber
<1>4. PICK m \in S : x = n - m
  OBVIOUS
<1>5. ASSUME NEW i \in S PROVE m >= i
  <2>1. n - i \in T
    OBVIOUS
  <2>. QED  BY <1>3, <1>4, <2>1
<1>. QED  BY <1>5 DEF Max

-----------------------------------------------------------------------------
(* Powers of two.                                                          *)

LEMMA Pow2Def == Pow2 = [k \in Nat |-> IF k = 0 THEN 1 ELSE 2 * Pow2[k - 1]]
<1>. DEFINE IsTable(n, g) == g = [k \in 0..n |-> IF k = 0 THEN 1 ELSE 2 * g[k - 1]]
            Table(n) == CHOOSE g : IsTable(n, g)
            G == [k \in Nat |-> Table(k)[k]]
            Bad == {n \in Nat : ~ \E g : IsTable(n, g)}
<1>1. \A n \in Nat : \E g : IsTable(n, g)
  <2>. SUFFICES ASSUME Bad # {} PROVE FALSE
    OBVIOUS
  <2>1. PICK n \in Bad : \A y \in Bad : n <= y
    BY LeastNumber
  <2>2. CASE n = 0
    <3>. DEFINE g == [k \in 0..0 |-> 1]
    <3>1. IsTable(0, g)
      OBVIOUS
    <3>. QED  BY <2>1, <2>2, <3>1
  <2>3. CASE n # 0
    <3>1. PICK g : IsTable(n - 1, g)
      <4>1. n - 1 \in Nat /\ ~ n <= n - 1
        BY <2>3
      <4>2. n - 1 \notin Bad
        <5>. HIDE DEF Bad
        <5>. QED  BY <2>1, <4>1
      <4>. QED
        <5>. HIDE DEF IsTable
        <5>. QED  BY <4>1, <4>2
    <3>. DEFINE h == [k \in 0..n |-> IF k = n THEN 2 * g[n - 1] ELSE g[k]]
    <3>2. IsTable(n, h)
      <4>1. \A k \in 0..(n - 1) : h[k] = g[k] /\ g[k] = IF k = 0 THEN 1 ELSE 2 * g[k - 1]
        BY <3>1
      <4>2. \A k \in 0..n : h[k] = IF k = 0 THEN 1 ELSE 2 * h[k - 1]
        <5>. SUFFICES ASSUME NEW k \in 0..n PROVE h[k] = IF k = 0 THEN 1 ELSE 2 * h[k - 1]
          OBVIOUS
        <5>1. CASE k = n
          <6>1. h[n] = 2 * g[n - 1] /\ h[n - 1] = g[n - 1]
            BY <2>3, <4>1
          <6>. QED  BY <2>3, <5>1, <6>1
        <5>2. CASE k # n
          <6>. k \in 0..(n - 1) /\ (k # 0 => k - 1 \in 0..(n - 1))
            BY <5>2
          <6>. QED  BY <4>1
        <5>. QED  BY <5>1, <5>2
      <4>. QED  BY <4>2
    <3>. QED  BY <2>1, <3>2
  <2>. QED  BY <2>2, <2>3
<1>2. ASSUME NEW n \in Nat, NEW m \in Nat, n <= m, NEW g, NEW h, IsTable(n, g), IsTable(m, h)
      PROVE  g[n] = h[n]
  <2>. DEFINE Apart == {k \in 0..n : g[k] # h[k]}
  <2>. SUFFICES ASSUME Apart # {} PROVE FALSE
    OBVIOUS
  <2>1. PICK k \in Apart : \A y \in Apart : k <= y
    <3>1. Apart \in SUBSET Nat
      OBVIOUS
    <3>. HIDE DEF Apart
    <3>. QED  BY <3>1, LeastNumber
  <2>2. /\ g[k] = IF k = 0 THEN 1 ELSE 2 * g[k - 1]
        /\ h[k] = IF k = 0 THEN 1 ELSE 2 * h[k - 1]
    BY <1>2
  <2>3. k # 0 => k - 1 \in 0..n /\ k - 1 \notin Apart
    BY <2>1
  <2>. QED  BY <2>2, <2>3
<1>3. \A n \in Nat : IsTable(n, Table(n))
  <2>. HIDE DEF IsTable
  <2>. QED  BY <1>1
<1>4. ASSUME NEW k \in Nat PROVE G[k] = IF k = 0 THEN 1 ELSE 2 * G[k - 1]
  <2>1. IsTable(k, Table(k))
    BY <1>3
  <2>2. Table(k)[k] = IF k = 0 THEN 1 ELSE 2 * Table(k)[k - 1]
    <3>. HIDE DEF Table
    <3>. QED  BY <2>1
  <2>3. ASSUME k # 0 PROVE Table(k)[k - 1] = G[k - 1]
    <3>1. k - 1 \in Nat /\ IsTable(k - 1, Table(k - 1))
      <4>. HIDE DEF IsTable, Table
      <4>. QED  BY <1>3, <2>3
    <3>2. IsTable(k - 1, Table(k - 1)) /\ IsTable(k, Table(k)) => Table(k - 1)[k - 1] = Table(k)[k - 1]
      <4>. HIDE DEF IsTable, Table
      <4>. QED  BY <1>2, <3>1
    <3>. QED  BY <2>1, <3>1, <3>2
  <2>. QED  BY <2>2, <2>3
<1>5. G = [k \in Nat |-> IF k = 0 THEN 1 ELSE 2 * G[k - 1]]
  <2>. DEFINE H == [k \in Nat |-> IF k = 0 THEN 1 ELSE 2 * G[k - 1]]
  <2>1. G = H
    <3>1. \A k \in Nat : G[k] = H[k]
      BY <1>4
    <3>. QED  BY <3>1
  <2>. QED  BY <2>1
<1>. HIDE DEF G
<1>6. \E g : g = [k \in Nat |-> IF k = 0 THEN 1 ELSE 2 * g[k - 1]]
  BY <1>5
<1>. QED  BY <1>6 DEF Pow2

LEMMA Pow2Step == Pow2[0] = 1 /\ \A k \in Nat : Pow2[k + 1] = 2 * Pow2[k]
BY Pow2Def

LEMMA Pow2Type == \A k \in Nat : Pow2[k] \in Nat /\ k < Pow2[k]
<1>. DEFINE Bad == {k \in Nat : ~ (Pow2[k] \in Nat /\ k < Pow2[k])}
<1>. SUFFICES ASSUME Bad # {} PROVE FALSE
  OBVIOUS
<1>1. PICK k \in Bad : \A y \in Bad : k <= y
  BY LeastNumber
<1>2. CASE k = 0
  BY <1>2, Pow2Step
<1>3. CASE k # 0
  <2>1. k - 1 \in Nat /\ k - 1 \notin Bad
    BY <1>1, <1>3
  <2>2. Pow2[k] = 2 * Pow2[k - 1]
    BY <1>3, Pow2Def
  <2>. QED  BY <2>1, <2>2
<1>. QED  BY <1>2, <1>3

(* The sum of exponents is the product of powers. *)
LEMMA Pow2Sum == \A j \in Nat, k \in Nat : Pow2[j + k] = Pow2[j] * Pow2[k]
<1>. SUFFICES ASSUME NEW j \in Nat PROVE \A k \in Nat : Pow2[j + k] = Pow2[j] * Pow2[k]
  OBVIOUS
<1>. DEFINE Bad == {k \in Nat : Pow2[j + k] # Pow2[j] * Pow2[k]}
<1>. SUFFICES ASSUME Bad # {} PROVE FALSE
  OBVIOUS
<1>1. PICK k \in Bad : \A y \in Bad : k <= y
  BY LeastNumber
<1>2. CASE k = 0
  BY <1>2, Pow2Step, Pow2Type
<1>3. CASE k # 0
  <2>1. k - 1 \in Nat /\ k - 1 \notin Bad
    BY <1>1, <1>3
  <2>2. Pow2[k] = 2 * Pow2[k - 1]
    BY <1>3, Pow2Def
  <2>3. Pow2[j + k] = 2 * Pow2[j + (k - 1)]
    <3>1. j + k \in Nat /\ j + k # 0 /\ (j + k) - 1 = j + (k - 1)
      BY <1>3
    <3>. QED  BY <3>1, Pow2Def
  <2>4. Pow2[j + (k - 1)] = Pow2[j] * Pow2[k - 1]
    BY <2>1
  <2>5. Pow2[j] \in Nat /\ Pow2[k - 1] \in Nat
    BY <2>1, Pow2Type
  <2>6. \A a, b \in Nat : 2 * (a * b) = a * (2 * b)
    OBVIOUS
  <2>7. Pow2[j + k] = Pow2[j] * Pow2[k]
    BY <2>2, <2>3, <2>4, <2>5, <2>6
  <2>. QED  BY <2>7
<1>. QED  BY <1>2, <1>3

LEMMA Pow2Monotone ==
  ASSUME NEW j \in Nat, NEW k \in Nat, j <= k
  PROVE  Pow2[j] <= Pow2[k]
<1>1. k - j \in Nat /\ j + (k - j) = k
  OBVIOUS
<1>2. Pow2[k] = Pow2[j] * Pow2[k - j]
  BY <1>1, Pow2Sum
<1>3. Pow2[j] \in Nat /\ Pow2[k - j] \in Nat /\ Pow2[k - j] >= 1
  BY <1>1, Pow2Type
<1>4. \A a, b \in Nat : b >= 1 => a <= a * b
  OBVIOUS
<1>. QED  BY <1>2, <1>3, <1>4

(* A range is split at a power of two, and the left half is the longer one. *)
LEMMA SplitPointIs ==
  ASSUME NEW n \in Nat, n > 1
  PROVE  \E j \in Nat : SplitPoint(n) = Pow2[j] /\ Pow2[j] < n /\ n <= 2 * Pow2[j]
<1>. DEFINE S == {Pow2[k] : k \in {j \in 0..n : Pow2[j] < n}}
<1>1. S \in SUBSET (0..n)
  BY Pow2Type
<1>2. 1 \in S
  BY Pow2Step
<1>3. Max(S) \in S /\ \A i \in S : i <= Max(S)
  <2>. HIDE DEF S
  <2>. QED  BY <1>1, <1>2, LastPosition
<1>4. PICK j \in 0..n : Pow2[j] = Max(S) /\ Pow2[j] < n
  BY <1>3
<1>5. n <= 2 * Pow2[j]
  <2>. SUFFICES ASSUME 2 * Pow2[j] < n PROVE FALSE
    BY <1>4, Pow2Type
  <2>1. j + 1 \in Nat /\ Pow2[j + 1] = 2 * Pow2[j]
    BY <1>4, Pow2Step
  <2>2. j + 1 < Pow2[j + 1] /\ Pow2[j + 1] \in Nat
    BY <2>1, Pow2Type
  <2>3. j + 1 \in 0..n /\ Pow2[j + 1] < n
    BY <2>1, <2>2
  <2>4. Pow2[j + 1] \in S
    BY <2>3
  <2>5. Pow2[j + 1] <= Pow2[j]
    <3>. HIDE DEF S
    <3>. QED  BY <1>3, <1>4, <2>4
  <2>6. Pow2[j] \in Nat /\ Pow2[j] > 0
    BY <1>4, Pow2Type
  <2>. QED  BY <2>1, <2>5, <2>6
<1>6. SplitPoint(n) = Pow2[j]
  BY <1>4 DEF SplitPoint
<1>. QED  BY <1>4, <1>5, <1>6

(* The capacity of a subtree of n leaves: the power of two it is full at. *)
Capacity(j, n) == n <= Pow2[j] /\ Pow2[j] < 2 * n

LEMMA CapacityExists ==
  ASSUME NEW n \in Nat, n >= 1
  PROVE  \E j \in Nat : Capacity(j, n)
<1>1. CASE n = 1
  BY <1>1, Pow2Step DEF Capacity
<1>2. CASE n > 1
  <2>1. PICK i \in Nat : Pow2[i] < n /\ n <= 2 * Pow2[i]
    BY <1>2, SplitPointIs
  <2>2. i + 1 \in Nat /\ Pow2[i + 1] = 2 * Pow2[i] /\ Pow2[i] \in Nat
    BY Pow2Step, Pow2Type
  <2>. QED  BY <2>1, <2>2 DEF Capacity
<1>. QED  BY <1>1, <1>2

LEMMA CapacityIsTwiceTheSplit ==
  ASSUME NEW n \in Nat, n > 1, NEW j \in Nat, Capacity(j, n)
  PROVE  j # 0 /\ SplitPoint(n) = Pow2[j - 1] /\ Pow2[j] = 2 * Pow2[j - 1]
<1>1. PICK i \in Nat : SplitPoint(n) = Pow2[i] /\ Pow2[i] < n /\ n <= 2 * Pow2[i]
  BY SplitPointIs
<1>2. Pow2[i] \in Nat /\ Pow2[j] \in Nat /\ Pow2[i + 1] \in Nat /\ Pow2[i + 2] \in Nat
  BY Pow2Type
<1>3. Pow2[i + 1] = 2 * Pow2[i] /\ Pow2[i + 2] = 2 * Pow2[i + 1]
  <2>1. i + 1 \in Nat /\ i + 2 = (i + 1) + 1
    OBVIOUS
  <2>. QED  BY <2>1, Pow2Step
<1>4. ~ j <= i
  <2>. SUFFICES ASSUME j <= i PROVE FALSE
    OBVIOUS
  <2>1. Pow2[j] <= Pow2[i]
    BY Pow2Monotone
  <2>. QED  BY <1>1, <1>2, <2>1 DEF Capacity
<1>5. ~ i + 2 <= j
  <2>. SUFFICES ASSUME i + 2 <= j PROVE FALSE
    OBVIOUS
  <2>1. Pow2[i + 2] <= Pow2[j]
    BY Pow2Monotone
  <2>. QED  BY <1>1, <1>2, <1>3, <2>1 DEF Capacity
<1>6. j = i + 1
  BY <1>4, <1>5
<1>. QED  BY <1>1, <1>3, <1>6

(* The shorter half's capacity divides the longer half. *)
LEMMA CapacityDivides ==
  ASSUME NEW n \in Nat, n >= 1, NEW j \in Nat, Capacity(j, n), NEW i \in Nat, n <= Pow2[i]
  PROVE  \E c \in Nat : Pow2[i] = Pow2[c] * Pow2[j]
<1>1. Pow2[i] \in Nat /\ Pow2[j] \in Nat /\ Pow2[i + 1] \in Nat /\ Pow2[i + 1] = 2 * Pow2[i]
  BY Pow2Type, Pow2Step
<1>2. ~ i + 1 <= j
  <2>. SUFFICES ASSUME i + 1 <= j PROVE FALSE
    OBVIOUS
  <2>1. Pow2[i + 1] <= Pow2[j]
    BY Pow2Monotone
  <2>. QED  BY <1>1, <2>1 DEF Capacity
<1>3. i - j \in Nat /\ (i - j) + j = i
  BY <1>2
<1>. QED  BY <1>3, Pow2Sum

(* The inner loop stops at the odd factor. *)
LEMMA TrailingZerosOf ==
  ASSUME NEW a \in Nat, NEW j \in Nat
  PROVE  TrailingZeros((2 * a + 1) * Pow2[j]) = j
<1>. DEFINE n == (2 * a + 1) * Pow2[j]
            S == {k \in 0..n : n % Pow2[k] = 0}
<1>1. Pow2[j] \in Nat /\ j < Pow2[j]
  BY Pow2Type
<1>2. n \in Nat /\ j < n
  <2>1. \A x, u \in Nat : (2 * x + 1) * u \in Nat /\ u <= (2 * x + 1) * u
    OBVIOUS
  <2>2. (2 * a + 1) * Pow2[j] \in Nat /\ Pow2[j] <= (2 * a + 1) * Pow2[j]
    BY <1>1, <2>1
  <2>. QED  BY <1>1, <2>2
<1>3. n % Pow2[j] = 0
  <2>1. \A x, u \in Nat : u > 0 => (x * u) % u = 0
    OBVIOUS
  <2>. QED  BY <1>1, <2>1
<1>4. ASSUME NEW k \in Nat, k > j, n % Pow2[k] = 0 PROVE FALSE
  <2>1. k - (j + 1) \in Nat /\ (j + 1) + (k - (j + 1)) = k /\ j + 1 \in Nat
    BY <1>4
  <2>2. Pow2[k] = Pow2[j + 1] * Pow2[k - (j + 1)] /\ Pow2[j + 1] = 2 * Pow2[j]
    BY <2>1, Pow2Sum, Pow2Step
  <2>. DEFINE e == Pow2[k - (j + 1)]
  <2>3. e \in Nat /\ e > 0
    BY <2>1, Pow2Type
  <2>4. \A u, d, x \in Nat : u > 0 /\ d > 0 => ((2 * x + 1) * u) % ((2 * u) * d) # 0
    OBVIOUS
  <2>5. ((2 * a + 1) * Pow2[j]) % ((2 * Pow2[j]) * e) # 0
    <3>. HIDE DEF e
    <3>. QED  BY <1>1, <2>3, <2>4
  <2>6. Pow2[k] = (2 * Pow2[j]) * e
    BY <2>2
  <2>. HIDE DEF e
  <2>. QED  BY <1>4, <2>5, <2>6
<1>. HIDE DEF n
<1>5. S \in SUBSET (0..n) /\ j \in S
  BY <1>2, <1>3
<1>6. Max(S) \in S /\ \A i \in S : i <= Max(S)
  <2>. HIDE DEF S
  <2>. QED  BY <1>2, <1>5, LastPosition
<1>7. Max(S) = j
  BY <1>4, <1>5, <1>6, <1>2
<1>8. TrailingZeros(n) = Max(S)
  BY <1>2 DEF TrailingZeros
<1>. QED  BY <1>7, <1>8 DEF n

-----------------------------------------------------------------------------
(* The recursive definitions satisfy their equations.                      *)

LEMMA ClimbsDef ==
  ASSUME NEW start, NEW proof, Len(proof) \in Nat
  PROVE  Climbs(start, proof) =
           [i \in 0..Len(proof) |->
              IF i = 0 THEN start ELSE Climb(Climbs(start, proof)[i - 1], proof[i])]
<1>. DEFINE Is(n, g) == g = [i \in 0..n |-> IF i = 0 THEN start ELSE Climb(g[i - 1], proof[i])]
            Bad == {n \in Nat : ~ \E g : Is(n, g)}
<1>1. \A n \in Nat : \E g : Is(n, g)
  <2>. SUFFICES ASSUME Bad # {} PROVE FALSE
    OBVIOUS
  <2>1. PICK n \in Bad : \A y \in Bad : n <= y
    BY LeastNumber
  <2>2. CASE n = 0
    <3>. DEFINE g == [i \in 0..0 |-> start]
    <3>1. Is(0, g)
      OBVIOUS
    <3>. QED  BY <2>1, <2>2, <3>1
  <2>3. CASE n # 0
    <3>1. PICK g : Is(n - 1, g)
      <4>1. n - 1 \in Nat /\ ~ n <= n - 1
        BY <2>3
      <4>2. n - 1 \notin Bad
        <5>. HIDE DEF Bad
        <5>. QED  BY <2>1, <4>1
      <4>. QED
        <5>. HIDE DEF Is
        <5>. QED  BY <4>1, <4>2
    <3>. DEFINE h == [i \in 0..n |-> IF i = n THEN Climb(g[n - 1], proof[n]) ELSE g[i]]
    <3>2. Is(n, h)
      <4>1. \A i \in 0..(n - 1) :
              h[i] = g[i] /\ g[i] = IF i = 0 THEN start ELSE Climb(g[i - 1], proof[i])
        BY <3>1
      <4>2. ASSUME NEW i \in 0..n
            PROVE  h[i] = IF i = 0 THEN start ELSE Climb(h[i - 1], proof[i])
        <5>1. CASE i = n
          <6>1. h[n] = Climb(g[n - 1], proof[n]) /\ h[n - 1] = g[n - 1]
            BY <2>3, <4>1
          <6>. QED  BY <2>3, <5>1, <6>1
        <5>2. CASE i # n
          <6>1. i \in 0..(n - 1) /\ (i # 0 => i - 1 \in 0..(n - 1))
            BY <5>2
          <6>. QED  BY <4>1, <6>1
        <5>. QED  BY <5>1, <5>2
      <4>. QED  BY <4>2
    <3>. QED  BY <2>1, <3>2
  <2>. QED  BY <2>2, <2>3
<1>2. \E g : Is(Len(proof), g)
  <2>. HIDE DEF Is
  <2>. QED  BY <1>1
<1>. QED  BY <1>2 DEF Climbs

LEMMA ClimbsStep ==
  ASSUME NEW start, NEW proof, Len(proof) \in Nat
  PROVE  /\ Climbs(start, proof)[0] = start
         /\ \A i \in 1..Len(proof) :
               Climbs(start, proof)[i] = Climb(Climbs(start, proof)[i - 1], proof[i])
<1>. DEFINE C == Climbs(start, proof)
<1>1. C = [i \in 0..Len(proof) |-> IF i = 0 THEN start ELSE Climb(C[i - 1], proof[i])]
  BY ClimbsDef
<1>. HIDE DEF C
<1>2. C[0] = start
  BY <1>1
<1>3. ASSUME NEW i \in 1..Len(proof) PROVE C[i] = Climb(C[i - 1], proof[i])
  <2>1. i \in 0..Len(proof) /\ i # 0
    OBVIOUS
  <2>. QED  BY <1>1, <2>1
<1>. QED  BY <1>2, <1>3 DEF C

(* One more sibling is one more turn of the loop. *)
LEMMA ClimbsAppend ==
  ASSUME NEW S, NEW start, NEW path \in Seq(S), NEW sibling \in S
  PROVE  Climbs(start, Append(path, sibling))[Len(path) + 1] =
           Climb(Climbs(start, path)[Len(path)], sibling)
<1>. DEFINE longer == Append(path, sibling)
            n == Len(path)
            C == Climbs(start, path)
            D == Climbs(start, longer)
            Apart == {i \in 0..n : C[i] # D[i]}
<1>1. n \in Nat /\ Len(longer) = n + 1 /\ longer[n + 1] = sibling
      /\ \A i \in 1..n : longer[i] = path[i]
  OBVIOUS
<1>2. /\ C[0] = start /\ \A i \in 1..n : C[i] = Climb(C[i - 1], path[i])
      /\ D[0] = start /\ \A i \in 1..(n + 1) : D[i] = Climb(D[i - 1], longer[i])
  <2>. HIDE DEF longer
  <2>1. /\ C[0] = start /\ \A i \in 1..n : C[i] = Climb(C[i - 1], path[i])
    BY <1>1, ClimbsStep
  <2>2. /\ D[0] = start /\ \A i \in 1..(n + 1) : D[i] = Climb(D[i - 1], longer[i])
    BY <1>1, ClimbsStep
  <2>. QED  BY <2>1, <2>2
<1>. HIDE DEF C, D, n, longer
<1>3. C[n] = D[n]
  <2>. SUFFICES ASSUME Apart # {} PROVE FALSE
    BY <1>1
  <2>1. PICK i \in Apart : \A y \in Apart : i <= y
    <3>1. Apart \in SUBSET Nat
      BY <1>1
    <3>. HIDE DEF Apart
    <3>. QED  BY <3>1, LeastNumber
  <2>2. i # 0 /\ i \in 1..n /\ i \in 1..(n + 1)
    BY <1>1, <1>2
  <2>3. i - 1 \in 0..n /\ i - 1 \notin Apart
    BY <1>1, <2>1, <2>2
  <2>4. C[i - 1] = D[i - 1]
    BY <2>3
  <2>. QED  BY <1>1, <1>2, <2>2, <2>4
<1>4. D[n + 1] = Climb(D[n], longer[n + 1])
  <2>1. n + 1 \in 1..(n + 1) /\ (n + 1) - 1 = n
    BY <1>1
  <2>. QED  BY <1>2, <2>1
<1>. QED  BY <1>1, <1>3, <1>4 DEF C, D, n, longer

LEMMA SplitPointType ==
  ASSUME NEW n \in Nat, n > 1
  PROVE  SplitPoint(n) \in 1..(n - 1) /\ n - SplitPoint(n) \in 1..(n - 1)
<1>1. PICK j \in Nat : SplitPoint(n) = Pow2[j] /\ Pow2[j] < n /\ n <= 2 * Pow2[j]
  BY SplitPointIs
<1>2. Pow2[j] \in Nat /\ Pow2[j] > 0
  BY Pow2Type
<1>. QED  BY <1>1, <1>2

LEMMA RangeHashStep ==
  ASSUME NEW leaves, Len(leaves) \in Nat
  PROVE  \A n \in 1..Len(leaves) : \A lo \in 0..(Len(leaves) - n) :
           RangeHash(leaves)[n][lo] =
           IF n = 1 THEN HashLeaf(leaves[lo + 1])
           ELSE HashNode(RangeHash(leaves)[SplitPoint(n)][lo],
                         RangeHash(leaves)[n - SplitPoint(n)][lo + SplitPoint(n)])
<1>. DEFINE N == Len(leaves)
            Row(g, n) == [lo \in 0..(N - n) |->
                            IF n = 1 THEN HashLeaf(leaves[lo + 1])
                            ELSE HashNode(g[SplitPoint(n)][lo], g[n - SplitPoint(n)][lo + SplitPoint(n)])]
            Is(n, g) == g = [j \in 1..n |-> Row(g, j)]
            Bad == {n \in Nat : ~ \E g : Is(n, g)}
<1>1. \A n \in Nat : \E g : Is(n, g)
  <2>. SUFFICES ASSUME Bad # {} PROVE FALSE
    OBVIOUS
  <2>1. PICK n \in Bad : \A y \in Bad : n <= y
    BY LeastNumber
  <2>2. CASE n = 0
    <3>. DEFINE g == [j \in 1..0 |-> 0]
    <3>1. Is(0, g)
      <4>. HIDE DEF Row
      <4>. QED  OBVIOUS
    <3>. QED  BY <2>1, <2>2, <3>1
  <2>3. CASE n # 0
    <3>1. PICK g : Is(n - 1, g)
      <4>1. n - 1 \in Nat /\ ~ n <= n - 1
        BY <2>3
      <4>2. n - 1 \notin Bad
        <5>. HIDE DEF Bad
        <5>. QED  BY <2>1, <4>1
      <4>. QED
        <5>. HIDE DEF Is
        <5>. QED  BY <4>1, <4>2
    <3>. DEFINE h == [j \in 1..n |-> IF j = n THEN Row(g, n) ELSE g[j]]
    <3>2. ASSUME NEW j \in 1..n PROVE Row(h, j) = Row(g, j)
      <4>1. CASE j = 1
        BY <4>1
      <4>2. CASE j > 1
        <5>1. SplitPoint(j) \in 1..(n - 1) /\ j - SplitPoint(j) \in 1..(n - 1)
          BY <4>2, SplitPointType
        <5>2. h[SplitPoint(j)] = g[SplitPoint(j)] /\ h[j - SplitPoint(j)] = g[j - SplitPoint(j)]
          <6>. HIDE DEF Row
          <6>. QED  BY <5>1
        <5>. HIDE DEF h
        <5>. QED  BY <5>2
      <4>. HIDE DEF Row, h
      <4>. QED  BY <4>1, <4>2
    <3>3. Is(n, h)
      <4>1. ASSUME NEW j \in 1..n PROVE h[j] = Row(g, j)
        <5>. HIDE DEF Row
        <5>1. j # n => j \in 1..(n - 1)
          OBVIOUS
        <5>. QED  BY <3>1, <5>1
      <4>2. h = [j \in 1..n |-> Row(h, j)]
        <5>1. \A j \in 1..n : h[j] = Row(h, j)
          BY <3>2, <4>1
        <5>. HIDE DEF Row
        <5>. QED  BY <5>1
      <4>. QED  BY <4>2
    <3>. QED  BY <2>1, <3>3
  <2>. QED  BY <2>2, <2>3
<1>2. \E g : Is(N, g)
  <2>. HIDE DEF Is
  <2>. QED  BY <1>1
<1>. DEFINE f == RangeHash(leaves)
<1>3. Is(N, f)
  BY <1>2 DEF RangeHash
<1>. HIDE DEF f
<1>4. ASSUME NEW n \in 1..N PROVE f[n] = Row(f, n)
  <2>. HIDE DEF Row
  <2>. QED  BY <1>3
<1>. QED  BY <1>4 DEF f

LEMMA RangePathStep ==
  ASSUME NEW leaves, Len(leaves) \in Nat, NEW m
  PROVE  \A n \in 1..Len(leaves) : \A lo \in 0..(Len(leaves) - n) :
           RangePath(leaves, m)[n][lo] =
           IF n = 1 THEN <<>>
           ELSE IF m < lo + SplitPoint(n)
                THEN Append(RangePath(leaves, m)[SplitPoint(n)][lo],
                            RangeHash(leaves)[n - SplitPoint(n)][lo + SplitPoint(n)])
                ELSE Append(RangePath(leaves, m)[n - SplitPoint(n)][lo + SplitPoint(n)],
                            RangeHash(leaves)[SplitPoint(n)][lo])
<1>. DEFINE N == Len(leaves)
            Row(g, n) == [lo \in 0..(N - n) |->
                            IF n = 1 THEN <<>>
                            ELSE IF m < lo + SplitPoint(n)
                           THEN Append(g[SplitPoint(n)][lo],
                                       RangeHash(leaves)[n - SplitPoint(n)][lo + SplitPoint(n)])
                           ELSE Append(g[n - SplitPoint(n)][lo + SplitPoint(n)],
                                       RangeHash(leaves)[SplitPoint(n)][lo])]
            Is(n, g) == g = [j \in 1..n |-> Row(g, j)]
            Bad == {n \in Nat : ~ \E g : Is(n, g)}
<1>1. \A n \in Nat : \E g : Is(n, g)
  <2>. SUFFICES ASSUME Bad # {} PROVE FALSE
    OBVIOUS
  <2>1. PICK n \in Bad : \A y \in Bad : n <= y
    BY LeastNumber
  <2>2. CASE n = 0
    <3>. DEFINE g == [j \in 1..0 |-> 0]
    <3>1. Is(0, g)
      <4>. HIDE DEF Row
      <4>. QED  OBVIOUS
    <3>. QED  BY <2>1, <2>2, <3>1
  <2>3. CASE n # 0
    <3>1. PICK g : Is(n - 1, g)
      <4>1. n - 1 \in Nat /\ ~ n <= n - 1
        BY <2>3
      <4>2. n - 1 \notin Bad
        <5>. HIDE DEF Bad
        <5>. QED  BY <2>1, <4>1
      <4>. QED
        <5>. HIDE DEF Is
        <5>. QED  BY <4>1, <4>2
    <3>. DEFINE h == [j \in 1..n |-> IF j = n THEN Row(g, n) ELSE g[j]]
    <3>2. ASSUME NEW j \in 1..n PROVE Row(h, j) = Row(g, j)
      <4>1. CASE j = 1
        BY <4>1
      <4>2. CASE j > 1
        <5>1. SplitPoint(j) \in 1..(n - 1) /\ j - SplitPoint(j) \in 1..(n - 1)
          BY <4>2, SplitPointType
        <5>2. h[SplitPoint(j)] = g[SplitPoint(j)] /\ h[j - SplitPoint(j)] = g[j - SplitPoint(j)]
          <6>. HIDE DEF Row
          <6>. QED  BY <5>1
        <5>. HIDE DEF h
        <5>. QED  BY <5>2
      <4>. HIDE DEF Row, h
      <4>. QED  BY <4>1, <4>2
    <3>3. Is(n, h)
      <4>1. ASSUME NEW j \in 1..n PROVE h[j] = Row(g, j)
        <5>. HIDE DEF Row
        <5>1. j # n => j \in 1..(n - 1)
          OBVIOUS
        <5>. QED  BY <3>1, <5>1
      <4>2. h = [j \in 1..n |-> Row(h, j)]
        <5>1. \A j \in 1..n : h[j] = Row(h, j)
          BY <3>2, <4>1
        <5>. HIDE DEF Row
        <5>. QED  BY <5>1
      <4>. QED  BY <4>2
    <3>. QED  BY <2>1, <3>3
  <2>. QED  BY <2>2, <2>3
<1>2. \E g : Is(N, g)
  <2>. HIDE DEF Is
  <2>. QED  BY <1>1
<1>. DEFINE f == RangePath(leaves, m)
<1>3. Is(N, f)
  BY <1>2 DEF RangePath
<1>. HIDE DEF f
<1>4. ASSUME NEW n \in 1..N PROVE f[n] = Row(f, n)
  <2>. HIDE DEF Row
  <2>. QED  BY <1>3
<1>. QED  BY <1>4 DEF f

-----------------------------------------------------------------------------
(* The verifier is complete.                                               *)

Climber(node, r, sn) == [ok |-> TRUE, node |-> node, r |-> r, sn |-> sn]

(* The three turns of the loop: a left child, a right child, and the last   *)
(* node of a level, which is carried up to where it is a right child.       *)
LEMMA ClimbFromLeft ==
  ASSUME NEW x, NEW sibling, NEW a \in Nat, NEW s \in Nat, 2 * a < s
  PROVE  Climb(Climber(x, 2 * a, s), sibling) = Climber(HashNode(x, sibling), a, s \div 2)
<1>. DEFINE r == 2 * a
<1>1. r \in Nat /\ ~ r % 2 = 1 /\ r \div 2 = a /\ r # s /\ s # 0
  OBVIOUS
<1>. HIDE DEF r
<1>2. Climb(Climber(x, r, s), sibling) = Climber(HashNode(x, sibling), a, s \div 2)
  <2>. DEFINE at == Climber(x, r, s)
  <2>1. at.ok /\ at.node = x /\ at.r = r /\ at.sn = s
    BY DEF Climber
  <2>. HIDE DEF at
  <2>2. Climb(at, sibling) = [ok |-> TRUE, node |-> HashNode(x, sibling),
                              r |-> r \div 2, sn |-> s \div 2]
    BY <1>1, <2>1 DEF Climb
  <2>. QED  BY <1>1, <2>2 DEF at, Climber
<1>. QED  BY <1>2 DEF r

LEMMA ClimbFromRight ==
  ASSUME NEW x, NEW sibling, NEW a \in Nat, NEW s \in Nat, s # 0
  PROVE  Climb(Climber(x, 2 * a + 1, s), sibling) = Climber(HashNode(sibling, x), a, s \div 2)
<1>1. (2 * a + 1) % 2 = 1 /\ (2 * a + 1) \div 2 = a
  OBVIOUS
<1>2. TrailingZeros(2 * a + 1) = 0
  <2>1. (2 * a + 1) * Pow2[0] = 2 * a + 1
    BY Pow2Step
  <2>2. TrailingZeros((2 * a + 1) * Pow2[0]) = 0
    BY TrailingZerosOf
  <2>. QED  BY <2>1, <2>2
<1>3. 2 * Pow2[TrailingZeros(2 * a + 1)] = 2
  BY <1>2, Pow2Step
<1>. QED  BY <1>1, <1>3 DEF Climb, Climber

LEMMA ClimbFromEdge ==
  ASSUME NEW x, NEW sibling, NEW a \in Nat, NEW c \in Nat
  PROVE  LET r == (2 * a + 1) * Pow2[c]
         IN  Climb(Climber(x, r, r), sibling) = Climber(HashNode(sibling, x), a, a)
<1>. DEFINE r == (2 * a + 1) * Pow2[c]
<1>1. Pow2[c] \in Nat /\ Pow2[c] > 0
  BY Pow2Type
<1>2. TrailingZeros(r) = c
  BY TrailingZerosOf
<1>3. \A y, u \in Nat : u > 0 => ((2 * y + 1) * u) \div (2 * u) = y /\ (2 * y + 1) * u # 0
  OBVIOUS
<1>4. r \div (2 * Pow2[c]) = a /\ r # 0
  BY <1>1, <1>3
<1>. HIDE DEF r
<1>5. Climb(Climber(x, r, r), sibling) = Climber(HashNode(sibling, x), a, a)
  BY <1>2, <1>4 DEF Climb, Climber
<1>. QED  BY <1>5 DEF r

(* lo and n are a range of the log.  The predicates below keep the positions *)
(* of a proof step apart from the arithmetic that relates them.              *)
IsRange(leaves, lo, n) == lo \in Nat /\ n \in Nat /\ n >= 1 /\ lo + n <= Len(leaves)

Hashes(leaves) ==
    {RangeHash(leaves)[n][lo] : n \in 1..Len(leaves), lo \in 0..Len(leaves)}

LEMMA LeafRange ==
  ASSUME NEW leaves, Len(leaves) \in Nat, NEW m, NEW lo, IsRange(leaves, lo, 1)
  PROVE  RangeHash(leaves)[1][lo] = HashLeaf(leaves[lo + 1]) /\ RangePath(leaves, m)[1][lo] = <<>>
<1>1. 1 \in 1..Len(leaves) /\ lo \in 0..(Len(leaves) - 1)
  BY DEF IsRange
<1>2. RangeHash(leaves)[1][lo] = HashLeaf(leaves[lo + 1])
  BY <1>1, RangeHashStep
<1>3. RangePath(leaves, m)[1][lo] = <<>>
  BY <1>1, RangePathStep
<1>. QED  BY <1>2, <1>3

(* A longer range is two halves, and its path is the path of one half and    *)
(* the hash of the other.                                                    *)
Halved(leaves, m, n, lo, k, l) ==
    /\ n = k + l /\ k = SplitPoint(n) /\ l <= k
    /\ IsRange(leaves, lo, k) /\ IsRange(leaves, lo + k, l)
    /\ RangeHash(leaves)[k][lo] \in Hashes(leaves)
    /\ RangeHash(leaves)[l][lo + k] \in Hashes(leaves)
    /\ RangeHash(leaves)[n][lo] = HashNode(RangeHash(leaves)[k][lo], RangeHash(leaves)[l][lo + k])
    /\ m < lo + k => RangePath(leaves, m)[n][lo] =
                       Append(RangePath(leaves, m)[k][lo], RangeHash(leaves)[l][lo + k])
    /\ ~ m < lo + k => RangePath(leaves, m)[n][lo] =
                         Append(RangePath(leaves, m)[l][lo + k], RangeHash(leaves)[k][lo])

LEMMA HalvedRange ==
  ASSUME NEW leaves, Len(leaves) \in Nat, NEW m, NEW n, n > 1, NEW lo, IsRange(leaves, lo, n)
  PROVE  Halved(leaves, m, n, lo, SplitPoint(n), n - SplitPoint(n))
<1>. DEFINE k == SplitPoint(n)
            N == Len(leaves)
<1>1. n \in Nat /\ n \in 1..N /\ n # 1 /\ lo \in 0..(N - n) /\ lo \in Nat /\ lo + n <= N
  BY DEF IsRange
<1>2. k \in 1..(n - 1) /\ n - k \in 1..(n - 1) /\ n - k <= k
  <2>1. k \in 1..(n - 1) /\ n - k \in 1..(n - 1)
    BY <1>1, SplitPointType
  <2>2. n <= 2 * k
    BY <1>1, SplitPointIs
  <2>. QED  BY <1>1, <2>1, <2>2
<1>3. RangeHash(leaves)[n][lo] = HashNode(RangeHash(leaves)[k][lo], RangeHash(leaves)[n - k][lo + k])
  BY <1>1, RangeHashStep
<1>4. RangePath(leaves, m)[n][lo] =
        IF m < lo + k THEN Append(RangePath(leaves, m)[k][lo], RangeHash(leaves)[n - k][lo + k])
        ELSE Append(RangePath(leaves, m)[n - k][lo + k], RangeHash(leaves)[k][lo])
  BY <1>1, RangePathStep
<1>. HIDE DEF k
<1>5. /\ k \in 1..N /\ n - k \in 1..N /\ lo \in 0..N /\ lo + k \in 0..N
      /\ IsRange(leaves, lo, k) /\ IsRange(leaves, lo + k, n - k)
      /\ n = k + (n - k)
  BY <1>1, <1>2 DEF IsRange
<1>6. RangeHash(leaves)[k][lo] \in Hashes(leaves) /\ RangeHash(leaves)[n - k][lo + k] \in Hashes(leaves)
  BY <1>5 DEF Hashes
<1>7. k = SplitPoint(n)
  BY DEF k
<1>8. Halved(leaves, m, n, lo, k, n - k)
  BY <1>2, <1>3, <1>4, <1>5, <1>6, <1>7 DEF Halved
<1>. QED  BY <1>8 DEF k

(* Where the verifier is after the path from leaf m to the root of the n    *)
(* leaves from position lo.                                                 *)
Reached(leaves, m, n, lo, r, sn) ==
    Climbs(Climber(HashLeaf(leaves[m + 1]), r, sn), RangePath(leaves, m)[n][lo])
          [Len(RangePath(leaves, m)[n][lo])]

PathIsTyped(leaves, m, n) ==
    \A lo \in Nat : IsRange(leaves, lo, n) => RangePath(leaves, m)[n][lo] \in Seq(Hashes(leaves))

LEMMA ReachedByHalf ==
  ASSUME NEW leaves, NEW m, NEW n, NEW lo, NEW k, NEW l, Halved(leaves, m, n, lo, k, l),
         PathIsTyped(leaves, m, k), PathIsTyped(leaves, m, l), NEW r, NEW sn
  PROVE  /\ m < lo + k => Reached(leaves, m, n, lo, r, sn) =
                Climb(Reached(leaves, m, k, lo, r, sn), RangeHash(leaves)[l][lo + k])
         /\ ~ m < lo + k => Reached(leaves, m, n, lo, r, sn) =
                Climb(Reached(leaves, m, l, lo + k, r, sn), RangeHash(leaves)[k][lo])
         /\ RangePath(leaves, m)[n][lo] \in Seq(Hashes(leaves))
<1>. DEFINE h == RangeHash(leaves)
            p == RangePath(leaves, m)
            start == Climber(HashLeaf(leaves[m + 1]), r, sn)
<1>1. /\ h[k][lo] \in Hashes(leaves) /\ h[l][lo + k] \in Hashes(leaves)
      /\ m < lo + k => p[n][lo] = Append(p[k][lo], h[l][lo + k])
      /\ ~ m < lo + k => p[n][lo] = Append(p[l][lo + k], h[k][lo])
      /\ IsRange(leaves, lo, k) /\ IsRange(leaves, lo + k, l)
  BY DEF Halved
<1>2. p[k][lo] \in Seq(Hashes(leaves)) /\ p[l][lo + k] \in Seq(Hashes(leaves))
  <2>1. lo \in Nat /\ lo + k \in Nat
    BY <1>1 DEF IsRange
  <2>. QED  BY <1>1, <2>1 DEF PathIsTyped
<1>. HIDE DEF h, p, start
<1>3. ASSUME NEW path \in Seq(Hashes(leaves)), NEW sibling \in Hashes(leaves)
      PROVE  /\ Climbs(start, Append(path, sibling))[Len(Append(path, sibling))]
                  = Climb(Climbs(start, path)[Len(path)], sibling)
             /\ Append(path, sibling) \in Seq(Hashes(leaves))
  <2>1. Len(Append(path, sibling)) = Len(path) + 1
    OBVIOUS
  <2>. QED  BY <2>1, ClimbsAppend
<1>4. CASE m < lo + k
  <2>. DEFINE q == Append(p[k][lo], h[l][lo + k])
  <2>1. /\ Climbs(start, q)[Len(q)] = Climb(Climbs(start, p[k][lo])[Len(p[k][lo])], h[l][lo + k])
        /\ q \in Seq(Hashes(leaves))
    BY <1>1, <1>2, <1>3
  <2>2. p[n][lo] = q
    BY <1>1, <1>4
  <2>. HIDE DEF q
  <2>. QED  BY <1>4, <2>1, <2>2 DEF Reached, h, p, start
<1>5. CASE ~ m < lo + k
  <2>. DEFINE q == Append(p[l][lo + k], h[k][lo])
  <2>1. /\ Climbs(start, q)[Len(q)] = Climb(Climbs(start, p[l][lo + k])[Len(p[l][lo + k])], h[k][lo])
        /\ q \in Seq(Hashes(leaves))
    BY <1>1, <1>2, <1>3
  <2>2. p[n][lo] = q
    BY <1>1, <1>5
  <2>. HIDE DEF q
  <2>. QED  BY <1>5, <2>1, <2>2 DEF Reached, h, p, start
<1>. QED  BY <1>4, <1>5

(* A full subtree that is not the last of its level. *)
InnerClimb(leaves, m, n, lo, i, a, s, x) ==
    Reached(leaves, m, n, lo, a * n + i, s * n + x) = Climber(RangeHash(leaves)[n][lo], a, s)

InnerPathClimbs(leaves, m, n) ==
    \A lo, i, j, a, s, x \in Nat :
        IsRange(leaves, lo, n) /\ m = lo + i /\ i < n /\ n = Pow2[j] /\ a < s /\ x < n
        => InnerClimb(leaves, m, n, lo, i, a, s, x)

(* The last subtree of a level. *)
EdgeClimb(leaves, m, n, lo, i, j, a) ==
    Reached(leaves, m, n, lo, a * Pow2[j] + i, a * Pow2[j] + (n - 1))
      = Climber(RangeHash(leaves)[n][lo], a, a)

EdgePathClimbs(leaves, m, n) ==
    \A lo, i, j, a \in Nat :
        IsRange(leaves, lo, n) /\ m = lo + i /\ i < n /\ Capacity(j, n)
        => EdgeClimb(leaves, m, n, lo, i, j, a)

PathClimbs(leaves, m, n) ==
    /\ PathIsTyped(leaves, m, n)
    /\ InnerPathClimbs(leaves, m, n)
    /\ EdgePathClimbs(leaves, m, n)

LEMMA OneLeafClimbs ==
  ASSUME NEW leaves, Len(leaves) \in Nat, NEW m \in Nat
  PROVE  PathClimbs(leaves, m, 1)
<1>1. ASSUME NEW lo \in Nat, IsRange(leaves, lo, 1)
      PROVE  RangePath(leaves, m)[1][lo] = <<>> /\ RangeHash(leaves)[1][lo] = HashLeaf(leaves[lo + 1])
  BY <1>1, LeafRange
<1>2. ASSUME NEW lo \in Nat, IsRange(leaves, lo, 1), m = lo, NEW r, NEW sn
      PROVE  Reached(leaves, m, 1, lo, r, sn) = Climber(RangeHash(leaves)[1][lo], r, sn)
  <2>1. Len(<<>>) = 0
    OBVIOUS
  <2>2. Climbs(Climber(HashLeaf(leaves[m + 1]), r, sn), <<>>)[0] = Climber(HashLeaf(leaves[m + 1]), r, sn)
    BY <2>1, ClimbsStep
  <2>. QED  BY <1>1, <1>2, <2>1, <2>2 DEF Reached
<1>3. PathIsTyped(leaves, m, 1)
  <2>1. <<>> \in Seq(Hashes(leaves))
    OBVIOUS
  <2>. QED  BY <1>1, <2>1 DEF PathIsTyped
<1>4. InnerPathClimbs(leaves, m, 1)
  <2>. SUFFICES ASSUME NEW lo \in Nat, NEW i \in Nat, NEW a \in Nat, NEW s \in Nat, NEW x \in Nat,
                       IsRange(leaves, lo, 1), m = lo + i, i < 1, x < 1
                PROVE  InnerClimb(leaves, m, 1, lo, i, a, s, x)
    BY DEF InnerPathClimbs
  <2>1. a * 1 + i = a /\ s * 1 + x = s /\ m = lo
    OBVIOUS
  <2>. QED  BY <1>2, <2>1 DEF InnerClimb
<1>5. EdgePathClimbs(leaves, m, 1)
  <2>. SUFFICES ASSUME NEW lo \in Nat, NEW i \in Nat, NEW j \in Nat, NEW a \in Nat,
                       IsRange(leaves, lo, 1), m = lo + i, i < 1, Capacity(j, 1)
                PROVE  EdgeClimb(leaves, m, 1, lo, i, j, a)
    BY DEF EdgePathClimbs
  <2>1. Pow2[j] = 1
    BY Pow2Type DEF Capacity
  <2>2. a * 1 + i = a /\ a * 1 + (1 - 1) = a /\ m = lo
    OBVIOUS
  <2>. QED  BY <1>2, <2>1, <2>2 DEF EdgeClimb
<1>. QED  BY <1>3, <1>4, <1>5 DEF PathClimbs

(* Position i of a * 2k + i, seen from the halves. *)
LEMMA IndexOfHalf ==
  ASSUME NEW k \in Nat, NEW a \in Nat, NEW i \in Nat
  PROVE  /\ a * (2 * k) + i = (2 * a) * k + i
         /\ ~ i < k => a * (2 * k) + i = (2 * a + 1) * k + (i - k)
<1>. DEFINE u == (2 * a) * k
<1>1. a * (2 * k) = u /\ (2 * a + 1) * k = u + k /\ u \in Nat
  <2>1. \A y, v \in Nat : y * (2 * v) = (2 * y) * v /\ (2 * y + 1) * v = (2 * y) * v + v
                          /\ (2 * y) * v \in Nat
    OBVIOUS
  <2>. QED  BY <2>1
<1>. HIDE DEF u
<1>2. u + i = (u + k) + (i - k)
  BY <1>1
<1>3. a * (2 * k) + i = u + i /\ (2 * a + 1) * k + (i - k) = (u + k) + (i - k)
  BY <1>1
<1>. QED  BY <1>2, <1>3 DEF u

LastInHalf(k, a, s, x) ==
    \E t \in Nat, y \in Nat :
        s * (2 * k) + x = t * k + y /\ y < k /\ t \div 2 = s /\ 2 * a + 1 < t

LEMMA LastOfHalf ==
  ASSUME NEW k \in Nat, NEW a \in Nat, NEW s \in Nat, a < s, NEW x \in Nat, x < 2 * k
  PROVE  LastInHalf(k, a, s, x)
<1>1. CASE x < k
  <2>1. s * (2 * k) + x = (2 * s) * k + x
    BY IndexOfHalf
  <2>2. 2 * s \in Nat /\ (2 * s) \div 2 = s /\ 2 * a + 1 < 2 * s
    OBVIOUS
  <2>. QED  BY <1>1, <2>1, <2>2 DEF LastInHalf
<1>2. CASE ~ x < k
  <2>1. s * (2 * k) + x = (2 * s + 1) * k + (x - k)
    BY <1>2, IndexOfHalf
  <2>2. /\ 2 * s + 1 \in Nat /\ (2 * s + 1) \div 2 = s /\ 2 * a + 1 < 2 * s + 1
        /\ x - k \in Nat /\ x - k < k
    BY <1>2
  <2>. QED  BY <2>1, <2>2 DEF LastInHalf
<1>. QED  BY <1>1, <1>2

(* Both halves of a full subtree are full, and neither is the last of its    *)
(* level when the subtree is not.                                            *)
LEMMA InnerStep ==
  ASSUME NEW leaves, NEW m \in Nat, NEW n \in Nat, n > 1, NEW lo \in Nat,
         NEW k, NEW l, Halved(leaves, m, n, lo, k, l), PathClimbs(leaves, m, k), PathClimbs(leaves, m, l),
         NEW i \in Nat, m = lo + i, i < n, NEW j \in Nat, n = Pow2[j],
         NEW a \in Nat, NEW s \in Nat, a < s, NEW x \in Nat, x < n
  PROVE  InnerClimb(leaves, m, n, lo, i, a, s, x)
<1>. DEFINE h == RangeHash(leaves)
            r == a * n + i
            sn == s * n + x
<1>1. j - 1 \in Nat /\ k = Pow2[j - 1] /\ n = 2 * k /\ k \in Nat /\ l = k
  <2>1. Capacity(j, n)
    BY DEF Capacity
  <2>2. j # 0 /\ SplitPoint(n) = Pow2[j - 1] /\ Pow2[j] = 2 * Pow2[j - 1]
    BY <2>1, CapacityIsTwiceTheSplit
  <2>3. j - 1 \in Nat
    BY <2>2
  <2>4. Pow2[j - 1] \in Nat
    BY <2>3, Pow2Type
  <2>5. n = k + l /\ k = SplitPoint(n) /\ l \in Nat
    BY DEF Halved, IsRange
  <2>6. k = Pow2[j - 1] /\ n = 2 * k
    BY <2>2, <2>5
  <2>7. k \in Nat
    BY <2>4, <2>6
  <2>8. l = k
    BY <2>5, <2>6, <2>7
  <2>. QED  BY <2>3, <2>6, <2>7, <2>8
<1>2. /\ IsRange(leaves, lo, k) /\ IsRange(leaves, lo + k, k)
      /\ h[n][lo] = HashNode(h[k][lo], h[k][lo + k])
  BY <1>1 DEF Halved
<1>3. InnerPathClimbs(leaves, m, k) /\ PathIsTyped(leaves, m, k) /\ PathIsTyped(leaves, m, l)
  BY DEF PathClimbs
<1>. HIDE DEF r, sn, h
<1>4. /\ m < lo + k => Reached(leaves, m, n, lo, r, sn) =
                       Climb(Reached(leaves, m, k, lo, r, sn), h[k][lo + k])
      /\ ~ m < lo + k => Reached(leaves, m, n, lo, r, sn) =
                         Climb(Reached(leaves, m, k, lo + k, r, sn), h[k][lo])
  BY <1>1, <1>3, ReachedByHalf DEF h
<1>5. r = (2 * a) * k + i /\ (~ i < k => r = (2 * a + 1) * k + (i - k))
  BY <1>1, IndexOfHalf DEF r
<1>6. PICK t \in Nat, y \in Nat : sn = t * k + y /\ y < k /\ t \div 2 = s /\ 2 * a + 1 < t
  <2>1. LastInHalf(k, a, s, x)
    BY <1>1, LastOfHalf
  <2>2. sn = s * (2 * k) + x
    BY <1>1 DEF sn
  <2>. QED  BY <2>1, <2>2 DEF LastInHalf
<1>7. 2 * a \in Nat /\ 2 * a + 1 \in Nat /\ 2 * a < t /\ t # 0
  BY <1>6
<1>8. CASE i < k
  <2>1. m < lo + k
    BY <1>1, <1>8
  <2>2. InnerClimb(leaves, m, k, lo, i, 2 * a, t, y)
    BY <1>1, <1>2, <1>3, <1>6, <1>7, <1>8 DEF InnerPathClimbs
  <2>3. Reached(leaves, m, k, lo, r, sn) = Climber(h[k][lo], 2 * a, t)
    BY <1>5, <1>6, <2>2 DEF InnerClimb, h
  <2>4. Climb(Climber(h[k][lo], 2 * a, t), h[k][lo + k]) = Climber(HashNode(h[k][lo], h[k][lo + k]), a, t \div 2)
    BY <1>7, ClimbFromLeft
  <2>5. Reached(leaves, m, n, lo, r, sn) = Climber(h[n][lo], a, s)
    BY <1>2, <1>4, <1>6, <2>1, <2>3, <2>4
  <2>. QED  BY <2>5 DEF InnerClimb, r, sn, h
<1>9. CASE ~ i < k
  <2>1. ~ m < lo + k /\ lo + k \in Nat /\ i - k \in Nat /\ i - k < k /\ m = (lo + k) + (i - k)
    BY <1>1, <1>9
  <2>2. InnerClimb(leaves, m, k, lo + k, i - k, 2 * a + 1, t, y)
    BY <1>1, <1>2, <1>3, <1>6, <1>7, <2>1 DEF InnerPathClimbs
  <2>3. Reached(leaves, m, k, lo + k, r, sn) = Climber(h[k][lo + k], 2 * a + 1, t)
    BY <1>5, <1>6, <1>9, <2>2 DEF InnerClimb, h
  <2>4. Climb(Climber(h[k][lo + k], 2 * a + 1, t), h[k][lo])
          = Climber(HashNode(h[k][lo], h[k][lo + k]), a, t \div 2)
    <3>. DEFINE right == h[k][lo + k]
                left == h[k][lo]
    <3>. HIDE DEF right, left
    <3>1. Climb(Climber(right, 2 * a + 1, t), left) = Climber(HashNode(left, right), a, t \div 2)
      BY <1>7, ClimbFromRight
    <3>. QED  BY <3>1 DEF right, left
  <2>5. Reached(leaves, m, n, lo, r, sn) = Climber(h[n][lo], a, s)
    BY <1>2, <1>4, <1>6, <2>1, <2>3, <2>4
  <2>. QED  BY <2>5 DEF InnerClimb, r, sn, h
<1>. QED  BY <1>8, <1>9

(* The left half of the last subtree of a level is full and not the last;    *)
(* the right half is the last, and its root is carried up to the level where *)
(* the left half's is.                                                       *)
LEMMA EdgeStep ==
  ASSUME NEW leaves, NEW m \in Nat, NEW n \in Nat, n > 1, NEW lo \in Nat,
         NEW k, NEW l, Halved(leaves, m, n, lo, k, l), PathClimbs(leaves, m, k), PathClimbs(leaves, m, l),
         NEW i \in Nat, m = lo + i, i < n, NEW j \in Nat, Capacity(j, n), NEW a \in Nat
  PROVE  EdgeClimb(leaves, m, n, lo, i, j, a)
<1>. DEFINE h == RangeHash(leaves)
            r == a * Pow2[j] + i
            sn == a * Pow2[j] + (n - 1)
<1>1. /\ j - 1 \in Nat /\ k = Pow2[j - 1] /\ Pow2[j] = 2 * k /\ k \in Nat
      /\ l \in Nat /\ l >= 1 /\ l <= k /\ n = k + l
  <2>1. j # 0 /\ SplitPoint(n) = Pow2[j - 1] /\ Pow2[j] = 2 * Pow2[j - 1]
    BY CapacityIsTwiceTheSplit
  <2>2. j - 1 \in Nat
    BY <2>1
  <2>3. Pow2[j - 1] \in Nat
    BY <2>2, Pow2Type
  <2>4. n = k + l /\ k = SplitPoint(n) /\ l \in Nat /\ l >= 1 /\ l <= k
    BY DEF Halved, IsRange
  <2>. QED  BY <2>1, <2>2, <2>3, <2>4
<1>2. /\ IsRange(leaves, lo, k) /\ IsRange(leaves, lo + k, l)
      /\ h[n][lo] = HashNode(h[k][lo], h[l][lo + k])
  BY DEF Halved
<1>3. /\ InnerPathClimbs(leaves, m, k) /\ EdgePathClimbs(leaves, m, l)
      /\ PathIsTyped(leaves, m, k) /\ PathIsTyped(leaves, m, l)
  BY DEF PathClimbs
<1>. HIDE DEF r, sn, h
<1>4. /\ m < lo + k => Reached(leaves, m, n, lo, r, sn) =
                       Climb(Reached(leaves, m, k, lo, r, sn), h[l][lo + k])
      /\ ~ m < lo + k => Reached(leaves, m, n, lo, r, sn) =
                         Climb(Reached(leaves, m, l, lo + k, r, sn), h[k][lo])
  BY <1>3, ReachedByHalf DEF h
<1>5. r = (2 * a) * k + i /\ (~ i < k => r = (2 * a + 1) * k + (i - k))
  BY <1>1, IndexOfHalf DEF r
<1>6. sn = (2 * a + 1) * k + (l - 1)
  <2>1. n - 1 \in Nat /\ ~ n - 1 < k /\ (n - 1) - k = l - 1
    BY <1>1
  <2>2. a * (2 * k) + (n - 1) = (2 * a + 1) * k + ((n - 1) - k)
    BY <1>1, <2>1, IndexOfHalf
  <2>. QED  BY <1>1, <2>1, <2>2 DEF sn
<1>7. 2 * a \in Nat /\ 2 * a + 1 \in Nat /\ 2 * a < 2 * a + 1 /\ (2 * a + 1) \div 2 = a
  OBVIOUS
<1>8. CASE i < k
  <2>1. m < lo + k /\ l - 1 \in Nat /\ l - 1 < k
    BY <1>1, <1>8
  <2>2. InnerClimb(leaves, m, k, lo, i, 2 * a, 2 * a + 1, l - 1)
    BY <1>1, <1>2, <1>3, <1>7, <1>8, <2>1 DEF InnerPathClimbs
  <2>3. Reached(leaves, m, k, lo, r, sn) = Climber(h[k][lo], 2 * a, 2 * a + 1)
    BY <1>5, <1>6, <2>2 DEF InnerClimb, h
  <2>4. Climb(Climber(h[k][lo], 2 * a, 2 * a + 1), h[l][lo + k])
          = Climber(HashNode(h[k][lo], h[l][lo + k]), a, (2 * a + 1) \div 2)
    BY <1>7, ClimbFromLeft
  <2>5. Reached(leaves, m, n, lo, r, sn) = Climber(h[n][lo], a, a)
    BY <1>2, <1>4, <1>7, <2>1, <2>3, <2>4
  <2>. QED  BY <2>5 DEF EdgeClimb, r, sn, h
<1>9. CASE ~ i < k
  <2>1. ~ m < lo + k /\ lo + k \in Nat /\ i - k \in Nat /\ i - k < l /\ m = (lo + k) + (i - k)
    BY <1>1, <1>9
  <2>2. PICK e \in Nat : Capacity(e, l)
    BY <1>1, CapacityExists
  <2>3. PICK c \in Nat : k = Pow2[c] * Pow2[e]
    <3>1. l <= Pow2[j - 1]
      BY <1>1
    <3>. QED  BY <1>1, <2>2, <3>1, CapacityDivides
  <2>. DEFINE b == (2 * a + 1) * Pow2[c]
  <2>4. b \in Nat /\ (2 * a + 1) * k = b * Pow2[e]
    <3>1. Pow2[c] \in Nat /\ Pow2[e] \in Nat
      BY Pow2Type
    <3>2. \A u, v, w \in Nat : u * v \in Nat /\ u * (v * w) = (u * v) * w
      OBVIOUS
    <3>3. (2 * a + 1) * (Pow2[c] * Pow2[e]) = b * Pow2[e] /\ b \in Nat
      BY <1>7, <3>1, <3>2
    <3>. HIDE DEF b
    <3>. QED  BY <2>3, <3>3
  <2>5. Climb(Climber(h[l][lo + k], b, b), h[k][lo]) = Climber(HashNode(h[k][lo], h[l][lo + k]), a, a)
    BY ClimbFromEdge
  <2>. HIDE DEF b
  <2>6. EdgeClimb(leaves, m, l, lo + k, i - k, e, b)
    BY <1>2, <1>3, <2>1, <2>2, <2>4 DEF EdgePathClimbs
  <2>7. Reached(leaves, m, l, lo + k, r, sn) = Climber(h[l][lo + k], b, b)
    BY <1>5, <1>6, <1>9, <2>4, <2>6 DEF EdgeClimb, h
  <2>8. Reached(leaves, m, n, lo, r, sn) = Climber(h[n][lo], a, a)
    BY <1>2, <1>4, <2>1, <2>5, <2>7
  <2>. QED  BY <2>8 DEF EdgeClimb, r, sn, h
<1>. QED  BY <1>8, <1>9

LEMMA EveryPathClimbs ==
  ASSUME NEW leaves, Len(leaves) \in Nat, NEW m \in Nat
  PROVE  \A n \in Nat : n >= 1 => PathClimbs(leaves, m, n)
<1>. DEFINE Bad == {n \in Nat : n >= 1 /\ ~ PathClimbs(leaves, m, n)}
<1>. SUFFICES ASSUME Bad # {} PROVE FALSE
  OBVIOUS
<1>1. PICK n \in Bad : \A y \in Bad : n <= y
  BY LeastNumber
<1>2. n \in Nat /\ n > 1
  <2>1. n \in Nat /\ n >= 1 /\ n # 1
    BY OneLeafClimbs
  <2>. QED  BY <2>1
<1>3. ASSUME NEW y \in Nat, y >= 1, y < n PROVE PathClimbs(leaves, m, y)
  BY <1>1, <1>2, <1>3
<1>. DEFINE k == SplitPoint(n)
            l == n - k
<1>4. PathClimbs(leaves, m, k) /\ PathClimbs(leaves, m, l)
  <2>1. k \in 1..(n - 1) /\ l \in 1..(n - 1)
    BY <1>2, SplitPointType
  <2>2. k \in Nat /\ k >= 1 /\ k < n /\ l \in Nat /\ l >= 1 /\ l < n
    BY <1>2, <2>1
  <2>. HIDE DEF k, l
  <2>. QED  BY <1>3, <2>2
<1>5. ASSUME NEW lo \in Nat, IsRange(leaves, lo, n) PROVE Halved(leaves, m, n, lo, k, l)
  BY <1>2, <1>5, HalvedRange
<1>. HIDE DEF k, l
<1>6. PathIsTyped(leaves, m, n)
  <2>1. PathIsTyped(leaves, m, k) /\ PathIsTyped(leaves, m, l)
    BY <1>4 DEF PathClimbs
  <2>. QED  BY <1>5, <2>1, ReachedByHalf DEF PathIsTyped
<1>7. InnerPathClimbs(leaves, m, n)
  BY <1>2, <1>4, <1>5, InnerStep DEF InnerPathClimbs
<1>8. EdgePathClimbs(leaves, m, n)
  BY <1>2, <1>4, <1>5, EdgeStep DEF EdgePathClimbs
<1>9. n \in Bad /\ PathClimbs(leaves, m, n)
  BY <1>6, <1>7, <1>8 DEF PathClimbs
<1>. QED  BY <1>9

(* The audit path of every leaf of every log verifies for that leaf, at its  *)
(* position, against the root: what inclusion_proof() returns is accepted by *)
(* verify_inclusion_proof(), whatever the shape of the tree.                 *)
THEOREM AuditPathVerifies ==
  ASSUME NEW S, NEW leaves \in Seq(S), NEW m \in 0..(Len(leaves) - 1)
  PROVE  /\ AuditPath(leaves, m) \in Seq(Hashes(leaves))
         /\ VerifyInclusion(leaves[m + 1], m, Len(leaves), AuditPath(leaves, m), TreeRoot(leaves))
<1>. DEFINE N == Len(leaves)
            path == AuditPath(leaves, m)
            start == Climber(HashLeaf(leaves[m + 1]), m, N - 1)
<1>1. N \in Nat /\ N >= 1 /\ m \in Nat /\ m < N /\ leaves # <<>>
  OBVIOUS
<1>2. PathClimbs(leaves, m, N)
  BY <1>1, EveryPathClimbs
<1>3. IsRange(leaves, 0, N)
  BY <1>1 DEF IsRange
<1>4. path \in Seq(Hashes(leaves))
  BY <1>2, <1>3 DEF PathClimbs, PathIsTyped, AuditPath
<1>5. PICK j \in Nat : Capacity(j, N)
  BY <1>1, CapacityExists
<1>. HIDE DEF N
<1>6. EdgeClimb(leaves, m, N, 0, m, j, 0)
  BY <1>1, <1>2, <1>3, <1>5 DEF PathClimbs, EdgePathClimbs
<1>7. 0 * Pow2[j] + m = m /\ 0 * Pow2[j] + (N - 1) = N - 1
  BY <1>1, Pow2Type
<1>8. Climbs(start, path)[Len(path)] = Climber(RangeHash(leaves)[N][0], 0, 0)
  BY <1>6, <1>7 DEF EdgeClimb, Reached, AuditPath, N
<1>9. TreeRoot(leaves) = RangeHash(leaves)[N][0]
  BY <1>1 DEF TreeRoot, N
<1>10. VerifyInclusion(leaves[m + 1], m, N, path, TreeRoot(leaves))
  <2>. DEFINE end == Climbs(start, path)[Len(path)]
  <2>1. end.ok /\ end.node = TreeRoot(leaves) /\ end.sn = 0
    BY <1>8, <1>9 DEF Climber
  <2>2. start = [ok |-> TRUE, node |-> HashLeaf(leaves[m + 1]), r |-> m, sn |-> N - 1]
    BY DEF Climber
  <2>. HIDE DEF start, path
  <2>. QED  BY <1>1, <2>1, <2>2 DEF VerifyInclusion
<1>. QED  BY <1>4, <1>10 DEF N

-----------------------------------------------------------------------------
(* The verifier is sound.                                                  *)

LEMMA ClimbNeedsRoom ==
  ASSUME NEW at, "ok" \in DOMAIN at, NEW sibling, Climb(at, sibling).ok
  PROVE  at.ok /\ at.sn # 0
BY DEF Climb

(* A turn of the loop moves r and sn whatever the hashes are, and the hash   *)
(* it computes determines both of the hashes it was computed from.           *)
LEMMA ClimbIsInjective ==
  ASSUME NEW at, NEW bt, NEW x, NEW y, at.ok, at.sn # 0, bt.ok, at.r = bt.r, at.sn = bt.sn
  PROVE  /\ Climb(at, x).r = Climb(bt, y).r
         /\ Climb(at, x).sn = Climb(bt, y).sn
         /\ Climb(at, x).node = Climb(bt, y).node => at.node = bt.node /\ x = y
<1>. DEFINE left == at.r % 2 = 1 \/ at.r = at.sn
            up == IF left THEN 2 * Pow2[TrailingZeros(at.r)] ELSE 2
<1>1. Climb(at, x) = [ok |-> TRUE,
                      node |-> IF left THEN HashNode(x, at.node) ELSE HashNode(at.node, x),
                      r |-> at.r \div up, sn |-> at.sn \div up]
  BY DEF Climb
<1>2. Climb(bt, y) = [ok |-> TRUE,
                      node |-> IF left THEN HashNode(y, bt.node) ELSE HashNode(bt.node, y),
                      r |-> at.r \div up, sn |-> at.sn \div up]
  BY DEF Climb
<1>. HIDE DEF left, up
<1>. QED  BY <1>1, <1>2 DEF HashNode

LEMMA StatesAreRecords ==
  ASSUME NEW start, "ok" \in DOMAIN start, NEW path, Len(path) \in Nat
  PROVE  \A i \in 0..Len(path) : "ok" \in DOMAIN Climbs(start, path)[i]
<1>. DEFINE C == Climbs(start, path)
            n == Len(path)
            Bad == {i \in 0..n : ~ ("ok" \in DOMAIN C[i])}
<1>1. C[0] = start /\ \A i \in 1..n : C[i] = Climb(C[i - 1], path[i])
  BY ClimbsStep
<1>. HIDE DEF C, n
<1>2. n \in Nat
  BY DEF n
<1>3. SUFFICES ASSUME Bad # {} PROVE FALSE
  BY DEF C, n
<1>4. PICK i \in Bad : \A y \in Bad : i <= y
  <2>1. Bad \in SUBSET Nat
    BY <1>2
  <2>. HIDE DEF Bad
  <2>. QED  BY <1>3, <2>1, LeastNumber
<1>5. i \in 1..n /\ i - 1 \in 0..n /\ i - 1 \notin Bad
  BY <1>1, <1>2, <1>4
<1>6. "ok" \in DOMAIN C[i - 1]
  BY <1>5
<1>7. "ok" \in DOMAIN Climb(C[i - 1], path[i])
  BY <1>6 DEF Climb
<1>. QED  BY <1>1, <1>5, <1>7

(* A run of the loop that ends well had room at every sibling. *)
LEMMA RoomAtEverySibling ==
  ASSUME NEW start, "ok" \in DOMAIN start, NEW path, Len(path) \in Nat,
         Climbs(start, path)[Len(path)].ok
  PROVE  \A i \in 0..Len(path) : /\ Climbs(start, path)[i].ok
                                 /\ i # Len(path) => Climbs(start, path)[i].sn # 0
<1>. DEFINE C == Climbs(start, path)
            n == Len(path)
            Bad == {i \in 0..n : ~ C[i].ok}
<1>1. \A i \in 1..n : C[i] = Climb(C[i - 1], path[i])
  BY ClimbsStep
<1>2. \A i \in 0..n : "ok" \in DOMAIN C[i]
  BY StatesAreRecords
<1>3. n \in Nat /\ C[n].ok
  OBVIOUS
<1>. HIDE DEF C, n
<1>4. ASSUME NEW i \in 0..n, i # n, C[i + 1].ok PROVE C[i].ok /\ C[i].sn # 0
  <2>1. i + 1 \in 1..n /\ (i + 1) - 1 = i
    BY <1>3, <1>4
  <2>2. C[i + 1] = Climb(C[i], path[i + 1])
    BY <1>1, <2>1
  <2>. QED  BY <1>2, <1>4, <2>2, ClimbNeedsRoom
<1>5. \A i \in 0..n : C[i].ok
  <2>. SUFFICES ASSUME Bad # {} PROVE FALSE
    OBVIOUS
  <2>1. Max(Bad) \in Bad /\ \A i \in Bad : i <= Max(Bad)
    <3>1. Bad \in SUBSET (0..n)
      OBVIOUS
    <3>. HIDE DEF Bad
    <3>. QED  BY <1>3, <3>1, LastPosition
  <2>2. PICK i \in Bad : \A y \in Bad : y <= i
    BY <2>1
  <2>3. i # n /\ i + 1 \in 0..n /\ i + 1 \notin Bad
    BY <1>3, <2>2
  <2>. QED  BY <1>4, <2>3
<1>6. \A i \in 0..n : i # n => C[i].sn # 0
  <2>. SUFFICES ASSUME NEW i \in 0..n, i # n PROVE C[i].sn # 0
    OBVIOUS
  <2>1. i + 1 \in 0..n
    BY <1>3
  <2>. QED  BY <1>4, <1>5, <2>1
<1>. QED  BY <1>5, <1>6 DEF C, n

(* A run of n turns: C[i] is the state after the first i siblings. *)
IsRun(C, P, n) ==
    /\ \A i \in 1..n : C[i] = Climb(C[i - 1], P[i])
    /\ \A i \in 0..n : C[i].ok /\ (i # n => C[i].sn # 0)
    /\ C[n].sn = 0

SameWay(C, D, i) == C[i].r = D[i].r /\ C[i].sn = D[i].sn

LEMMA SameWayStep ==
  ASSUME NEW n \in Nat, NEW k \in Nat, NEW C, NEW P, IsRun(C, P, n), NEW D, NEW Q, IsRun(D, Q, k),
         NEW i \in Nat, i < n, i < k, SameWay(C, D, i)
  PROVE  /\ SameWay(C, D, i + 1)
         /\ C[i + 1].node = D[i + 1].node => C[i].node = D[i].node /\ P[i + 1] = Q[i + 1]
<1>1. i + 1 \in 1..n /\ i + 1 \in 1..k /\ (i + 1) - 1 = i /\ i \in 0..n /\ i \in 0..k /\ i # n
  OBVIOUS
<1>2. C[i + 1] = Climb(C[i], P[i + 1]) /\ D[i + 1] = Climb(D[i], Q[i + 1])
  BY <1>1 DEF IsRun
<1>3. C[i].ok /\ C[i].sn # 0 /\ D[i].ok
  BY <1>1 DEF IsRun
<1>4. C[i].r = D[i].r /\ C[i].sn = D[i].sn
  BY DEF SameWay
<1>. QED  BY <1>2, <1>3, <1>4, ClimbIsInjective DEF SameWay

LEMMA RunsGoTheSameWay ==
  ASSUME NEW n \in Nat, NEW k \in Nat, NEW C, NEW P, IsRun(C, P, n), NEW D, NEW Q, IsRun(D, Q, k),
         SameWay(C, D, 0)
  PROVE  n = k /\ \A i \in 0..n : SameWay(C, D, i)
<1>. DEFINE Bad == {i \in Nat : i <= n /\ i <= k /\ ~ SameWay(C, D, i)}
<1>1. \A i \in Nat : i <= n /\ i <= k => SameWay(C, D, i)
  <2>. SUFFICES ASSUME Bad # {} PROVE FALSE
    OBVIOUS
  <2>1. PICK i \in Bad : \A y \in Bad : i <= y
    <3>1. Bad \in SUBSET Nat
      OBVIOUS
    <3>. HIDE DEF Bad
    <3>. QED  BY <3>1, LeastNumber
  <2>2. i \in Nat /\ i <= n /\ i <= k /\ ~ SameWay(C, D, i) /\ i # 0
    BY <2>1
  <2>3. i - 1 \notin Bad /\ i - 1 \in Nat /\ i - 1 < n /\ i - 1 < k /\ (i - 1) + 1 = i
    <3>. HIDE DEF Bad
    <3>. QED  BY <2>1, <2>2
  <2>4. SameWay(C, D, i - 1)
    BY <2>3
  <2>5. SameWay(C, D, (i - 1) + 1)
    <3>. HIDE DEF Bad
    <3>. QED  BY <2>3, <2>4, SameWayStep
  <2>. QED  BY <2>2, <2>3, <2>5
<1>2. ~ n < k
  <2>. SUFFICES ASSUME n < k PROVE FALSE
    OBVIOUS
  <2>1. n \in 0..k /\ n # k /\ SameWay(C, D, n)
    BY <1>1
  <2>2. C[n].sn = 0 /\ D[n].sn # 0
    BY <2>1 DEF IsRun
  <2>. QED  BY <2>1, <2>2 DEF SameWay
<1>3. ~ k < n
  <2>. SUFFICES ASSUME k < n PROVE FALSE
    OBVIOUS
  <2>1. k \in 0..n /\ k # n /\ SameWay(C, D, k)
    BY <1>1
  <2>2. D[k].sn = 0 /\ C[k].sn # 0
    BY <2>1 DEF IsRun
  <2>. QED  BY <2>1, <2>2 DEF SameWay
<1>. QED  BY <1>1, <1>2, <1>3

LEMMA RunsAgree ==
  ASSUME NEW n \in Nat, NEW k \in Nat, NEW C, NEW P, IsRun(C, P, n), NEW D, NEW Q, IsRun(D, Q, k),
         SameWay(C, D, 0), C[n].node = D[k].node
  PROVE  n = k /\ C[0].node = D[0].node /\ \A i \in 1..n : P[i] = Q[i]
<1>1. n = k /\ \A i \in 0..n : SameWay(C, D, i)
  BY RunsGoTheSameWay
<1>. DEFINE Apart == {i \in 0..n : C[i].node # D[i].node}
<1>2. ASSUME NEW i \in Nat, i < n, C[i + 1].node = D[i + 1].node
      PROVE  C[i].node = D[i].node /\ P[i + 1] = Q[i + 1]
  <2>1. SameWay(C, D, i)
    BY <1>1, <1>2
  <2>. QED  BY <1>1, <1>2, <2>1, SameWayStep
<1>3. \A i \in 0..n : C[i].node = D[i].node
  <2>. SUFFICES ASSUME Apart # {} PROVE FALSE
    OBVIOUS
  <2>1. Max(Apart) \in Apart /\ \A y \in Apart : y <= Max(Apart)
    <3>1. Apart \in SUBSET (0..n)
      OBVIOUS
    <3>. HIDE DEF Apart
    <3>. QED  BY <3>1, LastPosition
  <2>2. PICK i \in Apart : \A y \in Apart : y <= i
    BY <2>1
  <2>3. i \in Nat /\ i < n
    BY <1>1, <2>2
  <2>4. i + 1 \notin Apart /\ i + 1 \in 0..n
    <3>. HIDE DEF Apart
    <3>. QED  BY <2>2, <2>3
  <2>5. C[i + 1].node = D[i + 1].node
    BY <2>4
  <2>. QED  BY <1>2, <2>2, <2>3, <2>5
<1>4. ASSUME NEW i \in 1..n PROVE P[i] = Q[i]
  <2>1. i - 1 \in Nat /\ i - 1 < n /\ (i - 1) + 1 = i /\ i \in 0..n
    OBVIOUS
  <2>. QED  BY <1>2, <1>3, <2>1
<1>. QED  BY <1>1, <1>3, <1>4

LEMMA VerifiedIsRun ==
  ASSUME NEW leaf, NEW index, NEW size, NEW P, Len(P) \in Nat, NEW root,
         VerifyInclusion(leaf, index, size, P, root)
  PROVE  LET C == Climbs(Climber(HashLeaf(leaf), index, size - 1), P)
         IN  /\ IsRun(C, P, Len(P))
             /\ C[0] = Climber(HashLeaf(leaf), index, size - 1)
             /\ C[Len(P)].node = root
<1>. DEFINE start == Climber(HashLeaf(leaf), index, size - 1)
            C == Climbs(start, P)
<1>1. start = [ok |-> TRUE, node |-> HashLeaf(leaf), r |-> index, sn |-> size - 1]
  BY DEF Climber
<1>2. "ok" \in DOMAIN start
  BY <1>1
<1>. HIDE DEF start
<1>3. C[Len(P)].ok /\ C[Len(P)].node = root /\ C[Len(P)].sn = 0
  BY <1>1 DEF VerifyInclusion
<1>4. C[0] = start /\ \A i \in 1..Len(P) : C[i] = Climb(C[i - 1], P[i])
  BY ClimbsStep
<1>5. \A i \in 0..Len(P) : C[i].ok /\ (i # Len(P) => C[i].sn # 0)
  BY <1>2, <1>3, RoomAtEverySibling
<1>6. IsRun(C, P, Len(P))
  BY <1>3, <1>4, <1>5 DEF IsRun
<1>. QED  BY <1>3, <1>4, <1>6 DEF start

(* Nothing else verifies: what verify_inclusion_proof() accepts at a position *)
(* against the root of a log is the leaf that is there, with its audit path.  *)
THEOREM InclusionIsUnforgeable ==
  ASSUME NEW S, NEW leaves \in Seq(S), NEW leaf, NEW m \in 0..(Len(leaves) - 1),
         NEW T, NEW proof \in Seq(T),
         VerifyInclusion(leaf, m, Len(leaves), proof, TreeRoot(leaves))
  PROVE  leaf = leaves[m + 1] /\ proof = AuditPath(leaves, m)
<1>. DEFINE path == AuditPath(leaves, m)
            own  == leaves[m + 1]
            N == Len(leaves)
            C == Climbs(Climber(HashLeaf(leaf), m, N - 1), proof)
            D == Climbs(Climber(HashLeaf(own), m, N - 1), path)
<1>1. path \in Seq(Hashes(leaves)) /\ VerifyInclusion(own, m, N, path, TreeRoot(leaves))
  BY AuditPathVerifies
<1>2. Len(proof) \in Nat /\ Len(path) \in Nat
  BY <1>1
<1>. HIDE DEF path, own, N
<1>3. IsRun(C, proof, Len(proof)) /\ C[0] = Climber(HashLeaf(leaf), m, N - 1) /\ C[Len(proof)].node = TreeRoot(leaves)
  BY <1>2, VerifiedIsRun DEF N
<1>4. IsRun(D, path, Len(path)) /\ D[0] = Climber(HashLeaf(own), m, N - 1) /\ D[Len(path)].node = TreeRoot(leaves)
  BY <1>1, <1>2, VerifiedIsRun
<1>. HIDE DEF C, D
<1>5. SameWay(C, D, 0) /\ C[0].node = HashLeaf(leaf) /\ D[0].node = HashLeaf(own)
  BY <1>3, <1>4 DEF SameWay, Climber
<1>6. Len(proof) = Len(path) /\ C[0].node = D[0].node /\ \A i \in 1..Len(proof) : proof[i] = path[i]
  BY <1>2, <1>3, <1>4, <1>5, RunsAgree
<1>7. leaf = own
  BY <1>5, <1>6 DEF HashLeaf
<1>8. proof = path
  BY <1>1, <1>6, SeqEqual
<1>. QED  BY <1>7, <1>8 DEF own, path

(* What the runs check of the trees they reach holds of every log of distinct *)
(* leaves.                                                                    *)
THEOREM EveryAuditPathIsExact ==
  ASSUME NEW S, NEW leaves \in Seq(S),
         \A i, j \in 1..Len(leaves) : leaves[i] = leaves[j] => i = j
  PROVE  AuditPathIsExact(leaves)
<1>. DEFINE N == Len(leaves)
            root == TreeRoot(leaves)
<1>1. ASSUME NEW m \in 0..(N - 1), NEW i \in 0..(N - 1)
      PROVE  /\ VerifyInclusion(leaves[i + 1], m, N, AuditPath(leaves, m), root) <=> i = m
             /\ VerifyInclusion(leaves[m + 1], i, N, AuditPath(leaves, m), root) <=> i = m
  <2>1. AuditPath(leaves, m) \in Seq(Hashes(leaves))
        /\ VerifyInclusion(leaves[m + 1], m, N, AuditPath(leaves, m), root)
    BY AuditPathVerifies
  <2>2. VerifyInclusion(leaves[i + 1], m, N, AuditPath(leaves, m), root) => leaves[i + 1] = leaves[m + 1]
    BY <2>1, InclusionIsUnforgeable
  <2>3. VerifyInclusion(leaves[m + 1], i, N, AuditPath(leaves, m), root) => leaves[m + 1] = leaves[i + 1]
    BY <2>1, InclusionIsUnforgeable
  <2>4. i + 1 \in 1..N /\ m + 1 \in 1..N /\ (i + 1 = m + 1 => i = m)
    OBVIOUS
  <2>5. leaves[i + 1] = leaves[m + 1] => i = m
    BY <2>4
  <2>. HIDE DEF N, root
  <2>. QED  BY <2>1, <2>2, <2>3, <2>5
<1>2. ASSUME NEW m \in 0..(N - 1), AuditPath(leaves, m) # <<>>
      PROVE  ~ VerifyInclusion(leaves[m + 1], m, N, Front(AuditPath(leaves, m)), root)
  <2>. DEFINE path == AuditPath(leaves, m)
  <2>1. path \in Seq(Hashes(leaves))
    BY AuditPathVerifies
  <2>. HIDE DEF path
  <2>2. Front(path) \in Seq(Hashes(leaves)) /\ Len(Front(path)) # Len(path)
    BY <1>2, <2>1 DEF Front, path
  <2>3. Front(path) # path
    BY <2>2
  <2>. QED  BY <2>2, <2>3, InclusionIsUnforgeable DEF path
<1>. HIDE DEF N, root
<1>3. ASSUME NEW m \in 0..(N - 1)
      PROVE  LET path == AuditPath(leaves, m)
             IN  /\ \A i \in 0..(N - 1) :
                      /\ VerifyInclusion(leaves[i + 1], m, N, path, root) <=> i = m
                      /\ VerifyInclusion(leaves[m + 1], i, N, path, root) <=> i = m
                 /\ path # <<>> => ~VerifyInclusion(leaves[m + 1], m, N, Front(path), root)
  BY <1>1, <1>2
<1>. QED  BY <1>3 DEF AuditPathIsExact, N, root
===============================================================================
