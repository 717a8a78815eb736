---------------------------- MODULE SigningProofs -----------------------------
(***************************************************************************)
(* Proofs about Wire and Signing, for any widths of the integers, any      *)
(* keys, payloads and RPCs, and strings of bytes of any length.            *)
(*                                                                         *)
(* Of the formats: Size is the length of what MarshalTo writes, for every  *)
(* value of every type, and what Unmarshal reads, of any bytes, is a value *)
(* of the type or a refusal.  Of the protocol: a node that runs accepts    *)
(* what it publishes, in whatever order its options came; what a node has  *)
(* written is what its peer reads, with the signature that its author      *)
(* gave it; and what is read of any bytes is read again as it is when it   *)
(* is written again.                                                       *)
(*                                                                         *)
(* The loops of Wire are recursive functions.  That such a function is     *)
(* what its equation says is proved once for each form of a loop, with the *)
(* recursion theorem; and induction over numbers is the well-foundedness   *)
(* of < applied to the set of numbers with the property.                   *)
(*                                                                         *)
(* What is proved of the types is proved of any type that is written field *)
(* by field (Laid); that each of the eleven is written so is a lemma about *)
(* its own MarshalTo and Size.                                             *)
(***************************************************************************)
EXTENDS Signing, WellFoundedInduction, SequenceTheorems, TLAPS

(***************************************************************************)
(* Recursion and induction.                                                *)
(***************************************************************************)
Below == {p \in Nat \X Nat : p[1] < p[2]}

\* A set that holds 0 and the successor of each of its numbers holds them all.
LEMMA SetInduction ==
  ASSUME NEW S, 0 \in S, \A n \in Nat : n \in S => n + 1 \in S
  PROVE  \A n \in Nat : n \in S
<1> SUFFICES ASSUME Nat \ S # {} PROVE FALSE
  OBVIOUS
<1>0. IsWellFoundedOn(Below, Nat)
  BY NatLessThanWellFounded DEF OpToRel, Below
<1>1. PICK n \in Nat \ S : \A m \in Nat \ S : ~ (<<m, n>> \in Below)
  <2>1. Nat \ S \subseteq Nat
    OBVIOUS
  <2> QED
    BY <1>0, <2>1, WFMin, Zenon
<1>2. n # 0 /\ n - 1 \in Nat
  OBVIOUS
<1>3. n - 1 \in Nat \ S
  BY <1>2
<1>4. <<n - 1, n>> \in Below
  BY <1>2 DEF Below
<1> QED
  BY <1>1, <1>3, <1>4

\* H defines a function of D from its values at arguments of lower rank.
Recursion(D, R, rank, H) ==
  /\ R # {} /\ rank \in [D -> Nat] /\ H \in [D \X [D -> R] -> R]
  /\ \A x \in D : \A g, h \in [D -> R] :
       (\A y \in D : rank[y] < rank[x] => g[y] = h[y]) => H[<<x, g>>] = H[<<x, h>>]

Recursive(D, R, H) == \E f \in [D -> R] : \A x \in D : f[x] = H[<<x, f>>]

\* There is such a function.
LEMMA RecursionExists ==
  ASSUME NEW D, NEW R, NEW rank, NEW H, Recursion(D, R, rank, H)
  PROVE  Recursive(D, R, H)
<1> USE DEF Recursion
<1> DEFINE Upto(n, g) == \A x \in D : rank[x] < n => g[x] = H[<<x, g>>]
           S == {n \in Nat : \E g \in [D -> R] : Upto(n, g)}
           U == {n \in Nat : \A g, h \in [D -> R] : Upto(n, g) /\ Upto(n, h) =>
                                \A x \in D : rank[x] < n => g[x] = h[x]}
<1>1. \A n \in Nat : n \in S
  <2>1. 0 \in S
    <3>1. PICK r0 : r0 \in R
      OBVIOUS
    <3>2. [x \in D |-> r0] \in [D -> R] /\ Upto(0, [x \in D |-> r0])
      BY <3>1
    <3> QED
      BY <3>2
  <2>2. ASSUME NEW n \in Nat, n \in S PROVE n + 1 \in S
    <3>1. PICK g \in [D -> R] : Upto(n, g)
      BY <2>2
    <3> DEFINE h == [x \in D |-> H[<<x, g>>]]
    <3>2. h \in [D -> R]
      OBVIOUS
    <3>3. ASSUME NEW x \in D, rank[x] < n + 1 PROVE h[x] = H[<<x, h>>]
      <4>1. \A y \in D : rank[y] < rank[x] => g[y] = h[y]
        BY <3>1, <3>3
      <4>2. H[<<x, g>>] = H[<<x, h>>]
        BY <3>2, <4>1
      <4> QED
        BY <4>2
    <3>4. Upto(n + 1, h)
      BY <3>3
    <3> HIDE DEF Upto, h
    <3> QED
      BY <3>2, <3>4
  <2> HIDE DEF S
  <2> QED
    BY <2>1, <2>2, SetInduction
<1>2. \A n \in Nat : n \in U
  <2>1. 0 \in U
    OBVIOUS
  <2>2. ASSUME NEW n \in Nat, n \in U PROVE n + 1 \in U
    <3>1. ASSUME NEW g \in [D -> R], NEW h \in [D -> R], Upto(n + 1, g), Upto(n + 1, h),
                 NEW x \in D, rank[x] < n + 1
          PROVE  g[x] = h[x]
      <4>1. Upto(n, g) /\ Upto(n, h)
        BY <3>1
      <4>2. \A y \in D : rank[y] < n => g[y] = h[y]
        BY <2>2, <4>1
      <4>3. \A y \in D : rank[y] < rank[x] => g[y] = h[y]
        BY <3>1, <4>2
      <4>4. H[<<x, g>>] = H[<<x, h>>]
        BY <4>3
      <4> QED
        BY <3>1, <4>4
    <3> HIDE DEF Upto
    <3> QED
      BY <3>1
  <2> HIDE DEF U
  <2> QED
    BY <2>1, <2>2, SetInduction
<1>3. ASSUME NEW n \in Nat, NEW g \in [D -> R], NEW h \in [D -> R], Upto(n, g), Upto(n, h),
             NEW x \in D, rank[x] < n
      PROVE  g[x] = h[x]
  <2>1. n \in U
    BY <1>2
  <2> HIDE DEF Upto
  <2> QED
    BY <1>3, <2>1
<1> HIDE DEF U
<1> DEFINE G(n) == CHOOSE g \in [D -> R] : Upto(n, g)
           f == [x \in D |-> G(rank[x] + 1)[x]]
<1>4. \A n \in Nat : G(n) \in [D -> R] /\ Upto(n, G(n))
  <2> SUFFICES ASSUME NEW n \in Nat PROVE G(n) \in [D -> R] /\ Upto(n, G(n))
    OBVIOUS
  <2>1. \E g \in [D -> R] : Upto(n, g)
    BY <1>1
  <2> HIDE DEF Upto
  <2> QED
    BY <2>1
<1> HIDE DEF G
<1>5. f \in [D -> R]
  BY <1>4
<1>6. ASSUME NEW x \in D PROVE f[x] = H[<<x, f>>]
  <2> DEFINE g == G(rank[x] + 1)
  <2>0. \A y \in D : rank[y] + 1 \in Nat
    OBVIOUS
  <2>1. g \in [D -> R] /\ Upto(rank[x] + 1, g)
    BY <1>4, <2>0
  <2> HIDE DEF g
  <2>2. ASSUME NEW y \in D, rank[y] < rank[x] PROVE g[y] = f[y]
    <3>1. G(rank[y] + 1) \in [D -> R] /\ Upto(rank[y] + 1, G(rank[y] + 1))
      BY <1>4, <2>0
    <3>2. Upto(rank[y] + 1, g)
      BY <2>1, <2>2
    <3>3. rank[y] < rank[y] + 1
      BY <2>0
    <3> HIDE DEF Upto
    <3>4. g[y] = G(rank[y] + 1)[y]
      BY <1>3, <2>0, <2>1, <3>1, <3>2, <3>3
    <3> QED
      BY <3>4
  <2>3. H[<<x, g>>] = H[<<x, f>>]
    BY <1>5, <2>1, <2>2
  <2>4. g[x] = H[<<x, g>>]
    BY <2>1
  <2>5. f[x] = g[x]
    BY DEF g
  <2> QED
    BY <2>3, <2>4, <2>5
<1> QED
  BY <1>5, <1>6 DEF Recursive

\* Induction over the rank.
LEMMA RankInduction ==
  ASSUME NEW D, NEW rank \in [D -> Nat], NEW P,
         \A x \in D : (\A y \in D : rank[y] < rank[x] => y \in P) => x \in P
  PROVE  \A x \in D : x \in P
<1> DEFINE S == {n \in Nat : \A x \in D : rank[x] < n => x \in P}
<1>1. 0 \in S
  OBVIOUS
<1>2. ASSUME NEW n \in Nat, n \in S PROVE n + 1 \in S
  <2>1. ASSUME NEW x \in D, rank[x] < n + 1 PROVE x \in P
    <3>1. \A y \in D : rank[y] < rank[x] => y \in P
      BY <1>2, <2>1
    <3> QED
      BY <3>1
  <2> QED
    BY <2>1
<1> HIDE DEF S
<1>3. \A n \in Nat : n \in S
  BY <1>1, <1>2, SetInduction
<1>4. \A x \in D : rank[x] + 1 \in S
  BY <1>3
<1> QED
  BY <1>4 DEF S

\* What a loop has after n rounds, when a round takes r to F[r].
Looping(R, r0, F) == r0 \in R /\ F \in [R -> R]
ByLoop(R, r0, F) == \E f \in [Nat -> R] : \A n \in Nat : f[n] = IF n = 0 THEN r0 ELSE F[f[n - 1]]

\* There is a function that goes from step to step,
LEMMA LoopExists ==
  ASSUME NEW R, NEW r0, NEW F, Looping(R, r0, F)
  PROVE  ByLoop(R, r0, F)
<1> USE DEF Looping
<1> DEFINE rank == [n \in Nat |-> n]
           H == [p \in Nat \X [Nat -> R] |-> IF p[1] = 0 THEN r0 ELSE F[p[2][p[1] - 1]]]
<1>1. rank \in [Nat -> Nat] /\ H \in [Nat \X [Nat -> R] -> R] /\ R # {}
  OBVIOUS
<1>2. \A n \in Nat : \A g, h \in [Nat -> R] :
        (\A y \in Nat : rank[y] < rank[n] => g[y] = h[y]) => H[<<n, g>>] = H[<<n, h>>]
  OBVIOUS
<1>3. \A n \in Nat, g \in [Nat -> R] : H[<<n, g>>] = IF n = 0 THEN r0 ELSE F[g[n - 1]]
  OBVIOUS
<1> HIDE DEF rank, H
<1>4. Recursion(Nat, R, rank, H)
  BY <1>1, <1>2, Zenon DEF Recursion
<1>5. Recursive(Nat, R, H)
  BY <1>4, RecursionExists, Zenon
<1>6. PICK f \in [Nat -> R] : \A n \in Nat : f[n] = H[<<n, f>>]
  BY <1>5, Zenon DEF Recursive
<1>7. \A n \in Nat : f[n] = IF n = 0 THEN r0 ELSE F[f[n - 1]]
  BY <1>3, <1>6
<1> QED
  BY <1>7, Zenon DEF ByLoop

\* What holds at the start of a loop and is kept by its rounds holds after each.
LEMMA LoopInduction ==
  ASSUME NEW f, NEW R, f[0] \in R, \A n \in Nat : n # 0 /\ f[n - 1] \in R => f[n] \in R
  PROVE  \A n \in Nat : f[n] \in R
<1> DEFINE S == {n \in Nat : f[n] \in R}
<1>1. 0 \in S
  OBVIOUS
<1>2. ASSUME NEW n \in Nat, n \in S PROVE n + 1 \in S
  <2>1. n + 1 \in Nat /\ n + 1 # 0 /\ f[n + 1 - 1] \in R
    BY <1>2
  <2> QED
    BY <2>1
<1> HIDE DEF S
<1>3. \A n \in Nat : n \in S
  BY <1>1, <1>2, SetInduction
<1> QED
  BY <1>3 DEF S

LEMMA Pow2 ==
  /\ pow2[0] = 1
  /\ \A n \in Nat : pow2[n] \in Nat \ {0} /\ pow2[n + 1] = 2 * pow2[n]
<1> DEFINE R == Nat \ {0}
           F == [r \in R |-> 2 * r]
<1>1. PICK f \in [Nat -> R] : \A n \in Nat : f[n] = IF n = 0 THEN 1 ELSE F[f[n - 1]]
  <2>1. Looping(R, 1, F)
    BY DEF Looping
  <2> HIDE DEF F, R
  <2>2. ByLoop(R, 1, F)
    BY <2>1, LoopExists, Zenon
  <2> QED
    BY <2>2, Zenon DEF ByLoop
<1>2. f = [n \in Nat |-> IF n = 0 THEN 1 ELSE 2 * f[n - 1]]
  <2>1. ASSUME NEW n \in Nat PROVE f[n] = IF n = 0 THEN 1 ELSE 2 * f[n - 1]
    <3>1. n # 0 => f[n - 1] \in R
      BY <1>1
    <3> QED
      BY <1>1, <3>1
  <2> QED
    BY <1>1, <2>1
<1>3. pow2 = [n \in Nat |-> IF n = 0 THEN 1 ELSE 2 * pow2[n - 1]]
  BY <1>2 DEF pow2
<1>4. pow2[0] = 1 /\ \A n \in Nat : pow2[n + 1] = 2 * pow2[n]
  BY <1>3
<1>5. pow2[0] \in R /\ \A n \in Nat : n # 0 /\ pow2[n - 1] \in R => pow2[n] \in R
  BY <1>3
<1> HIDE DEF R
<1>6. \A n \in Nat : pow2[n] \in R
  BY <1>5, LoopInduction
<1> QED
  BY <1>4, <1>6 DEF R

\* A loop that shifts seven bits out of x in every round ends.
LEMMA Shift ==
  ASSUME NEW x \in Nat
  PROVE  /\ x \div 128 \in Nat /\ x % 128 \in 0 .. 127 /\ x = (x % 128) + 128 * (x \div 128)
         /\ x >= 128 => x \div 128 < x /\ x \div 128 # 0
         /\ x < 128 => x \div 128 = 0 /\ x % 128 = x
OBVIOUS

Shifting(R, B, F) == R # {} /\ B \in [Nat -> R] /\ F \in [Nat \X R -> R]
ByShifts(R, B, F) ==
  \E f \in [Nat -> R] : \A x \in Nat : f[x] = IF x < 128 THEN B[x] ELSE F[<<x, f[x \div 128]>>]

\* one that sheds seven bits at a time,
LEMMA ShiftExists ==
  ASSUME NEW R, NEW B, NEW F, Shifting(R, B, F)
  PROVE  ByShifts(R, B, F)
<1> USE DEF Shifting
<1> DEFINE rank == [n \in Nat |-> n]
           H == [p \in Nat \X [Nat -> R] |->
                   IF p[1] < 128 THEN B[p[1]] ELSE F[<<p[1], p[2][p[1] \div 128]>>]]
<1>1. rank \in [Nat -> Nat] /\ R # {}
  OBVIOUS
<1>2. H \in [Nat \X [Nat -> R] -> R]
  <2>1. ASSUME NEW x \in Nat, NEW g \in [Nat -> R]
        PROVE  (IF x < 128 THEN B[x] ELSE F[<<x, g[x \div 128]>>]) \in R
    BY Shift
  <2> QED
    BY <2>1
<1>3. \A x \in Nat : \A g \in [Nat -> R] :
        H[<<x, g>>] = IF x < 128 THEN B[x] ELSE F[<<x, g[x \div 128]>>]
  OBVIOUS
<1>r. \A n \in Nat : rank[n] = n
  OBVIOUS
<1> HIDE DEF rank, H
<1>4. ASSUME NEW x \in Nat, NEW g \in [Nat -> R], NEW h \in [Nat -> R],
             \A y \in Nat : rank[y] < rank[x] => g[y] = h[y]
      PROVE  H[<<x, g>>] = H[<<x, h>>]
  <2>1. H[<<x, g>>] = IF x < 128 THEN B[x] ELSE F[<<x, g[x \div 128]>>]
    BY <1>3, Zenon
  <2>2. H[<<x, h>>] = IF x < 128 THEN B[x] ELSE F[<<x, h[x \div 128]>>]
    BY <1>3, Zenon
  <2>3. x < 128 \/ g[x \div 128] = h[x \div 128]
    BY <1>4, <1>r, Shift
  <2> QED
    BY <2>1, <2>2, <2>3, Zenon
<1>5. Recursive(Nat, R, H)
  <2>1. Recursion(Nat, R, rank, H)
    BY <1>1, <1>2, <1>4, Zenon DEF Recursion
  <2> QED
    BY <2>1, RecursionExists, Zenon
<1>6. PICK f \in [Nat -> R] : \A x \in Nat : f[x] = H[<<x, f>>]
  BY <1>5, Zenon DEF Recursive
<1>7. ASSUME NEW x \in Nat
      PROVE  f[x] = IF x < 128 THEN B[x] ELSE F[<<x, f[x \div 128]>>]
  <2>1. H[<<x, f>>] = IF x < 128 THEN B[x] ELSE F[<<x, f[x \div 128]>>]
    BY <1>3, Zenon
  <2>2. f[x] = H[<<x, f>>]
    BY <1>6, Zenon
  <2> QED
    BY <2>1, <2>2, Zenon
<1> QED
  BY <1>7, Zenon DEF ByShifts

LEMMA ShiftInduction ==
  ASSUME NEW P, \A x \in 0 .. 127 : x \in P,
         \A x \in Nat : x >= 128 /\ x \div 128 \in P => x \in P
  PROVE  \A x \in Nat : x \in P
<1> DEFINE rank == [n \in Nat |-> n]
<1>1. rank \in [Nat -> Nat]
  OBVIOUS
<1>2. ASSUME NEW x \in Nat, \A y \in Nat : rank[y] < rank[x] => y \in P PROVE x \in P
  <2>1. CASE x < 128
    BY <2>1
  <2>2. CASE x >= 128
    <3>1. x \div 128 \in P
      BY <1>2, <2>2, Shift
    <3> QED
      BY <2>2, <3>1
  <2> QED
    BY <2>1, <2>2
<1> HIDE DEF rank
<1> QED
  BY <1>1, <1>2, RankInduction

\* The size of a varint.
LEMMA Sov ==
  /\ \A x \in Nat : sov[x] \in Nat \ {0}
  /\ \A x \in 0 .. 127 : sov[x] = 1
  /\ \A x \in Nat : x >= 128 => sov[x] = 1 + sov[x \div 128]
<1> DEFINE R == Nat \ {0}
           B == [x \in Nat |-> 1]
           F == [p \in Nat \X R |-> 1 + p[2]]
<1>1. Shifting(R, B, F)
  BY DEF Shifting
<1>b. (\A x \in Nat : B[x] = 1) /\ \A x \in Nat, r \in R : F[<<x, r>>] = 1 + r
  OBVIOUS
<1>2. PICK f \in [Nat -> R] : \A x \in Nat :
        f[x] = IF x < 128 THEN B[x] ELSE F[<<x, f[x \div 128]>>]
  <2> HIDE DEF R, B, F
  <2>1. ByShifts(R, B, F)
    BY <1>1, ShiftExists, Zenon
  <2> QED
    BY <2>1, Zenon DEF ByShifts
<1> HIDE DEF B, F
<1>3. ASSUME NEW x \in Nat PROVE f[x] = IF x \div 128 = 0 THEN 1 ELSE 1 + f[x \div 128]
  <2>1. x \div 128 \in Nat /\ (x < 128 <=> x \div 128 = 0)
    BY Shift
  <2>2. f[x \div 128] \in R
    BY <2>1
  <2>3. f[x] = IF x < 128 THEN B[x] ELSE F[<<x, f[x \div 128]>>]
    BY <1>2, Zenon
  <2>4. B[x] = 1 /\ F[<<x, f[x \div 128]>>] = 1 + f[x \div 128]
    <3>1. B[x] = 1
      BY <1>b, Zenon
    <3>2. F[<<x, f[x \div 128]>>] = 1 + f[x \div 128]
      BY <1>b, <2>2, Zenon
    <3> QED
      BY <3>1, <3>2, Zenon
  <2> QED
    BY <2>1, <2>3, <2>4, Zenon
<1>4. f = [x \in Nat |-> IF x \div 128 = 0 THEN 1 ELSE 1 + f[x \div 128]]
  BY <1>3
<1>5. sov = [x \in Nat |-> IF x \div 128 = 0 THEN 1 ELSE 1 + sov[x \div 128]]
  BY <1>4, Zenon DEF sov
<1>6. ASSUME NEW x \in 0 .. 127 PROVE sov[x] = 1
  <2>1. x \in Nat /\ x \div 128 = 0
    BY Shift
  <2> QED
    BY <1>5, <2>1, Zenon
<1>7. ASSUME NEW x \in Nat, x >= 128 PROVE sov[x] = 1 + sov[x \div 128]
  <2>1. x \div 128 # 0
    BY <1>7, Shift
  <2> QED
    BY <1>5, <2>1, Zenon
<1> DEFINE P == {x \in Nat : sov[x] \in R}
<1>8. ASSUME NEW x \in 0 .. 127 PROVE x \in P
  BY <1>6
<1>9. ASSUME NEW x \in Nat, x >= 128, x \div 128 \in P PROVE x \in P
  BY <1>7, <1>9
<1> HIDE DEF P
<1>10. \A x \in Nat : x \in P
  BY <1>8, <1>9, ShiftInduction, Zenon
<1> QED
  BY <1>6, <1>7, <1>10, Zenon DEF P, R

\* The bytes of a varint: as many as its size.
LEMMA Varints ==
  /\ \A v \in Nat : varint[v] \in Seq(Byte) /\ Len(varint[v]) = sov[v]
  /\ \A v \in 0 .. 127 : varint[v] = <<v>>
  /\ \A v \in Nat : v >= 128 => varint[v] = <<128 + (v % 128)>> \o varint[v \div 128]
<1> DEFINE R == Seq(Byte)
           B == [v \in Nat |-> <<v % 128>>]
           F == [p \in Nat \X R |-> <<128 + (p[1] % 128)>> \o p[2]]
<1>1. Shifting(R, B, F)
  <2>1. \A v \in Nat : v % 128 \in Byte /\ 128 + (v % 128) \in Byte
    BY Shift DEF Byte
  <2> HIDE DEF R
  <2>2. R # {} /\ \A b \in Byte : <<b>> \in R
    <3>1. <<>> \in Seq(Byte)
      OBVIOUS
    <3>2. \A b \in Byte : <<b>> \in Seq(Byte)
      OBVIOUS
    <3> QED
      BY <3>1, <3>2, Zenon DEF R
  <2>3. \A b \in Byte, s \in R : <<b>> \o s \in R
    BY DEF R
  <2>4. B \in [Nat -> R]
    BY <2>1, <2>2, Zenon
  <2>5. F \in [Nat \X R -> R]
    BY <2>1, <2>3
  <2> QED
    BY <2>2, <2>4, <2>5, Zenon DEF Shifting
<1>b. /\ \A v \in Nat : B[v] = <<v % 128>>
      /\ \A v \in Nat, r \in R : F[<<v, r>>] = <<128 + (v % 128)>> \o r
  OBVIOUS
<1>2. PICK f \in [Nat -> R] : \A v \in Nat :
        f[v] = IF v < 128 THEN B[v] ELSE F[<<v, f[v \div 128]>>]
  <2> HIDE DEF R, B, F
  <2>1. ByShifts(R, B, F)
    BY <1>1, ShiftExists, Zenon
  <2> QED
    BY <2>1, Zenon DEF ByShifts
<1> HIDE DEF B, F
<1>3. ASSUME NEW v \in Nat
      PROVE  f[v] = IF v >= 128 THEN <<128 + (v % 128)>> \o f[v \div 128] ELSE <<v>>
  <2> HIDE DEF R
  <2>1. v \div 128 \in Nat /\ (v < 128 => v % 128 = v) /\ (v >= 128 <=> ~ (v < 128))
    BY Shift
  <2>2. f[v \div 128] \in R
    BY <1>2, <2>1, Zenon
  <2>3. f[v] = IF v < 128 THEN B[v] ELSE F[<<v, f[v \div 128]>>]
    BY <1>2, Zenon
  <2>4. B[v] = <<v % 128>> /\ F[<<v, f[v \div 128]>>] = <<128 + (v % 128)>> \o f[v \div 128]
    <3>1. B[v] = <<v % 128>>
      BY <1>b, Zenon
    <3>2. F[<<v, f[v \div 128]>>] = <<128 + (v % 128)>> \o f[v \div 128]
      BY <1>b, <2>2, Zenon
    <3> QED
      BY <3>1, <3>2, Zenon
  <2>5. CASE v < 128
    BY <2>1, <2>3, <2>4, <2>5, Zenon
  <2>6. CASE ~ (v < 128)
    BY <2>1, <2>3, <2>4, <2>6, Zenon
  <2> QED
    BY <2>5, <2>6, Zenon
<1>4. f = [v \in Nat |-> IF v >= 128 THEN <<128 + (v % 128)>> \o f[v \div 128] ELSE <<v>>]
  BY <1>3, Zenon
<1>5. varint = [v \in Nat |-> IF v >= 128 THEN <<128 + (v % 128)>> \o varint[v \div 128] ELSE <<v>>]
  BY <1>4, Zenon DEF varint
<1>6. ASSUME NEW v \in 0 .. 127 PROVE varint[v] = <<v>>
  <2>1. v \in Nat /\ ~ (v >= 128)
    OBVIOUS
  <2> QED
    BY <1>5, <2>1, Zenon
<1>7. ASSUME NEW v \in Nat, v >= 128 PROVE varint[v] = <<128 + (v % 128)>> \o varint[v \div 128]
  BY <1>5, <1>7, Zenon
<1> DEFINE P == {v \in Nat : varint[v] \in Seq(Byte) /\ Len(varint[v]) = sov[v]}
<1>8. ASSUME NEW v \in 0 .. 127 PROVE v \in P
  <2>1. v \in Nat /\ v \in Byte
    BY DEF Byte
  <2>2. <<v>> \in Seq(Byte) /\ Len(<<v>>) = 1
    BY <2>1
  <2>3. sov[v] = 1 /\ varint[v] = <<v>>
    BY <1>6, Sov, Zenon
  <2> QED
    BY <2>1, <2>2, <2>3, Zenon
<1>9. ASSUME NEW v \in Nat, v >= 128, v \div 128 \in P PROVE v \in P
  <2>1. 128 + (v % 128) \in Byte
    BY Shift DEF Byte
  <2>2. <<128 + (v % 128)>> \in Seq(Byte) /\ Len(<<128 + (v % 128)>>) = 1
    BY <2>1
  <2>3. varint[v \div 128] \in Seq(Byte) /\ Len(varint[v \div 128]) = sov[v \div 128]
    BY <1>9, Zenon
  <2>4. varint[v] = <<128 + (v % 128)>> \o varint[v \div 128] /\ sov[v] = 1 + sov[v \div 128]
    BY <1>7, <1>9, Sov, Zenon
  <2> DEFINE b == <<128 + (v % 128)>>
             s == varint[v \div 128]
  <2>5. varint[v] \in Seq(Byte) /\ Len(varint[v]) = Len(b) + Len(s)
    <3>1. b \in Seq(Byte) /\ s \in Seq(Byte) /\ varint[v] = b \o s
      BY <2>2, <2>3, <2>4, Zenon
    <3> HIDE DEF b, s
    <3>2. b \o s \in Seq(Byte) /\ Len(b \o s) = Len(b) + Len(s)
      BY <3>1, ConcatProperties
    <3> QED
      BY <3>1, <3>2, Zenon
  <2>6. Len(varint[v]) = sov[v]
    BY <2>2, <2>3, <2>4, <2>5, Zenon
  <2> QED
    BY <2>5, <2>6, Zenon
<1> HIDE DEF P
<1>10. \A v \in Nat : v \in P
  BY <1>8, <1>9, ShiftInduction, Zenon
<1> QED
  BY <1>6, <1>7, <1>10, Zenon DEF P

(***************************************************************************)
(* Recursion over an interval.                                             *)
(***************************************************************************)
\* A function on an interval, each value of which is made from the one before.
Chained(a, b, R, r0, F) ==
  a \in Nat /\ b \in Nat /\ a <= b /\ r0 \in R /\ F \in [(a + 1 .. b) \X R -> R]
ByChain(a, b, R, r0, F) ==
  \E f \in [a .. b -> R] : f[a] = r0 /\ \A n \in a + 1 .. b : f[n] = F[<<n, f[n - 1]>>]

\* There is a function that goes from step to step within an interval.
LEMMA ChainExists ==
  ASSUME NEW a, NEW b, NEW R, NEW r0, NEW F, Chained(a, b, R, r0, F)
  PROVE  ByChain(a, b, R, r0, F)
<1> USE DEF Chained
<1> DEFINE D == a .. b
           rank == [n \in D |-> n]
           H == [p \in D \X [D -> R] |-> IF p[1] = a THEN r0 ELSE F[<<p[1], p[2][p[1] - 1]>>]]
<1>1. rank \in [D -> Nat] /\ R # {}
  OBVIOUS
<1>2. H \in [D \X [D -> R] -> R]
  <2>1. ASSUME NEW n \in D, NEW g \in [D -> R]
        PROVE  (IF n = a THEN r0 ELSE F[<<n, g[n - 1]>>]) \in R
    <3>1. n # a => n - 1 \in D /\ n \in a + 1 .. b
      OBVIOUS
    <3> HIDE DEF D
    <3> QED
      BY <3>1
  <2> QED
    BY <2>1
<1>3. /\ \A n \in D : \A g \in [D -> R] : H[<<n, g>>] = IF n = a THEN r0 ELSE F[<<n, g[n - 1]>>]
      /\ \A n \in D : rank[n] = n
  OBVIOUS
<1> HIDE DEF rank, H
<1>4. ASSUME NEW n \in D, NEW g \in [D -> R], NEW h \in [D -> R],
             \A y \in D : rank[y] < rank[n] => g[y] = h[y]
      PROVE  H[<<n, g>>] = H[<<n, h>>]
  <2>1. H[<<n, g>>] = IF n = a THEN r0 ELSE F[<<n, g[n - 1]>>]
    BY <1>3, Zenon
  <2>2. H[<<n, h>>] = IF n = a THEN r0 ELSE F[<<n, h[n - 1]>>]
    BY <1>3, Zenon
  <2>3. n = a \/ g[n - 1] = h[n - 1]
    <3>1. n # a => n - 1 \in D /\ n - 1 < n
      OBVIOUS
    <3> HIDE DEF D
    <3> QED
      BY <1>4, <1>3, <3>1
  <2> QED
    BY <2>1, <2>2, <2>3, Zenon
<1>5. Recursive(D, R, H)
  <2>1. Recursion(D, R, rank, H)
    BY <1>1, <1>2, <1>4, Zenon DEF Recursion
  <2> HIDE DEF D
  <2> QED
    BY <2>1, RecursionExists, Zenon
<1>6. PICK f \in [D -> R] : \A n \in D : f[n] = H[<<n, f>>]
  BY <1>5, Zenon DEF Recursive
<1>7. f[a] = r0
  <2>1. a \in D
    OBVIOUS
  <2> QED
    BY <1>3, <1>6, <2>1, Zenon
<1>8. ASSUME NEW n \in a + 1 .. b PROVE f[n] = F[<<n, f[n - 1]>>]
  <2>1. n \in D /\ n # a
    OBVIOUS
  <2> QED
    BY <1>3, <1>6, <2>1, Zenon
<1> QED
  BY <1>7, <1>8, Zenon DEF ByChain

LEMMA ChainInduction ==
  ASSUME NEW a \in Nat, NEW b \in Nat, NEW P, a \in P, \A n \in a + 1 .. b : n - 1 \in P => n \in P
  PROVE  \A n \in a .. b : n \in P
<1> DEFINE S == {n \in Nat : n \in a .. b => n \in P}
<1>1. 0 \in S
  OBVIOUS
<1>3. ASSUME NEW n \in Nat, n \in S PROVE n + 1 \in S
  <2>1. n + 1 \in a + 1 .. b => n + 1 - 1 \in P
    BY <1>3
  <2>2. n + 1 \in a + 1 .. b => n + 1 \in P
    BY <2>1
  <2> QED
    BY <2>2
<1> HIDE DEF S
<1>2. \A n \in Nat : n \in S
  BY <1>1, <1>3, SetInduction
<1> QED
  BY <1>2 DEF S

(***************************************************************************)
(* Sums of sizes.                                                          *)
(***************************************************************************)
LEMMA PartSizeType == \A l \in Nat : PartSize(l) \in Nat /\ PartSize(l) = 1 + l + sov[l]
<1> SUFFICES ASSUME NEW l \in Nat PROVE PartSize(l) \in Nat /\ PartSize(l) = 1 + l + sov[l]
  OBVIOUS
<1>1. sov[l] \in Nat
  BY Sov, Zenon
<1> QED
  BY <1>1 DEF PartSize, sovRpc

\* The sum of the sizes of parts, part by part.
LEMMA PartSizesSum ==
  ASSUME NEW lens \in Seq(Nat)
  PROVE  \E u \in [0 .. Len(lens) -> Nat] :
           /\ u[0] = 0 /\ \A n \in 1 .. Len(lens) : u[n] = u[n - 1] + PartSize(lens[n])
           /\ PartSizes(lens) = u[Len(lens)]
<1> DEFINE N == Len(lens)
           F == [p \in (0 + 1 .. N) \X Nat |-> p[2] + PartSize(lens[p[1]])]
<1>1. N \in Nat /\ \A n \in 1 .. N : PartSize(lens[n]) \in Nat
  <2>1. N \in Nat /\ \A n \in 1 .. N : lens[n] \in Nat
    OBVIOUS
  <2> QED
    BY <2>1, PartSizeType, Zenon
<1>2. \A n \in 1 .. N, r \in Nat : F[<<n, r>>] = r + PartSize(lens[n])
  OBVIOUS
<1>3. Chained(0, N, Nat, 0, F)
  BY <1>1 DEF Chained
<1> HIDE DEF N, F
<1>4. PICK f \in [0 .. N -> Nat] : f[0] = 0 /\ \A n \in 0 + 1 .. N : f[n] = F[<<n, f[n - 1]>>]
  <2>1. ByChain(0, N, Nat, 0, F)
    BY <1>3, ChainExists, Zenon
  <2> QED
    BY <2>1, Zenon DEF ByChain
<1>5. ASSUME NEW n \in 0 .. N PROVE f[n] = IF n = 0 THEN 0 ELSE f[n - 1] + PartSize(lens[n])
  <2>1. CASE n = 0
    BY <1>4, <2>1
  <2>2. CASE n # 0
    <3>1. n \in 1 .. N /\ n \in 0 + 1 .. N /\ n - 1 \in 0 .. N
      BY <1>1, <2>2
    <3>2. f[n] = F[<<n, f[n - 1]>>] /\ f[n - 1] \in Nat
      BY <1>4, <3>1, Zenon
    <3> QED
      BY <1>2, <2>2, <3>1, <3>2, Zenon
  <2> QED
    BY <2>1, <2>2, Zenon
<1>6. f = [n \in 0 .. N |-> IF n = 0 THEN 0 ELSE f[n - 1] + PartSize(lens[n])]
  BY <1>5, Zenon
<1>7. PICK u : /\ u = [n \in 0 .. N |-> IF n = 0 THEN 0 ELSE u[n - 1] + PartSize(lens[n])]
               /\ PartSizes(lens) = u[N]
  BY <1>6, Zenon DEF PartSizes, N
<1>8. u[0] = 0 /\ \A n \in 1 .. N : u[n] = u[n - 1] + PartSize(lens[n])
  <2>1. 0 \in 0 .. N
    BY <1>1
  <2>2. \A n \in 1 .. N : n \in 0 .. N /\ n # 0
    BY <1>1
  <2> QED
    BY <1>7, <2>1, <2>2, Zenon
<1>9. \A n \in 0 .. N : n \in {i \in 0 .. N : u[i] \in Nat}
  <2> DEFINE P == {i \in 0 .. N : u[i] \in Nat}
  <2>1. 0 \in P
    BY <1>1, <1>8
  <2>2. ASSUME NEW n \in 0 + 1 .. N, n - 1 \in P PROVE n \in P
    <3>1. n \in 1 .. N /\ n \in 0 .. N
      BY <1>1
    <3>2. PartSize(lens[n]) \in Nat /\ u[n] = u[n - 1] + PartSize(lens[n])
      BY <1>1, <1>8, <3>1, Zenon
    <3>3. u[n - 1] \in Nat
      BY <2>2, Zenon
    <3> QED
      BY <3>1, <3>2, <3>3
  <2> HIDE DEF P
  <2>3. \A n \in 0 .. N : n \in P
    BY <1>1, <2>1, <2>2, ChainInduction
  <2> QED
    BY <2>3 DEF P
<1>10. u \in [0 .. N -> Nat]
  BY <1>7, <1>9
<1> QED
  BY <1>7, <1>8, <1>10, Zenon DEF N

\* Sequences end to end, one after the other.
LEMMA FlattenSeqConcat ==
  ASSUME NEW S, NEW parts \in Seq(Seq(S)), parts # <<>>
  PROVE  \E u \in [1 .. Len(parts) -> Seq(S)] :
           /\ u[1] = parts[1] /\ \A n \in 2 .. Len(parts) : u[n] = u[n - 1] \o parts[n]
           /\ FlattenSeq(parts) = u[Len(parts)]
<1> DEFINE N == Len(parts)
           R == Seq(S)
           F == [p \in (1 + 1 .. N) \X R |-> p[2] \o parts[p[1]]]
<1>1. N \in Nat /\ N >= 1 /\ \A n \in 1 .. N : parts[n] \in R
  OBVIOUS
<1>2. ASSUME NEW n \in 2 .. N, NEW r \in R PROVE F[<<n, r>>] = r \o parts[n]
  <2>1. n \in 1 + 1 .. N
    OBVIOUS
  <2> HIDE DEF R, N
  <2> QED
    BY <2>1
<1>c. \A r, t \in R : r \o t \in R
  BY ConcatProperties
<1>3. Chained(1, N, R, parts[1], F)
  <2> HIDE DEF N, R
  <2>1. parts[1] \in R
    BY <1>1
  <2>2. F \in [(1 + 1 .. N) \X R -> R]
    BY <1>1, <1>c
  <2> HIDE DEF F
  <2> QED
    BY <1>1, <2>1, <2>2 DEF Chained
<1> HIDE DEF N, F, R
<1>4. PICK f \in [1 .. N -> R] : f[1] = parts[1] /\ \A n \in 1 + 1 .. N : f[n] = F[<<n, f[n - 1]>>]
  <2>1. ByChain(1, N, R, parts[1], F)
    BY <1>3, ChainExists, Zenon
  <2> QED
    BY <2>1, Zenon DEF ByChain
<1>5. ASSUME NEW n \in 1 .. N PROVE f[n] = IF n = 1 THEN parts[n] ELSE f[n - 1] \o parts[n]
  <2>1. CASE n = 1
    BY <1>4, <2>1
  <2>2. CASE n # 1
    <3>1. n \in 2 .. N /\ n \in 1 + 1 .. N /\ n - 1 \in 1 .. N
      BY <1>1, <2>2
    <3>2. f[n] = F[<<n, f[n - 1]>>] /\ f[n - 1] \in R
      BY <1>4, <3>1, Zenon
    <3> QED
      BY <1>2, <2>2, <3>1, <3>2, Zenon
  <2> QED
    BY <2>1, <2>2, Zenon
<1>6. f = [n \in 1 .. N |-> IF n = 1 THEN parts[n] ELSE f[n - 1] \o parts[n]]
  BY <1>5, Zenon
<1>7. PICK u : /\ u = [n \in 1 .. N |-> IF n = 1 THEN parts[n] ELSE u[n - 1] \o parts[n]]
               /\ FlattenSeq(parts) = u[N]
  <2>1. Len(parts) # 0
    BY <1>1 DEF N
  <2> QED
    BY <1>6, <2>1, Zenon DEF FlattenSeq, N
<1>8. u[1] = parts[1] /\ \A n \in 2 .. N : u[n] = u[n - 1] \o parts[n]
  <2>1. 1 \in 1 .. N
    BY <1>1
  <2>2. \A n \in 2 .. N : n \in 1 .. N /\ n # 1
    BY <1>1
  <2> QED
    BY <1>7, <2>1, <2>2, Zenon
<1>9. \A n \in 1 .. N : u[n] \in R
  <2> DEFINE P == {i \in 1 .. N : u[i] \in R}
  <2>1. 1 \in P
    BY <1>1, <1>8
  <2>2. ASSUME NEW n \in 1 + 1 .. N, n - 1 \in P PROVE n \in P
    <3>1. n \in 2 .. N /\ n \in 1 .. N
      BY <1>1
    <3>2. parts[n] \in R /\ u[n] = u[n - 1] \o parts[n]
      BY <1>1, <1>8, <3>1, Zenon
    <3>3. u[n - 1] \in R
      BY <2>2, Zenon
    <3>4. u[n - 1] \o parts[n] \in R
      BY <1>c, <3>2, <3>3, Zenon
    <3> QED
      BY <3>1, <3>2, <3>4
  <2>3. \A n \in 1 .. N : n \in P
    <3> HIDE DEF P
    <3> QED
      BY <1>1, <2>1, <2>2, ChainInduction
  <2> QED
    BY <2>3
<1>10. u \in [1 .. N -> R]
  BY <1>7, <1>9
<1> QED
  BY <1>7, <1>8, <1>10, Zenon DEF N, R

(***************************************************************************)
(* What is marshalled has the length that Size says: bytes, numbers and parts. *)
(***************************************************************************)
\* bytes takes n bytes.
Fits(bytes, n) == n \in Nat /\ bytes \in Seq(Byte) /\ Len(bytes) = n

LEMMA FitsConcat ==
  ASSUME NEW b, NEW m, NEW c, NEW n, Fits(b, m), Fits(c, n)
  PROVE  Fits(b \o c, m + n)
<1>1. b \o c \in Seq(Byte) /\ Len(b \o c) = Len(b) + Len(c)
  BY ConcatProperties DEF Fits
<1> QED
  BY <1>1 DEF Fits

LEMMA FitsByte == \A b \in Byte : Fits(<<b>>, 1)
BY DEF Fits

LEMMA FitsAsItIs == \A b \in Seq(Byte) : Fits(b, Len(b))
BY DEF Fits

LEMMA FitsNone == Fits(<<>>, 0)
BY DEF Fits

LEMMA FitsVarint == \A n \in Nat : Fits(encodeVarintRpc(n), sovRpc(n))
<1> SUFFICES ASSUME NEW n \in Nat PROVE Fits(encodeVarintRpc(n), sovRpc(n))
  OBVIOUS
<1>1. varint[n] \in Seq(Byte) /\ Len(varint[n]) = sov[n] /\ sov[n] \in Nat
  BY Varints, Sov, Zenon
<1> QED
  BY <1>1, Zenon DEF Fits, encodeVarintRpc, sovRpc

\* A part: its tag, its length and its bytes.
LEMMA FitsPart ==
  ASSUME NEW tag \in Byte, NEW n, NEW b, Fits(b, n)
  PROVE  Fits(<<tag>> \o encodeVarintRpc(n) \o b, PartSize(n))
<1>1. n \in Nat
  BY DEF Fits
<1>2. Fits(<<tag>> \o encodeVarintRpc(n), 1 + sovRpc(n))
  BY <1>1, FitsByte, FitsVarint, FitsConcat, Zenon
<1>3. Fits((<<tag>> \o encodeVarintRpc(n)) \o b, (1 + sovRpc(n)) + n)
  BY <1>2, FitsConcat, Zenon
<1>4. (1 + sovRpc(n)) + n = PartSize(n)
  <2>1. sov[n] \in Nat
    BY <1>1, Sov, Zenon
  <2> QED
    BY <1>1, <2>1 DEF PartSize, sovRpc
<1> QED
  BY <1>3, <1>4, Zenon

LEMMA NilIsNoText == Nil \notin Seq(Byte)
<1>1. Byte \subseteq Nat
  BY DEF Byte
<1>2. \A s \in Seq(Byte) : s \in Seq(Nat)
  BY <1>1, SeqMonotonic, Zenon
<1> QED
  BY <1>2, NilAssumption, Zenon

LEMMA FitsBytes ==
  ASSUME NEW tag \in Byte, NEW b \in Text
  PROVE  Fits(Bytes(tag, b), BytesSize(b))
<1>1. CASE b = Nil
  BY <1>1, FitsNone, Zenon DEF Bytes, BytesSize
<1>2. CASE b # Nil
  <2>1. Fits(b, Len(b))
    BY <1>2, FitsAsItIs, Zenon DEF Text
  <2> QED
    BY <1>2, <2>1, FitsPart, Zenon DEF Bytes, BytesSize
<1> QED
  BY <1>1, <1>2, Zenon

LEMMA FitsEnum ==
  ASSUME NEW tag \in Byte, NEW mode \in Int32 \cup {Nil}
  PROVE  Fits(Enum(tag, mode), EnumSize(mode))
<1>1. CASE mode = Nil
  BY <1>1, FitsNone, Zenon DEF Enum, EnumSize
<1>2. CASE mode # Nil
  <2>1. IntMod \in Nat \ {0}
    BY Pow2, WidthsAssumption, Zenon DEF IntMod
  <2>2. mode \in Int
    BY <1>2 DEF Int32
  <2>3. mode % IntMod \in Nat
    BY <2>1, <2>2
  <2>4. Fits(<<tag>> \o encodeVarintRpc(mode % IntMod), 1 + sovRpc(mode % IntMod))
    BY <2>3, FitsByte, FitsVarint, FitsConcat, Zenon
  <2> QED
    BY <1>2, <2>4, Zenon DEF Enum, EnumSize
<1> QED
  BY <1>1, <1>2, Zenon

\* Parts end to end.
LEMMA FitsParts ==
  ASSUME NEW parts \in Seq(Seq(Byte)), NEW lens \in Seq(Nat), Len(parts) = Len(lens),
         \A i \in 1 .. Len(lens) : Fits(parts[i], PartSize(lens[i]))
  PROVE  Fits(FlattenSeq(parts), PartSizes(lens))
<1>1. PICK u \in [0 .. Len(lens) -> Nat] :
         /\ u[0] = 0 /\ \A n \in 1 .. Len(lens) : u[n] = u[n - 1] + PartSize(lens[n])
         /\ PartSizes(lens) = u[Len(lens)]
  BY PartSizesSum
<1>2. CASE parts = <<>>
  <2>1. FlattenSeq(parts) = <<>>
    BY <1>2 DEF FlattenSeq
  <2>2. PartSizes(lens) = 0
    BY <1>1, <1>2
  <2> QED
    BY <2>1, <2>2, FitsNone, Zenon
<1>3. CASE parts # <<>>
  <2> DEFINE N == Len(lens)
  <2>1. PICK v \in [1 .. Len(parts) -> Seq(Byte)] :
          /\ v[1] = parts[1] /\ \A n \in 2 .. Len(parts) : v[n] = v[n - 1] \o parts[n]
          /\ FlattenSeq(parts) = v[Len(parts)]
    BY <1>3, FlattenSeqConcat
  <2> DEFINE P == {n \in 1 .. N : Fits(v[n], u[n])}
  <2>2. N \in Nat /\ N >= 1
    BY <1>3
  <2>3. 1 \in P
    <3>1. 1 \in 1 .. N
      BY <2>2
    <3>2. v[1] = parts[1] /\ u[1] = 0 + PartSize(lens[1]) /\ lens[1] \in Nat
      BY <1>1, <2>1, <2>2
    <3>3. PartSize(lens[1]) \in Nat
      BY <3>2, PartSizeType, Zenon
    <3>4. u[1] = PartSize(lens[1])
      BY <3>2, <3>3
    <3>5. Fits(parts[1], PartSize(lens[1]))
      BY <3>1, Zenon
    <3> QED
      BY <3>1, <3>2, <3>4, <3>5, Zenon
  <2>4. ASSUME NEW n \in 1 + 1 .. N, n - 1 \in P PROVE n \in P
    <3>1. n \in 1 .. N /\ n \in 2 .. N
      BY <2>2
    <3>2. v[n] = v[n - 1] \o parts[n] /\ u[n] = u[n - 1] + PartSize(lens[n])
      BY <1>1, <2>1, <3>1, Zenon
    <3>3. Fits(v[n - 1], u[n - 1]) /\ Fits(parts[n], PartSize(lens[n]))
      BY <2>4, <3>1, Zenon
    <3>4. Fits(v[n - 1] \o parts[n], u[n - 1] + PartSize(lens[n]))
      BY <3>3, FitsConcat, Zenon
    <3> QED
      BY <3>1, <3>2, <3>4, Zenon
  <2> HIDE DEF P
  <2>5. \A n \in 1 .. N : n \in P
    BY <2>2, <2>3, <2>4, ChainInduction
  <2>6. N \in P
    BY <2>2, <2>5
  <2> QED
    BY <1>1, <2>1, <2>6, Zenon DEF P
<1> QED
  BY <1>2, <1>3, Zenon

LEMMA SeqOfFunction ==
  ASSUME NEW S, NEW n \in Nat, NEW f \in [1 .. n -> S]
  PROVE  f \in Seq(S) /\ Len(f) = n
OBVIOUS

LEMMA FitsStrings ==
  ASSUME NEW tag \in Byte, NEW bs \in Seq(Seq(Byte))
  PROVE  Fits(Strings(tag, bs), Total(bs, Len))
<1> DEFINE parts == [i \in DOMAIN bs |-> Bytes(tag, bs[i])]
           lens == [i \in DOMAIN bs |-> Len(bs[i])]
<1>1. DOMAIN bs = 1 .. Len(bs) /\ Len(bs) \in Nat /\ \A i \in 1 .. Len(bs) : bs[i] \in Seq(Byte)
  OBVIOUS
<1>2. ASSUME NEW i \in 1 .. Len(bs)
      PROVE  /\ Fits(parts[i], PartSize(lens[i]))
             /\ parts[i] \in Seq(Byte) /\ lens[i] \in Nat
  <2>1. bs[i] \in Text /\ bs[i] # Nil
    BY <1>1, NilIsNoText, Zenon DEF Text
  <2>2. parts[i] = Bytes(tag, bs[i]) /\ lens[i] = Len(bs[i])
    BY <1>1, Zenon
  <2>3. Fits(Bytes(tag, bs[i]), PartSize(Len(bs[i])))
    BY <2>1, FitsBytes, Zenon DEF BytesSize
  <2>4. lens[i] \in Nat
    BY <1>1, <2>2
  <2> QED
    BY <2>2, <2>3, <2>4, Zenon DEF Fits
<1>3. parts \in Seq(Seq(Byte)) /\ lens \in Seq(Nat) /\ Len(parts) = Len(bs) /\ Len(lens) = Len(bs)
  <2>1. parts \in [1 .. Len(bs) -> Seq(Byte)] /\ lens \in [1 .. Len(bs) -> Nat]
    BY <1>1, <1>2, Zenon
  <2> HIDE DEF parts, lens
  <2> QED
    BY <1>1, <2>1, SeqOfFunction, Zenon
<1>4. Fits(FlattenSeq(parts), PartSizes(lens))
  <2> HIDE DEF parts, lens
  <2> QED
    BY <1>2, <1>3, FitsParts, Zenon
<1> QED
  BY <1>4, Zenon DEF Strings, Total

LEMMA FitsFamily ==
  ASSUME NEW N \in Nat, NEW parts, NEW lens, DOMAIN parts = 1 .. N, DOMAIN lens = 1 .. N,
         parts = [i \in 1 .. N |-> parts[i]], lens = [i \in 1 .. N |-> lens[i]],
         \A i \in 1 .. N : lens[i] \in Nat /\ Fits(parts[i], PartSize(lens[i]))
  PROVE  Fits(FlattenSeq(parts), PartSizes(lens))
<1>1. parts \in [1 .. N -> Seq(Byte)] /\ lens \in [1 .. N -> Nat]
  BY Zenon DEF Fits
<1>2. parts \in Seq(Seq(Byte)) /\ lens \in Seq(Nat) /\ Len(parts) = N /\ Len(lens) = N
  BY <1>1, SeqOfFunction, Zenon
<1> QED
  BY <1>2, FitsParts, Zenon

(***************************************************************************)
(* The structs and their fields.                                           *)
(***************************************************************************)
LEMMA KindNames ==
  /\ DOMAIN Values = {"SubOpts", "Message", "IHave", "IWant", "Graft", "Prune",
                      "Control", "RPC", "Auth", "Enc", "TopicDescriptor"}
  /\ DOMAIN Types = DOMAIN Values
BY DEF Values, Types

\* A struct is made with a value of its type.
LEMMA NewValues == \A k \in DOMAIN Values : Types[k].new \in Values[k]
<1>0. <<>> \in Seq(Byte) /\ <<>> \in Seq(Seq(Byte)) /\ Nil \in Text
  BY DEF Text
<1>1. \A S : <<>> \in Seq(S)
  OBVIOUS
<1>2. SubOpts \in SubOptsValues
  BY <1>0, <1>1, Zenon DEF SubOpts, SubOptsValues
<1>3. Message \in MessageValues
  BY <1>0, <1>1, Zenon DEF Message, MessageValues
<1>4. ControlIHave \in IHaveValues
  BY <1>0, <1>1, Zenon DEF ControlIHave, IHaveValues
<1>5. ControlIWant \in IWantValues
  BY <1>0, <1>1, Zenon DEF ControlIWant, IWantValues
<1>6. ControlGraft \in GraftValues
  BY <1>0, <1>1, Zenon DEF ControlGraft, GraftValues
<1>7. ControlPrune \in PruneValues
  BY <1>0, <1>1, Zenon DEF ControlPrune, PruneValues
<1>8. ControlMessage \in ControlValues
  BY <1>0, <1>1, Zenon DEF ControlMessage, ControlValues
<1>9. RPC \in RPCValues
  BY <1>0, <1>1, Zenon DEF RPC, RPCValues
<1>10. AuthOpts \in AuthValues
  BY <1>0, <1>1, Zenon DEF AuthOpts, AuthValues
<1>11. EncOpts \in EncValues
  BY <1>0, <1>1, Zenon DEF EncOpts, EncValues
<1>12. TopicDescriptor \in TopicDescriptorValues
  BY <1>0, <1>1, Zenon DEF TopicDescriptor, TopicDescriptorValues
<1> SUFFICES ASSUME NEW k \in DOMAIN Values PROVE Types[k].new \in Values[k]
  OBVIOUS
<1>13. CASE k = "SubOpts"
  BY <1>2, <1>13 DEF Types, Values
<1>14. CASE k = "Message"
  BY <1>3, <1>14 DEF Types, Values
<1>15. CASE k = "IHave"
  BY <1>4, <1>15 DEF Types, Values
<1>16. CASE k = "IWant"
  BY <1>5, <1>16 DEF Types, Values
<1>17. CASE k = "Graft"
  BY <1>6, <1>17 DEF Types, Values
<1>18. CASE k = "Prune"
  BY <1>7, <1>18 DEF Types, Values
<1>19. CASE k = "Control"
  BY <1>8, <1>19 DEF Types, Values
<1>20. CASE k = "RPC"
  BY <1>9, <1>20 DEF Types, Values
<1>21. CASE k = "Auth"
  BY <1>10, <1>21 DEF Types, Values
<1>22. CASE k = "Enc"
  BY <1>11, <1>22 DEF Types, Values
<1>23. CASE k = "TopicDescriptor"
  BY <1>12, <1>23 DEF Types, Values
<1> QED
  BY KindNames, <1>13, <1>14, <1>15, <1>16, <1>17, <1>18, <1>19, <1>20, <1>21, <1>22, <1>23, Zenon

\* A struct is a record with its unrecognized bytes.
LEMMA Structs ==
  ASSUME NEW k \in DOMAIN Values, NEW v \in Values[k]
  PROVE  /\ "XXX_unrecognized" \in DOMAIN v /\ v.XXX_unrecognized \in Seq(Byte)
         /\ v = [f \in DOMAIN v |-> v[f]]
<1>1. CASE k = "SubOpts"
  <2>1. v \in SubOptsValues
    BY <1>1 DEF Values
  <2> QED
    BY <2>1 DEF SubOptsValues
<1>2. CASE k = "Message"
  <2>1. v \in MessageValues
    BY <1>2 DEF Values
  <2> QED
    BY <2>1 DEF MessageValues
<1>3. CASE k = "IHave"
  <2>1. v \in IHaveValues
    BY <1>3 DEF Values
  <2> QED
    BY <2>1 DEF IHaveValues
<1>4. CASE k = "IWant"
  <2>1. v \in IWantValues
    BY <1>4 DEF Values
  <2> QED
    BY <2>1 DEF IWantValues
<1>5. CASE k = "Graft"
  <2>1. v \in GraftValues
    BY <1>5 DEF Values
  <2> QED
    BY <2>1 DEF GraftValues
<1>6. CASE k = "Prune"
  <2>1. v \in PruneValues
    BY <1>6 DEF Values
  <2> QED
    BY <2>1 DEF PruneValues
<1>7. CASE k = "Control"
  <2>1. v \in ControlValues
    BY <1>7 DEF Values
  <2> QED
    BY <2>1 DEF ControlValues
<1>8. CASE k = "RPC"
  <2>1. v \in RPCValues
    BY <1>8 DEF Values
  <2> QED
    BY <2>1 DEF RPCValues
<1>9. CASE k = "Auth"
  <2>1. v \in AuthValues
    BY <1>9 DEF Values
  <2> QED
    BY <2>1 DEF AuthValues
<1>10. CASE k = "Enc"
  <2>1. v \in EncValues
    BY <1>10 DEF Values
  <2> QED
    BY <2>1 DEF EncValues
<1>11. CASE k = "TopicDescriptor"
  <2>1. v \in TopicDescriptorValues
    BY <1>11 DEF Values
  <2> QED
    BY <2>1 DEF TopicDescriptorValues
<1> QED
  BY KindNames, <1>1, <1>2, <1>3, <1>4, <1>5, <1>6, <1>7, <1>8, <1>9, <1>10, <1>11, Zenon

FieldKinds == {"bool", "enum", "bytes", "string", "strings", "message", "messages"}

\* The values of a field, and the one it is made with.
Typed(f, val) ==
  /\ f.kind = "bool" => val \in BOOLEAN \cup {Nil}
  /\ f.kind = "enum" => val \in Int32 \cup {Nil}
  /\ f.kind \in {"bytes", "string"} => val \in Text
  /\ f.kind = "strings" => val \in Seq(Seq(Byte))
  /\ f.kind = "message" => val \in Values[f.of] \cup {Nil}
  /\ f.kind = "messages" => val \in Seq(Values[f.of])
Empty(f) == IF f.kind \in {"strings", "messages"} THEN <<>> ELSE Nil

\* Field j of a struct m, among those of its type.
Shaped(fields, j, m, new, V) ==
  LET f == fields[j]
  IN /\ j \in 1 .. 6
     /\ f.kind \in {"bool", "enum", "bytes", "string", "strings", "message", "messages"}
     /\ f.name \in DOMAIN m /\ f.name # "XXX_unrecognized" /\ Typed(f, m[f.name])
     /\ new[f.name] = Empty(f)
     /\ f.kind \in {"message", "messages"} => f.of \in DOMAIN Values
     /\ \A val : Typed(f, val) => [m EXCEPT ![f.name] = val] \in V

LEMMA ShapeSubOpts ==
  ASSUME NEW m \in SubOptsValues, NEW j \in DOMAIN SubOptsFields
  PROVE  Shaped(SubOptsFields, j, m, SubOpts, SubOptsValues)
<1> DEFINE f == SubOptsFields[j]
<1>0. j \in 1 .. 2
  BY DEF SubOptsFields
<1>1. CASE j = 1
  <2>1. f.kind = "bool" /\ f.name = "Subscribe"
    BY <1>1 DEF SubOptsFields, Field
  <2>2. m["Subscribe"] \in BOOLEAN \cup {Nil} /\ "Subscribe" \in DOMAIN m
    BY DEF SubOptsValues
  <2>3. SubOpts["Subscribe"] = Nil
    BY DEF SubOpts
  <2>4. ASSUME NEW val \in BOOLEAN \cup {Nil} PROVE [m EXCEPT !["Subscribe"] = val] \in SubOptsValues
    BY DEF SubOptsValues
  <2> HIDE DEF f
  <2> QED
    BY <1>0, <2>1, <2>2, <2>3, <2>4 DEF Shaped, Typed, Empty, f
<1>2. CASE j = 2
  <2>1. f.kind = "string" /\ f.name = "Topicid"
    BY <1>2 DEF SubOptsFields, Field
  <2>2. m["Topicid"] \in Text /\ "Topicid" \in DOMAIN m
    BY DEF SubOptsValues
  <2>3. SubOpts["Topicid"] = Nil
    BY DEF SubOpts
  <2>4. ASSUME NEW val \in Text PROVE [m EXCEPT !["Topicid"] = val] \in SubOptsValues
    BY DEF SubOptsValues
  <2> HIDE DEF f
  <2> QED
    BY <1>0, <2>1, <2>2, <2>3, <2>4 DEF Shaped, Typed, Empty, f
<1> QED
  BY <1>0, <1>1, <1>2

LEMMA ShapeMessage ==
  ASSUME NEW m \in MessageValues, NEW j \in DOMAIN MessageFields
  PROVE  Shaped(MessageFields, j, m, Message, MessageValues)
<1> DEFINE f == MessageFields[j]
<1>0. j \in 1 .. 6
  BY DEF MessageFields
<1>1. CASE j = 1
  <2>1. f.kind = "bytes" /\ f.name = "From"
    BY <1>1 DEF MessageFields, Field
  <2>2. m["From"] \in Text /\ "From" \in DOMAIN m
    BY DEF MessageValues
  <2>3. Message["From"] = Nil
    BY DEF Message
  <2>4. ASSUME NEW val \in Text PROVE [m EXCEPT !["From"] = val] \in MessageValues
    BY DEF MessageValues
  <2> HIDE DEF f
  <2> QED
    BY <1>0, <2>1, <2>2, <2>3, <2>4 DEF Shaped, Typed, Empty, f
<1>2. CASE j = 2
  <2>1. f.kind = "bytes" /\ f.name = "Data"
    BY <1>2 DEF MessageFields, Field
  <2>2. m["Data"] \in Text /\ "Data" \in DOMAIN m
    BY DEF MessageValues
  <2>3. Message["Data"] = Nil
    BY DEF Message
  <2>4. ASSUME NEW val \in Text PROVE [m EXCEPT !["Data"] = val] \in MessageValues
    BY DEF MessageValues
  <2> HIDE DEF f
  <2> QED
    BY <1>0, <2>1, <2>2, <2>3, <2>4 DEF Shaped, Typed, Empty, f
<1>3. CASE j = 3
  <2>1. f.kind = "bytes" /\ f.name = "Seqno"
    BY <1>3 DEF MessageFields, Field
  <2>2. m["Seqno"] \in Text /\ "Seqno" \in DOMAIN m
    BY DEF MessageValues
  <2>3. Message["Seqno"] = Nil
    BY DEF Message
  <2>4. ASSUME NEW val \in Text PROVE [m EXCEPT !["Seqno"] = val] \in MessageValues
    BY DEF MessageValues
  <2> HIDE DEF f
  <2> QED
    BY <1>0, <2>1, <2>2, <2>3, <2>4 DEF Shaped, Typed, Empty, f
<1>4. CASE j = 4
  <2>1. f.kind = "strings" /\ f.name = "TopicIDs"
    BY <1>4 DEF MessageFields, Field
  <2>2. m["TopicIDs"] \in Seq(Seq(Byte)) /\ "TopicIDs" \in DOMAIN m
    BY DEF MessageValues
  <2>3. Message["TopicIDs"] = <<>>
    BY DEF Message
  <2>4. ASSUME NEW val \in Seq(Seq(Byte)) PROVE [m EXCEPT !["TopicIDs"] = val] \in MessageValues
    BY DEF MessageValues
  <2> HIDE DEF f
  <2> QED
    BY <1>0, <2>1, <2>2, <2>3, <2>4 DEF Shaped, Typed, Empty, f
<1>5. CASE j = 5
  <2>1. f.kind = "bytes" /\ f.name = "Signature"
    BY <1>5 DEF MessageFields, Field
  <2>2. m["Signature"] \in Text /\ "Signature" \in DOMAIN m
    BY DEF MessageValues
  <2>3. Message["Signature"] = Nil
    BY DEF Message
  <2>4. ASSUME NEW val \in Text PROVE [m EXCEPT !["Signature"] = val] \in MessageValues
    BY DEF MessageValues
  <2> HIDE DEF f
  <2> QED
    BY <1>0, <2>1, <2>2, <2>3, <2>4 DEF Shaped, Typed, Empty, f
<1>6. CASE j = 6
  <2>1. f.kind = "bytes" /\ f.name = "Key"
    BY <1>6 DEF MessageFields, Field
  <2>2. m["Key"] \in Text /\ "Key" \in DOMAIN m
    BY DEF MessageValues
  <2>3. Message["Key"] = Nil
    BY DEF Message
  <2>4. ASSUME NEW val \in Text PROVE [m EXCEPT !["Key"] = val] \in MessageValues
    BY DEF MessageValues
  <2> HIDE DEF f
  <2> QED
    BY <1>0, <2>1, <2>2, <2>3, <2>4 DEF Shaped, Typed, Empty, f
<1> QED
  BY <1>0, <1>1, <1>2, <1>3, <1>4, <1>5, <1>6

LEMMA ShapeIHave ==
  ASSUME NEW m \in IHaveValues, NEW j \in DOMAIN IHaveFields
  PROVE  Shaped(IHaveFields, j, m, ControlIHave, IHaveValues)
<1> DEFINE f == IHaveFields[j]
<1>0. j \in 1 .. 2
  BY DEF IHaveFields
<1>1. CASE j = 1
  <2>1. f.kind = "string" /\ f.name = "TopicID"
    BY <1>1 DEF IHaveFields, Field
  <2>2. m["TopicID"] \in Text /\ "TopicID" \in DOMAIN m
    BY DEF IHaveValues
  <2>3. ControlIHave["TopicID"] = Nil
    BY DEF ControlIHave
  <2>4. ASSUME NEW val \in Text PROVE [m EXCEPT !["TopicID"] = val] \in IHaveValues
    BY DEF IHaveValues
  <2> HIDE DEF f
  <2> QED
    BY <1>0, <2>1, <2>2, <2>3, <2>4 DEF Shaped, Typed, Empty, f
<1>2. CASE j = 2
  <2>1. f.kind = "strings" /\ f.name = "MessageIDs"
    BY <1>2 DEF IHaveFields, Field
  <2>2. m["MessageIDs"] \in Seq(Seq(Byte)) /\ "MessageIDs" \in DOMAIN m
    BY DEF IHaveValues
  <2>3. ControlIHave["MessageIDs"] = <<>>
    BY DEF ControlIHave
  <2>4. ASSUME NEW val \in Seq(Seq(Byte)) PROVE [m EXCEPT !["MessageIDs"] = val] \in IHaveValues
    BY DEF IHaveValues
  <2> HIDE DEF f
  <2> QED
    BY <1>0, <2>1, <2>2, <2>3, <2>4 DEF Shaped, Typed, Empty, f
<1> QED
  BY <1>0, <1>1, <1>2

LEMMA ShapeIWant ==
  ASSUME NEW m \in IWantValues, NEW j \in DOMAIN IWantFields
  PROVE  Shaped(IWantFields, j, m, ControlIWant, IWantValues)
<1> DEFINE f == IWantFields[j]
<1>0. j \in 1 .. 1
  BY DEF IWantFields
<1>1. CASE j = 1
  <2>1. f.kind = "strings" /\ f.name = "MessageIDs"
    BY <1>1 DEF IWantFields, Field
  <2>2. m["MessageIDs"] \in Seq(Seq(Byte)) /\ "MessageIDs" \in DOMAIN m
    BY DEF IWantValues
  <2>3. ControlIWant["MessageIDs"] = <<>>
    BY DEF ControlIWant
  <2>4. ASSUME NEW val \in Seq(Seq(Byte)) PROVE [m EXCEPT !["MessageIDs"] = val] \in IWantValues
    BY DEF IWantValues
  <2> HIDE DEF f
  <2> QED
    BY <1>0, <2>1, <2>2, <2>3, <2>4 DEF Shaped, Typed, Empty, f
<1> QED
  BY <1>0, <1>1

LEMMA ShapeGraft ==
  ASSUME NEW m \in GraftValues, NEW j \in DOMAIN GraftFields
  PROVE  Shaped(GraftFields, j, m, ControlGraft, GraftValues)
<1> DEFINE f == GraftFields[j]
<1>0. j \in 1 .. 1
  BY DEF GraftFields
<1>1. CASE j = 1
  <2>1. f.kind = "string" /\ f.name = "TopicID"
    BY <1>1 DEF GraftFields, Field
  <2>2. m["TopicID"] \in Text /\ "TopicID" \in DOMAIN m
    BY DEF GraftValues
  <2>3. ControlGraft["TopicID"] = Nil
    BY DEF ControlGraft
  <2>4. ASSUME NEW val \in Text PROVE [m EXCEPT !["TopicID"] = val] \in GraftValues
    BY DEF GraftValues
  <2> HIDE DEF f
  <2> QED
    BY <1>0, <2>1, <2>2, <2>3, <2>4 DEF Shaped, Typed, Empty, f
<1> QED
  BY <1>0, <1>1

LEMMA ShapePrune ==
  ASSUME NEW m \in PruneValues, NEW j \in DOMAIN PruneFields
  PROVE  Shaped(PruneFields, j, m, ControlPrune, PruneValues)
<1> DEFINE f == PruneFields[j]
<1>0. j \in 1 .. 1
  BY DEF PruneFields
<1>1. CASE j = 1
  <2>1. f.kind = "string" /\ f.name = "TopicID"
    BY <1>1 DEF PruneFields, Field
  <2>2. m["TopicID"] \in Text /\ "TopicID" \in DOMAIN m
    BY DEF PruneValues
  <2>3. ControlPrune["TopicID"] = Nil
    BY DEF ControlPrune
  <2>4. ASSUME NEW val \in Text PROVE [m EXCEPT !["TopicID"] = val] \in PruneValues
    BY DEF PruneValues
  <2> HIDE DEF f
  <2> QED
    BY <1>0, <2>1, <2>2, <2>3, <2>4 DEF Shaped, Typed, Empty, f
<1> QED
  BY <1>0, <1>1

LEMMA ShapeControl ==
  ASSUME NEW m \in ControlValues, NEW j \in DOMAIN ControlFields
  PROVE  Shaped(ControlFields, j, m, ControlMessage, ControlValues)
<1> DEFINE f == ControlFields[j]
<1>0. j \in 1 .. 4
  BY DEF ControlFields
<1>1. CASE j = 1
  <2>1. f.kind = "messages" /\ f.name = "Ihave" /\ f.of = "IHave"
    BY <1>1 DEF ControlFields, FieldOf
  <2>2. m["Ihave"] \in Seq(IHaveValues) /\ "Ihave" \in DOMAIN m
    BY DEF ControlValues
  <2>3. ControlMessage["Ihave"] = <<>>
    BY DEF ControlMessage
  <2>4. ASSUME NEW val \in Seq(IHaveValues) PROVE [m EXCEPT !["Ihave"] = val] \in ControlValues
    BY DEF ControlValues
  <2>5. "IHave" \in DOMAIN Values /\ Values["IHave"] = IHaveValues
    BY DEF Values
  <2> HIDE DEF f
  <2> QED
    BY <1>0, <2>1, <2>2, <2>3, <2>4, <2>5 DEF Shaped, Typed, Empty, f
<1>2. CASE j = 2
  <2>1. f.kind = "messages" /\ f.name = "Iwant" /\ f.of = "IWant"
    BY <1>2 DEF ControlFields, FieldOf
  <2>2. m["Iwant"] \in Seq(IWantValues) /\ "Iwant" \in DOMAIN m
    BY DEF ControlValues
  <2>3. ControlMessage["Iwant"] = <<>>
    BY DEF ControlMessage
  <2>4. ASSUME NEW val \in Seq(IWantValues) PROVE [m EXCEPT !["Iwant"] = val] \in ControlValues
    BY DEF ControlValues
  <2>5. "IWant" \in DOMAIN Values /\ Values["IWant"] = IWantValues
    BY DEF Values
  <2> HIDE DEF f
  <2> QED
    BY <1>0, <2>1, <2>2, <2>3, <2>4, <2>5 DEF Shaped, Typed, Empty, f
<1>3. CASE j = 3
  <2>1. f.kind = "messages" /\ f.name = "Graft" /\ f.of = "Graft"
    BY <1>3 DEF ControlFields, FieldOf
  <2>2. m["Graft"] \in Seq(GraftValues) /\ "Graft" \in DOMAIN m
    BY DEF ControlValues
  <2>3. ControlMessage["Graft"] = <<>>
    BY DEF ControlMessage
  <2>4. ASSUME NEW val \in Seq(GraftValues) PROVE [m EXCEPT !["Graft"] = val] \in ControlValues
    BY DEF ControlValues
  <2>5. "Graft" \in DOMAIN Values /\ Values["Graft"] = GraftValues
    BY DEF Values
  <2> HIDE DEF f
  <2> QED
    BY <1>0, <2>1, <2>2, <2>3, <2>4, <2>5 DEF Shaped, Typed, Empty, f
<1>4. CASE j = 4
  <2>1. f.kind = "messages" /\ f.name = "Prune" /\ f.of = "Prune"
    BY <1>4 DEF ControlFields, FieldOf
  <2>2. m["Prune"] \in Seq(PruneValues) /\ "Prune" \in DOMAIN m
    BY DEF ControlValues
  <2>3. ControlMessage["Prune"] = <<>>
    BY DEF ControlMessage
  <2>4. ASSUME NEW val \in Seq(PruneValues) PROVE [m EXCEPT !["Prune"] = val] \in ControlValues
    BY DEF ControlValues
  <2>5. "Prune" \in DOMAIN Values /\ Values["Prune"] = PruneValues
    BY DEF Values
  <2> HIDE DEF f
  <2> QED
    BY <1>0, <2>1, <2>2, <2>3, <2>4, <2>5 DEF Shaped, Typed, Empty, f
<1> QED
  BY <1>0, <1>1, <1>2, <1>3, <1>4

LEMMA ShapeRPC ==
  ASSUME NEW m \in RPCValues, NEW j \in DOMAIN RPCFields
  PROVE  Shaped(RPCFields, j, m, RPC, RPCValues)
<1> DEFINE f == RPCFields[j]
<1>0. j \in 1 .. 3
  BY DEF RPCFields
<1>1. CASE j = 1
  <2>1. f.kind = "messages" /\ f.name = "Subscriptions" /\ f.of = "SubOpts"
    BY <1>1 DEF RPCFields, FieldOf
  <2>2. m["Subscriptions"] \in Seq(SubOptsValues) /\ "Subscriptions" \in DOMAIN m
    BY DEF RPCValues
  <2>3. RPC["Subscriptions"] = <<>>
    BY DEF RPC
  <2>4. ASSUME NEW val \in Seq(SubOptsValues) PROVE [m EXCEPT !["Subscriptions"] = val] \in RPCValues
    BY DEF RPCValues
  <2>5. "SubOpts" \in DOMAIN Values /\ Values["SubOpts"] = SubOptsValues
    BY DEF Values
  <2> HIDE DEF f
  <2> QED
    BY <1>0, <2>1, <2>2, <2>3, <2>4, <2>5 DEF Shaped, Typed, Empty, f
<1>2. CASE j = 2
  <2>1. f.kind = "messages" /\ f.name = "Publish" /\ f.of = "Message"
    BY <1>2 DEF RPCFields, FieldOf
  <2>2. m["Publish"] \in Seq(MessageValues) /\ "Publish" \in DOMAIN m
    BY DEF RPCValues
  <2>3. RPC["Publish"] = <<>>
    BY DEF RPC
  <2>4. ASSUME NEW val \in Seq(MessageValues) PROVE [m EXCEPT !["Publish"] = val] \in RPCValues
    BY DEF RPCValues
  <2>5. "Message" \in DOMAIN Values /\ Values["Message"] = MessageValues
    BY DEF Values
  <2> HIDE DEF f
  <2> QED
    BY <1>0, <2>1, <2>2, <2>3, <2>4, <2>5 DEF Shaped, Typed, Empty, f
<1>3. CASE j = 3
  <2>1. f.kind = "message" /\ f.name = "Control" /\ f.of = "Control"
    BY <1>3 DEF RPCFields, FieldOf
  <2>2. m["Control"] \in ControlValues \cup {Nil} /\ "Control" \in DOMAIN m
    BY DEF RPCValues
  <2>3. RPC["Control"] = Nil
    BY DEF RPC
  <2>4. ASSUME NEW val \in ControlValues \cup {Nil} PROVE [m EXCEPT !["Control"] = val] \in RPCValues
    BY DEF RPCValues
  <2>5. "Control" \in DOMAIN Values /\ Values["Control"] = ControlValues
    BY DEF Values
  <2> HIDE DEF f
  <2> QED
    BY <1>0, <2>1, <2>2, <2>3, <2>4, <2>5 DEF Shaped, Typed, Empty, f
<1> QED
  BY <1>0, <1>1, <1>2, <1>3

LEMMA ShapeAuth ==
  ASSUME NEW m \in AuthValues, NEW j \in DOMAIN AuthFields
  PROVE  Shaped(AuthFields, j, m, AuthOpts, AuthValues)
<1> DEFINE f == AuthFields[j]
<1>0. j \in 1 .. 2
  BY DEF AuthFields
<1>1. CASE j = 1
  <2>1. f.kind = "enum" /\ f.name = "Mode"
    BY <1>1 DEF AuthFields, Field
  <2>2. m["Mode"] \in Int32 \cup {Nil} /\ "Mode" \in DOMAIN m
    BY DEF AuthValues
  <2>3. AuthOpts["Mode"] = Nil
    BY DEF AuthOpts
  <2>4. ASSUME NEW val \in Int32 \cup {Nil} PROVE [m EXCEPT !["Mode"] = val] \in AuthValues
    BY DEF AuthValues
  <2> HIDE DEF f
  <2> QED
    BY <1>0, <2>1, <2>2, <2>3, <2>4 DEF Shaped, Typed, Empty, f
<1>2. CASE j = 2
  <2>1. f.kind = "strings" /\ f.name = "Keys"
    BY <1>2 DEF AuthFields, Field
  <2>2. m["Keys"] \in Seq(Seq(Byte)) /\ "Keys" \in DOMAIN m
    BY DEF AuthValues
  <2>3. AuthOpts["Keys"] = <<>>
    BY DEF AuthOpts
  <2>4. ASSUME NEW val \in Seq(Seq(Byte)) PROVE [m EXCEPT !["Keys"] = val] \in AuthValues
    BY DEF AuthValues
  <2> HIDE DEF f
  <2> QED
    BY <1>0, <2>1, <2>2, <2>3, <2>4 DEF Shaped, Typed, Empty, f
<1> QED
  BY <1>0, <1>1, <1>2

LEMMA ShapeEnc ==
  ASSUME NEW m \in EncValues, NEW j \in DOMAIN EncFields
  PROVE  Shaped(EncFields, j, m, EncOpts, EncValues)
<1> DEFINE f == EncFields[j]
<1>0. j \in 1 .. 2
  BY DEF EncFields
<1>1. CASE j = 1
  <2>1. f.kind = "enum" /\ f.name = "Mode"
    BY <1>1 DEF EncFields, Field
  <2>2. m["Mode"] \in Int32 \cup {Nil} /\ "Mode" \in DOMAIN m
    BY DEF EncValues
  <2>3. EncOpts["Mode"] = Nil
    BY DEF EncOpts
  <2>4. ASSUME NEW val \in Int32 \cup {Nil} PROVE [m EXCEPT !["Mode"] = val] \in EncValues
    BY DEF EncValues
  <2> HIDE DEF f
  <2> QED
    BY <1>0, <2>1, <2>2, <2>3, <2>4 DEF Shaped, Typed, Empty, f
<1>2. CASE j = 2
  <2>1. f.kind = "strings" /\ f.name = "KeyHashes"
    BY <1>2 DEF EncFields, Field
  <2>2. m["KeyHashes"] \in Seq(Seq(Byte)) /\ "KeyHashes" \in DOMAIN m
    BY DEF EncValues
  <2>3. EncOpts["KeyHashes"] = <<>>
    BY DEF EncOpts
  <2>4. ASSUME NEW val \in Seq(Seq(Byte)) PROVE [m EXCEPT !["KeyHashes"] = val] \in EncValues
    BY DEF EncValues
  <2> HIDE DEF f
  <2> QED
    BY <1>0, <2>1, <2>2, <2>3, <2>4 DEF Shaped, Typed, Empty, f
<1> QED
  BY <1>0, <1>1, <1>2

LEMMA ShapeTopicDescriptor ==
  ASSUME NEW m \in TopicDescriptorValues, NEW j \in DOMAIN TopicDescriptorFields
  PROVE  Shaped(TopicDescriptorFields, j, m, TopicDescriptor, TopicDescriptorValues)
<1> DEFINE f == TopicDescriptorFields[j]
<1>0. j \in 1 .. 3
  BY DEF TopicDescriptorFields
<1>1. CASE j = 1
  <2>1. f.kind = "string" /\ f.name = "Name"
    BY <1>1 DEF TopicDescriptorFields, Field
  <2>2. m["Name"] \in Text /\ "Name" \in DOMAIN m
    BY DEF TopicDescriptorValues
  <2>3. TopicDescriptor["Name"] = Nil
    BY DEF TopicDescriptor
  <2>4. ASSUME NEW val \in Text PROVE [m EXCEPT !["Name"] = val] \in TopicDescriptorValues
    BY DEF TopicDescriptorValues
  <2> HIDE DEF f
  <2> QED
    BY <1>0, <2>1, <2>2, <2>3, <2>4 DEF Shaped, Typed, Empty, f
<1>2. CASE j = 2
  <2>1. f.kind = "message" /\ f.name = "Auth" /\ f.of = "Auth"
    BY <1>2 DEF TopicDescriptorFields, FieldOf
  <2>2. m["Auth"] \in AuthValues \cup {Nil} /\ "Auth" \in DOMAIN m
    BY DEF TopicDescriptorValues
  <2>3. TopicDescriptor["Auth"] = Nil
    BY DEF TopicDescriptor
  <2>4. ASSUME NEW val \in AuthValues \cup {Nil} PROVE [m EXCEPT !["Auth"] = val] \in TopicDescriptorValues
    BY DEF TopicDescriptorValues
  <2>5. "Auth" \in DOMAIN Values /\ Values["Auth"] = AuthValues
    BY DEF Values
  <2> HIDE DEF f
  <2> QED
    BY <1>0, <2>1, <2>2, <2>3, <2>4, <2>5 DEF Shaped, Typed, Empty, f
<1>3. CASE j = 3
  <2>1. f.kind = "message" /\ f.name = "Enc" /\ f.of = "Enc"
    BY <1>3 DEF TopicDescriptorFields, FieldOf
  <2>2. m["Enc"] \in EncValues \cup {Nil} /\ "Enc" \in DOMAIN m
    BY DEF TopicDescriptorValues
  <2>3. TopicDescriptor["Enc"] = Nil
    BY DEF TopicDescriptor
  <2>4. ASSUME NEW val \in EncValues \cup {Nil} PROVE [m EXCEPT !["Enc"] = val] \in TopicDescriptorValues
    BY DEF TopicDescriptorValues
  <2>5. "Enc" \in DOMAIN Values /\ Values["Enc"] = EncValues
    BY DEF Values
  <2> HIDE DEF f
  <2> QED
    BY <1>0, <2>1, <2>2, <2>3, <2>4, <2>5 DEF Shaped, Typed, Empty, f
<1> QED
  BY <1>0, <1>1, <1>2, <1>3

LEMMA Shapes ==
  ASSUME NEW k \in DOMAIN Values, NEW m \in Values[k], NEW j \in DOMAIN Types[k].fields
  PROVE  Shaped(Types[k].fields, j, m, Types[k].new, Values[k])
<1>1. CASE k = "SubOpts"
  <2>1. /\ Types[k].fields = SubOptsFields /\ Values[k] = SubOptsValues
        /\ Types[k].new = SubOpts
    BY <1>1 DEF Types, Values
  <2> QED
    BY <2>1, ShapeSubOpts, Zenon
<1>2. CASE k = "Message"
  <2>1. /\ Types[k].fields = MessageFields /\ Values[k] = MessageValues
        /\ Types[k].new = Message
    BY <1>2 DEF Types, Values
  <2> QED
    BY <2>1, ShapeMessage, Zenon
<1>3. CASE k = "IHave"
  <2>1. /\ Types[k].fields = IHaveFields /\ Values[k] = IHaveValues
        /\ Types[k].new = ControlIHave
    BY <1>3 DEF Types, Values
  <2> QED
    BY <2>1, ShapeIHave, Zenon
<1>4. CASE k = "IWant"
  <2>1. /\ Types[k].fields = IWantFields /\ Values[k] = IWantValues
        /\ Types[k].new = ControlIWant
    BY <1>4 DEF Types, Values
  <2> QED
    BY <2>1, ShapeIWant, Zenon
<1>5. CASE k = "Graft"
  <2>1. /\ Types[k].fields = GraftFields /\ Values[k] = GraftValues
        /\ Types[k].new = ControlGraft
    BY <1>5 DEF Types, Values
  <2> QED
    BY <2>1, ShapeGraft, Zenon
<1>6. CASE k = "Prune"
  <2>1. /\ Types[k].fields = PruneFields /\ Values[k] = PruneValues
        /\ Types[k].new = ControlPrune
    BY <1>6 DEF Types, Values
  <2> QED
    BY <2>1, ShapePrune, Zenon
<1>7. CASE k = "Control"
  <2>1. /\ Types[k].fields = ControlFields /\ Values[k] = ControlValues
        /\ Types[k].new = ControlMessage
    BY <1>7 DEF Types, Values
  <2> QED
    BY <2>1, ShapeControl, Zenon
<1>8. CASE k = "RPC"
  <2>1. /\ Types[k].fields = RPCFields /\ Values[k] = RPCValues
        /\ Types[k].new = RPC
    BY <1>8 DEF Types, Values
  <2> QED
    BY <2>1, ShapeRPC, Zenon
<1>9. CASE k = "Auth"
  <2>1. /\ Types[k].fields = AuthFields /\ Values[k] = AuthValues
        /\ Types[k].new = AuthOpts
    BY <1>9 DEF Types, Values
  <2> QED
    BY <2>1, ShapeAuth, Zenon
<1>10. CASE k = "Enc"
  <2>1. /\ Types[k].fields = EncFields /\ Values[k] = EncValues
        /\ Types[k].new = EncOpts
    BY <1>10 DEF Types, Values
  <2> QED
    BY <2>1, ShapeEnc, Zenon
<1>11. CASE k = "TopicDescriptor"
  <2>1. /\ Types[k].fields = TopicDescriptorFields /\ Values[k] = TopicDescriptorValues
        /\ Types[k].new = TopicDescriptor
    BY <1>11 DEF Types, Values
  <2> QED
    BY <2>1, ShapeTopicDescriptor, Zenon
<1> QED
  BY KindNames, <1>1, <1>2, <1>3, <1>4, <1>5, <1>6, <1>7, <1>8, <1>9, <1>10, <1>11, Zenon
\* A struct with one of its fields set.
With(m, name, val) == [m EXCEPT ![name] = val]

LEMMA WithIs ==
  ASSUME NEW m, m = [f \in DOMAIN m |-> m[f]], NEW name \in DOMAIN m
  PROVE  /\ With(m, name, m[name]) = m
         /\ \A val : /\ DOMAIN With(m, name, val) = DOMAIN m /\ With(m, name, val)[name] = val
                     /\ \A other \in DOMAIN m \ {name} : With(m, name, val)[other] = m[other]
         /\ \A a, b : With(With(m, name, a), name, b) = With(m, name, b)
  BY DEF With

LEMMA StructWith ==
  ASSUME NEW k \in DOMAIN Values, NEW v \in Values[k], NEW j \in DOMAIN Types[k].fields,
         NEW f, f = Types[k].fields[j]
  PROVE  /\ v = [x \in DOMAIN v |-> v[x]] /\ f.name \in DOMAIN v /\ f.kind \in FieldKinds /\ j \in 1 .. 6
         /\ Typed(f, v[f.name]) /\ f.name # "XXX_unrecognized"
         /\ Types[k].new[f.name] = Empty(f)
         /\ f.kind \in {"message", "messages"} => f.of \in DOMAIN Values
         /\ \A val : Typed(f, val) => With(v, f.name, val) \in Values[k]
  BY Structs, Shapes DEF Shaped, FieldKinds, With

\* The fields of a type have names of their own.
LEMMA NamesDiffer ==
  ASSUME NEW k \in DOMAIN Values, NEW i \in DOMAIN Types[k].fields, NEW j \in DOMAIN Types[k].fields,
         Types[k].fields[i].name = Types[k].fields[j].name
  PROVE  i = j
<1>1. CASE k = "SubOpts"
  <2>1. Types[k].fields = SubOptsFields /\ DOMAIN SubOptsFields = 1 .. 2
    BY <1>1 DEF Types, SubOptsFields
  <2>2. SubOptsFields[1].name = "Subscribe" /\ SubOptsFields[2].name = "Topicid"
    BY DEF SubOptsFields, Field, FieldOf
  <2> QED
    BY <2>1, <2>2
<1>2. CASE k = "Message"
  <2>1. Types[k].fields = MessageFields /\ DOMAIN MessageFields = 1 .. 6
    BY <1>2 DEF Types, MessageFields
  <2>2. /\ MessageFields[1].name = "From"
        /\ MessageFields[2].name = "Data"
        /\ MessageFields[3].name = "Seqno"
        /\ MessageFields[4].name = "TopicIDs"
        /\ MessageFields[5].name = "Signature"
        /\ MessageFields[6].name = "Key"
    BY DEF MessageFields, Field, FieldOf
  <2> QED
    BY <2>1, <2>2
<1>3. CASE k = "IHave"
  <2>1. Types[k].fields = IHaveFields /\ DOMAIN IHaveFields = 1 .. 2
    BY <1>3 DEF Types, IHaveFields
  <2>2. IHaveFields[1].name = "TopicID" /\ IHaveFields[2].name = "MessageIDs"
    BY DEF IHaveFields, Field, FieldOf
  <2> QED
    BY <2>1, <2>2
<1>4. CASE k = "IWant"
  <2>1. Types[k].fields = IWantFields /\ DOMAIN IWantFields = 1 .. 1
    BY <1>4 DEF Types, IWantFields
  <2>2. IWantFields[1].name = "MessageIDs"
    BY DEF IWantFields, Field, FieldOf
  <2> QED
    BY <2>1, <2>2
<1>5. CASE k = "Graft"
  <2>1. Types[k].fields = GraftFields /\ DOMAIN GraftFields = 1 .. 1
    BY <1>5 DEF Types, GraftFields
  <2>2. GraftFields[1].name = "TopicID"
    BY DEF GraftFields, Field, FieldOf
  <2> QED
    BY <2>1, <2>2
<1>6. CASE k = "Prune"
  <2>1. Types[k].fields = PruneFields /\ DOMAIN PruneFields = 1 .. 1
    BY <1>6 DEF Types, PruneFields
  <2>2. PruneFields[1].name = "TopicID"
    BY DEF PruneFields, Field, FieldOf
  <2> QED
    BY <2>1, <2>2
<1>7. CASE k = "Control"
  <2>1. Types[k].fields = ControlFields /\ DOMAIN ControlFields = 1 .. 4
    BY <1>7 DEF Types, ControlFields
  <2>2. /\ ControlFields[1].name = "Ihave"
        /\ ControlFields[2].name = "Iwant"
        /\ ControlFields[3].name = "Graft"
        /\ ControlFields[4].name = "Prune"
    BY DEF ControlFields, Field, FieldOf
  <2> QED
    BY <2>1, <2>2
<1>8. CASE k = "RPC"
  <2>1. Types[k].fields = RPCFields /\ DOMAIN RPCFields = 1 .. 3
    BY <1>8 DEF Types, RPCFields
  <2>2. /\ RPCFields[1].name = "Subscriptions"
        /\ RPCFields[2].name = "Publish"
        /\ RPCFields[3].name = "Control"
    BY DEF RPCFields, Field, FieldOf
  <2> QED
    BY <2>1, <2>2
<1>9. CASE k = "Auth"
  <2>1. Types[k].fields = AuthFields /\ DOMAIN AuthFields = 1 .. 2
    BY <1>9 DEF Types, AuthFields
  <2>2. AuthFields[1].name = "Mode" /\ AuthFields[2].name = "Keys"
    BY DEF AuthFields, Field, FieldOf
  <2> QED
    BY <2>1, <2>2
<1>10. CASE k = "Enc"
  <2>1. Types[k].fields = EncFields /\ DOMAIN EncFields = 1 .. 2
    BY <1>10 DEF Types, EncFields
  <2>2. EncFields[1].name = "Mode" /\ EncFields[2].name = "KeyHashes"
    BY DEF EncFields, Field, FieldOf
  <2> QED
    BY <2>1, <2>2
<1>11. CASE k = "TopicDescriptor"
  <2>1. Types[k].fields = TopicDescriptorFields /\ DOMAIN TopicDescriptorFields = 1 .. 3
    BY <1>11 DEF Types, TopicDescriptorFields
  <2>2. /\ TopicDescriptorFields[1].name = "Name"
        /\ TopicDescriptorFields[2].name = "Auth"
        /\ TopicDescriptorFields[3].name = "Enc"
    BY DEF TopicDescriptorFields, Field, FieldOf
  <2> QED
    BY <2>1, <2>2
<1> QED
  BY KindNames, <1>1, <1>2, <1>3, <1>4, <1>5, <1>6, <1>7, <1>8, <1>9, <1>10, <1>11, Zenon

(***************************************************************************)
(* What is marshalled, field by field.                                     *)
(***************************************************************************)
\* A message in a field, with its tag and its length.
Enclosed(of, tag, m) ==
  IF m = Nil THEN <<>> ELSE <<tag>> \o encodeVarintRpc(Size(of, m)) \o MarshalTo(of, m)
\* The bytes that field j of a struct is written as, and how many Size counts for it.
FieldBytes(f, j, val) ==
  CASE f.kind = "bool" -> IF val = Nil THEN <<>> ELSE <<8 * j, IF val THEN 1 ELSE 0>>
    [] f.kind = "enum" -> Enum(8 * j, val)
    [] f.kind \in {"bytes", "string"} -> Bytes(8 * j + 2, val)
    [] f.kind = "strings" -> Strings(8 * j + 2, val)
    [] f.kind = "message" -> Enclosed(f.of, 8 * j + 2, val)
    [] f.kind = "messages" -> FlattenSeq([n \in DOMAIN val |-> Enclosed(f.of, 8 * j + 2, val[n])])
FieldSize(f, val) ==
  CASE f.kind = "bool" -> IF val = Nil THEN 0 ELSE 2
    [] f.kind = "enum" -> EnumSize(val)
    [] f.kind \in {"bytes", "string"} -> BytesSize(val)
    [] f.kind = "strings" -> PartSizes([n \in DOMAIN val |-> Len(val[n])])
    [] f.kind = "message" -> IF val = Nil THEN 0 ELSE PartSize(Size(f.of, val))
    [] f.kind = "messages" -> PartSizes([n \in DOMAIN val |-> Size(f.of, val[n])])
BytesOf(k, m) == [j \in DOMAIN Types[k].fields |->
                    FieldBytes(Types[k].fields[j], j, m[Types[k].fields[j].name])]
SizesOf(k, m) == [j \in DOMAIN Types[k].fields |->
                    FieldSize(Types[k].fields[j], m[Types[k].fields[j].name])]
\* The first n of them.
Joined(b, n) ==
  CASE n = 1 -> b[1]
    [] n = 2 -> b[1] \o b[2]
    [] n = 3 -> b[1] \o b[2] \o b[3]
    [] n = 4 -> b[1] \o b[2] \o b[3] \o b[4]
    [] n = 5 -> b[1] \o b[2] \o b[3] \o b[4] \o b[5]
    [] n = 6 -> b[1] \o b[2] \o b[3] \o b[4] \o b[5] \o b[6]
Added(s, n) ==
  CASE n = 1 -> s[1]
    [] n = 2 -> s[1] + s[2]
    [] n = 3 -> s[1] + s[2] + s[3]
    [] n = 4 -> s[1] + s[2] + s[3] + s[4]
    [] n = 5 -> s[1] + s[2] + s[3] + s[4] + s[5]
    [] n = 6 -> s[1] + s[2] + s[3] + s[4] + s[5] + s[6]
\* A struct is written field by field, in the order of their numbers, and counted in the
\* same order.
Laid(k, m) ==
  LET n == Len(Types[k].fields)
  IN /\ n \in 1 .. 6 /\ DOMAIN Types[k].fields = 1 .. n
     /\ MarshalTo(k, m) = Joined(BytesOf(k, m), n) \o m.XXX_unrecognized
     /\ Size(k, m) = Added(SizesOf(k, m), n) + Len(m.XXX_unrecognized)

LEMMA JoinedIs ==
  \A b : /\ Joined(b, 1) = b[1]
         /\ Joined(b, 2) = b[1] \o b[2]
         /\ Joined(b, 3) = b[1] \o b[2] \o b[3]
         /\ Joined(b, 4) = b[1] \o b[2] \o b[3] \o b[4]
         /\ Joined(b, 5) = b[1] \o b[2] \o b[3] \o b[4] \o b[5]
         /\ Joined(b, 6) = b[1] \o b[2] \o b[3] \o b[4] \o b[5] \o b[6]
<1> TAKE b
<1>1. /\ 1 # 2 /\ 1 # 3 /\ 1 # 4 /\ 1 # 5 /\ 1 # 6 /\ 2 # 3 /\ 2 # 4 /\ 2 # 5 /\ 2 # 6
      /\ 3 # 4 /\ 3 # 5 /\ 3 # 6 /\ 4 # 5 /\ 4 # 6 /\ 5 # 6
  OBVIOUS
<1> QED
  BY <1>1, Zenon DEF Joined

LEMMA AddedIs ==
  \A s : /\ Added(s, 1) = s[1]
         /\ Added(s, 2) = s[1] + s[2]
         /\ Added(s, 3) = s[1] + s[2] + s[3]
         /\ Added(s, 4) = s[1] + s[2] + s[3] + s[4]
         /\ Added(s, 5) = s[1] + s[2] + s[3] + s[4] + s[5]
         /\ Added(s, 6) = s[1] + s[2] + s[3] + s[4] + s[5] + s[6]
BY DEF Added

LEMMA MarshalToIs ==
  \A m : /\ MarshalTo("SubOpts", m) = SubOptsMarshalTo(m) /\ Size("SubOpts", m) = SubOptsSize(m)
         /\ MarshalTo("Message", m) = MessageMarshalTo(m) /\ Size("Message", m) = MessageSize(m)
         /\ MarshalTo("IHave", m) = IHaveMarshalTo(m) /\ Size("IHave", m) = IHaveSize(m)
         /\ MarshalTo("IWant", m) = IWantMarshalTo(m) /\ Size("IWant", m) = IWantSize(m)
         /\ MarshalTo("Graft", m) = GraftMarshalTo(m) /\ Size("Graft", m) = GraftSize(m)
         /\ MarshalTo("Prune", m) = PruneMarshalTo(m) /\ Size("Prune", m) = PruneSize(m)
         /\ MarshalTo("Control", m) = ControlMarshalTo(m) /\ Size("Control", m) = ControlSize(m)
         /\ MarshalTo("RPC", m) = RPCMarshalTo(m) /\ Size("RPC", m) = RPCSize(m)
         /\ MarshalTo("Auth", m) = AuthMarshalTo(m) /\ Size("Auth", m) = AuthSize(m)
         /\ MarshalTo("Enc", m) = EncMarshalTo(m) /\ Size("Enc", m) = EncSize(m)
         /\ MarshalTo("TopicDescriptor", m) = TopicDescriptorMarshalTo(m)
         /\ Size("TopicDescriptor", m) = TopicDescriptorSize(m)
BY DEF MarshalTo, Size

LEMMA BoolField ==
  \A f, j, val : f.kind = "bool" =>
    /\ FieldBytes(f, j, val) = IF val = Nil THEN <<>> ELSE <<8 * j, IF val THEN 1 ELSE 0>>
    /\ FieldSize(f, val) = IF val = Nil THEN 0 ELSE 2
BY DEF FieldBytes, FieldSize

LEMMA EnumField ==
  \A f, j, val : f.kind = "enum" =>
    FieldBytes(f, j, val) = Enum(8 * j, val) /\ FieldSize(f, val) = EnumSize(val)
BY DEF FieldBytes, FieldSize

LEMMA BytesField ==
  \A f, j, val : f.kind \in {"bytes", "string"} =>
    FieldBytes(f, j, val) = Bytes(8 * j + 2, val) /\ FieldSize(f, val) = BytesSize(val)
BY DEF FieldBytes, FieldSize

LEMMA StringsField ==
  \A f, j, val : f.kind = "strings" =>
    /\ FieldBytes(f, j, val) = Strings(8 * j + 2, val)
    /\ FieldSize(f, val) = PartSizes([n \in DOMAIN val |-> Len(val[n])])
BY DEF FieldBytes, FieldSize

LEMMA MessageField ==
  \A f, j, val : f.kind = "message" =>
    /\ FieldBytes(f, j, val) = Enclosed(f.of, 8 * j + 2, val)
    /\ FieldSize(f, val) = IF val = Nil THEN 0 ELSE PartSize(Size(f.of, val))
BY DEF FieldBytes, FieldSize

LEMMA MessagesField ==
  \A f, j, val : f.kind = "messages" =>
    /\ FieldBytes(f, j, val) = FlattenSeq([n \in DOMAIN val |-> Enclosed(f.of, 8 * j + 2, val[n])])
    /\ FieldSize(f, val) = PartSizes([n \in DOMAIN val |-> Size(f.of, val[n])])
BY DEF FieldBytes, FieldSize

LEMMA EnclosedIs ==
  \A tag, m : /\ Enclosed("SubOpts", tag, m) = Nested(tag, m, SubOptsSize, SubOptsMarshalTo)
              /\ Enclosed("Message", tag, m) = Nested(tag, m, MessageSize, MessageMarshalTo)
              /\ Enclosed("IHave", tag, m) = Nested(tag, m, IHaveSize, IHaveMarshalTo)
              /\ Enclosed("IWant", tag, m) = Nested(tag, m, IWantSize, IWantMarshalTo)
              /\ Enclosed("Graft", tag, m) = Nested(tag, m, GraftSize, GraftMarshalTo)
              /\ Enclosed("Prune", tag, m) = Nested(tag, m, PruneSize, PruneMarshalTo)
              /\ Enclosed("Control", tag, m) = Nested(tag, m, ControlSize, ControlMarshalTo)
              /\ Enclosed("Auth", tag, m) = Nested(tag, m, AuthSize, AuthMarshalTo)
              /\ Enclosed("Enc", tag, m) = Nested(tag, m, EncSize, EncMarshalTo)
BY MarshalToIs, Zenon DEF Enclosed, Nested

LEMMA RepeatedIs ==
  \A tag, ms :
    LET bytes(of) == FlattenSeq([n \in DOMAIN ms |-> Enclosed(of, tag, ms[n])])
        size(of) == PartSizes([n \in DOMAIN ms |-> Size(of, ms[n])])
    IN /\ bytes("SubOpts") = Repeated(tag, ms, SubOptsSize, SubOptsMarshalTo)
       /\ bytes("Message") = Repeated(tag, ms, MessageSize, MessageMarshalTo)
       /\ bytes("IHave") = Repeated(tag, ms, IHaveSize, IHaveMarshalTo)
       /\ bytes("IWant") = Repeated(tag, ms, IWantSize, IWantMarshalTo)
       /\ bytes("Graft") = Repeated(tag, ms, GraftSize, GraftMarshalTo)
       /\ bytes("Prune") = Repeated(tag, ms, PruneSize, PruneMarshalTo)
       /\ size("SubOpts") = Total(ms, SubOptsSize) /\ size("Message") = Total(ms, MessageSize)
       /\ size("IHave") = Total(ms, IHaveSize) /\ size("IWant") = Total(ms, IWantSize)
       /\ size("Graft") = Total(ms, GraftSize) /\ size("Prune") = Total(ms, PruneSize)
<1> TAKE tag, ms
<1>1. /\ FlattenSeq([n \in DOMAIN ms |-> Enclosed("SubOpts", tag, ms[n])])
              = Repeated(tag, ms, SubOptsSize, SubOptsMarshalTo)
      /\ PartSizes([n \in DOMAIN ms |-> Size("SubOpts", ms[n])]) = Total(ms, SubOptsSize)
  BY EnclosedIs, MarshalToIs, Zenon DEF Repeated, Total
<1>2. /\ FlattenSeq([n \in DOMAIN ms |-> Enclosed("Message", tag, ms[n])])
              = Repeated(tag, ms, MessageSize, MessageMarshalTo)
      /\ PartSizes([n \in DOMAIN ms |-> Size("Message", ms[n])]) = Total(ms, MessageSize)
  BY EnclosedIs, MarshalToIs, Zenon DEF Repeated, Total
<1>3. /\ FlattenSeq([n \in DOMAIN ms |-> Enclosed("IHave", tag, ms[n])])
              = Repeated(tag, ms, IHaveSize, IHaveMarshalTo)
      /\ PartSizes([n \in DOMAIN ms |-> Size("IHave", ms[n])]) = Total(ms, IHaveSize)
  BY EnclosedIs, MarshalToIs, Zenon DEF Repeated, Total
<1>4. /\ FlattenSeq([n \in DOMAIN ms |-> Enclosed("IWant", tag, ms[n])])
              = Repeated(tag, ms, IWantSize, IWantMarshalTo)
      /\ PartSizes([n \in DOMAIN ms |-> Size("IWant", ms[n])]) = Total(ms, IWantSize)
  BY EnclosedIs, MarshalToIs, Zenon DEF Repeated, Total
<1>5. /\ FlattenSeq([n \in DOMAIN ms |-> Enclosed("Graft", tag, ms[n])])
              = Repeated(tag, ms, GraftSize, GraftMarshalTo)
      /\ PartSizes([n \in DOMAIN ms |-> Size("Graft", ms[n])]) = Total(ms, GraftSize)
  BY EnclosedIs, MarshalToIs, Zenon DEF Repeated, Total
<1>6. /\ FlattenSeq([n \in DOMAIN ms |-> Enclosed("Prune", tag, ms[n])])
              = Repeated(tag, ms, PruneSize, PruneMarshalTo)
      /\ PartSizes([n \in DOMAIN ms |-> Size("Prune", ms[n])]) = Total(ms, PruneSize)
  BY EnclosedIs, MarshalToIs, Zenon DEF Repeated, Total
<1> QED
  BY <1>1, <1>2, <1>3, <1>4, <1>5, <1>6, Zenon

LEMMA LaidSubOpts == \A m : Laid("SubOpts", m)
<1> TAKE m
<1> DEFINE b == BytesOf("SubOpts", m)
           s == SizesOf("SubOpts", m)
           fs == SubOptsFields
<1>1. Types["SubOpts"].fields = fs /\ DOMAIN fs = 1 .. 2 /\ Len(fs) = 2
  BY DEF Types, SubOptsFields
<1>2. \A j \in 1 .. 2 : b[j] = FieldBytes(fs[j], j, m[fs[j].name]) /\ s[j] = FieldSize(fs[j], m[fs[j].name])
  BY <1>1 DEF BytesOf, SizesOf
<1> HIDE DEF b, s, fs
<1>b1. /\ b[1] = IF m.Subscribe = Nil THEN <<>> ELSE <<8, IF m.Subscribe THEN 1 ELSE 0>>
       /\ s[1] = IF m.Subscribe = Nil THEN 0 ELSE 2
  <2>1. fs[1].kind = "bool" /\ fs[1].name = "Subscribe"
    BY DEF fs, SubOptsFields, Field
  <2> QED
    BY <1>2, <2>1, BoolField
<1>b2. b[2] = Bytes(18, m.Topicid) /\ s[2] = BytesSize(m.Topicid)
  <2>1. fs[2].kind = "string" /\ fs[2].name = "Topicid"
    BY DEF fs, SubOptsFields, Field
  <2> QED
    BY <1>2, <2>1, BytesField
<1>3. MarshalTo("SubOpts", m) = Joined(b, 2) \o m.XXX_unrecognized
  BY <1>b1, <1>b2, JoinedIs, MarshalToIs, Zenon DEF SubOptsMarshalTo
<1>4. Size("SubOpts", m) = Added(s, 2) + Len(m.XXX_unrecognized)
  BY <1>b1, <1>b2, AddedIs, MarshalToIs, Zenon DEF SubOptsSize
<1> QED
  BY <1>1, <1>3, <1>4 DEF Laid, b, s

LEMMA LaidMessage == \A m : Laid("Message", m)
<1> TAKE m
<1> DEFINE b == BytesOf("Message", m)
           s == SizesOf("Message", m)
           fs == MessageFields
<1>1. Types["Message"].fields = fs /\ DOMAIN fs = 1 .. 6 /\ Len(fs) = 6
  BY DEF Types, MessageFields
<1>2. \A j \in 1 .. 6 : b[j] = FieldBytes(fs[j], j, m[fs[j].name]) /\ s[j] = FieldSize(fs[j], m[fs[j].name])
  BY <1>1 DEF BytesOf, SizesOf
<1> HIDE DEF b, s, fs
<1>b1. b[1] = Bytes(10, m.From) /\ s[1] = BytesSize(m.From)
  <2>1. fs[1].kind = "bytes" /\ fs[1].name = "From"
    BY DEF fs, MessageFields, Field
  <2> QED
    BY <1>2, <2>1, BytesField
<1>b2. b[2] = Bytes(18, m.Data) /\ s[2] = BytesSize(m.Data)
  <2>1. fs[2].kind = "bytes" /\ fs[2].name = "Data"
    BY DEF fs, MessageFields, Field
  <2> QED
    BY <1>2, <2>1, BytesField
<1>b3. b[3] = Bytes(26, m.Seqno) /\ s[3] = BytesSize(m.Seqno)
  <2>1. fs[3].kind = "bytes" /\ fs[3].name = "Seqno"
    BY DEF fs, MessageFields, Field
  <2> QED
    BY <1>2, <2>1, BytesField
<1>b4. b[4] = Strings(34, m.TopicIDs) /\ s[4] = Total(m.TopicIDs, Len)
  <2>1. fs[4].kind = "strings" /\ fs[4].name = "TopicIDs"
    BY DEF fs, MessageFields, Field
  <2> QED
    BY <1>2, <2>1, StringsField DEF Total
<1>b5. b[5] = Bytes(42, m.Signature) /\ s[5] = BytesSize(m.Signature)
  <2>1. fs[5].kind = "bytes" /\ fs[5].name = "Signature"
    BY DEF fs, MessageFields, Field
  <2> QED
    BY <1>2, <2>1, BytesField
<1>b6. b[6] = Bytes(50, m.Key) /\ s[6] = BytesSize(m.Key)
  <2>1. fs[6].kind = "bytes" /\ fs[6].name = "Key"
    BY DEF fs, MessageFields, Field
  <2> QED
    BY <1>2, <2>1, BytesField
<1>3. MarshalTo("Message", m) = Joined(b, 6) \o m.XXX_unrecognized
  BY <1>b1, <1>b2, <1>b3, <1>b4, <1>b5, <1>b6, JoinedIs, MarshalToIs, Zenon DEF MessageMarshalTo
<1>4. Size("Message", m) = Added(s, 6) + Len(m.XXX_unrecognized)
  BY <1>b1, <1>b2, <1>b3, <1>b4, <1>b5, <1>b6, AddedIs, MarshalToIs, Zenon DEF MessageSize
<1> QED
  BY <1>1, <1>3, <1>4 DEF Laid, b, s

LEMMA LaidIHave == \A m : Laid("IHave", m)
<1> TAKE m
<1> DEFINE b == BytesOf("IHave", m)
           s == SizesOf("IHave", m)
           fs == IHaveFields
<1>1. Types["IHave"].fields = fs /\ DOMAIN fs = 1 .. 2 /\ Len(fs) = 2
  BY DEF Types, IHaveFields
<1>2. \A j \in 1 .. 2 : b[j] = FieldBytes(fs[j], j, m[fs[j].name]) /\ s[j] = FieldSize(fs[j], m[fs[j].name])
  BY <1>1 DEF BytesOf, SizesOf
<1> HIDE DEF b, s, fs
<1>b1. b[1] = Bytes(10, m.TopicID) /\ s[1] = BytesSize(m.TopicID)
  <2>1. fs[1].kind = "string" /\ fs[1].name = "TopicID"
    BY DEF fs, IHaveFields, Field
  <2> QED
    BY <1>2, <2>1, BytesField
<1>b2. b[2] = Strings(18, m.MessageIDs) /\ s[2] = Total(m.MessageIDs, Len)
  <2>1. fs[2].kind = "strings" /\ fs[2].name = "MessageIDs"
    BY DEF fs, IHaveFields, Field
  <2> QED
    BY <1>2, <2>1, StringsField DEF Total
<1>3. MarshalTo("IHave", m) = Joined(b, 2) \o m.XXX_unrecognized
  BY <1>b1, <1>b2, JoinedIs, MarshalToIs, Zenon DEF IHaveMarshalTo
<1>4. Size("IHave", m) = Added(s, 2) + Len(m.XXX_unrecognized)
  BY <1>b1, <1>b2, AddedIs, MarshalToIs, Zenon DEF IHaveSize
<1> QED
  BY <1>1, <1>3, <1>4 DEF Laid, b, s

LEMMA LaidIWant == \A m : Laid("IWant", m)
<1> TAKE m
<1> DEFINE b == BytesOf("IWant", m)
           s == SizesOf("IWant", m)
           fs == IWantFields
<1>1. Types["IWant"].fields = fs /\ DOMAIN fs = 1 .. 1 /\ Len(fs) = 1
  BY DEF Types, IWantFields
<1>2. \A j \in 1 .. 1 : b[j] = FieldBytes(fs[j], j, m[fs[j].name]) /\ s[j] = FieldSize(fs[j], m[fs[j].name])
  BY <1>1 DEF BytesOf, SizesOf
<1> HIDE DEF b, s, fs
<1>b1. b[1] = Strings(10, m.MessageIDs) /\ s[1] = Total(m.MessageIDs, Len)
  <2>1. fs[1].kind = "strings" /\ fs[1].name = "MessageIDs"
    BY DEF fs, IWantFields, Field
  <2> QED
    BY <1>2, <2>1, StringsField DEF Total
<1>3. MarshalTo("IWant", m) = Joined(b, 1) \o m.XXX_unrecognized
  BY <1>b1, JoinedIs, MarshalToIs, Zenon DEF IWantMarshalTo
<1>4. Size("IWant", m) = Added(s, 1) + Len(m.XXX_unrecognized)
  BY <1>b1, AddedIs, MarshalToIs, Zenon DEF IWantSize
<1> QED
  BY <1>1, <1>3, <1>4 DEF Laid, b, s

LEMMA LaidGraft == \A m : Laid("Graft", m)
<1> TAKE m
<1> DEFINE b == BytesOf("Graft", m)
           s == SizesOf("Graft", m)
           fs == GraftFields
<1>1. Types["Graft"].fields = fs /\ DOMAIN fs = 1 .. 1 /\ Len(fs) = 1
  BY DEF Types, GraftFields
<1>2. \A j \in 1 .. 1 : b[j] = FieldBytes(fs[j], j, m[fs[j].name]) /\ s[j] = FieldSize(fs[j], m[fs[j].name])
  BY <1>1 DEF BytesOf, SizesOf
<1> HIDE DEF b, s, fs
<1>b1. b[1] = Bytes(10, m.TopicID) /\ s[1] = BytesSize(m.TopicID)
  <2>1. fs[1].kind = "string" /\ fs[1].name = "TopicID"
    BY DEF fs, GraftFields, Field
  <2> QED
    BY <1>2, <2>1, BytesField
<1>3. MarshalTo("Graft", m) = Joined(b, 1) \o m.XXX_unrecognized
  BY <1>b1, JoinedIs, MarshalToIs, Zenon DEF GraftMarshalTo
<1>4. Size("Graft", m) = Added(s, 1) + Len(m.XXX_unrecognized)
  BY <1>b1, AddedIs, MarshalToIs, Zenon DEF GraftSize
<1> QED
  BY <1>1, <1>3, <1>4 DEF Laid, b, s

LEMMA LaidPrune == \A m : Laid("Prune", m)
<1> TAKE m
<1> DEFINE b == BytesOf("Prune", m)
           s == SizesOf("Prune", m)
           fs == PruneFields
<1>1. Types["Prune"].fields = fs /\ DOMAIN fs = 1 .. 1 /\ Len(fs) = 1
  BY DEF Types, PruneFields
<1>2. \A j \in 1 .. 1 : b[j] = FieldBytes(fs[j], j, m[fs[j].name]) /\ s[j] = FieldSize(fs[j], m[fs[j].name])
  BY <1>1 DEF BytesOf, SizesOf
<1> HIDE DEF b, s, fs
<1>b1. b[1] = Bytes(10, m.TopicID) /\ s[1] = BytesSize(m.TopicID)
  <2>1. fs[1].kind = "string" /\ fs[1].name = "TopicID"
    BY DEF fs, PruneFields, Field
  <2> QED
    BY <1>2, <2>1, BytesField
<1>3. MarshalTo("Prune", m) = Joined(b, 1) \o m.XXX_unrecognized
  BY <1>b1, JoinedIs, MarshalToIs, Zenon DEF PruneMarshalTo
<1>4. Size("Prune", m) = Added(s, 1) + Len(m.XXX_unrecognized)
  BY <1>b1, AddedIs, MarshalToIs, Zenon DEF PruneSize
<1> QED
  BY <1>1, <1>3, <1>4 DEF Laid, b, s

LEMMA LaidControl == \A m : Laid("Control", m)
<1> TAKE m
<1> DEFINE b == BytesOf("Control", m)
           s == SizesOf("Control", m)
           fs == ControlFields
<1>1. Types["Control"].fields = fs /\ DOMAIN fs = 1 .. 4 /\ Len(fs) = 4
  BY DEF Types, ControlFields
<1>2. \A j \in 1 .. 4 : b[j] = FieldBytes(fs[j], j, m[fs[j].name]) /\ s[j] = FieldSize(fs[j], m[fs[j].name])
  BY <1>1 DEF BytesOf, SizesOf
<1> HIDE DEF b, s, fs
<1>b1. b[1] = Repeated(10, m.Ihave, IHaveSize, IHaveMarshalTo) /\ s[1] = Total(m.Ihave, IHaveSize)
  <2>1. fs[1].kind = "messages" /\ fs[1].name = "Ihave" /\ fs[1].of = "IHave"
    BY DEF fs, ControlFields, FieldOf
  <2>2. /\ b[1] = FlattenSeq([n \in DOMAIN m.Ihave |-> Enclosed("IHave", 10, m.Ihave[n])])
        /\ s[1] = PartSizes([n \in DOMAIN m.Ihave |-> Size("IHave", m.Ihave[n])])
    BY <1>2, <2>1, MessagesField
  <2> QED
    BY <2>2, RepeatedIs, Zenon
<1>b2. b[2] = Repeated(18, m.Iwant, IWantSize, IWantMarshalTo) /\ s[2] = Total(m.Iwant, IWantSize)
  <2>1. fs[2].kind = "messages" /\ fs[2].name = "Iwant" /\ fs[2].of = "IWant"
    BY DEF fs, ControlFields, FieldOf
  <2>2. /\ b[2] = FlattenSeq([n \in DOMAIN m.Iwant |-> Enclosed("IWant", 18, m.Iwant[n])])
        /\ s[2] = PartSizes([n \in DOMAIN m.Iwant |-> Size("IWant", m.Iwant[n])])
    BY <1>2, <2>1, MessagesField
  <2> QED
    BY <2>2, RepeatedIs, Zenon
<1>b3. b[3] = Repeated(26, m.Graft, GraftSize, GraftMarshalTo) /\ s[3] = Total(m.Graft, GraftSize)
  <2>1. fs[3].kind = "messages" /\ fs[3].name = "Graft" /\ fs[3].of = "Graft"
    BY DEF fs, ControlFields, FieldOf
  <2>2. /\ b[3] = FlattenSeq([n \in DOMAIN m.Graft |-> Enclosed("Graft", 26, m.Graft[n])])
        /\ s[3] = PartSizes([n \in DOMAIN m.Graft |-> Size("Graft", m.Graft[n])])
    BY <1>2, <2>1, MessagesField
  <2> QED
    BY <2>2, RepeatedIs, Zenon
<1>b4. b[4] = Repeated(34, m.Prune, PruneSize, PruneMarshalTo) /\ s[4] = Total(m.Prune, PruneSize)
  <2>1. fs[4].kind = "messages" /\ fs[4].name = "Prune" /\ fs[4].of = "Prune"
    BY DEF fs, ControlFields, FieldOf
  <2>2. /\ b[4] = FlattenSeq([n \in DOMAIN m.Prune |-> Enclosed("Prune", 34, m.Prune[n])])
        /\ s[4] = PartSizes([n \in DOMAIN m.Prune |-> Size("Prune", m.Prune[n])])
    BY <1>2, <2>1, MessagesField
  <2> QED
    BY <2>2, RepeatedIs, Zenon
<1>3. MarshalTo("Control", m) = Joined(b, 4) \o m.XXX_unrecognized
  BY <1>b1, <1>b2, <1>b3, <1>b4, JoinedIs, MarshalToIs, Zenon DEF ControlMarshalTo
<1>4. Size("Control", m) = Added(s, 4) + Len(m.XXX_unrecognized)
  BY <1>b1, <1>b2, <1>b3, <1>b4, AddedIs, MarshalToIs, Zenon DEF ControlSize
<1> QED
  BY <1>1, <1>3, <1>4 DEF Laid, b, s

LEMMA LaidRPC == \A m : Laid("RPC", m)
<1> TAKE m
<1> DEFINE b == BytesOf("RPC", m)
           s == SizesOf("RPC", m)
           fs == RPCFields
<1>1. Types["RPC"].fields = fs /\ DOMAIN fs = 1 .. 3 /\ Len(fs) = 3
  BY DEF Types, RPCFields
<1>2. \A j \in 1 .. 3 : b[j] = FieldBytes(fs[j], j, m[fs[j].name]) /\ s[j] = FieldSize(fs[j], m[fs[j].name])
  BY <1>1 DEF BytesOf, SizesOf
<1> HIDE DEF b, s, fs
<1>b1. /\ b[1] = Repeated(10, m.Subscriptions, SubOptsSize, SubOptsMarshalTo)
       /\ s[1] = Total(m.Subscriptions, SubOptsSize)
  <2>1. fs[1].kind = "messages" /\ fs[1].name = "Subscriptions" /\ fs[1].of = "SubOpts"
    BY DEF fs, RPCFields, FieldOf
  <2>2. /\ b[1] = FlattenSeq([n \in DOMAIN m.Subscriptions |-> Enclosed("SubOpts", 10, m.Subscriptions[n])])
        /\ s[1] = PartSizes([n \in DOMAIN m.Subscriptions |-> Size("SubOpts", m.Subscriptions[n])])
    BY <1>2, <2>1, MessagesField
  <2> QED
    BY <2>2, RepeatedIs, Zenon
<1>b2. /\ b[2] = Repeated(18, m.Publish, MessageSize, MessageMarshalTo)
       /\ s[2] = Total(m.Publish, MessageSize)
  <2>1. fs[2].kind = "messages" /\ fs[2].name = "Publish" /\ fs[2].of = "Message"
    BY DEF fs, RPCFields, FieldOf
  <2>2. /\ b[2] = FlattenSeq([n \in DOMAIN m.Publish |-> Enclosed("Message", 18, m.Publish[n])])
        /\ s[2] = PartSizes([n \in DOMAIN m.Publish |-> Size("Message", m.Publish[n])])
    BY <1>2, <2>1, MessagesField
  <2> QED
    BY <2>2, RepeatedIs, Zenon
<1>b3. /\ b[3] = Nested(26, m.Control, ControlSize, ControlMarshalTo)
       /\ s[3] = OptionalSize(m.Control, ControlSize)
  <2>1. fs[3].kind = "message" /\ fs[3].name = "Control" /\ fs[3].of = "Control"
    BY DEF fs, RPCFields, FieldOf
  <2>2. /\ b[3] = Enclosed("Control", 26, m.Control)
        /\ s[3] = IF m.Control = Nil THEN 0 ELSE PartSize(Size("Control", m.Control))
    BY <1>2, <2>1, MessageField
  <2> QED
    BY <2>2, EnclosedIs, MarshalToIs, Zenon DEF OptionalSize
<1>3. MarshalTo("RPC", m) = Joined(b, 3) \o m.XXX_unrecognized
  BY <1>b1, <1>b2, <1>b3, JoinedIs, MarshalToIs, Zenon DEF RPCMarshalTo
<1>4. Size("RPC", m) = Added(s, 3) + Len(m.XXX_unrecognized)
  BY <1>b1, <1>b2, <1>b3, AddedIs, MarshalToIs, Zenon DEF RPCSize
<1> QED
  BY <1>1, <1>3, <1>4 DEF Laid, b, s

LEMMA LaidAuth == \A m : Laid("Auth", m)
<1> TAKE m
<1> DEFINE b == BytesOf("Auth", m)
           s == SizesOf("Auth", m)
           fs == AuthFields
<1>1. Types["Auth"].fields = fs /\ DOMAIN fs = 1 .. 2 /\ Len(fs) = 2
  BY DEF Types, AuthFields
<1>2. \A j \in 1 .. 2 : b[j] = FieldBytes(fs[j], j, m[fs[j].name]) /\ s[j] = FieldSize(fs[j], m[fs[j].name])
  BY <1>1 DEF BytesOf, SizesOf
<1> HIDE DEF b, s, fs
<1>b1. b[1] = Enum(8, m.Mode) /\ s[1] = EnumSize(m.Mode)
  <2>1. fs[1].kind = "enum" /\ fs[1].name = "Mode"
    BY DEF fs, AuthFields, Field
  <2> QED
    BY <1>2, <2>1, EnumField
<1>b2. b[2] = Strings(18, m.Keys) /\ s[2] = Total(m.Keys, Len)
  <2>1. fs[2].kind = "strings" /\ fs[2].name = "Keys"
    BY DEF fs, AuthFields, Field
  <2> QED
    BY <1>2, <2>1, StringsField DEF Total
<1>3. MarshalTo("Auth", m) = Joined(b, 2) \o m.XXX_unrecognized
  BY <1>b1, <1>b2, JoinedIs, MarshalToIs, Zenon DEF AuthMarshalTo
<1>4. Size("Auth", m) = Added(s, 2) + Len(m.XXX_unrecognized)
  BY <1>b1, <1>b2, AddedIs, MarshalToIs, Zenon DEF AuthSize
<1> QED
  BY <1>1, <1>3, <1>4 DEF Laid, b, s

LEMMA LaidEnc == \A m : Laid("Enc", m)
<1> TAKE m
<1> DEFINE b == BytesOf("Enc", m)
           s == SizesOf("Enc", m)
           fs == EncFields
<1>1. Types["Enc"].fields = fs /\ DOMAIN fs = 1 .. 2 /\ Len(fs) = 2
  BY DEF Types, EncFields
<1>2. \A j \in 1 .. 2 : b[j] = FieldBytes(fs[j], j, m[fs[j].name]) /\ s[j] = FieldSize(fs[j], m[fs[j].name])
  BY <1>1 DEF BytesOf, SizesOf
<1> HIDE DEF b, s, fs
<1>b1. b[1] = Enum(8, m.Mode) /\ s[1] = EnumSize(m.Mode)
  <2>1. fs[1].kind = "enum" /\ fs[1].name = "Mode"
    BY DEF fs, EncFields, Field
  <2> QED
    BY <1>2, <2>1, EnumField
<1>b2. b[2] = Strings(18, m.KeyHashes) /\ s[2] = Total(m.KeyHashes, Len)
  <2>1. fs[2].kind = "strings" /\ fs[2].name = "KeyHashes"
    BY DEF fs, EncFields, Field
  <2> QED
    BY <1>2, <2>1, StringsField DEF Total
<1>3. MarshalTo("Enc", m) = Joined(b, 2) \o m.XXX_unrecognized
  BY <1>b1, <1>b2, JoinedIs, MarshalToIs, Zenon DEF EncMarshalTo
<1>4. Size("Enc", m) = Added(s, 2) + Len(m.XXX_unrecognized)
  BY <1>b1, <1>b2, AddedIs, MarshalToIs, Zenon DEF EncSize
<1> QED
  BY <1>1, <1>3, <1>4 DEF Laid, b, s

LEMMA LaidTopicDescriptor == \A m : Laid("TopicDescriptor", m)
<1> TAKE m
<1> DEFINE b == BytesOf("TopicDescriptor", m)
           s == SizesOf("TopicDescriptor", m)
           fs == TopicDescriptorFields
<1>1. Types["TopicDescriptor"].fields = fs /\ DOMAIN fs = 1 .. 3 /\ Len(fs) = 3
  BY DEF Types, TopicDescriptorFields
<1>2. \A j \in 1 .. 3 : b[j] = FieldBytes(fs[j], j, m[fs[j].name]) /\ s[j] = FieldSize(fs[j], m[fs[j].name])
  BY <1>1 DEF BytesOf, SizesOf
<1> HIDE DEF b, s, fs
<1>b1. b[1] = Bytes(10, m.Name) /\ s[1] = BytesSize(m.Name)
  <2>1. fs[1].kind = "string" /\ fs[1].name = "Name"
    BY DEF fs, TopicDescriptorFields, Field
  <2> QED
    BY <1>2, <2>1, BytesField
<1>b2. b[2] = Nested(18, m.Auth, AuthSize, AuthMarshalTo) /\ s[2] = OptionalSize(m.Auth, AuthSize)
  <2>1. fs[2].kind = "message" /\ fs[2].name = "Auth" /\ fs[2].of = "Auth"
    BY DEF fs, TopicDescriptorFields, FieldOf
  <2>2. b[2] = Enclosed("Auth", 18, m.Auth) /\ s[2] = IF m.Auth = Nil THEN 0 ELSE PartSize(Size("Auth", m.Auth))
    BY <1>2, <2>1, MessageField
  <2> QED
    BY <2>2, EnclosedIs, MarshalToIs, Zenon DEF OptionalSize
<1>b3. b[3] = Nested(26, m.Enc, EncSize, EncMarshalTo) /\ s[3] = OptionalSize(m.Enc, EncSize)
  <2>1. fs[3].kind = "message" /\ fs[3].name = "Enc" /\ fs[3].of = "Enc"
    BY DEF fs, TopicDescriptorFields, FieldOf
  <2>2. b[3] = Enclosed("Enc", 26, m.Enc) /\ s[3] = IF m.Enc = Nil THEN 0 ELSE PartSize(Size("Enc", m.Enc))
    BY <1>2, <2>1, MessageField
  <2> QED
    BY <2>2, EnclosedIs, MarshalToIs, Zenon DEF OptionalSize
<1>3. MarshalTo("TopicDescriptor", m) = Joined(b, 3) \o m.XXX_unrecognized
  BY <1>b1, <1>b2, <1>b3, JoinedIs, MarshalToIs, Zenon DEF TopicDescriptorMarshalTo
<1>4. Size("TopicDescriptor", m) = Added(s, 3) + Len(m.XXX_unrecognized)
  BY <1>b1, <1>b2, <1>b3, AddedIs, MarshalToIs, Zenon DEF TopicDescriptorSize
<1> QED
  BY <1>1, <1>3, <1>4 DEF Laid, b, s

LEMMA LaidAll == \A k \in DOMAIN Values : \A m : Laid(k, m)
  BY KindNames, LaidSubOpts, LaidMessage, LaidIHave, LaidIWant, LaidGraft, LaidPrune, LaidControl,
     LaidRPC, LaidAuth, LaidEnc, LaidTopicDescriptor

(***************************************************************************)
(* What is marshalled has the length that Size says: every type.           *)
(***************************************************************************)
Fitting(k) == \A m \in Values[k] : Fits(MarshalTo(k, m), Size(k, m))

\* One field, of any kind, takes the bytes that FieldSize says.
LEMMA FieldFits ==
  ASSUME NEW f, f.kind \in FieldKinds, NEW j \in 1 .. 6, NEW val, Typed(f, val),
         f.kind \in {"message", "messages"} => f.of \in DOMAIN Values /\ Fitting(f.of)
  PROVE  Fits(FieldBytes(f, j, val), FieldSize(f, val))
<1>0. 8 * j \in Byte /\ 8 * j + 2 \in Byte
  BY DEF Byte
<1>1. CASE f.kind = "bool"
  <2>1. val \in BOOLEAN \cup {Nil}
    BY <1>1 DEF Typed
  <2>2. CASE val = Nil
    <3>1. FieldBytes(f, j, val) = <<>> /\ FieldSize(f, val) = 0
      BY <1>1, <2>2 DEF FieldBytes, FieldSize
    <3> QED
      BY <3>1, FitsNone
  <2>3. CASE val # Nil
    <3> DEFINE b == IF val THEN 1 ELSE 0
    <3>1. FieldBytes(f, j, val) = <<8 * j, b>> /\ FieldSize(f, val) = 2
      BY <1>1, <2>3 DEF FieldBytes, FieldSize
    <3>2. b \in Byte
      BY DEF Byte
    <3> HIDE DEF b
    <3> QED
      BY <1>0, <3>1, <3>2 DEF Fits
  <2> QED
    BY <2>2, <2>3
<1>2. CASE f.kind = "enum"
  <2>1. FieldBytes(f, j, val) = Enum(8 * j, val) /\ FieldSize(f, val) = EnumSize(val)
    BY <1>2 DEF FieldBytes, FieldSize
  <2>2. val \in Int32 \cup {Nil}
    BY <1>2 DEF Typed
  <2> QED
    BY <1>0, <2>1, <2>2, FitsEnum
<1>3. CASE f.kind \in {"bytes", "string"}
  <2>1. FieldBytes(f, j, val) = Bytes(8 * j + 2, val) /\ FieldSize(f, val) = BytesSize(val)
    BY <1>3 DEF FieldBytes, FieldSize
  <2>2. val \in Text
    BY <1>3 DEF Typed
  <2> QED
    BY <1>0, <2>1, <2>2, FitsBytes
<1>4. CASE f.kind = "strings"
  <2>1. /\ FieldBytes(f, j, val) = Strings(8 * j + 2, val)
        /\ FieldSize(f, val) = Total(val, Len)
    BY <1>4 DEF FieldBytes, FieldSize, Total
  <2>2. val \in Seq(Seq(Byte))
    BY <1>4 DEF Typed
  <2> QED
    BY <1>0, <2>1, <2>2, FitsStrings
<1>m. ASSUME f.kind \in {"message", "messages"}, NEW m \in Values[f.of]
      PROVE  /\ Fits(Enclosed(f.of, 8 * j + 2, m), PartSize(Size(f.of, m))) /\ m # Nil
             /\ Size(f.of, m) \in Nat
  <2>1. m # Nil
    BY <1>m, NoStructAssumption
  <2>2. Fits(MarshalTo(f.of, m), Size(f.of, m))
    BY <1>m, Zenon DEF Fitting
  <2>3. Enclosed(f.of, 8 * j + 2, m) =
          <<8 * j + 2>> \o encodeVarintRpc(Size(f.of, m)) \o MarshalTo(f.of, m)
    BY <2>1, Zenon DEF Enclosed
  <2>4. Fits(<<8 * j + 2>> \o encodeVarintRpc(Size(f.of, m)) \o MarshalTo(f.of, m), PartSize(Size(f.of, m)))
    BY <1>0, <2>2, FitsPart, Zenon
  <2> QED
    BY <2>1, <2>2, <2>3, <2>4, Zenon DEF Fits
<1>5. CASE f.kind = "message"
  <2>1. val \in Values[f.of] \cup {Nil}
    BY <1>5 DEF Typed
  <2>2. /\ FieldBytes(f, j, val) = Enclosed(f.of, 8 * j + 2, val)
        /\ FieldSize(f, val) = IF val = Nil THEN 0 ELSE PartSize(Size(f.of, val))
    BY <1>5, MessageField, Zenon
  <2>3. CASE val = Nil
    <3>1. FieldBytes(f, j, val) = <<>> /\ FieldSize(f, val) = 0
      BY <2>2, <2>3 DEF Enclosed
    <3> QED
      BY <3>1, FitsNone
  <2>4. CASE val # Nil
    <3>1. Fits(Enclosed(f.of, 8 * j + 2, val), PartSize(Size(f.of, val)))
      BY <1>5, <1>m, <2>1, <2>4
    <3> QED
      BY <2>2, <2>4, <3>1, Zenon
  <2> QED
    BY <2>3, <2>4
<1>6. CASE f.kind = "messages"
  <2> DEFINE parts == [n \in DOMAIN val |-> Enclosed(f.of, 8 * j + 2, val[n])]
             lens == [n \in DOMAIN val |-> Size(f.of, val[n])]
  <2>1. FieldBytes(f, j, val) = FlattenSeq(parts) /\ FieldSize(f, val) = PartSizes(lens)
    BY <1>6, MessagesField, Zenon
  <2>2. Len(val) \in Nat /\ DOMAIN val = 1 .. Len(val) /\ \A n \in 1 .. Len(val) : val[n] \in Values[f.of]
    BY <1>6 DEF Typed
  <2>3. ASSUME NEW n \in 1 .. Len(val) PROVE lens[n] \in Nat /\ Fits(parts[n], PartSize(lens[n]))
    BY <1>6, <1>m, <2>2
  <2>4. /\ DOMAIN parts = 1 .. Len(val) /\ DOMAIN lens = 1 .. Len(val)
        /\ parts = [n \in 1 .. Len(val) |-> parts[n]] /\ lens = [n \in 1 .. Len(val) |-> lens[n]]
    BY <2>2, Zenon
  <2> HIDE DEF parts, lens
  <2>5. Fits(FlattenSeq(parts), PartSizes(lens))
    BY <2>2, <2>3, <2>4, FitsFamily, Zenon
  <2> QED
    BY <2>1, <2>5, Zenon
<1> QED
  BY <1>1, <1>2, <1>3, <1>4, <1>5, <1>6 DEF FieldKinds

\* What is joined of one field more.
LEMMA JoinedStep ==
  \A b, s : \A n \in 1 .. 5 : /\ Joined(b, n + 1) = Joined(b, n) \o b[n + 1]
                            /\ Added(s, n + 1) = Added(s, n) + s[n + 1]
<1> TAKE b, s
<1> TAKE n \in 1 .. 5
<1>1. n = 1 \/ n = 2 \/ n = 3 \/ n = 4 \/ n = 5
  OBVIOUS
<1>2. 1 + 1 = 2 /\ 2 + 1 = 3 /\ 3 + 1 = 4 /\ 4 + 1 = 5 /\ 5 + 1 = 6
  OBVIOUS
<1>3. CASE n = 1
  BY <1>2, <1>3, JoinedIs, AddedIs, Zenon
<1>4. CASE n = 2
  BY <1>2, <1>4, JoinedIs, AddedIs, Zenon
<1>5. CASE n = 3
  BY <1>2, <1>5, JoinedIs, AddedIs, Zenon
<1>6. CASE n = 4
  BY <1>2, <1>6, JoinedIs, AddedIs, Zenon
<1>7. CASE n = 5
  BY <1>2, <1>7, JoinedIs, AddedIs, Zenon
<1> QED
  BY <1>1, <1>3, <1>4, <1>5, <1>6, <1>7

\* Pieces that fit fit together.
LEMMA JoinedFits ==
  ASSUME NEW n \in 1 .. 6, NEW b, NEW s, \A j \in 1 .. n : Fits(b[j], s[j])
  PROVE  Fits(Joined(b, n), Added(s, n))
<1> DEFINE P == {i \in 1 .. n : Fits(Joined(b, i), Added(s, i))}
<1>1. 1 \in P
  <2>1. 1 \in 1 .. n
    OBVIOUS
  <2> QED
    BY <2>1, JoinedIs, AddedIs, Zenon
<1>2. ASSUME NEW i \in 1 + 1 .. n, i - 1 \in P PROVE i \in P
  <2>1. i - 1 \in 1 .. 5 /\ i - 1 + 1 = i /\ i \in 1 .. n
    OBVIOUS
  <2>2. Joined(b, i) = Joined(b, i - 1) \o b[i] /\ Added(s, i) = Added(s, i - 1) + s[i]
    BY <2>1, JoinedStep
  <2>3. Fits(Joined(b, i - 1), Added(s, i - 1)) /\ Fits(b[i], s[i])
    BY <1>2, <2>1, Zenon
  <2> QED
    BY <2>1, <2>2, <2>3, FitsConcat
<1> HIDE DEF P
<1>3. \A i \in 1 .. n : i \in P
  BY <1>1, <1>2, ChainInduction
<1>4. n \in P
  BY <1>3
<1> QED
  BY <1>4 DEF P

\* A struct fits if the structs in it do.
LEMMA StructFits ==
  ASSUME NEW k \in DOMAIN Values,
         \A j \in DOMAIN Types[k].fields : Types[k].fields[j].kind \in {"message", "messages"} =>
           Fitting(Types[k].fields[j].of)
  PROVE  Fitting(k)
<1> SUFFICES ASSUME NEW m \in Values[k] PROVE Fits(MarshalTo(k, m), Size(k, m))
  BY DEF Fitting
<1> DEFINE b == BytesOf(k, m)
           s == SizesOf(k, m)
           n == Len(Types[k].fields)
<1>1. /\ n \in 1 .. 6 /\ DOMAIN Types[k].fields = 1 .. n
      /\ MarshalTo(k, m) = Joined(b, n) \o m.XXX_unrecognized
      /\ Size(k, m) = Added(s, n) + Len(m.XXX_unrecognized)
  BY LaidAll, Zenon DEF Laid
<1>2. ASSUME NEW j \in 1 .. n PROVE Fits(b[j], s[j])
  <2> DEFINE f == Types[k].fields[j]
  <2>0. j \in DOMAIN Types[k].fields
    BY <1>1, Zenon
  <2>1. /\ b[j] = FieldBytes(f, j, m[f.name])
        /\ s[j] = FieldSize(f, m[f.name])
        /\ j \in DOMAIN Types[k].fields
    BY <2>0, Zenon DEF BytesOf, SizesOf
  <2>2. /\ f.kind \in FieldKinds /\ j \in 1 .. 6 /\ Typed(f, m[f.name])
        /\ f.kind \in {"message", "messages"} => f.of \in DOMAIN Values
    BY <2>1, StructWith
  <2>3. f.kind \in {"message", "messages"} => Fitting(f.of)
    BY <2>1
  <2> HIDE DEF f, b, s
  <2>4. Fits(FieldBytes(f, j, m[f.name]), FieldSize(f, m[f.name]))
    BY <2>2, <2>3, FieldFits, Zenon
  <2> QED
    BY <2>1, <2>4
<1> HIDE DEF b, s, n
<1>3. Fits(Joined(b, n), Added(s, n))
  BY <1>1, <1>2, JoinedFits
<1>4. Fits(m.XXX_unrecognized, Len(m.XXX_unrecognized))
  BY Structs, FitsAsItIs
<1> QED
  BY <1>1, <1>3, <1>4, FitsConcat

\* No message is in those of the first kinds, and only these are in Control and TopicDescriptor.
FlatKinds == {"SubOpts", "Message", "IHave", "IWant", "Graft", "Prune", "Auth", "Enc"}

LEMMA FlatFields ==
  ASSUME NEW k \in FlatKinds, NEW j \in DOMAIN Types[k].fields
  PROVE  Types[k].fields[j].kind \notin {"message", "messages"}
<1>1. CASE k = "SubOpts"
  <2>1. Types[k].fields = SubOptsFields
    BY <1>1 DEF Types
  <2>2. DOMAIN SubOptsFields = 1 .. 2 /\ \A i \in 1 .. 2 : SubOptsFields[i].kind \notin {"message", "messages"}
    BY DEF SubOptsFields, Field
  <2> QED
    BY <2>1, <2>2
<1>2. CASE k = "Message"
  <2>1. Types[k].fields = MessageFields
    BY <1>2 DEF Types
  <2>2. DOMAIN MessageFields = 1 .. 6 /\ \A i \in 1 .. 6 : MessageFields[i].kind \notin {"message", "messages"}
    BY DEF MessageFields, Field
  <2> QED
    BY <2>1, <2>2
<1>3. CASE k = "IHave"
  <2>1. Types[k].fields = IHaveFields
    BY <1>3 DEF Types
  <2>2. DOMAIN IHaveFields = 1 .. 2 /\ \A i \in 1 .. 2 : IHaveFields[i].kind \notin {"message", "messages"}
    BY DEF IHaveFields, Field
  <2> QED
    BY <2>1, <2>2
<1>4. CASE k = "IWant"
  <2>1. Types[k].fields = IWantFields
    BY <1>4 DEF Types
  <2>2. DOMAIN IWantFields = 1 .. 1 /\ \A i \in 1 .. 1 : IWantFields[i].kind \notin {"message", "messages"}
    BY DEF IWantFields, Field
  <2> QED
    BY <2>1, <2>2
<1>5. CASE k = "Graft"
  <2>1. Types[k].fields = GraftFields
    BY <1>5 DEF Types
  <2>2. DOMAIN GraftFields = 1 .. 1 /\ \A i \in 1 .. 1 : GraftFields[i].kind \notin {"message", "messages"}
    BY DEF GraftFields, Field
  <2> QED
    BY <2>1, <2>2
<1>6. CASE k = "Prune"
  <2>1. Types[k].fields = PruneFields
    BY <1>6 DEF Types
  <2>2. DOMAIN PruneFields = 1 .. 1 /\ \A i \in 1 .. 1 : PruneFields[i].kind \notin {"message", "messages"}
    BY DEF PruneFields, Field
  <2> QED
    BY <2>1, <2>2
<1>7. CASE k = "Auth"
  <2>1. Types[k].fields = AuthFields
    BY <1>7 DEF Types
  <2>2. DOMAIN AuthFields = 1 .. 2 /\ \A i \in 1 .. 2 : AuthFields[i].kind \notin {"message", "messages"}
    BY DEF AuthFields, Field
  <2> QED
    BY <2>1, <2>2
<1>8. CASE k = "Enc"
  <2>1. Types[k].fields = EncFields
    BY <1>8 DEF Types
  <2>2. DOMAIN EncFields = 1 .. 2 /\ \A i \in 1 .. 2 : EncFields[i].kind \notin {"message", "messages"}
    BY DEF EncFields, Field
  <2> QED
    BY <2>1, <2>2
<1> QED
  BY <1>1, <1>2, <1>3, <1>4, <1>5, <1>6, <1>7, <1>8, Zenon DEF FlatKinds

LEMMA InnerFields ==
  /\ \A j \in DOMAIN ControlFields : ControlFields[j].of \in FlatKinds
  /\ \A j \in DOMAIN RPCFields : RPCFields[j].of \in FlatKinds \cup {"Control"}
  /\ \A j \in DOMAIN TopicDescriptorFields :
       TopicDescriptorFields[j].kind \in {"message", "messages"} => TopicDescriptorFields[j].of \in FlatKinds
<1>1. \A j \in DOMAIN ControlFields : ControlFields[j].of \in FlatKinds
  BY DEF ControlFields, FieldOf, FlatKinds
<1>2. \A j \in DOMAIN RPCFields : RPCFields[j].of \in FlatKinds \cup {"Control"}
  BY DEF RPCFields, FieldOf, FlatKinds
<1>3. \A j \in DOMAIN TopicDescriptorFields :
       TopicDescriptorFields[j].kind \in {"message", "messages"} => TopicDescriptorFields[j].of \in FlatKinds
  BY DEF TopicDescriptorFields, Field, FieldOf, FlatKinds
<1> QED
  BY <1>1, <1>2, <1>3

\* All that MarshalTo writes has the length that Size says.
LEMMA AllFit == \A k \in DOMAIN Values : Fitting(k)
<1>1. ASSUME NEW k \in FlatKinds PROVE Fitting(k)
  <2>1. k \in DOMAIN Values
    BY KindNames DEF FlatKinds
  <2> QED
    BY <2>1, FlatFields, StructFits, Zenon
<1>2. Fitting("Control")
  <2>1. "Control" \in DOMAIN Values /\ Types["Control"].fields = ControlFields
    BY DEF Values, Types
  <2> QED
    BY <1>1, <2>1, InnerFields, StructFits
<1>3. Fitting("TopicDescriptor")
  <2>1. "TopicDescriptor" \in DOMAIN Values /\ Types["TopicDescriptor"].fields = TopicDescriptorFields
    BY DEF Values, Types
  <2> QED
    BY <1>1, <2>1, InnerFields, StructFits
<1>4. Fitting("RPC")
  <2>1. "RPC" \in DOMAIN Values /\ Types["RPC"].fields = RPCFields
    BY DEF Values, Types
  <2> QED
    BY <1>1, <1>2, <2>1, InnerFields, StructFits
<1> QED
  BY <1>1, <1>2, <1>3, <1>4, KindNames DEF FlatKinds

\* The delimited writer takes a buffer of Size bytes and MarshalTo fills it: for every
\* value of every type the bytes are as many as Size says, and they are the frame
\* (Size and MarshalTo in rpc.pb.go, writeMsg in comm.go).
THEOREM SizeIsExact ==
  \A k \in DOMAIN Values : \A m \in Values[k] :
    /\ Size(k, m) \in Nat /\ MarshalTo(k, m) \in Seq(Byte)
    /\ Len(MarshalTo(k, m)) = Size(k, m) /\ Frame(k, m) = MarshalTo(k, m)
<1>1. ASSUME NEW k \in DOMAIN Values, NEW m \in Values[k] PROVE Fits(MarshalTo(k, m), Size(k, m))
  BY AllFit, Zenon DEF Fitting
<1>2. ASSUME NEW k \in DOMAIN Values, NEW m \in Values[k] PROVE Frame(k, m) = MarshalTo(k, m)
  <2> DEFINE b == MarshalTo(k, m)
             n == Size(k, m)
  <2>1. n \in Nat /\ b \in Seq(Byte) /\ Len(b) = n
    BY <1>1, Zenon DEF Fits
  <2>2. Frame(k, m) = [j \in 1 .. n |-> IF j <= Len(b) THEN b[j] ELSE 0]
    BY Zenon DEF Frame
  <2> HIDE DEF b, n
  <2>3. b = [j \in 1 .. n |-> IF j <= Len(b) THEN b[j] ELSE 0]
    BY <2>1
  <2> QED
    BY <2>2, <2>3 DEF b
<1> QED
  BY <1>1, <1>2, Zenon DEF Fits

LEMMA MarshalIs ==
  \A k \in DOMAIN Values : \A m \in Values[k] :
    MarshalTo(k, m) \in Seq(Byte) /\ Len(MarshalTo(k, m)) = Size(k, m) /\ Size(k, m) \in Nat
  BY SizeIsExact, Zenon

\* The size of a struct as a sum over the six fields it may have.
SizeOf(k, m, j) ==
  IF j \in DOMAIN Types[k].fields THEN FieldSize(Types[k].fields[j], m[Types[k].fields[j].name])
  ELSE 0
Summed(k, m) ==
  /\ \A j \in 1 .. 6 : SizeOf(k, m, j) \in Nat
  /\ Size(k, m) = SizeOf(k, m, 1) + SizeOf(k, m, 2) + SizeOf(k, m, 3) + SizeOf(k, m, 4)
                    + SizeOf(k, m, 5) + SizeOf(k, m, 6) + Len(m.XXX_unrecognized)

\* Size is the sum of the sizes of at most six fields, and what is not known.
LEMMA SizeSummed ==
  ASSUME NEW k \in DOMAIN Values, NEW m \in Values[k]
  PROVE  Summed(k, m)
<1> DEFINE n == Len(Types[k].fields)
           s == SizesOf(k, m)
           x == Len(m.XXX_unrecognized)
<1>1. n \in 1 .. 6 /\ DOMAIN Types[k].fields = 1 .. n /\ Size(k, m) = Added(s, n) + x
  BY LaidAll DEF Laid
<1>2. x \in Nat
  BY Structs
<1>3. \A j \in 1 .. n : s[j] = SizeOf(k, m, j) /\ SizeOf(k, m, j) \in Nat
  <2> TAKE j \in 1 .. n
  <2> DEFINE f == Types[k].fields[j]
  <2>1. s[j] = FieldSize(f, m[f.name]) /\ SizeOf(k, m, j) = FieldSize(f, m[f.name])
    BY <1>1, Zenon DEF SizesOf, SizeOf
  <2>2. f.kind \in FieldKinds /\ j \in 1 .. 6 /\ Typed(f, m[f.name])
        /\ (f.kind \in {"message", "messages"} => f.of \in DOMAIN Values)
    BY <1>1, StructWith
  <2>3. Fits(FieldBytes(f, j, m[f.name]), FieldSize(f, m[f.name]))
    <3> HIDE DEF f
    <3> QED
      BY <2>2, AllFit, FieldFits
  <2> QED
    BY <2>1, <2>3 DEF Fits
<1>4. \A j \in 1 .. 6 \ 1 .. n : SizeOf(k, m, j) = 0
  BY <1>1, Zenon DEF SizeOf
<1> DEFINE a(j) == SizeOf(k, m, j)
<1> HIDE DEF n, s, x, a
<1>5. \A j \in 1 .. 6 : a(j) \in Nat
  BY <1>1, <1>3, <1>4 DEF a
<1>6. /\ \A j \in 1 .. 6 : j > n => a(j) = 0
      /\ \A j \in 1 .. 6 : j <= n => s[j] = a(j)
  BY <1>1, <1>3, <1>4 DEF a
<1>7. Added(s, n) = a(1) + a(2) + a(3) + a(4) + a(5) + a(6)
  <2>1. CASE n = 1
    BY <1>5, <1>6, <2>1, AddedIs
  <2>2. CASE n = 2
    BY <1>5, <1>6, <2>2, AddedIs
  <2>3. CASE n = 3
    BY <1>5, <1>6, <2>3, AddedIs
  <2>4. CASE n = 4
    BY <1>5, <1>6, <2>4, AddedIs
  <2>5. CASE n = 5
    BY <1>5, <1>6, <2>5, AddedIs
  <2>6. CASE n = 6
    BY <1>5, <1>6, <2>6, AddedIs
  <2> QED
    BY <1>1, <2>1, <2>2, <2>3, <2>4, <2>5, <2>6
<1> QED
  BY <1>1, <1>5, <1>7, Zenon DEF Summed, a, x

(***************************************************************************)
(* Signatures.                                                             *)
(***************************************************************************)
\* What a key signs, and attaches where the ID of the author does not contain it, its
\* receiver verifies.
LEMMA SignedVerifies ==
  ASSUME NEW pid \in Ids, NEW m \in MessageValues,
         m.From = pid, m.Signature = Nil, m.Key = Nil
  PROVE  LET signed == signMessage(pid, PublicKey[pid], m)
         IN /\ signed \in MessageValues /\ signed.Signature # Nil
            /\ \A strict \in BOOLEAN : Accepts(strict, signed)
<1> DEFINE key == PublicKey[pid]
           bytes == Frame("Message", m)
           signed == signMessage(pid, key, m)
           xm == [signed EXCEPT !.Signature = Nil, !.Key = Nil]
<1>1. key \in Seq(Byte) /\ key # Nil
  BY KeysAssumption, NilIsNoText
<1>2. bytes \in Seq(Byte)
  <2>1. "Message" \in DOMAIN Values /\ m \in Values["Message"]
    BY DEF Values
  <2> QED
    BY <2>1, SizeIsExact, Zenon
<1>3. Sign(key, bytes) \in Seq(Byte) /\ Sign(key, bytes) # Nil
  <2>1. key \o bytes \in Seq(Byte)
    BY <1>1, <1>2, ConcatProperties, Zenon
  <2> QED
    BY <2>1, NilIsNoText, Zenon DEF Sign
<1> HIDE DEF bytes
<1>4. signed = [m EXCEPT !.Signature = Sign(key, bytes),
                         !.Key = IF ExtractPublicKey(pid) = Nil THEN key ELSE m.Key]
  BY Zenon DEF signMessage, bytes
<1> DEFINE sig == Sign(key, bytes)
           k == IF ExtractPublicKey(pid) = Nil THEN key ELSE Nil
<1>5. sig \in Text /\ k \in Text
  BY <1>1, <1>3, Zenon DEF Text
<1>6. signed = [m EXCEPT !.Signature = sig, !.Key = k]
  BY <1>4, Zenon
<1> HIDE DEF signed, sig, k
<1>7. signed \in MessageValues /\ signed.From = pid /\ signed.Signature = sig /\ signed.Key = k
  BY <1>5, <1>6 DEF MessageValues
<1>8. xm = m
  <2>1. xm \in MessageValues
    BY <1>7 DEF MessageValues, Text
  <2>2. /\ xm.From = m.From /\ xm.Data = m.Data /\ xm.Seqno = m.Seqno /\ xm.TopicIDs = m.TopicIDs
        /\ xm.Signature = m.Signature /\ xm.Key = m.Key
        /\ xm.XXX_unrecognized = m.XXX_unrecognized
    BY <1>6 DEF MessageValues
  <2> HIDE DEF xm
  <2>3. \A x \in MessageValues :
           x = [From |-> x.From, Data |-> x.Data, Seqno |-> x.Seqno, TopicIDs |-> x.TopicIDs,
            Signature |-> x.Signature, Key |-> x.Key,
            XXX_unrecognized |-> x.XXX_unrecognized]
    BY DEF MessageValues
  <2> QED
    BY <2>1, <2>2, <2>3, Zenon
<1>9. messagePubKey(signed) = key
  <2>1. CASE ExtractPublicKey(pid) = Nil
    <3>1. signed.Key = key
      BY <1>7, <2>1 DEF k
    <3> QED
      BY <1>1, <1>7, <3>1, Zenon DEF messagePubKey
  <2>2. CASE ExtractPublicKey(pid) # Nil
    <3>1. signed.Key = Nil
      BY <1>7, <2>2 DEF k
    <3>2. ExtractPublicKey(pid) = key
      BY <2>2, Zenon DEF ExtractPublicKey
    <3> QED
      BY <1>7, <3>1, <3>2, Zenon DEF messagePubKey
  <2> QED
    BY <2>1, <2>2, Zenon
<1>10. verifyMessageSignature(signed)
  BY <1>1, <1>7, <1>8, <1>9, Zenon DEF verifyMessageSignature, sig, bytes
<1> QED
  BY <1>3, <1>7, <1>10, Zenon DEF Accepts, sig, signed

\* A message without a signature passes where none is asked for.
LEMMA UnsignedAccepted == \A m : m.Signature = Nil => Accepts(FALSE, m)
BY Zenon DEF Accepts

\* The messages the two authors of the model sign are messages.
LEMMA PlainMessages ==
  ASSUME NEW data \in Payloads, NEW author \in Ids
  PROVE  /\ [Message EXCEPT !.Data = data, !.TopicIDs = <<Topic>>, !.From = author,
                            !.Seqno = Seqno] \in MessageValues
         /\ [Message EXCEPT !.Data = data, !.TopicIDs = <<Topic>>, !.From = author,
                            !.Seqno = Seqno, !.XXX_unrecognized = Extra] \in MessageValues
<1>1. data \in Text /\ author \in Text /\ Seqno \in Text /\ Nil \in Text
  BY KeysAssumption, MessagesAssumption, Zenon DEF Text
<1>2. Topic \in Seq(Byte) /\ Extra \in Seq(Byte)
  BY MessagesAssumption
<1>3. <<Topic>> \in Seq(Seq(Byte)) /\ <<>> \in Seq(Seq(Byte)) /\ <<>> \in Seq(Byte)
  BY <1>2
<1> QED
  BY <1>1, <1>2, <1>3, Zenon DEF Message, MessageValues

(***************************************************************************)
(* The options in any order, and what is published after them.             *)
(***************************************************************************)
\* The key is always that of the author, which is one of the peers: also where the
\* constructor refused an option.
AuthorInv ==
  /\ signID \in Ids /\ signStrict \in BOOLEAN
  /\ signKey = Nil \/ (signID \in Keystore /\ signKey = PublicKey[signID])
RunningInv == phase = "running" /\ signStrict => signKey # Nil
PublishedInv ==
  published # Nil => /\ phase = "running" /\ published \in MessageValues
                     /\ Accepts(signStrict, published)
                     /\ signKey # Nil => Accepts(TRUE, published)
OptionsInv == AuthorInv /\ RunningInv /\ PublishedInv

LEMMA OptionsInit == Init => OptionsInv
<1> SUFFICES ASSUME Init PROVE OptionsInv
  OBVIOUS
<1>1. AuthorInv
  BY KeysAssumption, Zenon DEF Init, AuthorInv, PrivKey
<1>2. phase # "running" /\ published = Nil
  BY DEF Init
<1> QED
  BY <1>1, <1>2, Zenon DEF OptionsInv, RunningInv, PublishedInv

\* What a step leaves alone.
LEMMA OptionsSame ==
  ASSUME OptionsInv, UNCHANGED <<config, published>>
  PROVE  OptionsInv'
<1>1. signID' = signID /\ signKey' = signKey /\ signStrict' = signStrict /\ phase' = phase
      /\ published' = published
  BY DEF config
<1>2. AuthorInv'
  BY <1>1, Zenon DEF OptionsInv, AuthorInv
<1>3. RunningInv'
  BY <1>1, Zenon DEF OptionsInv, RunningInv
<1>4. PublishedInv'
  BY <1>1, Zenon DEF OptionsInv, PublishedInv, Accepts, verifyMessageSignature, messagePubKey
<1> QED
  BY <1>2, <1>3, <1>4, Zenon DEF OptionsInv

\* An option leaves the author with a key of its own or none.
LEMMA OptionsApplied ==
  ASSUME OptionsInv, phase = "options", phase' # "running", published' = published, AuthorInv'
  PROVE  OptionsInv'
<1>1. published' = Nil
  BY Zenon DEF OptionsInv, PublishedInv
<1> QED
  BY <1>1, Zenon DEF OptionsInv, RunningInv, PublishedInv

LEMMA PublishOptions ==
  ASSUME OptionsInv, NEW data \in Payloads, Publish(data)
  PROVE  OptionsInv' /\ published' \in MessageValues
<1> DEFINE plain == [Message EXCEPT !.Data = data, !.TopicIDs = <<Topic>>, !.From = Host,
                                    !.Seqno = Seqno]
           m == IF signKey = Nil THEN plain
                ELSE signMessage(signID, signKey, [plain EXCEPT !.From = signID])
<1>1. /\ published' = m /\ phase = "running" /\ phase' = "running"
      /\ signID' = signID /\ signKey' = signKey /\ signStrict' = signStrict
  BY DEF Publish, Quiet, config
<1>2. AuthorInv /\ RunningInv /\ AuthorInv' /\ RunningInv'
  BY <1>1, Zenon DEF OptionsInv, AuthorInv, RunningInv
<1>3. CASE signKey = Nil
  <2>1. m = plain /\ plain \in MessageValues /\ plain.Signature = Nil
    <3>1. plain \in MessageValues
      BY PlainMessages, KeysAssumption, Zenon
    <3>2. plain.Signature = Nil
      BY DEF Message
    <3> QED
      BY <1>3, <3>1, <3>2, Zenon
  <2>2. signStrict = FALSE
    BY <1>1, <1>2, <1>3, Zenon DEF RunningInv, AuthorInv
  <2>3. Accepts(signStrict, m)
    BY <2>1, <2>2, UnsignedAccepted, Zenon
  <2> HIDE DEF plain, m
  <2>4. PublishedInv' /\ published' \in MessageValues
    BY <1>1, <1>3, <2>1, <2>2, <2>3, Zenon DEF PublishedInv, Accepts
  <2> QED
    BY <1>2, <2>4, Zenon DEF OptionsInv
<1>4. CASE signKey # Nil
  <2> DEFINE own == [Message EXCEPT !.Data = data, !.TopicIDs = <<Topic>>, !.From = signID,
                                    !.Seqno = Seqno]
  <2>1. signID \in Ids /\ signKey = PublicKey[signID] /\ signStrict \in BOOLEAN
    BY <1>2, <1>4, Zenon DEF AuthorInv
  <2>2. own \in MessageValues /\ own.From = signID /\ own.Signature = Nil /\ own.Key = Nil
    <3>1. own \in MessageValues
      BY <2>1, PlainMessages, Zenon
    <3> QED
      BY <3>1 DEF Message
  <2>3. [plain EXCEPT !.From = signID] = own
    BY DEF Message
  <2>4. m = signMessage(signID, PublicKey[signID], own)
    BY <1>4, <2>1, <2>3, Zenon
  <2> HIDE DEF plain, m, own
  <2>5. m \in MessageValues /\ \A strict \in BOOLEAN : Accepts(strict, m)
    BY <2>1, <2>2, <2>4, SignedVerifies, Zenon
  <2>6. Accepts(signStrict, m) /\ Accepts(TRUE, m)
    BY <2>1, <2>5, Zenon
  <2>7. PublishedInv' /\ published' \in MessageValues
    BY <1>1, <2>5, <2>6, Zenon DEF PublishedInv, Accepts
  <2> QED
    BY <1>2, <2>7, Zenon DEF OptionsInv
<1> QED
  BY <1>3, <1>4, Zenon

LEMMA PublishNewerOptions ==
  ASSUME OptionsInv, NEW author \in Ids, NEW data \in Payloads, PublishNewer(author, data)
  PROVE  OptionsInv' /\ published' \in MessageValues
<1> DEFINE m == [Message EXCEPT !.Data = data, !.TopicIDs = <<Topic>>, !.From = author,
                                !.Seqno = Seqno, !.XXX_unrecognized = Extra]
           signed == signMessage(author, PublicKey[author], m)
<1>1. /\ published' = signed /\ phase = "running" /\ phase' = "running"
      /\ signID' = signID /\ signKey' = signKey /\ signStrict' = signStrict
  BY DEF PublishNewer, Quiet, config
<1>2. AuthorInv /\ AuthorInv' /\ RunningInv'
  BY <1>1, Zenon DEF OptionsInv, AuthorInv, RunningInv
<1>3. m \in MessageValues /\ m.From = author /\ m.Signature = Nil /\ m.Key = Nil
  <2>1. m \in MessageValues
    BY PlainMessages, Zenon
  <2> QED
    BY <2>1 DEF Message
<1> HIDE DEF m
<1>4. signed \in MessageValues /\ \A strict \in BOOLEAN : Accepts(strict, signed)
  BY <1>3, SignedVerifies, Zenon
<1> HIDE DEF signed
<1>5. Accepts(signStrict, signed) /\ Accepts(TRUE, signed)
  BY <1>2, <1>4, Zenon DEF AuthorInv
<1>6. PublishedInv' /\ published' \in MessageValues
  BY <1>1, <1>4, <1>5, Zenon DEF PublishedInv, Accepts
<1> QED
  BY <1>2, <1>6, Zenon DEF OptionsInv

LEMMA OptionsNext == OptionsInv /\ [Next]_vars => OptionsInv'
<1> SUFFICES ASSUME OptionsInv, [Next]_vars PROVE OptionsInv'
  OBVIOUS
<1>0. AuthorInv
  BY DEF OptionsInv
<1>1. ASSUME NEW b \in BOOLEAN, WithMessageSigning(b) PROVE OptionsInv'
  <2>1. AuthorInv'
    BY <1>0, <1>1, Zenon DEF WithMessageSigning, AuthorInv, PrivKey
  <2> QED
    BY <1>1, <2>1, OptionsApplied DEF WithMessageSigning, MayApply
<1>2. ASSUME NEW b \in BOOLEAN, WithStrictSignatureVerification(b) PROVE OptionsInv'
  <2>1. AuthorInv'
    BY <1>0, <1>2, Zenon DEF WithStrictSignatureVerification, AuthorInv
  <2> QED
    BY <1>2, <2>1, OptionsApplied DEF WithStrictSignatureVerification, MayApply
<1>3. ASSUME NEW id \in Ids \cup {<<>>}, WithMessageAuthor(id) PROVE OptionsInv'
  <2> DEFINE author == IF id = <<>> THEN Host ELSE id
             refused == signKey # Nil /\ PrivKey(author) = Nil
  <2>1. author \in Ids
    BY KeysAssumption
  <2>2. /\ signStrict' = signStrict
        /\ signKey' = IF signKey = Nil \/ refused THEN signKey ELSE PrivKey(author)
        /\ signID' = IF refused THEN signID ELSE author
    BY <1>3, Zenon DEF WithMessageAuthor
  <2>3. AuthorInv'
    <3>1. CASE refused
      BY <1>0, <2>2, <3>1, Zenon DEF AuthorInv
    <3>2. CASE ~refused /\ signKey = Nil
      BY <1>0, <2>1, <2>2, <3>2, Zenon DEF AuthorInv
    <3>3. CASE ~refused /\ signKey # Nil
      <4> HIDE DEF author
      <4>1. PrivKey(author) # Nil
        BY <3>3
      <4>2. author \in Keystore /\ PrivKey(author) = PublicKey[author]
        BY <4>1, Zenon DEF PrivKey
      <4> QED
        BY <1>0, <2>1, <2>2, <3>3, <4>2, Zenon DEF AuthorInv
    <3> QED
      BY <3>1, <3>2, <3>3, Zenon
  <2>4. phase = "options" /\ phase' # "running" /\ published' = published
    BY <1>3 DEF WithMessageAuthor, MayApply
  <2> QED
    BY <2>3, <2>4, OptionsApplied, Zenon
<1>4. CASE NewPubSub
  <2>1. /\ phase = "options" /\ phase' = IF signStrict /\ signKey = Nil THEN "refused" ELSE "running"
        /\ signID' = signID /\ signKey' = signKey /\ signStrict' = signStrict
        /\ published' = published
    BY <1>4 DEF NewPubSub
  <2>2. published = Nil
    BY <2>1 DEF OptionsInv, PublishedInv
  <2>3. AuthorInv'
    BY <1>0, <2>1, Zenon DEF AuthorInv
  <2>4. RunningInv'
    BY <2>1 DEF RunningInv
  <2> QED
    BY <2>1, <2>2, <2>3, <2>4, Zenon DEF OptionsInv, PublishedInv
<1>5. ASSUME NEW rpc \in Rpcs, Send(rpc) PROVE OptionsInv'
  BY <1>5, OptionsSame DEF Send
<1>6. CASE Read
  BY <1>6, OptionsSame DEF Read
<1>7. ASSUME NEW b \in BOOLEAN, Forward(b) PROVE OptionsInv'
  BY <1>7, OptionsSame DEF Forward
<1>8. ASSUME NEW b \in Alphabet, RawByte(b) PROVE OptionsInv'
  BY <1>8, OptionsSame DEF RawByte
<1>9. CASE UNCHANGED vars
  BY <1>9, OptionsSame DEF vars, config
<1> QED
  BY <1>1, <1>2, <1>3, <1>4, <1>5, <1>6, <1>7, <1>8, <1>9, PublishOptions, PublishNewerOptions,
     Zenon DEF Next

\* In whatever order the options were given: a node that runs signs with the key of the
\* author it names, or not at all, and asks of others no more than it does itself; and what
\* it publishes passes its own checks, and those of every strict node if it has a key.
THEOREM Acceptance == Spec => []Acceptable
<1>1. OptionsInv => Acceptable
  <2> SUFFICES ASSUME OptionsInv PROVE Acceptable
    OBVIOUS
  <2>1. signKey \in {Nil, PrivKey(signID)}
    BY Zenon DEF OptionsInv, AuthorInv, PrivKey
  <2> QED
    BY <2>1, Zenon DEF OptionsInv, RunningInv, PublishedInv, Acceptable
<1> QED
  BY <1>1, OptionsInit, OptionsNext, PTL DEF Spec

(***************************************************************************)
(* Decoding.                                                               *)
(***************************************************************************)
LEMMA TailShorter ==
  ASSUME NEW b \in Seq(Nat), b # <<>>
  PROVE  /\ Tail(b) \in Seq(Nat) /\ Len(Tail(b)) < Len(b) /\ Len(b) \in Nat /\ Len(Tail(b)) \in Nat
         /\ b[1] % 128 \in Nat
OBVIOUS

\* The number in a string of bytes.
LEMMA Numbers ==
  /\ \A b \in Seq(Nat) : number[b] \in Nat
  /\ number[<<>>] = 0
  /\ \A b \in Seq(Nat) : b # <<>> => number[b] = (b[1] % 128) + 128 * number[Tail(b)]
<1> DEFINE D == Seq(Nat)
           rank == [b \in D |-> Len(b)]
           Value(b, r) == IF b = <<>> THEN 0 ELSE (b[1] % 128) + 128 * r
           H == [p \in D \X [D -> Nat] |-> Value(p[1], p[2][Tail(p[1])])]
<1>1. /\ rank \in [D -> Nat] /\ (\A b \in D : rank[b] = Len(b))
      /\ (\A b \in D : b # <<>> => Tail(b) \in D /\ rank[Tail(b)] < rank[b])
  <2>1. \A b \in D : Len(b) \in Nat
    OBVIOUS
  <2>2. \A b \in D : b # <<>> => Tail(b) \in D /\ Len(Tail(b)) < Len(b)
    BY TailShorter
  <2> HIDE DEF D
  <2> QED
    BY <2>1, <2>2
<1>2. \A b \in D : \A g \in [D -> Nat] : H[<<b, g>>] = Value(b, g[Tail(b)])
  <2> HIDE DEF D, Value
  <2> QED
    OBVIOUS
<1>3. \A b \in D : \A g \in [D -> Nat] : Value(b, g[Tail(b)]) \in Nat
  <2> SUFFICES ASSUME NEW b \in D, NEW g \in [D -> Nat], b # <<>>
               PROVE  (b[1] % 128) + 128 * g[Tail(b)] \in Nat
    OBVIOUS
  <2>1. Tail(b) \in D /\ b[1] % 128 \in Nat
    BY TailShorter
  <2> HIDE DEF D
  <2>2. g[Tail(b)] \in Nat
    BY <2>1
  <2> QED
    BY <2>1, <2>2
<1>4. H \in [D \X [D -> Nat] -> Nat]
  <2> HIDE DEF D, Value
  <2> QED
    BY <1>3
<1>5. ASSUME NEW b \in D, NEW g \in [D -> Nat], NEW h \in [D -> Nat],
             \A y \in D : rank[y] < rank[b] => g[y] = h[y]
      PROVE  H[<<b, g>>] = H[<<b, h>>]
  <2>1. H[<<b, g>>] = Value(b, g[Tail(b)]) /\ H[<<b, h>>] = Value(b, h[Tail(b)])
    BY <1>2, Zenon
  <2>2. CASE b = <<>>
    BY <2>1, <2>2, Zenon
  <2>3. CASE b # <<>>
    <3> HIDE DEF rank, H, Value, D
    <3>1. g[Tail(b)] = h[Tail(b)]
      BY <1>1, <1>5, <2>3, Zenon
    <3> QED
      BY <2>1, <3>1, Zenon
  <2> QED
    BY <2>2, <2>3, Zenon
<1> HIDE DEF rank, H, D
<1>6. PICK f \in [D -> Nat] : \A b \in D : f[b] = H[<<b, f>>]
  <2>1. Recursion(D, Nat, rank, H)
    BY <1>1, <1>4, <1>5, Zenon DEF Recursion
  <2>2. Recursive(D, Nat, H)
    BY <2>1, RecursionExists, Zenon
  <2> QED
    BY <2>2, Zenon DEF Recursive
<1>7. f = [b \in D |-> Value(b, f[Tail(b)])]
  <2>1. \A b \in D : f[b] = Value(b, f[Tail(b)])
    BY <1>2, <1>6, Zenon
  <2> HIDE DEF Value
  <2> QED
    BY <2>1, Zenon
<1>8. number = [b \in D |-> IF b = <<>> THEN 0 ELSE (b[1] % 128) + 128 * number[Tail(b)]]
  BY <1>7, Zenon DEF number, D
<1>9. /\ number[<<>>] = 0
      /\ \A b \in D : b # <<>> => number[b] = (b[1] % 128) + 128 * number[Tail(b)]
  <2>1. <<>> \in D
    BY DEF D
  <2> QED
    BY <1>8, <2>1, Zenon
<1> DEFINE P == {b \in D : number[b] \in Nat}
<1>10. ASSUME NEW b \in D, \A y \in D : rank[y] < rank[b] => y \in P PROVE b \in P
  <2>1. CASE b = <<>>
    <3>1. 0 \in Nat
      OBVIOUS
    <3> QED
      BY <1>9, <2>1, <3>1, Zenon
  <2>2. CASE b # <<>>
    <3>1. Tail(b) \in P
      BY <1>1, <1>10, <2>2, Zenon
    <3>2. number[Tail(b)] \in Nat
      BY <3>1, Zenon
    <3>3. b[1] % 128 \in Nat
      BY <2>2, TailShorter DEF D
    <3>4. (b[1] % 128) + 128 * number[Tail(b)] \in Nat
      BY <3>2, <3>3
    <3> QED
      BY <1>9, <2>2, <3>4, Zenon
  <2> QED
    BY <2>1, <2>2, Zenon
<1> HIDE DEF P
<1>11. \A b \in D : b \in P
  BY <1>1, <1>10, RankInduction, Zenon
<1> QED
  BY <1>9, <1>11, Zenon DEF P, D

\* The least of some numbers.
LEMMA MinOf ==
  ASSUME NEW S, S # {}, \A n \in S : n \in Nat
  PROVE  Min(S) \in S /\ \A n \in S : Min(S) <= n
<1>0. IsWellFoundedOn(Below, Nat)
  BY NatLessThanWellFounded DEF OpToRel, Below
<1>1. PICK n \in S : \A m \in S : ~ (<<m, n>> \in Below)
  <2>1. S \subseteq Nat
    OBVIOUS
  <2> QED
    BY <1>0, <2>1, WFMin, Zenon
<1>2. \A m \in S : n <= m
  <2> SUFFICES ASSUME NEW m \in S PROVE n <= m
    OBVIOUS
  <2>1. m \in Nat /\ n \in Nat /\ ~ (<<m, n>> \in Below)
    BY <1>1
  <2> QED
    BY <2>1 DEF Below
<1> QED
  BY <1>1, <1>2, Zenon DEF Min

LEMMA Widths ==
  /\ IntMod \in Nat /\ IntMod >= 16 /\ FieldMod \in Nat /\ FieldMod >= 1
  /\ IntMod = 2 * (IntMod \div 2) /\ FieldMod = 2 * (FieldMod \div 2) /\ MaxVarint \in Nat
<1>1. IntBits \in Nat /\ IntBits - 5 \in Nat /\ FieldBits \in Nat /\ FieldBits - 1 \in Nat
  BY WidthsAssumption
<1>2. ASSUME NEW n \in Nat, n - 1 \in Nat PROVE pow2[n] = 2 * pow2[n - 1] /\ pow2[n - 1] \in Nat \ {0}
  <2>1. pow2[n - 1 + 1] = 2 * pow2[n - 1] /\ pow2[n - 1] \in Nat \ {0}
    BY <1>2, Pow2, Zenon
  <2>2. n - 1 + 1 = n
    OBVIOUS
  <2> QED
    BY <2>1, <2>2
<1>3. FieldMod = 2 * pow2[FieldBits - 1] /\ pow2[FieldBits - 1] \in Nat \ {0}
  BY <1>1, <1>2, Zenon DEF FieldMod
<1>4. IntMod = 2 * pow2[IntBits - 1] /\ pow2[IntBits - 1] \in Nat \ {0}
  <2>1. IntBits - 1 \in Nat
    BY <1>1
  <2> QED
    BY <1>1, <1>2, <2>1, Zenon DEF IntMod
<1>5. pow2[IntBits - 1] >= 8
  <2> DEFINE k == IntBits - 4
  <2>1. k \in Nat /\ k + 1 \in Nat /\ k + 1 + 1 \in Nat /\ k + 1 + 1 + 1 = IntBits - 1
    BY <1>1
  <2>2. pow2[k] \in Nat \ {0} /\ pow2[k + 1] = 2 * pow2[k] /\ pow2[k + 1 + 1] = 2 * pow2[k + 1]
        /\ pow2[k + 1 + 1 + 1] = 2 * pow2[k + 1 + 1]
    BY <2>1, Pow2, Zenon
  <2> HIDE DEF k
  <2> QED
    BY <2>1, <2>2
<1>6. MaxVarint \in Nat
  BY <1>1 DEF MaxVarint
<1> QED
  BY <1>3, <1>4, <1>5, <1>6

(***************************************************************************)
(* Decoding: results, varints and slices.                                  *)
(***************************************************************************)
Errors == {"EOF", "overflow", "length", "wire type", "tag"}

Refused == {Failed(e) : e \in Errors}

\* A refusal, or a value of V that ends in from .. to.
Reads(V, from, to) == Refused \cup [err : {"none"}, val : V, next : from .. to]

LEMMA OkIs == \A v, j : Ok(v, j).err = "none" /\ Ok(v, j).val = v /\ Ok(v, j).next = j
BY DEF Ok

LEMMA FailedIs == \A e \in Errors : Failed(e) \in Refused
BY Zenon DEF Refused

LEMMA RefusedIs ==
  ASSUME NEW r \in Refused
  PROVE  /\ r.err \in Errors /\ r.err # "none" /\ r.err # "out of range" /\ r.err # "unreachable"
         /\ r.next = 0
<1>1. PICK e \in Errors : r = Failed(e)
  BY Zenon DEF Refused
<1>2. r.err = e /\ r.next = 0
  BY <1>1 DEF Failed
<1> QED
  BY <1>2 DEF Errors

\* What is not an error was read.
LEMMA ReadsIs ==
  ASSUME NEW V, NEW from, NEW to, NEW r \in Reads(V, from, to)
  PROVE  /\ r.err # "none" => r \in Refused
         /\ r.err = "none" => r.val \in V /\ r.next \in from .. to /\ r = Ok(r.val, r.next)
<1>1. CASE r \in Refused
  BY <1>1, RefusedIs
<1>2. CASE r \in [err : {"none"}, val : V, next : from .. to]
  <2> HIDE DEF Reads
  <2> DEFINE J == from .. to
  <2>0. r \in [err : {"none"}, val : V, next : J]
    BY <1>2
  <2> HIDE DEF J
  <2>1. r.err = "none" /\ r.val \in V /\ r.next \in J
    BY <2>0
  <2>2. r = [err |-> "none", val |-> r.val, next |-> r.next]
    BY <2>0
  <2> QED
    BY <2>1, <2>2, Zenon DEF Ok, J
<1> QED
  BY <1>1, <1>2, Zenon DEF Reads

LEMMA OkReads ==
  ASSUME NEW V, NEW from, NEW to, NEW v \in V, NEW j \in from .. to
  PROVE  Ok(v, j) \in Reads(V, from, to)
<1> DEFINE J == from .. to
<1>1. j \in J
  OBVIOUS
<1> HIDE DEF J
<1>2. Ok(v, j) \in [err : {"none"}, val : V, next : J]
  BY <1>1 DEF Ok
<1> QED
  BY <1>2, Zenon DEF Reads, J

LEMMA RefusedReads ==
  ASSUME NEW V, NEW from, NEW to, NEW r \in Refused
  PROVE  r \in Reads(V, from, to)
BY Zenon DEF Reads

LEMMA BytesAreNats == \A d \in Seq(Byte) : d \in Seq(Nat)
<1>1. Byte \subseteq Nat
  BY DEF Byte
<1> QED
  BY <1>1, SeqMonotonic, Zenon

LEMMA VarintReads ==
  ASSUME NEW d \in Seq(Byte), NEW i \in Nat
  PROVE  Varint(d, i) \in Reads(0 .. IntMod - 1, i + 1, Len(d))
<1> DEFINE ends == {n \in 1 .. MaxVarint : i + n <= Len(d) /\ d[i + n] < 128}
           n == Min(ends)
           v == number[SubSeq(d, i + 1, i + n)] % IntMod
<1>1. CASE ends = {}
  <2>1. Varint(d, i) \in {Failed("EOF"), Failed("overflow")}
    BY <1>1, Zenon DEF Varint
  <2>2. "EOF" \in Errors /\ "overflow" \in Errors
    BY DEF Errors
  <2>3. Varint(d, i) \in Refused
    BY <2>1, <2>2, FailedIs, Zenon
  <2> QED
    BY <2>3, RefusedReads, Zenon
<1>2. CASE ends # {}
  <2>1. Varint(d, i) = Ok(v, i + n)
    BY <1>2, Zenon DEF Varint
  <2>2. n \in ends
    <3>1. \A m \in ends : m \in Nat
      OBVIOUS
    <3> HIDE DEF ends
    <3> QED
      BY <1>2, <3>1, MinOf, Zenon
  <2> HIDE DEF n
  <2>3. n \in Nat /\ n >= 1 /\ i + n <= Len(d)
    BY <2>2
  <2>4. SubSeq(d, i + 1, i + n) \in Seq(Byte)
    BY <2>3
  <2>5. number[SubSeq(d, i + 1, i + n)] \in Nat
    BY <2>4, BytesAreNats, Numbers, Zenon
  <2>6. v \in 0 .. IntMod - 1
    BY <2>5, Widths
  <2>7. i + n \in i + 1 .. Len(d)
    BY <2>3
  <2> HIDE DEF v
  <2> QED
    BY <2>1, <2>6, <2>7, OkReads, Zenon
<1> QED
  BY <1>1, <1>2, Zenon

LEMMA SignedRange ==
  ASSUME NEW x \in Int, NEW mod \in Nat, mod >= 1, mod = 2 * (mod \div 2)
  PROVE  /\ Signed(x, mod) \in -(mod \div 2) .. mod \div 2 - 1
         /\ x \in 0 .. mod - 1 => Signed(x, mod) = IF 2 * x >= mod THEN x - mod ELSE x
<1> DEFINE r == x % mod
<1>1. r \in 0 .. mod - 1 /\ mod \div 2 \in Nat
  OBVIOUS
<1>2. x \in 0 .. mod - 1 => r = x
  OBVIOUS
<1>3. Signed(x, mod) = IF 2 * r >= mod THEN r - mod ELSE r
  BY DEF Signed
<1> HIDE DEF r
<1> QED
  BY <1>1, <1>2, <1>3

LEMMA SignedInt ==
  \A x \in Int : /\ Signed(x, IntMod) \in Int /\ 2 * Signed(x, IntMod) < IntMod
                 /\ x \in 0 .. IntMod - 1 =>
                      Signed(x, IntMod) = IF 2 * x >= IntMod THEN x - IntMod ELSE x
<1> SUFFICES ASSUME NEW x \in Int
             PROVE  /\ Signed(x, IntMod) \in Int /\ 2 * Signed(x, IntMod) < IntMod
                    /\ x \in 0 .. IntMod - 1 =>
                         Signed(x, IntMod) = IF 2 * x >= IntMod THEN x - IntMod ELSE x
  OBVIOUS
<1>1. IntMod \in Nat /\ IntMod >= 1 /\ IntMod = 2 * (IntMod \div 2)
  BY Widths
<1>2. /\ Signed(x, IntMod) \in -(IntMod \div 2) .. IntMod \div 2 - 1
      /\ x \in 0 .. IntMod - 1 =>
           Signed(x, IntMod) = IF 2 * x >= IntMod THEN x - IntMod ELSE x
  BY <1>1, SignedRange, Zenon
<1> QED
  BY <1>1, <1>2

\* An index n bytes further on is within the string, or refused: the sum wraps around
\* at most once, and then it is negative.
LEMMA PostIndexReads ==
  ASSUME NEW l \in Nat, 2 * l < IntMod, NEW i \in 0 .. l, NEW n \in Int,
         2 * n < IntMod \/ n <= l - i + 8
  PROVE  PostIndex(i, n, l) \in Reads({Nil}, i, l)
<1> DEFINE post == Signed(i + n, IntMod)
<1>0. PostIndex(i, n, l) = IF n < 0 \/ post < 0 THEN Failed("length")
                           ELSE IF post > l THEN Failed("EOF") ELSE Ok(Nil, post)
  BY DEF PostIndex
<1>w. IntMod \in Nat /\ IntMod >= 16
  BY Widths
<1>1. post \in Int /\ i + n \in Int
  <2>1. i + n \in Int
    OBVIOUS
  <2> QED
    BY <2>1, SignedInt, Zenon
<1>2. ASSUME n >= 0, post >= 0, ~ (post > l) PROVE post \in i .. l
  <2>1. i + n \in 0 .. IntMod - 1
    BY <1>2, <1>w
  <2>2. post = IF 2 * (i + n) >= IntMod THEN (i + n) - IntMod ELSE i + n
    BY <1>1, <2>1, SignedInt, Zenon
  <2> HIDE DEF post
  <2> QED
    BY <1>w, <1>1, <1>2, <2>1, <2>2
<1>3. Failed("length") \in Refused /\ Failed("EOF") \in Refused
  BY FailedIs DEF Errors
<1> HIDE DEF post
<1>4. CASE n < 0 \/ post < 0
  BY <1>0, <1>3, <1>4, RefusedReads, Zenon
<1>5. CASE ~ (n < 0 \/ post < 0) /\ post > l
  BY <1>0, <1>3, <1>5, RefusedReads, Zenon
<1>6. CASE ~ (n < 0 \/ post < 0) /\ ~ (post > l)
  <2>1. post \in i .. l
    BY <1>1, <1>2, <1>6
  <2> QED
    BY <1>0, <1>6, <2>1, OkReads, Zenon
<1> QED
  BY <1>4, <1>5, <1>6, Zenon

\* The strings of bytes that fit into d.
PartsOf(d) == {b \in Seq(Byte) : Len(b) <= Len(d)}

LEMMA SliceReads ==
  ASSUME NEW d \in Seq(Byte), NEW i \in Nat, NEW j \in i .. Len(d)
  PROVE  Slice(d, i, j) = Ok(SubSeq(d, i + 1, j), j) /\ SubSeq(d, i + 1, j) \in PartsOf(d)
<1>1. i <= j /\ j <= Len(d) /\ j \in Nat
  OBVIOUS
<1>2. SubSeq(d, i + 1, j) \in PartsOf(d)
  <2>1. SubSeq(d, i + 1, j) \in Seq(Byte) /\ Len(SubSeq(d, i + 1, j)) <= Len(d)
    BY <1>1
  <2> QED
    BY <2>1 DEF PartsOf
<1> QED
  BY <1>1, <1>2, Zenon DEF Slice

LEMMA LengthDelimitedReads ==
  ASSUME NEW d \in Seq(Byte), 2 * Len(d) < IntMod, NEW i \in Nat
  PROVE  LengthDelimited(d, i) \in Reads(PartsOf(d), i + 1, Len(d))
<1> DEFINE n == Varint(d, i)
           post == PostIndex(n.next, Signed(n.val, IntMod), Len(d))
<1>0. LengthDelimited(d, i) = IF n.err # "none" THEN n
                              ELSE IF post.err # "none" THEN post ELSE Slice(d, n.next, post.next)
  BY DEF LengthDelimited
<1>1. n \in Reads(0 .. IntMod - 1, i + 1, Len(d))
  BY VarintReads
<1> HIDE DEF n
<1>2. CASE n.err # "none"
  BY <1>0, <1>1, <1>2, ReadsIs, RefusedReads, Zenon
<1>3. CASE n.err = "none"
  <2>1. n.val \in 0 .. IntMod - 1 /\ n.next \in i + 1 .. Len(d)
    BY <1>1, <1>3, ReadsIs, Zenon
  <2>2. Signed(n.val, IntMod) \in Int /\ 2 * Signed(n.val, IntMod) < IntMod
    <3>1. n.val \in Int
      BY <2>1
    <3> QED
      BY <3>1, SignedInt, Zenon
  <2>3. n.next \in 0 .. Len(d) /\ Len(d) \in Nat /\ n.next \in Nat
    BY <2>1
  <2>4. post \in Reads({Nil}, n.next, Len(d))
    BY <2>2, <2>3, PostIndexReads
  <2> HIDE DEF post
  <2>5. CASE post.err # "none"
    BY <1>0, <1>3, <2>4, <2>5, ReadsIs, RefusedReads, Zenon
  <2>6. CASE post.err = "none"
    <3>1. post.next \in n.next .. Len(d)
      BY <2>4, <2>6, ReadsIs, Zenon
    <3>2. /\ Slice(d, n.next, post.next) = Ok(SubSeq(d, n.next + 1, post.next), post.next)
          /\ SubSeq(d, n.next + 1, post.next) \in PartsOf(d)
      BY <2>3, <3>1, SliceReads
    <3>3. post.next \in i + 1 .. Len(d)
      BY <2>1, <3>1
    <3>4. Ok(SubSeq(d, n.next + 1, post.next), post.next) \in Reads(PartsOf(d), i + 1, Len(d))
      BY <3>2, <3>3, OkReads, Zenon
    <3> QED
      BY <1>0, <1>3, <2>6, <3>2, <3>4, Zenon
  <2> QED
    BY <2>5, <2>6, Zenon
<1> QED
  BY <1>2, <1>3, Zenon

(***************************************************************************)
(* Decoding: a field that is skipped.                                      *)
(***************************************************************************)
\* Where a field of d may end when it is skipped: not always within d, but never so far
\* that the sum with an index of d wraps around to a number that is not negative.
Ends(d) == {j \in Nat : 2 * j < IntMod \/ j <= Len(d) + 8}

Skips(d) == Refused \cup [err : {"none"}, val : Int, next : Ends(d)]

EndsIn(r, d) == (r.err # "none" => r \in Refused) /\ (r.err = "none" => r.next \in Ends(d))

LEMMA SkipsIs ==
  ASSUME NEW d, NEW r \in Skips(d)
  PROVE  /\ r.err # "none" => r \in Refused
         /\ r.err = "none" => r.val \in Int /\ r.next \in Ends(d)
<1>1. CASE r \in Refused
  BY <1>1, RefusedIs, Zenon
<1>2. CASE r \in [err : {"none"}, val : Int, next : Ends(d)]
  <2>1. r.err = "none" /\ r.val \in Int /\ r.next \in Ends(d)
    BY <1>2
  <2> QED
    BY <2>1, Zenon
<1> QED
  BY <1>1, <1>2, Zenon DEF Skips

LEMMA OkSkips == \A d : \A v \in Int, j \in Ends(d) : Ok(v, j) \in Skips(d)
<1> SUFFICES ASSUME NEW d, NEW v \in Int, NEW j \in Ends(d) PROVE Ok(v, j) \in Skips(d)
  BY Zenon
<1>1. Ok(v, j) \in [err : {"none"}, val : Int, next : Ends(d)]
  BY DEF Ok
<1> QED
  BY <1>1, Zenon DEF Skips

LEMMA OkEnds == \A d, v : \A j \in Ends(d) : EndsIn(Ok(v, j), d)
BY OkIs, Zenon DEF EndsIn

LEMMA SkipValueEnds ==
  ASSUME NEW d \in Seq(Byte), NEW w \in 0 .. 7, NEW i \in 0 .. Len(d)
  PROVE  EndsIn(SkipValue(w, i, Varint(d, i)), d)
<1> DEFINE n == Varint(d, i)
           r == SkipValue(w, i, n)
           length == Signed(n.val, IntMod)
           end == Signed(n.next + length, IntMod)
<1> SUFFICES EndsIn(r, d)
  OBVIOUS
<1>1. n \in Reads(0 .. IntMod - 1, i + 1, Len(d))
  BY VarintReads
<1>2. i + 8 \in Ends(d) /\ i + 4 \in Ends(d) /\ \A j \in i + 1 .. Len(d) : j \in Ends(d)
  BY DEF Ends
<1>3. Failed("length") \in Refused /\ Failed("wire type") \in Refused
  BY FailedIs DEF Errors
<1>4. CASE w = 0
  <2>1. r = n
    BY <1>4 DEF SkipValue
  <2> HIDE DEF r, n
  <2> QED
    BY <1>1, <1>2, <2>1, ReadsIs, Zenon DEF EndsIn
<1>5. CASE w = 1
  <2>1. r = Ok(Nil, i + 8)
    BY <1>5 DEF SkipValue
  <2> HIDE DEF r
  <2> QED
    BY <1>2, <2>1, OkEnds, Zenon
<1>6. CASE w = 5
  <2>1. r = Ok(Nil, i + 4)
    BY <1>6 DEF SkipValue
  <2> HIDE DEF r
  <2> QED
    BY <1>2, <2>1, OkEnds, Zenon
<1>7. CASE w = 2
  <2>1. r = IF n.err # "none" THEN n
            ELSE IF length < 0 \/ end < 0 THEN Failed("length") ELSE Ok(Nil, end)
    BY <1>7 DEF SkipValue
  <2>2. n.err = "none" /\ ~ (end < 0) => end \in Ends(d)
    <3> SUFFICES ASSUME n.err = "none", ~ (end < 0) PROVE end \in Ends(d)
      OBVIOUS
    <3> HIDE DEF n
    <3>1. n.val \in 0 .. IntMod - 1 /\ n.next \in i + 1 .. Len(d)
      BY <1>1, ReadsIs, Zenon
    <3>2. n.val \in Int /\ n.next \in Int
      BY <3>1
    <3>3. length \in Int
      BY <3>2, SignedInt, Zenon
    <3> HIDE DEF length
    <3>4. n.next + length \in Int
      BY <3>2, <3>3
    <3>5. end \in Int /\ 2 * end < IntMod
      BY <3>4, SignedInt, Zenon
    <3> HIDE DEF end
    <3> QED
      BY <3>5 DEF Ends
  <2> HIDE DEF r, n, end, length
  <2>3. CASE n.err # "none"
    BY <1>1, <2>1, <2>3, ReadsIs, Zenon DEF EndsIn
  <2>4. CASE n.err = "none" /\ (length < 0 \/ end < 0)
    BY <1>3, <2>1, <2>4, RefusedIs, Zenon DEF EndsIn
  <2>5. CASE n.err = "none" /\ ~ (length < 0 \/ end < 0)
    BY <2>1, <2>2, <2>5, OkIs, Zenon DEF EndsIn
  <2> QED
    BY <2>3, <2>4, <2>5, Zenon
<1>8. CASE w # 0 /\ w # 1 /\ w # 2 /\ w # 5
  <2>1. r = Failed("wire type")
    BY <1>8 DEF SkipValue
  <2> HIDE DEF r
  <2> QED
    BY <1>3, <2>1, RefusedIs, Zenon DEF EndsIn
<1> QED
  BY <1>4, <1>5, <1>7, <1>8, <1>6, Zenon

LEMMA SkipTagSkips ==
  ASSUME NEW d \in Seq(Byte), NEW r, r.val \in Int, r.next \in Nat
  PROVE  SkipTag(d, r) \in Skips(d)
<1> DEFINE tag == Varint(d, r.next)
           w == tag.val % 8
           value == SkipValue(w, tag.next, Varint(d, tag.next))
           depth == CASE w = 3 -> r.val + 1 [] w = 4 -> r.val - 1 [] OTHER -> r.val
<1>0. SkipTag(d, r) = IF tag.err # "none" THEN tag
                      ELSE IF w \in {3, 4} THEN Ok(depth, tag.next)
                      ELSE IF value.err # "none" THEN value
                      ELSE IF r.val > 0 /\ Signed(value.next, IntMod) < 0 THEN Failed("length")
                      ELSE Ok(r.val, value.next)
  BY DEF SkipTag, SkipField
<1>1. tag \in Reads(0 .. IntMod - 1, r.next + 1, Len(d))
  BY VarintReads
<1> HIDE DEF tag
<1>2. depth \in Int
  OBVIOUS
<1> HIDE DEF depth
<1>3. CASE tag.err # "none"
  BY <1>0, <1>1, <1>3, ReadsIs, Zenon DEF Skips
<1>4. CASE tag.err = "none"
  <2>1. tag.val \in 0 .. IntMod - 1 /\ tag.next \in r.next + 1 .. Len(d)
    BY <1>1, <1>4, ReadsIs, Zenon
  <2>2. w \in 0 .. 7 /\ tag.next \in 0 .. Len(d) /\ tag.next \in Ends(d)
    <3>1. IntMod \in Nat
      BY Widths
    <3>2. tag.val \in Nat
      BY <2>1, <3>1
    <3>3. tag.next \in 0 .. Len(d)
      BY <2>1
    <3>4. w \in 0 .. 7
      BY <3>2
    <3>5. tag.next \in Ends(d)
      BY <3>3 DEF Ends
    <3> QED
      BY <3>3, <3>4, <3>5, Zenon
  <2> HIDE DEF w
  <2>3. (value.err # "none" => value \in Refused) /\ (value.err = "none" => value.next \in Ends(d))
    BY <2>2, SkipValueEnds, Zenon DEF EndsIn
  <2>4. Failed("length") \in Skips(d)
    BY FailedIs DEF Errors, Skips
  <2> HIDE DEF value
  <2>5. CASE w \in {3, 4}
    BY <1>0, <1>2, <1>4, <2>2, <2>5, OkSkips, Zenon
  <2>6. CASE w \notin {3, 4} /\ value.err # "none"
    BY <1>0, <1>4, <2>3, <2>6, Zenon DEF Skips
  <2>7. CASE w \notin {3, 4} /\ value.err = "none"
    BY <1>0, <1>4, <2>3, <2>4, <2>7, OkSkips, Zenon
  <2> QED
    BY <2>5, <2>6, <2>7, Zenon
<1> QED
  BY <1>3, <1>4, Zenon

\* h[n] is where skipping is after n + 1 tags.
SkipTrace(d, h) ==
  /\ h[0] = SkipTag(d, Ok(0, 0)) /\ \A n \in Nat : h[n] \in Skips(d)
  /\ \A n \in Nat : h[n + 1] = IF h[n].err # "none" \/ h[n].val <= 0 THEN h[n] ELSE SkipTag(d, h[n])

LEMMA SkipTraces ==
  ASSUME NEW d \in Seq(Byte), d # <<>>
  PROVE  \E h : SkipTrace(d, h) /\ skipRpc(d) = h[Len(d)]
<1> DEFINE R == Skips(d)
           r0 == SkipTag(d, Ok(0, 0))
           Then(r) == IF r.err # "none" \/ r.val <= 0 THEN r ELSE SkipTag(d, r)
           F == [r \in R |-> Then(r)]
<1>1. r0 \in R
  <2>1. Ok(0, 0).val \in Int /\ Ok(0, 0).next \in Nat
    BY OkIs
  <2> QED
    BY <2>1, SkipTagSkips, Zenon
<1>2. ASSUME NEW r \in R PROVE Then(r) \in R
  <2>1. CASE r.err # "none" \/ r.val <= 0
    BY <2>1, Zenon
  <2>2. CASE ~ (r.err # "none" \/ r.val <= 0)
    <3>1. r.val \in Int /\ r.next \in Ends(d)
      BY <2>2, SkipsIs, Zenon
    <3>2. r.next \in Nat
      BY <3>1 DEF Ends
    <3> QED
      BY <2>2, <3>1, <3>2, SkipTagSkips, Zenon
  <2> QED
    BY <2>1, <2>2, Zenon
<1>3. F \in [R -> R] /\ \A r \in R : F[r] = Then(r)
  BY <1>2, Zenon
<1> HIDE DEF R, F
<1>4. PICK f \in [Nat -> R] : \A n \in Nat : f[n] = IF n = 0 THEN r0 ELSE F[f[n - 1]]
  <2> HIDE DEF r0
  <2>1. ByLoop(R, r0, F)
    BY <1>1, <1>3, LoopExists, Zenon DEF Looping
  <2> QED
    BY <2>1, Zenon DEF ByLoop
<1>5. ASSUME NEW n \in Nat
      PROVE  f[n] = IF n = 0 THEN SkipTag(d, Ok(0, 0))
                    ELSE LET r == f[n - 1]
                         IN IF r.err # "none" \/ r.val <= 0 THEN r ELSE SkipTag(d, r)
  <2>1. n # 0 => n - 1 \in Nat
    OBVIOUS
  <2>2. n # 0 => f[n - 1] \in R
    BY <1>4, <2>1, Zenon
  <2> QED
    BY <1>3, <1>4, <2>2, Zenon
<1>6. f = [n \in Nat |-> IF n = 0 THEN SkipTag(d, Ok(0, 0))
                         ELSE LET r == f[n - 1]
                              IN IF r.err # "none" \/ r.val <= 0 THEN r ELSE SkipTag(d, r)]
  BY <1>5, Zenon
<1>7. PICK h : /\ h = [n \in Nat |-> IF n = 0 THEN SkipTag(d, Ok(0, 0))
                         ELSE LET r == h[n - 1]
                              IN IF r.err # "none" \/ r.val <= 0 THEN r ELSE SkipTag(d, r)]
               /\ skipRpc(d) = h[Len(d)]
  BY <1>6, Zenon DEF skipRpc
<1>8. h[0] = r0
  <2>1. 0 \in Nat
    OBVIOUS
  <2> QED
    BY <1>7, <2>1, Zenon
<1>9. ASSUME NEW n \in Nat, n # 0 PROVE h[n] = Then(h[n - 1])
  BY <1>7, <1>9, Zenon
<1>10. ASSUME NEW n \in Nat, n # 0, h[n - 1] \in R PROVE h[n] \in R
  BY <1>2, <1>9, <1>10, Zenon
<1>11. \A n \in Nat : h[n] \in R
  BY <1>1, <1>8, <1>10, LoopInduction
<1>12. ASSUME NEW n \in Nat PROVE h[n + 1] = Then(h[n])
  <2> DEFINE p == n + 1
  <2>1. p \in Nat /\ p # 0 /\ p - 1 = n
    OBVIOUS
  <2> HIDE DEF p, Then
  <2>2. h[p] = Then(h[p - 1])
    BY <1>9, <2>1, Zenon
  <2> QED
    BY <2>1, <2>2, Zenon DEF p
<1> QED
  BY <1>7, <1>8, <1>11, <1>12, Zenon DEF SkipTrace, R

LEMMA SkipRpcSkips ==
  ASSUME NEW d \in Seq(Byte), d # <<>>
  PROVE  skipRpc(d) \in Skips(d)
<1>1. Len(d) \in Nat
  OBVIOUS
<1> QED
  BY <1>1, SkipTraces, Zenon DEF SkipTrace

(***************************************************************************)
(* Decoding: a field that is read.                                         *)
(***************************************************************************)
LEMMA SmallerReads ==
  ASSUME NEW V, NEW from \in Nat, NEW i \in Nat, i <= from, NEW to, NEW r \in Reads(V, from, to)
  PROVE  r \in Reads(V, i, to)
<1>1. CASE r.err # "none"
  BY <1>1, ReadsIs, RefusedReads, Zenon
<1>2. CASE r.err = "none"
  <2>1. r.val \in V /\ r.next \in from .. to /\ r = Ok(r.val, r.next)
    BY <1>2, ReadsIs, Zenon
  <2>2. r.next \in i .. to
    BY <2>1
  <2> QED
    BY <2>1, <2>2, OkReads, Zenon
<1> QED
  BY <1>1, <1>2, Zenon

\* A string that is kept with the fields nobody knows.
LEMMA KeepsUnknown ==
  ASSUME NEW k \in DOMAIN Values, NEW m \in Values[k], NEW b \in Seq(Byte)
  PROVE  [m EXCEPT !.XXX_unrecognized = m.XXX_unrecognized \o b] \in Values[k]
<1>k. k \in {"SubOpts", "Message", "IHave", "IWant", "Graft", "Prune", "Control", "RPC", "Auth",
             "Enc", "TopicDescriptor"}
  BY DEF Values
<1>u. \A s \in Seq(Byte) : s \o b \in Seq(Byte)
  BY ConcatProperties, Zenon
<1>1. CASE k = "SubOpts"
  <2>1. m \in SubOptsValues
    BY <1>1 DEF Values
  <2>2. m.XXX_unrecognized \o b \in Seq(Byte)
    BY <1>u, <2>1, Zenon DEF SubOptsValues
  <2>3. [m EXCEPT !.XXX_unrecognized = m.XXX_unrecognized \o b] \in SubOptsValues
    BY <2>1, <2>2, Zenon DEF SubOptsValues
  <2> QED
    BY <1>1, <2>3 DEF Values
<1>2. CASE k = "Message"
  <2>1. m \in MessageValues
    BY <1>2 DEF Values
  <2>2. m.XXX_unrecognized \o b \in Seq(Byte)
    BY <1>u, <2>1, Zenon DEF MessageValues
  <2>3. [m EXCEPT !.XXX_unrecognized = m.XXX_unrecognized \o b] \in MessageValues
    BY <2>1, <2>2, Zenon DEF MessageValues
  <2> QED
    BY <1>2, <2>3 DEF Values
<1>3. CASE k = "IHave"
  <2>1. m \in IHaveValues
    BY <1>3 DEF Values
  <2>2. m.XXX_unrecognized \o b \in Seq(Byte)
    BY <1>u, <2>1, Zenon DEF IHaveValues
  <2>3. [m EXCEPT !.XXX_unrecognized = m.XXX_unrecognized \o b] \in IHaveValues
    BY <2>1, <2>2, Zenon DEF IHaveValues
  <2> QED
    BY <1>3, <2>3 DEF Values
<1>4. CASE k = "IWant"
  <2>1. m \in IWantValues
    BY <1>4 DEF Values
  <2>2. m.XXX_unrecognized \o b \in Seq(Byte)
    BY <1>u, <2>1, Zenon DEF IWantValues
  <2>3. [m EXCEPT !.XXX_unrecognized = m.XXX_unrecognized \o b] \in IWantValues
    BY <2>1, <2>2, Zenon DEF IWantValues
  <2> QED
    BY <1>4, <2>3 DEF Values
<1>5. CASE k = "Graft"
  <2>1. m \in GraftValues
    BY <1>5 DEF Values
  <2>2. m.XXX_unrecognized \o b \in Seq(Byte)
    BY <1>u, <2>1, Zenon DEF GraftValues
  <2>3. [m EXCEPT !.XXX_unrecognized = m.XXX_unrecognized \o b] \in GraftValues
    BY <2>1, <2>2, Zenon DEF GraftValues
  <2> QED
    BY <1>5, <2>3 DEF Values
<1>6. CASE k = "Prune"
  <2>1. m \in PruneValues
    BY <1>6 DEF Values
  <2>2. m.XXX_unrecognized \o b \in Seq(Byte)
    BY <1>u, <2>1, Zenon DEF PruneValues
  <2>3. [m EXCEPT !.XXX_unrecognized = m.XXX_unrecognized \o b] \in PruneValues
    BY <2>1, <2>2, Zenon DEF PruneValues
  <2> QED
    BY <1>6, <2>3 DEF Values
<1>7. CASE k = "Control"
  <2>1. m \in ControlValues
    BY <1>7 DEF Values
  <2>2. m.XXX_unrecognized \o b \in Seq(Byte)
    BY <1>u, <2>1, Zenon DEF ControlValues
  <2>3. [m EXCEPT !.XXX_unrecognized = m.XXX_unrecognized \o b] \in ControlValues
    BY <2>1, <2>2, Zenon DEF ControlValues
  <2> QED
    BY <1>7, <2>3 DEF Values
<1>8. CASE k = "RPC"
  <2>1. m \in RPCValues
    BY <1>8 DEF Values
  <2>2. m.XXX_unrecognized \o b \in Seq(Byte)
    BY <1>u, <2>1, Zenon DEF RPCValues
  <2>3. [m EXCEPT !.XXX_unrecognized = m.XXX_unrecognized \o b] \in RPCValues
    BY <2>1, <2>2, Zenon DEF RPCValues
  <2> QED
    BY <1>8, <2>3 DEF Values
<1>9. CASE k = "Auth"
  <2>1. m \in AuthValues
    BY <1>9 DEF Values
  <2>2. m.XXX_unrecognized \o b \in Seq(Byte)
    BY <1>u, <2>1, Zenon DEF AuthValues
  <2>3. [m EXCEPT !.XXX_unrecognized = m.XXX_unrecognized \o b] \in AuthValues
    BY <2>1, <2>2, Zenon DEF AuthValues
  <2> QED
    BY <1>9, <2>3 DEF Values
<1>10. CASE k = "Enc"
  <2>1. m \in EncValues
    BY <1>10 DEF Values
  <2>2. m.XXX_unrecognized \o b \in Seq(Byte)
    BY <1>u, <2>1, Zenon DEF EncValues
  <2>3. [m EXCEPT !.XXX_unrecognized = m.XXX_unrecognized \o b] \in EncValues
    BY <2>1, <2>2, Zenon DEF EncValues
  <2> QED
    BY <1>10, <2>3 DEF Values
<1>11. CASE k = "TopicDescriptor"
  <2>1. m \in TopicDescriptorValues
    BY <1>11 DEF Values
  <2>2. m.XXX_unrecognized \o b \in Seq(Byte)
    BY <1>u, <2>1, Zenon DEF TopicDescriptorValues
  <2>3. [m EXCEPT !.XXX_unrecognized = m.XXX_unrecognized \o b] \in TopicDescriptorValues
    BY <2>1, <2>2, Zenon DEF TopicDescriptorValues
  <2> QED
    BY <1>11, <2>3 DEF Values
<1> QED
  BY <1>k, <1>1, <1>2, <1>3, <1>4, <1>5, <1>6, <1>7, <1>8, <1>9, <1>10, <1>11, Zenon

LEMMA UnrecognizedReads ==
  ASSUME NEW k \in DOMAIN Values, NEW m \in Values[k], NEW d \in Seq(Byte), 2 * Len(d) < IntMod,
         NEW i \in 0 .. Len(d) - 1
  PROVE  Unrecognized(m, d, i) \in Reads(Values[k], i, Len(d))
<1> DEFINE rest == SubSeq(d, i + 1, Len(d))
<1>1. rest \in Seq(Byte) /\ rest # <<>> /\ Len(rest) = Len(d) - i
  <2>1. SubSeq(d, i + 1, Len(d)) \in Seq(Byte) /\ Len(SubSeq(d, i + 1, Len(d))) = Len(d) - i
    OBVIOUS
  <2> HIDE DEF rest
  <2>2. rest \in Seq(Byte) /\ Len(rest) = Len(d) - i
    BY <2>1 DEF rest
  <2> QED
    BY <2>2
<1> DEFINE skippy == skipRpc(rest)
           post == PostIndex(i, skippy.next, Len(d))
           raw == Slice(d, i, post.next)
           kept == [m EXCEPT !.XXX_unrecognized = m.XXX_unrecognized \o raw.val]
<1>0. Unrecognized(m, d, i) = IF skippy.err # "none" THEN skippy
                              ELSE IF post.err # "none" THEN post
                              ELSE IF raw.err # "none" THEN raw ELSE Ok(kept, post.next)
  BY DEF Unrecognized, Keep
<1> HIDE DEF rest
<1>2. skippy \in Skips(rest)
  BY <1>1, SkipRpcSkips, Zenon
<1> HIDE DEF skippy
<1>3. CASE skippy.err # "none"
  BY <1>0, <1>2, <1>3, SkipsIs, RefusedReads, Zenon
<1>4. CASE skippy.err = "none"
  <2>1. skippy.next \in Ends(rest)
    BY <1>2, <1>4, SkipsIs, Zenon
  <2>2. skippy.next \in Int /\ (2 * skippy.next < IntMod \/ skippy.next <= Len(d) - i + 8)
    BY <1>1, <2>1 DEF Ends
  <2>3. Len(d) \in Nat /\ i \in 0 .. Len(d) /\ i \in Nat
    OBVIOUS
  <2>4. post \in Reads({Nil}, i, Len(d))
    BY <2>2, <2>3, PostIndexReads
  <2> HIDE DEF post
  <2>5. CASE post.err # "none"
    BY <1>0, <1>4, <2>4, <2>5, ReadsIs, RefusedReads, Zenon
  <2>6. CASE post.err = "none"
    <3>1. post.next \in i .. Len(d)
      BY <2>4, <2>6, ReadsIs, Zenon
    <3>2. raw = Ok(SubSeq(d, i + 1, post.next), post.next)
          /\ SubSeq(d, i + 1, post.next) \in PartsOf(d)
      BY <2>3, <3>1, SliceReads, Zenon
    <3> HIDE DEF raw
    <3>3. raw.err = "none" /\ raw.val \in Seq(Byte)
      BY <3>2, OkIs, Zenon DEF PartsOf
    <3>4. kept \in Values[k]
      BY <3>3, KeepsUnknown, Zenon
    <3> HIDE DEF kept
    <3> QED
      BY <1>0, <1>4, <2>6, <3>1, <3>3, <3>4, OkReads, Zenon
  <2> QED
    BY <2>5, <2>6, Zenon
<1> QED
  BY <1>3, <1>4, Zenon

\* What a field of a kind may become, in a value of V.
Settable(f, m, V) ==
  /\ f.kind \in {"bool", "enum", "bytes", "string", "strings", "message", "messages"}
  /\ f.kind = "bool" => \A v \in BOOLEAN : [m EXCEPT ![f.name] = v] \in V
  /\ f.kind = "enum" => \A v \in Int32 : [m EXCEPT ![f.name] = v] \in V
  /\ f.kind \in {"bytes", "string"} => \A v \in Seq(Byte) : [m EXCEPT ![f.name] = v] \in V
  /\ f.kind = "strings" => \A v \in Seq(Byte) : [m EXCEPT ![f.name] = Append(m[f.name], v)] \in V
  /\ f.kind = "message" => \A v \in Values[f.of] : [m EXCEPT ![f.name] = v] \in V
  /\ f.kind = "messages" =>
       \A v \in Values[f.of] : [m EXCEPT ![f.name] = Append(m[f.name], v)] \in V
\* What is read for a message in a field: a value of its type, or a refusal.
Inside(f, nested) ==
  f.kind \in {"message", "messages"} =>
    /\ nested.err # "none" => nested \in Refused
    /\ nested.err = "none" => nested.val \in Values[f.of]

LEMMA AssignReads ==
  ASSUME NEW f, NEW m, NEW V, NEW w, NEW d \in Seq(Byte), 2 * Len(d) < IntMod, NEW i \in Nat,
         NEW nested, Settable(f, m, V), LengthDelimited(d, i).err = "none" => Inside(f, nested)
  PROVE  Assign(f, w, m, Varint(d, i), LengthDelimited(d, i), nested) \in Reads(V, i + 1, Len(d))
<1> DEFINE r == Assign(f, w, m, Varint(d, i), LengthDelimited(d, i), nested)
           scalar == f.kind \in {"bool", "enum"}
           v == Varint(d, i)
           part == LengthDelimited(d, i)
           Set(val, next) == Ok([m EXCEPT ![f.name] = val], next)
           R == Reads(V, i + 1, Len(d))
<1> SUFFICES r \in R
  OBVIOUS
<1>1. v \in Reads(0 .. IntMod - 1, i + 1, Len(d)) /\ part \in Reads(PartsOf(d), i + 1, Len(d))
  BY VarintReads, LengthDelimitedReads
<1>w. Failed("wire type") \in R
  BY FailedIs, RefusedReads DEF Errors
<1>2. v.err = "none" => v.val \in 0 .. IntMod - 1 /\ v.next \in i + 1 .. Len(d)
  <2> HIDE DEF v
  <2> QED
    BY <1>1, ReadsIs, Zenon
<1>3. part.err = "none" => part.val \in Seq(Byte) /\ part.next \in i + 1 .. Len(d)
  <2> HIDE DEF part
  <2> QED
    BY <1>1, ReadsIs, Zenon DEF PartsOf
<1>4. (v.err # "none" => v \in R) /\ (part.err # "none" => part \in R)
  <2> HIDE DEF part, v
  <2> QED
    BY <1>1, ReadsIs, RefusedReads, Zenon
<1>0. r = IF w # (IF scalar THEN 0 ELSE 2) THEN Failed("wire type")
          ELSE IF scalar /\ v.err # "none" THEN v
          ELSE IF ~scalar /\ part.err # "none" THEN part
          ELSE IF f.kind \in {"message", "messages"} /\ nested.err # "none" THEN nested
          ELSE CASE f.kind = "bool" -> Set(v.val # 0, v.next)
                 [] f.kind = "enum" -> Set(Signed(v.val, FieldMod), v.next)
                 [] f.kind = "bytes" -> Set(Overwrite(m[f.name], part.val), part.next)
                 [] f.kind = "string" -> Set(part.val, part.next)
                 [] f.kind = "strings" -> Set(Append(m[f.name], part.val), part.next)
                 [] f.kind = "message" -> Set(nested.val, part.next)
                 [] f.kind = "messages" -> Set(Append(m[f.name], nested.val), part.next)
  BY Zenon DEF Assign
<1>5. ASSUME NEW x, NEW j \in i + 1 .. Len(d), [m EXCEPT ![f.name] = x] \in V
      PROVE  Set(x, j) \in R
  BY <1>5, OkReads, Zenon
<1> HIDE DEF Set, R, r, v, part
<1>6. CASE w # (IF scalar THEN 0 ELSE 2)
  BY <1>0, <1>6, <1>w, Zenon
<1>7. CASE w = 0 /\ scalar
  <2>1. CASE v.err # "none"
    BY <1>0, <1>4, <1>7, <2>1
  <2>2. CASE v.err = "none" /\ f.kind = "bool"
    <3>1. r = Set(v.val # 0, v.next)
      BY <1>0, <1>7, <2>2
    <3>2. [m EXCEPT ![f.name] = (v.val # 0)] \in V
      <4>1. (v.val # 0) \in BOOLEAN
        OBVIOUS
      <4> QED
        BY <2>2, <4>1, Zenon DEF Settable
    <3> QED
      BY <1>2, <1>5, <2>2, <3>1, <3>2, Zenon
  <2>3. CASE v.err = "none" /\ f.kind = "enum"
    <3>1. r = Set(Signed(v.val, FieldMod), v.next)
      BY <1>0, <1>7, <2>3
    <3>2. Signed(v.val, FieldMod) \in Int32
      <4>1. v.val \in Int
        BY <1>2, <2>3
      <4>2. FieldMod \in Nat /\ FieldMod >= 1 /\ FieldMod = 2 * (FieldMod \div 2)
        BY Widths
      <4> QED
        BY <4>1, <4>2, SignedRange, Zenon DEF Int32
    <3> QED
      BY <1>2, <1>5, <2>3, <3>1, <3>2, Zenon DEF Settable
  <2> QED
    BY <1>7, <2>1, <2>2, <2>3, Zenon
<1>8. CASE w = 2 /\ ~ scalar
  <2>1. CASE part.err # "none"
    BY <1>0, <1>4, <1>8, <2>1
  <2>2. CASE part.err = "none" /\ f.kind = "bytes"
    <3>1. r = Set(Overwrite(m[f.name], part.val), part.next)
      BY <1>0, <1>8, <2>2
    <3>2. Overwrite(m[f.name], part.val) \in Seq(Byte)
      <4>1. part.val \in Seq(Byte) /\ <<>> \in Seq(Byte)
        BY <1>3, <2>2
      <4> QED
        BY <4>1, Zenon DEF Overwrite
    <3> QED
      BY <1>3, <1>5, <2>2, <3>1, <3>2, Zenon DEF Settable
  <2>3. CASE part.err = "none" /\ f.kind = "string"
    <3>1. r = Set(part.val, part.next)
      BY <1>0, <1>8, <2>3
    <3> QED
      BY <1>3, <1>5, <2>3, <3>1, Zenon DEF Settable
  <2>4. CASE part.err = "none" /\ f.kind = "strings"
    <3>1. r = Set(Append(m[f.name], part.val), part.next)
      BY <1>0, <1>8, <2>4
    <3> QED
      BY <1>3, <1>5, <2>4, <3>1, Zenon DEF Settable
  <2>5. CASE part.err = "none" /\ f.kind \in {"message", "messages"}
    <3>1. Inside(f, nested)
      BY <2>5, Zenon DEF part
    <3>2. CASE nested.err # "none"
      <4>1. r = nested
        BY <1>0, <1>8, <2>5, <3>2
      <4>2. nested \in Refused
        BY <2>5, <3>1, <3>2, Zenon DEF Inside
      <4> QED
        BY <4>1, <4>2, RefusedReads, Zenon DEF R
    <3>3. CASE nested.err = "none" /\ f.kind = "message"
      <4>1. r = Set(nested.val, part.next)
        BY <1>0, <1>8, <2>5, <3>3
      <4>2. nested.val \in Values[f.of]
        BY <2>5, <3>1, <3>3, Zenon DEF Inside
      <4> QED
        BY <1>3, <1>5, <2>5, <3>3, <4>1, <4>2, Zenon DEF Settable
    <3>4. CASE nested.err = "none" /\ f.kind = "messages"
      <4>1. r = Set(Append(m[f.name], nested.val), part.next)
        BY <1>0, <1>8, <2>5, <3>4
      <4>2. nested.val \in Values[f.of]
        BY <2>5, <3>1, <3>4, Zenon DEF Inside
      <4> QED
        BY <1>3, <1>5, <2>5, <3>4, <4>1, <4>2, Zenon DEF Settable
    <3> QED
      BY <2>5, <3>2, <3>3, <3>4, Zenon
  <2> QED
    BY <1>8, <2>1, <2>2, <2>3, <2>4, <2>5 DEF Settable
<1> QED
  BY <1>6, <1>7, <1>8, Zenon

(***************************************************************************)
(* Decoding: the loop of Unmarshal.                                        *)
(***************************************************************************)
\* Where a message is read into: the one that is there, or a new one.
Ready(f, m) ==
  f.kind \in {"message", "messages"} => f.of \in DOMAIN Values /\ Into(f, m) \in Values[f.of]

LEMMA FieldsSettable ==
  ASSUME NEW k \in DOMAIN Values, NEW m \in Values[k], NEW j \in DOMAIN Types[k].fields
  PROVE  Settable(Types[k].fields[j], m, Values[k]) /\ Ready(Types[k].fields[j], m)
<1> DEFINE f == Types[k].fields[j]
           old == m[f.name]
<1>1. f.kind \in FieldKinds /\ Typed(f, old)
      /\ (f.kind \in {"message", "messages"} => f.of \in DOMAIN Values)
  BY StructWith
<1>2. \A val : Typed(f, val) => [m EXCEPT ![f.name] = val] \in Values[k]
  <2>1. \A val : Typed(f, val) => With(m, f.name, val) \in Values[k]
    BY StructWith
  <2> QED
    BY <2>1, Zenon DEF With
<1> HIDE DEF f
<1>3. Ready(f, m)
  <2> SUFFICES ASSUME f.kind \in {"message", "messages"}
               PROVE  f.of \in DOMAIN Values /\ Into(f, m) \in Values[f.of]
    BY Zenon DEF Ready
  <2>1. f.of \in DOMAIN Values /\ Types[f.of].new \in Values[f.of]
    BY <1>1, NewValues, Zenon
  <2>2. f.kind = "message" /\ old # Nil => old \in Values[f.of]
    BY <1>1, Zenon DEF Typed
  <2> QED
    BY <2>1, <2>2, Zenon DEF Into
<1>4. Settable(f, m, Values[k])
  <2>1. CASE f.kind = "bool"
    BY <1>2, <2>1 DEF Settable, Typed
  <2>2. CASE f.kind = "enum"
    BY <1>2, <2>2 DEF Settable, Typed
  <2>3. CASE f.kind \in {"bytes", "string"}
    BY <1>2, <2>3 DEF Settable, Typed, Text
  <2>4. CASE f.kind = "strings"
    <3>1. \A v \in Seq(Byte) : Append(old, v) \in Seq(Seq(Byte))
      BY <1>1, <2>4, AppendProperties, Zenon DEF Typed
    <3> QED
      BY <1>2, <2>4, <3>1 DEF Settable, Typed
  <2>5. CASE f.kind = "message"
    BY <1>2, <2>5 DEF Settable, Typed
  <2>6. CASE f.kind = "messages"
    <3>1. \A v \in Values[f.of] : Append(old, v) \in Seq(Values[f.of])
      BY <1>1, <2>6, AppendProperties, Zenon DEF Typed
    <3> QED
      BY <1>2, <2>6, <3>1 DEF Settable, Typed
  <2> QED
    BY <1>1, <2>1, <2>2, <2>3, <2>4, <2>5, <2>6 DEF FieldKinds
<1> QED
  BY <1>3, <1>4 DEF f

LEMMA FieldAtSettable ==
  ASSUME NEW k \in DOMAIN Values, NEW m \in Values[k], NEW tag,
         fieldNum(tag) \in DOMAIN Types[k].fields
  PROVE  Settable(FieldAt(k, tag), m, Values[k]) /\ Ready(FieldAt(k, tag), m)
BY FieldsSettable, Zenon DEF FieldAt

\* What is read for the message in the field at index i of d, if there is one.
NestedAt(k, d, i, nested) ==
  LET tag == Varint(d, i)
  IN tag.err = "none" /\ fieldNum(tag) \in DOMAIN Types[k].fields
     /\ LengthDelimited(d, tag.next).err = "none" => Inside(FieldAt(k, tag), nested)

LEMMA ReadFieldReads ==
  ASSUME NEW k \in DOMAIN Values, NEW m \in Values[k], NEW d \in Seq(Byte), 2 * Len(d) < IntMod,
         NEW i \in 0 .. Len(d) - 1, NEW nested, NestedAt(k, d, i, nested)
  PROVE  ReadField(k, m, d, i, nested) \in Reads(Values[k], 0, Len(d))
<1> DEFINE tag == Varint(d, i)
           w == tag.val % 8
           v == Varint(d, tag.next)
           part == LengthDelimited(d, tag.next)
           r == ReadField(k, m, d, i, nested)
           R == Reads(Values[k], 0, Len(d))
<1>0. r = IF tag.err # "none" THEN tag
          ELSE IF w = 4 \/ fieldNum(tag) <= 0 THEN Failed("tag")
          ELSE IF fieldNum(tag) \in DOMAIN Types[k].fields
                 THEN Assign(FieldAt(k, tag), w, m, v, part, nested)
                 ELSE Unrecognized(m, d, i)
  BY Zenon DEF ReadField
<1>1. i \in Nat /\ 0 <= i
  OBVIOUS
<1>2. tag \in Reads(0 .. IntMod - 1, i + 1, Len(d))
  BY <1>1, VarintReads, Zenon
<1>3. Failed("tag") \in R
  BY FailedIs, RefusedReads DEF Errors
<1>4. Unrecognized(m, d, i) \in R
  <2>1. Unrecognized(m, d, i) \in Reads(Values[k], i, Len(d))
    BY UnrecognizedReads
  <2> QED
    BY <1>1, <2>1, SmallerReads
<1>5. ASSUME tag.err = "none", fieldNum(tag) \in DOMAIN Types[k].fields
      PROVE  Assign(FieldAt(k, tag), w, m, v, part, nested) \in R
  <2> DEFINE f == FieldAt(k, tag)
  <2>1. LengthDelimited(d, tag.next).err = "none" => Inside(f, nested)
    BY <1>5, Zenon DEF NestedAt
  <2>2. Settable(f, m, Values[k])
    BY <1>5, FieldAtSettable, Zenon
  <2> HIDE DEF f, tag, w
  <2>3. tag.next \in Nat /\ tag.next + 1 \in Nat /\ 0 <= tag.next + 1
    <3>1. tag.next \in i + 1 .. Len(d)
      BY <1>2, <1>5, ReadsIs, Zenon
    <3> QED
      BY <3>1
  <2>4. Assign(f, w, m, v, part, nested) \in Reads(Values[k], tag.next + 1, Len(d))
    BY <2>1, <2>2, <2>3, AssignReads
  <2>5. Assign(f, w, m, v, part, nested) \in R
    <3>1. 0 \in Nat
      OBVIOUS
    <3> QED
      BY <2>3, <2>4, <3>1, SmallerReads
  <2> QED
    BY <2>5 DEF f
<1> HIDE DEF tag, w, r
<1>6. tag.err # "none" => tag \in R
  BY <1>2, ReadsIs, RefusedReads, Zenon
<1>7. r \in R
  BY <1>0, <1>3, <1>4, <1>5, <1>6, Zenon
<1> QED
  BY <1>7 DEF r
\* Unmarshal, by how deep the messages are that it reads.
UnmarshalTo(depth, k, m, d) ==
  CASE depth = 0 -> NoUnmarshal(k, m, d)
    [] depth = 1 -> UnmarshalFlat(k, m, d)
    [] depth = 2 -> UnmarshalOuter(k, m, d)
    [] depth = 3 -> Unmarshal(k, m, d)

\* The message in the field that comes next, and a round of the loop.
InnerAt(depth, k, d, r) ==
  LET tag == Varint(d, r.next)
      f == FieldAt(k, tag)
  IN UnmarshalTo(depth - 1, f.of, Into(f, r.val), LengthDelimited(d, tag.next).val)

Round(depth, k, d, r) == ReadField(k, r.val, d, r.next, InnerAt(depth, k, d, r))

\* g[n] is where the loop is after n rounds.
Trace(depth, k, m, d, g) ==
  /\ g[0] = Ok(m, 0) /\ \A n \in Nat : g[n] \in Reads(Values[k], 0, Len(d))
  /\ \A n \in Nat : g[n + 1] = IF g[n].err # "none" \/ g[n].next >= Len(d) THEN g[n]
                               ELSE Round(depth, k, d, g[n])

Traced(depth, k, m, d) ==
  \E g : Trace(depth, k, m, d, g) /\ UnmarshalTo(depth, k, m, d) = g[Len(d)]

LEMMA RoundReads ==
  ASSUME NEW depth \in 1 .. 3, NEW k \in DOMAIN Values, NEW d \in Seq(Byte), 2 * Len(d) < IntMod,
         NEW r \in Reads(Values[k], 0, Len(d)), r.err = "none", ~ (r.next >= Len(d)),
         \A of \in DOMAIN Values : \A m \in Values[of] : \A b \in Seq(Byte) : 2 * Len(b) < IntMod =>
           UnmarshalTo(depth - 1, of, m, b) \in Reads(Values[of], 0, Len(b))
  PROVE  Round(depth, k, d, r) \in Reads(Values[k], 0, Len(d))
<1> DEFINE Inner == InnerAt(depth, k, d, r)
<1>1. r.val \in Values[k] /\ r.next \in 0 .. Len(d) - 1 /\ r.next \in Nat
  <2>1. r.val \in Values[k] /\ r.next \in 0 .. Len(d)
    BY ReadsIs, Zenon
  <2> QED
    BY <2>1
<1>2. NestedAt(k, d, r.next, Inner)
  <2> DEFINE tag == Varint(d, r.next)
             f == FieldAt(k, tag)
             part == LengthDelimited(d, tag.next)
  <2> SUFFICES ASSUME tag.err = "none", fieldNum(tag) \in DOMAIN Types[k].fields,
                      part.err = "none", f.kind \in {"message", "messages"}
               PROVE  Inside(f, Inner)
    BY Zenon DEF NestedAt, Inside
  <2>1. Inner = UnmarshalTo(depth - 1, f.of, Into(f, r.val), part.val)
    BY Zenon DEF InnerAt
  <2>2. f.of \in DOMAIN Values /\ Into(f, r.val) \in Values[f.of]
    BY <1>1, FieldAtSettable, Zenon DEF Ready
  <2>3. tag.next \in Nat
    <3>1. tag \in Reads(0 .. IntMod - 1, r.next + 1, Len(d))
      BY <1>1, VarintReads
    <3> HIDE DEF tag
    <3>2. tag.next \in r.next + 1 .. Len(d)
      BY <3>1, ReadsIs, Zenon
    <3> QED
      BY <1>1, <3>2
  <2> HIDE DEF tag, f
  <2>4. part \in Reads(PartsOf(d), tag.next + 1, Len(d))
    BY <2>3, LengthDelimitedReads
  <2> HIDE DEF part
  <2>5. part.val \in Seq(Byte) /\ Len(part.val) <= Len(d)
    <3>1. part.val \in PartsOf(d)
      BY <2>4, ReadsIs, Zenon
    <3> QED
      BY <3>1 DEF PartsOf
  <2>6. 2 * Len(part.val) < IntMod
    <3>1. Len(part.val) \in Nat /\ Len(d) \in Nat /\ IntMod \in Nat
      BY <2>5, Widths
    <3> QED
      BY <2>5, <3>1
  <2> HIDE DEF Inner
  <2>7. Inner \in Reads(Values[f.of], 0, Len(part.val))
    BY <2>1, <2>2, <2>5, <2>6, Zenon
  <2> QED
    BY <2>7, ReadsIs, Zenon DEF Inside
<1> HIDE DEF Inner
<1>3. ReadField(k, r.val, d, r.next, Inner) \in Reads(Values[k], 0, Len(d))
  BY <1>1, <1>2, ReadFieldReads
<1> QED
  BY <1>3 DEF Round, Inner

LEMMA Traces ==
  ASSUME NEW depth \in 1 .. 3, NEW k \in DOMAIN Values, NEW m \in Values[k],
         NEW d \in Seq(Byte), 2 * Len(d) < IntMod,
         \A of \in DOMAIN Values : \A x \in Values[of] : \A b \in Seq(Byte) : 2 * Len(b) < IntMod =>
           UnmarshalTo(depth - 1, of, x, b) \in Reads(Values[of], 0, Len(b))
  PROVE  Traced(depth, k, m, d)
<1> DEFINE R == Reads(Values[k], 0, Len(d))
           Then(r) == IF r.err # "none" \/ r.next >= Len(d) THEN r ELSE Round(depth, k, d, r)
           F == [r \in R |-> Then(r)]
<1>1. Ok(m, 0) \in R /\ Len(d) \in Nat
  <2>1. 0 \in 0 .. Len(d)
    OBVIOUS
  <2> QED
    BY <2>1, OkReads
<1>2. ASSUME NEW r \in R PROVE Then(r) \in R
  BY RoundReads, Zenon
<1>3. F \in [R -> R] /\ \A r \in R : F[r] = Then(r)
  BY <1>2, Zenon
<1> HIDE DEF R, F
<1>4. PICK g \in [Nat -> R] : \A n \in Nat : g[n] = IF n = 0 THEN Ok(m, 0) ELSE F[g[n - 1]]
  <2>1. ByLoop(R, Ok(m, 0), F)
    BY <1>1, <1>3, LoopExists, Zenon DEF Looping
  <2> QED
    BY <2>1, Zenon DEF ByLoop
<1>5. ASSUME NEW n \in Nat PROVE g[n] = IF n = 0 THEN Ok(m, 0) ELSE Then(g[n - 1])
  <2>1. n # 0 => n - 1 \in Nat
    OBVIOUS
  <2>2. n # 0 => g[n - 1] \in R
    BY <1>4, <2>1, Zenon
  <2> QED
    BY <1>3, <1>4, <2>2, Zenon
<1>6. SUFFICES \E after : /\ \A n \in Nat : after[n] = IF n = 0 THEN Ok(m, 0) ELSE Then(after[n - 1])
                          /\ UnmarshalTo(depth, k, m, d) = after[Len(d)]
  <2>1. PICK after : /\ \A n \in Nat : after[n] = IF n = 0 THEN Ok(m, 0) ELSE Then(after[n - 1])
                     /\ UnmarshalTo(depth, k, m, d) = after[Len(d)]
    BY <1>6, Zenon
  <2>2. after[0] = Ok(m, 0)
    <3>1. 0 \in Nat
      OBVIOUS
    <3> QED
      BY <2>1, <3>1, Zenon
  <2>3. ASSUME NEW n \in Nat, n # 0, after[n - 1] \in R PROVE after[n] \in R
    BY <1>2, <2>1, <2>3, Zenon
  <2>4. \A n \in Nat : after[n] \in R
    BY <1>1, <2>2, <2>3, LoopInduction
  <2>5. ASSUME NEW n \in Nat PROVE after[n + 1] = Then(after[n])
    <3> DEFINE p == n + 1
    <3>1. p \in Nat /\ p # 0 /\ p - 1 = n
      OBVIOUS
    <3> HIDE DEF p
    <3>2. after[p] = Then(after[p - 1])
      BY <2>1, <3>1, Zenon
    <3> QED
      BY <3>1, <3>2, Zenon DEF p
  <2>6. Trace(depth, k, m, d, after)
    BY <2>2, <2>4, <2>5, Zenon DEF Trace, R
  <2> QED
    BY <2>1, <2>6, Zenon DEF Traced
<1>c1. CASE depth = 1
  <2> DEFINE Inner(r) == LET tag == Varint(d, r.next)
                             f == FieldAt(k, tag)
                         IN NoUnmarshal(f.of, Into(f, r.val), LengthDelimited(d, tag.next).val)
  <2>1. \A r : InnerAt(depth, k, d, r) = Inner(r)
    <3>1. \A f, v, b : UnmarshalTo(depth - 1, f, v, b) = NoUnmarshal(f, v, b)
      BY <1>c1 DEF UnmarshalTo
    <3> QED
      BY <3>1, Zenon DEF InnerAt
  <2>2. UnmarshalTo(depth, k, m, d) = UnmarshalFlat(k, m, d)
    BY <1>c1 DEF UnmarshalTo
  <2> HIDE DEF Inner
  <2>3. ASSUME NEW n \in Nat
        PROVE  g[n] =
                 IF n = 0 THEN Ok(m, 0)
                 ELSE LET r == g[n - 1]
                      IN IF r.err # "none" \/ r.next >= Len(d) THEN r
                         ELSE ReadField(k, r.val, d, r.next, Inner(r))
    BY <1>5, <2>1, Zenon DEF Round
  <2>4. g = [n \in Nat |->
                 IF n = 0 THEN Ok(m, 0)
                 ELSE LET r == g[n - 1]
                      IN IF r.err # "none" \/ r.next >= Len(d) THEN r
                         ELSE ReadField(k, r.val, d, r.next, Inner(r))]
    BY <2>3, Zenon
  <2>5. PICK after :
           /\ after = [n \in Nat |->
                 IF n = 0 THEN Ok(m, 0)
                 ELSE LET r == after[n - 1]
                      IN IF r.err # "none" \/ r.next >= Len(d) THEN r
                         ELSE ReadField(k, r.val, d, r.next, Inner(r))]
           /\ UnmarshalFlat(k, m, d) = after[Len(d)]
    BY <2>4, Zenon DEF UnmarshalFlat, Fields, Inner
  <2>6. \A n \in Nat : after[n] = IF n = 0 THEN Ok(m, 0) ELSE Then(after[n - 1])
    BY <2>1, <2>5, Zenon DEF Round
  <2> QED
    BY <2>2, <2>5, <2>6, Zenon
<1>c2. CASE depth = 2
  <2> DEFINE Inner(r) == LET tag == Varint(d, r.next)
                             f == FieldAt(k, tag)
                         IN UnmarshalFlat(f.of, Into(f, r.val), LengthDelimited(d, tag.next).val)
  <2>1. \A r : InnerAt(depth, k, d, r) = Inner(r)
    <3>1. \A f, v, b : UnmarshalTo(depth - 1, f, v, b) = UnmarshalFlat(f, v, b)
      BY <1>c2 DEF UnmarshalTo
    <3> QED
      BY <3>1, Zenon DEF InnerAt
  <2>2. UnmarshalTo(depth, k, m, d) = UnmarshalOuter(k, m, d)
    BY <1>c2 DEF UnmarshalTo
  <2> HIDE DEF Inner
  <2>3. ASSUME NEW n \in Nat
        PROVE  g[n] =
                 IF n = 0 THEN Ok(m, 0)
                 ELSE LET r == g[n - 1]
                      IN IF r.err # "none" \/ r.next >= Len(d) THEN r
                         ELSE ReadField(k, r.val, d, r.next, Inner(r))
    BY <1>5, <2>1, Zenon DEF Round
  <2>4. g = [n \in Nat |->
                 IF n = 0 THEN Ok(m, 0)
                 ELSE LET r == g[n - 1]
                      IN IF r.err # "none" \/ r.next >= Len(d) THEN r
                         ELSE ReadField(k, r.val, d, r.next, Inner(r))]
    BY <2>3, Zenon
  <2>5. PICK after :
           /\ after = [n \in Nat |->
                 IF n = 0 THEN Ok(m, 0)
                 ELSE LET r == after[n - 1]
                      IN IF r.err # "none" \/ r.next >= Len(d) THEN r
                         ELSE ReadField(k, r.val, d, r.next, Inner(r))]
           /\ UnmarshalOuter(k, m, d) = after[Len(d)]
    BY <2>4, Zenon DEF UnmarshalOuter, Fields, Inner
  <2>6. \A n \in Nat : after[n] = IF n = 0 THEN Ok(m, 0) ELSE Then(after[n - 1])
    BY <2>1, <2>5, Zenon DEF Round
  <2> QED
    BY <2>2, <2>5, <2>6, Zenon
<1>c3. CASE depth = 3
  <2> DEFINE Inner(r) == LET tag == Varint(d, r.next)
                             f == FieldAt(k, tag)
                         IN UnmarshalOuter(f.of, Into(f, r.val), LengthDelimited(d, tag.next).val)
  <2>1. \A r : InnerAt(depth, k, d, r) = Inner(r)
    <3>1. \A f, v, b : UnmarshalTo(depth - 1, f, v, b) = UnmarshalOuter(f, v, b)
      BY <1>c3 DEF UnmarshalTo
    <3> QED
      BY <3>1, Zenon DEF InnerAt
  <2>2. UnmarshalTo(depth, k, m, d) = Unmarshal(k, m, d)
    BY <1>c3 DEF UnmarshalTo
  <2> HIDE DEF Inner
  <2>3. ASSUME NEW n \in Nat
        PROVE  g[n] =
                 IF n = 0 THEN Ok(m, 0)
                 ELSE LET r == g[n - 1]
                      IN IF r.err # "none" \/ r.next >= Len(d) THEN r
                         ELSE ReadField(k, r.val, d, r.next, Inner(r))
    BY <1>5, <2>1, Zenon DEF Round
  <2>4. g = [n \in Nat |->
                 IF n = 0 THEN Ok(m, 0)
                 ELSE LET r == g[n - 1]
                      IN IF r.err # "none" \/ r.next >= Len(d) THEN r
                         ELSE ReadField(k, r.val, d, r.next, Inner(r))]
    BY <2>3, Zenon
  <2>5. PICK after :
           /\ after = [n \in Nat |->
                 IF n = 0 THEN Ok(m, 0)
                 ELSE LET r == after[n - 1]
                      IN IF r.err # "none" \/ r.next >= Len(d) THEN r
                         ELSE ReadField(k, r.val, d, r.next, Inner(r))]
           /\ Unmarshal(k, m, d) = after[Len(d)]
    BY <2>4, Zenon DEF Unmarshal, Fields, Inner
  <2>6. \A n \in Nat : after[n] = IF n = 0 THEN Ok(m, 0) ELSE Then(after[n - 1])
    BY <2>1, <2>5, Zenon DEF Round
  <2> QED
    BY <2>2, <2>5, <2>6, Zenon
<1> QED
  BY <1>c1, <1>c2, <1>c3

\* Unmarshal of a type, at every depth: from a value of the type to a value of it.
LEMMA UnmarshalReads ==
  ASSUME NEW depth \in 0 .. 3, NEW k \in DOMAIN Values, NEW m \in Values[k],
         NEW d \in Seq(Byte), 2 * Len(d) < IntMod
  PROVE  /\ UnmarshalTo(depth, k, m, d) \in Reads(Values[k], 0, Len(d))
         /\ depth # 0 => Traced(depth, k, m, d)
<1> DEFINE P(n) == \A of \in DOMAIN Values : \A x \in Values[of] : \A b \in Seq(Byte) :
                     2 * Len(b) < IntMod => UnmarshalTo(n, of, x, b) \in Reads(Values[of], 0, Len(b))
<1>0. P(0)
  <2>1. \A of, x, b : UnmarshalTo(0, of, x, b) = Failed("wire type")
    BY DEF UnmarshalTo, NoUnmarshal
  <2>2. Failed("wire type") \in Refused
    BY FailedIs DEF Errors
  <2> QED
    BY <2>1, <2>2, RefusedReads, Zenon
<1>1. ASSUME NEW n \in 1 .. 3, P(n - 1)
      PROVE  \A of \in DOMAIN Values : \A x \in Values[of] : \A b \in Seq(Byte) :
               2 * Len(b) < IntMod => Traced(n, of, x, b)
  BY <1>1, Traces, Zenon
<1>2. ASSUME NEW n \in 1 .. 3, P(n - 1) PROVE P(n)
  <2> SUFFICES ASSUME NEW of \in DOMAIN Values, NEW x \in Values[of], NEW b \in Seq(Byte),
                      2 * Len(b) < IntMod
               PROVE  UnmarshalTo(n, of, x, b) \in Reads(Values[of], 0, Len(b))
    OBVIOUS
  <2>1. PICK g : Trace(n, of, x, b, g) /\ UnmarshalTo(n, of, x, b) = g[Len(b)]
    BY <1>1, <1>2, Zenon DEF Traced
  <2>2. Len(b) \in Nat
    OBVIOUS
  <2> QED
    BY <2>1, <2>2, Zenon DEF Trace
<1>3. P(0) /\ P(1) /\ P(2) /\ P(3)
  <2>1. P(1 - 1) /\ 1 \in 1 .. 3
    BY <1>0
  <2>2. P(2 - 1) /\ 2 \in 1 .. 3
    <3>1. P(1)
      BY <1>2, <2>1
    <3> QED
      BY <3>1
  <2>3. P(3 - 1) /\ 3 \in 1 .. 3
    <3>1. P(2)
      BY <1>2, <2>2
    <3> QED
      BY <3>1
  <2>4. P(3)
    BY <1>2, <2>3
  <2> HIDE DEF P
  <2> QED
    BY <1>0, <2>1, <2>2, <2>3, <2>4
<1>4. P(depth)
  <2> HIDE DEF P
  <2> QED
    BY <1>3
<1>5. depth # 0 => depth \in 1 .. 3 /\ P(depth - 1)
  <2> HIDE DEF P
  <2> QED
    BY <1>3
<1> QED
  BY <1>1, <1>4, <1>5, Zenon

\* What is not longer than a frame may be decodes to a value of its type, or not at all.
LEMMA DecodedReads ==
  ASSUME NEW k \in DOMAIN Values, NEW d \in Seq(Byte), 2 * Len(d) < IntMod
  PROVE  Decoded(k, d) \in Reads(Values[k], 0, Len(d))
<1>1. Types[k].new \in Values[k]
  BY NewValues, Zenon
<1>2. UnmarshalTo(3, k, Types[k].new, d) \in Reads(Values[k], 0, Len(d))
  BY <1>1, UnmarshalReads
<1> QED
  BY <1>2 DEF UnmarshalTo, Decoded

(***************************************************************************)
(* What stands in the bytes.                                               *)
(***************************************************************************)
\* The bytes x stand at index i of d.
Lies(d, i, x) ==
  /\ d \in Seq(Byte) /\ x \in Seq(Byte) /\ i \in Nat /\ i + Len(x) <= Len(d)
  /\ \A n \in 1 .. Len(x) : d[i + n] = x[n]

\* To stand there is to be that part.
LEMMA LiesIs ==
  ASSUME NEW d, NEW i, NEW x, Lies(d, i, x)
  PROVE  /\ SubSeq(d, i + 1, i + Len(x)) = x
         /\ d \in Seq(Byte) /\ x \in Seq(Byte) /\ i \in Nat /\ Len(x) \in Nat /\ Len(d) \in Nat
         /\ i + Len(x) \in Nat /\ i + Len(x) <= Len(d)
<1>1. /\ d \in Seq(Byte) /\ x \in Seq(Byte) /\ i \in Nat /\ i + Len(x) <= Len(d)
      /\ \A n \in 1 .. Len(x) : d[i + n] = x[n]
  BY DEF Lies
<1> DEFINE u == SubSeq(d, i + 1, i + Len(x))
<1>2. Len(x) \in Nat /\ Len(d) \in Nat /\ i + Len(x) \in Nat
  BY <1>1
<1>3. u = [n \in 1 .. (i + Len(x)) - (i + 1) + 1 |-> d[(i + 1) + n - 1]]
  BY <1>1
<1>4. (i + Len(x)) - (i + 1) + 1 = Len(x)
  BY <1>1, <1>2
<1>5. ASSUME NEW n \in 1 .. Len(x) PROVE d[(i + 1) + n - 1] = x[n]
  <2>1. (i + 1) + n - 1 = i + n
    BY <1>1
  <2> QED
    BY <1>1, <2>1
<1>6. u = [n \in 1 .. Len(x) |-> x[n]]
  BY <1>3, <1>4, <1>5
<1>7. x = [n \in 1 .. Len(x) |-> x[n]]
  BY <1>1
<1> QED
  BY <1>1, <1>2, <1>6, <1>7

LEMMA LiesAt ==
  ASSUME NEW d \in Seq(Byte), NEW i \in Nat, NEW j \in i .. Len(d)
  PROVE  Lies(d, i, SubSeq(d, i + 1, j)) /\ Len(SubSeq(d, i + 1, j)) = j - i
<1> DEFINE x == SubSeq(d, i + 1, j)
<1>1. x \in Seq(Byte) /\ Len(x) = j - i /\ \A n \in 1 .. j - i : x[n] = d[i + n]
  OBVIOUS
<1> HIDE DEF x
<1>2. Lies(d, i, x)
  BY <1>1 DEF Lies
<1> QED
  BY <1>1, <1>2 DEF x

\* What stands there in two pieces.
LEMMA LiesConcat ==
  ASSUME NEW d, NEW i, NEW x \in Seq(Byte), NEW y \in Seq(Byte), Lies(d, i, x \o y)
  PROVE  Lies(d, i, x) /\ Lies(d, i + Len(x), y)
<1> DEFINE z == x \o y
           j == i + Len(x)
<1>1. Len(z) = Len(x) + Len(y) /\ (\A n \in 1 .. Len(x) : z[n] = x[n])
      /\ \A n \in 1 .. Len(y) : z[Len(x) + n] = y[n]
  OBVIOUS
<1>2. /\ d \in Seq(Byte) /\ i \in Nat /\ i + Len(z) <= Len(d)
      /\ \A n \in 1 .. Len(z) : d[i + n] = z[n]
  BY DEF Lies
<1> HIDE DEF z
<1>3. Len(x) \in Nat /\ Len(y) \in Nat /\ Len(d) \in Nat
  BY <1>2
<1>4. Lies(d, i, x)
  <2>1. i + Len(x) <= Len(d)
    BY <1>1, <1>2, <1>3
  <2>2. ASSUME NEW n \in 1 .. Len(x) PROVE d[i + n] = x[n]
    <3>1. n \in 1 .. Len(z)
      BY <1>1, <1>3
    <3> QED
      BY <1>1, <1>2, <3>1
  <2> QED
    BY <1>2, <2>1, <2>2 DEF Lies
<1>5. Lies(d, j, y)
  <2>1. j \in Nat /\ j + Len(y) <= Len(d)
    BY <1>1, <1>2, <1>3
  <2>2. ASSUME NEW n \in 1 .. Len(y) PROVE d[j + n] = y[n]
    <3>1. Len(x) + n \in 1 .. Len(z) /\ i + (Len(x) + n) = j + n
      BY <1>1, <1>2, <1>3
    <3>2. d[i + (Len(x) + n)] = z[Len(x) + n]
      BY <1>2, <3>1
    <3> QED
      BY <1>1, <3>1, <3>2
  <2> HIDE DEF j
  <2> QED
    BY <1>2, <2>1, <2>2 DEF Lies
<1> QED
  BY <1>4, <1>5

LEMMA LiesItself == \A d \in Seq(Byte) : Lies(d, 0, d)
BY DEF Lies

\* What stands in a part stands in the whole, and the other way round.
LEMMA LiesUp ==
  ASSUME NEW d, NEW p, NEW y, Lies(d, p, y), NEW a, NEW w, Lies(y, a, w)
  PROVE  Lies(d, p + a, w)
<1>1. /\ d \in Seq(Byte) /\ y \in Seq(Byte) /\ p \in Nat /\ p + Len(y) <= Len(d)
      /\ (\A n \in 1 .. Len(y) : d[p + n] = y[n])
      /\ w \in Seq(Byte) /\ a \in Nat /\ a + Len(w) <= Len(y)
      /\ \A n \in 1 .. Len(w) : y[a + n] = w[n]
  BY DEF Lies
<1>2. Len(d) \in Nat /\ Len(y) \in Nat /\ Len(w) \in Nat
  BY <1>1
<1> DEFINE j == p + a
<1>3. j \in Nat /\ j + Len(w) <= Len(d)
  BY <1>1, <1>2
<1>4. ASSUME NEW n \in 1 .. Len(w) PROVE d[j + n] = w[n]
  <2>1. a + n \in 1 .. Len(y) /\ p + (a + n) = j + n
    BY <1>1, <1>2
  <2>2. d[p + (a + n)] = y[a + n]
    BY <1>1, <2>1
  <2> QED
    BY <1>1, <2>1, <2>2
<1> HIDE DEF j
<1>5. Lies(d, j, w)
  BY <1>1, <1>3, <1>4 DEF Lies
<1> QED
  BY <1>5 DEF j

\* What stands inside of a part of d stands in that part.
LEMMA LiesDown ==
  ASSUME NEW d, NEW p, NEW y, Lies(d, p, y), NEW a \in Nat, NEW w, Lies(d, p + a, w),
         a + Len(w) <= Len(y)
  PROVE  Lies(y, a, w)
<1> DEFINE j == p + a
<1>1. /\ d \in Seq(Byte) /\ y \in Seq(Byte) /\ p \in Nat /\ p + Len(y) <= Len(d)
      /\ \A n \in 1 .. Len(y) : d[p + n] = y[n]
  BY DEF Lies
<1>2. w \in Seq(Byte) /\ \A n \in 1 .. Len(w) : d[j + n] = w[n]
  BY DEF Lies
<1>3. Len(d) \in Nat /\ Len(y) \in Nat /\ Len(w) \in Nat
  BY <1>1, <1>2
<1>4. ASSUME NEW n \in 1 .. Len(w) PROVE y[a + n] = w[n]
  <2>1. a + n \in 1 .. Len(y) /\ p + (a + n) = j + n
    BY <1>1, <1>3
  <2> QED
    BY <1>1, <1>2, <2>1
<1> QED
  BY <1>1, <1>2, <1>4 DEF Lies

(***************************************************************************)
(* Varints.                                                                *)
(***************************************************************************)
\* The bytes of a varint end at the first that is below 128.
Ended(w) ==
  /\ w \in Seq(Byte) /\ Len(w) \in 1 .. MaxVarint /\ w[Len(w)] < 128
  /\ \A n \in 1 .. Len(w) - 1 : ~ (w[n] < 128)

\* Of bytes that end as a varint does, Varint reads the number they spell.
LEMMA VarintOf ==
  ASSUME NEW d, NEW i, NEW w, Lies(d, i, w), Ended(w)
  PROVE  Varint(d, i) = Ok(number[w] % IntMod, i + Len(w))
<1> DEFINE ends == {m \in 1 .. MaxVarint : i + m <= Len(d) /\ d[i + m] < 128}
           N == Len(w)
<1>0. SubSeq(d, i + 1, i + N) = w /\ i \in Nat /\ N \in Nat
  BY LiesIs
<1>1. N \in ends /\ ends # {} /\ \A m \in ends : m \in Nat
  <2>1. N \in 1 .. MaxVarint /\ w[N] < 128
    BY DEF Ended
  <2>2. i + N <= Len(d) /\ \A n \in 1 .. N : d[i + n] = w[n]
    BY Zenon DEF Lies
  <2>3. N \in 1 .. N
    BY <1>0, <2>1
  <2>4. d[i + N] = w[N]
    BY <2>2, <2>3
  <2> HIDE DEF N
  <2> QED
    BY <2>1, <2>2, <2>4
<1>2. Min(ends) \in ends /\ Min(ends) <= N
  <2> HIDE DEF ends, N
  <2> QED
    BY <1>1, MinOf, Zenon
<1>3. Min(ends) = N
  <2> DEFINE least == Min(ends)
  <2>1. least \in 1 .. MaxVarint /\ d[i + least] < 128 /\ least <= N
    BY <1>2
  <2> HIDE DEF least
  <2>2. ~ (least \in 1 .. N - 1)
    <3> SUFFICES ASSUME least \in 1 .. N - 1 PROVE FALSE
      OBVIOUS
    <3>1. least \in 1 .. N
      BY <1>0
    <3>2. d[i + least] = w[least]
      BY <3>1 DEF Lies
    <3> QED
      BY <2>1, <3>2 DEF Ended
  <2>3. least = N
    BY <1>0, <2>1, <2>2, Widths
  <2> QED
    BY <2>3 DEF least
<1>4. Varint(d, i) = Ok(number[SubSeq(d, i + 1, i + N)] % IntMod, i + N)
  <2> HIDE DEF N
  <2> QED
    BY <1>1, <1>3, Zenon DEF Varint
<1> QED
  BY <1>0, <1>4, Zenon

\* encodeVarintRpc ends its bytes.
LEMMA VarintBytes ==
  ASSUME NEW d \in Seq(Byte), NEW i \in Nat, Varint(d, i).err = "none"
  PROVE  \E w : Lies(d, i, w) /\ Ended(w)
<1> DEFINE ends == {m \in 1 .. MaxVarint : i + m <= Len(d) /\ d[i + m] < 128}
<1>1. ends # {}
  <2> SUFFICES ASSUME ends = {} PROVE FALSE
    OBVIOUS
  <2>1. Varint(d, i) \in {Failed("EOF"), Failed("overflow")}
    BY Zenon DEF Varint
  <2> QED
    BY <2>1 DEF Failed
<1>2. Min(ends) \in ends /\ \A m \in ends : Min(ends) <= m
  <2>1. \A m \in ends : m \in Nat
    OBVIOUS
  <2> HIDE DEF ends
  <2> QED
    BY <1>1, <2>1, MinOf, Zenon
<1> DEFINE n == Min(ends)
           w == SubSeq(d, i + 1, i + n)
<1>3. n \in 1 .. MaxVarint /\ i + n <= Len(d) /\ d[i + n] < 128
  BY <1>2
<1>0. MaxVarint \in Nat /\ Len(d) \in Nat
  BY Widths
<1>4. ASSUME NEW m \in 1 .. n - 1 PROVE ~ (d[i + m] < 128)
  <2> HIDE DEF n
  <2>1. m \in 1 .. MaxVarint /\ i + m <= Len(d) /\ m < n
    BY <1>3, <1>0
  <2>2. m \notin ends
    BY <1>2, <2>1 DEF n
  <2> QED
    BY <2>1, <2>2
<1> HIDE DEF n
<1>5. w \in Seq(Byte) /\ Len(w) = n /\ \A m \in 1 .. n : w[m] = d[i + m]
  BY <1>0, <1>3
<1> HIDE DEF w
<1>6. n \in 1 .. n /\ \A m \in 1 .. n - 1 : m \in 1 .. n
  BY <1>0, <1>3
<1>7. Lies(d, i, w)
  BY <1>3, <1>5 DEF Lies
<1>8. Ended(w)
  BY <1>3, <1>4, <1>5, <1>6 DEF Ended
<1> QED
  BY <1>7, <1>8

\* A varint that is read has bytes of its own, and is the same wherever these stand.
LEMMA VarintStands ==
  ASSUME NEW d \in Seq(Byte), NEW i \in Nat, Varint(d, i).err = "none"
  PROVE  \E w : /\ Lies(d, i, w) /\ Len(w) = Varint(d, i).next - i /\ Len(w) \in Nat \ {0}
                /\ \A e, j : Lies(e, j, w) => Varint(e, j) = Ok(Varint(d, i).val, j + Len(w))
<1>1. PICK w : Lies(d, i, w) /\ Ended(w)
  BY VarintBytes
<1>2. Varint(d, i) = Ok(number[w] % IntMod, i + Len(w))
  BY <1>1, VarintOf, Zenon
<1>3. \A e, j : Lies(e, j, w) => Varint(e, j) = Ok(number[w] % IntMod, j + Len(w))
  BY <1>1, VarintOf, Zenon
<1>4. Varint(d, i).val = number[w] % IntMod /\ Varint(d, i).next = i + Len(w)
  BY <1>2, OkIs, Zenon
<1>5. Len(w) \in Nat \ {0}
  BY <1>1 DEF Ended
<1>6. Len(w) = Varint(d, i).next - i
  BY <1>4, <1>5
<1> QED
  BY <1>1, <1>3, <1>4, <1>5, <1>6, Zenon

LEMMA Pow2Monotone == \A a \in Nat : \A c \in Nat : pow2[a] <= pow2[a + c]
<1> SUFFICES ASSUME NEW a \in Nat PROVE \A c \in Nat : pow2[a] <= pow2[a + c]
  OBVIOUS
<1> DEFINE S == {c \in Nat : pow2[a] <= pow2[a + c]}
<1>1. 0 \in S
  BY Pow2
<1>2. ASSUME NEW c \in Nat, c \in S PROVE c + 1 \in S
  <2>1. a + c \in Nat /\ (a + c) + 1 = a + (c + 1)
    OBVIOUS
  <2>2. pow2[(a + c) + 1] = 2 * pow2[a + c] /\ pow2[a + c] \in Nat /\ pow2[a] \in Nat
    BY <2>1, Pow2
  <2> QED
    BY <1>2, <2>1, <2>2
<1> HIDE DEF S
<1>3. \A c \in Nat : c \in S
  BY <1>1, <1>2, SetInduction
<1> QED
  BY <1>3 DEF S

LEMMA Pow2Times == \A a \in Nat : \A c \in Nat : \E q \in Nat : pow2[a + c] = q * pow2[a]
<1> SUFFICES ASSUME NEW a \in Nat PROVE \A c \in Nat : \E q \in Nat : pow2[a + c] = q * pow2[a]
  OBVIOUS
<1> DEFINE S == {c \in Nat : \E q \in Nat : pow2[a + c] = q * pow2[a]}
<1>1. 0 \in S
  <2>1. pow2[a + 0] = 1 * pow2[a]
    BY Pow2
  <2> QED
    BY <2>1
<1>2. ASSUME NEW c \in Nat, c \in S PROVE c + 1 \in S
  <2>1. a + c \in Nat /\ (a + c) + 1 = a + (c + 1)
    OBVIOUS
  <2>2. pow2[(a + c) + 1] = 2 * pow2[a + c] /\ pow2[a] \in Nat
    BY <2>1, Pow2
  <2>3. PICK q \in Nat : pow2[a + c] = q * pow2[a]
    BY <1>2
  <2>4. pow2[a + (c + 1)] = (2 * q) * pow2[a] /\ 2 * q \in Nat
    BY <2>1, <2>2, <2>3
  <2> QED
    BY <2>4
<1> HIDE DEF S
<1>3. \A c \in Nat : c \in S
  BY <1>1, <1>2, SetInduction
<1> QED
  BY <1>3 DEF S

LEMMA Pow2Seven == \A n \in Nat : pow2[7 * (n + 1)] = 128 * pow2[7 * n]
<1> TAKE n \in Nat
<1> DEFINE a == 7 * n
<1>1. a \in Nat /\ 7 * (n + 1) = a + 7
  OBVIOUS
<1> HIDE DEF a
<1>2. /\ pow2[a + 1] = 2 * pow2[a] /\ pow2[(a + 1) + 1] = 2 * pow2[a + 1]
      /\ pow2[(a + 2) + 1] = 2 * pow2[a + 2] /\ pow2[(a + 3) + 1] = 2 * pow2[a + 3]
      /\ pow2[(a + 4) + 1] = 2 * pow2[a + 4] /\ pow2[(a + 5) + 1] = 2 * pow2[a + 5]
      /\ pow2[(a + 6) + 1] = 2 * pow2[a + 6] /\ pow2[a] \in Nat
  BY <1>1, Pow2
<1>3. pow2[a + 7] = 128 * pow2[a]
  BY <1>1, <1>2
<1> QED
  BY <1>1, <1>3 DEF a

\* The least numbers that the assumption on the widths leaves.
LEMMA Least ==
  /\ IntBits \in Nat /\ IntBits >= 8 /\ FieldBits \in Nat
  /\ IntMod >= 256 /\ FieldMod >= 16 /\ MaxVarint \in Nat \ {0}
  /\ IntMod <= pow2[7 * MaxVarint] /\ \E q \in Nat : IntMod = q * FieldMod
<1>1. /\ IntBits \in Nat
      /\ IntBits % 7 = 1
      /\ FieldBits \in Nat
      /\ FieldBits >= 4
      /\ FieldBits + 4 <= IntBits
  BY WidthsAssumption
<1>2. MaxVarint \in Nat \ {0} /\ 7 * MaxVarint >= IntBits
  BY <1>1 DEF MaxVarint
<1>3. pow2[4] = 16 /\ pow2[8] = 256
  <2>1. /\ pow2[0] = 1
        /\ pow2[0 + 1] = 2 * pow2[0]
        /\ pow2[1 + 1] = 2 * pow2[1]
        /\ pow2[2 + 1] = 2 * pow2[2]
        /\ pow2[3 + 1] = 2 * pow2[3] /\ pow2[4 + 1] = 2 * pow2[4] /\ pow2[5 + 1] = 2 * pow2[5]
        /\ pow2[6 + 1] = 2 * pow2[6] /\ pow2[7 + 1] = 2 * pow2[7]
    BY Pow2
  <2> QED
    BY <2>1
<1>4. FieldMod >= 16
  <2>1. FieldBits - 4 \in Nat /\ 4 + (FieldBits - 4) = FieldBits
    BY <1>1
  <2>2. pow2[4] <= pow2[4 + (FieldBits - 4)]
    BY <2>1, Pow2Monotone
  <2> QED
    BY <1>3, <2>1, <2>2 DEF FieldMod
<1>5. IntMod >= 256
  <2>1. IntBits - 8 \in Nat /\ 8 + (IntBits - 8) = IntBits
    BY <1>1
  <2>2. pow2[8] <= pow2[8 + (IntBits - 8)]
    BY <2>1, Pow2Monotone
  <2> QED
    BY <1>3, <2>1, <2>2 DEF IntMod
<1>6. IntMod <= pow2[7 * MaxVarint]
  <2> DEFINE c == 7 * MaxVarint - IntBits
  <2>1. c \in Nat /\ IntBits + c = 7 * MaxVarint
    BY <1>1, <1>2
  <2> HIDE DEF c
  <2>2. pow2[IntBits] <= pow2[IntBits + c]
    BY <1>1, <2>1, Pow2Monotone
  <2> QED
    BY <2>1, <2>2 DEF IntMod
<1>7. \E q \in Nat : IntMod = q * FieldMod
  <2> DEFINE c == IntBits - FieldBits
  <2>1. c \in Nat /\ FieldBits + c = IntBits
    BY <1>1
  <2> HIDE DEF c
  <2>2. \E q \in Nat : pow2[FieldBits + c] = q * pow2[FieldBits]
    BY <1>1, <2>1, Pow2Times
  <2> QED
    BY <2>1, <2>2 DEF IntMod, FieldMod
<1> QED
  BY <1>1, <1>2, <1>4, <1>5, <1>6, <1>7

\* A number of IntBits bits takes MaxVarint bytes at most.
LEMMA SovBound == \A v \in Nat : v < IntMod => sov[v] <= MaxVarint
<1> DEFINE S == {n \in Nat : \A v \in Nat : v < pow2[7 * (n + 1)] => sov[v] <= n + 1}
<1>1. 0 \in S
  <2>1. pow2[7 * (0 + 1)] = 128
    <3>1. pow2[7 * (0 + 1)] = 128 * pow2[7 * 0]
      BY Pow2Seven
    <3>2. pow2[0] = 1 /\ 7 * 0 = 0
      BY Pow2
    <3> QED
      BY <3>1, <3>2
  <2>2. ASSUME NEW v \in Nat, v < 128 PROVE sov[v] <= 0 + 1
    <3>1. v \in 0 .. 127
      BY <2>2
    <3> QED
      BY <3>1, Sov
  <2> QED
    BY <2>1, <2>2
<1>2. ASSUME NEW n \in Nat, n \in S PROVE n + 1 \in S
  <2>1. \A v \in Nat : v < pow2[7 * (n + 1)] => sov[v] <= n + 1
    BY <1>2
  <2>2. pow2[7 * ((n + 1) + 1)] = 128 * pow2[7 * (n + 1)] /\ n + 1 \in Nat /\ pow2[7 * (n + 1)] \in Nat
    <3>1. n + 1 \in Nat /\ 7 * (n + 1) \in Nat
      OBVIOUS
    <3> QED
      BY <3>1, Pow2Seven, Pow2
  <2> DEFINE P == pow2[7 * (n + 1)]
  <2> HIDE DEF P
  <2>3. ASSUME NEW v \in Nat, v < 128 * P PROVE sov[v] <= (n + 1) + 1
    <3>1. CASE v < 128
      <4>1. v \in 0 .. 127
        BY <3>1
      <4> QED
        BY <4>1, Sov
    <3>2. CASE v >= 128
      <4>1. v \div 128 \in Nat /\ v % 128 \in 0 .. 127 /\ v = (v % 128) + 128 * (v \div 128)
        BY Shift
      <4>2. v \div 128 < P
        BY <2>2, <2>3, <4>1 DEF P
      <4>3. sov[v \div 128] <= n + 1
        BY <2>1, <4>1, <4>2 DEF P
      <4> QED
        BY <3>2, <4>1, <4>3, Sov
    <3> QED
      BY <3>1, <3>2
  <2> QED
    BY <2>2, <2>3 DEF P
<1> HIDE DEF S
<1>3. \A n \in Nat : n \in S
  BY <1>1, <1>2, SetInduction
<1>4. MaxVarint - 1 \in Nat /\ (MaxVarint - 1) + 1 = MaxVarint
  BY Least
<1>5. MaxVarint - 1 \in S
  BY <1>3, <1>4
<1>6. \A v \in Nat : v < pow2[7 * MaxVarint] => sov[v] <= MaxVarint
  BY <1>4, <1>5 DEF S
<1> QED
  <2> SUFFICES ASSUME NEW v \in Nat, v < IntMod PROVE sov[v] <= MaxVarint
    OBVIOUS
  <2>1. IntMod <= pow2[7 * MaxVarint] /\ 7 * MaxVarint \in Nat
    BY Least
  <2>2. pow2[7 * MaxVarint] \in Nat /\ IntMod \in Nat
    BY <2>1, Pow2, Widths
  <2>3. v < pow2[7 * MaxVarint]
    BY <2>1, <2>2
  <2> QED
    BY <1>6, <2>3

\* A byte and more bytes.
LEMMA ByteThen ==
  ASSUME NEW b \in Byte, NEW y \in Seq(Byte)
  PROVE  /\ <<b>> \o y \in Seq(Byte) /\ Len(<<b>> \o y) = 1 + Len(y) /\ (<<b>> \o y)[1] = b
         /\ Tail(<<b>> \o y) = y /\ <<b>> \o y # <<>>
         /\ \A n \in 1 .. Len(y) : (<<b>> \o y)[n + 1] = y[n]
<1> DEFINE x == <<b>> \o y
<1>1. x \in Seq(Byte) /\ Len(x) = 1 + Len(y) /\ x[1] = b /\ \A n \in 1 .. Len(y) : x[n + 1] = y[n]
  OBVIOUS
<1>2. x # <<>> /\ Len(y) \in Nat
  BY <1>1
<1>3. Tail(x) = y
  <2> HIDE DEF x
  <2>1. Tail(x) \in Seq(Byte) /\ Len(Tail(x)) = Len(y) /\ \A n \in 1 .. Len(y) : Tail(x)[n] = x[n + 1]
    BY <1>1, <1>2
  <2> QED
    BY <1>1, <2>1
<1> QED
  BY <1>1, <1>2, <1>3

\* A varint is written as it is read.
LEMMA VarintWritten ==
  \A v \in Nat : /\ number[varint[v]] = v /\ varint[v][Len(varint[v])] < 128
                 /\ \A n \in 1 .. Len(varint[v]) - 1 : ~ (varint[v][n] < 128)
<1> DEFINE W(v, x) == number[x] = v /\ x[Len(x)] < 128 /\ \A n \in 1 .. Len(x) - 1 : ~ (x[n] < 128)
           P == {v \in Nat : W(v, varint[v])}
<1>1. ASSUME NEW v \in 0 .. 127 PROVE v \in P
  <2>0. v \in Nat /\ v % 128 = v
    OBVIOUS
  <2>1. varint[v] = <<v>>
    BY Varints, Zenon
  <2>2. <<v>> \in Seq(Nat) /\ <<v>> # <<>> /\ Tail(<<v>>) = <<>> /\ <<v>>[1] = v
    BY <2>0
  <2>3. number[<<v>>] = (v % 128) + 128 * 0
    BY <2>2, Numbers
  <2>4. W(v, <<v>>)
    BY <2>0, <2>3
  <2> QED
    BY <2>0, <2>1, <2>4
<1>2. ASSUME NEW v \in Nat, v >= 128, v \div 128 \in P PROVE v \in P
  <2> DEFINE h == v \div 128
             b == 128 + (v % 128)
             y == varint[h]
             x == <<b>> \o y
  <2>1. h \in Nat /\ v % 128 \in 0 .. 127 /\ v = (v % 128) + 128 * h
    BY Shift
  <2>2. varint[v] = x
    BY <1>2, Varints
  <2>3. y \in Seq(Byte) /\ W(h, y) /\ Len(y) \in Nat \ {0}
    <3>1. W(h, y)
      BY <1>2
    <3> HIDE DEF h
    <3>2. y \in Seq(Byte) /\ Len(y) = sov[h] /\ sov[h] \in Nat \ {0}
      BY <2>1, Varints, Sov
    <3> QED
      BY <3>1, <3>2
  <2>4. b \in Byte /\ b >= 128 /\ b % 128 = v % 128
    BY <2>1 DEF Byte
  <2> HIDE DEF y, b, h
  <2>5. /\ x \in Seq(Byte) /\ Len(x) = 1 + Len(y) /\ x[1] = b /\ Tail(x) = y /\ x # <<>>
        /\ \A n \in 1 .. Len(y) : x[n + 1] = y[n]
    BY <2>3, <2>4, ByteThen
  <2> HIDE DEF x
  <2>6. number[x] = v
    <3>1. x \in Seq(Nat)
      BY <2>5, BytesAreNats
    <3>2. number[x] = (b % 128) + 128 * number[y]
      BY <2>5, <3>1, Numbers
    <3> QED
      BY <2>1, <2>3, <2>4, <3>2
  <2>7. x[Len(x)] < 128
    <3>1. Len(y) \in 1 .. Len(y) /\ Len(x) = Len(y) + 1
      BY <2>3, <2>5
    <3> QED
      BY <2>3, <2>5, <3>1
  <2>8. ASSUME NEW n \in 1 .. Len(x) - 1 PROVE ~ (x[n] < 128)
    <3>1. CASE n = 1
      BY <2>4, <2>5, <3>1 DEF Byte
    <3>2. CASE n # 1
      <4>1. n - 1 \in 1 .. Len(y) - 1 /\ n - 1 \in 1 .. Len(y) /\ (n - 1) + 1 = n
        BY <2>3, <2>5, <3>2
      <4>2. x[n] = y[n - 1]
        BY <2>5, <4>1
      <4> QED
        BY <2>3, <4>1, <4>2
    <3> QED
      BY <3>1, <3>2
  <2> QED
    BY <2>2, <2>6, <2>7, <2>8
<1> HIDE DEF P
<1>3. \A v \in Nat : v \in P
  BY <1>1, <1>2, ShiftInduction
<1> QED
  BY <1>3 DEF P

\* What encodeVarintRpc wrote is read as it was, if it is below IntMod.
LEMMA VarintRead ==
  ASSUME NEW d, NEW i, NEW v \in Nat, v < IntMod, Lies(d, i, varint[v])
  PROVE  Varint(d, i) = Ok(v, i + sov[v])
<1> DEFINE w == varint[v]
<1>1. w \in Seq(Byte) /\ Len(w) = sov[v] /\ sov[v] \in Nat \ {0} /\ sov[v] <= MaxVarint
  BY Varints, Sov, SovBound
<1>2. number[w] = v /\ w[Len(w)] < 128 /\ \A n \in 1 .. Len(w) - 1 : ~ (w[n] < 128)
  BY VarintWritten
<1>3. v % IntMod = v
  BY Widths
<1> HIDE DEF w
<1>4. Ended(w)
  BY <1>1, <1>2, Widths DEF Ended
<1>5. Varint(d, i) = Ok(number[w] % IntMod, i + Len(w))
  BY <1>4, VarintOf, Zenon DEF w
<1> QED
  BY <1>1, <1>2, <1>3, <1>5, Zenon

\* The loop, wherever it starts; and that it comes to index i with value v.
Rounds(depth, k, d, g) ==
  \A n \in Nat : g[n + 1] = IF g[n].err # "none" \/ g[n].next >= Len(d) THEN g[n]
                            ELSE Round(depth, k, d, g[n])
Passed(g, v, i) == \E n \in 0 .. i : g[n] = Ok(v, i)

\* Wherever the bytes x stand, they take the loop from value v to value w.
Takes(depth, k, x, v, w) ==
  /\ x \in Seq(Byte)
  /\ \A d, i, g : Lies(d, i, x) /\ 2 * Len(d) < IntMod /\ Rounds(depth, k, d, g) /\ Passed(g, v, i)
                    => Passed(g, w, i + Len(x))

\* No bytes change nothing.
LEMMA TakesNothing ==
  ASSUME NEW depth, NEW k, NEW v
  PROVE  Takes(depth, k, <<>>, v, v)
<1>1. \A d, i : Lies(d, i, <<>>) => i + Len(<<>>) = i
  BY DEF Lies
<1>2. <<>> \in Seq(Byte)
  OBVIOUS
<1> HIDE DEF Takes
<1>3. \A d, i, g : Lies(d, i, <<>>) /\ Passed(g, v, i) => Passed(g, v, i + Len(<<>>))
  BY <1>1
<1> QED
  BY <1>2, <1>3, Zenon DEF Takes

\* Pieces are taken one after the other.
LEMMA TakesBoth ==
  ASSUME NEW depth, NEW k, NEW x, NEW y, NEW v, NEW u, NEW w,
         Takes(depth, k, x, v, u), Takes(depth, k, y, u, w)
  PROVE  Takes(depth, k, x \o y, v, w)
<1>1. x \in Seq(Byte) /\ y \in Seq(Byte)
  BY Zenon DEF Takes
<1>2. x \o y \in Seq(Byte) /\ Len(x \o y) = Len(x) + Len(y)
  BY <1>1
<1>3. ASSUME NEW d, NEW i, NEW g, Lies(d, i, x \o y), 2 * Len(d) < IntMod,
             Rounds(depth, k, d, g), Passed(g, v, i)
      PROVE  Passed(g, w, i + Len(x \o y))
  <2>1. Lies(d, i, x) /\ Lies(d, i + Len(x), y)
    BY <1>1, <1>3, LiesConcat
  <2> DEFINE j == i + Len(x)
  <2>2. j + Len(y) = i + Len(x \o y)
    <3>1. i \in Nat /\ Len(x) \in Nat /\ Len(y) \in Nat
      BY <2>1, <1>1, LiesIs
    <3> QED
      BY <1>2, <3>1
  <2> HIDE DEF j
  <2>3. Passed(g, u, j)
    BY <1>3, <2>1, Zenon DEF Takes, j
  <2>4. Passed(g, w, j + Len(y))
    BY <1>3, <2>1, <2>3, Zenon DEF Takes, j
  <2> QED
    BY <2>2, <2>4
<1> HIDE DEF Lies, Rounds, Passed
<1> QED
  BY <1>2, <1>3, Zenon DEF Takes

\* Bytes that take one round.
LEMMA TakesStep ==
  ASSUME NEW depth, NEW k, NEW x \in Seq(Byte), x # <<>>, NEW v, NEW w,
         \A d, i : Lies(d, i, x) /\ 2 * Len(d) < IntMod =>
                     Round(depth, k, d, Ok(v, i)) = Ok(w, i + Len(x))
  PROVE  Takes(depth, k, x, v, w)
<1>1. ASSUME NEW d, NEW i, NEW g, Lies(d, i, x), 2 * Len(d) < IntMod,
             Rounds(depth, k, d, g), Passed(g, v, i)
      PROVE  Passed(g, w, i + Len(x))
  <2>1. i \in Nat /\ Len(x) \in Nat \ {0} /\ Len(d) \in Nat /\ i + Len(x) <= Len(d)
    BY <1>1, LiesIs
  <2>2. PICK n \in 0 .. i : g[n] = Ok(v, i)
    BY <1>1 DEF Passed
  <2>3. n \in Nat /\ n + 1 \in 0 .. i + Len(x) /\ ~ (i >= Len(d))
    BY <2>1
  <2>4. g[n].err = "none" /\ g[n].next = i
    BY <2>2, OkIs
  <2>5. g[n + 1] = Round(depth, k, d, g[n])
    BY <1>1, <2>3, <2>4, Zenon DEF Rounds
  <2>6. g[n + 1] = Ok(w, i + Len(x))
    BY <1>1, <2>2, <2>5, Zenon
  <2> QED
    BY <2>3, <2>6, Zenon DEF Passed
<1> HIDE DEF Lies, Rounds, Passed
<1> QED
  BY <1>1, Zenon DEF Takes

\* If all bytes of the data are such a piece, its value is what is decoded.
LEMMA TakesAll ==
  ASSUME NEW depth \in 1 .. 3, NEW k \in DOMAIN Values, NEW m \in Values[k], NEW x,
         NEW w, Takes(depth, k, x, m, w), 2 * Len(x) < IntMod
  PROVE  UnmarshalTo(depth, k, m, x) = Ok(w, Len(x))
<1>1. x \in Seq(Byte)
  BY Zenon DEF Takes
<1>2. PICK g : Trace(depth, k, m, x, g) /\ UnmarshalTo(depth, k, m, x) = g[Len(x)]
  <2>1. depth \in 0 .. 3 /\ depth # 0
    OBVIOUS
  <2> QED
    BY <1>1, <2>1, UnmarshalReads, Zenon DEF Traced
<1>3. Rounds(depth, k, x, g) /\ Passed(g, m, 0)
  <2>1. 0 \in 0 .. 0
    OBVIOUS
  <2> QED
    BY <1>2, <2>1, Zenon DEF Trace, Rounds, Passed
<1> DEFINE N == Len(x)
<1>4. N \in Nat /\ 0 + N = N
  BY <1>1
<1>5. Passed(g, w, N)
  <2>1. Lies(x, 0, x)
    BY <1>1, LiesItself
  <2>2. Passed(g, w, 0 + Len(x))
    BY <1>3, <2>1, Zenon DEF Takes
  <2> QED
    BY <1>4, <2>2
<1>6. PICK n \in 0 .. N : g[n] = Ok(w, N)
  BY <1>5, Zenon DEF Passed
<1> DEFINE S == {c \in Nat : g[n + c] = Ok(w, N)}
<1>7. 0 \in S
  BY <1>6
<1>8. ASSUME NEW c \in Nat, c \in S PROVE c + 1 \in S
  <2> DEFINE p == n + c
  <2>1. p \in Nat /\ p + 1 = n + (c + 1)
    OBVIOUS
  <2>2. g[p] = Ok(w, N)
    BY <1>8
  <2>3. g[p].next >= N
    BY <1>4, <2>2, OkIs
  <2> HIDE DEF p
  <2>4. g[p + 1] = g[p]
    BY <1>3, <2>1, <2>3, Zenon DEF Rounds
  <2> QED
    BY <2>1, <2>2, <2>4
<1> HIDE DEF S
<1>9. \A c \in Nat : c \in S
  BY <1>7, <1>8, SetInduction
<1>10. N - n \in Nat /\ n + (N - n) = N
  BY <1>4
<1>11. g[N] = Ok(w, N)
  <2>1. N - n \in S
    BY <1>9, <1>10
  <2> QED
    BY <1>10, <2>1 DEF S
<1> QED
  BY <1>2, <1>11, Zenon

\* What is read of a common beginning is the same.
LEMMA VarintSame ==
  ASSUME NEW s, NEW t, NEW y, Lies(s, 0, y), Lies(t, 0, y), NEW i \in Nat,
         Varint(s, i).err = "none", Varint(s, i).next <= Len(y)
  PROVE  Varint(t, i) = Varint(s, i)
<1> DEFINE r == Varint(s, i)
<1>1. s \in Seq(Byte) /\ y \in Seq(Byte) /\ Len(y) \in Nat
  BY LiesIs
<1>2. PICK w : /\ Lies(s, i, w) /\ Len(w) = r.next - i /\ Len(w) \in Nat \ {0}
               /\ \A e, j : Lies(e, j, w) => Varint(e, j) = Ok(r.val, j + Len(w))
  BY <1>1, VarintStands, Zenon
<1>3. r = Ok(r.val, i + Len(w))
  BY <1>2, Zenon
<1>4. r.next = i + Len(w)
  BY <1>3, OkIs, Zenon
<1> HIDE DEF r
<1>5. i + Len(w) <= Len(y) /\ 0 + i = i
  BY <1>4 DEF r
<1>6. Lies(y, i, w)
  <2>1. Lies(s, 0 + i, w) /\ 0 \in Nat
    BY <1>2, <1>5
  <2> QED
    BY <1>5, <2>1, LiesDown
<1>7. Lies(t, i, w)
  <2>1. Lies(t, 0 + i, w)
    BY <1>6, LiesUp
  <2> QED
    BY <1>5, <2>1
<1> QED
  BY <1>2, <1>3, <1>7, Zenon DEF r

\* Where a field that is skipped ends, by its wire type.
LEMMA SkipValueIs ==
  ASSUME NEW d \in Seq(Byte), 2 * Len(d) < IntMod, NEW w \in 0 .. 7, NEW i \in 0 .. Len(d),
         SkipValue(w, i, Varint(d, i)).err = "none"
  PROVE  /\ SkipValue(w, i, Varint(d, i)).next > i /\ SkipValue(w, i, Varint(d, i)).next \in Nat
         /\ w \in {0, 1, 2, 5}
         /\ w \in {0, 2} => /\ Varint(d, i).err = "none"
                            /\ Varint(d, i).next <= SkipValue(w, i, Varint(d, i)).next
<1> DEFINE n == Varint(d, i)
           r == SkipValue(w, i, n)
           length == Signed(n.val, IntMod)
           end == Signed(n.next + length, IntMod)
<1>1. n \in Reads(0 .. IntMod - 1, i + 1, Len(d))
  BY VarintReads
<1>2. n.err = "none" => n.val \in 0 .. IntMod - 1 /\ n.next \in i + 1 .. Len(d) /\ n.next \in Nat
  <2> HIDE DEF n
  <2>1. n.err = "none" => n.val \in 0 .. IntMod - 1 /\ n.next \in i + 1 .. Len(d)
    BY <1>1, ReadsIs, Zenon
  <2> QED
    BY <2>1
<1> SUFFICES /\ r.next > i /\ r.next \in Nat /\ w \in {0, 1, 2, 5}
             /\ w \in {0, 2} => n.err = "none" /\ n.next <= r.next
  OBVIOUS
<1>r. r.err = "none"
  OBVIOUS
<1>4. CASE w = 0
  <2>1. r = n
    BY <1>4 DEF SkipValue
  <2> HIDE DEF r, n
  <2> QED
    BY <1>2, <1>4, <1>r, <2>1
<1>5. CASE w = 1
  <2>1. r = Ok(Nil, i + 8)
    BY <1>5 DEF SkipValue
  <2> HIDE DEF r
  <2>2. r.next = i + 8
    BY <2>1, OkIs
  <2> QED
    BY <1>5, <2>2
<1>6. CASE w = 5
  <2>1. r = Ok(Nil, i + 4)
    BY <1>6 DEF SkipValue
  <2> HIDE DEF r
  <2>2. r.next = i + 4
    BY <2>1, OkIs
  <2> QED
    BY <1>6, <2>2
<1>7. CASE w = 2
  <2>1. r = IF n.err # "none" THEN n
            ELSE IF length < 0 \/ end < 0 THEN Failed("length") ELSE Ok(Nil, end)
    BY <1>7 DEF SkipValue
  <2>2. Failed("length").err # "none"
    BY DEF Failed
  <2> HIDE DEF r, n, length
  <2>3. n.err = "none" /\ ~ (length < 0) /\ ~ (end < 0) /\ r = Ok(Nil, end)
    BY <1>r, <2>1, <2>2, Zenon
  <2>4. n.val \in Int /\ n.next \in Nat /\ n.next > i /\ n.next <= Len(d) /\ IntMod \in Nat
    BY <1>2, <2>3, Widths
  <2>5. length \in Int /\ 2 * length < IntMod
    BY <2>4, SignedInt, Zenon DEF length
  <2> DEFINE sum == n.next + length
  <2>6. sum \in 0 .. IntMod - 1 /\ sum \in Int /\ sum >= n.next
    BY <2>3, <2>4, <2>5
  <2> HIDE DEF sum
  <2>7. end \in Int /\ end = IF 2 * sum >= IntMod THEN sum - IntMod ELSE sum
    BY <2>6, SignedInt, Zenon DEF sum
  <2>8. r.next = end
    BY <2>3, OkIs, Zenon
  <2> HIDE DEF end
  <2>9. end = sum
    BY <2>3, <2>4, <2>6, <2>7
  <2> QED
    BY <1>7, <2>3, <2>4, <2>6, <2>8, <2>9
<1>8. CASE w # 0 /\ w # 1 /\ w # 2 /\ w # 5
  <2>1. r = Failed("wire type")
    BY <1>8 DEF SkipValue
  <2>2. Failed("wire type").err # "none"
    BY DEF Failed
  <2> HIDE DEF r
  <2> QED
    BY <1>r, <2>1, <2>2, Zenon
<1> HIDE DEF r, n
<1> QED
  BY <1>4, <1>5, <1>7, <1>8, <1>6, Zenon

LEMMA FixedValue == \A w \in {1, 5} : \A i, u, v : SkipValue(w, i, u) = SkipValue(w, i, v)
<1> SUFFICES ASSUME NEW w \in {1, 5}, NEW i, NEW u, NEW v PROVE SkipValue(w, i, u) = SkipValue(w, i, v)
  OBVIOUS
<1>1. CASE w = 1
  BY <1>1 DEF SkipValue
<1>2. CASE w = 5
  BY <1>2 DEF SkipValue
<1> QED
  BY <1>1, <1>2

\* Where a group starts or ends, no bytes after the tag matter.
LEMMA GroupField ==
  \A r, tag, w, u, v : w = tag.val % 8 /\ w \in {3, 4} => SkipField(r, tag, u) = SkipField(r, tag, v)
BY DEF SkipField

\* A step of skipping takes a byte at least, and looks at what it takes.
LEMMA SkipTagSame ==
  ASSUME NEW s, NEW t, NEW y, Lies(s, 0, y), Lies(t, 0, y), 2 * Len(s) < IntMod,
         NEW r, r.val \in Int, r.next \in Nat, SkipTag(s, r).err = "none"
  PROVE  /\ SkipTag(s, r).next \in Nat /\ SkipTag(s, r).next > r.next
         /\ Varint(s, r.next).err = "none" /\ Varint(s, r.next).next <= SkipTag(s, r).next
         /\ SkipTag(s, r).next <= Len(y) => SkipTag(t, r) = SkipTag(s, r)
<1> DEFINE tag == Varint(s, r.next)
           w == tag.val % 8
           V(d) == SkipValue(w, tag.next, Varint(d, tag.next))
           value == V(s)
           depth == CASE w = 3 -> r.val + 1 [] w = 4 -> r.val - 1 [] OTHER -> r.val
           q == SkipTag(s, r)
<1>s. s \in Seq(Byte) /\ Len(y) \in Nat
  BY LiesIs
<1>0. q = IF tag.err # "none" THEN tag
          ELSE IF w \in {3, 4} THEN Ok(depth, tag.next)
          ELSE IF value.err # "none" THEN value
          ELSE IF r.val > 0 /\ Signed(value.next, IntMod) < 0 THEN Failed("length")
          ELSE Ok(r.val, value.next)
  BY DEF SkipTag, SkipField
<1>1. tag \in Reads(0 .. IntMod - 1, r.next + 1, Len(s))
  BY <1>s, VarintReads
<1>2. q = SkipField(r, tag, value)
  BY Zenon DEF SkipTag
<1>3. Varint(t, r.next) = tag => SkipTag(t, r) = SkipField(r, tag, V(t))
  BY Zenon DEF SkipTag
<1>4. w \in {3, 4} => SkipField(r, tag, V(t)) = SkipField(r, tag, value)
  <2> DEFINE W == w
             a == V(t)
             b == V(s)
  <2>1. W = tag.val % 8
    OBVIOUS
  <2> HIDE DEF W, a, b, tag
  <2>2. W \in {3, 4} => SkipField(r, tag, a) = SkipField(r, tag, b)
    BY <2>1, GroupField, Zenon
  <2> QED
    BY <2>2, Zenon DEF W, a, b
<1>5. Failed("length").err # "none"
  BY DEF Failed
<1>q. q.err = "none"
  OBVIOUS
<1>9. tag.err = "none" /\ tag.next <= Len(y) => Varint(t, r.next) = tag
  BY VarintSame, Zenon
<1> HIDE DEF tag, q, depth
<1>6. tag.err = "none"
  BY <1>0, <1>q, Zenon
<1>7. tag.val \in Nat /\ tag.next \in Nat /\ tag.next > r.next /\ tag.next \in 0 .. Len(s)
  <2>1. tag.val \in 0 .. IntMod - 1 /\ tag.next \in r.next + 1 .. Len(s) /\ IntMod \in Nat
    BY <1>1, <1>6, ReadsIs, Widths, Zenon
  <2> QED
    BY <2>1
<1>8. w \in 0 .. 7
  BY <1>7
<1>10. CASE w \in {3, 4}
  <2>1. q = Ok(depth, tag.next)
    BY <1>0, <1>6, <1>10, Zenon
  <2>2. q.next = tag.next
    BY <2>1, OkIs, Zenon
  <2>3. q.next <= Len(y) => SkipTag(t, r) = q
    BY <1>2, <1>3, <1>4, <1>6, <1>9, <1>10, <2>2, Zenon
  <2>4. tag.next <= q.next
    BY <1>7, <2>2
  <2> QED
    BY <1>6, <1>7, <2>2, <2>3, <2>4, Zenon DEF tag, q
<1>11. CASE w \notin {3, 4}
  <2>1. value.err = "none" /\ q = Ok(r.val, value.next)
    <3> HIDE DEF value, w
    <3> QED
      BY <1>0, <1>5, <1>6, <1>q, <1>11, Zenon
  <2>2. q.next = value.next
    BY <2>1, OkIs, Zenon
  <2> DEFINE n == Varint(s, tag.next)
  <2>3. /\ value.next > tag.next /\ value.next \in Nat /\ w \in {0, 1, 2, 5}
        /\ w \in {0, 2} => n.err = "none" /\ n.next <= value.next
    <3> HIDE DEF w
    <3> QED
      BY <1>s, <1>7, <1>8, <2>1, SkipValueIs
  <2>4. n.err = "none" => n.next \in Nat
    <3>1. n \in Reads(0 .. IntMod - 1, tag.next + 1, Len(s))
      BY <1>s, <1>7, VarintReads
    <3> HIDE DEF n
    <3>2. n.err = "none" => n.next \in tag.next + 1 .. Len(s)
      BY <3>1, ReadsIs, Zenon
    <3> QED
      BY <1>7, <3>2
  <2>5. q.next \in Nat /\ q.next > r.next /\ tag.next <= q.next
    <3> HIDE DEF value
    <3> QED
      BY <1>7, <2>2, <2>3
  <2>6. ASSUME q.next <= Len(y) PROVE SkipTag(t, r) = q
    <3>1. tag.next <= Len(y)
      BY <1>s, <1>7, <2>5, <2>6
    <3>2. Varint(t, r.next) = tag
      BY <1>6, <1>9, <3>1, Zenon
    <3>3. V(t) = V(s)
      <4>1. CASE w \in {0, 2}
        <5>0. n.next <= Len(y)
          <6> HIDE DEF n, value, w
          <6> QED
            BY <1>s, <2>2, <2>3, <2>4, <2>6, <4>1
        <5>1. Varint(t, tag.next) = n
          <6>1. n.err = "none"
            BY <2>3, <4>1, Zenon
          <6> QED
            BY <1>7, <5>0, <6>1, VarintSame, Zenon
        <5> QED
          BY <5>1, Zenon
      <4>2. CASE w \in {1, 5}
        BY <4>2, FixedValue, Zenon
      <4> QED
        BY <2>3, <4>1, <4>2, Zenon
    <3> QED
      BY <1>2, <1>3, <3>2, <3>3, Zenon
  <2> QED
    BY <1>6, <2>5, <2>6, Zenon DEF tag, q
<1> QED
  BY <1>10, <1>11, Zenon

\* What was skipped stays skipped.
LEMMA SkipStays ==
  ASSUME NEW d, NEW h, SkipTrace(d, h), NEW n \in Nat, h[n].err # "none" \/ h[n].val <= 0
  PROVE  \A m \in Nat : m >= n => h[m] = h[n]
<1> DEFINE S == {c \in Nat : h[n + c] = h[n]}
<1>1. 0 \in S
  OBVIOUS
<1>2. ASSUME NEW c \in Nat, c \in S PROVE c + 1 \in S
  <2> DEFINE p == n + c
  <2>1. p \in Nat /\ p + 1 = n + (c + 1) /\ h[p] = h[n]
    BY <1>2
  <2> HIDE DEF p
  <2>2. h[p + 1] = h[n]
    BY <2>1, Zenon DEF SkipTrace
  <2> QED
    BY <2>1, <2>2
<1> HIDE DEF S
<1>3. \A c \in Nat : c \in S
  BY <1>1, <1>2, SetInduction
<1>4. ASSUME NEW m \in Nat, m >= n PROVE h[m] = h[n]
  <2>1. m - n \in Nat /\ n + (m - n) = m
    BY <1>4
  <2>2. m - n \in S
    BY <1>3, <2>1
  <2> QED
    BY <2>1, <2>2 DEF S
<1> QED
  BY <1>4

\* Skipping looks at nothing beyond what it skips.
LEMMA SkipSame ==
  ASSUME NEW s, NEW t, NEW y, Lies(s, 0, y), Lies(t, 0, y), 2 * Len(s) < IntMod,
         s # <<>>, skipRpc(s).err = "none", skipRpc(s).next = Len(y)
  PROVE  /\ skipRpc(t) = skipRpc(s) /\ y # <<>>
         /\ Varint(s, 0).err = "none" /\ Varint(s, 0).next <= Len(y)
<1>0. s \in Seq(Byte) /\ t \in Seq(Byte) /\ y \in Seq(Byte) /\ Len(s) \in Nat /\ Len(t) \in Nat
      /\ Len(y) \in Nat /\ Len(y) <= Len(s) /\ Len(y) <= Len(t)
  <2>1. 0 + Len(y) <= Len(s) /\ 0 + Len(y) <= Len(t)
    BY LiesIs
  <2>2. s \in Seq(Byte) /\ t \in Seq(Byte) /\ y \in Seq(Byte)
    BY LiesIs
  <2> QED
    BY <2>1, <2>2
<1> DEFINE N == Len(s)
           L == Len(y)
<1>1. PICK h : SkipTrace(s, h) /\ skipRpc(s) = h[N]
  BY <1>0, SkipTraces, Zenon
<1>2. h[N].err = "none" /\ h[N].next = L
  BY <1>1, Zenon
<1> HIDE DEF N, L
<1>3. ASSUME NEW n \in Nat, h[n].err = "none" PROVE h[n].val \in Int /\ h[n].next \in Nat
  <2>1. h[n] \in Skips(s)
    BY <1>1, Zenon DEF SkipTrace
  <2>2. h[n].val \in Int /\ h[n].next \in Ends(s)
    BY <1>3, <2>1, SkipsIs, Zenon
  <2> QED
    BY <2>2 DEF Ends
<1>n. N \in Nat /\ L \in Nat /\ L <= N
  BY <1>0 DEF N, L
\* An error stays, and the index never goes back.
<1>4. ASSUME NEW n \in Nat, h[n + 1].err = "none"
      PROVE  /\ h[n].err = "none" /\ h[n].next <= h[n + 1].next
             /\ h[n].val > 0 => h[n + 1] = SkipTag(s, h[n]) /\ h[n + 1].next > h[n].next
  <2>1. h[n + 1] = IF h[n].err # "none" \/ h[n].val <= 0 THEN h[n] ELSE SkipTag(s, h[n])
    BY <1>1, Zenon DEF SkipTrace
  <2>2. h[n].err = "none"
    BY <1>4, <2>1, Zenon
  <2>3. h[n].val \in Int /\ h[n].next \in Nat
    BY <1>3, <2>2
  <2>4. CASE h[n].val <= 0
    <3>1. h[n + 1] = h[n] /\ ~ (h[n].val > 0)
      BY <2>1, <2>3, <2>4
    <3>2. h[n].next <= h[n + 1].next
      BY <2>3, <3>1
    <3> QED
      BY <2>2, <3>1, <3>2
  <2>5. CASE ~ (h[n].val <= 0)
    <3>1. h[n + 1] = SkipTag(s, h[n])
      BY <2>1, <2>2, <2>5, Zenon
    <3> DEFINE r == h[n]
    <3>2. SkipTag(s, r).err = "none"
      BY <1>4, <3>1, Zenon
    <3> HIDE DEF r
    <3>3. SkipTag(s, r).next \in Nat /\ SkipTag(s, r).next > r.next
      BY <2>3, <3>2, SkipTagSame, Zenon DEF r
    <3>4. r.next <= SkipTag(s, r).next
      BY <2>3, <3>3 DEF r
    <3> QED
      BY <2>2, <3>1, <3>3, <3>4, Zenon DEF r
  <2> QED
    BY <2>4, <2>5
<1>5. \A n \in 0 .. N : h[n].err = "none" /\ h[n].next <= L
  <2> DEFINE S == {c \in Nat : c <= N => h[N - c].err = "none" /\ h[N - c].next <= L}
  <2>1. 0 \in S
    BY <1>2, <1>n
  <2>2. ASSUME NEW c \in Nat, c \in S PROVE c + 1 \in S
    <3> SUFFICES ASSUME c + 1 <= N PROVE h[N - (c + 1)].err = "none" /\ h[N - (c + 1)].next <= L
      OBVIOUS
    <3> DEFINE p == N - (c + 1)
    <3>1. p \in Nat /\ p + 1 = N - c /\ c <= N /\ p + 1 \in Nat
      BY <1>n
    <3> HIDE DEF p
    <3>2. h[p + 1].err = "none" /\ h[p + 1].next <= L
      BY <2>2, <3>1
    <3>3. h[p].err = "none" /\ h[p].next <= h[p + 1].next
      BY <1>4, <3>1, <3>2, Zenon
    <3>4. h[p].next \in Nat /\ h[p + 1].next \in Nat
      BY <1>3, <3>1, <3>2, <3>3
    <3> QED
      BY <1>n, <3>2, <3>3, <3>4 DEF p
  <2> HIDE DEF S
  <2>3. \A c \in Nat : c \in S
    BY <2>1, <2>2, SetInduction
  <2>4. ASSUME NEW n \in 0 .. N PROVE h[n].err = "none" /\ h[n].next <= L
    <3>1. N - n \in Nat /\ N - (N - n) = n /\ N - n <= N
      BY <1>n
    <3>2. N - n \in S
      BY <2>3, <3>1
    <3> QED
      BY <3>1, <3>2 DEF S
  <2> QED
    BY <2>4
<1>6. /\ Varint(s, 0).err = "none" /\ Varint(s, 0).next <= h[0].next /\ h[0].next >= 1
      /\ SkipTag(t, Ok(0, 0)) = h[0] /\ Varint(s, 0).next <= L /\ L >= 1
  <2> DEFINE r == Ok(0, 0)
  <2>1. r.val = 0 /\ r.next = 0 /\ r.val \in Int /\ r.next \in Nat
    BY OkIs
  <2>2. h[0] = SkipTag(s, r)
    BY <1>1, Zenon DEF SkipTrace
  <2> HIDE DEF r
  <2>3. 0 \in 0 .. N
    BY <1>n
  <2>4. SkipTag(s, r).err = "none" /\ SkipTag(s, r).next <= Len(y)
    BY <1>5, <2>2, <2>3, Zenon DEF L
  <2>5. /\ SkipTag(s, r).next \in Nat /\ SkipTag(s, r).next > r.next
        /\ Varint(s, r.next).err = "none" /\ Varint(s, r.next).next <= SkipTag(s, r).next
        /\ SkipTag(t, r) = SkipTag(s, r)
    BY <2>1, <2>4, SkipTagSame
  <2>6. /\ Varint(s, 0).err = "none"
        /\ Varint(s, 0).next <= h[0].next
        /\ h[0].next \in Nat
        /\ h[0].next > 0
    BY <2>1, <2>2, <2>5, Zenon
  <2>7. Varint(s, 0).next \in Nat
    <3>0. Varint(s, 0) \in Reads(0 .. IntMod - 1, 0 + 1, Len(s))
      BY <1>0, VarintReads
    <3>1. Varint(s, 0).next \in 0 + 1 .. Len(s)
      BY <2>6, <3>0, ReadsIs, Zenon
    <3> QED
      BY <3>1
  <2>8. Varint(s, 0).next <= L /\ L >= 1
    BY <1>n, <2>2, <2>4, <2>6, <2>7 DEF L
  <2> QED
    BY <2>2, <2>5, <2>6, <2>8 DEF r
<1>7. t # <<>> /\ y # <<>>
  BY <1>0, <1>6 DEF L
<1>8. PICK f : SkipTrace(t, f) /\ skipRpc(t) = f[Len(t)]
  BY <1>0, <1>7, SkipTraces, Zenon
<1>9. \A n \in 0 .. N : f[n] = h[n]
  <2> DEFINE P == {n \in 0 .. N : f[n] = h[n]}
  <2>1. 0 \in P
    <3>1. f[0] = h[0]
      BY <1>6, <1>8, Zenon DEF SkipTrace
    <3> QED
      BY <1>n, <3>1
  <2>2. ASSUME NEW p \in 0 + 1 .. N, p - 1 \in P PROVE p \in P
    <3> DEFINE n == p - 1
    <3>1. n \in Nat /\ n + 1 = p /\ n \in 0 .. N /\ p \in 0 .. N /\ f[n] = h[n]
      BY <1>n, <2>2
    <3> HIDE DEF n
    <3>2. f[n + 1] = IF h[n].err # "none" \/ h[n].val <= 0 THEN h[n] ELSE SkipTag(t, h[n])
      BY <1>8, <3>1, Zenon DEF SkipTrace
    <3>3. h[n + 1] = IF h[n].err # "none" \/ h[n].val <= 0 THEN h[n] ELSE SkipTag(s, h[n])
      BY <1>1, <3>1, Zenon DEF SkipTrace
    <3>4. h[n + 1].err = "none" /\ h[n + 1].next <= L
      BY <1>5, <3>1
    <3>5. h[n].err = "none" /\ h[n].val \in Int /\ h[n].next \in Nat
      BY <1>3, <1>5, <3>1
    <3>6. ASSUME ~ (h[n].val <= 0) PROVE SkipTag(t, h[n]) = SkipTag(s, h[n])
      <4> DEFINE r == h[n]
      <4>1. SkipTag(s, r) = h[n + 1]
        BY <3>3, <3>5, <3>6, Zenon
      <4>2. SkipTag(s, r).err = "none" /\ SkipTag(s, r).next <= Len(y)
        BY <3>4, <4>1, Zenon DEF L
      <4> HIDE DEF r
      <4> QED
        BY <3>5, <4>2, SkipTagSame DEF r
    <3>7. f[n + 1] = h[n + 1]
      BY <3>2, <3>3, <3>5, <3>6, Zenon
    <3> QED
      BY <3>1, <3>7
  <2> HIDE DEF P
  <2>3. \A n \in 0 .. N : n \in P
    BY <1>n, <2>1, <2>2, ChainInduction
  <2> QED
    BY <2>3 DEF P
\* Every tag takes a byte: after as many tags as there are bytes nothing is open.
<1>10. \A n \in 0 .. N : h[n].val <= 0 \/ h[n].next >= n + 1
  <2> DEFINE P == {n \in 0 .. N : h[n].val <= 0 \/ h[n].next >= n + 1}
  <2>1. 0 \in P
    BY <1>6, <1>n
  <2>2. ASSUME NEW p \in 0 + 1 .. N, p - 1 \in P PROVE p \in P
    <3> DEFINE n == p - 1
    <3>1. /\ n \in Nat
          /\ n + 1 = p
          /\ n \in 0 .. N
          /\ p \in 0 .. N
          /\ (h[n].val <= 0 \/ h[n].next >= n + 1)
      BY <1>n, <2>2
    <3> HIDE DEF n
    <3>2. h[n + 1].err = "none"
      BY <1>5, <3>1
    <3>3. h[n].err = "none" /\ (h[n].val > 0 => h[n + 1].next > h[n].next)
      BY <1>4, <3>1, <3>2
    <3>4. h[n].val \in Int /\ h[n].next \in Nat /\ h[n + 1].next \in Nat
      BY <1>3, <3>1, <3>2, <3>3
    <3>5. CASE h[n].val <= 0
      <4>1. h[n + 1] = h[n]
        BY <1>1, <3>1, <3>5, Zenon DEF SkipTrace
      <4> QED
        BY <3>1, <3>5, <4>1
    <3>6. CASE ~ (h[n].val <= 0)
      <4>1. h[n + 1].next >= (n + 1) + 1
        BY <3>1, <3>3, <3>4, <3>6
      <4> QED
        BY <3>1, <4>1
    <3> QED
      BY <3>5, <3>6
  <2> HIDE DEF P
  <2>3. \A n \in 0 .. N : n \in P
    BY <1>n, <2>1, <2>2, ChainInduction
  <2> QED
    BY <2>3 DEF P
<1>11. h[L].val <= 0 /\ f[L] = h[L] /\ L \in 0 .. N
  <2>1. L \in 0 .. N
    BY <1>n
  <2>2. h[L].next <= L /\ h[L].next \in Nat
    BY <1>3, <1>5, <1>n, <2>1
  <2> QED
    BY <1>9, <1>10, <1>n, <2>1, <2>2
<1>12. h[N] = h[L]
  BY <1>1, <1>11, <1>n, SkipStays
<1>13. f[Len(t)] = f[L]
  <2>1. Len(t) \in Nat /\ Len(t) >= L
    BY <1>0 DEF L
  <2> QED
    BY <1>8, <1>11, <1>n, <2>1, SkipStays
<1> QED
  BY <1>1, <1>6, <1>7, <1>8, <1>11, <1>12, <1>13, Zenon DEF L

\* A length that lies within the data does not wrap around.
LEMMA PostIndexOk ==
  ASSUME NEW l \in Nat, 2 * l < IntMod, NEW i \in Nat, NEW n \in Nat, i + n <= l
  PROVE  PostIndex(i, n, l) = Ok(Nil, i + n)
<1> DEFINE sum == i + n
<1>w. IntMod \in Nat
  BY Widths
<1>1. /\ sum \in 0 .. IntMod - 1
      /\ sum \in Int
      /\ 2 * sum < IntMod
      /\ ~ (n < 0)
      /\ ~ (sum > l)
      /\ ~ (sum < 0)
  BY <1>w
<1>2. PostIndex(i, n, l) = LET post == Signed(sum, IntMod)
                           IN IF n < 0 \/ post < 0 THEN Failed("length")
                              ELSE IF post > l THEN Failed("EOF") ELSE Ok(Nil, post)
  BY Zenon DEF PostIndex
<1> HIDE DEF sum
<1>3. Signed(sum, IntMod) = sum
  <2>1. Signed(sum, IntMod) = IF 2 * sum >= IntMod THEN sum - IntMod ELSE sum
    BY <1>1, SignedInt, Zenon
  <2> QED
    BY <1>1, <1>w, <2>1
<1>4. PostIndex(i, n, l) = Ok(Nil, sum)
  BY <1>1, <1>2, <1>3, Zenon
<1> QED
  BY <1>4 DEF sum

LEMMA PostIndexIs ==
  ASSUME NEW l \in Nat, 2 * l < IntMod, NEW i \in 0 .. l, NEW n \in Int,
         2 * n < IntMod \/ n <= l - i + 8, PostIndex(i, n, l).err = "none"
  PROVE  n \in Nat /\ i + n <= l /\ PostIndex(i, n, l) = Ok(Nil, i + n)
<1> DEFINE sum == i + n
           post == Signed(sum, IntMod)
<1>0. PostIndex(i, n, l) = IF n < 0 \/ post < 0 THEN Failed("length")
                           ELSE IF post > l THEN Failed("EOF") ELSE Ok(Nil, post)
  BY DEF PostIndex
<1>w. IntMod \in Nat /\ IntMod >= 16
  BY Widths
<1>1. sum \in Int
  OBVIOUS
<1>2. post \in Int
  <2> HIDE DEF sum
  <2> QED
    BY <1>1, SignedInt, Zenon
<1>3. ~ (n < 0) /\ ~ (post < 0) /\ ~ (post > l) /\ PostIndex(i, n, l) = Ok(Nil, post)
  <2>1. Failed("length").err # "none" /\ Failed("EOF").err # "none"
    BY DEF Failed
  <2> HIDE DEF post
  <2> QED
    BY <1>0, <2>1, Zenon
<1>4. sum \in 0 .. IntMod - 1
  BY <1>3, <1>w
<1>5. post = IF 2 * sum >= IntMod THEN sum - IntMod ELSE sum
  <2> HIDE DEF sum
  <2> QED
    BY <1>1, <1>4, SignedInt, Zenon
<1> HIDE DEF post
<1>6. post = sum
  <2> HIDE DEF sum
  <2> QED
    BY <1>2, <1>3, <1>4, <1>5, <1>w
<1> QED
  BY <1>3, <1>6

\* A field of its own that the type does not know.
Piece(k, y) ==
  LET tag == Varint(y, 0)
  IN /\ y \in Seq(Byte) /\ y # <<>> /\ tag.err = "none"
     /\ tag.val % 8 # 4 /\ ~ (fieldNum(tag) <= 0) /\ fieldNum(tag) \notin DOMAIN Types[k].fields
     /\ skipRpc(y).err = "none" /\ skipRpc(y).next = Len(y)

Keeping(m, y) == [m EXCEPT !.XXX_unrecognized = @ \o y]

\* It is kept as it is, wherever it stands.
LEMMA PieceKept ==
  ASSUME NEW k, NEW y, Piece(k, y), NEW d, NEW i, Lies(d, i, y), 2 * Len(d) < IntMod, NEW m, NEW nested
  PROVE  ReadField(k, m, d, i, nested) = Ok(Keeping(m, y), i + Len(y))
<1> DEFINE t == SubSeq(d, i + 1, Len(d))
           tag == Varint(d, i)
<1>0. /\ d \in Seq(Byte) /\ y \in Seq(Byte) /\ i \in Nat /\ Len(y) \in Nat /\ Len(d) \in Nat
      /\ i + Len(y) <= Len(d) /\ SubSeq(d, i + 1, i + Len(y)) = y /\ IntMod \in Nat
  BY LiesIs, Widths
<1>1. PICK w : /\ Lies(y, 0, w) /\ \A e, j : Lies(e, j, w) => Varint(e, j) = Ok(Varint(y, 0).val, j + Len(w))
  <2>1. Varint(y, 0).err = "none" /\ 0 \in Nat
    BY Zenon DEF Piece
  <2> QED
    BY <1>0, <2>1, VarintStands, Zenon
<1>2. tag.err = "none" /\ tag.val = Varint(y, 0).val
  <2>1. Lies(d, i + 0, w) /\ i + 0 = i
    BY <1>0, <1>1, LiesUp
  <2>2. tag = Ok(Varint(y, 0).val, i + Len(w))
    BY <1>1, <2>1
  <2> HIDE DEF tag
  <2> QED
    BY <2>2, OkIs, Zenon
<1>3. fieldNum(tag) = fieldNum(Varint(y, 0))
  BY <1>2, Zenon DEF fieldNum
<1>4. ReadField(k, m, d, i, nested) = Unrecognized(m, d, i)
  <2>1. tag.val % 8 # 4 /\ ~ (fieldNum(tag) <= 0) /\ fieldNum(tag) \notin DOMAIN Types[k].fields
    BY <1>2, <1>3, Zenon DEF Piece
  <2> QED
    BY <1>2, <2>1, Zenon DEF ReadField
<1>5. Lies(d, i, t) /\ Len(t) = Len(d) - i /\ t \in Seq(Byte) /\ Len(t) \in Nat
  <2>1. Len(d) \in i .. Len(d)
    BY <1>0
  <2>2. Lies(d, i, t) /\ Len(t) = Len(d) - i
    BY <1>0, <2>1, LiesAt
  <2> QED
    BY <1>0, <2>2, LiesIs
<1> HIDE DEF t, tag
<1>6. Lies(t, 0, y) /\ Lies(y, 0, y)
  <2>1. Lies(d, i + 0, y) /\ 0 + Len(y) <= Len(t) /\ 0 \in Nat
    BY <1>0, <1>5
  <2>2. Lies(t, 0, y)
    BY <1>5, <2>1, LiesDown
  <2> QED
    BY <1>0, <2>2, LiesItself
<1>7. skipRpc(t) = skipRpc(y)
  <2>1. 2 * Len(y) < IntMod
    BY <1>0
  <2>2. y # <<>> /\ skipRpc(y).err = "none" /\ skipRpc(y).next = Len(y)
    BY Zenon DEF Piece
  <2> QED
    BY <1>6, <2>1, <2>2, SkipSame
<1>8. skipRpc(y).err = "none" /\ skipRpc(y).next = Len(y)
  BY Zenon DEF Piece
<1>9. PostIndex(i, Len(y), Len(d)) = Ok(Nil, i + Len(y))
  BY <1>0, PostIndexOk
<1>10. Slice(d, i, i + Len(y)) = Ok(y, i + Len(y))
  <2> DEFINE j == i + Len(y)
  <2>1. i <= j /\ j <= Len(d) /\ SubSeq(d, i + 1, j) = y
    BY <1>0
  <2> HIDE DEF j
  <2>2. Slice(d, i, j) = Ok(y, j)
    BY <2>1, Zenon DEF Slice
  <2> QED
    BY <2>2 DEF j
<1> DEFINE j == i + Len(y)
           post == Ok(Nil, j)
           raw == Ok(y, j)
<1>11. post.err = "none" /\ post.next = j /\ raw.err = "none" /\ raw.val = y
  BY OkIs
<1>12. Unrecognized(m, d, i) = Keep(m, d, i, skipRpc(y))
  BY <1>7, Zenon DEF Unrecognized, t
<1>13. PostIndex(i, skipRpc(y).next, Len(d)) = post /\ Slice(d, i, post.next) = raw
  BY <1>8, <1>9, <1>10, <1>11
<1> HIDE DEF post, raw, j
<1>14. Keep(m, d, i, skipRpc(y)) = Ok(Keeping(m, y), j)
  BY <1>8, <1>11, <1>13, Zenon DEF Keep, Keeping
<1> QED
  BY <1>4, <1>12, <1>14, Zenon DEF j

\* What is kept is such a field.
LEMMA KeptPiece ==
  ASSUME NEW k, NEW m, NEW d \in Seq(Byte), 2 * Len(d) < IntMod, NEW i \in 0 .. Len(d) - 1, NEW nested,
         ReadField(k, m, d, i, nested).err = "none",
         fieldNum(Varint(d, i)) \notin DOMAIN Types[k].fields
  PROVE  \E y : /\ Piece(k, y) /\ Lies(d, i, y)
                /\ ReadField(k, m, d, i, nested) = Ok(Keeping(m, y), i + Len(y))
<1> DEFINE s == SubSeq(d, i + 1, Len(d))
           tag == Varint(d, i)
           r == ReadField(k, m, d, i, nested)
           skippy == skipRpc(s)
           post == PostIndex(i, skippy.next, Len(d))
           raw == Slice(d, i, post.next)
<1>0. i \in Nat /\ i \in 0 .. Len(d) /\ Len(d) \in Nat /\ IntMod \in Nat
  BY Widths
<1>1. /\ r = Unrecognized(m, d, i) /\ tag.err = "none" /\ tag.val % 8 # 4 /\ ~ (fieldNum(tag) <= 0)
  <2>1. Failed("tag").err # "none"
    BY DEF Failed
  <2>2. r = IF tag.err # "none" THEN tag
            ELSE IF tag.val % 8 = 4 \/ fieldNum(tag) <= 0 THEN Failed("tag")
            ELSE Unrecognized(m, d, i)
    BY Zenon DEF ReadField
  <2>3. r.err = "none"
    OBVIOUS
  <2> HIDE DEF r, tag
  <2> QED
    BY <2>1, <2>2, <2>3, Zenon
<1>2. Lies(d, i, s) /\ Len(s) = Len(d) - i /\ s \in Seq(Byte) /\ s # <<>> /\ 2 * Len(s) < IntMod
      /\ Len(s) \in Nat
  <2>1. Len(d) \in i .. Len(d)
    BY <1>0
  <2>2. Lies(d, i, s) /\ Len(s) = Len(d) - i
    BY <1>0, <2>1, LiesAt
  <2>3. s \in Seq(Byte)
    BY <2>2, LiesIs
  <2> HIDE DEF s
  <2>4. Len(s) > 0
    BY <1>0, <2>2
  <2>5. s # <<>>
    BY <2>3, <2>4
  <2> QED
    BY <1>0, <2>2, <2>3, <2>5
<1>3. skippy.err = "none" /\ post.err = "none" /\ raw.err = "none"
      /\ r = Ok([m EXCEPT !.XXX_unrecognized = @ \o raw.val], post.next)
  <2>1. r = IF skippy.err # "none" THEN skippy
            ELSE IF post.err # "none" THEN post
            ELSE IF raw.err # "none" THEN raw
            ELSE Ok([m EXCEPT !.XXX_unrecognized = @ \o raw.val], post.next)
    BY <1>1, Zenon DEF Unrecognized, Keep
  <2>2. r.err = "none"
    OBVIOUS
  <2> HIDE DEF r, skippy, post, raw
  <2> QED
    BY <2>1, <2>2, Zenon
<1> HIDE DEF s
<1>4. skippy.next \in Nat /\ (2 * skippy.next < IntMod \/ skippy.next <= Len(d) - i + 8)
  <2>1. skippy \in Skips(s)
    BY <1>2, SkipRpcSkips
  <2> HIDE DEF skippy
  <2>2. skippy.next \in Ends(s)
    BY <1>3, <2>1, SkipsIs, Zenon
  <2> QED
    BY <1>2, <2>2 DEF Ends
<1> DEFINE L == skippy.next
<1> HIDE DEF skippy
<1>5. i + L <= Len(d) /\ post = Ok(Nil, i + L) /\ L \in Nat
  <2>1. L \in Int /\ (2 * L < IntMod \/ L <= Len(d) - i + 8) /\ PostIndex(i, L, Len(d)).err = "none"
    BY <1>3, <1>4
  <2> HIDE DEF L
  <2>2. L \in Nat /\ i + L <= Len(d) /\ PostIndex(i, L, Len(d)) = Ok(Nil, i + L)
    BY <1>0, <2>1, PostIndexIs
  <2> QED
    BY <2>2 DEF L
<1>6. post.next = i + L
  <2> HIDE DEF post, L
  <2> QED
    BY <1>5, OkIs, Zenon
<1> DEFINE j == i + L
           y == SubSeq(d, i + 1, j)
<1>7. j \in i .. Len(d) /\ j - i = L
  <2> HIDE DEF L
  <2> QED
    BY <1>0, <1>5
<1>8. Lies(d, i, y) /\ Len(y) = L /\ raw = Ok(y, j) /\ y \in Seq(Byte)
  <2> HIDE DEF L
  <2>1. post.next = j
    BY <1>6
  <2> HIDE DEF post, j
  <2>2. Lies(d, i, y) /\ Len(y) = j - i
    BY <1>0, <1>7, LiesAt
  <2>3. Slice(d, i, j) = Ok(y, j)
    BY <1>0, <1>7, SliceReads
  <2>4. y \in Seq(Byte)
    BY <2>2, LiesIs
  <2> QED
    BY <1>7, <2>1, <2>2, <2>3, <2>4
<1>9. raw.val = y
  <2> HIDE DEF raw, y, j
  <2> QED
    BY <1>8, OkIs, Zenon
<1>10. r = Ok(Keeping(m, y), i + Len(y))
  <2> HIDE DEF r, raw, y, post, L
  <2> QED
    BY <1>3, <1>6, <1>8, <1>9, Zenon DEF Keeping
<1> HIDE DEF y, L, j, raw, post, r
<1>11. Lies(s, 0, y) /\ Lies(y, 0, y) /\ Lies(y, 0, y)
  <2>1. Lies(d, i + 0, y) /\ 0 + Len(y) <= Len(s) /\ 0 \in Nat
    BY <1>0, <1>2, <1>5, <1>8
  <2>2. Lies(s, 0, y)
    BY <1>2, <2>1, LiesDown
  <2> QED
    BY <1>8, <2>2, LiesItself
<1>12. /\ skipRpc(y) = skipRpc(s)
       /\ y # <<>>
       /\ Varint(s, 0).err = "none"
       /\ Varint(s, 0).next <= Len(y)
       /\ skipRpc(s).err = "none" /\ skipRpc(s).next = Len(y)
  <2>1. skipRpc(s).err = "none" /\ skipRpc(s).next = Len(y)
    BY <1>3, <1>8 DEF skippy, L
  <2> QED
    BY <1>2, <1>11, <2>1, SkipSame
<1>13. Varint(y, 0) = Varint(s, 0)
  <2>1. 0 \in Nat
    OBVIOUS
  <2> QED
    BY <1>11, <1>12, <2>1, VarintSame
<1>14. Varint(s, 0).val = tag.val
  <2>1. PICK w : /\ Lies(s, 0, w) /\ \A e, p : Lies(e, p, w) => Varint(e, p) = Ok(Varint(s, 0).val, p + Len(w))
    <3>1. 0 \in Nat
      OBVIOUS
    <3> QED
      BY <1>2, <1>12, <3>1, VarintStands, Zenon
  <2>2. Lies(d, i + 0, w) /\ i + 0 = i
    BY <1>0, <1>2, <2>1, LiesUp
  <2>3. tag = Ok(Varint(s, 0).val, i + Len(w))
    BY <2>1, <2>2
  <2> HIDE DEF tag
  <2> QED
    BY <2>3, OkIs, Zenon
<1>15. fieldNum(Varint(y, 0)) = fieldNum(tag)
  BY <1>13, <1>14, Zenon DEF fieldNum
<1>16. Piece(k, y)
  BY <1>1, <1>8, <1>12, <1>13, <1>14, <1>15, Zenon DEF Piece, tag
<1> QED
  BY <1>8, <1>10, <1>16, Zenon DEF r

\* To keep nothing changes nothing,
LEMMA KeptNothing ==
  ASSUME NEW k \in DOMAIN Values, NEW v \in Values[k]
  PROVE  Keeping(v, <<>>) = v
<1>1. v.XXX_unrecognized \in Seq(Byte) /\ v = [f \in DOMAIN v |-> v[f]]
  BY Structs
<1>2. v.XXX_unrecognized \o <<>> = v.XXX_unrecognized
  BY <1>1
<1>3. [v EXCEPT !.XXX_unrecognized = v.XXX_unrecognized] = v
  BY <1>1
<1> QED
  BY <1>2, <1>3, Zenon DEF Keeping

\* and to keep one string after another is to keep both at once.
LEMMA KeptMore ==
  ASSUME NEW k \in DOMAIN Values, NEW v \in Values[k], NEW x \in Seq(Byte), NEW y \in Seq(Byte)
  PROVE  /\ Keeping(v, x) \in Values[k] /\ Keeping(v, x).XXX_unrecognized = v.XXX_unrecognized \o x
         /\ Keeping(Keeping(v, x), y) = Keeping(v, x \o y)
<1> DEFINE u == v.XXX_unrecognized
<1>1. u \in Seq(Byte) /\ "XXX_unrecognized" \in DOMAIN v
  BY Structs
<1>2. (u \o x) \o y = u \o (x \o y)
  BY <1>1
<1>3. Keeping(v, x) \in Values[k]
  BY KeepsUnknown, Zenon DEF Keeping
<1>4. Keeping(v, x).XXX_unrecognized = u \o x
  BY <1>1, Zenon DEF Keeping
<1> HIDE DEF u
<1>5. [[v EXCEPT !.XXX_unrecognized = u \o x] EXCEPT !.XXX_unrecognized = u \o (x \o y)]
        = [v EXCEPT !.XXX_unrecognized = u \o (x \o y)]
  OBVIOUS
<1>6. Keeping(v, x) = [v EXCEPT !.XXX_unrecognized = u \o x]
  BY Zenon DEF Keeping, u
<1>7. Keeping(Keeping(v, x), y) = [Keeping(v, x) EXCEPT !.XXX_unrecognized = (u \o x) \o y]
  BY <1>4, Zenon DEF Keeping
<1>8. Keeping(v, x \o y) = [v EXCEPT !.XXX_unrecognized = u \o (x \o y)]
  BY Zenon DEF Keeping, u
<1> QED
  BY <1>2, <1>3, <1>4, <1>5, <1>6, <1>7, <1>8, Zenon DEF u

\* Bytes that are kept as they are, at every depth.
KeptBytes(k, x) ==
  /\ x \in Seq(Byte)
  /\ \A depth : \A v \in Values[k] : Takes(depth, k, x, v, Keeping(v, x))

LEMMA KeptNone == \A k \in DOMAIN Values : KeptBytes(k, <<>>)
<1> SUFFICES ASSUME NEW k \in DOMAIN Values PROVE KeptBytes(k, <<>>)
  OBVIOUS
<1>1. <<>> \in Seq(Byte)
  OBVIOUS
<1>2. ASSUME NEW depth, NEW v \in Values[k] PROVE Takes(depth, k, <<>>, v, Keeping(v, <<>>))
  BY KeptNothing, TakesNothing
<1> QED
  BY <1>1, <1>2, Zenon DEF KeptBytes

\* A piece after bytes that are kept.
LEMMA KeptPieces ==
  ASSUME NEW k \in DOMAIN Values, NEW x, NEW y, KeptBytes(k, x), Piece(k, y)
  PROVE  KeptBytes(k, x \o y)
<1>1. x \in Seq(Byte) /\ y \in Seq(Byte) /\ y # <<>>
  BY Zenon DEF KeptBytes, Piece
<1>2. x \o y \in Seq(Byte)
  BY <1>1
<1>3. ASSUME NEW depth, NEW v \in Values[k] PROVE Takes(depth, k, x \o y, v, Keeping(v, x \o y))
  <2>1. Takes(depth, k, x, v, Keeping(v, x))
    BY Zenon DEF KeptBytes
  <2> DEFINE u == Keeping(v, x)
  <2>2. ASSUME NEW d, NEW i, Lies(d, i, y), 2 * Len(d) < IntMod
        PROVE  Round(depth, k, d, Ok(u, i)) = Ok(Keeping(u, y), i + Len(y))
    <3> DEFINE nested == InnerAt(depth, k, d, Ok(u, i))
               r == Ok(u, i)
    <3>1. Round(depth, k, d, r) = ReadField(k, r.val, d, r.next, nested) /\ r.val = u /\ r.next = i
      BY OkIs, Zenon DEF Round
    <3> HIDE DEF u, nested, r
    <3>2. ReadField(k, u, d, i, nested) = Ok(Keeping(u, y), i + Len(y))
      BY <2>2, PieceKept
    <3> QED
      BY <3>1, <3>2, Zenon DEF r
  <2>3. Takes(depth, k, y, u, Keeping(u, y))
    <3> HIDE DEF u
    <3> QED
      BY <1>1, <2>2, TakesStep
  <2>4. Keeping(u, y) = Keeping(v, x \o y)
    BY <1>1, KeptMore
  <2> QED
    BY <2>1, <2>3, <2>4, TakesBoth
<1> QED
  BY <1>2, <1>3, Zenon DEF KeptBytes

LEMMA OverwriteIs == \A old, b : b \in Seq(Byte) => Overwrite(old, b) = b
<1>1. TAKE old, b
<1>2. HAVE b \in Seq(Byte)
<1>3. b # Nil
  BY <1>2, NilIsNoText
<1> QED
  BY <1>3, Zenon DEF Overwrite

\* The value that a field gets, of what was read for it.
Given(f, m, v, part, nested) ==
  CASE f.kind = "bool" -> v.val # 0
    [] f.kind = "enum" -> Signed(v.val, FieldMod)
    [] f.kind = "bytes" -> Overwrite(m[f.name], part.val)
    [] f.kind = "string" -> part.val
    [] f.kind = "strings" -> Append(m[f.name], part.val)
    [] f.kind = "message" -> nested.val
    [] f.kind = "messages" -> Append(m[f.name], nested.val)

Scalar(f) == f.kind \in {"bool", "enum"}

\* What was read for it is no error.
Came(f, w, v, part, nested) ==
  /\ Scalar(f) => w = 0 /\ v.err = "none"
  /\ ~ Scalar(f) => w = 2 /\ part.err = "none"
  /\ f.kind \in {"message", "messages"} => nested.err = "none"

\* What a field becomes if what is read for it has come,
LEMMA AssignCame ==
  ASSUME NEW f, f.kind \in FieldKinds, NEW w, NEW m, NEW v, NEW part, NEW nested,
         Came(f, w, v, part, nested)
  PROVE  Assign(f, w, m, v, part, nested) =
           Ok([m EXCEPT ![f.name] = Given(f, m, v, part, nested)],
              IF Scalar(f) THEN v.next ELSE part.next)
<1>1. CASE f.kind = "bool"
  BY <1>1 DEF Assign, Came, Scalar, Given
<1>2. CASE f.kind = "enum"
  BY <1>2 DEF Assign, Came, Scalar, Given
<1>3. CASE f.kind = "bytes"
  BY <1>3 DEF Assign, Came, Scalar, Given
<1>4. CASE f.kind = "string"
  BY <1>4 DEF Assign, Came, Scalar, Given
<1>5. CASE f.kind = "strings"
  BY <1>5 DEF Assign, Came, Scalar, Given
<1>6. CASE f.kind = "message"
  BY <1>6 DEF Assign, Came, Scalar, Given
<1>7. CASE f.kind = "messages"
  BY <1>7 DEF Assign, Came, Scalar, Given
<1> QED
  BY <1>1, <1>2, <1>3, <1>4, <1>5, <1>6, <1>7 DEF FieldKinds

\* and a field that is set without an error had what it takes.
LEMMA AssignIs ==
  ASSUME NEW f, f.kind \in FieldKinds, NEW w, NEW m, NEW v, NEW part, NEW nested,
         Assign(f, w, m, v, part, nested).err = "none"
  PROVE  Came(f, w, v, part, nested)
<1>0. Failed("wire type").err # "none"
  BY DEF Failed
<1>1. CASE Scalar(f)
  <2>1. w = 0
    BY <1>0, <1>1 DEF Assign, Scalar
  <2>2. v.err = "none"
    BY <1>1, <2>1 DEF Assign, Scalar
  <2> QED
    BY <1>1, <2>1, <2>2 DEF Came, Scalar
<1>2. CASE ~ Scalar(f)
  <2>1. w = 2
    BY <1>0, <1>2 DEF Assign, Scalar
  <2>2. part.err = "none"
    BY <1>2, <2>1 DEF Assign, Scalar
  <2>3. f.kind \in {"message", "messages"} => nested.err = "none"
    BY <1>2, <2>1, <2>2 DEF Assign, Scalar
  <2> QED
    BY <1>2, <2>1, <2>2, <2>3 DEF Came
<1> QED
  BY <1>1, <1>2

(***************************************************************************)
(* A field that is written, and read again.                                *)
(***************************************************************************)
LEMMA TagIs ==
  ASSUME NEW j \in 1 .. 6, NEW w \in 0 .. 7, NEW next
  PROVE  /\ 8 * j + w \in 0 .. 127 /\ 8 * j + w \in Byte
         /\ (8 * j + w) % 8 = w /\ fieldNum(Ok(8 * j + w, next)) = j
<1>1. 8 * j + w \in 0 .. 127 /\ (8 * j + w) % 8 = w /\ (8 * j + w) \div 8 = j
  OBVIOUS
<1>2. Ok(8 * j + w, next).val = 8 * j + w
  BY OkIs
<1>3. FieldMod \in Nat /\ FieldMod >= 16 /\ FieldMod = 2 * (FieldMod \div 2)
  BY Least, Widths
<1>4. Signed(j, FieldMod) = j
  <2>1. j \in Int /\ j \in 0 .. FieldMod - 1 /\ ~ (2 * j >= FieldMod)
    BY <1>3
  <2>2. j \in 0 .. FieldMod - 1 => Signed(j, FieldMod) = IF 2 * j >= FieldMod THEN j - FieldMod ELSE j
    <3>1. FieldMod >= 1 /\ j \in Int
      BY <1>3
    <3> QED
      BY <1>3, <3>1, SignedRange, Zenon
  <2> QED
    BY <2>1, <2>2
<1>5. fieldNum(Ok(8 * j + w, next)) = j
  BY <1>1, <1>2, <1>4 DEF fieldNum
<1> QED
  BY <1>1, <1>5 DEF Byte

\* A byte below 128 is a varint.
LEMMA ByteRead ==
  ASSUME NEW t \in 0 .. 127, NEW d, NEW i, Lies(d, i, <<t>>)
  PROVE  Varint(d, i) = Ok(t, i + 1)
<1>1. t \in Nat /\ t < IntMod
  BY Least
<1>2. varint[t] = <<t>> /\ sov[t] = 1
  BY Varints, Sov
<1> QED
  BY <1>1, <1>2, VarintRead

\* A part of length delimited bytes.
Part(t, b) == <<t>> \o encodeVarintRpc(Len(b)) \o b

\* A part that was written is read as its bytes.
LEMMA PartRead ==
  ASSUME NEW t \in 0 .. 127, NEW b \in Seq(Byte), NEW d, NEW i, Lies(d, i, Part(t, b)),
         2 * Len(d) < IntMod
  PROVE  /\ Varint(d, i) = Ok(t, i + 1)
         /\ LengthDelimited(d, i + 1) = Ok(b, i + Len(Part(t, b)))
         /\ i \in Nat /\ 2 * Len(b) < IntMod
<1> DEFINE l == Len(b)
           n == varint[l]
           tn == <<t>> \o n
           s == sov[l]
<1>0. t \in Byte /\ t \in Nat
  BY DEF Byte
<1>1. l \in Nat /\ n \in Seq(Byte) /\ Len(n) = s /\ s \in Nat \ {0}
  <2>1. l \in Nat
    OBVIOUS
  <2> QED
    BY <2>1, Varints, Sov
<1>2. <<t>> \in Seq(Byte) /\ Len(<<t>>) = 1 /\ tn \in Seq(Byte) /\ Len(tn) = 1 + s
  BY <1>0, <1>1, ByteThen
<1>16. Part(t, b) = tn \o b
  BY DEF Part, encodeVarintRpc
<1>17. Len(b) = l
  OBVIOUS
<1>18. Len(Part(t, b)) = 1 + s + l
  <2> HIDE DEF l, n, s, tn
  <2>1. Len(tn \o b) = Len(tn) + Len(b)
    BY <1>2
  <2> QED
    BY <2>1, <1>2, <1>16, <1>17
<1>3. Lies(d, i, tn) /\ Lies(d, i + Len(tn), b)
  <2> HIDE DEF tn
  <2> QED
    BY <1>2, <1>16, LiesConcat
<1>4. Lies(d, i, <<t>>) /\ Lies(d, i + 1, n)
  <2> HIDE DEF n
  <2> QED
    BY <1>1, <1>2, <1>3, LiesConcat
<1>19. d \in Seq(Byte) /\ i \in Nat /\ Len(d) \in Nat
  BY <1>4, LiesIs
<1> DEFINE p == i + 1 + s
<1>20. i + Len(tn) = p
  <2> HIDE DEF tn, s
  <2> QED
    BY <1>1, <1>2, <1>19
<1>5. SubSeq(d, p + 1, p + l) = b /\ p + l <= Len(d)
  <2> HIDE DEF p, l, tn
  <2>1. Lies(d, p, b)
    BY <1>3, <1>20
  <2>2. SubSeq(d, p + 1, p + Len(b)) = b /\ p + Len(b) <= Len(d)
    BY <2>1, LiesIs
  <2> QED
    BY <2>2, <1>17
<1> HIDE DEF l, n, tn, s
<1>6. Varint(d, i) = Ok(t, i + 1)
  BY <1>4, ByteRead
<1>8. 2 * l < IntMod /\ l < IntMod /\ IntMod \in Nat
  BY <1>1, <1>5, <1>19, Widths
<1>9. Varint(d, i + 1) = Ok(l, p)
  <2>1. l \in Nat /\ Lies(d, i + 1, varint[l])
    BY <1>1, <1>4 DEF n
  <2> QED
    BY <2>1, <1>8, VarintRead DEF s
<1>10. Signed(l, IntMod) = l
  <2>1. l \in Int /\ l \in 0 .. IntMod - 1 /\ ~ (2 * l >= IntMod)
    BY <1>1, <1>8
  <2> QED
    BY <2>1, SignedInt
<1>11. p \in Nat /\ p + l <= Len(d) /\ p + l = i + Len(Part(t, b)) /\ p + l \in p .. Len(d)
  BY <1>1, <1>5, <1>18, <1>19
<1> HIDE DEF p
<1>12. PostIndex(p, l, Len(d)) = Ok(Nil, p + l)
  BY <1>1, <1>19, <1>11, PostIndexOk
<1>13. Slice(d, p, p + l) = Ok(b, p + l)
  <2>1. Slice(d, p, p + l) = Ok(SubSeq(d, p + 1, p + l), p + l)
    BY <1>19, <1>11, SliceReads
  <2> QED
    BY <2>1, <1>5
<1>14. Varint(d, i + 1).err = "none" /\ Varint(d, i + 1).val = l /\ Varint(d, i + 1).next = p
  BY <1>9, OkIs
<1>15. LengthDelimited(d, i + 1) = Slice(d, p, p + l)
  <2>1. PostIndex(p, l, Len(d)).err = "none" /\ PostIndex(p, l, Len(d)).next = p + l
    BY <1>12, OkIs
  <2> QED
    BY <1>10, <1>14, <2>1, Zenon DEF LengthDelimited
<1> QED
  BY <1>6, <1>8, <1>11, <1>13, <1>15, <1>17, <1>19

\* The field that a tag is for.
LEMMA FieldTag ==
  ASSUME NEW k, NEW j \in 1 .. 6, NEW w \in {0, 2}, NEW d, NEW i, Varint(d, i) = Ok(8 * j + w, i + 1)
  PROVE  /\ FieldAt(k, Varint(d, i)) = Types[k].fields[j] /\ Varint(d, i).next = i + 1
         /\ Varint(d, i).err = "none" /\ Varint(d, i).val % 8 = w /\ fieldNum(Varint(d, i)) = j
<1> DEFINE tag == Varint(d, i)
<1>1. tag.err = "none" /\ tag.val = 8 * j + w /\ tag.next = i + 1
  BY OkIs
<1>2. tag.val % 8 = w /\ fieldNum(tag) = j
  <2>1. w \in 0 .. 7
    OBVIOUS
  <2> QED
    BY <1>1, <2>1, TagIs
<1>3. FieldAt(k, tag) = Types[k].fields[j]
  BY <1>2, Zenon DEF FieldAt
<1> QED
  BY <1>1, <1>2, <1>3

\* A field whose tag has one byte is read by the round at its tag,
LEMMA FieldRead ==
  ASSUME NEW k, NEW j \in 1 .. 6, j \in DOMAIN Types[k].fields, NEW w \in {0, 2},
         NEW d, NEW i, Varint(d, i) = Ok(8 * j + w, i + 1), NEW m, NEW nested
  PROVE  /\ FieldAt(k, Varint(d, i)) = Types[k].fields[j] /\ Varint(d, i).next = i + 1
         /\ ReadField(k, m, d, i, nested) =
              Assign(Types[k].fields[j], w, m, Varint(d, i + 1), LengthDelimited(d, i + 1), nested)
<1> DEFINE tag == Varint(d, i)
<1>1. tag.err = "none" /\ tag.next = i + 1 /\ tag.val % 8 = w /\ fieldNum(tag) = j
  BY FieldTag
<1>3. FieldAt(k, tag) = Types[k].fields[j]
  BY FieldTag
<1>4. ~ (tag.val % 8 = 4 \/ fieldNum(tag) <= 0)
  BY <1>1
<1> HIDE DEF tag
<1>5. ReadField(k, m, d, i, nested) =
        Assign(FieldAt(k, tag), tag.val % 8, m, Varint(d, tag.next), LengthDelimited(d, tag.next), nested)
  BY <1>1, <1>4, Zenon DEF ReadField, tag
<1>6. /\ FieldAt(k, Varint(d, i)) = Types[k].fields[j] /\ Varint(d, i).next = i + 1
  BY <1>1, <1>3 DEF tag
<1> QED
  BY <1>1, <1>3, <1>5, <1>6, Zenon

\* Wherever x stands it is read as val, for the field f with number j of v.
ReadAs(depth, k, v, j, f, w, x, val) ==
  \A d, i : Lies(d, i, x) /\ 2 * Len(d) < IntMod =>
      /\ Varint(d, i) = Ok(8 * j + w, i + 1)
      /\ Came(f, w, Varint(d, i + 1), LengthDelimited(d, i + 1), InnerAt(depth, k, d, Ok(v, i)))
      /\ Given(f, v, Varint(d, i + 1), LengthDelimited(d, i + 1), InnerAt(depth, k, d, Ok(v, i))) = val
      /\ (IF Scalar(f) THEN Varint(d, i + 1).next ELSE LengthDelimited(d, i + 1).next) = i + Len(x)

\* which sets it.
LEMMA FieldTaken ==
  ASSUME NEW depth, NEW k, NEW v, NEW j \in 1 .. 6, j \in DOMAIN Types[k].fields,
         NEW f, f = Types[k].fields[j], f.kind \in FieldKinds,
         NEW w \in {0, 2}, NEW x \in Seq(Byte), x # <<>>, NEW val,
         ReadAs(depth, k, v, j, f, w, x, val)
  PROVE  Takes(depth, k, x, v, With(v, f.name, val))
<1>1. ASSUME NEW d, NEW i, Lies(d, i, x), 2 * Len(d) < IntMod
      PROVE  Round(depth, k, d, Ok(v, i)) = Ok(With(v, f.name, val), i + Len(x))
  <2> DEFINE vv == Varint(d, i + 1)
             part == LengthDelimited(d, i + 1)
             nested == InnerAt(depth, k, d, Ok(v, i))
  <2>1. /\ Varint(d, i) = Ok(8 * j + w, i + 1) /\ Came(f, w, vv, part, nested)
        /\ Given(f, v, vv, part, nested) = val
        /\ (IF Scalar(f) THEN vv.next ELSE part.next) = i + Len(x)
    BY <1>1 DEF ReadAs
  <2>2. Round(depth, k, d, Ok(v, i)) = ReadField(k, v, d, i, nested)
    BY OkIs, Zenon DEF Round
  <2> HIDE DEF vv, part, nested
  <2>3. ReadField(k, v, d, i, nested) = Assign(f, w, v, vv, part, nested)
    BY <2>1, FieldRead DEF vv, part
  <2>4. Assign(f, w, v, vv, part, nested) =
          Ok([v EXCEPT ![f.name] = Given(f, v, vv, part, nested)],
             IF Scalar(f) THEN vv.next ELSE part.next)
    BY <2>1, AssignCame
  <2> QED
    BY <2>1, <2>2, <2>3, <2>4, Zenon DEF With
<1> HIDE DEF With
<1> DEFINE u == With(v, f.name, val)
<1>2. \A d, i : Lies(d, i, x) /\ 2 * Len(d) < IntMod => Round(depth, k, d, Ok(v, i)) = Ok(u, i + Len(x))
  BY <1>1, Zenon
<1> HIDE DEF u
<1>3. Takes(depth, k, x, v, u)
  BY <1>2, TakesStep, Zenon
<1> QED
  BY <1>3 DEF u

\* What a part of bytes is given for is the bytes alone.
LEMMA GivenPart ==
  ASSUME NEW f, f.kind \in FieldKinds, ~ Scalar(f), NEW m, NEW a, NEW c, NEW p, NEW q, p.val = q.val,
         NEW nested
  PROVE  Given(f, m, a, p, nested) = Given(f, m, c, q, nested)
<1>1. CASE f.kind = "bytes"
  BY <1>1 DEF Given
<1>2. CASE f.kind = "string"
  BY <1>2 DEF Given
<1>3. CASE f.kind = "strings"
  BY <1>3 DEF Given
<1>4. CASE f.kind = "message"
  BY <1>4 DEF Given
<1>5. CASE f.kind = "messages"
  BY <1>5 DEF Given
<1> QED
  BY <1>1, <1>2, <1>3, <1>4, <1>5 DEF Scalar, FieldKinds

\* A field of bytes, of a string or of a message.
LEMMA PartTaken ==
  ASSUME NEW depth, NEW k, NEW v, NEW j \in 1 .. 6, j \in DOMAIN Types[k].fields,
         NEW f, f = Types[k].fields[j], f.kind \in FieldKinds, ~ Scalar(f),
         NEW b \in Seq(Byte), NEW val, NEW nested,
         nested = UnmarshalTo(depth - 1, f.of, Into(f, v), b),
         2 * Len(b) < IntMod =>
           /\ f.kind \in {"message", "messages"} => nested.err = "none"
           /\ Given(f, v, Nil, Ok(b, 0), nested) = val
  PROVE  Takes(depth, k, Part(8 * j + 2, b), v, With(v, f.name, val))
<1> DEFINE x == Part(8 * j + 2, b)
           t == 8 * j + 2
<1>1. t \in 0 .. 127 /\ t \in Byte
  <2>1. 2 \in 0 .. 7
    OBVIOUS
  <2> QED
    BY <2>1, TagIs, Zenon
<1>2. x \in Seq(Byte) /\ x # <<>>
  <2> DEFINE y == encodeVarintRpc(Len(b)) \o b
  <2>1. encodeVarintRpc(Len(b)) \in Seq(Byte)
    <3>1. Len(b) \in Nat
      OBVIOUS
    <3> QED
      BY <3>1, Varints DEF encodeVarintRpc
  <2>2. y \in Seq(Byte)
    BY <2>1
  <2>3. x = <<t>> \o y
    BY <1>1, <2>1 DEF Part
  <2> HIDE DEF y, t
  <2> QED
    BY <1>1, <2>2, <2>3, ByteThen
<1>3. ASSUME NEW d, NEW i, Lies(d, i, x), 2 * Len(d) < IntMod
      PROVE  /\ Varint(d, i) = Ok(8 * j + 2, i + 1)
             /\ Came(f, 2, Varint(d, i + 1), LengthDelimited(d, i + 1), InnerAt(depth, k, d, Ok(v, i)))
             /\ Given(f, v, Varint(d, i + 1), LengthDelimited(d, i + 1), InnerAt(depth, k, d, Ok(v, i))) = val
             /\ (IF Scalar(f) THEN Varint(d, i + 1).next ELSE LengthDelimited(d, i + 1).next) = i + Len(x)
  <2>1. /\ Varint(d, i) = Ok(t, i + 1)
        /\ LengthDelimited(d, i + 1) = Ok(b, i + Len(x))
        /\ 2 * Len(b) < IntMod
    <3> HIDE DEF t
    <3> QED
      BY <1>1, <1>3, PartRead DEF t
  <2>2. /\ FieldAt(k, Varint(d, i)) = f /\ Varint(d, i).next = i + 1
    <3>1. 2 \in {0, 2} /\ Varint(d, i) = Ok(8 * j + 2, i + 1)
      BY <2>1
    <3> QED
      BY <3>1, FieldTag
  <2>3. LengthDelimited(d, i + 1).err = "none" /\ LengthDelimited(d, i + 1).val = b
        /\ LengthDelimited(d, i + 1).next = i + Len(x)
    BY <2>1, OkIs
  <2>4. InnerAt(depth, k, d, Ok(v, i)) = nested
    <3>1. Ok(v, i).val = v /\ Ok(v, i).next = i
      BY OkIs
    <3> QED
      BY <2>2, <2>3, <3>1, Zenon DEF InnerAt
  <2>5. Given(f, v, Varint(d, i + 1), LengthDelimited(d, i + 1), nested) = val
    <3>1. Ok(b, 0).val = b
      BY OkIs
    <3>2. LengthDelimited(d, i + 1).val = Ok(b, 0).val
      BY <2>3, <3>1, Zenon
    <3>3. Given(f, v, Varint(d, i + 1), LengthDelimited(d, i + 1), nested) = Given(f, v, Nil, Ok(b, 0), nested)
      <4> DEFINE p == LengthDelimited(d, i + 1)
                 q == Ok(b, 0)
      <4>1. p.val = q.val
        BY <3>2
      <4> HIDE DEF p, q
      <4>2. \A a, c : Given(f, v, a, p, nested) = Given(f, v, c, q, nested)
        BY <4>1, GivenPart
      <4> QED
        BY <4>2, Zenon DEF p, q
    <3> QED
      BY <2>1, <3>3, Zenon
  <2> QED
    BY <2>1, <2>3, <2>4, <2>5 DEF Came
<1>4. 2 \in {0, 2}
  OBVIOUS
<1> HIDE DEF x, With
<1>5. Takes(depth, k, x, v, With(v, f.name, val))
  <2>1. ReadAs(depth, k, v, j, f, 2, x, val)
    BY <1>3, Zenon DEF ReadAs
  <2> QED
    BY <1>2, <1>4, <2>1, FieldTaken, Zenon
<1> QED
  BY <1>5 DEF x

\* What is marshalled is read as it was, by the reader of messages of a depth.
Trips(depth, k, m) ==
  LET x == MarshalTo(k, m)
  IN 2 * Len(x) < IntMod => UnmarshalTo(depth, k, Types[k].new, x) = Ok(m, Len(x))

FieldTrips(depth, f, val) ==
  /\ f.kind = "message" /\ val # Nil => Trips(depth, f.of, val)
  /\ f.kind = "messages" => \A n \in DOMAIN val : Trips(depth, f.of, val[n])

\* One part after the other.
LEMMA TakesEach ==
  ASSUME NEW depth, NEW k, NEW parts \in Seq(Seq(Byte)), NEW vs,
         \A n \in 1 .. Len(parts) : Takes(depth, k, parts[n], vs[n - 1], vs[n])
  PROVE  Takes(depth, k, FlattenSeq(parts), vs[0], vs[Len(parts)])
<1>1. CASE parts = <<>>
  <2>1. FlattenSeq(parts) = <<>> /\ Len(parts) = 0
    BY <1>1 DEF FlattenSeq
  <2> QED
    BY <2>1, TakesNothing
<1>2. CASE parts # <<>>
  <2> DEFINE N == Len(parts)
  <2>1. PICK u \in [1 .. Len(parts) -> Seq(Byte)] :
          /\ u[1] = parts[1] /\ \A n \in 2 .. Len(parts) : u[n] = u[n - 1] \o parts[n]
          /\ FlattenSeq(parts) = u[Len(parts)]
    BY <1>2, FlattenSeqConcat
  <2> DEFINE P == {n \in 1 .. N : Takes(depth, k, u[n], vs[0], vs[n])}
  <2>2. N \in Nat /\ N >= 1
    BY <1>2
  <2>3. 1 \in P
    <3>1. 1 \in 1 .. N /\ 1 - 1 = 0
      BY <2>2
    <3>2. Takes(depth, k, parts[1], vs[1 - 1], vs[1])
      BY <3>1
    <3>3. Takes(depth, k, u[1], vs[0], vs[1])
      BY <2>1, <3>1, <3>2
    <3> QED
      BY <3>1, <3>3
  <2>4. ASSUME NEW n \in 1 + 1 .. N, n - 1 \in P PROVE n \in P
    <3>1. n \in 1 .. N /\ n \in 2 .. N
      BY <2>2
    <3>2. u[n] = u[n - 1] \o parts[n]
      BY <2>1, <3>1, Zenon
    <3>3. Takes(depth, k, u[n - 1], vs[0], vs[n - 1]) /\ Takes(depth, k, parts[n], vs[n - 1], vs[n])
      BY <2>4, <3>1, Zenon
    <3>4. Takes(depth, k, u[n - 1] \o parts[n], vs[0], vs[n])
      BY <3>3, TakesBoth, Zenon
    <3> QED
      BY <3>1, <3>2, <3>4, Zenon
  <2> HIDE DEF P
  <2>5. \A n \in 1 .. N : n \in P
    BY <2>2, <2>3, <2>4, ChainInduction
  <2>6. N \in P
    BY <2>2, <2>5
  <2> QED
    BY <2>1, <2>6, Zenon DEF P
<1> QED
  BY <1>1, <1>2, Zenon

LEMMA BytesIsPart == \A tag, b : b \in Seq(Byte) => Bytes(tag, b) = Part(tag, b)
<1>1. TAKE tag, b
<1>2. HAVE b \in Seq(Byte)
<1>3. b # Nil
  BY <1>2, NilIsNoText
<1> QED
  BY <1>3, Zenon DEF Bytes, Part

LEMMA SubSeqAppend ==
  ASSUME NEW S, NEW bs \in Seq(S), NEW n \in 1 .. Len(bs)
  PROVE  /\ SubSeq(bs, 1, n) = Append(SubSeq(bs, 1, n - 1), bs[n]) /\ SubSeq(bs, 1, n - 1) \in Seq(S)
         /\ SubSeq(bs, 1, 0) = <<>> /\ SubSeq(bs, 1, Len(bs)) = bs
  OBVIOUS

\* The elements of a repeated field, each a part of its own.
LEMMA ListTaken ==
  ASSUME NEW depth, NEW k, NEW v, v = [f \in DOMAIN v |-> v[f]], NEW name \in DOMAIN v,
         v[name] = <<>>, NEW S, NEW bs \in Seq(S), NEW parts \in Seq(Seq(Byte)), Len(parts) = Len(bs),
         \A u, n : n \in 1 .. Len(bs) =>
                     Takes(depth, k, parts[n], With(v, name, u), With(v, name, Append(u, bs[n])))
  PROVE  Takes(depth, k, FlattenSeq(parts), v, With(v, name, bs))
<1> DEFINE vs == [n \in 0 .. Len(bs) |-> With(v, name, SubSeq(bs, 1, n))]
<1>0. Len(bs) \in Nat
  OBVIOUS
<1>1. ASSUME NEW n \in 1 .. Len(parts) PROVE Takes(depth, k, parts[n], vs[n - 1], vs[n])
  <2> DEFINE u == SubSeq(bs, 1, n - 1)
  <2>1. n \in 1 .. Len(bs) /\ n - 1 \in 0 .. Len(bs) /\ n \in 0 .. Len(bs)
    BY <1>0
  <2>2. SubSeq(bs, 1, n) = Append(u, bs[n])
    BY <2>1, SubSeqAppend
  <2>3. vs[n - 1] = With(v, name, u) /\ vs[n] = With(v, name, Append(u, bs[n]))
    BY <2>1, <2>2, Zenon
  <2>4. Takes(depth, k, parts[n], With(v, name, u), With(v, name, Append(u, bs[n])))
    <3> HIDE DEF u, With
    <3> QED
      BY <2>1
  <2> QED
    BY <2>3, <2>4, Zenon
<1>2. vs[0] = v
  <2>1. SubSeq(bs, 1, 0) = <<>> /\ 0 \in 0 .. Len(bs)
    BY <1>0
  <2>2. vs[0] = With(v, name, v[name])
    BY <2>1, Zenon
  <2> HIDE DEF With, vs
  <2> QED
    BY <2>2, WithIs
<1>3. vs[Len(parts)] = With(v, name, bs)
  <2>1. SubSeq(bs, 1, Len(bs)) = bs /\ Len(bs) \in 0 .. Len(bs)
    BY <1>0
  <2> QED
    BY <2>1, Zenon
<1> HIDE DEF vs, With
<1>4. Takes(depth, k, FlattenSeq(parts), vs[0], vs[Len(parts)])
  BY <1>1, TakesEach
<1> QED
  BY <1>2, <1>3, <1>4

\* An empty field takes no bytes.
LEMMA EmptyTaken ==
  ASSUME NEW depth, NEW k \in DOMAIN Values, NEW v \in Values[k], NEW j \in DOMAIN Types[k].fields,
         NEW f, f = Types[k].fields[j], v[f.name] = Empty(f)
  PROVE  Takes(depth, k, <<>>, v, With(v, f.name, Empty(f)))
<1>1. v = [x \in DOMAIN v |-> v[x]] /\ f.name \in DOMAIN v
  BY StructWith
<1> HIDE DEF With
<1>2. With(v, f.name, Empty(f)) = v
  BY <1>1, WithIs
<1> QED
  BY <1>2, TakesNothing

\* The kinds of fields, one by one: a bool,
LEMMA BoolTaken ==
  ASSUME NEW depth, NEW k, NEW v, NEW j \in 1 .. 6, j \in DOMAIN Types[k].fields,
         NEW f, f = Types[k].fields[j], f.kind = "bool", NEW val \in BOOLEAN
  PROVE  Takes(depth, k, <<8 * j, IF val THEN 1 ELSE 0>>, v, With(v, f.name, val))
<1> DEFINE b == IF val THEN 1 ELSE 0
           x == <<8 * j, b>>
<1>1. 8 * j \in 0 .. 127 /\ 8 * j + 0 = 8 * j /\ b \in 0 .. 127 /\ 8 * j \in Byte /\ b \in Byte
  BY DEF Byte
<1>2. x \in Seq(Byte) /\ x # <<>> /\ Len(x) = 2 /\ x = <<8 * j>> \o <<b>> /\ Len(<<8 * j>>) = 1
      /\ <<8 * j>> \in Seq(Byte) /\ <<b>> \in Seq(Byte)
  BY <1>1
<1>3. ASSUME NEW d, NEW i, Lies(d, i, x), 2 * Len(d) < IntMod
      PROVE  /\ Varint(d, i) = Ok(8 * j + 0, i + 1)
             /\ Came(f, 0, Varint(d, i + 1), LengthDelimited(d, i + 1), InnerAt(depth, k, d, Ok(v, i)))
             /\ Given(f, v, Varint(d, i + 1), LengthDelimited(d, i + 1), InnerAt(depth, k, d, Ok(v, i))) = val
             /\ (IF Scalar(f) THEN Varint(d, i + 1).next ELSE LengthDelimited(d, i + 1).next) = i + Len(x)
  <2> HIDE DEF b, x
  <2>1. Lies(d, i, <<8 * j>>) /\ Lies(d, i + 1, <<b>>)
    BY <1>2, <1>3, LiesConcat
  <2>2. Varint(d, i) = Ok(8 * j, i + 1) /\ Varint(d, i + 1) = Ok(b, i + 1 + 1)
    BY <1>1, <2>1, ByteRead
  <2>3. i \in Nat
    BY <1>3, LiesIs
  <2>4. Varint(d, i + 1).err = "none" /\ Varint(d, i + 1).val = b /\ Varint(d, i + 1).next = i + Len(x)
    <3>1. i + 1 + 1 = i + Len(x)
      BY <1>2, <2>3
    <3> QED
      BY <2>2, <3>1, OkIs
  <2>5. (b # 0) = val
    BY DEF b
  <2>6. Came(f, 0, Varint(d, i + 1), LengthDelimited(d, i + 1), InnerAt(depth, k, d, Ok(v, i)))
    BY <2>4 DEF Came, Scalar
  <2>7. Given(f, v, Varint(d, i + 1), LengthDelimited(d, i + 1), InnerAt(depth, k, d, Ok(v, i))) = val
    BY <2>4, <2>5, Zenon DEF Given
  <2>8. Scalar(f)
    BY DEF Scalar
  <2> QED
    BY <1>1, <2>2, <2>4, <2>6, <2>7, <2>8, Zenon
<1> HIDE DEF x
<1>4. ReadAs(depth, k, v, j, f, 0, x, val)
  BY <1>3, Zenon DEF ReadAs
<1>5. f.kind \in FieldKinds /\ 0 \in {0, 2}
  BY DEF FieldKinds
<1> HIDE DEF With
<1>6. Takes(depth, k, x, v, With(v, f.name, val))
  BY <1>2, <1>4, <1>5, FieldTaken, Zenon
<1> QED
  BY <1>6 DEF x

LEMMA SameRest ==
  ASSUME NEW F \in Nat, F >= 1, NEW a \in Int, NEW r \in Int, NEW c \in Int, a = F * c + r
  PROVE  r % F = a % F
<1> DEFINE p == a \div F
           q == r \div F
           x == a % F
           y == r % F
<1>1. p \in Int /\ x \in 0 .. F - 1 /\ a = F * p + x
  OBVIOUS
<1>2. q \in Int /\ y \in 0 .. F - 1 /\ r = F * q + y
  OBVIOUS
<1> HIDE DEF p, q, x, y
<1> DEFINE u == p - c - q
<1>3. u \in Int /\ F * u = y - x
  BY <1>1, <1>2
<1> HIDE DEF u
<1>4. ~ (u >= 1)
  <2> SUFFICES ASSUME u >= 1 PROVE FALSE
    OBVIOUS
  <2>1. F * u >= F
    BY <1>3
  <2> QED
    BY <1>1, <1>2, <1>3, <2>1
<1>5. ~ (u <= -1)
  <2> SUFFICES ASSUME u <= -1 PROVE FALSE
    OBVIOUS
  <2>1. F * u <= -F
    BY <1>3
  <2> QED
    BY <1>1, <1>2, <1>3, <2>1
<1>6. u = 0
  BY <1>3, <1>4, <1>5
<1>7. x = y
  BY <1>1, <1>2, <1>3, <1>6
<1> QED
  BY <1>7 DEF x, y

\* A mode is written as an int and read as an int32.
LEMMA ModeIs ==
  ASSUME NEW mode \in Int32
  PROVE  mode % IntMod \in Nat /\ mode % IntMod < IntMod /\ Signed(mode % IntMod, FieldMod) = mode
<1>1. PICK q \in Nat : IntMod = q * FieldMod
  BY Least
<1>2. /\ IntMod \in Nat
      /\ FieldMod \in Nat
      /\ FieldMod >= 16
      /\ FieldMod = 2 * (FieldMod \div 2)
      /\ IntMod >= 256
  BY Widths, Least
<1> DEFINE h == FieldMod \div 2
           r == mode % IntMod
<1>3. h \in Nat /\ mode \in Int /\ -h <= mode /\ mode < h
  BY <1>2 DEF Int32
<1>4. r \in Nat /\ r < IntMod
  BY <1>2, <1>3
<1>5. r % FieldMod = mode % FieldMod
  <2>1. mode = IntMod * (mode \div IntMod) + r /\ mode \div IntMod \in Int
    BY <1>2, <1>3
  <2>2. mode = FieldMod * (q * (mode \div IntMod)) + r
    BY <1>1, <1>2, <2>1
  <2> DEFINE c == q * (mode \div IntMod)
  <2>3. c \in Int /\ mode = FieldMod * c + r
    BY <1>1, <2>1, <2>2
  <2> HIDE DEF c, r
  <2> QED
    <3>1. r \in Int /\ FieldMod >= 1 /\ mode \in Int
      BY <1>2, <1>3, <1>4
    <3> QED
      BY <1>2, <2>3, <3>1, SameRest, Zenon
<1>6. mode % FieldMod = IF mode >= 0 THEN mode ELSE mode + FieldMod
  BY <1>2, <1>3
<1> HIDE DEF r
<1>7. Signed(r, FieldMod) = IF 2 * (mode % FieldMod) >= FieldMod
                            THEN (mode % FieldMod) - FieldMod ELSE mode % FieldMod
  BY <1>5 DEF Signed
<1>8. Signed(r, FieldMod) = mode
  BY <1>2, <1>3, <1>6, <1>7
<1> QED
  BY <1>4, <1>8 DEF r

\* an enum, which was written as an int and is read as an int32,
LEMMA EnumTaken ==
  ASSUME NEW depth, NEW k, NEW v, NEW j \in 1 .. 6, j \in DOMAIN Types[k].fields,
         NEW f, f = Types[k].fields[j], f.kind = "enum", NEW val \in Int32
  PROVE  Takes(depth, k, Enum(8 * j, val), v, With(v, f.name, val))
<1> DEFINE e == val % IntMod
           n == varint[e]
           x == Enum(8 * j, val)
<1>1. 8 * j \in 0 .. 127 /\ 8 * j + 0 = 8 * j /\ 8 * j \in Byte
  BY DEF Byte
<1>2. e \in Nat /\ e < IntMod /\ Signed(e, FieldMod) = val
  BY ModeIs
<1> HIDE DEF e
<1>3. n \in Seq(Byte) /\ Len(n) = sov[e] /\ sov[e] \in Nat
  BY <1>2, Varints, Sov
<1>4. val # Nil
  <2>1. val \in Int
    BY Widths DEF Int32
  <2> QED
    BY <2>1, NilAssumption
<1>5. x = <<8 * j>> \o n
  BY <1>4 DEF Enum, encodeVarintRpc, e
<1> HIDE DEF n, x
<1>6. /\ x \in Seq(Byte)
      /\ x # <<>>
      /\ Len(x) = 1 + sov[e]
      /\ Len(<<8 * j>>) = 1
      /\ <<8 * j>> \in Seq(Byte)
  BY <1>1, <1>3, <1>5, ByteThen
<1>7. ASSUME NEW d, NEW i, Lies(d, i, x), 2 * Len(d) < IntMod
      PROVE  /\ Varint(d, i) = Ok(8 * j + 0, i + 1)
             /\ Came(f, 0, Varint(d, i + 1), LengthDelimited(d, i + 1), InnerAt(depth, k, d, Ok(v, i)))
             /\ Given(f, v, Varint(d, i + 1), LengthDelimited(d, i + 1), InnerAt(depth, k, d, Ok(v, i))) = val
             /\ (IF Scalar(f) THEN Varint(d, i + 1).next ELSE LengthDelimited(d, i + 1).next) = i + Len(x)
  <2>1. Lies(d, i, <<8 * j>>) /\ Lies(d, i + 1, n)
    BY <1>3, <1>5, <1>6, <1>7, LiesConcat
  <2>2. Varint(d, i) = Ok(8 * j, i + 1)
    BY <1>1, <2>1, ByteRead
  <2>3. Varint(d, i + 1) = Ok(e, i + 1 + sov[e])
    BY <1>2, <2>1, VarintRead DEF n
  <2>4. Varint(d, i + 1).err = "none" /\ Varint(d, i + 1).val = e /\ Varint(d, i + 1).next = i + Len(x)
    <3>1. i \in Nat
      BY <1>7, LiesIs
    <3>2. sov[e] \in Nat /\ Len(x) = 1 + sov[e]
      BY <1>2, <1>3, <1>6, Sov
    <3>3. i + 1 + sov[e] = i + Len(x)
      BY <3>1, <3>2
    <3> QED
      BY <2>3, <3>3, OkIs
  <2>6. Came(f, 0, Varint(d, i + 1), LengthDelimited(d, i + 1), InnerAt(depth, k, d, Ok(v, i)))
    BY <2>4 DEF Came, Scalar
  <2>7. Given(f, v, Varint(d, i + 1), LengthDelimited(d, i + 1), InnerAt(depth, k, d, Ok(v, i))) = val
    BY <1>2, <2>4 DEF Given
  <2>8. Scalar(f)
    BY DEF Scalar
  <2> QED
    BY <1>1, <2>2, <2>4, <2>6, <2>7, <2>8, Zenon
<1>8. ReadAs(depth, k, v, j, f, 0, x, val)
  BY <1>7, Zenon DEF ReadAs
<1>9. f.kind \in FieldKinds /\ 0 \in {0, 2}
  <2>1. f.kind \in FieldKinds
    BY Zenon DEF FieldKinds
  <2> QED
    BY <2>1, Zenon
<1> HIDE DEF With
<1>10. Takes(depth, k, x, v, With(v, f.name, val))
  BY <1>6, <1>8, <1>9, FieldTaken, Zenon
<1> QED
  BY <1>10 DEF x

\* A part wherever it comes in a repeated field, or in one that is not.
LEMMA BytesTaken ==
  ASSUME NEW depth, NEW k, NEW v, NEW j \in 1 .. 6, j \in DOMAIN Types[k].fields,
         NEW f, f = Types[k].fields[j], f.kind \in {"bytes", "string"}, NEW b \in Seq(Byte)
  PROVE  Takes(depth, k, Bytes(8 * j + 2, b), v, With(v, f.name, b))
<1> DEFINE nested == UnmarshalTo(depth - 1, f.of, Into(f, v), b)
<1>0. f.kind = "bytes" \/ f.kind = "string"
  BY Zenon
<1>1. f.kind \in FieldKinds /\ ~ Scalar(f) /\ ~ (f.kind \in {"message", "messages"})
  <2>1. f.kind \in FieldKinds
    BY <1>0, Zenon DEF FieldKinds
  <2>2. ~ (f.kind \in {"bool", "enum"}) /\ ~ (f.kind \in {"message", "messages"})
    BY <1>0
  <2> QED
    BY <2>1, <2>2, Zenon DEF Scalar
<1>2. Given(f, v, Nil, Ok(b, 0), nested) = b
  <2>1. Ok(b, 0).val = b /\ Overwrite(v[f.name], b) = b
    BY OkIs, OverwriteIs
  <2> QED
    BY <2>1 DEF Given
<1> HIDE DEF With
<1>3. nested = UnmarshalTo(depth - 1, f.of, Into(f, v), b)
  OBVIOUS
<1> HIDE DEF nested
<1>4. Takes(depth, k, Part(8 * j + 2, b), v, With(v, f.name, b))
  BY <1>1, <1>2, <1>3, PartTaken, Zenon
<1> QED
  BY <1>4, BytesIsPart

\* a string,
LEMMA StringTaken ==
  ASSUME NEW depth, NEW k, NEW v, NEW j \in 1 .. 6, j \in DOMAIN Types[k].fields,
         NEW f, f = Types[k].fields[j], f.kind = "strings", NEW b \in Seq(Byte)
  PROVE  Takes(depth, k, Bytes(8 * j + 2, b), v, With(v, f.name, Append(v[f.name], b)))
<1> DEFINE nested == UnmarshalTo(depth - 1, f.of, Into(f, v), b)
           val == Append(v[f.name], b)
<1>1. f.kind \in FieldKinds /\ ~ Scalar(f) /\ ~ (f.kind \in {"message", "messages"})
  BY DEF FieldKinds, Scalar
<1>2. Given(f, v, Nil, Ok(b, 0), nested) = val
  <2>1. Ok(b, 0).val = b
    BY OkIs
  <2> QED
    BY <2>1 DEF Given
<1>3. nested = UnmarshalTo(depth - 1, f.of, Into(f, v), b)
  OBVIOUS
<1> HIDE DEF nested, With, val
<1>4. Takes(depth, k, Part(8 * j + 2, b), v, With(v, f.name, val))
  BY <1>1, <1>2, <1>3, PartTaken, Zenon
<1> QED
  BY <1>4, BytesIsPart DEF val

\* a nested message, into a field or a list,
LEMMA MessageTaken ==
  ASSUME NEW depth, NEW k, NEW v, NEW j \in 1 .. 6, j \in DOMAIN Types[k].fields,
         NEW f, f = Types[k].fields[j], f.kind \in {"message", "messages"}, f.of \in DOMAIN Values,
         f.kind = "message" => v[f.name] = Nil,
         NEW m \in Values[f.of], Trips(depth - 1, f.of, m)
  PROVE  Takes(depth, k, Bytes(8 * j + 2, MarshalTo(f.of, m)), v,
               With(v, f.name, IF f.kind = "message" THEN m ELSE Append(v[f.name], m)))
<1> DEFINE b == MarshalTo(f.of, m)
           nested == UnmarshalTo(depth - 1, f.of, Into(f, v), b)
           val == IF f.kind = "message" THEN m ELSE Append(v[f.name], m)
<1>1. f.kind \in FieldKinds /\ ~ Scalar(f)
  BY DEF FieldKinds, Scalar
<1>2. b \in Seq(Byte)
  BY MarshalIs
<1>3. nested = UnmarshalTo(depth - 1, f.of, Into(f, v), b)
  OBVIOUS
<1>4. Into(f, v) = Types[f.of].new
  BY DEF Into
<1>5. ASSUME 2 * Len(b) < IntMod
      PROVE  /\ f.kind \in {"message", "messages"} => nested.err = "none"
             /\ Given(f, v, Nil, Ok(b, 0), nested) = val
  <2>1. nested = Ok(m, Len(b))
    BY <1>4, <1>5, Zenon DEF Trips
  <2>2. nested.err = "none" /\ nested.val = m
    BY <2>1, OkIs
  <2> HIDE DEF nested
  <2> QED
    BY <2>2 DEF Given
<1> HIDE DEF nested, With, val, b
<1>6. Takes(depth, k, Part(8 * j + 2, b), v, With(v, f.name, val))
  BY <1>1, <1>2, <1>3, <1>5, PartTaken, Zenon
<1>7. Takes(depth, k, Bytes(8 * j + 2, b), v, With(v, f.name, val))
  BY <1>2, <1>6, BytesIsPart
<1> QED
  BY <1>7 DEF val, b

\* one into a field that is nil,
LEMMA OptionalTaken ==
  ASSUME NEW depth, NEW k, NEW v, NEW j \in 1 .. 6, j \in DOMAIN Types[k].fields,
         NEW f, f = Types[k].fields[j], f.kind = "message", f.of \in DOMAIN Values, v[f.name] = Nil,
         NEW m \in Values[f.of], Trips(depth - 1, f.of, m)
  PROVE  Takes(depth, k, Bytes(8 * j + 2, MarshalTo(f.of, m)), v, With(v, f.name, m))
<1>1. f.kind \in {"message", "messages"}
  OBVIOUS
<1> DEFINE val == IF f.kind = "message" THEN m ELSE Append(v[f.name], m)
<1>2. val = m
  OBVIOUS
<1>3. f.kind = "message" => v[f.name] = Nil
  OBVIOUS
<1> HIDE DEF With
<1>4. Takes(depth, k, Bytes(8 * j + 2, MarshalTo(f.of, m)), v, With(v, f.name, val))
  BY <1>1, <1>3, MessageTaken
<1> QED
  BY <1>2, <1>4

\* What Strings writes are parts, one after the other.
LEMMA BytesList ==
  ASSUME NEW t \in Byte, NEW bs \in Seq(Seq(Byte))
  PROVE  LET parts == [n \in DOMAIN bs |-> Bytes(t, bs[n])]
         IN /\ Strings(t, bs) = FlattenSeq(parts) /\ parts \in Seq(Seq(Byte)) /\ Len(parts) = Len(bs)
            /\ DOMAIN bs = 1 .. Len(bs) /\ \A n \in 1 .. Len(bs) : parts[n] = Bytes(t, bs[n])
<1> DEFINE parts == [n \in DOMAIN bs |-> Bytes(t, bs[n])]
<1>1. Len(bs) \in Nat /\ DOMAIN bs = 1 .. Len(bs) /\ \A n \in 1 .. Len(bs) : bs[n] \in Text
  BY DEF Text
<1>2. \A n \in 1 .. Len(bs) : parts[n] = Bytes(t, bs[n]) /\ parts[n] \in Seq(Byte)
  BY <1>1, FitsBytes, Zenon DEF Fits
<1>3. parts \in [1 .. Len(bs) -> Seq(Byte)]
  BY <1>1, <1>2
<1>4. parts \in Seq(Seq(Byte)) /\ Len(parts) = Len(bs)
  <2> HIDE DEF parts
  <2> QED
    BY <1>1, <1>3, SeqOfFunction, Zenon
<1>5. Strings(t, bs) = FlattenSeq(parts)
  BY Zenon DEF Strings
<1> QED
  BY <1>1, <1>2, <1>4, <1>5, Zenon

\* A message in a field is a part of the bytes it is marshalled to.
LEMMA EnclosedBytes ==
  ASSUME NEW of \in DOMAIN Values, NEW m \in Values[of], NEW tag
  PROVE  Enclosed(of, tag, m) = Bytes(tag, MarshalTo(of, m)) /\ m # Nil
<1>1. MarshalTo(of, m) \in Seq(Byte) /\ Len(MarshalTo(of, m)) = Size(of, m)
  BY MarshalIs, Zenon
<1>2. m # Nil
  <2>1. "XXX_unrecognized" \in DOMAIN m /\ m = [f \in DOMAIN m |-> m[f]]
    BY Structs, Zenon
  <2>2. \A i \in DOMAIN Values : Nil \notin Values[i]
    BY NoStructAssumption
  <2> QED
    BY <2>2, Zenon
<1>3. MarshalTo(of, m) # Nil
  BY <1>1, NilIsNoText, Zenon
<1> QED
  BY <1>1, <1>2, <1>3, Zenon DEF Enclosed, Bytes

\* Wherever the bytes of a field come, they give it its value.
LEMMA FieldTakes ==
  ASSUME NEW depth \in 1 .. 3, NEW k \in DOMAIN Values, NEW v \in Values[k],
         NEW j \in DOMAIN Types[k].fields, NEW f, f = Types[k].fields[j], v[f.name] = Empty(f),
         NEW val, Typed(f, val), FieldTrips(depth - 1, f, val)
  PROVE  Takes(depth, k, FieldBytes(f, j, val), v, With(v, f.name, val))
<1>0. /\ v = [x \in DOMAIN v |-> v[x]] /\ f.name \in DOMAIN v /\ f.kind \in FieldKinds /\ j \in 1 .. 6
      /\ f.kind \in {"message", "messages"} => f.of \in DOMAIN Values
  BY StructWith
<1> DEFINE t == 8 * j + 2
<1>t. t \in Byte
  <2>1. 2 \in 0 .. 7
    OBVIOUS
  <2> QED
    BY <1>0, <2>1, TagIs, Zenon
<1>e. Takes(depth, k, <<>>, v, With(v, f.name, Empty(f)))
  BY EmptyTaken
<1> HIDE DEF With
<1>1. CASE f.kind = "bool"
  <2>1. Empty(f) = Nil /\ val \in BOOLEAN \cup {Nil}
    BY <1>1 DEF Empty, Typed
  <2>2. FieldBytes(f, j, val) = IF val = Nil THEN <<>> ELSE <<8 * j, IF val THEN 1 ELSE 0>>
    BY <1>1, BoolField, Zenon
  <2>3. CASE val = Nil
    BY <1>e, <2>1, <2>2, <2>3
  <2>4. CASE val # Nil
    <3>1. val \in BOOLEAN
      BY <2>1, <2>4
    <3>2. Takes(depth, k, <<8 * j, IF val THEN 1 ELSE 0>>, v, With(v, f.name, val))
      BY <1>0, <1>1, <3>1, BoolTaken, Zenon
    <3>3. FieldBytes(f, j, val) = <<8 * j, IF val THEN 1 ELSE 0>>
      BY <2>2, <2>4, Zenon
    <3> QED
      BY <3>2, <3>3, Zenon
  <2> QED
    BY <2>3, <2>4
<1>2. CASE f.kind = "enum"
  <2>1. Empty(f) = Nil /\ val \in Int32 \cup {Nil}
    BY <1>2 DEF Empty, Typed
  <2>2. FieldBytes(f, j, val) = Enum(8 * j, val)
    BY <1>2, EnumField, Zenon
  <2>3. CASE val = Nil
    <3>1. Enum(8 * j, val) = <<>>
      BY <2>3, Zenon DEF Enum
    <3> QED
      BY <1>e, <2>1, <2>2, <2>3, <3>1
  <2>4. CASE val # Nil
    <3>1. val \in Int32
      BY <2>1, <2>4
    <3>2. Takes(depth, k, Enum(8 * j, val), v, With(v, f.name, val))
      BY <1>0, <1>2, <3>1, EnumTaken, Zenon
    <3> QED
      BY <2>2, <3>2, Zenon
  <2> QED
    BY <2>3, <2>4
<1>3. CASE f.kind \in {"bytes", "string"}
  <2>1. Empty(f) = Nil /\ val \in Text
    BY <1>3 DEF Empty, Typed
  <2>2. FieldBytes(f, j, val) = Bytes(t, val)
    BY <1>3 DEF FieldBytes
  <2>3. CASE val = Nil
    <3>1. Bytes(t, val) = <<>>
      BY <2>3, Zenon DEF Bytes
    <3> QED
      BY <1>e, <2>1, <2>2, <2>3, <3>1
  <2>4. CASE val # Nil
    <3>1. val \in Seq(Byte)
      BY <2>1, <2>4 DEF Text
    <3>2. Takes(depth, k, Bytes(t, val), v, With(v, f.name, val))
      BY <1>0, <1>3, <3>1, BytesTaken, Zenon
    <3> QED
      BY <2>2, <3>2, Zenon
  <2> QED
    BY <2>3, <2>4
<1>4. CASE f.kind = "strings"
  <2>1. v[f.name] = <<>> /\ val \in Seq(Seq(Byte))
    BY <1>4 DEF Empty, Typed
  <2> DEFINE parts == [n \in DOMAIN val |-> Bytes(t, val[n])]
  <2>2. FieldBytes(f, j, val) = Strings(t, val)
    BY <1>4, StringsField, Zenon
  <2>3. /\ Strings(t, val) = FlattenSeq(parts) /\ parts \in Seq(Seq(Byte)) /\ Len(parts) = Len(val)
        /\ \A n \in 1 .. Len(val) : parts[n] = Bytes(t, val[n])
    BY <1>t, <2>1, BytesList, Zenon
  <2> HIDE DEF parts
  <2>4. ASSUME NEW u, NEW n, n \in 1 .. Len(val)
        PROVE  Takes(depth, k, parts[n], With(v, f.name, u), With(v, f.name, Append(u, val[n])))
    <3> DEFINE w == With(v, f.name, u)
    <3>1. val[n] \in Seq(Byte)
      BY <2>1, <2>4
    <3>2. Takes(depth, k, Bytes(t, val[n]), w, With(w, f.name, Append(w[f.name], val[n])))
      BY <1>0, <1>4, <3>1, StringTaken, Zenon
    <3>3. w[f.name] = u
      BY <1>0, WithIs
    <3>4. With(w, f.name, Append(u, val[n])) = With(v, f.name, Append(u, val[n]))
      BY <1>0, WithIs
    <3> QED
      BY <2>3, <2>4, <3>2, <3>3, <3>4
  <2>5. Takes(depth, k, FlattenSeq(parts), v, With(v, f.name, val))
    BY <1>0, <2>1, <2>3, <2>4, ListTaken, Zenon
  <2> QED
    BY <2>2, <2>3, <2>5, Zenon
<1>5. CASE f.kind = "message"
  <2>1. Empty(f) = Nil /\ val \in Values[f.of] \cup {Nil} /\ v[f.name] = Nil
    BY <1>5 DEF Empty, Typed
  <2>2. FieldBytes(f, j, val) = Enclosed(f.of, t, val)
    BY <1>5, MessageField, Zenon
  <2>3. CASE val = Nil
    <3>1. Enclosed(f.of, t, val) = <<>>
      BY <2>3, Zenon DEF Enclosed
    <3> QED
      BY <1>e, <2>1, <2>2, <2>3, <3>1
  <2>4. CASE val # Nil
    <3>1. val \in Values[f.of] /\ Trips(depth - 1, f.of, val) /\ f.of \in DOMAIN Values
      BY <1>0, <1>5, <2>1, <2>4 DEF FieldTrips
    <3>2. ASSUME NEW w, w[f.name] = Nil
          PROVE  Takes(depth, k, Bytes(t, MarshalTo(f.of, val)), w,
                       With(w, f.name, val))
      BY <1>0, <1>5, <3>1, <3>2, OptionalTaken, Zenon
    <3>3. FieldBytes(f, j, val) = Bytes(t, MarshalTo(f.of, val))
      BY <2>2, <3>1, EnclosedBytes, Zenon
    <3> QED
      BY <1>5, <2>1, <3>2, <3>3, Zenon
  <2> QED
    BY <2>3, <2>4
<1>6. CASE f.kind = "messages"
  <2>1. v[f.name] = <<>> /\ val \in Seq(Values[f.of]) /\ f.of \in DOMAIN Values
    BY <1>0, <1>6 DEF Empty, Typed
  <2> DEFINE bs == [n \in DOMAIN val |-> MarshalTo(f.of, val[n])]
             parts == [n \in DOMAIN bs |-> Bytes(t, bs[n])]
  <2>2. FieldBytes(f, j, val) = FlattenSeq([n \in DOMAIN val |-> Enclosed(f.of, t, val[n])])
    <3>1. f.kind = "messages"
      BY <1>6
    <3>2. FieldBytes(f, j, val) = FlattenSeq([n \in DOMAIN val |-> Enclosed(f.of, 8 * j + 2, val[n])])
      BY <3>1 DEF FieldBytes
    <3> QED
      BY <3>2
  <2>6. DOMAIN val = 1 .. Len(val) /\ Len(val) \in Nat /\ \A n \in 1 .. Len(val) : val[n] \in Values[f.of]
    BY <2>1
  <2>7. bs \in [1 .. Len(val) -> Seq(Byte)] /\ \A n \in 1 .. Len(val) : bs[n] = MarshalTo(f.of, val[n])
    BY <2>1, <2>6, MarshalIs
  <2> HIDE DEF bs
  <2>8. bs \in Seq(Seq(Byte)) /\ Len(bs) = Len(val)
    BY <2>6, <2>7, SeqOfFunction, Zenon
  <2>3. /\ Strings(t, bs) = FlattenSeq(parts) /\ parts \in Seq(Seq(Byte)) /\ Len(parts) = Len(bs)
        /\ \A n \in 1 .. Len(bs) : parts[n] = Bytes(t, bs[n])
    BY <1>t, <2>8, BytesList, Zenon
  <2>9. [n \in DOMAIN val |-> Enclosed(f.of, t, val[n])] = parts
    <3>1. DOMAIN bs = DOMAIN val
      BY <2>6, <2>7
    <3>2. ASSUME NEW n \in DOMAIN val PROVE Enclosed(f.of, t, val[n]) = Bytes(t, bs[n])
      <4>1. val[n] \in Values[f.of] /\ bs[n] = MarshalTo(f.of, val[n])
        BY <2>6, <2>7, <3>2
      <4>2. f.of \in DOMAIN Values
        BY <2>1
      <4>3. \A x \in Values[f.of] : Enclosed(f.of, t, x) = Bytes(t, MarshalTo(f.of, x))
        BY <4>2, EnclosedBytes
      <4> QED
        BY <4>1, <4>3
    <3> QED
      BY <3>1, <3>2, Zenon
  <2> HIDE DEF parts
  <2>4. ASSUME NEW u, NEW n, n \in 1 .. Len(val)
        PROVE  Takes(depth, k, parts[n], With(v, f.name, u), With(v, f.name, Append(u, val[n])))
    <3> DEFINE w == With(v, f.name, u)
               x == val[n]
    <3>1. x \in Values[f.of] /\ Trips(depth - 1, f.of, x)
      BY <1>6, <2>4, <2>6 DEF FieldTrips
    <3> HIDE DEF x
    <3>2. Takes(depth, k, Bytes(t, MarshalTo(f.of, x)), w,
                With(w, f.name, IF f.kind = "message" THEN x ELSE Append(w[f.name], x)))
      <4>1. f.kind \in {"message", "messages"} /\ f.kind # "message"
        BY <1>6
      <4> QED
        BY <1>0, <2>1, <3>1, <4>1, MessageTaken, Zenon
    <3>3. w[f.name] = u
      BY <1>0, WithIs
    <3>4. With(w, f.name, Append(u, x)) = With(v, f.name, Append(u, x))
      BY <1>0, WithIs
    <3>5. parts[n] = Bytes(t, MarshalTo(f.of, x))
      BY <2>3, <2>4, <2>7, <2>8 DEF x
    <3>6. f.kind # "message"
      BY <1>6
    <3>7. Takes(depth, k, parts[n], With(v, f.name, u), With(v, f.name, Append(u, x)))
      BY <3>2, <3>3, <3>4, <3>5, <3>6
    <3> QED
      BY <3>7 DEF x
  <2>5. Takes(depth, k, FlattenSeq(parts), v, With(v, f.name, val))
    <3>1. Len(parts) = Len(val) /\ parts \in Seq(Seq(Byte))
      BY <2>3, <2>8
    <3> QED
      BY <1>0, <2>1, <3>1, <2>4, ListTaken, Zenon
  <2> QED
    BY <2>2, <2>5, <2>9, Zenon
<1> QED
  BY <1>0, <1>1, <1>2, <1>3, <1>4, <1>5, <1>6 DEF FieldKinds

\* The names in a struct are those of its fields; what it is made with has no other bytes.
OwnNames(k, v) ==
  /\ \A x \in DOMAIN v \ {"XXX_unrecognized"} :
       \E j \in DOMAIN Types[k].fields : Types[k].fields[j].name = x
  /\ DOMAIN v = DOMAIN Types[k].new /\ Types[k].new.XXX_unrecognized = <<>>

\* The fields of a struct are those of its table.
LEMMA NamesAreOwn == \A k \in DOMAIN Values : \A v \in Values[k] : OwnNames(k, v)
<1> TAKE k \in DOMAIN Values
<1> TAKE v \in Values[k]
<1>1. CASE k = "SubOpts"
  <2>1. Types[k].fields = SubOptsFields /\ v \in SubOptsValues /\ Types[k].new = SubOpts
    BY <1>1 DEF Types, Values
  <2>2. /\ SubOptsFields = <<SubOptsFields[1], SubOptsFields[2]>>
        /\ SubOptsFields[1].name = "Subscribe" /\ SubOptsFields[2].name = "Topicid"
    BY DEF SubOptsFields, Field, FieldOf
  <2>3. /\ DOMAIN v = {"Subscribe", "Topicid", "XXX_unrecognized"} /\ DOMAIN v = DOMAIN SubOpts
        /\ SubOpts.XXX_unrecognized = <<>>
    BY <2>1 DEF SubOptsValues, SubOpts
  <2> QED
    BY <2>1, <2>2, <2>3 DEF OwnNames
<1>2. CASE k = "Message"
  <2>1. Types[k].fields = MessageFields /\ v \in MessageValues /\ Types[k].new = Message
    BY <1>2 DEF Types, Values
  <2>2. /\ MessageFields = <<MessageFields[1], MessageFields[2], MessageFields[3], MessageFields[4], MessageFields[5], MessageFields[6]>>
        /\ MessageFields[1].name = "From"
        /\ MessageFields[2].name = "Data"
        /\ MessageFields[3].name = "Seqno"
        /\ MessageFields[4].name = "TopicIDs"
        /\ MessageFields[5].name = "Signature"
        /\ MessageFields[6].name = "Key"
    BY DEF MessageFields, Field, FieldOf
  <2>3. /\ DOMAIN v = {"From", "Data", "Seqno", "TopicIDs", "Signature", "Key", "XXX_unrecognized"}
        /\ DOMAIN v = DOMAIN Message
        /\ Message.XXX_unrecognized = <<>>
    BY <2>1 DEF MessageValues, Message
  <2> QED
    BY <2>1, <2>2, <2>3 DEF OwnNames
<1>3. CASE k = "IHave"
  <2>1. Types[k].fields = IHaveFields /\ v \in IHaveValues /\ Types[k].new = ControlIHave
    BY <1>3 DEF Types, Values
  <2>2. /\ IHaveFields = <<IHaveFields[1], IHaveFields[2]>>
        /\ IHaveFields[1].name = "TopicID" /\ IHaveFields[2].name = "MessageIDs"
    BY DEF IHaveFields, Field, FieldOf
  <2>3. /\ DOMAIN v = {"TopicID", "MessageIDs", "XXX_unrecognized"} /\ DOMAIN v = DOMAIN ControlIHave
        /\ ControlIHave.XXX_unrecognized = <<>>
    BY <2>1 DEF IHaveValues, ControlIHave
  <2> QED
    BY <2>1, <2>2, <2>3 DEF OwnNames
<1>4. CASE k = "IWant"
  <2>1. Types[k].fields = IWantFields /\ v \in IWantValues /\ Types[k].new = ControlIWant
    BY <1>4 DEF Types, Values
  <2>2. /\ IWantFields = <<IWantFields[1]>>
        /\ IWantFields[1].name = "MessageIDs"
    BY DEF IWantFields, Field, FieldOf
  <2>3. /\ DOMAIN v = {"MessageIDs", "XXX_unrecognized"} /\ DOMAIN v = DOMAIN ControlIWant
        /\ ControlIWant.XXX_unrecognized = <<>>
    BY <2>1 DEF IWantValues, ControlIWant
  <2> QED
    BY <2>1, <2>2, <2>3 DEF OwnNames
<1>5. CASE k = "Graft"
  <2>1. Types[k].fields = GraftFields /\ v \in GraftValues /\ Types[k].new = ControlGraft
    BY <1>5 DEF Types, Values
  <2>2. /\ GraftFields = <<GraftFields[1]>>
        /\ GraftFields[1].name = "TopicID"
    BY DEF GraftFields, Field, FieldOf
  <2>3. /\ DOMAIN v = {"TopicID", "XXX_unrecognized"} /\ DOMAIN v = DOMAIN ControlGraft
        /\ ControlGraft.XXX_unrecognized = <<>>
    BY <2>1 DEF GraftValues, ControlGraft
  <2> QED
    BY <2>1, <2>2, <2>3 DEF OwnNames
<1>6. CASE k = "Prune"
  <2>1. Types[k].fields = PruneFields /\ v \in PruneValues /\ Types[k].new = ControlPrune
    BY <1>6 DEF Types, Values
  <2>2. /\ PruneFields = <<PruneFields[1]>>
        /\ PruneFields[1].name = "TopicID"
    BY DEF PruneFields, Field, FieldOf
  <2>3. /\ DOMAIN v = {"TopicID", "XXX_unrecognized"} /\ DOMAIN v = DOMAIN ControlPrune
        /\ ControlPrune.XXX_unrecognized = <<>>
    BY <2>1 DEF PruneValues, ControlPrune
  <2> QED
    BY <2>1, <2>2, <2>3 DEF OwnNames
<1>7. CASE k = "Control"
  <2>1. Types[k].fields = ControlFields /\ v \in ControlValues /\ Types[k].new = ControlMessage
    BY <1>7 DEF Types, Values
  <2>2. /\ ControlFields = <<ControlFields[1], ControlFields[2], ControlFields[3], ControlFields[4]>>
        /\ ControlFields[1].name = "Ihave"
        /\ ControlFields[2].name = "Iwant"
        /\ ControlFields[3].name = "Graft"
        /\ ControlFields[4].name = "Prune"
    BY DEF ControlFields, Field, FieldOf
  <2>3. /\ DOMAIN v = {"Ihave", "Iwant", "Graft", "Prune", "XXX_unrecognized"}
        /\ DOMAIN v = DOMAIN ControlMessage
        /\ ControlMessage.XXX_unrecognized = <<>>
    BY <2>1 DEF ControlValues, ControlMessage
  <2> QED
    BY <2>1, <2>2, <2>3 DEF OwnNames
<1>8. CASE k = "RPC"
  <2>1. Types[k].fields = RPCFields /\ v \in RPCValues /\ Types[k].new = RPC
    BY <1>8 DEF Types, Values
  <2>2. /\ RPCFields = <<RPCFields[1], RPCFields[2], RPCFields[3]>>
        /\ RPCFields[1].name = "Subscriptions"
        /\ RPCFields[2].name = "Publish"
        /\ RPCFields[3].name = "Control"
    BY DEF RPCFields, Field, FieldOf
  <2>3. /\ DOMAIN v = {"Subscriptions", "Publish", "Control", "XXX_unrecognized"}
        /\ DOMAIN v = DOMAIN RPC
        /\ RPC.XXX_unrecognized = <<>>
    BY <2>1 DEF RPCValues, RPC
  <2> QED
    BY <2>1, <2>2, <2>3 DEF OwnNames
<1>9. CASE k = "Auth"
  <2>1. Types[k].fields = AuthFields /\ v \in AuthValues /\ Types[k].new = AuthOpts
    BY <1>9 DEF Types, Values
  <2>2. /\ AuthFields = <<AuthFields[1], AuthFields[2]>>
        /\ AuthFields[1].name = "Mode" /\ AuthFields[2].name = "Keys"
    BY DEF AuthFields, Field, FieldOf
  <2>3. /\ DOMAIN v = {"Mode", "Keys", "XXX_unrecognized"} /\ DOMAIN v = DOMAIN AuthOpts
        /\ AuthOpts.XXX_unrecognized = <<>>
    BY <2>1 DEF AuthValues, AuthOpts
  <2> QED
    BY <2>1, <2>2, <2>3 DEF OwnNames
<1>10. CASE k = "Enc"
  <2>1. Types[k].fields = EncFields /\ v \in EncValues /\ Types[k].new = EncOpts
    BY <1>10 DEF Types, Values
  <2>2. /\ EncFields = <<EncFields[1], EncFields[2]>>
        /\ EncFields[1].name = "Mode" /\ EncFields[2].name = "KeyHashes"
    BY DEF EncFields, Field, FieldOf
  <2>3. /\ DOMAIN v = {"Mode", "KeyHashes", "XXX_unrecognized"} /\ DOMAIN v = DOMAIN EncOpts
        /\ EncOpts.XXX_unrecognized = <<>>
    BY <2>1 DEF EncValues, EncOpts
  <2> QED
    BY <2>1, <2>2, <2>3 DEF OwnNames
<1>11. CASE k = "TopicDescriptor"
  <2>1. /\ Types[k].fields = TopicDescriptorFields
        /\ v \in TopicDescriptorValues
        /\ Types[k].new = TopicDescriptor
    BY <1>11 DEF Types, Values
  <2>2. /\ TopicDescriptorFields = <<TopicDescriptorFields[1], TopicDescriptorFields[2], TopicDescriptorFields[3]>>
        /\ TopicDescriptorFields[1].name = "Name"
        /\ TopicDescriptorFields[2].name = "Auth"
        /\ TopicDescriptorFields[3].name = "Enc"
    BY DEF TopicDescriptorFields, Field, FieldOf
  <2>3. /\ DOMAIN v = {"Name", "Auth", "Enc", "XXX_unrecognized"} /\ DOMAIN v = DOMAIN TopicDescriptor
        /\ TopicDescriptor.XXX_unrecognized = <<>>
    BY <2>1 DEF TopicDescriptorValues, TopicDescriptor
  <2> QED
    BY <2>1, <2>2, <2>3 DEF OwnNames
<1> QED
  BY KindNames, <1>1, <1>2, <1>3, <1>4, <1>5, <1>6, <1>7, <1>8, <1>9, <1>10, <1>11, Zenon

\* The struct m as far as its first j fields.
Upto(k, m, j) ==
  [x \in DOMAIN m |-> IF \E i \in DOMAIN Types[k].fields : i <= j /\ Types[k].fields[i].name = x
                      THEN m[x] ELSE Types[k].new[x]]

\* A struct with one more of its fields set.
LEMMA UptoNext ==
  ASSUME NEW k \in DOMAIN Values, NEW m \in Values[k], NEW j \in DOMAIN Types[k].fields,
         NEW f, f = Types[k].fields[j]
  PROVE  /\ Upto(k, m, j) = With(Upto(k, m, j - 1), f.name, m[f.name])
         /\ Upto(k, m, j - 1)[f.name] = Empty(f)
<1> DEFINE name(i) == Types[k].fields[i].name
           N == DOMAIN Types[k].fields
           v == Upto(k, m, j - 1)
<1>1. f.name \in DOMAIN m /\ Types[k].new[f.name] = Empty(f) /\ \A i \in N : i \in 1 .. 6
  BY StructWith
<1>2. \A i \in N : name(i) = f.name => i = j
  BY NamesDiffer
<1>3. DOMAIN v = DOMAIN m
  BY DEF Upto
<1>4. ASSUME NEW x \in DOMAIN m PROVE Upto(k, m, j)[x] = IF x = f.name THEN m[f.name] ELSE v[x]
  <2>1. /\ Upto(k, m, j)[x] = IF \E i \in N : i <= j /\ name(i) = x THEN m[x] ELSE Types[k].new[x]
        /\ v[x] = IF \E i \in N : i <= j - 1 /\ name(i) = x THEN m[x] ELSE Types[k].new[x]
    BY Zenon DEF Upto
  <2>2. CASE x = f.name
    <3>1. j \in N /\ j <= j /\ name(j) = x
      BY <1>1, <2>2
    <3> QED
      BY <2>1, <2>2, <3>1, Zenon
  <2>3. CASE x # f.name
    <3>1. ASSUME NEW i \in N, name(i) = x PROVE i <= j <=> i <= j - 1
      <4>1. i # j
        BY <2>3, <3>1
      <4> QED
        BY <1>1, <4>1
    <3> QED
      BY <2>1, <2>3, <3>1, Zenon
  <2> QED
    BY <2>2, <2>3
<1>5. v[f.name] = Empty(f)
  <2>1. v[f.name] = IF \E i \in N : i <= j - 1 /\ name(i) = f.name THEN m[f.name] ELSE Types[k].new[f.name]
    BY <1>1, Zenon DEF Upto
  <2>2. ~ \E i \in N : i <= j - 1 /\ name(i) = f.name
    BY <1>1, <1>2
  <2> QED
    BY <1>1, <2>1, <2>2, Zenon
<1> HIDE DEF v
<1>6. Upto(k, m, j) = [x \in DOMAIN m |-> IF x = f.name THEN m[f.name] ELSE v[x]]
  <2>1. Upto(k, m, j) = [x \in DOMAIN m |-> Upto(k, m, j)[x]]
    BY Zenon DEF Upto
  <2> QED
    BY <1>4, <2>1, Zenon
<1>7. With(v, f.name, m[f.name]) = [x \in DOMAIN m |-> IF x = f.name THEN m[f.name] ELSE v[x]]
  BY <1>1, <1>3 DEF With
<1> QED
  BY <1>5, <1>6, <1>7 DEF v

\* Up to none of its fields it is as it is made, up to all it lacks the unrecognized bytes.
LEMMA UptoEnds ==
  ASSUME NEW k \in DOMAIN Values, NEW m \in Values[k], NEW n \in Nat, DOMAIN Types[k].fields = 1 .. n
  PROVE  Upto(k, m, 0) = Types[k].new /\ Keeping(Upto(k, m, n), m.XXX_unrecognized) = m
<1> DEFINE name(i) == Types[k].fields[i].name
           N == DOMAIN Types[k].fields
           new == Types[k].new
           b == m.XXX_unrecognized
           u == Upto(k, m, n)
<1>0. OwnNames(k, m) /\ new \in Values[k]
  BY NamesAreOwn, NewValues
<1>1. /\ new = [x \in DOMAIN new |-> new[x]] /\ m = [x \in DOMAIN m |-> m[x]] /\ DOMAIN new = DOMAIN m
      /\ "XXX_unrecognized" \in DOMAIN m /\ b \in Seq(Byte) /\ new["XXX_unrecognized"] = <<>>
  BY <1>0, Structs DEF OwnNames
<1>2. Upto(k, m, 0) = new
  <2>1. ~ \E i \in N : i <= 0
    OBVIOUS
  <2>2. \A x : ~ \E i \in N : i <= 0 /\ name(i) = x
    BY <2>1, Zenon
  <2>3. Upto(k, m, 0) = [x \in DOMAIN m |-> new[x]]
    BY <2>2, Zenon DEF Upto
  <2> QED
    BY <1>1, <2>3, Zenon
<1>3. ASSUME NEW x \in DOMAIN m, x # "XXX_unrecognized" PROVE u[x] = m[x]
  <2>1. PICK i \in N : name(i) = x
    BY <1>0, <1>3, Zenon DEF OwnNames
  <2>2. i <= n
    BY <2>1
  <2> QED
    BY <2>1, <2>2, Zenon DEF Upto
<1>4. u["XXX_unrecognized"] = <<>>
  <2>1. \A i \in N : name(i) # "XXX_unrecognized"
    BY StructWith
  <2> QED
    BY <1>1, <2>1, Zenon DEF Upto
<1>5. DOMAIN u = DOMAIN m
  BY DEF Upto
<1> HIDE DEF u
<1>6. Keeping(u, b) = [x \in DOMAIN u |-> IF x = "XXX_unrecognized" THEN u["XXX_unrecognized"] \o b ELSE u[x]]
  BY <1>1, <1>5 DEF Keeping
<1>7. <<>> \o b = m["XXX_unrecognized"]
  BY <1>1
<1>8. Keeping(u, b) = [x \in DOMAIN m |-> m[x]]
  BY <1>3, <1>4, <1>5, <1>6, <1>7
<1> QED
  BY <1>1, <1>2, <1>8 DEF u

\* The unrecognized bytes of a struct, if they are short enough to be sent, are fields that
\* the type does not know.
Unread(k, x) == 2 * Len(x) < IntMod => KeptBytes(k, x)

AllTrip(depth, k, m) ==
  \A j \in DOMAIN Types[k].fields :
    FieldTrips(depth, Types[k].fields[j], m[Types[k].fields[j].name])

LEMMA FieldIsBytes ==
  ASSUME NEW depth, NEW k, NEW x, NEW v, NEW w, Takes(depth, k, x, v, w)
  PROVE  x \in Seq(Byte)
  BY DEF Takes

LEMMA ShortEnd ==
  ASSUME NEW a \in Seq(Byte), NEW b \in Seq(Byte), 2 * Len(a \o b) < IntMod
  PROVE  2 * Len(b) < IntMod
  BY Widths

\* A struct is read as it was written if the messages in it are.
LEMMA TripsAll ==
  ASSUME NEW depth \in 1 .. 3, NEW k \in DOMAIN Values, NEW m \in Values[k],
         Unread(k, m.XXX_unrecognized), AllTrip(depth - 1, k, m)
  PROVE  Trips(depth, k, m)
<1> DEFINE x == MarshalTo(k, m)
           new == Types[k].new
           n == Len(Types[k].fields)
           b == BytesOf(k, m)
           rest == m.XXX_unrecognized
           u(j) == Upto(k, m, j)
<1>1. SUFFICES ASSUME 2 * Len(x) < IntMod
               PROVE  UnmarshalTo(depth, k, new, x) = Ok(m, Len(x))
  BY Zenon DEF Trips
<1>2. n \in 1 .. 6 /\ DOMAIN Types[k].fields = 1 .. n /\ x = Joined(b, n) \o rest
  BY LaidAll, Zenon DEF Laid
<1>3. new \in Values[k] /\ rest \in Seq(Byte)
  BY NewValues, Structs
<1>4. u(0) = new /\ Keeping(u(n), rest) = m
  BY <1>2, UptoEnds
<1>5. ASSUME NEW j \in 1 .. n, u(j - 1) \in Values[k]
      PROVE  u(j) \in Values[k] /\ Takes(depth, k, b[j], u(j - 1), u(j))
  <2> DEFINE f == Types[k].fields[j]
             v == u(j - 1)
             val == m[f.name]
  <2>1. j \in DOMAIN Types[k].fields /\ b[j] = FieldBytes(f, j, val) /\ v \in Values[k]
    BY <1>2, <1>5 DEF BytesOf
  <2>2. Typed(f, val) /\ FieldTrips(depth - 1, f, val)
    BY <2>1, StructWith DEF AllTrip
  <2>3. u(j) = With(v, f.name, val) /\ v[f.name] = Empty(f)
    BY <2>1, UptoNext
  <2> HIDE DEF f, v, val, u, b
  <2>4. f = Types[k].fields[j]
    BY DEF f
  <2>5. Takes(depth, k, FieldBytes(f, j, val), v, With(v, f.name, val))
    BY <2>1, <2>2, <2>3, <2>4, FieldTakes
  <2>6. With(v, f.name, val) \in Values[k]
    <3>1. \A y : Typed(f, y) => With(v, f.name, y) \in Values[k]
      BY <2>1, <2>4, StructWith
    <3> QED
      BY <2>2, <3>1, Zenon
  <2> QED
    BY <2>1, <2>3, <2>5, <2>6, Zenon DEF v
<1> HIDE DEF new, n, b, rest, u, x
<1> DEFINE P == {j \in 1 .. n : u(j) \in Values[k] /\ Takes(depth, k, Joined(b, j), new, u(j))}
<1>6. 1 \in P
  <2>1. 1 \in 1 .. n /\ 1 - 1 = 0
    BY <1>2
  <2> QED
    BY <1>3, <1>4, <1>5, <2>1, JoinedIs
<1>7. ASSUME NEW j \in 1 + 1 .. n, j - 1 \in P PROVE j \in P
  <2>1. j \in 1 .. n /\ j - 1 \in 1 .. 5 /\ j - 1 + 1 = j
    BY <1>2
  <2>2. Joined(b, j) = Joined(b, j - 1) \o b[j]
    BY <2>1, JoinedStep
  <2>3. u(j - 1) \in Values[k] /\ Takes(depth, k, Joined(b, j - 1), new, u(j - 1))
    BY <1>7, Zenon
  <2>4. u(j) \in Values[k] /\ Takes(depth, k, b[j], u(j - 1), u(j))
    BY <1>5, <2>1, <2>3, Zenon
  <2>5. Takes(depth, k, Joined(b, j - 1) \o b[j], new, u(j))
    BY <2>3, <2>4, TakesBoth
  <2> QED
    BY <2>1, <2>2, <2>4, <2>5, Zenon
<1> HIDE DEF P
<1>8. n \in P
  <2>1. 1 \in Nat /\ n \in Nat /\ n \in 1 .. n
    BY <1>2
  <2>2. \A j \in 1 .. n : j \in P
    BY <1>6, <1>7, <2>1, ChainInduction
  <2> QED
    BY <2>1, <2>2
<1>9. u(n) \in Values[k] /\ Takes(depth, k, Joined(b, n), new, u(n))
  BY <1>8 DEF P
<1>10. 2 * Len(rest) < IntMod
  <2>1. Joined(b, n) \in Seq(Byte)
    BY <1>9, FieldIsBytes
  <2> QED
    BY <1>1, <1>2, <1>3, <2>1, ShortEnd
<1>11. Takes(depth, k, rest, u(n), m)
  <2>1. KeptBytes(k, rest)
    BY <1>10, Zenon DEF Unread, rest
  <2> QED
    BY <1>4, <1>9, <2>1, Zenon DEF KeptBytes
<1>12. Takes(depth, k, x, new, m)
  BY <1>2, <1>9, <1>11, TakesBoth
<1> QED
  BY <1>1, <1>3, <1>12, TakesAll

(***************************************************************************)
(* A round of the loop: it keeps a field that is not known, or sets one.   *)
(***************************************************************************)
Keeps(depth, k, d, r, y) ==
  Piece(k, y) /\ Lies(d, r.next, y) /\ Round(depth, k, d, r) = Ok(Keeping(r.val, y), r.next + Len(y))
Sets(depth, k, d, r, j) ==
  LET f == Types[k].fields[j]
      tag == Varint(d, r.next)
      v == Varint(d, tag.next)
      part == LengthDelimited(d, tag.next)
      nested == UnmarshalTo(depth - 1, f.of, Into(f, r.val), part.val)
  IN /\ tag.next \in r.next + 1 .. Len(d) /\ Came(f, tag.val % 8, v, part, nested)
     /\ Round(depth, k, d, r) = Ok(With(r.val, f.name, Given(f, r.val, v, part, nested)),
                                   IF Scalar(f) THEN v.next ELSE part.next)

\* A round without an error did one or the other.
LEMMA RoundIs ==
  ASSUME NEW depth, NEW k \in DOMAIN Values, NEW d \in Seq(Byte), 2 * Len(d) < IntMod,
         NEW r, r.val \in Values[k], r.next \in 0 .. Len(d) - 1, Round(depth, k, d, r).err = "none"
  PROVE  \/ \E y : Keeps(depth, k, d, r, y)
         \/ \E j \in DOMAIN Types[k].fields : Sets(depth, k, d, r, j)
<1> DEFINE i == r.next
           tag == Varint(d, i)
           nested == InnerAt(depth, k, d, r)
<1>0. Len(d) \in Nat /\ i \in Nat /\ i \in 0 .. Len(d) - 1
  OBVIOUS
<1>1. Round(depth, k, d, r) = ReadField(k, r.val, d, i, nested)
  BY Zenon DEF Round
<1>2. ReadField(k, r.val, d, i, nested).err = "none"
  BY <1>1
<1>3. CASE fieldNum(tag) \notin DOMAIN Types[k].fields
  <2>1. PICK y : /\ Piece(k, y) /\ Lies(d, i, y)
                 /\ ReadField(k, r.val, d, i, nested) = Ok(Keeping(r.val, y), i + Len(y))
    <3> HIDE DEF i, nested
    <3> QED
      BY <1>0, <1>2, <1>3, KeptPiece
  <2> QED
    BY <1>1, <2>1, Zenon DEF Keeps
<1>4. CASE fieldNum(tag) \in DOMAIN Types[k].fields
  <2> DEFINE j == fieldNum(tag)
             f == Types[k].fields[j]
             v == Varint(d, tag.next)
             part == LengthDelimited(d, tag.next)
             val == Given(f, r.val, v, part, nested)
             next == IF Scalar(f) THEN v.next ELSE part.next
  <2>1. FieldAt(k, tag) = f
    BY DEF FieldAt
  <2>2. tag.err = "none"
    <3> HIDE DEF nested, tag
    <3> QED
      BY <1>2, Zenon DEF ReadField, tag
  <2>3. ReadField(k, r.val, d, i, nested) = Assign(f, tag.val % 8, r.val, v, part, nested)
    <3>1. ~ (tag.val % 8 = 4 \/ fieldNum(tag) <= 0)
      <4>1. Failed("tag").err # "none"
        BY DEF Failed
      <4> HIDE DEF nested, tag, i
      <4> QED
        BY <1>2, <2>2, <4>1, Zenon DEF ReadField, tag
    <3> HIDE DEF nested, f
    <3> QED
      BY <1>4, <2>1, <2>2, <3>1, Zenon DEF ReadField, tag
  <2>4. f.kind \in FieldKinds
    BY <1>4, StructWith
  <2> HIDE DEF f, v, part
  <2>5. Came(f, tag.val % 8, v, part, nested)
    <3> HIDE DEF nested, tag, i
    <3> QED
      BY <1>2, <2>3, <2>4, AssignIs
  <2>6. Round(depth, k, d, r) = Ok(With(r.val, f.name, val), next)
    <3> HIDE DEF nested, tag, i, val, next
    <3>1. Assign(f, tag.val % 8, r.val, v, part, nested) = Ok([r.val EXCEPT ![f.name] = val], next)
      BY <2>4, <2>5, AssignCame DEF val, next
    <3> QED
      BY <1>1, <2>3, <3>1 DEF With
  <2>7. tag.next \in i + 1 .. Len(d)
    <3>1. tag \in Reads(0 .. IntMod - 1, i + 1, Len(d))
      BY <1>0, VarintReads
    <3> HIDE DEF tag
    <3> QED
      BY <2>2, <3>1, ReadsIs
  <2>8. nested = UnmarshalTo(depth - 1, f.of, Into(f, r.val), part.val)
    BY <2>1, Zenon DEF InnerAt, part
  <2>9. Sets(depth, k, d, r, j)
    <3> HIDE DEF nested, tag, val, next
    <3>1. /\ tag.next \in r.next + 1 .. Len(d)
          /\ Came(f, tag.val % 8, v, part, UnmarshalTo(depth - 1, f.of, Into(f, r.val), part.val))
          /\ Round(depth, k, d, r) =
               Ok(With(r.val, f.name, Given(f, r.val, v, part, UnmarshalTo(depth - 1, f.of, Into(f, r.val), part.val))),
                  IF Scalar(f) THEN v.next ELSE part.next)
      BY <2>5, <2>6, <2>7, <2>8 DEF val, next
    <3> QED
      BY <3>1, Zenon DEF Sets, f, v, part, tag
  <2> QED
    BY <1>4, <2>9
<1> QED
  BY <1>3, <1>4

\* A part is shorter than what is read for it.
LEMMA PartShorter ==
  ASSUME NEW d \in Seq(Byte), 2 * Len(d) < IntMod, NEW i \in Nat, LengthDelimited(d, i).err = "none"
  PROVE  LET part == LengthDelimited(d, i)
         IN /\ part.val \in Seq(Byte) /\ part.next \in i + 1 .. Len(d)
            /\ i + 1 + Len(part.val) <= part.next
<1> DEFINE n == Varint(d, i)
           m == Signed(n.val, IntMod)
           post == PostIndex(n.next, m, Len(d))
<1>0. Len(d) \in Nat
  OBVIOUS
<1>1. n.err = "none"
  BY Zenon DEF LengthDelimited
<1>2. n \in Reads(0 .. IntMod - 1, i + 1, Len(d))
  BY VarintReads
<1> HIDE DEF n
<1>3. n.val \in 0 .. IntMod - 1 /\ n.next \in i + 1 .. Len(d)
  BY <1>1, <1>2, ReadsIs
<1>4. n.next \in 0 .. Len(d) /\ n.val \in Int
  BY <1>0, <1>3
<1>5. m \in Int /\ 2 * m < IntMod
  BY <1>4, SignedInt
<1> HIDE DEF m
<1>6. post.err = "none"
  BY <1>1, Zenon DEF LengthDelimited, n, m
<1>7. m \in Nat /\ n.next + m <= Len(d) /\ post = Ok(Nil, n.next + m)
  BY <1>0, <1>4, <1>5, <1>6, PostIndexIs
<1>8. LengthDelimited(d, i) = Slice(d, n.next, post.next)
  <2> HIDE DEF post
  <2> QED
    BY <1>1, <1>6, Zenon DEF LengthDelimited, n, m, post
<1> DEFINE p == n.next + m
<1>9. post.next = p /\ n.next \in Nat /\ p \in n.next .. Len(d) /\ p \in Nat
  <2>1. post.next = p
    BY <1>7, OkIs
  <2> QED
    BY <1>0, <1>3, <1>7, <2>1
<1> HIDE DEF post, p
<1>10. LengthDelimited(d, i) = Ok(SubSeq(d, n.next + 1, p), p)
  BY <1>8, <1>9, SliceReads
<1>11. Len(SubSeq(d, n.next + 1, p)) = p - n.next /\ SubSeq(d, n.next + 1, p) \in Seq(Byte)
  BY <1>0, <1>9
<1>12. LengthDelimited(d, i).val = SubSeq(d, n.next + 1, p) /\ LengthDelimited(d, i).next = p
  BY <1>10, OkIs
<1>13. p \in i + 1 .. Len(d) /\ i + 1 + (p - n.next) <= p
  BY <1>0, <1>3, <1>9
<1> QED
  BY <1>11, <1>12, <1>13

\* A field that is set leaves the unrecognized bytes alone, and the loop goes on after it.
LEMMA SetsIs ==
  ASSUME NEW depth, NEW k \in DOMAIN Values, NEW d \in Seq(Byte), 2 * Len(d) < IntMod,
         NEW r, r.val \in Values[k], r.next \in 0 .. Len(d) - 1,
         NEW j \in DOMAIN Types[k].fields, Sets(depth, k, d, r, j)
  PROVE  LET f == Types[k].fields[j]
             new == Round(depth, k, d, r)
             part == LengthDelimited(d, Varint(d, r.next).next)
         IN /\ new.val.XXX_unrecognized = r.val.XXX_unrecognized
            /\ new.next \in r.next + 2 .. Len(d)
            /\ ~ Scalar(f) => part.val \in Seq(Byte) /\ r.next + 2 + Len(part.val) <= new.next
<1> DEFINE f == Types[k].fields[j]
           new == Round(depth, k, d, r)
           tag == Varint(d, r.next)
           v == Varint(d, tag.next)
           part == LengthDelimited(d, tag.next)
           nested == UnmarshalTo(depth - 1, f.of, Into(f, r.val), part.val)
           val == Given(f, r.val, v, part, nested)
           next == IF Scalar(f) THEN v.next ELSE part.next
<1>0. Len(d) \in Nat /\ r.next \in Nat
  OBVIOUS
<1>1. tag.next \in r.next + 1 .. Len(d) /\ Came(f, tag.val % 8, v, part, nested)
      /\ new = Ok(With(r.val, f.name, val), next)
  BY Zenon DEF Sets
<1>2. /\ r.val = [x \in DOMAIN r.val |-> r.val[x]]
      /\ f.name \in DOMAIN r.val
      /\ f.name # "XXX_unrecognized"
      /\ "XXX_unrecognized" \in DOMAIN r.val
  <2> HIDE DEF f
  <2>1. f = Types[k].fields[j]
    BY DEF f
  <2>2. /\ r.val = [x \in DOMAIN r.val |-> r.val[x]]
        /\ f.name \in DOMAIN r.val
        /\ f.name # "XXX_unrecognized"
    BY <2>1, StructWith
  <2>3. "XXX_unrecognized" \in DOMAIN r.val
    BY Structs, Zenon
  <2> QED
    BY <2>2, <2>3
<1> HIDE DEF val, With
<1>3. new.val.XXX_unrecognized = r.val.XXX_unrecognized
  <2>1. new.val = With(r.val, f.name, val)
    BY <1>1, OkIs
  <2> HIDE DEF f, new
  <2> QED
    BY <1>2, <2>1, WithIs
<1>4. new.next = next
  BY <1>1, OkIs
<1>5. tag.next \in Nat /\ tag.next >= r.next + 1
  BY <1>0, <1>1
<1> HIDE DEF new, tag, f, nested
<1>6. CASE Scalar(f)
  <2>1. v.err = "none"
    BY <1>1, <1>6 DEF Came
  <2>2. v \in Reads(0 .. IntMod - 1, tag.next + 1, Len(d))
    BY <1>5, VarintReads
  <2> HIDE DEF v
  <2>3. v.next \in tag.next + 1 .. Len(d)
    BY <2>1, <2>2, ReadsIs
  <2>4. next = v.next
    BY <1>6
  <2> HIDE DEF part, next
  <2> QED
    BY <1>0, <1>3, <1>4, <1>5, <1>6, <2>3, <2>4 DEF new, f
<1>7. CASE ~ Scalar(f)
  <2>1. part.err = "none"
    BY <1>1, <1>7 DEF Came
  <2>2. part.val \in Seq(Byte) /\ part.next \in tag.next + 1 .. Len(d)
        /\ tag.next + 1 + Len(part.val) <= part.next
    BY <1>5, <2>1, PartShorter
  <2>3. next = part.next
    BY <1>7
  <2> HIDE DEF part, next
  <2>4. new.next \in r.next + 2 .. Len(d) /\ r.next + 2 + Len(part.val) <= new.next
    <3> DEFINE l == Len(part.val)
               end == part.next
    <3>1. l \in Nat /\ end \in tag.next + 1 .. Len(d) /\ tag.next + 1 + l <= end
      BY <2>2
    <3>2. new.next = end
      BY <1>4, <2>3
    <3> HIDE DEF l, end
    <3>3. end \in r.next + 2 .. Len(d) /\ r.next + 2 + l <= end
      BY <1>0, <1>5, <3>1
    <3> QED
      BY <3>2, <3>3 DEF l
  <2> QED
    BY <1>3, <2>2, <2>4 DEF new, f, part, tag
<1> QED
  BY <1>6, <1>7

\* The round after r that has kept y.
Longer(d, r, y, new) ==
  /\ new.val = Keeping(r.val, y) /\ new.next = r.next + Len(y)
  /\ y \in Seq(Byte) /\ Len(y) \in Nat /\ Len(y) # 0 /\ r.next + Len(y) <= Len(d) /\ r.next \in Nat
  /\ new.val.XXX_unrecognized = r.val.XXX_unrecognized \o y
  /\ Len(r.val.XXX_unrecognized \o y) = Len(r.val.XXX_unrecognized) + Len(y)
  /\ r.val.XXX_unrecognized \in Seq(Byte)

LEMMA KeepsIs ==
  ASSUME NEW depth, NEW k \in DOMAIN Values, NEW d \in Seq(Byte), NEW r, r.val \in Values[k],
         NEW y, Keeps(depth, k, d, r, y)
  PROVE  Longer(d, r, y, Round(depth, k, d, r))
<1> DEFINE new == Round(depth, k, d, r)
           old == r.val.XXX_unrecognized
<1>1. new.val = Keeping(r.val, y) /\ new.next = r.next + Len(y)
  BY OkIs DEF Keeps
<1>2. y \in Seq(Byte) /\ y # <<>> /\ r.next + Len(y) <= Len(d) /\ r.next \in Nat
  BY DEF Keeps, Piece, Lies
<1>3. old \in Seq(Byte)
  BY Structs
<1>4. new.val.XXX_unrecognized = old \o y
  BY <1>1, <1>2, <1>3, KeptMore
<1>5. Len(y) \in Nat /\ Len(y) # 0
  BY <1>2
<1> HIDE DEF new, old
<1>6. Len(old \o y) = Len(old) + Len(y)
  BY <1>2, <1>3
<1> QED
  BY <1>1, <1>2, <1>3, <1>4, <1>5, <1>6, Zenon DEF new, old, Longer

(***************************************************************************)
(* The unrecognized bytes that a program may have.                         *)
(***************************************************************************)
\* The bytes that a loop has kept are never more than those it has passed, and as many only
\* if it has kept all of them.
OnlyKept(k, r) ==
  LET x == r.val.XXX_unrecognized
  IN r.err = "none" => Len(x) <= r.next /\ (Len(x) = r.next => KeptBytes(k, x))

\* A round keeps it so.
LEMMA OnlyKeptStep ==
  ASSUME NEW depth, NEW k \in DOMAIN Values, NEW d \in Seq(Byte), 2 * Len(d) < IntMod,
         NEW r, r.val \in Values[k], r.next \in 0 .. Len(d) - 1, r.err = "none", OnlyKept(k, r)
  PROVE  OnlyKept(k, Round(depth, k, d, r))
<1> DEFINE new == Round(depth, k, d, r)
           x == r.val.XXX_unrecognized
<1>1. SUFFICES ASSUME new.err = "none" PROVE OnlyKept(k, new)
  BY Zenon DEF OnlyKept
<1>0. x \in Seq(Byte) /\ Len(x) \in Nat /\ r.next \in Nat /\ Len(d) \in Nat /\ Len(x) <= r.next
      /\ (Len(x) = r.next => KeptBytes(k, x))
  <2>1. x \in Seq(Byte)
    BY Structs
  <2> QED
    BY <2>1 DEF OnlyKept
<1>2. CASE \E y : Keeps(depth, k, d, r, y)
  <2>1. PICK y : Keeps(depth, k, d, r, y)
    BY <1>2
  <2>2. /\ new.next = r.next + Len(y) /\ Len(y) \in Nat
        /\ new.val.XXX_unrecognized = x \o y /\ Len(x \o y) = Len(x) + Len(y)
    <3>1. Longer(d, r, y, new)
      <4> HIDE DEF x
      <4> QED
        BY <2>1, KeepsIs, Zenon
    <3> QED
      BY <3>1, Zenon DEF Longer
  <2>3. Piece(k, y)
    BY <2>1 DEF Keeps
  <2> HIDE DEF new, x
  <2>4. Len(x) = r.next => KeptBytes(k, x \o y)
    BY <1>0, <2>3, KeptPieces
  <2>5. Len(new.val.XXX_unrecognized) <= new.next
    BY <1>0, <2>2
  <2>6. Len(new.val.XXX_unrecognized) = new.next => Len(x) = r.next
    BY <1>0, <2>2
  <2> QED
    BY <2>2, <2>4, <2>5, <2>6 DEF OnlyKept
<1>3. CASE \E j \in DOMAIN Types[k].fields : Sets(depth, k, d, r, j)
  <2>1. PICK j \in DOMAIN Types[k].fields : Sets(depth, k, d, r, j)
    BY <1>3
  <2>2. new.val.XXX_unrecognized = x /\ new.next \in r.next + 2 .. Len(d)
    BY <2>1, SetsIs
  <2> HIDE DEF new, x
  <2>3. Len(x) <= new.next /\ Len(x) # new.next
    BY <1>0, <2>2
  <2> QED
    BY <2>2, <2>3 DEF OnlyKept
<1>4. (\E y : Keeps(depth, k, d, r, y)) \/ \E j \in DOMAIN Types[k].fields : Sets(depth, k, d, r, j)
  BY <1>1, RoundIs
<1> QED
  BY <1>2, <1>3, <1>4

\* A round is passed from one value of the type to the next.
Stepped(depth, k, d, old, new) ==
  \/ new = old
  \/ /\ old.err = "none" /\ old.val \in Values[k] /\ old.next \in 0 .. Len(d) - 1
     /\ new = Round(depth, k, d, old)

LEMMA TraceRound ==
  ASSUME NEW depth, NEW k \in DOMAIN Values, NEW m, NEW d \in Seq(Byte), NEW g,
         Trace(depth, k, m, d, g), NEW n \in Nat
  PROVE  Stepped(depth, k, d, g[n], g[n + 1])
<1>1. g[n] \in Reads(Values[k], 0, Len(d))
  BY DEF Trace
<1>2. g[n + 1] = IF g[n].err # "none" \/ g[n].next >= Len(d) THEN g[n] ELSE Round(depth, k, d, g[n])
  BY Zenon DEF Trace
<1>3. CASE g[n].err # "none" \/ g[n].next >= Len(d)
  BY <1>2, <1>3, Zenon DEF Stepped
<1>4. CASE ~ (g[n].err # "none" \/ g[n].next >= Len(d))
  <2>1. g[n + 1] = Round(depth, k, d, g[n]) /\ g[n].err = "none" /\ ~ (g[n].next >= Len(d))
    BY <1>2, <1>4, Zenon
  <2>2. g[n].val \in Values[k] /\ g[n].next \in 0 .. Len(d)
    BY <1>1, <2>1, ReadsIs
  <2>3. g[n].next \in 0 .. Len(d) - 1
    BY <2>1, <2>2
  <2> QED
    BY <2>1, <2>2, <2>3, Zenon DEF Stepped
<1> QED
  BY <1>3, <1>4

\* Types are nested three deep at most.
LEMMA DecodedIs ==
  ASSUME NEW k, NEW d
  PROVE  Decoded(k, d) = UnmarshalTo(3, k, Types[k].new, d)
  BY DEF Decoded, UnmarshalTo

\* Unknown, which TLC can evaluate, says that bytes are made of kept pieces.
LEMMA UnknownKept ==
  ASSUME NEW k \in DOMAIN Values, NEW x \in Seq(Byte), Unknown(k, x)
  PROVE  Unread(k, x)
<1> DEFINE new == Types[k].new
<1>1. SUFFICES ASSUME 2 * Len(x) < IntMod PROVE KeptBytes(k, x)
  BY DEF Unread
<1>2. new \in Values[k] /\ Len(x) \in Nat
  BY NewValues
<1>3. Traced(3, k, new, x)
  <2>1. 3 \in 0 .. 3 /\ 3 # 0
    OBVIOUS
  <2> HIDE DEF new
  <2> QED
    BY <1>1, <1>2, <2>1, UnmarshalReads, Zenon
<1>4. PICK g : Trace(3, k, new, x, g) /\ UnmarshalTo(3, k, new, x) = g[Len(x)]
  BY <1>3 DEF Traced
<1>5. g[Len(x)] = Ok([new EXCEPT !.XXX_unrecognized = x], Len(x))
  <2>1. Decoded(k, x) = Ok([new EXCEPT !.XXX_unrecognized = x], Len(x))
    BY Zenon DEF Unknown
  <2> HIDE DEF new
  <2> QED
    BY <1>4, <2>1, DecodedIs, Zenon DEF new
<1> DEFINE P == {n \in Nat : OnlyKept(k, g[n])}
<1>6. 0 \in P
  <2>1. g[0] = Ok(new, 0)
    BY <1>4 DEF Trace
  <2>2. g[0].val = new /\ g[0].next = 0
    BY <2>1, OkIs
  <2>3. new.XXX_unrecognized = <<>>
    BY KindNames DEF Types, SubOpts, Message, ControlIHave, ControlIWant, ControlGraft, ControlPrune,
                     ControlMessage, RPC, AuthOpts, EncOpts, TopicDescriptor
  <2>4. Len(<<>>) = 0 /\ KeptBytes(k, <<>>)
    BY KeptNone
  <2> HIDE DEF new
  <2>5. OnlyKept(k, g[0])
    BY <2>2, <2>3, <2>4 DEF OnlyKept
  <2> QED
    BY <2>5
<1>7. ASSUME NEW n \in Nat, n \in P PROVE n + 1 \in P
  <2>1. OnlyKept(k, g[n])
    BY <1>7
  <2>2. Stepped(3, k, x, g[n], g[n + 1])
    <3> HIDE DEF new
    <3> QED
      BY <1>4, TraceRound, Zenon
  <2> DEFINE r == g[n]
  <2>3. ASSUME r.err = "none", r.val \in Values[k], r.next \in 0 .. Len(x) - 1
        PROVE  OnlyKept(k, Round(3, k, x, r))
    BY <1>1, <2>1, <2>3, OnlyKeptStep
  <2>4. OnlyKept(k, g[n + 1])
    BY <2>1, <2>2, <2>3, Zenon DEF Stepped
  <2> QED
    BY <2>4
<1> HIDE DEF P
<1>8. \A n \in Nat : n \in P
  BY <1>6, <1>7, SetInduction, Zenon
<1>9. OnlyKept(k, g[Len(x)])
  BY <1>2, <1>8 DEF P
<1>10. g[Len(x)].err = "none" /\ g[Len(x)].val.XXX_unrecognized = x /\ g[Len(x)].next = Len(x)
  <2> DEFINE w == [new EXCEPT !.XXX_unrecognized = x]
  <2>1. w.XXX_unrecognized = x
    <3>1. "XXX_unrecognized" \in DOMAIN new
      BY <1>2, Structs
    <3> HIDE DEF new
    <3> QED
      BY <3>1
  <2> HIDE DEF w
  <2>2. g[Len(x)] = Ok(w, Len(x))
    BY <1>5 DEF w
  <2> QED
    BY <2>1, <2>2, OkIs
<1> QED
  BY <1>2, <1>9, <1>10 DEF OnlyKept

(***************************************************************************)
(* The values that are read as they are written.                           *)
(***************************************************************************)
\* A field whose messages are in S, and the structs of such fields whose unrecognized bytes
\* are fields that the type does not know.
FieldIn(S, f, val) ==
  /\ f.kind = "message" /\ val # Nil => val \in S[f.of]
  /\ f.kind = "messages" => \A n \in DOMAIN val : val[n] \in S[f.of]
SoundIn(S, k) ==
  {m \in Values[k] : /\ Unread(k, m.XXX_unrecognized)
                     /\ \A j \in DOMAIN Types[k].fields :
                          FieldIn(S, Types[k].fields[j], m[Types[k].fields[j].name])}
Deeper(S) == [k \in DOMAIN Values |-> SoundIn(S, k)]
NoneSound == [k \in DOMAIN Values |-> {}]
\* By how deep the messages in them are.
Sound(depth) == CASE depth = 0 -> NoneSound
                  [] depth = 1 -> Deeper(NoneSound)
                  [] depth = 2 -> Deeper(Deeper(NoneSound))
                  [] depth = 3 -> Deeper(Deeper(Deeper(NoneSound)))

\* Level by level.
LEMMA SoundIs ==
  ASSUME NEW depth \in 1 .. 3, NEW k \in DOMAIN Values
  PROVE  Sound(depth)[k] = SoundIn(Sound(depth - 1), k)
<1>1. Sound(depth) = Deeper(Sound(depth - 1))
  <2>1. CASE depth = 1
    BY <2>1 DEF Sound
  <2>2. CASE depth = 2
    BY <2>2 DEF Sound
  <2>3. CASE depth = 3
    BY <2>3 DEF Sound
  <2> QED
    BY <2>1, <2>2, <2>3
<1> QED
  BY <1>1, Zenon DEF Deeper

LEMMA SoundValues ==
  ASSUME NEW depth \in 0 .. 3, NEW k \in DOMAIN Values, NEW m \in Sound(depth)[k]
  PROVE  /\ m \in Values[k] /\ depth \in 1 .. 3 /\ Unread(k, m.XXX_unrecognized)
         /\ \A j \in DOMAIN Types[k].fields :
              FieldIn(Sound(depth - 1), Types[k].fields[j], m[Types[k].fields[j].name])
<1>1. depth # 0
  BY DEF Sound, NoneSound
<1>2. depth \in 1 .. 3
  BY <1>1
<1>3. m \in SoundIn(Sound(depth - 1), k)
  BY <1>2, SoundIs
<1> QED
  BY <1>2, <1>3, Zenon DEF SoundIn

LEMMA SoundMade ==
  ASSUME NEW depth \in 1 .. 3, NEW k \in DOMAIN Values, NEW m \in Values[k],
         Unread(k, m.XXX_unrecognized),
         \A j \in DOMAIN Types[k].fields :
           FieldIn(Sound(depth - 1), Types[k].fields[j], m[Types[k].fields[j].name])
  PROVE  m \in Sound(depth)[k]
<1>1. m \in SoundIn(Sound(depth - 1), k)
  BY Zenon DEF SoundIn
<1> QED
  BY <1>1, SoundIs

\* All of them are read as they were written.
LEMMA SoundTrips ==
  ASSUME NEW depth \in 0 .. 3
  PROVE  \A k \in DOMAIN Values : \A m \in Sound(depth)[k] : Trips(depth, k, m)
<1>1. ASSUME NEW n \in 0 .. 2,
             \A k \in DOMAIN Values : \A m \in Sound(n)[k] : Trips(n, k, m)
      PROVE  \A k \in DOMAIN Values : \A m \in Sound(n + 1)[k] : Trips(n + 1, k, m)
  <2> TAKE k \in DOMAIN Values
  <2> TAKE m \in Sound(n + 1)[k]
  <2> DEFINE above == n + 1
  <2>1. above \in 0 .. 3 /\ above \in 1 .. 3 /\ above - 1 = n
    OBVIOUS
  <2>2. m \in Sound(above)[k]
    OBVIOUS
  <2> HIDE DEF above
  <2>3. /\ m \in Values[k] /\ Unread(k, m.XXX_unrecognized)
        /\ \A j \in DOMAIN Types[k].fields :
             FieldIn(Sound(above - 1), Types[k].fields[j], m[Types[k].fields[j].name])
    BY <2>1, <2>2, SoundValues
  <2>4. ASSUME NEW j \in DOMAIN Types[k].fields
        PROVE  FieldTrips(above - 1, Types[k].fields[j], m[Types[k].fields[j].name])
    <3> DEFINE f == Types[k].fields[j]
               val == m[f.name]
    <3>1. FieldIn(Sound(n), f, val)
      BY <2>1, <2>3
    <3>2. f.kind \in {"message", "messages"} => f.of \in DOMAIN Values
      BY <2>3, StructWith
    <3> HIDE DEF f, val
    <3>3. FieldTrips(n, f, val)
      BY <1>1, <3>1, <3>2 DEF FieldIn, FieldTrips
    <3> QED
      BY <2>1, <3>3 DEF f, val
  <2>5. AllTrip(above - 1, k, m)
    BY <2>4, Zenon DEF AllTrip
  <2>6. Trips(above, k, m)
    BY <2>1, <2>3, <2>5, TripsAll
  <2> QED
    BY <2>6 DEF above
<1>2. \A k \in DOMAIN Values : \A m \in Sound(0)[k] : Trips(0, k, m)
  BY DEF Sound, NoneSound
<1>3. \A k \in DOMAIN Values : \A m \in Sound(1)[k] : Trips(1, k, m)
  <2>1. 0 \in 0 .. 2 /\ 0 + 1 = 1
    OBVIOUS
  <2> QED
    BY <1>1, <1>2, <2>1
<1>4. \A k \in DOMAIN Values : \A m \in Sound(2)[k] : Trips(2, k, m)
  <2>1. 1 \in 0 .. 2 /\ 1 + 1 = 2
    OBVIOUS
  <2> QED
    BY <1>1, <1>3, <2>1
<1>5. \A k \in DOMAIN Values : \A m \in Sound(3)[k] : Trips(3, k, m)
  <2>1. 2 \in 0 .. 2 /\ 2 + 1 = 3
    OBVIOUS
  <2> QED
    BY <1>1, <1>4, <2>1
<1> QED
  BY <1>2, <1>3, <1>4, <1>5

\* A struct as it is made is one of them.
LEMMA NewSound ==
  ASSUME NEW depth \in 1 .. 3, NEW k \in DOMAIN Values
  PROVE  Types[k].new \in Sound(depth)[k]
<1> DEFINE new == Types[k].new
<1>1. new \in Values[k]
  BY NewValues
<1>2. Unread(k, new.XXX_unrecognized)
  <2>1. new.XXX_unrecognized = <<>>
    BY KindNames DEF Types, SubOpts, Message, ControlIHave, ControlIWant, ControlGraft, ControlPrune,
                     ControlMessage, RPC, AuthOpts, EncOpts, TopicDescriptor
  <2> HIDE DEF new
  <2> QED
    BY <2>1, KeptNone DEF Unread
<1>3. ASSUME NEW j \in DOMAIN Types[k].fields
      PROVE  FieldIn(Sound(depth - 1), Types[k].fields[j], new[Types[k].fields[j].name])
  <2> DEFINE f == Types[k].fields[j]
  <2>1. new[f.name] = Empty(f)
    BY <1>1, StructWith
  <2> HIDE DEF f, new
  <2>2. FieldIn(Sound(depth - 1), f, new[f.name])
    BY <2>1 DEF FieldIn, Empty
  <2> QED
    BY <2>2 DEF f
<1> HIDE DEF new
<1>4. new \in Sound(depth)[k]
  BY <1>1, <1>2, <1>3, SoundMade
<1> QED
  BY <1>4 DEF new

\* What Kept asks for, which TLC can evaluate, is what the proofs need.
LEMMA KeptUnread ==
  ASSUME NEW k \in DOMAIN Values, NEW m \in Values[k], Kept(k, m)
  PROVE  Unread(k, m.XXX_unrecognized)
<1>1. m.XXX_unrecognized \in Seq(Byte)
  BY Structs
<1>2. Unknown(k, m.XXX_unrecognized)
  BY Zenon DEF Kept
<1> QED
  BY <1>1, <1>2, UnknownKept

\* Types without messages have nothing but their own unknown bytes to be sound in.
LEMMA FlatSound ==
  ASSUME NEW depth \in 1 .. 3, NEW k \in FlatKinds, NEW m \in Values[k], Kept(k, m)
  PROVE  k \in DOMAIN Values /\ m \in Sound(depth)[k]
<1>1. k \in DOMAIN Values
  BY KindNames DEF FlatKinds
<1>2. ASSUME NEW j \in DOMAIN Types[k].fields
      PROVE  FieldIn(Sound(depth - 1), Types[k].fields[j], m[Types[k].fields[j].name])
  BY FlatFields, Zenon DEF FieldIn
<1>3. Unread(k, m.XXX_unrecognized)
  BY <1>1, KeptUnread
<1>4. m \in Sound(depth)[k]
  BY <1>1, <1>2, <1>3, SoundMade
<1> QED
  BY <1>1, <1>4

\* A control message of sound lists is sound,
LEMMA SoundControl ==
  ASSUME NEW depth \in 2 .. 3, NEW m \in ControlValues, ControlKept(m)
  PROVE  m \in Sound(depth)["Control"]
<1> DEFINE below == depth - 1
<1>0. below \in 1 .. 3 /\ depth \in 1 .. 3 /\ below = depth - 1
  OBVIOUS
<1>k. /\ "Control" \in DOMAIN Values
      /\ Values["Control"] = ControlValues
      /\ Types["Control"].fields = ControlFields
  BY DEF Values, Types
<1>u. Unread("Control", m.XXX_unrecognized)
  <2>1. Kept("Control", m)
    BY DEF ControlKept
  <2> QED
    BY <1>k, <2>1, KeptUnread
<1> HIDE DEF below
<1>1. FieldIn(Sound(below), ControlFields[1], m["Ihave"]) /\ ControlFields[1].name = "Ihave"
  <2> DEFINE f == ControlFields[1]
             val == m["Ihave"]
  <2>1. f.kind = "messages" /\ f.of = "IHave" /\ f.name = "Ihave"
    BY DEF ControlFields, FieldOf
  <2>2. val \in Seq(IHaveValues)
    BY DEF ControlValues
  <2>3. Values["IHave"] = IHaveValues
    BY DEF Values
  <2>4. ASSUME NEW n \in DOMAIN val PROVE val[n] \in Sound(below)["IHave"]
    <3>1. val[n] \in IHaveValues
      BY <2>2
    <3>2. Kept("IHave", val[n])
      BY DEF ControlKept, AllKept
    <3>3. "IHave" \in FlatKinds
      BY DEF FlatKinds
    <3> HIDE DEF val
    <3> QED
      BY <1>0, <2>3, <3>1, <3>2, <3>3, FlatSound
  <2> HIDE DEF f, val
  <2>5. FieldIn(Sound(below), f, val)
    BY <2>1, <2>4 DEF FieldIn
  <2> QED
    BY <2>1, <2>5 DEF f, val
<1>2. FieldIn(Sound(below), ControlFields[2], m["Iwant"]) /\ ControlFields[2].name = "Iwant"
  <2> DEFINE f == ControlFields[2]
             val == m["Iwant"]
  <2>1. f.kind = "messages" /\ f.of = "IWant" /\ f.name = "Iwant"
    BY DEF ControlFields, FieldOf
  <2>2. val \in Seq(IWantValues)
    BY DEF ControlValues
  <2>3. Values["IWant"] = IWantValues
    BY DEF Values
  <2>4. ASSUME NEW n \in DOMAIN val PROVE val[n] \in Sound(below)["IWant"]
    <3>1. val[n] \in IWantValues
      BY <2>2
    <3>2. Kept("IWant", val[n])
      BY DEF ControlKept, AllKept
    <3>3. "IWant" \in FlatKinds
      BY DEF FlatKinds
    <3> HIDE DEF val
    <3> QED
      BY <1>0, <2>3, <3>1, <3>2, <3>3, FlatSound
  <2> HIDE DEF f, val
  <2>5. FieldIn(Sound(below), f, val)
    BY <2>1, <2>4 DEF FieldIn
  <2> QED
    BY <2>1, <2>5 DEF f, val
<1>3. FieldIn(Sound(below), ControlFields[3], m["Graft"]) /\ ControlFields[3].name = "Graft"
  <2> DEFINE f == ControlFields[3]
             val == m["Graft"]
  <2>1. f.kind = "messages" /\ f.of = "Graft" /\ f.name = "Graft"
    BY DEF ControlFields, FieldOf
  <2>2. val \in Seq(GraftValues)
    BY DEF ControlValues
  <2>3. Values["Graft"] = GraftValues
    BY DEF Values
  <2>4. ASSUME NEW n \in DOMAIN val PROVE val[n] \in Sound(below)["Graft"]
    <3>1. val[n] \in GraftValues
      BY <2>2
    <3>2. Kept("Graft", val[n])
      BY DEF ControlKept, AllKept
    <3>3. "Graft" \in FlatKinds
      BY DEF FlatKinds
    <3> HIDE DEF val
    <3> QED
      BY <1>0, <2>3, <3>1, <3>2, <3>3, FlatSound
  <2> HIDE DEF f, val
  <2>5. FieldIn(Sound(below), f, val)
    BY <2>1, <2>4 DEF FieldIn
  <2> QED
    BY <2>1, <2>5 DEF f, val
<1>4. FieldIn(Sound(below), ControlFields[4], m["Prune"]) /\ ControlFields[4].name = "Prune"
  <2> DEFINE f == ControlFields[4]
             val == m["Prune"]
  <2>1. f.kind = "messages" /\ f.of = "Prune" /\ f.name = "Prune"
    BY DEF ControlFields, FieldOf
  <2>2. val \in Seq(PruneValues)
    BY DEF ControlValues
  <2>3. Values["Prune"] = PruneValues
    BY DEF Values
  <2>4. ASSUME NEW n \in DOMAIN val PROVE val[n] \in Sound(below)["Prune"]
    <3>1. val[n] \in PruneValues
      BY <2>2
    <3>2. Kept("Prune", val[n])
      BY DEF ControlKept, AllKept
    <3>3. "Prune" \in FlatKinds
      BY DEF FlatKinds
    <3> HIDE DEF val
    <3> QED
      BY <1>0, <2>3, <3>1, <3>2, <3>3, FlatSound
  <2> HIDE DEF f, val
  <2>5. FieldIn(Sound(below), f, val)
    BY <2>1, <2>4 DEF FieldIn
  <2> QED
    BY <2>1, <2>5 DEF f, val
<1>d. DOMAIN ControlFields = 1 .. 4
  BY DEF ControlFields
<1>f. ASSUME NEW j \in DOMAIN Types["Control"].fields
      PROVE  FieldIn(Sound(depth - 1), Types["Control"].fields[j], m[Types["Control"].fields[j].name])
  <2>1. j \in 1 .. 4
    BY <1>k, <1>d
  <2>2. FieldIn(Sound(below), ControlFields[j], m[ControlFields[j].name])
    BY <2>1, <1>1, <1>2, <1>3, <1>4
  <2> QED
    BY <1>0, <1>k, <2>2
<1> QED
  BY <1>0, <1>k, <1>u, <1>f, SoundMade

\* and an RPC of sound messages,
LEMMA SoundRPC ==
  ASSUME NEW m \in RPCValues, RPCKept(m)
  PROVE  m \in Sound(3)["RPC"]
<1> DEFINE below == 2
<1>0. below \in 1 .. 3 /\ 3 \in 1 .. 3 /\ below = 3 - 1
  OBVIOUS
<1>k. "RPC" \in DOMAIN Values /\ Values["RPC"] = RPCValues /\ Types["RPC"].fields = RPCFields
  BY DEF Values, Types
<1>u. Unread("RPC", m.XXX_unrecognized)
  <2>1. Kept("RPC", m)
    BY DEF RPCKept
  <2> QED
    BY <1>k, <2>1, KeptUnread
<1> HIDE DEF below
<1>1. FieldIn(Sound(below), RPCFields[1], m["Subscriptions"]) /\ RPCFields[1].name = "Subscriptions"
  <2> DEFINE f == RPCFields[1]
             val == m["Subscriptions"]
  <2>1. f.kind = "messages" /\ f.of = "SubOpts" /\ f.name = "Subscriptions"
    BY DEF RPCFields, FieldOf
  <2>2. val \in Seq(SubOptsValues)
    BY DEF RPCValues
  <2>3. Values["SubOpts"] = SubOptsValues
    BY DEF Values
  <2>4. ASSUME NEW n \in DOMAIN val PROVE val[n] \in Sound(below)["SubOpts"]
    <3>1. val[n] \in SubOptsValues
      BY <2>2
    <3>2. Kept("SubOpts", val[n])
      BY DEF RPCKept, AllKept
    <3>3. "SubOpts" \in FlatKinds
      BY DEF FlatKinds
    <3> HIDE DEF val
    <3> QED
      BY <1>0, <2>3, <3>1, <3>2, <3>3, FlatSound
  <2> HIDE DEF f, val
  <2>5. FieldIn(Sound(below), f, val)
    BY <2>1, <2>4 DEF FieldIn
  <2> QED
    BY <2>1, <2>5 DEF f, val
<1>2. FieldIn(Sound(below), RPCFields[2], m["Publish"]) /\ RPCFields[2].name = "Publish"
  <2> DEFINE f == RPCFields[2]
             val == m["Publish"]
  <2>1. f.kind = "messages" /\ f.of = "Message" /\ f.name = "Publish"
    BY DEF RPCFields, FieldOf
  <2>2. val \in Seq(MessageValues)
    BY DEF RPCValues
  <2>3. Values["Message"] = MessageValues
    BY DEF Values
  <2>4. ASSUME NEW n \in DOMAIN val PROVE val[n] \in Sound(below)["Message"]
    <3>1. val[n] \in MessageValues
      BY <2>2
    <3>2. Kept("Message", val[n])
      BY DEF RPCKept, AllKept
    <3>3. "Message" \in FlatKinds
      BY DEF FlatKinds
    <3> HIDE DEF val
    <3> QED
      BY <1>0, <2>3, <3>1, <3>2, <3>3, FlatSound
  <2> HIDE DEF f, val
  <2>5. FieldIn(Sound(below), f, val)
    BY <2>1, <2>4 DEF FieldIn
  <2> QED
    BY <2>1, <2>5 DEF f, val
<1>3. FieldIn(Sound(below), RPCFields[3], m["Control"]) /\ RPCFields[3].name = "Control"
  <2> DEFINE f == RPCFields[3]
             val == m["Control"]
  <2>1. f.kind = "message" /\ f.of = "Control" /\ f.name = "Control"
    BY DEF RPCFields, FieldOf
  <2>2. val \in ControlValues \cup {Nil}
    BY DEF RPCValues
  <2>3. Values["Control"] = ControlValues
    BY DEF Values
  <2>4. ASSUME val # Nil PROVE val \in Sound(below)["Control"]
    <3>1. val \in ControlValues
      BY <2>2, <2>4
    <3>2. ControlKept(val)
      BY <2>4 DEF RPCKept
    <3>3. below \in 2 .. 3
      BY DEF below
    <3> HIDE DEF val
    <3> QED
      BY <3>1, <3>2, <3>3, SoundControl
  <2> HIDE DEF f, val
  <2>5. FieldIn(Sound(below), f, val)
    BY <2>1, <2>4 DEF FieldIn
  <2> QED
    BY <2>1, <2>5 DEF f, val
<1>d. DOMAIN RPCFields = 1 .. 3
  BY DEF RPCFields
<1>f. ASSUME NEW j \in DOMAIN Types["RPC"].fields
      PROVE  FieldIn(Sound(3 - 1), Types["RPC"].fields[j], m[Types["RPC"].fields[j].name])
  <2>1. j \in 1 .. 3
    BY <1>k, <1>d
  <2>2. FieldIn(Sound(below), RPCFields[j], m[RPCFields[j].name])
    BY <2>1, <1>1, <1>2, <1>3
  <2> QED
    BY <1>0, <1>k, <2>2
<1> QED
  BY <1>0, <1>k, <1>u, <1>f, SoundMade

\* and a descriptor of sound options.
LEMMA SoundTopicDescriptor ==
  ASSUME NEW m \in TopicDescriptorValues, TopicDescriptorKept(m)
  PROVE  m \in Sound(3)["TopicDescriptor"]
<1> DEFINE below == 2
<1>0. below \in 1 .. 3 /\ 3 \in 1 .. 3 /\ below = 3 - 1
  OBVIOUS
<1>k. /\ "TopicDescriptor" \in DOMAIN Values
      /\ Values["TopicDescriptor"] = TopicDescriptorValues
      /\ Types["TopicDescriptor"].fields = TopicDescriptorFields
  BY DEF Values, Types
<1>u. Unread("TopicDescriptor", m.XXX_unrecognized)
  <2>1. Kept("TopicDescriptor", m)
    BY DEF TopicDescriptorKept
  <2> QED
    BY <1>k, <2>1, KeptUnread
<1> HIDE DEF below
<1>1. /\ FieldIn(Sound(below), TopicDescriptorFields[1], m["Name"])
      /\ TopicDescriptorFields[1].name = "Name"
  BY DEF FieldIn, TopicDescriptorFields, Field
<1>2. /\ FieldIn(Sound(below), TopicDescriptorFields[2], m["Auth"])
      /\ TopicDescriptorFields[2].name = "Auth"
  <2> DEFINE f == TopicDescriptorFields[2]
             val == m["Auth"]
  <2>1. f.kind = "message" /\ f.of = "Auth" /\ f.name = "Auth"
    BY DEF TopicDescriptorFields, FieldOf
  <2>2. val \in AuthValues \cup {Nil}
    BY DEF TopicDescriptorValues
  <2>3. Values["Auth"] = AuthValues
    BY DEF Values
  <2>4. ASSUME val # Nil PROVE val \in Sound(below)["Auth"]
    <3>1. val \in AuthValues
      BY <2>2, <2>4
    <3>2. Kept("Auth", val)
      BY <2>4 DEF TopicDescriptorKept
    <3>3. "Auth" \in FlatKinds
      BY DEF FlatKinds
    <3> HIDE DEF val
    <3> QED
      BY <1>0, <2>3, <3>1, <3>2, <3>3, FlatSound
  <2> HIDE DEF f, val
  <2>5. FieldIn(Sound(below), f, val)
    BY <2>1, <2>4 DEF FieldIn
  <2> QED
    BY <2>1, <2>5 DEF f, val
<1>3. FieldIn(Sound(below), TopicDescriptorFields[3], m["Enc"]) /\ TopicDescriptorFields[3].name = "Enc"
  <2> DEFINE f == TopicDescriptorFields[3]
             val == m["Enc"]
  <2>1. f.kind = "message" /\ f.of = "Enc" /\ f.name = "Enc"
    BY DEF TopicDescriptorFields, FieldOf
  <2>2. val \in EncValues \cup {Nil}
    BY DEF TopicDescriptorValues
  <2>3. Values["Enc"] = EncValues
    BY DEF Values
  <2>4. ASSUME val # Nil PROVE val \in Sound(below)["Enc"]
    <3>1. val \in EncValues
      BY <2>2, <2>4
    <3>2. Kept("Enc", val)
      BY <2>4 DEF TopicDescriptorKept
    <3>3. "Enc" \in FlatKinds
      BY DEF FlatKinds
    <3> HIDE DEF val
    <3> QED
      BY <1>0, <2>3, <3>1, <3>2, <3>3, FlatSound
  <2> HIDE DEF f, val
  <2>5. FieldIn(Sound(below), f, val)
    BY <2>1, <2>4 DEF FieldIn
  <2> QED
    BY <2>1, <2>5 DEF f, val
<1>d. DOMAIN TopicDescriptorFields = 1 .. 3
  BY DEF TopicDescriptorFields
<1>f. ASSUME NEW j \in DOMAIN Types["TopicDescriptor"].fields
      PROVE  FieldIn(Sound(3 - 1), Types["TopicDescriptor"].fields[j], m[Types["TopicDescriptor"].fields[j].name])
  <2>1. j \in 1 .. 3
    BY <1>k, <1>d
  <2>2. FieldIn(Sound(below), TopicDescriptorFields[j], m[TopicDescriptorFields[j].name])
    BY <2>1, <1>1, <1>2, <1>3
  <2> QED
    BY <1>0, <1>k, <2>2
<1> QED
  BY <1>0, <1>k, <1>u, <1>f, SoundMade

\* What Send may send is sound.
LEMMA GenuineSound ==
  ASSUME NEW k \in DOMAIN Values, NEW m \in Values[k], Genuine(k, m)
  PROVE  m \in Sound(3)[k]
<1>1. CASE k = "Control"
  <2>1. ControlKept(m) /\ m \in ControlValues /\ 3 \in 2 .. 3
    BY <1>1 DEF Genuine, Values
  <2> QED
    BY <1>1, <2>1, SoundControl
<1>2. CASE k = "RPC"
  <2>1. RPCKept(m) /\ m \in RPCValues
    BY <1>2 DEF Genuine, Values
  <2> QED
    BY <1>2, <2>1, SoundRPC
<1>3. CASE k = "TopicDescriptor"
  <2>1. TopicDescriptorKept(m) /\ m \in TopicDescriptorValues
    BY <1>3 DEF Genuine, Values
  <2> QED
    BY <1>3, <2>1, SoundTopicDescriptor
<1>4. CASE k \in FlatKinds
  <2>1. Kept(k, m)
    BY <1>4 DEF Genuine, FlatKinds
  <2>2. 3 \in 1 .. 3
    OBVIOUS
  <2> QED
    BY <1>4, <2>1, <2>2, FlatSound
<1> QED
  BY <1>1, <1>2, <1>3, <1>4, KindNames DEF FlatKinds

(***************************************************************************)
(* How much longer a value gets with what is read for it.                  *)
(***************************************************************************)
\* One part more.
LEMMA PartSizesAppend ==
  ASSUME NEW lens \in Seq(Nat), NEW l \in Nat
  PROVE  PartSizes(Append(lens, l)) = PartSizes(lens) + PartSize(l) /\ PartSizes(lens) \in Nat
<1> DEFINE more == Append(lens, l)
           N == Len(lens)
<1>1. /\ more \in Seq(Nat) /\ Len(more) = N + 1 /\ N \in Nat /\ more[N + 1] = l
      /\ \A n \in 1 .. N : more[n] = lens[n]
  OBVIOUS
<1>2. PICK u \in [0 .. N -> Nat] :
        /\ u[0] = 0 /\ \A n \in 1 .. N : u[n] = u[n - 1] + PartSize(lens[n])
        /\ PartSizes(lens) = u[N]
  BY PartSizesSum
<1> HIDE DEF more
<1>3. PICK w \in [0 .. N + 1 -> Nat] :
        /\ w[0] = 0 /\ \A n \in 1 .. N + 1 : w[n] = w[n - 1] + PartSize(more[n])
        /\ PartSizes(more) = w[N + 1]
  <2>1. \E w \in [0 .. Len(more) -> Nat] :
          /\ w[0] = 0 /\ \A n \in 1 .. Len(more) : w[n] = w[n - 1] + PartSize(more[n])
          /\ PartSizes(more) = w[Len(more)]
    BY <1>1, PartSizesSum
  <2> QED
    BY <1>1, <2>1
<1> DEFINE P == {n \in 0 .. N : w[n] = u[n]}
<1>4. 0 \in P
  BY <1>1, <1>2, <1>3
<1>5. ASSUME NEW n \in 0 + 1 .. N, n - 1 \in P PROVE n \in P
  <2>1. n \in 1 .. N /\ n \in 1 .. N + 1 /\ n \in 0 .. N
    BY <1>1
  <2>2. u[n] = u[n - 1] + PartSize(lens[n]) /\ w[n] = w[n - 1] + PartSize(more[n])
    BY <1>2, <1>3, <2>1, Zenon
  <2>3. w[n - 1] = u[n - 1] /\ more[n] = lens[n]
    BY <1>1, <1>5, <2>1, Zenon
  <2> QED
    BY <2>1, <2>2, <2>3, Zenon
<1> HIDE DEF P
<1>6. \A n \in 0 .. N : n \in P
  BY <1>1, <1>4, <1>5, ChainInduction
<1>7. w[N] = u[N]
  <2>1. N \in 0 .. N
    BY <1>1
  <2> QED
    BY <1>6, <2>1, Zenon DEF P
<1>8. w[N + 1] = w[N] + PartSize(more[N + 1])
  <2> DEFINE last == N + 1
  <2>1. last \in 1 .. N + 1 /\ last - 1 = N
    BY <1>1
  <2> HIDE DEF last
  <2>2. w[last] = w[last - 1] + PartSize(more[last])
    BY <1>3, <2>1, Zenon
  <2> QED
    BY <2>1, <2>2 DEF last
<1>9. u[N] \in Nat
  BY <1>1, <1>2
<1> QED
  BY <1>1, <1>2, <1>3, <1>7, <1>8, <1>9, Zenon DEF more

\* The size of a struct w that has val where v has another value in the field f.
Exchanged(k, v, w, f, val) ==
  /\ Size(k, w) + FieldSize(f, v[f.name]) = Size(k, v) + FieldSize(f, val)
  /\ FieldSize(f, v[f.name]) \in Nat /\ FieldSize(f, val) \in Nat
  /\ FieldSize(f, v[f.name]) <= Size(k, v)
  /\ Size(k, v) \in Nat /\ Size(k, w) \in Nat

\* Size, with one field set anew.
LEMMA SizeWith ==
  ASSUME NEW k \in DOMAIN Values, NEW v \in Values[k], NEW j \in DOMAIN Types[k].fields,
         NEW f, f = Types[k].fields[j], NEW val, Typed(f, val), NEW w, w = With(v, f.name, val)
  PROVE  Exchanged(k, v, w, f, val)
<1>1. /\ v = [x \in DOMAIN v |-> v[x]] /\ f.name \in DOMAIN v /\ j \in 1 .. 6
      /\ f.name # "XXX_unrecognized" /\ w \in Values[k]
  <2>1. /\ v = [x \in DOMAIN v |-> v[x]] /\ f.name \in DOMAIN v /\ j \in 1 .. 6
        /\ f.name # "XXX_unrecognized"
    BY StructWith
  <2>2. \A x : Typed(f, x) => With(v, f.name, x) \in Values[k]
    BY StructWith
  <2> QED
    BY <2>1, <2>2, Zenon
<1>2. /\ w[f.name] = val
      /\ \A other \in DOMAIN v \ {f.name} : w[other] = v[other]
  BY <1>1, WithIs
<1>3. w.XXX_unrecognized = v.XXX_unrecognized
  <2>1. "XXX_unrecognized" \in DOMAIN v
    BY Structs
  <2> QED
    BY <1>1, <1>2, <2>1, Zenon
<1>4. ASSUME NEW i \in 1 .. 6, i # j PROVE SizeOf(k, w, i) = SizeOf(k, v, i)
  <2>1. CASE i \in DOMAIN Types[k].fields
    <3> DEFINE other == Types[k].fields[i].name
    <3>1. other \in DOMAIN v
      BY <2>1, StructWith
    <3>2. other # f.name
      BY <1>4, <2>1, NamesDiffer
    <3>3. w[other] = v[other]
      BY <1>2, <3>1, <3>2, Zenon
    <3> QED
      BY <2>1, <3>3, Zenon DEF SizeOf
  <2>2. CASE i \notin DOMAIN Types[k].fields
    BY <2>2, Zenon DEF SizeOf
  <2> QED
    BY <2>1, <2>2
<1>5. SizeOf(k, w, j) = FieldSize(f, val) /\ SizeOf(k, v, j) = FieldSize(f, v[f.name])
  BY <1>2, Zenon DEF SizeOf
<1>6. Summed(k, v) /\ Summed(k, w)
  BY <1>1, SizeSummed
<1>7. v.XXX_unrecognized \in Seq(Byte)
  BY Structs
<1> DEFINE n == Len(v.XXX_unrecognized)
           a(i) == SizeOf(k, v, i)
           b(i) == SizeOf(k, w, i)
<1>8. n \in Nat
  BY <1>7
<1>9. /\ a(1) \in Nat /\ a(2) \in Nat /\ a(3) \in Nat /\ a(4) \in Nat /\ a(5) \in Nat /\ a(6) \in Nat
      /\ b(1) \in Nat /\ b(2) \in Nat /\ b(3) \in Nat /\ b(4) \in Nat /\ b(5) \in Nat /\ b(6) \in Nat
  BY <1>6 DEF Summed
<1>10. /\ Size(k, v) = a(1) + a(2) + a(3) + a(4) + a(5) + a(6) + n
       /\ Size(k, w) = b(1) + b(2) + b(3) + b(4) + b(5) + b(6) + n
  BY <1>3, <1>6, Zenon DEF Summed
<1>11. \A i \in 1 .. 6 : i # j => b(i) = a(i)
  BY <1>4
<1> HIDE DEF n, a, b
<1>12. /\ Size(k, w) + a(j) = Size(k, v) + b(j) /\ a(j) \in Nat /\ b(j) \in Nat /\ a(j) <= Size(k, v)
       /\ Size(k, v) \in Nat /\ Size(k, w) \in Nat
  <2>1. CASE j = 1
    BY <1>8, <1>9, <1>10, <1>11, <2>1
  <2>2. CASE j = 2
    BY <1>8, <1>9, <1>10, <1>11, <2>2
  <2>3. CASE j = 3
    BY <1>8, <1>9, <1>10, <1>11, <2>3
  <2>4. CASE j = 4
    BY <1>8, <1>9, <1>10, <1>11, <2>4
  <2>5. CASE j = 5
    BY <1>8, <1>9, <1>10, <1>11, <2>5
  <2>6. CASE j = 6
    BY <1>8, <1>9, <1>10, <1>11, <2>6
  <2> QED
    BY <1>1, <2>1, <2>2, <2>3, <2>4, <2>5, <2>6
<1> QED
  BY <1>5, <1>12, Zenon DEF a, b, Exchanged

\* A struct that keeps more.
LEMMA SizeKept ==
  ASSUME NEW k \in DOMAIN Values, NEW v \in Values[k], NEW y \in Seq(Byte)
  PROVE  /\ Size(k, Keeping(v, y)) = Size(k, v) + Len(y) /\ Size(k, v) \in Nat
         /\ \A j \in DOMAIN Types[k].fields :
              Keeping(v, y)[Types[k].fields[j].name] = v[Types[k].fields[j].name]
<1> DEFINE w == Keeping(v, y)
<1>1. /\ w \in Values[k]
      /\ w.XXX_unrecognized = v.XXX_unrecognized \o y
      /\ v.XXX_unrecognized \in Seq(Byte)
  BY KeptMore, Structs
<1>2. \A j \in DOMAIN Types[k].fields : w[Types[k].fields[j].name] = v[Types[k].fields[j].name]
  <2> TAKE j \in DOMAIN Types[k].fields
  <2> DEFINE name == Types[k].fields[j].name
  <2>1. name \in DOMAIN v /\ name # "XXX_unrecognized"
    BY StructWith
  <2> HIDE DEF name
  <2>2. w[name] = v[name]
    BY <2>1 DEF Keeping
  <2> QED
    BY <2>2 DEF name
<1> HIDE DEF w
<1>3. \A i \in 1 .. 6 : SizeOf(k, w, i) = SizeOf(k, v, i)
  BY <1>2, Zenon DEF SizeOf
<1>4. Summed(k, v) /\ Summed(k, w)
  BY <1>1, SizeSummed
<1>5. /\ Len(v.XXX_unrecognized \o y) = Len(v.XXX_unrecognized) + Len(y)
      /\ Len(v.XXX_unrecognized) \in Nat /\ Len(y) \in Nat
  BY <1>1
<1> DEFINE n == Len(v.XXX_unrecognized)
           l == Len(y)
           a(i) == SizeOf(k, v, i)
<1>9. a(1) \in Nat /\ a(2) \in Nat /\ a(3) \in Nat /\ a(4) \in Nat /\ a(5) \in Nat /\ a(6) \in Nat
  BY <1>4 DEF Summed
<1>10. /\ Size(k, v) = a(1) + a(2) + a(3) + a(4) + a(5) + a(6) + n
       /\ Size(k, w) = a(1) + a(2) + a(3) + a(4) + a(5) + a(6) + (n + l)
  BY <1>1, <1>3, <1>4, <1>5 DEF Summed
<1>0. n \in Nat /\ l \in Nat
  BY <1>5
<1> HIDE DEF n, l, a
<1> DEFINE total == a(1) + a(2) + a(3) + a(4) + a(5) + a(6)
<1>t. total \in Nat
  <2>0. \A p, q \in Nat : p + q \in Nat
    OBVIOUS
  <2>1. a(1) + a(2) \in Nat
    BY <1>9, <2>0, Zenon
  <2>2. a(1) + a(2) + a(3) \in Nat
    BY <1>9, <2>0, <2>1, Zenon
  <2>3. a(1) + a(2) + a(3) + a(4) \in Nat
    BY <1>9, <2>0, <2>2, Zenon
  <2>4. a(1) + a(2) + a(3) + a(4) + a(5) \in Nat
    BY <1>9, <2>0, <2>3, Zenon
  <2> QED
    BY <1>9, <2>0, <2>4, Zenon
<1>u. Size(k, v) = total + n /\ Size(k, w) = total + (n + l)
  BY <1>10
<1> HIDE DEF total
<1>11. Size(k, w) = Size(k, v) + l /\ Size(k, v) \in Nat
  BY <1>0, <1>t, <1>u
<1> QED
  BY <1>2, <1>11 DEF w, l

\* A struct as it is made takes no bytes.
LEMMA EmptySize == \A f : f.kind \in FieldKinds => FieldSize(f, Empty(f)) = 0
<1> SUFFICES ASSUME NEW f, f.kind \in FieldKinds PROVE FieldSize(f, Empty(f)) = 0
  OBVIOUS
<1>1. PartSizes(<<>>) = 0
  <2>1. <<>> \in Seq(Nat) /\ Len(<<>>) = 0
    OBVIOUS
  <2>2. PICK u : u[0] = 0 /\ PartSizes(<<>>) = u[Len(<<>>)]
    BY <2>1, PartSizesSum
  <2> QED
    BY <2>1, <2>2
<1>2. CASE f.kind = "strings"
  <2>1. Empty(f) = <<>> /\ [n \in DOMAIN <<>> |-> Len(<<>>[n])] = <<>>
    BY <1>2 DEF Empty
  <2> QED
    BY <1>1, <1>2, <2>1 DEF FieldSize
<1>3. CASE f.kind = "messages"
  <2>1. Empty(f) = <<>> /\ [n \in DOMAIN <<>> |-> Size(f.of, <<>>[n])] = <<>>
    BY <1>3 DEF Empty
  <2> QED
    BY <1>1, <1>3, <2>1 DEF FieldSize
<1>4. CASE f.kind \in {"bytes", "string"}
  BY <1>4 DEF FieldSize, Empty, BytesSize
<1>5. CASE f.kind \in {"bool", "enum", "message"}
  BY <1>5 DEF FieldSize, Empty, EnumSize
<1> QED
  BY <1>2, <1>3, <1>4, <1>5 DEF FieldKinds

\* What is made by new has no bytes.
LEMMA NewSize == \A k \in DOMAIN Values : Size(k, Types[k].new) = 0
<1> SUFFICES ASSUME NEW k \in DOMAIN Values PROVE Size(k, Types[k].new) = 0
  OBVIOUS
<1> DEFINE new == Types[k].new
<1>1. new \in Values[k]
  BY NewValues
<1>2. new.XXX_unrecognized = <<>>
  BY KindNames DEF Types, SubOpts, Message, ControlIHave, ControlIWant, ControlGraft, ControlPrune,
                   ControlMessage, RPC, AuthOpts, EncOpts, TopicDescriptor
<1>3. ASSUME NEW j \in 1 .. 6 PROVE SizeOf(k, new, j) = 0
  <2>1. CASE j \in DOMAIN Types[k].fields
    <3> DEFINE f == Types[k].fields[j]
    <3>1. new[f.name] = Empty(f) /\ f.kind \in FieldKinds
      BY <1>1, <2>1, StructWith
    <3> HIDE DEF f, new
    <3>2. FieldSize(f, new[f.name]) = 0
      BY <3>1, EmptySize
    <3> QED
      BY <2>1, <3>2 DEF SizeOf, f
  <2>2. CASE j \notin DOMAIN Types[k].fields
    BY <2>2 DEF SizeOf
  <2> QED
    BY <2>1, <2>2
<1> HIDE DEF new
<1>4. Summed(k, new)
  BY <1>1, SizeSummed
<1>5. Len(<<>>) = 0
  OBVIOUS
<1>6. Size(k, new) = 0 + 0 + 0 + 0 + 0 + 0 + 0
  BY <1>2, <1>3, <1>4, <1>5 DEF Summed
<1> QED
  BY <1>6 DEF new

\* What is written for n bytes that were read, at most.
Cost(n) == (MaxVarint + 1) * n

\* The bytes that are allowed for so many bytes read.
LEMMA CostIs ==
  /\ \A n \in Nat : Cost(n) \in Nat /\ 2 * n <= Cost(n) /\ n <= Cost(n)
  /\ \A a \in Nat : \A b \in Nat : Cost(a + b) = Cost(a) + Cost(b)
  /\ Cost(0) = 0 /\ Cost(1) = MaxVarint + 1
<1> DEFINE c == MaxVarint + 1
<1>1. c \in Nat /\ c >= 2
  BY Least
<1>2. \A n : Cost(n) = c * n
  BY DEF Cost
<1> HIDE DEF c
<1>3. \A n \in Nat : c * n \in Nat /\ 2 * n <= c * n /\ n <= c * n
  BY <1>1
<1>4. \A a \in Nat : \A b \in Nat : c * (a + b) = c * a + c * b
  BY <1>1
<1>5. c * 0 = 0 /\ c * 1 = c
  BY <1>1
<1> QED
  BY <1>2, <1>3, <1>4, <1>5, Zenon DEF c

\* A part is not written longer than its length and its bytes.
LEMMA PartBound ==
  ASSUME NEW l \in Nat, l < IntMod
  PROVE  PartSize(l) \in Nat /\ PartSize(l) <= l + Cost(1) /\ PartSize(l) >= l + 2
<1>1. sov[l] <= MaxVarint /\ sov[l] \in Nat \ {0}
  BY SovBound, Sov
<1>2. PartSize(l) = 1 + l + sov[l] /\ Cost(1) = MaxVarint + 1 /\ MaxVarint \in Nat
  BY PartSizeType, CostIs, Least
<1> QED
  BY <1>1, <1>2

\* A repeated field with one more.
ListMore(S, list, x, more, w) ==
  /\ PartSizes([n \in DOMAIN more |-> w[more[n]]]) =
       PartSizes([n \in DOMAIN list |-> w[list[n]]]) + PartSize(w[x])
  /\ \A n \in DOMAIN list : list[n] \in S
  /\ \A n \in DOMAIN more : more[n] \in S

\* A list grows by its new part.
LEMMA ListGrows ==
  ASSUME NEW S, NEW list \in Seq(S), NEW x \in S, NEW w \in [S -> Nat],
         NEW more, more = Append(list, x)
  PROVE  ListMore(S, list, x, more, w)
<1> DEFINE lens == [n \in DOMAIN list |-> w[list[n]]]
           mores == [n \in DOMAIN more |-> w[more[n]]]
           last == Len(list) + 1
<1>1. /\ Len(list) \in Nat /\ DOMAIN list = 1 .. Len(list) /\ DOMAIN more = 1 .. last
      /\ \A n \in 1 .. Len(list) : more[n] = list[n] /\ list[n] \in S
      /\ more[last] = x
  OBVIOUS
<1>2. lens \in Seq(Nat) /\ Len(lens) = Len(list) /\ \A n \in 1 .. Len(list) : lens[n] = w[list[n]]
  <2>1. lens \in [1 .. Len(list) -> Nat] /\ \A n \in 1 .. Len(list) : lens[n] = w[list[n]]
    BY <1>1
  <2> HIDE DEF lens
  <2> QED
    BY <1>1, <2>1, SeqOfFunction
<1>3. mores \in Seq(Nat) /\ Len(mores) = last /\ \A n \in 1 .. last : mores[n] = w[more[n]]
  <2>1. \A n \in 1 .. last : more[n] \in S
    <3>1. \A n \in 1 .. last : n = last \/ n \in 1 .. Len(list)
      BY <1>1
    <3> QED
      BY <1>1, <3>1, Zenon
  <2>2. mores \in [1 .. last -> Nat] /\ \A n \in 1 .. last : mores[n] = w[more[n]]
    BY <1>1, <2>1
  <2>3. last \in Nat
    BY <1>1
  <2> HIDE DEF mores, last
  <2> QED
    BY <2>2, <2>3, SeqOfFunction
<1> HIDE DEF lens, mores
<1>4. mores = Append(lens, w[x])
  <2> DEFINE other == Append(lens, w[x])
  <2>1. /\ other \in Seq(Nat) /\ Len(other) = last /\ other[last] = w[x]
        /\ \A n \in 1 .. Len(list) : other[n] = lens[n]
    BY <1>2
  <2> HIDE DEF other
  <2>2. ASSUME NEW n \in 1 .. last PROVE mores[n] = other[n]
    <3>1. CASE n = last
      BY <1>1, <1>3, <2>1, <3>1, Zenon
    <3>2. CASE n # last
      <4>1. n \in 1 .. Len(list)
        BY <1>1, <3>2
      <4>2. mores[n] = w[more[n]] /\ more[n] = list[n]
        BY <1>1, <1>3, <4>1
      <4>3. other[n] = lens[n] /\ lens[n] = w[list[n]]
        BY <1>2, <2>1, <4>1
      <4> QED
        BY <4>2, <4>3, Zenon
    <3> QED
      BY <3>1, <3>2
  <2>3. mores = other
    <3> HIDE DEF last
    <3> QED
      BY <1>3, <2>1, <2>2
  <2> QED
    BY <2>3 DEF other
<1>5. PartSizes(mores) = PartSizes(lens) + PartSize(w[x])
  BY <1>2, <1>4, PartSizesAppend
<1>6. \A n \in DOMAIN more : more[n] \in S
  <2>1. \A n \in 1 .. last : n = last \/ n \in 1 .. Len(list)
    BY <1>1
  <2> QED
    BY <1>1, <2>1, Zenon
<1> QED
  BY <1>1, <1>5, <1>6, Zenon DEF lens, mores, ListMore

\* What is read for a field makes it longer by what was read, at most.
Grows(f, m, l, part, nested) ==
  /\ ~ Scalar(f) => part.val \in Seq(Byte) /\ Len(part.val) = l
  /\ f.kind \in {"message", "messages"} =>
       /\ f.of \in DOMAIN Values /\ nested.val \in Values[f.of] /\ Into(f, m) \in Values[f.of]
       /\ Size(f.of, nested.val) <= Size(f.of, Into(f, m)) + Cost(l)
       /\ Size(f.of, nested.val) < IntMod

\* A field grows by no more than what was read for it allows.
LEMMA GivenGrows ==
  ASSUME NEW f, f.kind \in FieldKinds, NEW m, Typed(f, m[f.name]), NEW v, NEW part, NEW nested,
         NEW l \in Nat, l < IntMod, Grows(f, m, l, part, nested),
         NEW given, given = Given(f, m, v, part, nested), Typed(f, given),
         FieldSize(f, m[f.name]) \in Nat
  PROVE  FieldSize(f, given) <= FieldSize(f, m[f.name]) + Cost(l + 1)
<1> DEFINE old == m[f.name]
           before == FieldSize(f, old)
           one == Cost(1)
           more == Cost(l)
<1>1. /\ before \in Nat /\ one \in Nat /\ more \in Nat /\ l <= more /\ Cost(l + 1) = more + one
      /\ one = MaxVarint + 1 /\ MaxVarint \in Nat /\ MaxVarint >= 1
  <2>1. MaxVarint \in Nat /\ MaxVarint >= 1
    BY Least
  <2>2. one = MaxVarint + 1
    BY CostIs
  <2>3. more \in Nat /\ l <= more
    BY CostIs
  <2>4. Cost(l + 1) = more + one
    <3>1. 1 \in Nat
      OBVIOUS
    <3> QED
      BY <3>1, CostIs, Zenon
  <2> QED
    BY <2>1, <2>2, <2>3, <2>4
<1> HIDE DEF one, more
<1>2. CASE f.kind = "bool"
  <2>1. FieldSize(f, given) = 0 \/ FieldSize(f, given) = 2
    BY <1>2 DEF FieldSize
  <2> HIDE DEF before
  <2> QED
    BY <1>1, <2>1 DEF before, old
<1>3. CASE f.kind = "enum"
  <2>1. FieldSize(f, given) = EnumSize(given) /\ given \in Int32 \cup {Nil}
    BY <1>3 DEF FieldSize, Typed
  <2>2. FieldSize(f, given) <= one /\ FieldSize(f, given) \in Nat
    <3>1. CASE given = Nil
      BY <1>1, <2>1, <3>1 DEF EnumSize
    <3>2. CASE given # Nil
      <4> DEFINE mode == given % IntMod
      <4>1. mode \in Nat /\ mode < IntMod
        BY <2>1, <3>2, ModeIs
      <4>2. FieldSize(f, given) = 1 + sov[mode]
        BY <2>1, <3>2 DEF EnumSize, sovRpc
      <4> HIDE DEF mode
      <4>3. sov[mode] <= MaxVarint /\ sov[mode] \in Nat
        BY <4>1, SovBound, Sov
      <4> QED
        BY <1>1, <4>2, <4>3
    <3> QED
      BY <3>1, <3>2
  <2> HIDE DEF before
  <2> QED
    BY <1>1, <2>2 DEF before, old
<1>4. CASE f.kind \in {"bytes", "string"}
  <2>1. given = part.val /\ part.val \in Seq(Byte) /\ Len(part.val) = l
    BY <1>4, OverwriteIs DEF Given, Grows, Scalar
  <2>2. given # Nil
    BY <2>1, NilIsNoText
  <2>3. FieldSize(f, given) = PartSize(l)
    BY <1>4, <2>1, <2>2 DEF FieldSize, BytesSize
  <2>4. PartSize(l) \in Nat /\ PartSize(l) <= l + one
    BY PartBound DEF one
  <2> HIDE DEF before
  <2> QED
    BY <1>1, <2>3, <2>4 DEF before, old
<1>5. CASE f.kind = "strings"
  <2>1. given = Append(old, part.val) /\ part.val \in Seq(Byte) /\ Len(part.val) = l
    BY <1>5 DEF Given, Grows, Scalar
  <2>2. old \in Seq(Seq(Byte))
    BY <1>5 DEF Typed
  <2>3. /\ FieldSize(f, given) = PartSizes([n \in DOMAIN given |-> Len(given[n])])
        /\ before = PartSizes([n \in DOMAIN old |-> Len(old[n])])
    BY <1>5 DEF FieldSize
  <2> HIDE DEF old, before
  <2>4. FieldSize(f, given) = before + PartSize(l)
    <3> DEFINE w == [y \in Seq(Byte) |-> Len(y)]
    <3>1. w \in [Seq(Byte) -> Nat] /\ \A y \in Seq(Byte) : w[y] = Len(y)
      OBVIOUS
    <3> HIDE DEF w
    <3>2. /\ PartSizes([n \in DOMAIN given |-> w[given[n]]]) =
               PartSizes([n \in DOMAIN old |-> w[old[n]]]) + PartSize(w[part.val])
          /\ \A n \in DOMAIN old : old[n] \in Seq(Byte)
          /\ \A n \in DOMAIN given : given[n] \in Seq(Byte)
      <4>1. ListMore(Seq(Byte), old, part.val, given, w)
        BY <2>1, <2>2, <3>1, ListGrows
      <4> QED
        BY <4>1, Zenon DEF ListMore
    <3>3. /\ [n \in DOMAIN given |-> w[given[n]]] = [n \in DOMAIN given |-> Len(given[n])]
          /\ [n \in DOMAIN old |-> w[old[n]]] = [n \in DOMAIN old |-> Len(old[n])]
      BY <3>1, <3>2, Zenon
    <3> QED
      BY <2>1, <2>3, <3>1, <3>2, <3>3, Zenon
  <2>5. PartSize(l) \in Nat /\ PartSize(l) <= l + one
    BY PartBound DEF one
  <2> QED
    BY <1>1, <2>4, <2>5 DEF before, old
<1>6. ASSUME f.kind \in {"message", "messages"}
      PROVE  /\ Size(f.of, nested.val) \in Nat /\ Size(f.of, nested.val) < IntMod
             /\ Size(f.of, Into(f, m)) \in Nat
             /\ Size(f.of, nested.val) <= Size(f.of, Into(f, m)) + more
             /\ nested.val \in Values[f.of] /\ nested.val # Nil /\ f.of \in DOMAIN Values
  <2>1. /\ f.of \in DOMAIN Values /\ nested.val \in Values[f.of] /\ Into(f, m) \in Values[f.of]
        /\ Size(f.of, nested.val) <= Size(f.of, Into(f, m)) + more
        /\ Size(f.of, nested.val) < IntMod
    BY <1>6, Zenon DEF Grows, more
  <2>2. Size(f.of, nested.val) \in Nat /\ Size(f.of, Into(f, m)) \in Nat
    BY <2>1, MarshalIs
  <2>3. nested.val # Nil
    BY <2>1, NoStructAssumption, Zenon
  <2> QED
    BY <2>1, <2>2, <2>3
<1>7. CASE f.kind = "message"
  <2> DEFINE s == Size(f.of, nested.val)
             s0 == Size(f.of, Into(f, m))
  <2>1. s \in Nat /\ s < IntMod /\ s0 \in Nat /\ s <= s0 + more
    BY <1>6, <1>7
  <2>2. FieldSize(f, given) = PartSize(s)
    BY <1>6, <1>7 DEF Given, FieldSize
  <2>3. CASE old = Nil
    <3>1. Into(f, m) = Types[f.of].new
      BY <2>3 DEF Into
    <3>2. s0 = 0
      BY <1>6, <1>7, <3>1, NewSize
    <3> HIDE DEF s, s0, before
    <3>3. PartSize(s) \in Nat /\ PartSize(s) <= s + one
      BY <2>1, PartBound DEF one
    <3> QED
      BY <1>1, <2>1, <2>2, <3>2, <3>3 DEF before, old
  <2>4. CASE old # Nil
    <3>1. Into(f, m) = old
      BY <1>7, <2>4 DEF Into
    <3>2. before = PartSize(s0)
      BY <1>7, <2>4, <3>1 DEF FieldSize
    <3> HIDE DEF s, s0, before
    <3>3. PartSize(s) \in Nat /\ PartSize(s) <= s + one
      BY <2>1, PartBound DEF one
    <3>4. PartSize(s0) >= s0
      <4>1. PartSize(s0) = 1 + s0 + sov[s0] /\ sov[s0] \in Nat
        BY <2>1, PartSizeType, Sov
      <4> QED
        BY <2>1, <4>1
    <3> QED
      BY <1>1, <2>1, <2>2, <3>2, <3>3, <3>4 DEF before, old
  <2> QED
    BY <2>3, <2>4
<1>8. CASE f.kind = "messages"
  <2> DEFINE s == Size(f.of, nested.val)
  <2>1. s \in Nat /\ s < IntMod /\ s <= more
    <3>1. Into(f, m) = Types[f.of].new
      BY <1>8 DEF Into
    <3>2. Size(f.of, Into(f, m)) = 0
      BY <1>6, <1>8, <3>1, NewSize
    <3> HIDE DEF s
    <3>3. s \in Nat /\ s < IntMod /\ s <= 0 + more
      BY <1>6, <1>8, <3>2 DEF s
    <3> QED
      BY <1>1, <3>3
  <2>2. given = Append(old, nested.val) /\ old \in Seq(Values[f.of])
    BY <1>8 DEF Given, Typed
  <2>3. /\ FieldSize(f, given) = PartSizes([n \in DOMAIN given |-> Size(f.of, given[n])])
        /\ before = PartSizes([n \in DOMAIN old |-> Size(f.of, old[n])])
    BY <1>8 DEF FieldSize
  <2>4. FieldSize(f, given) = before + PartSize(s)
    <3>1. \A y \in Values[f.of] : Size(f.of, y) \in Nat
      BY <1>6, <1>8, MarshalIs
    <3>2. nested.val \in Values[f.of]
      BY <1>6, <1>8
    <3> HIDE DEF old, before
    <3> DEFINE V == Values[f.of]
               w == [y \in V |-> Size(f.of, y)]
    <3>3. w \in [V -> Nat] /\ \A y \in V : w[y] = Size(f.of, y)
      BY <3>1
    <3> HIDE DEF w
    <3>4. /\ PartSizes([n \in DOMAIN given |-> w[given[n]]]) =
               PartSizes([n \in DOMAIN old |-> w[old[n]]]) + PartSize(w[nested.val])
          /\ \A n \in DOMAIN old : old[n] \in V
          /\ \A n \in DOMAIN given : given[n] \in V
      <4> HIDE DEF V
      <4>1. nested.val \in V /\ old \in Seq(V)
        BY <2>2, <3>2 DEF V
      <4>2. ListMore(V, old, nested.val, given, w)
        BY <2>2, <3>3, <4>1, ListGrows
      <4> QED
        BY <4>2, Zenon DEF ListMore
    <3>5. /\ [n \in DOMAIN given |-> w[given[n]]] = [n \in DOMAIN given |-> Size(f.of, given[n])]
          /\ [n \in DOMAIN old |-> w[old[n]]] = [n \in DOMAIN old |-> Size(f.of, old[n])]
      BY <3>3, <3>4, Zenon
    <3> QED
      BY <2>3, <3>2, <3>3, <3>4, <3>5, Zenon
  <2> HIDE DEF s, before
  <2>5. PartSize(s) \in Nat /\ PartSize(s) <= s + one
    BY <2>1, PartBound DEF one
  <2> QED
    BY <1>1, <2>1, <2>4, <2>5 DEF before, old
<1> QED
  BY <1>2, <1>3, <1>4, <1>5, <1>7, <1>8 DEF FieldKinds

LEMMA CostMore == \A a \in Nat : \A b \in Nat : a <= b => Cost(a) <= Cost(b)
<1> SUFFICES ASSUME NEW a \in Nat, NEW b \in Nat, a <= b PROVE Cost(a) <= Cost(b)
  OBVIOUS
<1> DEFINE c == b - a
<1>1. c \in Nat /\ a + c = b
  OBVIOUS
<1> HIDE DEF c
<1>2. Cost(a + c) = Cost(a) + Cost(c) /\ Cost(a) \in Nat /\ Cost(c) \in Nat
  BY <1>1, CostIs
<1> QED
  BY <1>1, <1>2

\* What is read of d into m: a value that is read as it is written, and no longer than it
\* may get.
Room(k, m, d) == 2 * Len(d) < IntMod /\ Size(k, m) + Cost(Len(d)) < IntMod
Grown(depth, k, m, r) ==
  r.err = "none" => r.val \in Sound(depth)[k] /\ Size(k, r.val) <= Size(k, m) + Cost(r.next)
Growing(depth) ==
  \A k \in DOMAIN Values : \A m \in Sound(depth)[k] : \A d \in Seq(Byte) :
    Room(k, m, d) => Grown(depth, k, m, UnmarshalTo(depth, k, m, d))

\* No message is read within a message that is as deep as they get.
LEMMA NoMessage == \A of, x, b : UnmarshalTo(0, of, x, b) = Failed("wire type")
BY DEF UnmarshalTo, NoUnmarshal

\* The same of what is read into a nested message.
LEMMA NestedGrown ==
  ASSUME NEW depth \in 1 .. 3, Growing(depth - 1), NEW k \in DOMAIN Values,
         NEW m \in Sound(depth)[k], NEW j \in DOMAIN Types[k].fields,
         NEW f, f = Types[k].fields[j], f.kind \in {"message", "messages"},
         NEW b \in Seq(Byte), 2 * Len(b) < IntMod, Size(k, m) + Cost(Len(b)) < IntMod,
         NEW nested, nested = UnmarshalTo(depth - 1, f.of, Into(f, m), b), nested.err = "none"
  PROVE  /\ f.of \in DOMAIN Values /\ nested.val \in Values[f.of] /\ Into(f, m) \in Values[f.of]
         /\ nested.val \in Sound(depth - 1)[f.of]
         /\ Size(f.of, nested.val) <= Size(f.of, Into(f, m)) + Cost(Len(b))
         /\ Size(f.of, nested.val) < IntMod
<1> DEFINE below == depth - 1
           old == m[f.name]
           into == Into(f, m)
           l == Len(b)
<1>1. below \in 0 .. 3 /\ depth \in 0 .. 3 /\ below = depth - 1 /\ (below = 0 \/ below \in 1 .. 3)
  OBVIOUS
<1> HIDE DEF below
<1>2. below # 0
  <2> SUFFICES ASSUME below = 0 PROVE FALSE
    OBVIOUS
  <2>1. nested = UnmarshalTo(below, f.of, into, b)
    BY <1>1
  <2>2. \A x, y, z : UnmarshalTo(0, x, y, z) = Failed("wire type")
    BY NoMessage
  <2>3. Failed("wire type").err = "wire type" /\ "wire type" # "none"
    BY DEF Failed
  <2> HIDE DEF into
  <2> QED
    BY <2>1, <2>2, <2>3, Zenon
<1>3. /\ m \in Values[k] /\ FieldIn(Sound(below), f, old)
  BY <1>1, SoundValues
<1>4. /\ f.of \in DOMAIN Values /\ Typed(f, old) /\ f.name \in DOMAIN m
  BY <1>3, StructWith
<1>5. /\ FieldSize(f, old) \in Nat /\ FieldSize(f, old) <= Size(k, m) /\ Size(k, m) \in Nat
  <2> HIDE DEF old
  <2>1. Typed(f, old)
    BY <1>4
  <2> DEFINE w == With(m, f.name, old)
  <2>2. w = With(m, f.name, old)
    OBVIOUS
  <2> HIDE DEF w
  <2>3. Exchanged(k, m, w, f, old)
    BY <1>3, <2>1, <2>2, SizeWith
  <2>4. FieldSize(f, m[f.name]) \in Nat /\ FieldSize(f, m[f.name]) <= Size(k, m) /\ Size(k, m) \in Nat
    BY <2>3, Zenon DEF Exchanged
  <2> QED
    BY <2>4 DEF old
<1>6. into \in Sound(below)[f.of] /\ Size(f.of, into) <= Size(k, m) /\ Size(f.of, into) \in Nat
  <2>1. CASE f.kind = "message" /\ old # Nil
    <3>1. into = old
      BY <2>1 DEF Into
    <3>2. old \in Sound(below)[f.of]
      BY <1>3, <2>1 DEF FieldIn
    <3>3. old \in Values[f.of]
      BY <1>1, <1>4, <3>2, SoundValues
    <3>4. FieldSize(f, old) = PartSize(Size(f.of, old))
      BY <2>1 DEF FieldSize
    <3> DEFINE s == Size(f.of, old)
    <3>5. s \in Nat
      BY <1>4, <3>3, MarshalIs
    <3> HIDE DEF s, old, into
    <3>6. PartSize(s) = 1 + s + sov[s] /\ sov[s] \in Nat
      BY <3>5, PartSizeType, Sov
    <3>7. FieldSize(f, old) = PartSize(s)
      BY <3>4 DEF s
    <3>8. s <= Size(k, m)
      BY <1>5, <3>5, <3>6, <3>7
    <3> QED
      BY <3>1, <3>2, <3>5, <3>8 DEF s
  <2>2. CASE ~ (f.kind = "message" /\ old # Nil)
    <3>1. into = Types[f.of].new
      BY <2>2, Zenon DEF Into
    <3>2. into \in Sound(below)[f.of] /\ Size(f.of, into) = 0
      BY <1>1, <1>2, <1>4, <3>1, NewSound, NewSize
    <3> HIDE DEF into, old
    <3> QED
      BY <1>5, <3>2
  <2> QED
    BY <2>1, <2>2
<1>7. into \in Values[f.of]
  BY <1>1, <1>4, <1>6, SoundValues
<1> HIDE DEF old, into
<1>8. l \in Nat /\ Cost(l) \in Nat
  BY CostIs
<1>9. IntMod \in Nat
  BY Widths
<1>10. Room(f.of, into, b)
  <2>1. Size(f.of, into) + Cost(l) < IntMod
    BY <1>5, <1>6, <1>8, <1>9
  <2> QED
    BY <2>1 DEF Room
<1>11. nested = UnmarshalTo(below, f.of, into, b)
  BY <1>1 DEF into
<1>12. Grown(below, f.of, into, nested)
  <2>1. Growing(below)
    BY <1>1
  <2> QED
    BY <1>4, <1>6, <1>10, <1>11, <2>1, Zenon DEF Growing
<1>13. nested.next \in 0 .. l
  <2>1. nested \in Reads(Values[f.of], 0, l)
    BY <1>1, <1>4, <1>7, <1>11, UnmarshalReads
  <2> QED
    BY <2>1, ReadsIs
<1>14. /\ nested.val \in Sound(below)[f.of]
       /\ Size(f.of, nested.val) <= Size(f.of, into) + Cost(nested.next)
  BY <1>12, Zenon DEF Grown
<1>15. nested.val \in Values[f.of]
  BY <1>1, <1>4, <1>14, SoundValues
<1>16. Size(f.of, nested.val) \in Nat
  BY <1>4, <1>15, MarshalIs
<1>17. nested.next \in Nat /\ Cost(nested.next) \in Nat /\ Cost(nested.next) <= Cost(l)
  <2> HIDE DEF l
  <2>1. nested.next \in Nat /\ nested.next <= l
    BY <1>8, <1>13
  <2> QED
    BY <1>8, <2>1, CostIs, CostMore
<1>18. Size(f.of, nested.val) <= Size(f.of, into) + Cost(l) /\ Size(f.of, nested.val) < IntMod
  BY <1>5, <1>6, <1>8, <1>9, <1>14, <1>16, <1>17
<1> QED
  BY <1>1, <1>4, <1>7, <1>14, <1>15, <1>18 DEF into

\* A round that sets a field stays within the bound,
LEMMA SetsGrown ==
  ASSUME NEW depth \in 1 .. 3, Growing(depth - 1), NEW k \in DOMAIN Values,
         NEW d \in Seq(Byte), 2 * Len(d) < IntMod, NEW r, r.val \in Sound(depth)[k],
         r.next \in 0 .. Len(d) - 1, Size(k, r.val) + Cost(Len(d) - r.next) < IntMod,
         NEW new, new = Round(depth, k, d, r), new.val \in Values[k],
         NEW j \in DOMAIN Types[k].fields, Sets(depth, k, d, r, j)
  PROVE  /\ new.val \in Sound(depth)[k] /\ new.next \in r.next .. Len(d)
         /\ Size(k, new.val) <= Size(k, r.val) + Cost(new.next - r.next)
<1> DEFINE f == Types[k].fields[j]
           m == r.val
           tag == Varint(d, r.next)
           v == Varint(d, tag.next)
           part == LengthDelimited(d, tag.next)
           nested == UnmarshalTo(depth - 1, f.of, Into(f, m), part.val)
           given == Given(f, m, v, part, nested)
           l == IF Scalar(f) THEN 0 ELSE Len(part.val)
<1>1. /\ depth \in 0 .. 3 /\ m \in Values[k] /\ Unread(k, m.XXX_unrecognized)
      /\ \A i \in DOMAIN Types[k].fields :
           FieldIn(Sound(depth - 1), Types[k].fields[i], m[Types[k].fields[i].name])
  BY SoundValues
<1>2. Came(f, tag.val % 8, v, part, nested) /\ new.val = With(m, f.name, given)
  <2>1. /\ Came(f, tag.val % 8, v, part, nested)
        /\ new = Ok(With(m, f.name, given), IF Scalar(f) THEN v.next ELSE part.next)
    BY Zenon DEF Sets
  <2> HIDE DEF f, m, tag, v, part, nested, given
  <2> QED
    BY <2>1 DEF Ok
<1>3. /\ new.val.XXX_unrecognized = m.XXX_unrecognized
      /\ new.next \in r.next + 2 .. Len(d)
      /\ ~ Scalar(f) => part.val \in Seq(Byte) /\ r.next + 2 + Len(part.val) <= new.next
  BY <1>1, SetsIs, Zenon
<1>4. /\ m = [x \in DOMAIN m |-> m[x]] /\ f.name \in DOMAIN m /\ f.kind \in FieldKinds
      /\ Typed(f, m[f.name])
  BY <1>1, StructWith
<1> HIDE DEF f, m, tag, v, part, nested, given
<1>5. /\ new.val[f.name] = given
      /\ \A other \in DOMAIN m \ {f.name} : new.val[other] = m[other]
  BY <1>2, <1>4, WithIs
<1>6. Typed(f, given)
  BY <1>5, StructWith DEF f
<1>7. /\ l \in Nat /\ r.next + 2 + l <= new.next /\ r.next \in Nat /\ new.next \in Nat
      /\ new.next <= Len(d) /\ Len(d) \in Nat
  BY <1>3
<1>8. IntMod \in Nat /\ Size(k, m) \in Nat
  BY <1>1, MarshalIs, Widths
<1>9. l < IntMod /\ 2 * l < IntMod
  <2> HIDE DEF l
  <2> QED
    BY <1>7, <1>8
<1>10. Size(k, m) + Cost(l) < IntMod
  <2> HIDE DEF l
  <2>1. l <= Len(d) - r.next /\ Len(d) - r.next \in Nat
    BY <1>7
  <2>2. Cost(l) <= Cost(Len(d) - r.next) /\ Cost(l) \in Nat /\ Cost(Len(d) - r.next) \in Nat
    BY <1>7, <2>1, CostIs, CostMore
  <2>3. Size(k, m) + Cost(Len(d) - r.next) < IntMod
    BY DEF m
  <2> QED
    BY <1>8, <2>2, <2>3
<1>11. ASSUME f.kind \in {"message", "messages"}
       PROVE  /\ f.of \in DOMAIN Values /\ nested.val \in Values[f.of] /\ Into(f, m) \in Values[f.of]
              /\ nested.val \in Sound(depth - 1)[f.of]
              /\ Size(f.of, nested.val) <= Size(f.of, Into(f, m)) + Cost(l)
              /\ Size(f.of, nested.val) < IntMod
  <2>1. ~ Scalar(f)
    BY <1>11 DEF Scalar
  <2>2. part.val \in Seq(Byte) /\ l = Len(part.val)
    BY <1>3, <2>1
  <2>3. nested.err = "none"
    BY <1>2, <1>11 DEF Came
  <2>4. m \in Sound(depth)[k] /\ f = Types[k].fields[j]
    BY DEF m, f
  <2> DEFINE b == part.val
  <2>5. nested = UnmarshalTo(depth - 1, f.of, Into(f, m), b)
    BY DEF nested
  <2>6. b \in Seq(Byte) /\ 2 * Len(b) < IntMod /\ Size(k, m) + Cost(Len(b)) < IntMod
    BY <1>9, <1>10, <2>2
  <2>7. l = Len(b)
    BY <2>2
  <2> HIDE DEF b, l
  <2> QED
    BY <1>11, <2>3, <2>4, <2>5, <2>6, <2>7, NestedGrown
<1>12. Grows(f, m, l, part, nested)
  <2>1. ~ Scalar(f) => part.val \in Seq(Byte) /\ Len(part.val) = l
    BY <1>3
  <2> HIDE DEF l
  <2> QED
    BY <1>11, <2>1, Zenon DEF Grows
<1> HIDE DEF l
<1>13. /\ Size(k, new.val) + FieldSize(f, m[f.name]) = Size(k, m) + FieldSize(f, given)
       /\ FieldSize(f, m[f.name]) \in Nat /\ FieldSize(f, given) \in Nat
       /\ Size(k, new.val) \in Nat
  <2>1. f = Types[k].fields[j]
    BY DEF f
  <2>2. Exchanged(k, m, new.val, f, given)
    BY <1>1, <1>2, <1>6, <2>1, SizeWith
  <2> QED
    BY <2>2, Zenon DEF Exchanged
<1>14. FieldSize(f, given) <= FieldSize(f, m[f.name]) + Cost(l + 1)
  BY <1>4, <1>6, <1>7, <1>9, <1>12, <1>13, GivenGrows DEF given
<1>15. Cost(l + 1) <= Cost(new.next - r.next) /\ Cost(l + 1) \in Nat /\ Cost(new.next - r.next) \in Nat
  <2>1. l + 1 \in Nat /\ new.next - r.next \in Nat /\ l + 1 <= new.next - r.next
    BY <1>7
  <2> QED
    BY <2>1, CostIs, CostMore
<1>16. Size(k, new.val) <= Size(k, m) + Cost(new.next - r.next)
  BY <1>8, <1>13, <1>14, <1>15
<1>17. ASSUME NEW i \in DOMAIN Types[k].fields
       PROVE  FieldIn(Sound(depth - 1), Types[k].fields[i], new.val[Types[k].fields[i].name])
  <2>1. CASE i = j
    <3>1. FieldIn(Sound(depth - 1), f, m[f.name])
      BY <1>1 DEF f
    <3>2. f.kind = "message" => given = nested.val
      BY DEF given, Given
    <3>3. f.kind = "messages" => given = Append(m[f.name], nested.val) /\ m[f.name] \in Seq(Values[f.of])
      BY <1>4 DEF given, Given, Typed
    <3>4. FieldIn(Sound(depth - 1), f, given)
      <4>1. CASE f.kind = "message"
        BY <1>11, <3>2, <4>1 DEF FieldIn
      <4>2. CASE f.kind = "messages"
        <5>1. \A n \in DOMAIN m[f.name] : m[f.name][n] \in Sound(depth - 1)[f.of]
          BY <3>1, <4>2, Zenon DEF FieldIn
        <5>2. nested.val \in Sound(depth - 1)[f.of]
          BY <1>11, <4>2
        <5> DEFINE list == m[f.name]
                   S == Sound(depth - 1)[f.of]
                   x == nested.val
        <5>3. list \in Seq(Values[f.of]) /\ given = Append(list, x)
          BY <3>3, <4>2
        <5> HIDE DEF list, S, x
        <5>4. \A n \in DOMAIN list : list[n] \in S
          BY <5>1 DEF list, S
        <5>5. x \in S
          BY <5>2 DEF x, S
        <5>6. \A n \in DOMAIN given : given[n] \in S
          BY <5>3, <5>4, <5>5
        <5> QED
          BY <4>2, <5>6 DEF FieldIn, S
      <4>3. CASE f.kind \notin {"message", "messages"}
        BY <4>3 DEF FieldIn
      <4> QED
        BY <4>1, <4>2, <4>3
    <3> QED
      BY <1>5, <2>1, <3>4 DEF f
  <2>2. CASE i # j
    <3> DEFINE other == Types[k].fields[i].name
    <3>1. other \in DOMAIN m
      BY <1>1, StructWith
    <3>2. other # f.name
      BY <2>2, NamesDiffer DEF f
    <3>3. new.val[other] = m[other]
      BY <1>5, <3>1, <3>2, Zenon
    <3> QED
      BY <1>1, <3>3, Zenon
  <2> QED
    BY <2>1, <2>2
<1>18. Unread(k, new.val.XXX_unrecognized)
  BY <1>1, <1>3
<1>19. new.val \in Sound(depth)[k]
  BY <1>17, <1>18, SoundMade
<1>20. new.next \in r.next .. Len(d)
  BY <1>7
<1> QED
  BY <1>16, <1>19, <1>20 DEF m

\* and one that keeps bytes does,
LEMMA KeepsGrown ==
  ASSUME NEW depth \in 1 .. 3, NEW k \in DOMAIN Values, NEW d \in Seq(Byte), 2 * Len(d) < IntMod,
         NEW r, r.val \in Sound(depth)[k], r.next \in 0 .. Len(d) - 1,
         NEW new, new = Round(depth, k, d, r), new.val \in Values[k],
         NEW y, Keeps(depth, k, d, r, y)
  PROVE  /\ new.val \in Sound(depth)[k] /\ new.next \in r.next .. Len(d)
         /\ Size(k, new.val) <= Size(k, r.val) + Cost(new.next - r.next)
<1> DEFINE m == r.val
           x == m.XXX_unrecognized
           l == Len(y)
<1>1. /\ depth \in 0 .. 3 /\ m \in Values[k] /\ Unread(k, x)
      /\ \A i \in DOMAIN Types[k].fields :
           FieldIn(Sound(depth - 1), Types[k].fields[i], m[Types[k].fields[i].name])
  BY SoundValues
<1>2. Longer(d, r, y, new)
  BY <1>1, KeepsIs
<1>3. /\ new.val = Keeping(m, y) /\ new.next = r.next + l /\ y \in Seq(Byte) /\ l \in Nat
      /\ r.next + l <= Len(d) /\ r.next \in Nat /\ new.val.XXX_unrecognized = x \o y
      /\ Len(x \o y) = Len(x) + l /\ x \in Seq(Byte)
  BY <1>2, Zenon DEF Longer
<1>4. Piece(k, y)
  BY Zenon DEF Keeps
<1>5. /\ Size(k, new.val) = Size(k, m) + l /\ Size(k, m) \in Nat
      /\ \A i \in DOMAIN Types[k].fields :
           new.val[Types[k].fields[i].name] = m[Types[k].fields[i].name]
  <2>1. /\ Size(k, Keeping(m, y)) = Size(k, m) + l /\ Size(k, m) \in Nat
        /\ \A i \in DOMAIN Types[k].fields :
             Keeping(m, y)[Types[k].fields[i].name] = m[Types[k].fields[i].name]
    BY <1>1, <1>3, SizeKept
  <2> HIDE DEF m, l
  <2> QED
    BY <1>3, <2>1, Zenon
<1>6. Unread(k, new.val.XXX_unrecognized)
  <2>1. ASSUME 2 * Len(x \o y) < IntMod PROVE KeptBytes(k, x \o y)
    <3> HIDE DEF x, l
    <3>1. 2 * Len(x) < IntMod
      <4>1. IntMod \in Nat /\ Len(x) \in Nat
        BY <1>3, Widths
      <4> QED
        BY <1>3, <2>1, <4>1
    <3>2. KeptBytes(k, x)
      BY <1>1, <3>1 DEF Unread
    <3> QED
      BY <1>4, <3>2, KeptPieces
  <2> HIDE DEF x
  <2> QED
    BY <1>3, <2>1, Zenon DEF Unread
<1>7. \A i \in DOMAIN Types[k].fields :
        FieldIn(Sound(depth - 1), Types[k].fields[i], new.val[Types[k].fields[i].name])
  <2> HIDE DEF m
  <2> QED
    BY <1>1, <1>5, Zenon
<1>8. new.val \in Sound(depth)[k]
  BY <1>6, <1>7, SoundMade
<1> HIDE DEF m, x, l
<1>9. new.next - r.next = l /\ new.next \in r.next .. Len(d)
  BY <1>3
<1>10. l <= Cost(l) /\ Cost(l) \in Nat
  BY <1>3, CostIs
<1>11. Size(k, new.val) <= Size(k, m) + Cost(l)
  BY <1>3, <1>5, <1>10
<1> QED
  BY <1>8, <1>9, <1>11 DEF m

\* hence every round.
LEMMA GrownStep ==
  ASSUME NEW depth \in 1 .. 3, Growing(depth - 1), NEW k \in DOMAIN Values,
         NEW m \in Sound(depth)[k], NEW d \in Seq(Byte), Room(k, m, d),
         NEW r, Grown(depth, k, m, r), NEW new \in Reads(Values[k], 0, Len(d)),
         Stepped(depth, k, d, r, new)
  PROVE  Grown(depth, k, m, new)
<1>1. CASE new = r
  BY <1>1
<1>2. CASE new # r
  <2> SUFFICES ASSUME new.err = "none"
               PROVE  new.val \in Sound(depth)[k] /\ Size(k, new.val) <= Size(k, m) + Cost(new.next)
    BY DEF Grown
  <2>1. /\ r.err = "none" /\ r.val \in Values[k] /\ r.next \in 0 .. Len(d) - 1
        /\ new = Round(depth, k, d, r)
    BY <1>2, Zenon DEF Stepped
  <2>2. r.val \in Sound(depth)[k] /\ Size(k, r.val) <= Size(k, m) + Cost(r.next)
    BY <2>1, Zenon DEF Grown
  <2>3. new.val \in Values[k]
    BY ReadsIs
  <2>4. 2 * Len(d) < IntMod /\ Size(k, m) + Cost(Len(d)) < IntMod
    BY DEF Room
  <2> DEFINE left == Len(d) - r.next
             here == r.next
             sm == Size(k, m)
             sr == Size(k, r.val)
             sn == Size(k, new.val)
  <2>5. /\ here \in Nat /\ left \in Nat /\ Len(d) = here + left /\ IntMod \in Nat
    BY <2>1, Widths
  <2>6. m \in Values[k]
    BY SoundValues
  <2>7. sm \in Nat /\ sr \in Nat /\ sn \in Nat
    BY <2>1, <2>3, <2>6, MarshalIs
  <2> HIDE DEF left, here, sm, sr, sn
  <2>8. Cost(Len(d)) = Cost(here) + Cost(left) /\ Cost(here) \in Nat /\ Cost(left) \in Nat
    BY <2>5, CostIs
  <2>9. sr <= sm + Cost(here) /\ sm + Cost(Len(d)) < IntMod
    BY <2>2, <2>4 DEF sm, sr, here
  <2>10. sr + Cost(left) < IntMod
    BY <2>5, <2>7, <2>8, <2>9
  <2>11. Size(k, r.val) + Cost(Len(d) - r.next) < IntMod
    BY <2>10 DEF sr, left
  <2>12. /\ new.val \in Sound(depth)[k] /\ new.next \in r.next .. Len(d)
         /\ Size(k, new.val) <= Size(k, r.val) + Cost(new.next - r.next)
    <3>1. CASE \E y : Keeps(depth, k, d, r, y)
      BY <2>1, <2>2, <2>3, <2>4, <3>1, KeepsGrown
    <3>2. CASE \E j \in DOMAIN Types[k].fields : Sets(depth, k, d, r, j)
      BY <2>1, <2>2, <2>3, <2>4, <2>11, <3>2, SetsGrown
    <3>3. Round(depth, k, d, r).err = "none"
      BY <2>1
    <3> QED
      BY <2>1, <2>4, <3>1, <3>2, <3>3, RoundIs
  <2> DEFINE more == new.next - r.next
  <2>13. more \in Nat /\ new.next = here + more /\ new.val \in Sound(depth)[k] /\ sn <= sr + Cost(more)
    BY <2>5, <2>12 DEF here, sn, sr
  <2> HIDE DEF more
  <2>14. Cost(new.next) = Cost(here) + Cost(more) /\ Cost(more) \in Nat
    BY <2>5, <2>13, CostIs
  <2>15. sn <= sm + Cost(new.next)
    BY <2>7, <2>8, <2>9, <2>13, <2>14
  <2> QED
    BY <2>13, <2>15 DEF sn, sm
<1> QED
  BY <1>1, <1>2

\* What is read into a sound value is sound, at every depth.
LEMMA GrowsOn ==
  ASSUME NEW depth \in 1 .. 3, Growing(depth - 1)
  PROVE  Growing(depth)
<1> SUFFICES ASSUME NEW k \in DOMAIN Values, NEW m \in Sound(depth)[k], NEW d \in Seq(Byte),
                    Room(k, m, d)
             PROVE  Grown(depth, k, m, UnmarshalTo(depth, k, m, d))
  BY Zenon DEF Growing
<1>1. 2 * Len(d) < IntMod /\ Len(d) \in Nat /\ depth \in 0 .. 3 /\ depth # 0
  BY DEF Room
<1>2. m \in Values[k]
  BY <1>1, SoundValues
<1>3. Traced(depth, k, m, d)
  BY <1>1, <1>2, UnmarshalReads
<1>4. PICK g : Trace(depth, k, m, d, g) /\ UnmarshalTo(depth, k, m, d) = g[Len(d)]
  BY <1>3, Zenon DEF Traced
<1> DEFINE P == {n \in Nat : Grown(depth, k, m, g[n])}
<1>5. 0 \in P
  <2>1. g[0].val = m /\ g[0].next = 0
    BY <1>4, OkIs DEF Trace
  <2>2. Size(k, m) \in Nat /\ Cost(0) = 0
    BY <1>2, MarshalIs, CostIs
  <2>3. Grown(depth, k, m, g[0])
    BY <2>1, <2>2 DEF Grown
  <2> QED
    BY <2>3
<1>6. ASSUME NEW n \in Nat, n \in P PROVE n + 1 \in P
  <2>1. Grown(depth, k, m, g[n])
    BY <1>6
  <2>2. Stepped(depth, k, d, g[n], g[n + 1])
    BY <1>4, TraceRound
  <2>3. g[n + 1] \in Reads(Values[k], 0, Len(d))
    BY <1>4 DEF Trace
  <2> DEFINE old == g[n]
             new == g[n + 1]
  <2> HIDE DEF old, new
  <2>4. Grown(depth, k, m, new)
    BY <2>1, <2>2, <2>3, GrownStep DEF old, new
  <2> QED
    BY <2>4 DEF new
<1> HIDE DEF P
<1>7. \A n \in Nat : n \in P
  BY <1>5, <1>6, SetInduction, Zenon
<1> QED
  BY <1>1, <1>4, <1>7 DEF P

\* Of types at any depth, hence of whatever is on the stream.
LEMMA AllGrow == Growing(3)
<1>1. Growing(0)
  <2>1. \A k \in DOMAIN Values : Sound(0)[k] = {}
    BY DEF Sound, NoneSound
  <2> QED
    BY <2>1 DEF Growing
<1>2. Growing(1)
  BY <1>1, GrowsOn
<1>3. Growing(2)
  BY <1>2, GrowsOn
<1> QED
  BY <1>3, GrowsOn

\* For what may be read in phase "raw", and for what is written of it, there is room.
LEMMA RawRoom ==
  ASSUME NEW k \in DOMAIN RawStart, NEW l \in Nat, l <= RawLimit[k]
  PROVE  2 * Cost(l) < IntMod /\ 2 * l < IntMod /\ Cost(l) \in Nat
<1> DEFINE limit == RawLimit[k]
           c == MaxVarint + 1
<1>1. limit \in Nat /\ 2 * c * limit < IntMod /\ l <= limit
  BY LimitsAssumption
<1>2. c \in Nat /\ IntMod \in Nat
  BY Least, Widths
<1>3. Cost(limit) = c * limit
  BY DEF Cost
<1> HIDE DEF c, limit
<1>4. 2 * c * limit = 2 * (c * limit)
  BY <1>1, <1>2
<1>5. 2 * Cost(limit) < IntMod
  BY <1>1, <1>3, <1>4
<1>6. Cost(l) <= Cost(limit) /\ Cost(l) \in Nat /\ Cost(limit) \in Nat /\ l <= Cost(l)
  BY <1>1, CostIs, CostMore
<1> QED
  BY <1>2, <1>5, <1>6

(***************************************************************************)
(* The stream.                                                             *)
(***************************************************************************)
\* What is written is a value of the type that is read, and so is what is read.
StreamInv ==
  /\ kind \in DOMAIN Values
  /\ sent # Nil => sent \in Values[kind]
  /\ frame # Nil => frame \in Seq(Byte)
  /\ got # Nil => /\ frame # Nil
                  /\ got = Failed("too long") \/ got \in Reads(Values[kind], 0, Len(frame))
\* Bytes of another implementation are read as they come, and are never read again.
RawInv ==
  phase = "raw" => /\ frame # Nil /\ got # Nil
                   /\ kind \in DOMAIN RawStart /\ Len(frame) <= RawLimit[kind]
\* A message that is on its way, and not read yet, has hops left.
HopsInv ==
  /\ options \in 0 .. MaxOptions /\ hops \in 0 .. MaxHops
  /\ phase \in {"options", "refused", "running", "raw"}
  /\ sent = Nil => hops = 0
  /\ frame # Nil /\ got = Nil => hops < MaxHops
  /\ phase # "raw" /\ frame # Nil => sent # Nil
Streams == StreamInv /\ RawInv /\ HopsInv

LEMMA IndexIsNat == \A d \in Seq(Byte) : \A j \in 0 .. Len(d) : j \in Nat
OBVIOUS

\* A result is not the result that is not there.
LEMMA ResultIsNotNil ==
  ASSUME NEW k \in DOMAIN Values, NEW d \in Seq(Byte),
         NEW r, r = Failed("too long") \/ r \in Reads(Values[k], 0, Len(d))
  PROVE  r # Nil
<1>0. \A j \in 0 .. Len(d) : j \in Nat
  BY IndexIsNat, Zenon
<1> DEFINE V == Values[k] \cup {Nil}
           Kinds == {"none", "EOF", "overflow", "length", "wire type", "tag", "out of range",
                     "unreachable", "too long"}
           W == [err : Kinds, val : V, next : Nat]
<1>1. Nil \notin W
  BY NoStructAssumption, Zenon DEF Results
<1>2. "none" \in Kinds /\ "too long" \in Kinds /\ \A e \in Errors : e \in Kinds
  BY DEF Errors
<1>3. 0 \in Nat /\ Nil \in V
  OBVIOUS
<1> HIDE DEF V, Kinds
<1>4. \A e \in Kinds : Failed(e) \in W
  BY <1>3 DEF Failed
<1>5. CASE r \in Reads(Values[k], 0, Len(d)) /\ r.err = "none"
  <2>1. r.val \in Values[k] /\ r.next \in 0 .. Len(d) /\ r = Ok(r.val, r.next)
    BY <1>5, ReadsIs, Zenon
  <2>2. r.val \in V /\ r.next \in Nat
    BY <1>0, <2>1, Zenon DEF V
  <2>3. Ok(r.val, r.next) \in W
    BY <1>2, <2>2 DEF Ok
  <2> QED
    BY <1>1, <2>1, <2>3, Zenon
<1>6. CASE r \in Reads(Values[k], 0, Len(d)) /\ r.err # "none"
  <2>1. r \in Refused
    BY <1>6, ReadsIs, Zenon
  <2>2. PICK e \in Errors : r = Failed(e)
    BY <2>1, Zenon DEF Refused
  <2> QED
    BY <1>1, <1>2, <1>4, <2>2, Zenon
<1>7. CASE r = Failed("too long")
  BY <1>1, <1>2, <1>4, <1>7, Zenon
<1> QED
  BY <1>5, <1>6, <1>7, Zenon

LEMMA WriteStreams ==
  ASSUME Streams, NEW k \in DOMAIN Values, NEW m \in Values[k], Write(k, m),
         phase = "running", hops < MaxHops, UNCHANGED <<hops, config>>
  PROVE  Streams'
<1>1. kind' = k /\ sent' = m /\ frame' = Frame(k, m) /\ got' = Nil
  BY DEF Write
<1>2. m # Nil
  BY NoStructAssumption, Zenon
<1>3. Frame(k, m) \in Seq(Byte) /\ Frame(k, m) # Nil
  BY SizeIsExact, NilIsNoText, Zenon
<1>4. phase' = phase /\ options' = options /\ hops' = hops
  BY DEF config
<1>5. StreamInv'
  BY <1>1, <1>2, <1>3, Zenon DEF StreamInv
<1>6. RawInv'
  BY <1>4 DEF RawInv
<1>7. HopsInv'
  BY <1>1, <1>2, <1>4 DEF Streams, HopsInv
<1> QED
  BY <1>5, <1>6, <1>7, Zenon DEF Streams

\* The options do not touch the stream, nor do they lead into phase "raw".
LEMMA OptionStreams ==
  ASSUME Streams, UNCHANGED <<kind, sent, frame, got, hops>>, phase # "raw",
         phase' \in {"options", "refused", "running"}, options' \in 0 .. MaxOptions
  PROVE  Streams'
<1>1. StreamInv'
  BY Zenon DEF Streams, StreamInv
<1>2. RawInv'
  BY DEF RawInv
<1>3. HopsInv'
  BY DEF Streams, HopsInv
<1> QED
  BY <1>1, <1>2, <1>3, Zenon DEF Streams

LEMMA StreamsSame ==
  ASSUME Streams, UNCHANGED <<kind, sent, frame, got, hops, phase, options>>
  PROVE  Streams'
<1>1. StreamInv'
  BY Zenon DEF Streams, StreamInv
<1>2. RawInv'
  BY Zenon DEF Streams, RawInv
<1>3. HopsInv'
  BY DEF Streams, HopsInv
<1> QED
  BY <1>1, <1>2, <1>3, Zenon DEF Streams

\* What phase "raw" has read is a result, of a string within the limits.
LEMMA RawReads ==
  ASSUME NEW k \in DOMAIN RawStart, NEW d \in Seq(Byte), Len(d) <= RawLimit[k]
  PROVE  /\ k \in DOMAIN Values /\ d # Nil
         /\ Decoded(k, d) \in Reads(Values[k], 0, Len(d)) /\ Decoded(k, d) # Nil
<1>1. k \in DOMAIN Values
  BY LimitsAssumption, KindNames, Zenon
<1>2. 2 * Len(d) < IntMod
  <2>1. Len(d) \in Nat
    OBVIOUS
  <2> QED
    BY <2>1, RawRoom
<1>3. Decoded(k, d) \in Reads(Values[k], 0, Len(d))
  BY <1>1, <1>2, DecodedReads, Zenon
<1>4. Decoded(k, d) # Nil
  BY <1>1, <1>3, ResultIsNotNil, Zenon
<1> QED
  BY <1>1, <1>3, <1>4, NilIsNoText, Zenon

LEMMA InitStreams == Init => Streams
<1> SUFFICES ASSUME Init PROVE Streams
  OBVIOUS
<1>0. MaxOptions \in Nat /\ MaxHops \in Nat \ {0}
  BY LimitsAssumption
<1>1. options = 0 /\ sent = Nil /\ hops = 0
  BY DEF Init
<1>2. CASE phase = "options" /\ kind = "RPC" /\ frame = Nil /\ got = Nil
  <2>1. kind \in DOMAIN Values
    BY <1>2, KindNames
  <2>2. StreamInv
    BY <1>1, <1>2, <2>1, Zenon DEF StreamInv
  <2>3. RawInv
    BY <1>2 DEF RawInv
  <2>4. HopsInv
    BY <1>0, <1>1, <1>2 DEF HopsInv
  <2> QED
    BY <2>2, <2>3, <2>4, Zenon DEF Streams
<1>3. CASE /\ phase = "raw" /\ kind \in DOMAIN RawStart
           /\ frame = RawStart[kind] /\ got = Decoded(kind, frame)
  <2>1. frame \in Seq(Byte) /\ Len(frame) <= RawLimit[kind]
    BY <1>3, LimitsAssumption, Zenon
  <2>2. /\ kind \in DOMAIN Values /\ frame # Nil
        /\ got \in Reads(Values[kind], 0, Len(frame)) /\ got # Nil
    BY <1>3, <2>1, RawReads, Zenon
  <2>3. StreamInv
    BY <1>1, <2>1, <2>2, Zenon DEF StreamInv
  <2>4. RawInv
    BY <1>3, <2>1, <2>2, Zenon DEF RawInv
  <2>5. HopsInv
    BY <1>0, <1>1, <1>3, <2>2 DEF HopsInv
  <2> QED
    BY <2>3, <2>4, <2>5, Zenon DEF Streams
<1> QED
  BY <1>2, <1>3 DEF Init

LEMMA ReadStreams ==
  ASSUME Streams, Read
  PROVE  Streams'
<1>1. /\ frame # Nil /\ got = Nil /\ hops' = hops + 1
      /\ got' = IF Len(frame) > MaxFrame THEN Failed("too long") ELSE Decoded(kind, frame)
      /\ kind' = kind /\ sent' = sent /\ frame' = frame /\ phase' = phase /\ options' = options
  BY DEF Read, config
<1>2. kind \in DOMAIN Values /\ frame \in Seq(Byte)
  BY <1>1, Zenon DEF Streams, StreamInv
<1>3. got' = Failed("too long") \/ got' \in Reads(Values[kind], 0, Len(frame))
  <2>1. CASE Len(frame) > MaxFrame
    BY <1>1, <2>1
  <2>2. CASE ~ (Len(frame) > MaxFrame)
    <3>1. MaxFrame \in Nat /\ 2 * MaxFrame < IntMod
      BY LimitsAssumption
    <3>2. 2 * Len(frame) < IntMod
      <4>1. IntMod \in Nat /\ Len(frame) \in Nat
        BY <1>2, Widths
      <4> QED
        BY <2>2, <3>1, <4>1
    <3> QED
      BY <1>1, <1>2, <2>2, <3>2, DecodedReads, Zenon
  <2> QED
    BY <2>1, <2>2, Zenon
<1>4. got' # Nil
  BY <1>2, <1>3, ResultIsNotNil, Zenon
<1>5. StreamInv'
  BY <1>1, <1>2, <1>3, Zenon DEF Streams, StreamInv
<1>6. phase # "raw"
  BY <1>1, Zenon DEF Streams, RawInv
<1>7. RawInv'
  BY <1>1, <1>6, Zenon DEF RawInv
<1>8. HopsInv'
  <2>1. HopsInv /\ MaxHops \in Nat
    BY LimitsAssumption, Zenon DEF Streams
  <2>2. sent # Nil /\ hops \in 0 .. MaxHops /\ hops < MaxHops
    BY <1>1, <1>6, <2>1, Zenon DEF HopsInv
  <2>3. hops' \in 0 .. MaxHops
    <3>1. MaxHops \in Nat /\ hops \in 0 .. MaxHops /\ hops < MaxHops /\ hops' = hops + 1
      BY <1>1, <2>1, <2>2, Zenon
    <3> QED
      BY <3>1
  <2> QED
    BY <1>1, <1>4, <2>1, <2>2, <2>3, Zenon DEF HopsInv
<1> QED
  BY <1>5, <1>7, <1>8, Zenon DEF Streams

LEMMA RawByteStreams ==
  ASSUME Streams, NEW b \in Alphabet, RawByte(b)
  PROVE  Streams'
<1>1. /\ phase = "raw" /\ Len(frame) < RawLimit[kind]
      /\ frame' = Append(frame, b) /\ got' = Decoded(kind, frame')
      /\ kind' = kind /\ sent' = sent /\ hops' = hops /\ phase' = phase /\ options' = options
  BY DEF RawByte, config
<1>2. frame \in Seq(Byte) /\ kind \in DOMAIN RawStart
  BY <1>1, Zenon DEF Streams, StreamInv, RawInv
<1>3. frame' \in Seq(Byte) /\ Len(frame') <= RawLimit[kind]
  <2>1. b \in Byte
    BY LimitsAssumption
  <2>2. frame' \in Seq(Byte) /\ Len(frame') = Len(frame) + 1
    BY <1>1, <1>2, <2>1, AppendProperties, Zenon
  <2>3. RawLimit[kind] \in Nat /\ Len(frame) \in Nat
    BY <1>2, LimitsAssumption
  <2> QED
    BY <1>1, <2>2, <2>3
<1>4. /\ kind \in DOMAIN Values /\ frame' # Nil
      /\ got' \in Reads(Values[kind], 0, Len(frame')) /\ got' # Nil
  BY <1>1, <1>2, <1>3, RawReads, Zenon
<1>5. StreamInv'
  BY <1>1, <1>3, <1>4, Zenon DEF Streams, StreamInv
<1>6. RawInv'
  BY <1>1, <1>2, <1>3, <1>4, Zenon DEF RawInv
<1>7. HopsInv'
  BY <1>1, <1>4 DEF Streams, HopsInv
<1> QED
  BY <1>5, <1>6, <1>7, Zenon DEF Streams

LEMMA RPCOfMessages ==
  ASSUME NEW m \in MessageValues
  PROVE  "RPC" \in DOMAIN Values /\ rpcWithMessages(<<m>>) \in Values["RPC"]
<1>1. RPC \in RPCValues
  BY NewValues, KindNames DEF Values, Types
<1>2. <<m>> \in Seq(MessageValues)
  OBVIOUS
<1>3. rpcWithMessages(<<m>>) \in RPCValues
  BY <1>1, <1>2, Zenon DEF rpcWithMessages, RPCValues
<1> QED
  BY <1>3, KindNames DEF Values

\* Before the first message there is a hop left.
LEMMA QuietHops == Streams /\ Quiet => hops < MaxHops /\ phase = "running"
<1> SUFFICES ASSUME Streams, Quiet PROVE hops < MaxHops /\ phase = "running"
  OBVIOUS
<1>1. hops = 0 /\ phase = "running"
  BY DEF Streams, HopsInv, Quiet
<1> QED
  BY <1>1, LimitsAssumption

\* What is on the stream, and what was read of it, keep their types.
LEMMA StreamsNext == OptionsInv /\ Streams /\ [Next]_vars => Streams'
<1> SUFFICES ASSUME OptionsInv, Streams, [Next]_vars PROVE Streams'
  OBVIOUS
<1>0. MaxOptions \in Nat /\ options \in 0 .. MaxOptions
  BY LimitsAssumption, Zenon DEF Streams, HopsInv
<1>1. ASSUME NEW b \in BOOLEAN, WithMessageSigning(b) PROVE Streams'
  <2>1. /\ phase = "options" /\ phase' \in {"options", "refused"} /\ options < MaxOptions
        /\ options' = options + 1 /\ UNCHANGED <<kind, sent, frame, got, hops>>
    BY <1>1 DEF WithMessageSigning, MayApply
  <2>2. options' \in 0 .. MaxOptions
    BY <1>0, <2>1
  <2> QED
    BY <2>1, <2>2, OptionStreams
<1>2. ASSUME NEW b \in BOOLEAN, WithStrictSignatureVerification(b) PROVE Streams'
  <2>1. /\ phase = "options" /\ phase' = "options" /\ options < MaxOptions
        /\ options' = options + 1 /\ UNCHANGED <<kind, sent, frame, got, hops>>
    BY <1>2 DEF WithStrictSignatureVerification, MayApply
  <2>2. options' \in 0 .. MaxOptions
    BY <1>0, <2>1
  <2> QED
    BY <2>1, <2>2, OptionStreams
<1>3. ASSUME NEW id \in Ids \cup {<<>>}, WithMessageAuthor(id) PROVE Streams'
  <2>1. /\ phase = "options" /\ phase' \in {"options", "refused"} /\ options < MaxOptions
        /\ options' = options + 1 /\ UNCHANGED <<kind, sent, frame, got, hops>>
    BY <1>3 DEF WithMessageAuthor, MayApply
  <2>2. options' \in 0 .. MaxOptions
    BY <1>0, <2>1
  <2> QED
    BY <2>1, <2>2, OptionStreams
<1>4. CASE NewPubSub
  <2>1. /\ phase = "options" /\ phase' \in {"refused", "running"} /\ options' = options
        /\ UNCHANGED <<kind, sent, frame, got, hops>>
    BY <1>4 DEF NewPubSub
  <2> QED
    BY <1>0, <2>1, OptionStreams
<1>5. ASSUME NEW data \in Payloads, Publish(data) PROVE Streams'
  <2>1. hops < MaxHops /\ phase = "running"
    BY <1>5, QuietHops, Zenon DEF Publish
  <2>2. UNCHANGED <<hops, config>>
    BY <1>5, Zenon DEF Publish
  <2>3. published' \in MessageValues
    BY <1>5, PublishOptions, Zenon
  <2>4. CASE Write("RPC", rpcWithMessages(<<published'>>))
    <3>1. "RPC" \in DOMAIN Values /\ rpcWithMessages(<<published'>>) \in Values["RPC"]
      BY <2>3, RPCOfMessages, Zenon
    <3> QED
      BY <2>1, <2>2, <2>4, <3>1, WriteStreams, Zenon
  <2>5. CASE UNCHANGED <<kind, sent, frame, got>>
    BY <2>2, <2>5, StreamsSame DEF config
  <2> QED
    BY <1>5, <2>4, <2>5, Zenon DEF Publish
<1>6. ASSUME NEW id \in Ids, NEW data \in Payloads, PublishNewer(id, data) PROVE Streams'
  <2>1. hops < MaxHops /\ phase = "running"
    BY <1>6, QuietHops, Zenon DEF PublishNewer
  <2>2. UNCHANGED <<hops, config>> /\ Write("RPC", rpcWithMessages(<<published'>>))
    BY <1>6, Zenon DEF PublishNewer
  <2>3. published' \in MessageValues
    BY <1>6, PublishNewerOptions, Zenon
  <2>4. "RPC" \in DOMAIN Values /\ rpcWithMessages(<<published'>>) \in Values["RPC"]
    BY <2>3, RPCOfMessages, Zenon
  <2> QED
    BY <2>1, <2>2, <2>4, WriteStreams, Zenon
<1>7. ASSUME NEW rpc \in Rpcs, Send(rpc) PROVE Streams'
  <2>1. hops < MaxHops /\ phase = "running"
    BY <1>7, QuietHops, Zenon DEF Send
  <2>2. UNCHANGED <<hops, config>> /\ Write(rpc.kind, rpc.value)
    BY <1>7, Zenon DEF Send
  <2>3. rpc.kind \in DOMAIN Values /\ rpc.value \in Values[rpc.kind]
    BY MessagesAssumption, Zenon
  <2> QED
    BY <2>1, <2>2, <2>3, WriteStreams, Zenon
<1>8. ASSUME NEW b \in BOOLEAN, Forward(b) PROVE Streams'
  <2>1. /\ phase = "running" /\ kind = "RPC" /\ hops < MaxHops /\ got # Nil /\ got.err = "none"
        /\ UNCHANGED <<hops, config>>
    BY <1>8, Zenon DEF Forward
  <2>2. PICK i \in DOMAIN got.val.Publish : Write("RPC", rpcWithMessages(<<got.val.Publish[i]>>))
    BY <1>8, Zenon DEF Forward
  <2>3. got.val \in RPCValues
    <3>1. got = Failed("too long") \/ got \in Reads(Values["RPC"], 0, Len(frame))
      BY <2>1, Zenon DEF Streams, StreamInv
    <3>2. got # Failed("too long")
      <4>1. Failed("too long").err = "too long"
        BY DEF Failed
      <4> QED
        BY <2>1, <4>1, Zenon
    <3>3. got.val \in Values["RPC"]
      BY <2>1, <3>1, <3>2, ReadsIs, Zenon
    <3> QED
      BY <3>3 DEF Values
  <2>4. got.val.Publish[i] \in MessageValues
    <3>1. got.val.Publish \in Seq(MessageValues)
      BY <2>3, Zenon DEF RPCValues
    <3> QED
      BY <3>1
  <2>5. "RPC" \in DOMAIN Values /\ rpcWithMessages(<<got.val.Publish[i]>>) \in Values["RPC"]
    BY <2>4, RPCOfMessages, Zenon
  <2> QED
    BY <2>1, <2>2, <2>5, WriteStreams, Zenon
<1>9. CASE UNCHANGED vars
  BY <1>9, StreamsSame DEF vars
<1> QED
  BY <1>1, <1>2, <1>3, <1>4, <1>5, <1>6, <1>7, <1>8, <1>9, ReadStreams, RawByteStreams, Zenon
  DEF Next

\* Every variable has its type; what is on the stream is bytes.
THEOREM TypeCorrect == Spec => []TypeOK
<1>1. OptionsInv /\ Streams => TypeOK
  <2> SUFFICES ASSUME OptionsInv, Streams PROVE TypeOK
    OBVIOUS
  <2>1. /\ phase \in {"options", "refused", "running", "raw"}
        /\ options \in 0 .. MaxOptions /\ hops \in 0 .. MaxHops
    BY Zenon DEF Streams, HopsInv
  <2>2. /\ signID \in Ids /\ signKey \in {PublicKey[id] : id \in Keystore} \cup {Nil}
        /\ signStrict \in BOOLEAN
    BY Zenon DEF OptionsInv, AuthorInv
  <2>3. kind \in DOMAIN Types
    BY KindNames, Zenon DEF Streams, StreamInv
  <2>4. frame # Nil => \A n \in DOMAIN frame : frame[n] \in Byte
    <3>1. frame # Nil => frame \in Seq(Byte)
      BY Zenon DEF Streams, StreamInv
    <3> QED
      BY <3>1
  <2> QED
    BY <2>1, <2>2, <2>3, <2>4, Zenon DEF TypeOK
<1> QED
  BY <1>1, OptionsInit, OptionsNext, InitStreams, StreamsNext, PTL DEF Spec

\* Whatever bytes come, of any number up to the limit of a frame: what is read of them is a
\* value of the type that was asked for, or a refusal, and no slice expression is out of range.
THEOREM InsideItsSlice == Spec => []NeverOutside
<1>1. Streams => NeverOutside
  <2> SUFFICES ASSUME Streams, got # Nil PROVE got.err \notin {"out of range", "unreachable"}
    BY Zenon DEF NeverOutside
  <2>1. CASE got = Failed("too long")
    BY <2>1 DEF Failed
  <2>2. CASE got \in Reads(Values[kind], 0, Len(frame))
    <3>1. CASE got.err = "none"
      BY <3>1
    <3>2. CASE got.err # "none"
      <4>1. got \in Refused
        BY <2>2, <3>2, ReadsIs, Zenon
      <4> QED
        BY <4>1, RefusedIs, Zenon
    <3> QED
      BY <3>1, <3>2, Zenon
  <2> QED
    BY <2>1, <2>2, Zenon DEF Streams, StreamInv
<1> QED
  BY <1>1, OptionsInit, OptionsNext, InitStreams, StreamsNext, PTL DEF Spec

(***************************************************************************)
(* What is written is what is read.                                        *)
(***************************************************************************)
\* A message is sound if its unknown bytes are.
LEMMA MessageSound ==
  ASSUME NEW depth \in 1 .. 3, NEW m \in MessageValues, Unread("Message", m.XXX_unrecognized)
  PROVE  m \in Sound(depth)["Message"]
<1>1. "Message" \in DOMAIN Values /\ Values["Message"] = MessageValues /\ "Message" \in FlatKinds
  BY DEF Values, FlatKinds
<1>2. ASSUME NEW j \in DOMAIN Types["Message"].fields
      PROVE  FieldIn(Sound(depth - 1), Types["Message"].fields[j], m[Types["Message"].fields[j].name])
  BY <1>1, FlatFields, Zenon DEF FieldIn
<1> QED
  BY <1>1, <1>2, SoundMade

\* An RPC with one message is read as it is written if the message is.
LEMMA OneMessageSound ==
  ASSUME NEW m \in Sound(2)["Message"]
  PROVE  /\ "RPC" \in DOMAIN Values /\ rpcWithMessages(<<m>>) \in Sound(3)["RPC"]
         /\ rpcWithMessages(<<m>>).Publish = <<m>>
<1> DEFINE rpc == rpcWithMessages(<<m>>)
<1>1. m \in MessageValues
  <2>1. "Message" \in DOMAIN Values /\ Values["Message"] = MessageValues /\ 2 \in 0 .. 3
    BY DEF Values
  <2> QED
    BY <2>1, SoundValues
<1>2. "RPC" \in DOMAIN Values /\ rpc \in Values["RPC"]
  BY <1>1, RPCOfMessages
<1>3. /\ rpc.Subscriptions = <<>> /\ rpc.Publish = <<m>> /\ rpc.Control = Nil
      /\ rpc.XXX_unrecognized = <<>>
  BY DEF rpcWithMessages, RPC
<1> HIDE DEF rpc
<1>4. Unread("RPC", rpc.XXX_unrecognized)
  BY <1>2, <1>3, KeptNone DEF Unread
<1>5. ASSUME NEW j \in DOMAIN Types["RPC"].fields
      PROVE  FieldIn(Sound(2), Types["RPC"].fields[j], rpc[Types["RPC"].fields[j].name])
  <2> DEFINE f == Types["RPC"].fields[j]
  <2>1. j \in 1 .. 3 /\ Types["RPC"].fields = RPCFields
    BY DEF Types, RPCFields
  <2>2. CASE j = 1
    <3>1. f.kind = "messages" /\ f.name = "Subscriptions"
      BY <2>1, <2>2 DEF RPCFields, FieldOf
    <3> HIDE DEF f
    <3>2. FieldIn(Sound(2), f, rpc[f.name])
      BY <1>3, <3>1 DEF FieldIn
    <3> QED
      BY <3>2 DEF f
  <2>3. CASE j = 2
    <3>1. f.kind = "messages" /\ f.name = "Publish" /\ f.of = "Message"
      BY <2>1, <2>3 DEF RPCFields, FieldOf
    <3> HIDE DEF f
    <3>2. FieldIn(Sound(2), f, rpc[f.name])
      BY <1>3, <3>1 DEF FieldIn
    <3> QED
      BY <3>2 DEF f
  <2>4. CASE j = 3
    <3>1. f.kind = "message" /\ f.name = "Control"
      BY <2>1, <2>4 DEF RPCFields, FieldOf
    <3> HIDE DEF f
    <3>2. FieldIn(Sound(2), f, rpc[f.name])
      BY <1>3, <3>1 DEF FieldIn
    <3> QED
      BY <3>2 DEF f
  <2> QED
    BY <2>1, <2>2, <2>3, <2>4
<1>6. 3 \in 1 .. 3 /\ 3 - 1 = 2
  OBVIOUS
<1>7. rpc \in Sound(3)["RPC"]
  BY <1>2, <1>4, <1>5, <1>6, SoundMade
<1> QED
  BY <1>2, <1>3, <1>7 DEF rpc

\* What is read is what was written, if it was not too long; and it is the message that was
\* published, or another RPC.
SentInv ==
  /\ phase = "raw" => sent = Nil
  /\ sent # Nil => /\ sent \in Sound(3)[kind] /\ frame = Frame(kind, sent)
                   /\ got # Nil => got = IF Len(frame) > MaxFrame THEN Failed("too long")
                                         ELSE Ok(sent, Len(frame))
PathInv == published # Nil /\ sent # Nil => kind = "RPC" /\ sent = rpcWithMessages(<<published>>)
CarriedInv == SentInv /\ PathInv

\* Nothing is on its way at first.
LEMMA InitCarried == Init => CarriedInv
BY Zenon DEF Init, CarriedInv, SentInv, PathInv

LEMMA WriteSent ==
  ASSUME NEW k \in DOMAIN Values, NEW m \in Sound(3)[k], Write(k, m),
         phase = "running", UNCHANGED config
  PROVE  SentInv'
<1>1. kind' = k /\ sent' = m /\ frame' = Frame(k, m) /\ got' = Nil /\ phase' # "raw"
  BY DEF Write, config
<1> QED
  BY <1>1, Zenon DEF SentInv

LEMMA CarriedSame ==
  ASSUME CarriedInv, UNCHANGED <<kind, sent, frame, got, published>>, phase' = "raw" => phase = "raw"
  PROVE  CarriedInv'
BY Zenon DEF CarriedInv, SentInv, PathInv

\* What is read was sent: what is sound is decoded as it was encoded.
LEMMA ReadCarried ==
  ASSUME Streams, CarriedInv, Read
  PROVE  CarriedInv'
<1>1. /\ frame # Nil /\ got = Nil
      /\ got' = IF Len(frame) > MaxFrame THEN Failed("too long") ELSE Decoded(kind, frame)
      /\ kind' = kind /\ sent' = sent /\ frame' = frame /\ phase' = phase /\ published' = published
  BY DEF Read, config
<1>2. PathInv'
  BY <1>1, Zenon DEF CarriedInv, PathInv
<1>3. kind \in DOMAIN Values
  BY Zenon DEF Streams, StreamInv
<1>4. ASSUME sent # Nil, ~ (Len(frame) > MaxFrame) PROVE Decoded(kind, frame) = Ok(sent, Len(frame))
  <2>1. sent \in Sound(3)[kind] /\ frame = Frame(kind, sent)
    BY <1>4, Zenon DEF CarriedInv, SentInv
  <2>2. sent \in Values[kind] /\ 3 \in 0 .. 3
    BY <1>3, <2>1, SoundValues
  <2>3. frame = MarshalTo(kind, sent) /\ frame \in Seq(Byte)
    BY <1>3, <2>1, <2>2, SizeIsExact, Zenon
  <2>4. 2 * Len(frame) < IntMod
    <3>1. MaxFrame \in Nat /\ 2 * MaxFrame < IntMod /\ IntMod \in Nat /\ Len(frame) \in Nat
      BY <2>3, LimitsAssumption, Widths
    <3> QED
      BY <1>4, <3>1
  <2>5. Trips(3, kind, sent)
    BY <1>3, <2>1, <2>2, SoundTrips, Zenon
  <2>6. UnmarshalTo(3, kind, Types[kind].new, frame) = Ok(sent, Len(frame))
    BY <2>3, <2>4, <2>5, Zenon DEF Trips
  <2> QED
    BY <2>6, DecodedIs, Zenon
<1>5. SentInv'
  BY <1>1, <1>4, Zenon DEF CarriedInv, SentInv
<1> QED
  BY <1>2, <1>5, Zenon DEF CarriedInv

\* A message of either author has no unrecognized bytes but the extra fields.
LEMMA SignedSound ==
  ASSUME NEW pid, NEW key, NEW m, Unread("Message", m.XXX_unrecognized)
  PROVE  Unread("Message", signMessage(pid, key, m).XXX_unrecognized)
BY DEF signMessage

\* A message is sound when it is published,
LEMMA PublishCarried ==
  ASSUME OptionsInv, NEW data \in Payloads, Publish(data)
  PROVE  CarriedInv'
<1> DEFINE plain == [Message EXCEPT !.Data = data, !.TopicIDs = <<Topic>>, !.From = Host,
                                    !.Seqno = Seqno]
           own == [plain EXCEPT !.From = signID]
           m == IF signKey = Nil THEN plain ELSE signMessage(signID, signKey, own)
<1>1. /\ published' = m /\ phase = "running" /\ phase' # "raw" /\ UNCHANGED config
      /\ \/ Write("RPC", rpcWithMessages(<<m>>))
         \/ sent = Nil /\ sent' = sent
  BY DEF Publish, Quiet, config
<1>2. published' \in MessageValues
  BY PublishOptions
<1>3. Unread("Message", <<>>)
  BY KeptNone DEF Unread, Values
<1>4. plain.XXX_unrecognized = <<>> /\ own.XXX_unrecognized = <<>>
  BY DEF Message
<1> HIDE DEF plain, own
<1>5. Unread("Message", m.XXX_unrecognized)
  BY <1>3, <1>4, SignedSound
<1> HIDE DEF m
<1>6. m \in Sound(2)["Message"]
  <2>1. 2 \in 1 .. 3
    OBVIOUS
  <2> QED
    BY <1>1, <1>2, <1>5, <2>1, MessageSound
<1>7. CASE Write("RPC", rpcWithMessages(<<m>>))
  <2>1. SentInv'
    BY <1>1, <1>6, <1>7, OneMessageSound, WriteSent
  <2>2. PathInv'
    BY <1>1, <1>7 DEF Write, PathInv
  <2> QED
    BY <2>1, <2>2 DEF CarriedInv
<1>8. CASE sent = Nil /\ sent' = sent
  BY <1>8, Zenon DEF CarriedInv, SentInv, PathInv
<1> QED
  BY <1>1, <1>7, <1>8

\* also with Extra,
LEMMA PublishNewerCarried ==
  ASSUME OptionsInv, NEW author \in Ids, NEW data \in Payloads, PublishNewer(author, data)
  PROVE  CarriedInv'
<1> DEFINE plain == [Message EXCEPT !.Data = data, !.TopicIDs = <<Topic>>, !.From = author,
                                    !.Seqno = Seqno, !.XXX_unrecognized = Extra]
           m == signMessage(author, PublicKey[author], plain)
<1>1. /\ published' = m /\ phase = "running" /\ UNCHANGED config
      /\ Write("RPC", rpcWithMessages(<<m>>))
  BY DEF PublishNewer, Quiet, config
<1>2. published' \in MessageValues
  BY PublishNewerOptions
<1>3. Unread("Message", Extra)
  <2>1. "Message" \in DOMAIN Values /\ Extra \in Seq(Byte) /\ Unknown("Message", Extra)
    BY MessagesAssumption DEF Values
  <2> QED
    BY <2>1, UnknownKept
<1>4. plain.XXX_unrecognized = Extra
  BY DEF Message
<1> HIDE DEF plain
<1>5. Unread("Message", m.XXX_unrecognized)
  BY <1>3, <1>4, SignedSound
<1> HIDE DEF m
<1>6. m \in Sound(2)["Message"]
  <2>1. 2 \in 1 .. 3
    OBVIOUS
  <2> QED
    BY <1>1, <1>2, <1>5, <2>1, MessageSound
<1>7. SentInv'
  BY <1>1, <1>6, OneMessageSound, WriteSent
<1>8. PathInv'
  BY <1>1 DEF Write, PathInv
<1> QED
  BY <1>7, <1>8 DEF CarriedInv

\* and is the published one when it is sent on.
LEMMA ForwardCarried ==
  ASSUME Streams, CarriedInv, NEW b \in BOOLEAN, Forward(b)
  PROVE  CarriedInv'
<1>1. /\ phase = "running" /\ kind = "RPC" /\ got # Nil /\ got.err = "none"
      /\ published' = published /\ UNCHANGED config
  BY DEF Forward
<1>2. PICK i \in DOMAIN got.val.Publish : Write("RPC", rpcWithMessages(<<got.val.Publish[i]>>))
  BY Zenon DEF Forward
<1>3. sent # Nil
  BY <1>1 DEF Streams, StreamInv, HopsInv
<1>4. sent \in Sound(3)["RPC"] /\ got.val = sent
  <2>1. /\ sent \in Sound(3)["RPC"]
        /\ got = IF Len(frame) > MaxFrame THEN Failed("too long") ELSE Ok(sent, Len(frame))
    BY <1>1, <1>3, Zenon DEF CarriedInv, SentInv
  <2>2. got # Failed("too long")
    <3>1. Failed("too long").err = "too long" /\ "too long" # "none"
      BY DEF Failed
    <3> QED
      BY <1>1, <3>1, Zenon
  <2>3. got = Ok(sent, Len(frame))
    BY <2>1, <2>2, Zenon
  <2>4. Ok(sent, Len(frame)).val = sent
    BY DEF Ok
  <2> QED
    BY <2>1, <2>3, <2>4, Zenon
<1>5. sent.Publish[i] \in Sound(2)["Message"]
  <2>1. "RPC" \in DOMAIN Values /\ 3 \in 0 .. 3 /\ 3 - 1 = 2
    BY DEF Values
  <2>2. 2 \in DOMAIN Types["RPC"].fields
    BY DEF Types, RPCFields
  <2> DEFINE f == Types["RPC"].fields[2]
  <2>3. FieldIn(Sound(2), f, sent[f.name])
    BY <1>4, <2>1, <2>2, SoundValues
  <2>4. f.kind = "messages" /\ f.name = "Publish" /\ f.of = "Message"
    BY DEF Types, RPCFields, FieldOf
  <2> HIDE DEF f
  <2> QED
    BY <1>2, <1>4, <2>3, <2>4 DEF FieldIn
<1>6. Write("RPC", rpcWithMessages(<<sent.Publish[i]>>)) /\ i \in DOMAIN sent.Publish
  BY <1>2, <1>4, Zenon
<1>7. SentInv'
  BY <1>1, <1>5, <1>6, OneMessageSound, WriteSent
<1>8. PathInv'
  <2> SUFFICES ASSUME published # Nil
               PROVE  kind' = "RPC" /\ sent' = rpcWithMessages(<<published>>)
    BY <1>1, Zenon DEF PathInv
  <2>1. sent = rpcWithMessages(<<published>>)
    BY <1>3, Zenon DEF CarriedInv, PathInv
  <2>2. sent.Publish = <<published>>
    BY <2>1 DEF rpcWithMessages, RPC
  <2>3. sent.Publish[i] = published
    BY <1>6, <2>2
  <2> QED
    BY <1>6, <2>3 DEF Write
<1> QED
  BY <1>7, <1>8 DEF CarriedInv

\* No step loses it.
LEMMA CarriedNext == OptionsInv /\ Streams /\ CarriedInv /\ [Next]_vars => CarriedInv'
<1> SUFFICES ASSUME OptionsInv, Streams, CarriedInv, [Next]_vars PROVE CarriedInv'
  OBVIOUS
<1>1. ASSUME NEW b \in BOOLEAN, WithMessageSigning(b) PROVE CarriedInv'
  BY <1>1, CarriedSame DEF WithMessageSigning, MayApply
<1>2. ASSUME NEW b \in BOOLEAN, WithStrictSignatureVerification(b) PROVE CarriedInv'
  BY <1>2, CarriedSame DEF WithStrictSignatureVerification, MayApply
<1>3. ASSUME NEW id \in Ids \cup {<<>>}, WithMessageAuthor(id) PROVE CarriedInv'
  BY <1>3, CarriedSame DEF WithMessageAuthor, MayApply
<1>4. CASE NewPubSub
  BY <1>4, CarriedSame DEF NewPubSub
<1>5. ASSUME NEW rpc \in Rpcs, Send(rpc) PROVE CarriedInv'
  <2>1. /\ phase = "running" /\ published = Nil /\ published' = published /\ UNCHANGED config
        /\ Write(rpc.kind, rpc.value)
    BY <1>5 DEF Send, Quiet
  <2>2. rpc.kind \in DOMAIN Values /\ rpc.value \in Sound(3)[rpc.kind]
    <3>1. /\ rpc.kind \in DOMAIN Values /\ rpc.value \in Values[rpc.kind]
          /\ Genuine(rpc.kind, rpc.value)
      BY MessagesAssumption
    <3> QED
      BY <3>1, GenuineSound
  <2>3. SentInv'
    BY <2>1, <2>2, WriteSent
  <2>4. PathInv'
    BY <2>1 DEF PathInv
  <2> QED
    BY <2>3, <2>4 DEF CarriedInv
<1>6. ASSUME NEW b \in Alphabet, RawByte(b) PROVE CarriedInv'
  <2>1. phase = "raw" /\ phase' = "raw" /\ sent' = sent /\ published' = published
    BY <1>6 DEF RawByte, config
  <2>2. sent = Nil
    BY <2>1 DEF CarriedInv, SentInv
  <2> QED
    BY <2>1, <2>2 DEF CarriedInv, SentInv, PathInv
<1>7. CASE UNCHANGED vars
  BY <1>7, CarriedSame DEF vars
<1> QED
  BY <1>1, <1>2, <1>3, <1>4, <1>5, <1>6, <1>7, ReadCarried, PublishCarried, PublishNewerCarried,
     ForwardCarried, Zenon DEF Next

\* A peer reads from a stream the value that was written, to the last field and no further,
\* whichever type it is of and however many bytes it takes: nil and empty stay apart, lists
\* keep their order, nested messages their fields, and bytes nobody knows are kept as they
\* are (Size, MarshalTo and Unmarshal in rpc.pb.go, handleNewStream in comm.go).
THEOREM WrittenIsRead == Spec => []RoundTrip
<1>1. Streams /\ CarriedInv => RoundTrip
  <2> SUFFICES ASSUME Streams, CarriedInv, sent # Nil, got # Nil, Len(frame) <= MaxFrame
               PROVE  got = Ok(sent, Len(frame))
    BY Zenon DEF RoundTrip
  <2>1. frame \in Seq(Byte)
    BY Zenon DEF Streams, StreamInv
  <2>2. Len(frame) \in Nat /\ MaxFrame \in Nat
    BY <2>1, LimitsAssumption
  <2>3. ~ (Len(frame) > MaxFrame)
    BY <2>2
  <2> QED
    BY <2>3, Zenon DEF CarriedInv, SentInv
<1> QED
  BY <1>1, OptionsInit, OptionsNext, InitStreams, StreamsNext, InitCarried, CarriedNext, PTL DEF Spec

\* After any number of hops a message still has a signature that verifies, of whatever data,
\* by whichever author, with fields that the nodes on its way do not know: each decodes it,
\* encodes it without signature and key, and gets the bytes that the author signed
\* (signMessage and verifyMessageSignature in sign.go, Message.Unmarshal in rpc.pb.go).
THEOREM SignaturesLast == Spec => []SignatureSurvives
<1>1. OptionsInv /\ Streams /\ CarriedInv => SignatureSurvives
  <2> SUFFICES ASSUME OptionsInv, Streams, CarriedInv, published # Nil, got # Nil,
                      Len(frame) <= MaxFrame
               PROVE  /\ got.err = "none"
                      /\ published.Signature # Nil => \A i \in DOMAIN got.val.Publish :
                                                         Accepts(TRUE, got.val.Publish[i])
    BY Zenon DEF SignatureSurvives
  <2>1. phase = "running" /\ Accepts(signStrict, published)
    BY Zenon DEF OptionsInv, PublishedInv
  <2>2. sent # Nil
    BY <2>1 DEF Streams, StreamInv, HopsInv
  <2>3. got = Ok(sent, Len(frame))
    <3>1. ~ (Len(frame) > MaxFrame)
      <4>1. frame \in Seq(Byte)
        BY Zenon DEF Streams, StreamInv
      <4>2. Len(frame) \in Nat /\ MaxFrame \in Nat
        BY <4>1, LimitsAssumption
      <4> QED
        BY <4>2
    <3> QED
      BY <2>2, <3>1, Zenon DEF CarriedInv, SentInv
  <2>4. got.err = "none" /\ got.val = sent
    BY <2>3 DEF Ok
  <2>5. got.val.Publish = <<published>>
    <3>1. sent = rpcWithMessages(<<published>>)
      BY <2>2, Zenon DEF CarriedInv, PathInv
    <3> QED
      BY <2>4, <3>1 DEF rpcWithMessages, RPC
  <2>6. published.Signature # Nil => Accepts(TRUE, published)
    BY <2>1, Zenon DEF Accepts
  <2>7. \A i \in DOMAIN <<published>> : <<published>>[i] = published
    OBVIOUS
  <2> QED
    BY <2>4, <2>5, <2>6, <2>7, Zenon
<1> QED
  BY <1>1, OptionsInit, OptionsNext, InitStreams, StreamsNext, InitCarried, CarriedNext, PTL DEF Spec

\* What is read of such bytes is written and read again as it is.
LEMMA ReadAgain ==
  ASSUME NEW k \in DOMAIN RawStart, k \in DOMAIN Values, NEW d \in Seq(Byte),
         Len(d) <= RawLimit[k], NEW r, r = Decoded(k, d), r.err = "none",
         NEW again, again = Frame(k, r.val)
  PROVE  Decoded(k, again) = Ok(r.val, Len(again))
<1> DEFINE l == Len(d)
           new == Types[k].new
           m == r.val
<1>1. l \in Nat /\ l <= RawLimit[k]
  OBVIOUS
<1> HIDE DEF l
<1>2. 2 * Cost(l) < IntMod /\ 2 * l < IntMod /\ Cost(l) \in Nat
  BY <1>1, RawRoom
<1>3. new \in Sound(3)[k]
  <2>1. 3 \in 1 .. 3
    OBVIOUS
  <2> QED
    BY <2>1, NewSound
<1>4. Size(k, new) = 0
  BY NewSize
<1> HIDE DEF new
<1>5. IntMod \in Nat
  BY Widths
<1>6. Room(k, new, d)
  <2>1. 0 + Cost(l) < IntMod
    BY <1>2, <1>5
  <2>2. Size(k, new) + Cost(l) < IntMod
    BY <1>4, <2>1
  <2> QED
    BY <1>2, <2>2 DEF Room, l
<1>7. r = UnmarshalTo(3, k, new, d)
  BY DecodedIs DEF new
<1>8. Grown(3, k, new, r)
  BY <1>3, <1>6, <1>7, AllGrow, Zenon DEF Growing
<1>9. m \in Sound(3)[k] /\ Size(k, m) <= Size(k, new) + Cost(r.next)
  BY <1>8 DEF Grown
<1>10. m \in Values[k] /\ 3 \in 0 .. 3 /\ new \in Values[k]
  <2>1. 3 \in 0 .. 3
    OBVIOUS
  <2> HIDE DEF m
  <2> QED
    BY <1>3, <1>9, <2>1, SoundValues
<1>11. r.next \in 0 .. l
  <2>1. 2 * Len(d) < IntMod
    BY <1>2 DEF l
  <2>2. r \in Reads(Values[k], 0, Len(d))
    BY <1>7, <1>10, <2>1, UnmarshalReads
  <2> QED
    BY <2>2, ReadsIs DEF l
<1>12. /\ again = MarshalTo(k, m) /\ Len(MarshalTo(k, m)) = Size(k, m) /\ Size(k, m) \in Nat
  BY <1>10, SizeIsExact, MarshalIs
<1>13. 2 * Len(again) < IntMod
  <2>1. Cost(r.next) <= Cost(l) /\ Cost(r.next) \in Nat
    <3>1. r.next \in Nat /\ r.next <= l
      BY <1>1, <1>11
    <3> QED
      BY <1>1, <3>1, CostIs, CostMore
  <2> DEFINE s == Size(k, m)
             more == Cost(r.next)
  <2>2. s <= 0 + more /\ s \in Nat /\ more \in Nat /\ more <= Cost(l) /\ Len(again) = s
    BY <1>4, <1>9, <1>12, <2>1
  <2> HIDE DEF s, more
  <2> QED
    BY <1>2, <1>5, <2>2
<1>14. Trips(3, k, m)
  BY <1>9, <1>10, SoundTrips, Zenon
<1>15. UnmarshalTo(3, k, new, again) = Ok(m, Len(again))
  BY <1>12, <1>13, <1>14, Zenon DEF Trips, new
<1> QED
  BY <1>15, DecodedIs, Zenon DEF new, m

\* Phase "raw" has read what is on the stream.
RawGot == phase = "raw" => got = Decoded(kind, frame)

LEMMA InitRaw == Init => RawGot
BY Zenon DEF Init, RawGot

\* In the raw phase got is what frame decodes to.
LEMMA RawNext == Streams /\ RawGot /\ [Next]_vars => RawGot'
<1> SUFFICES ASSUME Streams, RawGot, [Next]_vars, phase' = "raw"
             PROVE  got' = Decoded(kind, frame)'
  BY DEF RawGot
<1>1. ASSUME NEW b \in Alphabet, RawByte(b) PROVE got' = Decoded(kind, frame)'
  BY <1>1, Zenon DEF RawByte, Decoded
<1>2. ASSUME phase = "raw", UNCHANGED <<kind, frame, got>> PROVE got' = Decoded(kind, frame)'
  BY <1>2, Zenon DEF RawGot, Decoded
<1>3. ASSUME NEW b \in BOOLEAN, WithMessageSigning(b) \/ WithStrictSignatureVerification(b)
      PROVE FALSE
  BY <1>3 DEF WithMessageSigning, WithStrictSignatureVerification, MayApply
<1>4. ASSUME NEW id \in Ids \cup {<<>>}, WithMessageAuthor(id) PROVE FALSE
  BY <1>4 DEF WithMessageAuthor, MayApply
<1>5. CASE NewPubSub
  BY <1>5 DEF NewPubSub
<1>6. ASSUME NEW data \in Payloads, Publish(data) \/ \E id \in Ids : PublishNewer(id, data)
      PROVE FALSE
  BY <1>6 DEF Publish, PublishNewer, Quiet, config
<1>7. ASSUME NEW rpc \in Rpcs, Send(rpc) PROVE FALSE
  BY <1>7 DEF Send, Quiet, config
<1>8. ASSUME Read PROVE FALSE
  BY <1>8 DEF Read, config, Streams, RawInv
<1>9. ASSUME NEW b \in BOOLEAN, Forward(b) PROVE FALSE
  BY <1>9 DEF Forward, config
<1>10. CASE UNCHANGED vars
  BY <1>2, <1>10 DEF vars
<1> QED
  BY <1>1, <1>3, <1>4, <1>5, <1>6, <1>7, <1>8, <1>9, <1>10, Zenon DEF Next

\* Whatever bytes a peer sends, of any number up to the limit of a frame: if they decode, then
\* what this node writes for the value decodes to the same value, though it need not be the
\* same bytes (Unmarshal, skipRpc and MarshalTo in rpc.pb.go).
THEOREM WrittenAgain == Spec => []Stable
<1>1. Streams /\ RawGot => Stable
  <2> SUFFICES ASSUME Streams, RawGot, phase = "raw", got.err = "none",
                      NEW again, again = Frame(kind, got.val)
               PROVE  Decoded(kind, again) = Ok(got.val, Len(again))
    BY Zenon DEF Stable
  <2>1. /\ kind \in DOMAIN RawStart /\ kind \in DOMAIN Values /\ frame \in Seq(Byte)
        /\ Len(frame) <= RawLimit[kind]
    BY Zenon DEF Streams, StreamInv, RawInv
  <2>2. got = Decoded(kind, frame)
    BY DEF RawGot
  <2> QED
    BY <2>1, <2>2, ReadAgain
<1> QED
  BY <1>1, OptionsInit, OptionsNext, InitStreams, StreamsNext, InitRaw, RawNext, PTL DEF Spec

=============================================================================
