------------------------- MODULE ChainService_proofs -------------------------
(* The connection to a chain service, for every number of retries and every  *)
(* base and maximal delay, and the Solana service's reply to get_block, for  *)
(* every block and every reading of its transactions.                        *)
EXTENDS GrpcConnection, SolanaBlock, SequenceTheorems, WellFoundedInduction, TLAPS

(***************************************************************************)
(* Recursive functions over an index.                                      *)
(***************************************************************************)

\* Induction over the natural numbers, for a set of them.
LEMMA NatSet ==
    ASSUME NEW T, 0 \in T, \A n \in Nat : n \in T => n + 1 \in T
    PROVE  \A n \in Nat : n \in T
<1> DEFINE B == Nat \ T
           R == OpToRel(<, Nat)
<1>1. ASSUME B # {} PROVE FALSE
  <2>1. IsWellFoundedOn(R, Nat)
    BY NatLessThanWellFounded
  <2>2. \A x, y \in Nat : <<x, y>> \in R <=> x < y
    BY DEF OpToRel
  <2> HIDE DEF R
  <2>3. PICK x \in B : \A y \in B : ~(<<y, x>> \in R)
    BY <1>1, <2>1, WFMin
  <2>4. x \in Nat /\ x # 0
    OBVIOUS
  <2>5. x - 1 \in Nat /\ x - 1 < x /\ (x - 1) + 1 = x
    BY <2>4
  <2>6. x - 1 \in T
    BY <2>2, <2>3, <2>4, <2>5
  <2> QED BY <2>5, <2>6
<1> QED BY <1>1

\* A value that is in D at first and stays there is in D.
LEMMA StaysIn ==
    ASSUME NEW D, NEW g, NEW n \in Nat, g[0] \in D,
           \A i \in 1..n : g[i - 1] \in D => g[i] \in D
    PROVE  \A i \in 0..n : g[i] \in D
<1> DEFINE T == {m \in Nat : m <= n => g[m] \in D}
<1>1. 0 \in T
  OBVIOUS
<1>2. ASSUME NEW m \in Nat, m \in T PROVE m + 1 \in T
  <2> SUFFICES ASSUME m + 1 <= n PROVE g[m + 1] \in D
    OBVIOUS
  <2>1. m + 1 \in 1..n /\ (m + 1) - 1 = m /\ m <= n
    OBVIOUS
  <2>2. g[m] \in D
    BY <1>2, <2>1
  <2> QED BY <2>1, <2>2
<1> HIDE DEF T
<1>3. \A m \in Nat : m \in T
  BY <1>1, <1>2, NatSet
<1> QED BY <1>3 DEF T

\* The functions g and h start alike and continue alike up to n.
Alike(g, h, n) == g[0] = h[0] /\ \A i \in 1..n : g[i - 1] = h[i - 1] => g[i] = h[i]

\* Such functions are alike.
LEMMA StayAlike ==
    ASSUME NEW g, NEW h, NEW n \in Nat, Alike(g, h, n)
    PROVE  \A i \in 0..n : g[i] = h[i]
<1> USE DEF Alike
<1> DEFINE T == {m \in Nat : m <= n => g[m] = h[m]}
<1>1. 0 \in T
  OBVIOUS
<1>2. ASSUME NEW m \in Nat, m \in T PROVE m + 1 \in T
  <2> SUFFICES ASSUME m + 1 <= n PROVE g[m + 1] = h[m + 1]
    OBVIOUS
  <2>1. m + 1 \in 1..n /\ (m + 1) - 1 = m /\ m <= n
    OBVIOUS
  <2>2. g[m] = h[m]
    BY <1>2, <2>1
  <2> QED BY <2>1, <2>2
<1> HIDE DEF T
<1>3. \A m \in Nat : m \in T
  BY <1>1, <1>2, NatSet
<1> QED BY <1>3 DEF T

\* The steps of a recursion of length n over the values D.
Steps(n, D) == [1..n -> [D -> D]]

\* There is a function that starts with b and whose i-th value comes from the one
\* before it by the i-th of the steps F.
LEMMA Recursion ==
    ASSUME NEW D, NEW b \in D, NEW len \in Nat, NEW F \in Steps(len, D)
    PROVE  \E g \in [0..len -> D] : g[0] = b /\ \A i \in 1..len : g[i] = F[i][g[i - 1]]
<1> USE DEF Steps
<1> DEFINE Until(g, n) == g[0] = b /\ \A i \in 1..n : g[i] = F[i][g[i - 1]]
           T == {n \in Nat : n <= len => \E g \in [0..n -> D] : Until(g, n)}
<1>1. 0 \in T
  <2> DEFINE g == [i \in 0..0 |-> b]
  <2>1. g \in [0..0 -> D] /\ Until(g, 0)
    OBVIOUS
  <2> QED BY <2>1
<1>2. ASSUME NEW n \in Nat, n \in T PROVE n + 1 \in T
  <2> SUFFICES ASSUME n + 1 <= len PROVE \E g \in [0..(n + 1) -> D] : Until(g, n + 1)
    OBVIOUS
  <2>1. PICK g \in [0..n -> D] : Until(g, n)
    BY <1>2
  <2> DEFINE x == F[n + 1][g[n]]
             h == [i \in 0..(n + 1) |-> IF i <= n THEN g[i] ELSE x]
  <2>2. n \in 0..n /\ g[n] \in D /\ n + 1 \in 1..len
    OBVIOUS
  <2>3. x \in D
    BY <2>2
  <2>4. h \in [0..(n + 1) -> D] /\ (\A i \in 0..n : h[i] = g[i]) /\ h[n + 1] = x
    <3> HIDE DEF x
    <3> QED BY <2>3
  <2> HIDE DEF h
  <2>5. h[0] = b
    BY <2>1, <2>4
  <2>6. ASSUME NEW i \in 1..(n + 1) PROVE h[i] = F[i][h[i - 1]]
    <3>1. i - 1 \in 0..n
      OBVIOUS
    <3>2. h[i - 1] = g[i - 1]
      BY <2>4, <3>1
    <3>3. CASE i = n + 1
      <4>1. i - 1 = n
        BY <3>3
      <4> QED BY <2>4, <3>2, <3>3, <4>1
    <3>4. CASE i # n + 1
      <4>1. i \in 1..n /\ i \in 0..n
        BY <3>4
      <4>2. g[i] = F[i][g[i - 1]]
        BY <2>1, <4>1
      <4> QED BY <2>4, <3>2, <4>1, <4>2
    <3> QED BY <3>3, <3>4
  <2> QED BY <2>4, <2>5, <2>6
<1> HIDE DEF T
<1>3. len \in T
  BY <1>1, <1>2, NatSet
<1> QED BY <1>3 DEF T

\* The least of some indices is one of them.
LEMMA MinIndex ==
    ASSUME NEW n \in Nat, NEW I \in SUBSET (1..n), I # {}
    PROVE  Min(I) \in I
<1> DEFINE R == OpToRel(<, Nat)
<1>1. IsWellFoundedOn(R, Nat)
  BY NatLessThanWellFounded
<1>2. \A x, y \in Nat : <<x, y>> \in R <=> x < y
  BY DEF OpToRel
<1> HIDE DEF R
<1>3. I \subseteq Nat
  OBVIOUS
<1>4. PICK x \in I : \A y \in I : ~(<<y, x>> \in R)
  BY <1>1, <1>3, WFMin
<1>5. ASSUME NEW y \in I PROVE x <= y
  <2>1. x \in Nat /\ y \in Nat
    OBVIOUS
  <2>2. ~(y < x)
    BY <1>2, <1>4, <2>1
  <2> QED BY <2>1, <2>2
<1> QED BY <1>4, <1>5 DEF Min

\* The recursive function of SumSeq.
Sums(s) == CHOOSE g : g = [n \in 0..Len(s) |-> IF n = 0 THEN 0 ELSE g[n - 1] + s[n]]

\* What SumSeq computes, one number after the other.
LEMMA SumDef ==
    ASSUME NEW s \in Seq(Nat)
    PROVE  /\ SumSeq(s) = Sums(s)[Len(s)]
           /\ Sums(s)[0] = 0
           /\ \A i \in 1..Len(s) : Sums(s)[i] = Sums(s)[i - 1] + s[i]
<1> DEFINE Step(g, n) == IF n = 0 THEN 0 ELSE g[n - 1] + s[n]
           D == Nat
           F == [i \in 1..Len(s) |-> [x \in D |-> x + s[i]]]
<1>1. Len(s) \in Nat /\ \A i \in 1..Len(s) : s[i] \in Nat
  OBVIOUS
<1>2. F \in Steps(Len(s), D) /\ 0 \in D
  BY <1>1 DEF Steps
<1>3. \A i \in 1..Len(s), x \in D : F[i][x] = x + s[i]
  OBVIOUS
<1> HIDE DEF F, D
<1>4. PICK g \in [0..Len(s) -> D] : g[0] = 0 /\ \A i \in 1..Len(s) : g[i] = F[i][g[i - 1]]
  <2> DEFINE zero == 0
  <2> HIDE DEF zero
  <2>1. zero \in D
    BY <1>2 DEF zero
  <2>2. \E g \in [0..Len(s) -> D] : g[0] = zero /\ \A i \in 1..Len(s) : g[i] = F[i][g[i - 1]]
    BY <1>1, <1>2, <2>1, Recursion
  <2> QED BY <2>2 DEF zero
<1>5. \A i \in 0..Len(s) : g[i] = Step(g, i)
  <2> TAKE i \in 0..Len(s)
  <2>1. CASE i = 0
    BY <1>4, <2>1
  <2>2. CASE i # 0
    <3>1. i \in 1..Len(s) /\ i - 1 \in 0..Len(s)
      BY <1>1, <2>2
    <3>2. g[i - 1] \in D
      BY <3>1
    <3> QED BY <1>3, <1>4, <2>2, <3>1, <3>2
  <2> QED BY <2>1, <2>2
<1>6. g = [i \in 0..Len(s) |-> g[i]]
  OBVIOUS
<1>7. g = [i \in 0..Len(s) |-> Step(g, i)]
  BY <1>5, <1>6
<1>8. Sums(s) = [i \in 0..Len(s) |-> Step(Sums(s), i)]
  BY <1>7, Zenon DEF Sums
<1>9. SumSeq(s) = Sums(s)[Len(s)]
  BY Zenon DEF SumSeq, Sums
<1> HIDE DEF Sums
<1>10. \A i \in 0..Len(s) : Sums(s)[i] = Step(Sums(s), i)
  BY <1>8
<1>11. \A i \in 1..Len(s) : i \in 0..Len(s) /\ i # 0
  BY <1>1
<1>12. 0 \in 0..Len(s)
  BY <1>1
<1> QED BY <1>9, <1>10, <1>11, <1>12

\* A sum of naturals is one, the sum of none is 0, and the last number counts.
LEMMA SumType ==
    ASSUME NEW s \in Seq(Nat)
    PROVE  SumSeq(s) \in Nat
<1>1. Len(s) \in Nat /\ \A i \in 1..Len(s) : s[i] \in Nat
  OBVIOUS
<1>2. \A i \in 1..Len(s) : Sums(s)[i - 1] \in Nat => Sums(s)[i] \in Nat
  BY <1>1, SumDef
<1>3. Sums(s)[0] \in Nat
  BY SumDef
<1>4. \A i \in 0..Len(s) : Sums(s)[i] \in Nat
  BY <1>1, <1>2, <1>3, StaysIn
<1> QED BY <1>1, <1>4, SumDef

LEMMA SumNone == \A s \in Seq(Nat) : Len(s) = 0 => SumSeq(s) = 0
<1> SUFFICES ASSUME NEW s \in Seq(Nat), Len(s) = 0 PROVE SumSeq(s) = 0
  OBVIOUS
<1>1. SumSeq(s) = Sums(s)[Len(s)] /\ Sums(s)[0] = 0
  BY SumDef
<1> QED BY <1>1

LEMMA SumAppend ==
    ASSUME NEW s \in Seq(Nat), NEW x \in Nat
    PROVE  SumSeq(Append(s, x)) = SumSeq(s) + x
<1> DEFINE t == Append(s, x)
<1>1. /\ t \in Seq(Nat) /\ Len(t) = Len(s) + 1 /\ t[Len(s) + 1] = x /\ Len(s) \in Nat
      /\ \A i \in 1..Len(s) : t[i] = s[i]
  OBVIOUS
<1> HIDE DEF t
<1>2. Sums(s)[0] = Sums(t)[0]
  BY <1>1, SumDef
<1>3. ASSUME NEW i \in 1..Len(s), Sums(s)[i - 1] = Sums(t)[i - 1]
      PROVE  Sums(s)[i] = Sums(t)[i]
  <2>1. i \in 1..Len(t) /\ t[i] = s[i]
    BY <1>1
  <2>2. Sums(s)[i] = Sums(s)[i - 1] + s[i]
    BY SumDef
  <2>3. Sums(t)[i] = Sums(t)[i - 1] + t[i]
    BY <1>1, <2>1, SumDef
  <2> QED BY <1>3, <2>1, <2>2, <2>3
<1>4. \A i \in 0..Len(s) : Sums(s)[i] = Sums(t)[i]
  <2>1. Alike(Sums(s), Sums(t), Len(s))
    BY <1>2, <1>3 DEF Alike
  <2> QED BY <1>1, <2>1, StayAlike
<1>5. Len(s) + 1 \in 1..Len(t) /\ (Len(s) + 1) - 1 = Len(s) /\ Len(s) \in 0..Len(s)
  BY <1>1
<1>6. Sums(t)[Len(s) + 1] = Sums(t)[Len(s)] + x
  BY <1>1, <1>5, SumDef
<1>7. SumSeq(t) = Sums(t)[Len(s) + 1] /\ SumSeq(s) = Sums(s)[Len(s)]
  BY <1>1, SumDef
<1>8. SumSeq(t) = SumSeq(s) + x
  BY <1>4, <1>5, <1>6, <1>7
<1> QED BY <1>8 DEF t

\* The concatenations of the first sequences of ss: g has them for each length.
Concats(g, ss) == g[0] = <<>> /\ \A i \in 1..Len(ss) : g[i] = g[i - 1] \o ss[i]

\* FlattenSeq is the last of them.
LEMMA FlattenDef ==
    ASSUME NEW S, NEW ss \in Seq(Seq(S))
    PROVE  \E g \in [0..Len(ss) -> Seq(S)] : Concats(g, ss) /\ FlattenSeq(ss) = g[Len(ss)]
<1> DEFINE n == Len(ss)
           D == Seq(S)
           F == [i \in 1..n |-> [x \in D |-> x \o ss[i]]]
           Step(g, i) == IF i = 1 THEN ss[i] ELSE g[i - 1] \o ss[i]
           f == CHOOSE g : g = [i \in 1..n |-> Step(g, i)]
<1>1. n \in Nat /\ \A i \in 1..n : ss[i] \in Seq(S)
  OBVIOUS
<1>2. F \in Steps(n, D)
  <2>1. \A i \in 1..n : \A x \in Seq(S) : x \o ss[i] \in Seq(S)
    BY <1>1, ConcatProperties
  <2> QED BY <2>1 DEF Steps
<1>3. \A i \in 1..n, x \in Seq(S) : F[i][x] = x \o ss[i]
  OBVIOUS
<1>4. <<>> \in D
  OBVIOUS
<1>5. Len(ss) = 0 => FlattenSeq(ss) = ss /\ ss = <<>>
  BY DEF FlattenSeq
<1>6. Len(ss) # 0 => FlattenSeq(ss) = f[n]
  BY Zenon DEF FlattenSeq
<1> HIDE DEF F, n
<1>7. PICK g \in [0..n -> D] : g[0] = <<>> /\ \A i \in 1..n : g[i] = F[i][g[i - 1]]
  <2> DEFINE none == <<>>
  <2> HIDE DEF D, none
  <2>1. none \in D /\ n \in Nat
    BY <1>1, <1>4 DEF none
  <2>2. \E g \in [0..n -> D] : g[0] = none /\ \A i \in 1..n : g[i] = F[i][g[i - 1]]
    BY <1>2, <2>1, Recursion
  <2> QED BY <2>2 DEF none
<1>8. \A i \in 1..n : g[i - 1] \in Seq(S) /\ g[i] = g[i - 1] \o ss[i]
  <2> TAKE i \in 1..n
  <2>1. i - 1 \in 0..n
    BY <1>1
  <2> QED BY <1>3, <1>7, <2>1
<1>9. Concats(g, ss)
  BY <1>7, <1>8 DEF Concats, n
<1>10. CASE n = 0
  BY <1>5, <1>7, <1>9, <1>10 DEF n
<1>11. CASE n # 0
  <2> DEFINE h == [i \in 1..n |-> g[i]]
  <2>1. \A i \in 1..n : h[i] = Step(h, i)
    <3> TAKE i \in 1..n
    <3>1. CASE i = 1
      <4>1. g[1] = <<>> \o ss[1] /\ ss[1] \in Seq(S)
        <5>1. 1 \in 1..n /\ 1 - 1 = 0
          BY <3>1
        <5> QED BY <1>1, <1>7, <1>8, <5>1
      <4>2. g[1] = ss[1]
        BY <4>1, ConcatEmptySeq
      <4> QED BY <3>1, <4>2
    <3>2. CASE i # 1
      <4>1. i - 1 \in 1..n
        BY <1>1, <3>2
      <4> QED BY <1>8, <3>2, <4>1
    <3> QED BY <3>1, <3>2
  <2>2. h = [i \in 1..n |-> h[i]]
    OBVIOUS
  <2> HIDE DEF h
  <2>3. h = [i \in 1..n |-> Step(h, i)]
    BY <2>1, <2>2
  <2>4. f = [i \in 1..n |-> Step(f, i)]
    BY <2>3, Zenon
  <2> HIDE DEF f
  <2>5. \A i \in 1..n : f[i] = Step(f, i)
    BY <2>4
  <2> DEFINE k == [i \in 0..n |-> IF i = 0 THEN <<>> ELSE f[i]]
  <2>6. k[0] = <<>> /\ \A i \in 1..n : k[i] = f[i]
    BY <1>1
  <2> HIDE DEF k
  <2>7. ASSUME NEW i \in 1..n, g[i - 1] = k[i - 1]
        PROVE  g[i] = k[i]
    <3>1. CASE i = 1
      <4>1. k[1] = ss[1]
        BY <2>5, <2>6, <3>1
      <4>2. g[1] = <<>> \o ss[1] /\ ss[1] \in Seq(S)
        <5>1. 1 \in 1..n /\ 1 - 1 = 0
          BY <3>1
        <5> QED BY <1>1, <1>7, <1>8, <5>1
      <4>3. g[1] = ss[1]
        BY <4>2, ConcatEmptySeq
      <4> QED BY <3>1, <4>1, <4>3
    <3>2. CASE i # 1
      <4>1. i - 1 \in 1..n
        BY <1>1, <3>2
      <4>2. k[i] = k[i - 1] \o ss[i]
        BY <2>5, <2>6, <3>2, <4>1
      <4> QED BY <1>8, <2>7, <4>2
    <3> QED BY <3>1, <3>2
  <2>8. Alike(g, k, n)
    BY <1>7, <2>6, <2>7 DEF Alike
  <2>9. n \in 0..n /\ n \in 1..n
    BY <1>1, <1>11
  <2>10. g[n] = k[n]
    BY <1>1, <2>8, <2>9, StayAlike
  <2>11. FlattenSeq(ss) = g[n]
    BY <1>6, <1>11, <2>6, <2>9, <2>10 DEF n
  <2> QED BY <1>9, <2>11 DEF n
<1> QED BY <1>10, <1>11

\* The concatenation of sequences over S is one; a last sequence goes to its end.
LEMMA FlattenType ==
    ASSUME NEW S, NEW ss \in Seq(Seq(S))
    PROVE  FlattenSeq(ss) \in Seq(S)
<1>1. PICK g \in [0..Len(ss) -> Seq(S)] : FlattenSeq(ss) = g[Len(ss)]
  BY FlattenDef
<1>2. Len(ss) \in 0..Len(ss)
  OBVIOUS
<1> QED BY <1>1, <1>2

LEMMA FlattenAppend ==
    ASSUME NEW S, NEW ss \in Seq(Seq(S)), NEW s \in Seq(S)
    PROVE  FlattenSeq(Append(ss, s)) = FlattenSeq(ss) \o s
<1> DEFINE tt == Append(ss, s)
<1>1. /\ tt \in Seq(Seq(S)) /\ Len(tt) = Len(ss) + 1 /\ tt[Len(ss) + 1] = s /\ Len(ss) \in Nat
      /\ \A i \in 1..Len(ss) : tt[i] = ss[i]
  OBVIOUS
<1> HIDE DEF tt
<1>2. PICK g \in [0..Len(ss) -> Seq(S)] : Concats(g, ss) /\ FlattenSeq(ss) = g[Len(ss)]
  BY FlattenDef
<1>3. PICK h \in [0..Len(tt) -> Seq(S)] : Concats(h, tt) /\ FlattenSeq(tt) = h[Len(tt)]
  BY <1>1, FlattenDef
<1>4. g[0] = h[0]
  BY <1>2, <1>3 DEF Concats
<1>5. ASSUME NEW i \in 1..Len(ss), g[i - 1] = h[i - 1]
      PROVE  g[i] = h[i]
  <2>1. i \in 1..Len(tt) /\ tt[i] = ss[i]
    BY <1>1
  <2>2. g[i] = g[i - 1] \o ss[i]
    BY <1>2 DEF Concats
  <2>3. h[i] = h[i - 1] \o tt[i]
    BY <1>3, <2>1 DEF Concats
  <2> QED BY <1>5, <2>1, <2>2, <2>3
<1>6. \A i \in 0..Len(ss) : g[i] = h[i]
  <2>1. Alike(g, h, Len(ss))
    BY <1>4, <1>5 DEF Alike
  <2> QED BY <1>1, <2>1, StayAlike
<1>7. Len(ss) + 1 \in 1..Len(tt) /\ (Len(ss) + 1) - 1 = Len(ss) /\ Len(ss) \in 0..Len(ss)
  BY <1>1
<1>8. h[Len(tt)] = h[Len(ss)] \o s
  BY <1>1, <1>3, <1>7 DEF Concats
<1>9. FlattenSeq(tt) = FlattenSeq(ss) \o s
  BY <1>2, <1>3, <1>6, <1>7, <1>8
<1> QED BY <1>9 DEF tt

(***************************************************************************)
(* get_block of the Solana service.                                        *)
(***************************************************************************)

\* The types of what the handler puts together.
Enriched ==
    [signature : STRING, error : Option(STRING), meta : Option(StatusMeta), message : LegacyMessage]

PbTransactions == {PbTransaction(tx) : tx \in Enriched}

PbInstructions == {PbInstruction(m, i) : m \in LegacyMessage, i \in Nat}

\* An instruction that the token program would execute as TransferChecked, and what
\* is reported for it under the signature s.
CheckedTransfer(m, ix) == Program(m, ix) = Token /\ TokenInstruction(ix.data) = "TransferChecked"

ReportOf(m, ix, s) ==
    <<Transfer(Key(m, ix.accounts[1]), Key(m, ix.accounts[3]), Key(m, ix.accounts[2]),
               ix.data, ix.data.decimals = 0), s>>

Reports == {ReportOf(m, ix, s) : m \in LegacyMessage, ix \in CompiledInstruction, s \in STRING}

InstructionsOf(tx) ==
    [i \in 1..Len(tx.message.instructions) |-> PbInstruction(tx.message, i - 1)]

\* The number of instructions of the first n of the transactions tr.
Counted(tr, n) == SumSeq([k \in 1..n |-> tr[k].program_count])

\* The parts of the invariant about what convert_block_data has put together from
\* the decoded transactions dec: the transactions tr are those of dec, in order; the
\* instructions ins are theirs, in order, with places that the counts of tr give.
Converted(tr, dec) ==
    /\ tr \in Seq(PbTransactions)
    /\ Len(tr) <= Len(dec)
    /\ \A k \in 1..Len(tr) : tr[k] = PbTransaction(dec[k]) /\ ~Panics(dec[k].message)

Placed(tr, ins, m, k) ==
    /\ Counted(tr, k - 1) + Len(m.instructions) = Counted(tr, k)
    /\ Counted(tr, k) <= Len(ins)
    /\ \A i \in 1..Len(m.instructions) : ins[Counted(tr, k - 1) + i] = PbInstruction(m, i - 1)

Attributed(tr, ins, dec) ==
    /\ ins \in Seq(PbInstructions)
    /\ Counted(tr, Len(tr)) = Len(ins)
    /\ \A k \in 1..Len(tr) : Placed(tr, ins, dec[k].message, k)

\* The fields of a converted transaction.
LEMMA PbTransactionFields ==
    ASSUME NEW tx
    PROVE  /\ PbTransaction(tx).signature = tx.signature
           /\ PbTransaction(tx).fee = Fee(tx.meta)
           /\ PbTransaction(tx).units = Units(tx.meta)
           /\ PbTransaction(tx).transaction_category = CategorizeTransaction(tx.message)
           /\ PbTransaction(tx).program_count = Len(tx.message.instructions)
BY DEF PbTransaction, ProgramCount

\* The counts are those of the messages.
LEMMA CountedStep ==
    ASSUME NEW dec \in Seq(Enriched), NEW tr, Converted(tr, dec)
    PROVE  /\ Counted(tr, 0) = 0
           /\ \A n \in 0..Len(tr) : Counted(tr, n) \in Nat
           /\ \A n \in 1..Len(tr) :
                 Counted(tr, n - 1) + Len(dec[n].message.instructions) = Counted(tr, n)
<1> DEFINE Counts(n) == [k \in 1..n |-> tr[k].program_count]
<1>1. Len(tr) \in Nat /\ Len(dec) \in Nat /\ Len(tr) <= Len(dec)
  BY DEF Converted
<1>2. ASSUME NEW k \in 1..Len(tr)
      PROVE  /\ tr[k].program_count = Len(dec[k].message.instructions)
             /\ tr[k].program_count \in Nat
  <2>1. k \in 1..Len(dec) /\ dec[k] \in Enriched
    BY <1>1
  <2>2. tr[k].program_count = Len(dec[k].message.instructions)
    BY PbTransactionFields DEF Converted
  <2>3. dec[k].message.instructions \in Seq(CompiledInstruction)
    BY <2>1 DEF Enriched, LegacyMessage
  <2> QED BY <2>2, <2>3
<1>3. ASSUME NEW n \in 0..Len(tr)
      PROVE  Counts(n) \in Seq(Nat) /\ Len(Counts(n)) = n
  <2>1. n \in Nat /\ \A k \in 1..n : tr[k].program_count \in Nat
    BY <1>1, <1>2
  <2> QED BY <2>1
<1>4. ASSUME NEW n \in 1..Len(tr)
      PROVE  n - 1 \in 0..Len(tr) /\ Counts(n) = Append(Counts(n - 1), tr[n].program_count)
  <2>1. n \in 0..Len(tr) /\ n - 1 \in 0..Len(tr) /\ n - 1 \in Nat /\ (n - 1) + 1 = n
    BY <1>1
  <2>2. Counts(n) \in Seq(Nat) /\ Len(Counts(n)) = n
    BY <1>3, <2>1
  <2>3. Counts(n - 1) \in Seq(Nat) /\ Len(Counts(n - 1)) = n - 1
    BY <1>3, <2>1
  <2>4. \A k \in 1..n : Counts(n)[k] = tr[k].program_count
    OBVIOUS
  <2>5. \A k \in 1..(n - 1) : Counts(n - 1)[k] = tr[k].program_count
    OBVIOUS
  <2> DEFINE a == Append(Counts(n - 1), tr[n].program_count)
  <2>6. tr[n].program_count \in Nat
    BY <1>2
  <2> HIDE DEF Counts
  <2>7. a \in Seq(Nat) /\ Len(a) = n /\ a[n] = tr[n].program_count
        /\ \A k \in 1..(n - 1) : a[k] = Counts(n - 1)[k]
    BY <2>1, <2>3, <2>6
  <2> HIDE DEF a
  <2>8. ASSUME NEW k \in 1..n PROVE a[k] = Counts(n)[k]
    <3>1. CASE k = n
      BY <2>4, <2>7, <3>1
    <3>2. CASE k # n
      <4>1. k \in 1..(n - 1)
        BY <2>1, <3>2
      <4> QED BY <2>4, <2>5, <2>7, <4>1
    <3> QED BY <3>1, <3>2
  <2>9. a = Counts(n)
    BY <2>2, <2>7, <2>8, SeqEqual
  <2> QED BY <2>1, <2>9 DEF a
<1> HIDE DEF Counts
<1>5. \A n : Counted(tr, n) = SumSeq(Counts(n))
  BY DEF Counted, Counts
<1>6. 0 \in 0..Len(tr)
  BY <1>1
<1>7. Counted(tr, 0) = 0
  BY <1>3, <1>5, <1>6, SumNone
<1>8. \A n \in 0..Len(tr) : Counted(tr, n) \in Nat
  BY <1>3, <1>5, SumType
<1>9. ASSUME NEW n \in 1..Len(tr)
      PROVE  Counted(tr, n - 1) + Len(dec[n].message.instructions) = Counted(tr, n)
  <2>1. Counts(n - 1) \in Seq(Nat)
    BY <1>3, <1>4
  <2>2. SumSeq(Counts(n)) = SumSeq(Counts(n - 1)) + tr[n].program_count
    BY <1>2, <1>4, <2>1, SumAppend
  <2> QED BY <1>2, <1>5, <2>2
<1> QED BY <1>7, <1>8, <1>9

\* One more transaction.
LEMMA ConvertedAppend ==
    ASSUME NEW dec \in Seq(Enriched), NEW tr, Converted(tr, dec), Len(tr) < Len(dec),
           ~Panics(dec[Len(tr) + 1].message)
    PROVE  Converted(Append(tr, PbTransaction(dec[Len(tr) + 1])), dec)
<1> DEFINE x == PbTransaction(dec[Len(tr) + 1])
<1>1. Len(tr) \in Nat /\ Len(dec) \in Nat /\ tr \in Seq(PbTransactions)
  BY DEF Converted
<1>2. Len(tr) + 1 \in 1..Len(dec)
  BY <1>1
<1>3. x \in PbTransactions
  BY <1>2 DEF PbTransactions
<1>4. \A k \in 1..Len(tr) : tr[k] = PbTransaction(dec[k]) /\ ~Panics(dec[k].message)
  BY DEF Converted
<1>5. x = PbTransaction(dec[Len(tr) + 1])
  OBVIOUS
<1> HIDE DEF x
<1>6. /\ Append(tr, x) \in Seq(PbTransactions) /\ Len(Append(tr, x)) = Len(tr) + 1
      /\ Append(tr, x)[Len(tr) + 1] = x
      /\ \A k \in 1..Len(tr) : Append(tr, x)[k] = tr[k]
  BY <1>1, <1>3
<1>7. ASSUME NEW k \in 1..(Len(tr) + 1)
      PROVE  Append(tr, x)[k] = PbTransaction(dec[k]) /\ ~Panics(dec[k].message)
  <2>1. CASE k = Len(tr) + 1
    BY <1>5, <1>6, <2>1
  <2>2. CASE k # Len(tr) + 1
    <3>1. k \in 1..Len(tr)
      BY <1>1, <2>2
    <3> QED BY <1>4, <1>6, <3>1
  <2> QED BY <2>1, <2>2
<1>8. Converted(Append(tr, x), dec)
  BY <1>1, <1>2, <1>6, <1>7 DEF Converted
<1> QED BY <1>8 DEF x

\* Its instructions go to the end of the list.
LEMMA AttributedAppend ==
    ASSUME NEW dec \in Seq(Enriched), NEW tr, NEW ins, Converted(tr, dec),
           Attributed(tr, ins, dec), Len(tr) < Len(dec), ~Panics(dec[Len(tr) + 1].message)
    PROVE  Attributed(Append(tr, PbTransaction(dec[Len(tr) + 1])),
                      ins \o InstructionsOf(dec[Len(tr) + 1]), dec)
<1> DEFINE n == Len(tr)
           tx == dec[n + 1]
           new == InstructionsOf(tx)
           u == Append(tr, PbTransaction(tx))
           out == ins \o new
<1>1. n \in Nat /\ n + 1 \in 1..Len(dec) /\ tx \in Enriched /\ tr \in Seq(PbTransactions)
  BY DEF Converted
<1>2. tx.message \in LegacyMessage /\ Len(tx.message.instructions) \in Nat
  <2>1. tx.message \in LegacyMessage
    BY <1>1 DEF Enriched
  <2>2. tx.message.instructions \in Seq(CompiledInstruction)
    BY <2>1 DEF LegacyMessage
  <2> QED BY <2>1, <2>2
<1> HIDE DEF tx
<1>3. /\ new \in Seq(PbInstructions) /\ Len(new) = Len(tx.message.instructions)
      /\ \A i \in 1..Len(tx.message.instructions) : new[i] = PbInstruction(tx.message, i - 1)
  <2>1. \A i \in 1..Len(tx.message.instructions) : PbInstruction(tx.message, i - 1) \in PbInstructions
    BY <1>2 DEF PbInstructions
  <2> QED BY <1>2, <2>1 DEF InstructionsOf
<1>4. ins \in Seq(PbInstructions) /\ Len(ins) \in Nat /\ Counted(tr, n) = Len(ins)
  BY DEF Attributed
<1> HIDE DEF new
<1>5. /\ out \in Seq(PbInstructions) /\ Len(out) = Len(ins) + Len(new)
      /\ \A i \in 1..Len(ins) + Len(new) :
            out[i] = IF i <= Len(ins) THEN ins[i] ELSE new[i - Len(ins)]
  BY <1>3, <1>4, ConcatProperties
<1>6. Converted(u, dec)
  BY ConvertedAppend DEF tx
<1>7. Len(u) = n + 1 /\ \A k \in 1..n : u[k] = tr[k]
  BY <1>1
<1> HIDE DEF u, out
<1>8. ASSUME NEW k \in 0..n PROVE Counted(u, k) = Counted(tr, k)
  <2>1. \A j \in 1..k : u[j] = tr[j]
    BY <1>1, <1>7
  <2>2. [j \in 1..k |-> u[j].program_count] = [j \in 1..k |-> tr[j].program_count]
    BY <2>1
  <2> QED BY <2>2 DEF Counted
<1>9. /\ Counted(u, n) = Len(ins)
      /\ Counted(u, n) + Len(tx.message.instructions) = Counted(u, n + 1)
  <2>1. n \in 0..n /\ n + 1 \in 1..Len(u) /\ (n + 1) - 1 = n
    BY <1>1, <1>7
  <2>2. Counted(u, (n + 1) - 1) + Len(dec[n + 1].message.instructions) = Counted(u, n + 1)
    BY <1>6, <2>1, CountedStep
  <2> QED BY <1>4, <1>8, <2>1, <2>2 DEF tx
<1>10. Counted(u, Len(u)) = Len(out)
  BY <1>3, <1>5, <1>7, <1>9
<1>11. ASSUME NEW k \in 1..(n + 1) PROVE Placed(u, out, dec[k].message, k)
  <2>1. CASE k = n + 1
    <3>1. (n + 1) - 1 = n
      BY <1>1
    <3>2. ASSUME NEW i \in 1..Len(tx.message.instructions)
          PROVE  out[Len(ins) + i] = PbInstruction(tx.message, i - 1)
      <4>1. Len(ins) + i \in 1..Len(ins) + Len(new) /\ ~(Len(ins) + i <= Len(ins))
            /\ (Len(ins) + i) - Len(ins) = i
        BY <1>2, <1>3, <1>4
      <4>2. out[Len(ins) + i] = new[i]
        BY <1>5, <4>1
      <4> QED BY <1>3, <4>2
    <3>3. Placed(u, out, tx.message, n + 1)
      <4>1. Counted(u, n + 1) <= Len(out)
        BY <1>2, <1>3, <1>4, <1>5, <1>9
      <4>2. \A i \in 1..Len(tx.message.instructions) :
               out[Counted(u, n) + i] = PbInstruction(tx.message, i - 1)
        BY <1>9, <3>2
      <4> QED BY <1>9, <3>1, <4>1, <4>2 DEF Placed
    <3> QED BY <2>1, <3>3 DEF tx
  <2>2. CASE k # n + 1
    <3> DEFINE m == dec[k].message
    <3>1. k \in 1..n /\ k \in 0..n /\ k - 1 \in 0..n
      BY <1>1, <2>2
    <3>2. Placed(tr, ins, m, k)
      BY <3>1 DEF Attributed
    <3>3. Counted(u, k - 1) = Counted(tr, k - 1) /\ Counted(u, k) = Counted(tr, k)
      BY <1>8, <3>1
    <3>4. Counted(tr, k - 1) \in Nat /\ Counted(tr, k) \in Nat /\ Len(m.instructions) \in Nat
      <4>1. Counted(tr, k - 1) \in Nat /\ Counted(tr, k) \in Nat
        BY <3>1, CountedStep
      <4>2. k \in 1..Len(dec) /\ dec[k] \in Enriched
        BY <1>1, <3>1
      <4>3. m.instructions \in Seq(CompiledInstruction)
        BY <4>2 DEF Enriched, LegacyMessage
      <4> QED BY <4>1, <4>3
    <3> HIDE DEF m
    <3>5. ASSUME NEW i \in 1..Len(m.instructions)
          PROVE  out[Counted(tr, k - 1) + i] = PbInstruction(m, i - 1)
      <4>1. Counted(tr, k - 1) + i \in 1..Len(ins)
        BY <1>4, <3>2, <3>4 DEF Placed
      <4>2. Counted(tr, k - 1) + i \in 1..Len(ins) + Len(new) /\ Counted(tr, k - 1) + i <= Len(ins)
        BY <1>2, <1>3, <1>4, <4>1
      <4>3. out[Counted(tr, k - 1) + i] = ins[Counted(tr, k - 1) + i]
        BY <1>5, <4>2
      <4> QED BY <3>2, <4>3 DEF Placed
    <3>6. Counted(tr, k) <= Len(out)
      BY <1>2, <1>3, <1>4, <1>5, <3>2, <3>4 DEF Placed
    <3>7. Placed(u, out, m, k)
      BY <3>2, <3>3, <3>5, <3>6 DEF Placed
    <3> QED BY <3>7 DEF m
  <2> QED BY <2>1, <2>2
<1>12. Attributed(u, out, dec)
  BY <1>5, <1>7, <1>10, <1>11 DEF Attributed
<1> QED BY <1>12 DEF u, out, tx, new

\* find_token_mint finds nothing: no address is the text of an index.
LEMMA NoMintFound ==
    ASSUME NEW a \in Address, NEW meta \in Option(StatusMeta)
    PROVE  FindTokenMint(a, meta) = <<>>
<1>1. ASSUME NEW b \in Seq(TokenBalance) PROVE MintIn(b, a) = <<>>
  <2>1. ASSUME NEW i \in 1..Len(b) PROVE ToString(b[i].account) # a
    <3>1. b[i] \in TokenBalance
      OBVIOUS
    <3>2. b[i].account \in U8
      BY <3>1 DEF TokenBalance
    <3> QED BY <3>2 DEF Address
  <2>2. {i \in 1..Len(b) : ToString(b[i].account) = a} = {}
    BY <2>1
  <2> QED BY <2>2 DEF MintIn, SelectInSeq
<1>2. CASE meta = <<>>
  BY <1>2 DEF FindTokenMint
<1>3. CASE meta # <<>>
  <2>1. meta[1] \in StatusMeta
    BY <1>3 DEF Option
  <2>2. meta[1].preTokens \in Seq(TokenBalance) /\ meta[1].postTokens \in Seq(TokenBalance)
    BY <2>1 DEF StatusMeta
  <2> QED BY <1>1, <1>3, <2>2 DEF FindTokenMint
<1> QED BY <1>2, <1>3

\* What the parser reads of an instruction is there.
LEMMA AccountsPresent ==
    ASSUME NEW m \in LegacyMessage, ~Panics(m), NEW i \in 1..Len(m.instructions)
    PROVE  /\ m.instructions[i] \in CompiledInstruction
           /\ Len(m.instructions[i].accounts) >= AccountsRead(m, m.instructions[i])
           /\ Len(m.instructions[i].accounts) \in Nat
           /\ \A n \in 1..Len(m.instructions[i].accounts) :
                 Key(m, m.instructions[i].accounts[n]) \in Address
<1> DEFINE ix == m.instructions[i]
<1>1. m.instructions \in Seq(CompiledInstruction) /\ m.keys \in Seq(Address)
  BY DEF LegacyMessage
<1>2. ix \in CompiledInstruction /\ ix \in ToSet(m.instructions)
  BY <1>1 DEF ToSet
<1> HIDE DEF ix
<1>3. ix.accounts \in Seq(U8)
  BY <1>2 DEF CompiledInstruction
<1>4. /\ ix.program \in Indices(m)
      /\ \A a \in ToSet(ix.accounts) : a \in Indices(m)
      /\ ~(Len(ix.accounts) < AccountsRead(m, ix))
  BY <1>2 DEF Panics
<1>5. AccountsRead(m, ix) \in Nat
  BY DEF AccountsRead
<1>6. ASSUME NEW n \in 1..Len(ix.accounts) PROVE Key(m, ix.accounts[n]) \in Address
  <2>1. ix.accounts[n] \in ToSet(ix.accounts)
    BY <1>3 DEF ToSet
  <2>2. ix.accounts[n] \in Indices(m)
    BY <1>4, <2>1
  <2>3. ix.accounts[n] + 1 \in 1..Len(m.keys)
    BY <1>1, <2>2 DEF Indices
  <2> QED BY <1>1, <2>3 DEF Key
<1>7. Len(ix.accounts) \in Nat
  BY <1>3
<1>8. Len(ix.accounts) >= AccountsRead(m, ix)
  BY <1>4, <1>5, <1>7
<1> QED BY <1>2, <1>6, <1>7, <1>8 DEF ix

\* So the parser finds a transfer in TransferChecked instructions and no others.
LEMMA TransferParsed ==
    ASSUME NEW m \in LegacyMessage, ~Panics(m), NEW i \in 1..Len(m.instructions),
           NEW meta \in Option(StatusMeta)
    PROVE  LET ix == m.instructions[i]
           IN  /\ CheckedTransfer(m, ix) => Len(ix.accounts) >= 3
               /\ ParseTokenTransfers(m, ix, meta) =
                    IF CheckedTransfer(m, ix)
                      THEN <<Transfer(Key(m, ix.accounts[1]), Key(m, ix.accounts[3]),
                                      Key(m, ix.accounts[2]), ix.data, ix.data.decimals = 0)>>
                      ELSE <<>>
<1> DEFINE ix == m.instructions[i]
           x == Transfer(Key(m, ix.accounts[1]), Key(m, ix.accounts[3]),
                         Key(m, ix.accounts[2]), ix.data, ix.data.decimals = 0)
<1>1. /\ Len(ix.accounts) \in Nat /\ Len(ix.accounts) >= AccountsRead(m, ix)
      /\ \A n \in 1..Len(ix.accounts) : Key(m, ix.accounts[n]) \in Address
  BY AccountsPresent
<1> HIDE DEF ix
<1>2. CheckedTransfer(m, ix) => Len(ix.accounts) >= 3
  BY <1>1 DEF CheckedTransfer, AccountsRead, IsTokenProgram
<1>3. ASSUME CheckedTransfer(m, ix)
      PROVE  ParseTokenTransfers(m, ix, meta) = <<x>>
  <2>1. /\ Program(m, ix) = Token /\ TokenInstruction(ix.data) = "TransferChecked"
        /\ CheckedAccounts.from = 1 /\ CheckedAccounts.to = 3 /\ CheckedAccounts.mint = 2
    BY <1>3 DEF CheckedTransfer, CheckedAccounts
  <2> QED BY <2>1 DEF ParseTokenTransfers, IsTokenProgram
<1>4. ASSUME ~CheckedTransfer(m, ix)
      PROVE  ParseTokenTransfers(m, ix, meta) = <<>>
  <2>1. CASE Program(m, ix) = Token /\ TokenInstruction(ix.data) = "Transfer"
    <3>1. AccountsRead(m, ix) = 2
      BY <2>1 DEF AccountsRead, IsTokenProgram
    <3>2. 1 \in 1..Len(ix.accounts)
      BY <1>1, <3>1
    <3>3. FindTokenMint(Key(m, ix.accounts[1]), meta) = <<>>
      BY <1>1, <3>2, NoMintFound
    <3> QED BY <2>1, <3>3 DEF ParseTokenTransfers, IsTokenProgram
  <2>2. CASE ~(Program(m, ix) = Token /\ TokenInstruction(ix.data) = "Transfer")
    BY <1>4, <2>2 DEF CheckedTransfer, ParseTokenTransfers, IsTokenProgram
  <2> QED BY <2>1, <2>2
<1> HIDE DEF x
<1>5. ParseTokenTransfers(m, ix, meta) = IF CheckedTransfer(m, ix) THEN <<x>> ELSE <<>>
  BY <1>3, <1>4
<1> QED BY <1>2, <1>5 DEF ix, x

\* The reports of a transaction, instruction by instruction.
ReportsOf(tx, i) ==
    IF CheckedTransfer(tx.message, tx.message.instructions[i])
      THEN <<ReportOf(tx.message, tx.message.instructions[i], tx.signature)>> ELSE <<>>

LEMMA TransfersReported ==
    ASSUME NEW tx \in Enriched, ~Panics(tx.message)
    PROVE  /\ PbTokenTransfers(tx) =
                FlattenSeq([i \in 1..Len(tx.message.instructions) |-> ReportsOf(tx, i)])
           /\ PbTokenTransfers(tx) \in Seq(Reports)
<1> DEFINE m == tx.message
           Of(i) == ParseTokenTransfers(m, m.instructions[i], tx.meta)
           L == Len(m.instructions)
<1>1. m \in LegacyMessage /\ tx.meta \in Option(StatusMeta) /\ tx.signature \in STRING
  BY DEF Enriched
<1>2. m.instructions \in Seq(CompiledInstruction)
  BY <1>1 DEF LegacyMessage
<1>3. L \in Nat
  BY <1>2
<1>4. ASSUME NEW i \in 1..L
      PROVE  /\ [n \in 1..Len(Of(i)) |-> <<Of(i)[n], tx.signature>>] = ReportsOf(tx, i)
             /\ ReportsOf(tx, i) \in Seq(Reports)
  <2> DEFINE ix == m.instructions[i]
             x == Transfer(Key(m, ix.accounts[1]), Key(m, ix.accounts[3]),
                           Key(m, ix.accounts[2]), ix.data, ix.data.decimals = 0)
  <2>1. Of(i) = IF CheckedTransfer(m, ix) THEN <<x>> ELSE <<>>
    BY <1>1, <1>4, TransferParsed
  <2>2. ix \in CompiledInstruction
    BY <1>2, <1>4
  <2>3. CASE CheckedTransfer(m, ix)
    <3>1. Of(i) = <<x>>
      BY <2>1, <2>3
    <3>2. ReportsOf(tx, i) = <<<<x, tx.signature>>>>
      BY <2>3 DEF ReportsOf, ReportOf
    <3>3. <<x, tx.signature>> \in Reports
      <4>1. ReportOf(m, ix, tx.signature) \in Reports
        BY <1>1, <2>2 DEF Reports
      <4>2. ReportOf(m, ix, tx.signature) = <<x, tx.signature>>
        BY DEF ReportOf
      <4> QED BY <4>1, <4>2
    <3> HIDE DEF x, Of
    <3>4. [n \in 1..Len(<<x>>) |-> <<(<<x>>)[n], tx.signature>>] = <<<<x, tx.signature>>>>
      OBVIOUS
    <3> QED BY <3>1, <3>2, <3>3, <3>4
  <2>4. CASE ~CheckedTransfer(m, ix)
    <3>1. Of(i) = <<>> /\ ReportsOf(tx, i) = <<>>
      BY <2>1, <2>4 DEF ReportsOf
    <3>2. <<>> \in Seq(Reports)
      OBVIOUS
    <3> HIDE DEF Of
    <3>3. [n \in 1..Len(Of(i)) |-> <<Of(i)[n], tx.signature>>] = <<>>
      BY <3>1
    <3> QED BY <3>1, <3>2, <3>3
  <2> QED BY <2>3, <2>4
<1>5. PbTokenTransfers(tx) =
        FlattenSeq([i \in 1..L |-> [n \in 1..Len(Of(i)) |-> <<Of(i)[n], tx.signature>>]])
  BY Zenon DEF PbTokenTransfers
<1>6. [i \in 1..L |-> [n \in 1..Len(Of(i)) |-> <<Of(i)[n], tx.signature>>]]
        = [i \in 1..L |-> ReportsOf(tx, i)]
  <2> HIDE DEF Of
  <2> QED BY <1>4
<1>7. [i \in 1..L |-> ReportsOf(tx, i)] \in Seq(Seq(Reports))
  BY <1>3, <1>4
<1>8. FlattenSeq([i \in 1..L |-> ReportsOf(tx, i)]) \in Seq(Reports)
  BY <1>7, FlattenType
<1> QED BY <1>5, <1>6, <1>8

\* All that convert_block_data has put together, from the transactions dec.
DataOf(d, dec) ==
    /\ Converted(d.transactions, dec)
    /\ Attributed(d.transactions, d.instructions, dec)
    /\ d.token_transfers =
         FlattenSeq([k \in 1..Len(d.transactions) |-> PbTokenTransfers(dec[k])])

\* The decoded transactions are readings of the node's, in order.
Decodes(dec, enc) ==
    /\ Len(dec) <= Len(enc)
    /\ \A k \in 1..Len(dec) : \E m \in Readings(enc[k]) : dec[k] = EnrichedTransaction(enc[k], m)

\* What Assemble stores.
HeaderOf ==
    [leader        |-> IF FeeReward = <<>> THEN "" ELSE FeeReward[1].pubkey,
     leader_reward |-> IF FeeReward = <<>> THEN 0 ELSE FeeReward[1].lamports,
     total_fee     |-> Totals.fee,
     total_units   |-> Totals.units]

\* What is known at each stage of the handler.
StageInv ==
    /\ pc \in {"fetch", "time"} => decoded = <<>>
    /\ pc \in {"fetch", "time", "decode"} => data = NoData
    /\ pc \notin {"fetch", "internal"} => node \in Blocks
    /\ pc \in {"convert", "ok", "reset"} => Len(decoded) = Len(Encoded) /\ header = HeaderOf
    /\ pc = "ok" => Len(data.transactions) = Len(decoded)
    /\ pc = "reset" => Len(data.transactions) < Len(decoded) /\ Panics(Current.message)

\* The inductive invariant.
BlockInv ==
    /\ node \in Block /\ decoded \in Seq(Enriched)
    /\ Decodes(decoded, Encoded)
    /\ DataOf(data, decoded)
    /\ StageInv

\* Nothing converted yet.
LEMMA DataNone ==
    ASSUME NEW dec \in Seq(Enriched)
    PROVE  DataOf(NoData, dec)
<1> DEFINE none == <<>>
<1>1. none \in Seq(PbTransactions) /\ none \in Seq(PbInstructions) /\ Len(none) = 0
  OBVIOUS
<1>2. NoData.transactions = none /\ NoData.instructions = none /\ NoData.token_transfers = none
  BY DEF NoData
<1>3. FlattenSeq([k \in 1..Len(none) |-> PbTokenTransfers(dec[k])]) = none
  <2>1. [k \in 1..0 |-> PbTokenTransfers(dec[k])] = none
    OBVIOUS
  <2>2. FlattenSeq(none) = none
    BY DEF FlattenSeq
  <2> QED BY <1>1, <2>1, <2>2
<1> HIDE DEF none
<1>4. Len(dec) \in Nat
  OBVIOUS
<1>5. Converted(none, dec)
  BY <1>1, <1>4 DEF Converted
<1>6. Attributed(none, none, dec)
  BY <1>1, <1>5, CountedStep DEF Attributed
<1> QED BY <1>2, <1>3, <1>5, <1>6 DEF DataOf

\* One more transaction, with its instructions and transfers.
LEMMA DataGrows ==
    ASSUME NEW dec \in Seq(Enriched), NEW d, DataOf(d, dec), Len(d.transactions) < Len(dec),
           ~Panics(dec[Len(d.transactions) + 1].message)
    PROVE  LET tx == dec[Len(d.transactions) + 1]
           IN  DataOf([transactions    |-> Append(d.transactions, PbTransaction(tx)),
                       instructions    |-> d.instructions \o InstructionsOf(tx),
                       token_transfers |-> d.token_transfers \o PbTokenTransfers(tx)], dec)
<1> DEFINE tr == d.transactions
           n == Len(tr)
           tx == dec[n + 1]
           u == Append(tr, PbTransaction(tx))
           out == d.instructions \o InstructionsOf(tx)
           xfers == d.token_transfers \o PbTokenTransfers(tx)
           Listing(k) == [j \in 1..k |-> PbTokenTransfers(dec[j])]
<1>1. Converted(tr, dec) /\ Attributed(tr, d.instructions, dec)
  BY DEF DataOf
<1>2. Converted(u, dec)
  BY <1>1, ConvertedAppend
<1>3. Attributed(u, out, dec)
  BY <1>1, AttributedAppend
<1>4. tr \in Seq(PbTransactions) /\ n \in Nat /\ n + 1 \in 1..Len(dec) /\ n \in 1..Len(dec) \cup {0}
  BY <1>1 DEF Converted
<1>5. Len(u) = n + 1
  BY <1>4
<1>6. ASSUME NEW k \in 1..(n + 1) PROVE PbTokenTransfers(dec[k]) \in Seq(Reports)
  <2>1. k \in 1..Len(dec)
    BY <1>4
  <2>2. dec[k] \in Enriched
    BY <2>1
  <2>3. ~Panics(dec[k].message)
    <3>1. CASE k = n + 1
      BY <3>1
    <3>2. CASE k # n + 1
      <4>1. k \in 1..Len(tr)
        BY <1>4, <3>2
      <4> QED BY <1>1, <4>1 DEF Converted
    <3> QED BY <3>1, <3>2
  <2> QED BY <2>2, <2>3, TransfersReported
<1>7. Listing(n) \in Seq(Seq(Reports)) /\ Len(Listing(n)) = n
  <2>1. \A k \in 1..n : PbTokenTransfers(dec[k]) \in Seq(Reports)
    BY <1>4, <1>6
  <2> QED BY <1>4, <2>1
<1>8. Listing(n + 1) = Append(Listing(n), PbTokenTransfers(tx))
  <2>1. Listing(n + 1) \in Seq(Seq(Reports)) /\ Len(Listing(n + 1)) = n + 1
    BY <1>4, <1>6
  <2>2. \A k \in 1..(n + 1) : Listing(n + 1)[k] = PbTokenTransfers(dec[k])
    OBVIOUS
  <2>3. \A k \in 1..n : Listing(n)[k] = PbTokenTransfers(dec[k])
    OBVIOUS
  <2>4. PbTokenTransfers(tx) \in Seq(Reports)
    <3>1. n + 1 \in 1..(n + 1)
      BY <1>4
    <3> QED BY <1>6, <3>1
  <2> DEFINE a == Append(Listing(n), PbTokenTransfers(tx))
  <2> HIDE DEF Listing
  <2>5. /\ a \in Seq(Seq(Reports)) /\ Len(a) = n + 1 /\ a[n + 1] = PbTokenTransfers(tx)
        /\ \A k \in 1..n : a[k] = Listing(n)[k]
    BY <1>4, <1>7, <2>4
  <2> HIDE DEF a
  <2>6. ASSUME NEW k \in 1..(n + 1) PROVE a[k] = Listing(n + 1)[k]
    <3>1. CASE k = n + 1
      BY <2>2, <2>5, <3>1
    <3>2. CASE k # n + 1
      <4>1. k \in 1..n
        BY <1>4, <3>2
      <4> QED BY <2>2, <2>3, <2>5, <4>1
    <3> QED BY <3>1, <3>2
  <2>7. a = Listing(n + 1)
    BY <2>1, <2>5, <2>6, SeqEqual
  <2> QED BY <2>7 DEF a
<1>9. PbTokenTransfers(tx) \in Seq(Reports)
  <2>1. n + 1 \in 1..(n + 1)
    BY <1>4
  <2> QED BY <1>6, <2>1
<1>10. d.token_transfers = FlattenSeq(Listing(n))
  BY DEF DataOf
<1> HIDE DEF Listing
<1>11. xfers = FlattenSeq(Listing(n + 1))
  <2>1. FlattenSeq(Append(Listing(n), PbTokenTransfers(tx)))
          = FlattenSeq(Listing(n)) \o PbTokenTransfers(tx)
    BY <1>7, <1>9, FlattenAppend
  <2> QED BY <1>8, <1>10, <2>1
<1>12. xfers = FlattenSeq([k \in 1..Len(u) |-> PbTokenTransfers(dec[k])])
  BY <1>5, <1>11 DEF Listing
<1> DEFINE new == [transactions |-> u, instructions |-> out, token_transfers |-> xfers]
<1>13. new.transactions = u /\ new.instructions = out /\ new.token_transfers = xfers
  OBVIOUS
<1> HIDE DEF u, out, xfers, new
<1>14. DataOf(new, dec)
  BY <1>2, <1>3, <1>12, <1>13 DEF DataOf
<1> QED BY <1>14 DEF new, u, out, xfers

\* The node's transactions, now and after a step, and what they are read as.
LEMMA EncodedType ==
    /\ node \in Block => Encoded \in Seq(EncodedTransaction)
    /\ node' \in Block => Encoded' \in Seq(EncodedTransaction)
<1> DEFINE Of(b) == IF b.transactions = <<>> THEN <<>> ELSE b.transactions[1]
<1>1. ASSUME NEW b \in Block PROVE Of(b) \in Seq(EncodedTransaction)
  <2>1. b.transactions \in Option(Seq(EncodedTransaction))
    BY DEF Block
  <2>2. CASE b.transactions = <<>>
    <3>1. <<>> \in Seq(EncodedTransaction)
      OBVIOUS
    <3> QED BY <2>2, <3>1
  <2>3. CASE b.transactions # <<>>
    <3>1. b.transactions[1] \in Seq(EncodedTransaction)
      BY <2>1, <2>3 DEF Option
    <3> QED BY <2>3, <3>1
  <2> QED BY <2>2, <2>3
<1>2. Encoded = Of(node) /\ Encoded' = Of(node')
  BY DEF Encoded
<1> HIDE DEF Of
<1> QED BY <1>1, <1>2

LEMMA SameBlock ==
    ASSUME node' = node
    PROVE  Encoded' = Encoded /\ HeaderOf' = HeaderOf
<1>1. Encoded' = Encoded
  BY DEF Encoded
<1>2. FeeReward' = FeeReward
  BY DEF FeeReward, SelectInSeq
<1>3. Totals' = Totals
  BY <1>1 DEF Totals
<1> QED BY <1>1, <1>2, <1>3 DEF HeaderOf

LEMMA EnrichedType ==
    ASSUME NEW enc \in EncodedTransaction, NEW m \in Readings(enc)
    PROVE  EnrichedTransaction(enc, m) \in Enriched
<1>1. /\ enc.signatures \in Seq(STRING) /\ enc.meta \in Option(StatusMeta)
      /\ enc.message \in LegacyMessage
  BY DEF EncodedTransaction
<1>2. enc.signatures # <<>> /\ m \in LegacyMessage
  BY <1>1, BlocksAssumption DEF Readings
<1>3. Head(enc.signatures) \in STRING
  BY <1>1, <1>2, HeadTailProperties
<1> DEFINE err == IF enc.meta = <<>> THEN <<>> ELSE enc.meta[1].err
<1>4. err \in Option(STRING)
  <2>1. CASE enc.meta = <<>>
    <3>1. <<>> \in Seq(STRING) /\ Len(<<>>) = 0
      OBVIOUS
    <3> QED BY <2>1, <3>1 DEF Option
  <2>2. CASE enc.meta # <<>>
    <3>1. enc.meta[1] \in StatusMeta
      BY <1>1, <2>2 DEF Option
    <3> QED BY <2>2, <3>1 DEF StatusMeta
  <2> QED BY <2>1, <2>2
<1> HIDE DEF err
<1>5. EnrichedTransaction(enc, m) =
        [signature |-> Head(enc.signatures), error |-> err, meta |-> enc.meta, message |-> m]
  BY DEF EnrichedTransaction, err
<1> QED BY <1>1, <1>2, <1>3, <1>4, <1>5 DEF Enriched


\* Every behaviour starts in the invariant.
LEMMA BlockInitInv == Init => BlockInv
<1> SUFFICES ASSUME Init PROVE BlockInv
  OBVIOUS
<1>1. pc = "fetch" /\ decoded = <<>> /\ data = NoData
      /\ node = [rewards |-> <<>>, transactions |-> <<>>]
  BY DEF Init
<1>2. decoded \in Seq(Enriched) /\ Len(decoded) = 0
  BY <1>1
<1>3. node \in Block
  <2>1. \A S : <<>> \in Option(S)
    BY DEF Option
  <2> QED BY <1>1, <2>1 DEF Block
<1>4. Decodes(decoded, Encoded)
  <2>1. Len(Encoded) \in Nat
    BY <1>3, EncodedType
  <2> QED BY <1>2, <2>1 DEF Decodes
<1>5. DataOf(data, decoded)
  BY <1>1, <1>2, DataNone
<1>6. StageInv
  BY <1>1 DEF StageInv
<1> QED BY <1>2, <1>3, <1>4, <1>5, <1>6 DEF BlockInv

\* Every step keeps it.
LEMMA BlockNextInv == BlockInv /\ [Next]_vars => BlockInv'
<1> SUFFICES ASSUME BlockInv, [Next]_vars PROVE BlockInv'
  OBVIOUS
<1>1. /\ node \in Block /\ decoded \in Seq(Enriched) /\ Decodes(decoded, Encoded)
      /\ DataOf(data, decoded) /\ StageInv
  BY DEF BlockInv
<1>2. Encoded \in Seq(EncodedTransaction)
  BY <1>1, EncodedType
<1>3. ASSUME UNCHANGED <<node, decoded, data>>
      PROVE  /\ (node \in Block)' /\ (decoded \in Seq(Enriched))' /\ Decodes(decoded, Encoded)'
             /\ DataOf(data, decoded)' /\ Encoded' = Encoded /\ HeaderOf' = HeaderOf
             /\ Current' = Current
  <2>1. Encoded' = Encoded
    BY <1>3, SameBlock
  <2>2. HeaderOf' = HeaderOf
    BY <1>3, SameBlock
  <2>3. Decodes(decoded, Encoded)'
    BY <1>1, <1>3, <2>1
  <2>4. DataOf(data, decoded)'
    BY <1>1, <1>3
  <2>5. Current' = Current
    BY <1>3 DEF Current
  <2> QED BY <1>1, <1>3, <2>1, <2>2, <2>3, <2>4, <2>5
<1>4. CASE FetchBlock
  <2>1. pc = "fetch" /\ pc' = "time" /\ node' \in Blocks /\ decoded' = decoded /\ data' = data
    BY <1>4 DEF FetchBlock
  <2>2. decoded = <<>> /\ data = NoData /\ Len(decoded) = 0
    BY <1>1, <2>1 DEF StageInv
  <2>3. node' \in Block
    BY <2>1, BlocksAssumption
  <2>4. Decodes(decoded, Encoded)'
    <3>1. (Encoded \in Seq(EncodedTransaction))'
      BY <2>3, EncodedType
    <3>2. Len(Encoded') \in Nat
      BY <3>1
    <3> QED BY <2>1, <2>2, <3>2 DEF Decodes
  <2>5. DataOf(data, decoded)'
    BY <1>1, <2>1
  <2>6. StageInv'
    BY <2>1, <2>2 DEF StageInv
  <2> QED BY <1>1, <2>1, <2>3, <2>4, <2>5, <2>6 DEF BlockInv
<1>5. CASE GetBlockTime
  <2>1. StageInv'
    BY <1>1, <1>5 DEF GetBlockTime, StageInv
  <2> QED BY <1>3, <1>5, <2>1 DEF BlockInv, GetBlockTime
<1>6. CASE RequestFails
  <2>1. StageInv'
    BY <1>1, <1>6 DEF RequestFails, StageInv
  <2> QED BY <1>3, <1>6, <2>1 DEF BlockInv, RequestFails
<1>7. CASE ConvertTransactions
  <2> DEFINE n == Len(decoded)
             enc == Encoded[n + 1]
  <2>1. /\ pc = "decode" /\ Len(decoded) < Len(Encoded)
        /\ UNCHANGED <<pc, node, header, data>>
        /\ \E m \in Readings(enc) : decoded' = Append(decoded, EnrichedTransaction(enc, m))
    BY <1>7 DEF ConvertTransactions
  <2>2. PICK m \in Readings(enc) : decoded' = Append(decoded, EnrichedTransaction(enc, m))
    BY <2>1
  <2>3. Encoded' = Encoded
    BY <2>1 DEF Encoded
  <2>4. n \in Nat /\ n + 1 \in 1..Len(Encoded) /\ Len(Encoded) \in Nat
    BY <1>1, <1>2, <2>1
  <2>5. enc \in EncodedTransaction
    BY <1>2, <2>4
  <2> DEFINE tx == EnrichedTransaction(enc, m)
  <2>6. tx \in Enriched
    BY <2>5, EnrichedType
  <2>7. tx = EnrichedTransaction(Encoded[n + 1], m) /\ m \in Readings(Encoded[n + 1])
    OBVIOUS
  <2> HIDE DEF tx
  <2>8. /\ decoded' \in Seq(Enriched) /\ Len(decoded') = n + 1 /\ decoded'[n + 1] = tx
        /\ \A k \in 1..n : decoded'[k] = decoded[k]
    BY <1>1, <2>2, <2>6 DEF tx
  <2>9. Decodes(decoded, Encoded)'
    <3>1. ASSUME NEW k \in 1..(n + 1)
          PROVE  \E r \in Readings(Encoded[k]) : decoded'[k] = EnrichedTransaction(Encoded[k], r)
      <4>1. CASE k = n + 1
        BY <2>7, <2>8, <4>1
      <4>2. CASE k # n + 1
        <5>1. k \in 1..n
          BY <2>4, <4>2
        <5>2. \E r \in Readings(Encoded[k]) : decoded[k] = EnrichedTransaction(Encoded[k], r)
          BY <1>1, <5>1 DEF Decodes
        <5> QED BY <2>8, <5>1, <5>2
      <4> QED BY <4>1, <4>2
    <3>2. n + 1 <= Len(Encoded)
      BY <2>4
    <3>3. Decodes(decoded', Encoded)
      BY <2>8, <3>1, <3>2 DEF Decodes
    <3> QED BY <2>3, <3>3
  <2>10. data' = NoData
    BY <1>1, <2>1 DEF StageInv
  <2>11. DataOf(data, decoded)'
    BY <2>8, <2>10, DataNone
  <2>12. StageInv'
    BY <1>1, <2>1, <2>10 DEF StageInv
  <2> QED BY <1>1, <2>1, <2>8, <2>9, <2>11, <2>12 DEF BlockInv
<1>8. CASE ConvertTransactionsFails
  <2>1. StageInv'
    BY <1>1, <1>8 DEF ConvertTransactionsFails, StageInv
  <2> QED BY <1>3, <1>8, <2>1 DEF BlockInv, ConvertTransactionsFails
<1>9. CASE Assemble
  <2>1. /\ pc = "decode" /\ pc' = "convert" /\ Len(decoded) = Len(Encoded)
        /\ UNCHANGED <<node, decoded, data>>
    BY <1>9 DEF Assemble
  <2>2. header' = HeaderOf
    BY <1>9 DEF Assemble, HeaderOf
  <2>3. StageInv'
    BY <1>1, <1>3, <2>1, <2>2 DEF StageInv
  <2> QED BY <1>3, <2>1, <2>3 DEF BlockInv
<1>10. CASE ConvertBlockData
  <2> DEFINE new == [transactions    |-> Append(data.transactions, PbTransaction(Current)),
                     instructions    |-> data.instructions \o InstructionsOf(Current),
                     token_transfers |-> data.token_transfers \o PbTokenTransfers(Current)]
  <2>1. /\ pc = "convert" /\ Len(data.transactions) < Len(decoded) /\ ~Panics(Current.message)
        /\ UNCHANGED <<pc, node, decoded, header>>
    BY <1>10 DEF ConvertBlockData
  <2>2. data' = new
    BY <1>10, Zenon DEF ConvertBlockData, InstructionsOf
  <2>3. DataOf(new, decoded)
    BY <1>1, <2>1, DataGrows DEF Current
  <2> HIDE DEF new
  <2>4. Encoded' = Encoded /\ HeaderOf' = HeaderOf
    BY <2>1, SameBlock
  <2>5. DataOf(data, decoded)'
    BY <2>1, <2>2, <2>3
  <2>6. Decodes(decoded, Encoded)'
    BY <1>1, <2>1, <2>4
  <2>7. StageInv'
    BY <1>1, <2>1, <2>4 DEF StageInv
  <2> QED BY <1>1, <2>1, <2>5, <2>6, <2>7 DEF BlockInv
<1>11. CASE ConvertPanics
  <2>1. /\ pc = "convert" /\ pc' = "reset" /\ Len(data.transactions) < Len(decoded)
        /\ Panics(Current.message) /\ UNCHANGED <<node, decoded, header, data>>
    BY <1>11 DEF ConvertPanics
  <2>2. StageInv'
    BY <1>1, <1>3, <2>1 DEF StageInv
  <2> QED BY <1>3, <2>1, <2>2 DEF BlockInv
<1>12. CASE Reply
  <2>1. /\ pc = "convert" /\ pc' = "ok" /\ Len(data.transactions) = Len(decoded)
        /\ UNCHANGED <<node, decoded, header, data>>
    BY <1>12 DEF Reply
  <2>2. StageInv'
    BY <1>1, <1>3, <2>1 DEF StageInv
  <2> QED BY <1>3, <2>1, <2>2 DEF BlockInv
<1>13. CASE UNCHANGED vars
  <2>1. UNCHANGED <<pc, node, decoded, header, data>>
    BY <1>13 DEF vars
  <2>2. StageInv'
    BY <1>1, <1>3, <2>1 DEF StageInv
  <2> QED BY <1>3, <2>1, <2>2 DEF BlockInv
<1> QED BY <1>4, <1>5, <1>6, <1>7, <1>8, <1>9, <1>10, <1>11, <1>12, <1>13 DEF Next

\* The part of the flat list that the counts give to the k-th transaction is its
\* list of instructions.
LEMMA OwnInstructions ==
    ASSUME BlockInv, NEW k \in 1..Len(data.transactions)
    PROVE  /\ decoded[k] \in Enriched
           /\ decoded[k].message \in LegacyMessage
           /\ ~Panics(decoded[k].message)
           /\ data.transactions[k] = PbTransaction(decoded[k])
           /\ Len(Own(k)) = Len(decoded[k].message.instructions)
           /\ Len(decoded[k].message.instructions) \in Nat
           /\ \A i \in 1..Len(decoded[k].message.instructions) :
                 Own(k)[i] = PbInstruction(decoded[k].message, i - 1)
<1> DEFINE tr == data.transactions
           ins == data.instructions
           m == decoded[k].message
           L == Len(m.instructions)
           a == Counted(tr, k - 1)
           b == Counted(tr, k)
<1>1. decoded \in Seq(Enriched) /\ Converted(tr, decoded) /\ Attributed(tr, ins, decoded)
  BY DEF BlockInv, DataOf
<1>2. k \in 1..Len(decoded) /\ tr[k] = PbTransaction(decoded[k]) /\ ~Panics(m)
  BY <1>1 DEF Converted
<1>3. decoded[k] \in Enriched
  BY <1>1, <1>2
<1>4. m \in LegacyMessage
  BY <1>3 DEF Enriched
<1>5. m.instructions \in Seq(CompiledInstruction)
  BY <1>4 DEF LegacyMessage
<1>6. L \in Nat
  BY <1>5
<1>7. k - 1 \in 0..Len(tr) /\ k \in 0..Len(tr)
  BY <1>1 DEF Converted
<1>8. a \in Nat /\ b \in Nat
  BY <1>1, <1>7, CountedStep
<1>9. Placed(tr, ins, m, k) /\ ins \in Seq(PbInstructions)
  BY <1>1 DEF Attributed
<1>10. Own(k) = SubSeq(ins, a + 1, b)
  BY DEF Own, Before, Counted
<1> HIDE DEF m, tr, ins
<1>11. a + L = b /\ b <= Len(ins) /\ \A i \in 1..L : ins[a + i] = PbInstruction(m, i - 1)
  BY <1>9 DEF Placed
<1> HIDE DEF a, b, L
<1>12. /\ Len(SubSeq(ins, a + 1, b)) = IF a + 1 <= b THEN b - (a + 1) + 1 ELSE 0
       /\ \A i \in 1..(b - (a + 1) + 1) : SubSeq(ins, a + 1, b)[i] = ins[(a + 1) + i - 1]
  <2>1. a + 1 \in Int /\ b \in Int
    BY <1>8
  <2>2. \A i \in (a + 1)..b : ins[i] \in PbInstructions
    <3>1. \A i \in (a + 1)..b : i \in 1..Len(ins)
      BY <1>8, <1>9, <1>11
    <3> QED BY <1>9, <3>1
  <2> QED BY <2>1, <2>2, SubSeqProperties
<1>13. Len(Own(k)) = L
  BY <1>6, <1>8, <1>10, <1>11, <1>12
<1>14. ASSUME NEW i \in 1..L PROVE Own(k)[i] = PbInstruction(m, i - 1)
  <2>1. i \in 1..(b - (a + 1) + 1) /\ (a + 1) + i - 1 = a + i
    BY <1>6, <1>8, <1>11
  <2>2. Own(k)[i] = ins[a + i]
    BY <1>10, <1>12, <2>1
  <2> QED BY <1>11, <2>2
<1> QED BY <1>2, <1>3, <1>4, <1>6, <1>13, <1>14 DEF m, L, tr

\* The fields of a listed instruction.
LEMMA PbInstructionFields ==
    ASSUME NEW m, NEW i \in Nat
    PROVE  LET ix == m.instructions[i + 1]
           IN  /\ PbInstruction(m, i).program_id = Program(m, ix)
               /\ PbInstruction(m, i).data = ix.data
               /\ PbInstruction(m, i).order_index = i
               /\ PbInstruction(m, i).instruction_type = ParseInstruction(m, ix)[1]
               /\ PbInstruction(m, i).accounts =
                    [n \in 1..Len(ix.accounts) |-> PbAccount(m, ix.accounts[n])]
BY DEF PbInstruction

\* Instruction by instruction.
LEMMA OwnFields ==
    ASSUME BlockInv, NEW k \in 1..Len(data.transactions),
           NEW i \in 1..Len(decoded[k].message.instructions)
    PROVE  LET m  == decoded[k].message
               ix == m.instructions[i]
           IN  /\ Own(k)[i].program_id = Program(m, ix)
               /\ Own(k)[i].data = ix.data
               /\ Own(k)[i].order_index = i - 1
               /\ Own(k)[i].instruction_type = ParseInstruction(m, ix)[1]
               /\ Own(k)[i].accounts =
                    [n \in 1..Len(ix.accounts) |-> PbAccount(m, ix.accounts[n])]
<1>1. Own(k)[i] = PbInstruction(decoded[k].message, i - 1)
      /\ Len(decoded[k].message.instructions) \in Nat
  BY OwnInstructions
<1>2. i - 1 \in Nat /\ (i - 1) + 1 = i
  BY <1>1
<1> QED BY <1>1, <1>2, PbInstructionFields

\* The counts and the order of the list give every instruction back to its
\* transaction, for every block and every reading of it.
THEOREM InstructionsGivenBack == Spec => []InstructionsAttributable
<1>1. BlockInv => InstructionsAttributable
  <2> SUFFICES ASSUME BlockInv PROVE InstructionsAttributable
    OBVIOUS
  <2>1. Before(Len(data.transactions)) = Len(data.instructions)
    BY DEF BlockInv, DataOf, Attributed, Before, Counted
  <2>2. ASSUME NEW k \in 1..Len(data.transactions)
        PROVE  Len(Own(k)) = Len(decoded[k].message.instructions)
    BY OwnInstructions
  <2>3. ASSUME NEW k \in 1..Len(data.transactions),
               NEW i \in 1..Len(decoded[k].message.instructions)
        PROVE  /\ Own(k)[i].order_index = i - 1
               /\ Own(k)[i].data = decoded[k].message.instructions[i].data
               /\ Own(k)[i].program_id =
                    Program(decoded[k].message, decoded[k].message.instructions[i])
    BY OwnFields
  <2> QED BY <2>1, <2>2, <2>3 DEF InstructionsAttributable
<1> QED BY <1>1, BlockInitInv, BlockNextInv, PTL DEF Spec

\* What categorize_transaction looks for, and the kinds of the DEX programs.
Uses(m, S) == \E i \in 1..Len(m.instructions) : Program(m, m.instructions[i]) \in S

LEMMA DexCategory ==
    ASSUME NEW m \in LegacyMessage
    PROVE  LET c == CategorizeTransaction(m)
               jupiter == Uses(m, {JupiterV4, JupiterV6})
               raydium == Uses(m, {RaydiumPool, RaydiumRouter, RaydiumConcentrated})
               serum   == Uses(m, {Serum})
           IN  /\ c[1] = "Dex" <=> jupiter \/ raydium \/ serum
               /\ \/ jupiter /\ c[2] = "JupiterSwap"
                  \/ raydium /\ c[2] = "RaydiumSwap"
                  \/ serum /\ c[2] = "SerumNewOrder"
                  \/ ~(jupiter \/ raydium \/ serum)
<1> DEFINE c == CategorizeTransaction(m)
           jupiter == Uses(m, {JupiterV4, JupiterV6})
           raydium == Uses(m, {RaydiumPool, RaydiumRouter, RaydiumConcentrated})
           serum   == Uses(m, {Serum})
           system == \E ix \in ToSet(m.instructions) :
               Program(m, ix) = System /\ SystemInstruction(ix.data) = "Transfer"
           token == \E ix \in ToSet(m.instructions) :
               Program(m, ix) = Token /\ TokenInstruction(ix.data) = "Transfer"
           nft == Uses(m, {Metadata})
<1>1. m.instructions \in Seq(CompiledInstruction)
  BY DEF LegacyMessage
<1>2. DOMAIN m.instructions = 1..Len(m.instructions)
  BY <1>1
<1>3. \A S : (\E ix \in ToSet(m.instructions) : Program(m, ix) \in S) <=> Uses(m, S)
  BY <1>2 DEF ToSet, Uses
<1>4. c = IF jupiter THEN <<"Dex", "JupiterSwap">>
          ELSE IF raydium THEN <<"Dex", "RaydiumSwap">>
          ELSE IF serum THEN <<"Dex", "SerumNewOrder">>
          ELSE IF system THEN <<"System", "Transfer">>
          ELSE IF token THEN <<"Token", "Transfer">>
          ELSE IF nft THEN <<"NFT", "Other">> ELSE <<"Unknown">>
  BY <1>3, Zenon DEF CategorizeTransaction
<1> HIDE DEF c, jupiter, raydium, serum, system, token, nft
<1>5. /\ c[1] = "Dex" <=> jupiter \/ raydium \/ serum
      /\ \/ jupiter /\ c[2] = "JupiterSwap"
         \/ raydium /\ c[2] = "RaydiumSwap"
         \/ serum /\ c[2] = "SerumNewOrder"
         \/ ~(jupiter \/ raydium \/ serum)
  BY <1>4
<1> QED BY <1>5 DEF c, jupiter, raydium, serum

LEMMA DexKinds ==
    ASSUME NEW p
    PROVE  /\ p \in {JupiterV4, JupiterV6} =>
                CategorizeDexInstruction(p, [tag |-> 0]) = "JupiterSwap"
           /\ p \in {RaydiumPool, RaydiumRouter, RaydiumConcentrated} =>
                CategorizeDexInstruction(p, [tag |-> 1]) = "RaydiumSwap"
           /\ p = Serum => CategorizeDexInstruction(p, [tag |-> 0]) = "SerumNewOrder"
<1> DEFINE d0 == [tag |-> 0]
           d1 == [tag |-> 1]
<1>1. d0.tag = 0 /\ d1.tag = 1
  OBVIOUS
<1> HIDE DEF d0, d1
<1>2. ASSUME p \in {JupiterV4, JupiterV6} PROVE CategorizeDexInstruction(p, d0) = "JupiterSwap"
  BY <1>2 DEF CategorizeDexInstruction, Serum, RaydiumPool, RaydiumRouter,
              RaydiumConcentrated, JupiterV4, JupiterV6
<1>3. ASSUME p \in {RaydiumPool, RaydiumRouter, RaydiumConcentrated}
      PROVE  CategorizeDexInstruction(p, d1) = "RaydiumSwap"
  <2>1. p # Serum
    BY <1>3 DEF Serum, RaydiumPool, RaydiumRouter, RaydiumConcentrated
  <2>2. CategorizeDexInstruction(p, d1) =
          <<"RaydiumSwap", "RaydiumAddLiquidity", "RaydiumRemoveLiquidity">>[d1.tag]
    BY <1>1, <1>3, <2>1 DEF CategorizeDexInstruction
  <2> QED BY <1>1, <2>2
<1>4. ASSUME p = Serum PROVE CategorizeDexInstruction(p, d0) = "SerumNewOrder"
  <2>1. CategorizeDexInstruction(p, d0) =
          <<"SerumNewOrder", "SerumMatchOrder", "SerumCancelOrder">>[d0.tag + 1]
    BY <1>1, <1>4 DEF CategorizeDexInstruction
  <2>2. d0.tag + 1 = 1
    BY <1>1
  <2> QED BY <2>1, <2>2
<1> QED BY <1>2, <1>3, <1>4 DEF d0, d1

\* The parser's lists of DEX programs agree on every transaction of every block.
THEOREM DexListsAgree == Spec => []DexCategoryOfListedProgram
<1>1. BlockInv => DexCategoryOfListedProgram
  <2> SUFFICES ASSUME BlockInv, NEW k \in 1..Len(data.transactions)
               PROVE  LET category == data.transactions[k].transaction_category
                          dex == {i \in 1..Len(Own(k)) : IsDexProgram(Own(k)[i].program_id)}
                      IN  /\ category[1] = "Dex" <=> dex # {}
                          /\ dex # {} => \E i \in dex, t \in U8 : category[2] =
                                CategorizeDexInstruction(Own(k)[i].program_id, [tag |-> t])
    BY DEF DexCategoryOfListedProgram
  <2> DEFINE m == decoded[k].message
             category == data.transactions[k].transaction_category
             dex == {i \in 1..Len(Own(k)) : IsDexProgram(Own(k)[i].program_id)}
             J == {JupiterV4, JupiterV6}
             R == {RaydiumPool, RaydiumRouter, RaydiumConcentrated}
             S == {Serum}
  <2>1. m \in LegacyMessage /\ Len(Own(k)) = Len(m.instructions)
        /\ data.transactions[k] = PbTransaction(decoded[k])
    BY OwnInstructions
  <2>2. category = CategorizeTransaction(m)
    BY <2>1, PbTransactionFields
  <2>3. \A i \in 1..Len(m.instructions) : Own(k)[i].program_id = Program(m, m.instructions[i])
    BY OwnFields
  <2>4. /\ category[1] = "Dex" <=> Uses(m, J) \/ Uses(m, R) \/ Uses(m, S)
        /\ \/ Uses(m, J) /\ category[2] = "JupiterSwap"
           \/ Uses(m, R) /\ category[2] = "RaydiumSwap"
           \/ Uses(m, S) /\ category[2] = "SerumNewOrder"
           \/ ~(Uses(m, J) \/ Uses(m, R) \/ Uses(m, S))
    BY <2>1, <2>2, DexCategory
  <2>5. \A p : IsDexProgram(p) <=> p \in J \/ p \in R \/ p \in S
    BY DEF IsDexProgram
  <2>6. \A p : /\ p \in J => CategorizeDexInstruction(p, [tag |-> 0]) = "JupiterSwap"
               /\ p \in R => CategorizeDexInstruction(p, [tag |-> 1]) = "RaydiumSwap"
               /\ p \in S => CategorizeDexInstruction(p, [tag |-> 0]) = "SerumNewOrder"
    BY DexKinds
  <2> HIDE DEF m, category, J, R, S
  <2>7. dex = {i \in 1..Len(m.instructions) :
                 Own(k)[i].program_id \in J \/ Own(k)[i].program_id \in R
                   \/ Own(k)[i].program_id \in S}
    BY <2>1, <2>5
  <2>8. dex # {} <=> Uses(m, J) \/ Uses(m, R) \/ Uses(m, S)
    BY <2>3, <2>7 DEF Uses
  <2>9. 0 \in U8 /\ 1 \in U8
    BY DEF U8
  <2>10. ASSUME dex # {}
         PROVE  \E i \in dex, t \in U8 :
                    category[2] = CategorizeDexInstruction(Own(k)[i].program_id, [tag |-> t])
    <3>1. CASE Uses(m, J) /\ category[2] = "JupiterSwap"
      <4>1. PICK i \in dex : Own(k)[i].program_id \in J
        BY <2>3, <2>7, <3>1 DEF Uses
      <4> QED BY <2>6, <2>9, <3>1, <4>1
    <3>2. CASE Uses(m, R) /\ category[2] = "RaydiumSwap"
      <4>1. PICK i \in dex : Own(k)[i].program_id \in R
        BY <2>3, <2>7, <3>2 DEF Uses
      <4> QED BY <2>6, <2>9, <3>2, <4>1
    <3>3. CASE Uses(m, S) /\ category[2] = "SerumNewOrder"
      <4>1. PICK i \in dex : Own(k)[i].program_id \in S
        BY <2>3, <2>7, <3>3 DEF Uses
      <4> QED BY <2>6, <2>9, <3>3, <4>1
    <3> QED BY <2>4, <2>8, <2>10, <3>1, <3>2, <3>3
  <2>11. category[1] = "Dex" <=> dex # {}
    BY <2>4, <2>8
  <2> QED BY <2>10, <2>11 DEF category
<1> QED BY <1>1, BlockInitInv, BlockNextInv, PTL DEF Spec

\* Every TransferChecked instruction that the reply lists is reported, in order and
\* with its accounts, for every block and every reading of it.  The plain ones that
\* are reported beside them, which the witness names, are none.
THEOREM CheckedTransfersInOrder == Spec => []CheckedTransfersReported
<1> DEFINE Inner(k, i) ==
               IF Checked(Own(k)[i]) THEN <<CheckedReport(Own(k)[i], k)>>
               ELSE IF <<k, i>> \in {} THEN PlainReport(k, i) ELSE <<>>
<1>1. ASSUME BlockInv, NEW k \in 1..Len(data.transactions)
      PROVE  FlattenSeq([i \in 1..Len(Own(k)) |-> Inner(k, i)]) = PbTokenTransfers(decoded[k])
  <2> DEFINE tx == decoded[k]
             m == tx.message
             L == Len(m.instructions)
  <2>1. /\ tx \in Enriched /\ m \in LegacyMessage /\ ~Panics(m) /\ Len(Own(k)) = L
        /\ data.transactions[k] = PbTransaction(tx)
    BY <1>1, OwnInstructions
  <2>2. data.transactions[k].signature = tx.signature /\ tx.meta \in Option(StatusMeta)
    BY <2>1, PbTransactionFields DEF Enriched
  <2>3. ASSUME NEW i \in 1..L PROVE Inner(k, i) = ReportsOf(tx, i)
    <3> DEFINE ix == m.instructions[i]
               own == Own(k)[i]
    <3>1. /\ own.program_id = Program(m, ix) /\ own.data = ix.data
          /\ own.accounts = [n \in 1..Len(ix.accounts) |-> PbAccount(m, ix.accounts[n])]
      BY <1>1, OwnFields
    <3>2. /\ CheckedTransfer(m, ix) => Len(ix.accounts) >= 3
          /\ Len(ix.accounts) \in Nat
      BY <2>1, <2>2, TransferParsed, AccountsPresent
    <3>3. ReportsOf(tx, i) =
            IF CheckedTransfer(m, ix) THEN <<ReportOf(m, ix, tx.signature)>> ELSE <<>>
      BY DEF ReportsOf
    <3> HIDE DEF ix, own, tx, m
    <3>4. Checked(own) <=> CheckedTransfer(m, ix)
      BY <3>1 DEF CheckedTransfer, Checked
    <3>5. ASSUME CheckedTransfer(m, ix) PROVE CheckedReport(own, k) = ReportOf(m, ix, tx.signature)
      <4>1. 1 \in 1..Len(ix.accounts) /\ 2 \in 1..Len(ix.accounts) /\ 3 \in 1..Len(ix.accounts)
        BY <3>2, <3>5
      <4>2. \A n \in 1..Len(ix.accounts) : own.accounts[n].address = Key(m, ix.accounts[n])
        BY <3>1 DEF PbAccount
      <4>3. /\ own.accounts[1].address = Key(m, ix.accounts[1])
            /\ own.accounts[2].address = Key(m, ix.accounts[2])
            /\ own.accounts[3].address = Key(m, ix.accounts[3])
        BY <4>1, <4>2
      <4> QED BY <2>2, <3>1, <4>3 DEF CheckedReport, ReportOf, Transfer
    <3>6. Inner(k, i) = IF Checked(own) THEN <<CheckedReport(own, k)>> ELSE <<>>
      BY DEF own
    <3> HIDE DEF Inner
    <3> QED BY <3>3, <3>4, <3>5, <3>6
  <2>4. PbTokenTransfers(tx) = FlattenSeq([i \in 1..L |-> ReportsOf(tx, i)])
    BY <2>1, TransfersReported
  <2> HIDE DEF Inner
  <2>5. [i \in 1..Len(Own(k)) |-> Inner(k, i)] = [i \in 1..L |-> ReportsOf(tx, i)]
    BY <2>1, <2>3
  <2> QED BY <2>4, <2>5
<1>2. ASSUME BlockInv PROVE CheckedTransfersReported
  <2> DEFINE All(k) == FlattenSeq([i \in 1..Len(Own(k)) |-> Inner(k, i)])
  <2>1. \A k \in 1..Len(data.transactions) : All(k) = PbTokenTransfers(decoded[k])
    BY <1>1, <1>2
  <2>2. data.token_transfers =
          FlattenSeq([k \in 1..Len(data.transactions) |-> PbTokenTransfers(decoded[k])])
    BY <1>2 DEF BlockInv, DataOf
  <2> HIDE DEF All
  <2>3. [k \in 1..Len(data.transactions) |-> All(k)]
          = [k \in 1..Len(data.transactions) |-> PbTokenTransfers(decoded[k])]
    BY <2>1
  <2>4. data.token_transfers = FlattenSeq([k \in 1..Len(data.transactions) |-> All(k)])
    BY <2>2, <2>3
  <2>5. data.token_transfers = TransfersOf({})
    BY <2>4, Zenon DEF TransfersOf, All
  <2>6. {} \in SUBSET Plain
    OBVIOUS
  <2> QED BY <2>5, <2>6, Zenon DEF CheckedTransfersReported
<1> QED BY <1>1, <1>2, BlockInitInv, BlockNextInv, PTL DEF Spec

\* The leader of a header is that of a fee reward.
LEMMA LeaderIsRewarded ==
    ASSUME node \in Block, FeeReward # <<>>
    PROVE  \E r \in ToSet(node.rewards[1]) : r = FeeReward[1] /\ r.type = "Fee"
<1> DEFINE rewards == IF node.rewards = <<>> THEN <<>> ELSE node.rewards[1]
           I == {i \in 1..Len(rewards) : rewards[i].type = "Fee"}
<1>1. FeeReward = IF (IF I # {} THEN Min(I) ELSE 0) = 0 THEN <<>>
                  ELSE <<rewards[IF I # {} THEN Min(I) ELSE 0]>>
  BY Zenon DEF FeeReward, SelectInSeq
<1>2. I # {}
  <2> HIDE DEF I
  <2> QED BY <1>1
<1>3. node.rewards # <<>>
  BY <1>2
<1>4. rewards = node.rewards[1]
  BY <1>3
<1>5. node.rewards[1] \in Seq(BlockReward)
  BY <1>3 DEF Block, Option
<1> HIDE DEF rewards
<1>6. Len(rewards) \in Nat /\ DOMAIN rewards = 1..Len(rewards)
  BY <1>4, <1>5
<1>7. Min(I) \in I
  <2>1. I \in SUBSET (1..Len(rewards))
    OBVIOUS
  <2> HIDE DEF I
  <2> QED BY <1>2, <1>6, <2>1, MinIndex
<1>8. Min(I) \in 1..Len(rewards) /\ rewards[Min(I)].type = "Fee"
  BY <1>7
<1> HIDE DEF I
<1>9. FeeReward = <<rewards[Min(I)]>>
  <2>1. Min(I) # 0
    BY <1>6, <1>8
  <2> QED BY <1>1, <1>2, <2>1
<1>10. FeeReward[1] = rewards[Min(I)]
  BY <1>9
<1> QED BY <1>4, <1>6, <1>8, <1>10 DEF ToSet

\* A reply has every transaction of the node's block once, in order and under its
\* signature, and totals and a leader that agree with it, for every block.
THEOREM ReplyComplete == Spec => []ReplyAccountsForBlock
<1>1. BlockInv => ReplyAccountsForBlock
  <2> SUFFICES ASSUME BlockInv, pc = "ok" PROVE ReplyAccountsForBlock
    BY DEF ReplyAccountsForBlock
  <2> DEFINE tr == data.transactions
             N == Len(Encoded)
  <2>1. /\ node \in Block /\ Decodes(decoded, Encoded) /\ Converted(tr, decoded)
        /\ Len(decoded) = N /\ Len(tr) = Len(decoded) /\ header = HeaderOf
    BY DEF BlockInv, DataOf, StageInv
  <2>2. Encoded \in Seq(EncodedTransaction)
    BY <2>1, EncodedType
  <2>3. ASSUME NEW k \in 1..N
        PROVE  /\ Encoded[k].signatures # <<>>
               /\ tr[k].signature = Encoded[k].signatures[1]
               /\ tr[k].fee = Fee(Encoded[k].meta)
               /\ tr[k].units = Units(Encoded[k].meta)
    <3> DEFINE enc == Encoded[k]
    <3>1. enc \in EncodedTransaction
      BY <2>2, <2>3
    <3>2. k \in 1..Len(decoded) /\ k \in 1..Len(tr)
      BY <2>1
    <3>3. PICK m \in Readings(enc) : decoded[k] = EnrichedTransaction(enc, m)
      BY <2>1, <3>2 DEF Decodes
    <3>4. tr[k] = PbTransaction(decoded[k])
      BY <2>1, <3>2 DEF Converted
    <3>5. decoded[k].signature = Head(enc.signatures) /\ decoded[k].meta = enc.meta
      BY <3>3 DEF EnrichedTransaction
    <3>6. enc.signatures # <<>>
      BY <3>3 DEF Readings
    <3>7. enc.signatures \in Seq(STRING)
      BY <3>1 DEF EncodedTransaction
    <3>8. Head(enc.signatures) = enc.signatures[1]
      BY <3>6, <3>7
    <3> HIDE DEF enc
    <3>9. /\ tr[k].signature = decoded[k].signature /\ tr[k].fee = Fee(decoded[k].meta)
          /\ tr[k].units = Units(decoded[k].meta)
      BY <3>4, PbTransactionFields
    <3> QED BY <3>5, <3>6, <3>8, <3>9 DEF enc
  <2>4. /\ header.total_fee = Totals.fee /\ header.total_units = Totals.units
        /\ FeeReward = <<>> => header.leader = ""
        /\ FeeReward # <<>> =>
             header.leader = FeeReward[1].pubkey /\ header.leader_reward = FeeReward[1].lamports
    BY <2>1 DEF HeaderOf
  <2>5. header.total_fee = SumSeq([k \in 1..Len(tr) |-> tr[k].fee])
    <3>1. [k \in 1..N |-> Fee(Encoded[k].meta)] = [k \in 1..Len(tr) |-> tr[k].fee]
      BY <2>1, <2>3
    <3>2. Totals.fee = SumSeq([k \in 1..N |-> Fee(Encoded[k].meta)])
      BY DEF Totals
    <3> QED BY <2>4, <3>1, <3>2
  <2>6. header.total_units = SumSeq([k \in 1..Len(tr) |-> tr[k].units])
    <3>1. [k \in 1..N |-> Units(Encoded[k].meta)] = [k \in 1..Len(tr) |-> tr[k].units]
      BY <2>1, <2>3
    <3>2. Totals.units = SumSeq([k \in 1..N |-> Units(Encoded[k].meta)])
      BY DEF Totals
    <3> QED BY <2>4, <3>1, <3>2
  <2>7. ASSUME header.leader # ""
        PROVE  \E r \in ToSet(node.rewards[1]) :
                   r.pubkey = header.leader /\ r.lamports = header.leader_reward /\ r.type = "Fee"
    <3>1. FeeReward # <<>>
      BY <2>4, <2>7
    <3> QED BY <2>1, <2>4, <3>1, LeaderIsRewarded
  <2> QED BY <2>1, <2>3, <2>5, <2>6, <2>7 DEF ReplyAccountsForBlock
<1> QED BY <1>1, BlockInitInv, BlockNextInv, PTL DEF Spec

\* What the runtime has executed does not make the parser panic.
LEMMA ExecutedDoesNotPanic ==
    ASSUME NEW m \in LegacyMessage, Executable(m)
    PROVE  ~Panics(m)
<1> SUFFICES ASSUME NEW ix \in ToSet(m.instructions)
             PROVE  /\ ix.program \in Indices(m)
                    /\ \A a \in ToSet(ix.accounts) : a \in Indices(m)
                    /\ ~(Len(ix.accounts) < AccountsRead(m, ix))
  BY DEF Panics
<1>1. m.instructions \in Seq(CompiledInstruction)
  BY DEF LegacyMessage
<1>2. ix \in CompiledInstruction
  BY <1>1 DEF ToSet
<1>3. ix.accounts \in Seq(U8)
  BY <1>2 DEF CompiledInstruction
<1>4. Len(ix.accounts) \in Nat
  BY <1>3
<1>5. /\ ix.program \in Indices(m)
      /\ \A a \in ToSet(ix.accounts) : a \in Indices(m)
      /\ Program(m, ix) = Token =>
            /\ TokenInstruction(ix.data) = "Transfer" => Len(ix.accounts) >= 3
            /\ TokenInstruction(ix.data) = "TransferChecked" => Len(ix.accounts) >= 4
  BY DEF Executable
<1>6. ~(Len(ix.accounts) < AccountsRead(m, ix))
  BY <1>4, <1>5 DEF AccountsRead, IsTokenProgram
<1> QED BY <1>5, <1>6

\* A panic needs a transaction of version 0 or one not known to have succeeded, for
\* every block that a node can answer with.
THEOREM PanicsAreUnusual == Spec => []PanicNeedsUnusualBlock
<1>1. BlockInv => PanicNeedsUnusualBlock
  <2> SUFFICES ASSUME BlockInv, pc = "reset",
                      \A enc \in ToSet(Encoded) :
                          enc.version = "legacy" /\ enc.meta # <<>> /\ enc.meta[1].err = <<>>
               PROVE  FALSE
    BY DEF PanicNeedsUnusualBlock
  <2> DEFINE n == Len(data.transactions) + 1
             enc == Encoded[n]
  <2>1. /\ node \in Block /\ node \in Blocks /\ Decodes(decoded, Encoded)
        /\ decoded \in Seq(Enriched) /\ Converted(data.transactions, decoded)
        /\ Len(decoded) = Len(Encoded) /\ Len(data.transactions) < Len(decoded)
        /\ Panics(decoded[n].message)
    BY DEF BlockInv, StageInv, DataOf, Current
  <2>2. n \in 1..Len(decoded)
    BY <2>1 DEF Converted
  <2>3. Encoded \in Seq(EncodedTransaction)
    BY <2>1, EncodedType
  <2>4. enc \in EncodedTransaction /\ enc \in ToSet(Encoded)
    BY <2>1, <2>2, <2>3 DEF ToSet
  <2>5. PICK m \in Readings(enc) : decoded[n] = EnrichedTransaction(enc, m)
    BY <2>1, <2>2 DEF Decodes
  <2>6. node.transactions # <<>> /\ Encoded = node.transactions[1]
    BY <2>4 DEF Encoded, ToSet
  <2>7. enc \in ToSet(node.transactions[1])
    BY <2>4, <2>6
  <2> HIDE DEF enc
  <2>8. enc.version = "legacy" /\ enc.meta # <<>> /\ enc.meta[1].err = <<>>
    BY <2>4
  <2>9. Executable(enc.message)
    BY <2>1, <2>6, <2>7, <2>8, RuntimeAssumption
  <2>10. m = enc.message
    BY <2>5, <2>8 DEF Readings
  <2>11. enc.message \in LegacyMessage
    BY <2>4 DEF EncodedTransaction
  <2>12. decoded[n].message = m
    BY <2>5 DEF EnrichedTransaction
  <2> QED BY <2>1, <2>9, <2>10, <2>11, <2>12, ExecutedDoesNotPanic
<1> QED BY <1>1, BlockInitInv, BlockNextInv, PTL DEF Spec

(***************************************************************************)
(* The gRPC client and its registry.                                       *)
(***************************************************************************)

Status == {"connected", "connecting", "disconnected"}
Entry  == [status : Status \cup {"none"}, attempts : Nat]

\* The values of the variables.
GrpcTypeOK ==
    /\ client \in {"down", "connect", "timer", "quiet"}
    /\ status \in Status
    /\ retry \in 0..MaxRetries
    /\ backoff \in Nat
    /\ entry \in Entry
    /\ casts \in Seq(Status)
    /\ registry \in BOOLEAN /\ sup \in BOOLEAN

\* Registry and supervisor live together, and the client only with them; a
\* supervisor that starts finds nothing left of the one before it; a client that
\* has yet to start has its initial state, and one that connects counts retries
\* only while it says so.
LifeInv ==
    /\ registry = sup
    /\ client # "down" => registry
    /\ ~registry => entry = NoEntry /\ casts = <<>>
    /\ client = "down" => status = "disconnected" /\ retry = 0
    /\ client \in {"connect", "timer"} /\ status # "connecting" => retry = 0

\* The inductive invariant.
GrpcInv == GrpcTypeOK /\ LifeInv /\ RegistryFollowsClient /\ BackoffFollowsRetries

\* The recursive function of AfterCasts.
After(e, s) ==
    CHOOSE g : g = [n \in 0..Len(s) |-> IF n = 0 THEN e ELSE Updated(g[n - 1], s[n])]

\* A cast keeps an entry an entry.
LEMMA UpdatedType ==
    ASSUME NEW e \in Entry, NEW x \in Status
    PROVE  Updated(e, x) \in Entry
BY DEF Updated, Entry, Status

\* What AfterCasts computes, one cast after the other.
LEMMA AfterDef ==
    ASSUME NEW e \in Entry, NEW s \in Seq(Status)
    PROVE  /\ AfterCasts(e, s) = After(e, s)[Len(s)]
           /\ After(e, s)[0] = e
           /\ \A i \in 1..Len(s) : After(e, s)[i] = Updated(After(e, s)[i - 1], s[i])
<1> DEFINE Step(g, n) == IF n = 0 THEN e ELSE Updated(g[n - 1], s[n])
           F == [i \in 1..Len(s) |-> [x \in Entry |-> Updated(x, s[i])]]
<1>1. Len(s) \in Nat /\ \A i \in 1..Len(s) : s[i] \in Status
  OBVIOUS
<1>2. F \in Steps(Len(s), Entry)
  BY <1>1, UpdatedType DEF Steps
<1>3. \A i \in 1..Len(s), x \in Entry : F[i][x] = Updated(x, s[i])
  OBVIOUS
<1> HIDE DEF F
<1>4. PICK g \in [0..Len(s) -> Entry] : g[0] = e /\ \A i \in 1..Len(s) : g[i] = F[i][g[i - 1]]
  BY <1>1, <1>2, Recursion
<1>5. \A i \in 0..Len(s) : g[i] = Step(g, i)
  <2> TAKE i \in 0..Len(s)
  <2>1. CASE i = 0
    BY <1>4, <2>1
  <2>2. CASE i # 0
    <3>1. i \in 1..Len(s) /\ i - 1 \in 0..Len(s)
      BY <1>1, <2>2
    <3>2. g[i - 1] \in Entry
      BY <3>1
    <3> QED BY <1>3, <1>4, <2>2, <3>1, <3>2
  <2> QED BY <2>1, <2>2
<1>6. g = [i \in 0..Len(s) |-> g[i]]
  OBVIOUS
<1>7. g = [i \in 0..Len(s) |-> Step(g, i)]
  BY <1>5, <1>6
<1>8. After(e, s) = [i \in 0..Len(s) |-> Step(After(e, s), i)]
  BY <1>7, Zenon DEF After
<1>9. AfterCasts(e, s) = After(e, s)[Len(s)]
  BY Zenon DEF AfterCasts, After
<1> HIDE DEF After
<1>10. \A i \in 0..Len(s) : After(e, s)[i] = Step(After(e, s), i)
  BY <1>8
<1>11. \A i \in 1..Len(s) : i \in 0..Len(s) /\ i # 0
  BY <1>1
<1>12. 0 \in 0..Len(s)
  BY <1>1
<1> QED BY <1>9, <1>10, <1>11, <1>12

\* It is an entry.
LEMMA AfterType ==
    ASSUME NEW e \in Entry, NEW s \in Seq(Status)
    PROVE  AfterCasts(e, s) \in Entry
<1>1. Len(s) \in Nat /\ \A i \in 1..Len(s) : s[i] \in Status
  OBVIOUS
<1>2. \A i \in 1..Len(s) : After(e, s)[i - 1] \in Entry => After(e, s)[i] \in Entry
  BY <1>1, AfterDef, UpdatedType
<1>3. After(e, s)[0] \in Entry
  BY AfterDef
<1>4. \A i \in 0..Len(s) : After(e, s)[i] \in Entry
  BY <1>1, <1>2, <1>3, StaysIn
<1> QED BY <1>1, <1>4, AfterDef

\* No casts, no change.
LEMMA AfterNone ==
    ASSUME NEW e \in Entry
    PROVE  AfterCasts(e, <<>>) = e
<1> DEFINE s == <<>>
<1>1. s \in Seq(Status) /\ Len(s) = 0
  OBVIOUS
<1> HIDE DEF s
<1>2. AfterCasts(e, s) = After(e, s)[Len(s)] /\ After(e, s)[0] = e
  BY <1>1, AfterDef
<1>3. AfterCasts(e, s) = e
  BY <1>1, <1>2
<1> QED BY <1>3 DEF s

\* A cast that is sent is applied last.
LEMMA AfterAppend ==
    ASSUME NEW e \in Entry, NEW s \in Seq(Status), NEW x \in Status
    PROVE  AfterCasts(e, Append(s, x)) = Updated(AfterCasts(e, s), x)
<1> DEFINE t == Append(s, x)
<1>1. /\ t \in Seq(Status) /\ Len(t) = Len(s) + 1 /\ t[Len(s) + 1] = x /\ Len(s) \in Nat
      /\ \A i \in 1..Len(s) : t[i] = s[i]
  OBVIOUS
<1> HIDE DEF t
<1>2. After(e, s)[0] = After(e, t)[0]
  BY <1>1, AfterDef
<1>3. ASSUME NEW i \in 1..Len(s), After(e, s)[i - 1] = After(e, t)[i - 1]
      PROVE  After(e, s)[i] = After(e, t)[i]
  <2>1. i \in 1..Len(t) /\ t[i] = s[i]
    BY <1>1
  <2>2. After(e, s)[i] = Updated(After(e, s)[i - 1], s[i])
    BY AfterDef
  <2>3. After(e, t)[i] = Updated(After(e, t)[i - 1], t[i])
    BY <1>1, <2>1, AfterDef
  <2> QED BY <1>3, <2>1, <2>2, <2>3
<1>4. \A i \in 0..Len(s) : After(e, s)[i] = After(e, t)[i]
  <2>1. Alike(After(e, s), After(e, t), Len(s))
    BY <1>2, <1>3 DEF Alike
  <2> QED BY <1>1, <2>1, StayAlike
<1>5. Len(s) + 1 \in 1..Len(t) /\ (Len(s) + 1) - 1 = Len(s) /\ Len(s) \in 0..Len(s)
  BY <1>1
<1>6. After(e, t)[Len(s) + 1] = Updated(After(e, t)[Len(s)], x)
  BY <1>1, <1>5, AfterDef
<1>7. AfterCasts(e, t) = After(e, t)[Len(s) + 1] /\ AfterCasts(e, s) = After(e, s)[Len(s)]
  BY <1>1, AfterDef
<1>8. AfterCasts(e, t) = Updated(AfterCasts(e, s), x)
  BY <1>4, <1>5, <1>6, <1>7
<1> QED BY <1>8 DEF t

\* A cast that is handled was to be applied first.
LEMMA AfterHead ==
    ASSUME NEW e \in Entry, NEW s \in Seq(Status), s # <<>>
    PROVE  AfterCasts(e, s) = AfterCasts(Updated(e, Head(s)), Tail(s))
<1> DEFINE t == Tail(s)
           d == Updated(e, Head(s))
           h == [i \in 0..Len(t) |-> After(e, s)[i + 1]]
<1>1. /\ t \in Seq(Status) /\ Len(t) = Len(s) - 1 /\ Len(s) \in Nat \ {0}
      /\ \A i \in 1..Len(t) : t[i] = s[i + 1]
  BY HeadTailProperties
<1>2. Head(s) = s[1] /\ Head(s) \in Status
  BY HeadTailProperties
<1>3. d \in Entry
  BY <1>2, UpdatedType
<1>4. After(e, s)[1] = d
  <2>1. 1 \in 1..Len(s) /\ 1 - 1 = 0
    BY <1>1
  <2>2. After(e, s)[1] = Updated(After(e, s)[0], s[1]) /\ After(e, s)[0] = e
    BY <2>1, AfterDef
  <2> QED BY <1>2, <2>2
<1> HIDE DEF t, d
<1>5. \A i \in 0..Len(t) : h[i] = After(e, s)[i + 1]
  OBVIOUS
<1> HIDE DEF h
<1>6. After(d, t)[0] = h[0]
  <2>1. 0 \in 0..Len(t) /\ 0 + 1 = 1
    BY <1>1
  <2>2. After(d, t)[0] = d
    BY <1>1, <1>3, AfterDef
  <2> QED BY <1>4, <1>5, <2>1, <2>2
<1>7. ASSUME NEW i \in 1..Len(t), After(d, t)[i - 1] = h[i - 1]
      PROVE  After(d, t)[i] = h[i]
  <2>1. /\ i \in 0..Len(t) /\ i - 1 \in 0..Len(t) /\ (i - 1) + 1 = i /\ (i + 1) - 1 = i
        /\ i + 1 \in 1..Len(s)
    BY <1>1
  <2>2. After(d, t)[i] = Updated(After(d, t)[i - 1], t[i])
    BY <1>1, <1>3, AfterDef
  <2>3. After(e, s)[i + 1] = Updated(After(e, s)[i], s[i + 1])
    BY <2>1, AfterDef
  <2>4. h[i] = After(e, s)[i + 1] /\ h[i - 1] = After(e, s)[i]
    BY <1>5, <2>1
  <2> QED BY <1>1, <1>7, <2>2, <2>3, <2>4
<1>8. Len(t) \in Nat /\ Len(t) \in 0..Len(t) /\ Len(t) + 1 = Len(s)
  BY <1>1
<1>9. After(d, t)[Len(t)] = h[Len(t)]
  <2>1. Alike(After(d, t), h, Len(t))
    BY <1>6, <1>7 DEF Alike
  <2> QED BY <1>8, <2>1, StayAlike
<1>10. h[Len(t)] = After(e, s)[Len(s)]
  BY <1>5, <1>8
<1>11. AfterCasts(e, s) = After(e, s)[Len(s)] /\ AfterCasts(d, t) = After(d, t)[Len(t)]
  BY <1>1, <1>3, AfterDef
<1> QED BY <1>9, <1>10, <1>11 DEF d, t

\* The delays without a maximum.
LEMMA DoubledDef ==
    /\ Doubled[0] = BaseBackoff
    /\ \A n \in 1..MaxRetries : Doubled[n] = 2 * Doubled[n - 1]
    /\ \A n \in 0..MaxRetries : Doubled[n] \in Nat \ {0}
<1> DEFINE Step(g, n) == IF n = 0 THEN BaseBackoff ELSE 2 * g[n - 1]
           D == Nat \ {0}
           F == [i \in 1..MaxRetries |-> [x \in D |-> 2 * x]]
<1>1. MaxRetries \in Nat /\ BaseBackoff \in D
  BY ConnectionAssumption
<1>2. F \in Steps(MaxRetries, D) /\ \A i \in 1..MaxRetries, x \in D : F[i][x] = 2 * x
  BY DEF Steps
<1> HIDE DEF F, D
<1>3. PICK g \in [0..MaxRetries -> D] :
          g[0] = BaseBackoff /\ \A i \in 1..MaxRetries : g[i] = F[i][g[i - 1]]
  BY <1>1, <1>2, Recursion
<1>4. \A i \in 0..MaxRetries : g[i] = Step(g, i)
  <2> TAKE i \in 0..MaxRetries
  <2>1. CASE i = 0
    BY <1>3, <2>1
  <2>2. CASE i # 0
    <3>1. i \in 1..MaxRetries /\ i - 1 \in 0..MaxRetries
      BY <1>1, <2>2
    <3>2. g[i - 1] \in D
      BY <3>1
    <3> QED BY <1>2, <1>3, <2>2, <3>1, <3>2
  <2> QED BY <2>1, <2>2
<1>5. g = [i \in 0..MaxRetries |-> g[i]]
  OBVIOUS
<1>6. g = [i \in 0..MaxRetries |-> Step(g, i)]
  BY <1>4, <1>5
<1>7. Doubled = [i \in 0..MaxRetries |-> Step(Doubled, i)]
  BY <1>6, Zenon DEF Doubled
<1>8. \A i \in 0..MaxRetries : Doubled[i] = Step(Doubled, i)
  BY <1>7
<1>9. Doubled[0] = BaseBackoff
  BY <1>1, <1>8
<1>10. ASSUME NEW n \in 1..MaxRetries PROVE Doubled[n] = 2 * Doubled[n - 1]
  <2>1. n \in 0..MaxRetries /\ n # 0
    OBVIOUS
  <2> QED BY <1>8, <2>1
<1>11. \A n \in 1..MaxRetries : Doubled[n - 1] \in D => Doubled[n] \in D
  BY <1>10 DEF D
<1>12. \A n \in 0..MaxRetries : Doubled[n] \in D
  BY <1>1, <1>9, <1>11, StaysIn
<1> QED BY <1>9, <1>10, <1>12 DEF D

\* Every behaviour starts in the invariant.
LEMMA GrpcInitInv == GrpcInit => GrpcInv
<1> SUFFICES ASSUME GrpcInit PROVE GrpcInv
  OBVIOUS
<1> USE DEF GrpcInit
<1>1. <<>> \in Seq(Status)
  OBVIOUS
<1>2. GrpcTypeOK
  BY <1>1, ConnectionAssumption DEF GrpcTypeOK, Status, Entry, NoEntry
<1>3. LifeInv
  BY DEF LifeInv
<1>4. RegistryFollowsClient
  BY DEF RegistryFollowsClient
<1>5. BackoffFollowsRetries
  BY ConnectionAssumption, DoubledDef DEF BackoffFollowsRetries, SmallerDelay
<1> QED BY <1>2, <1>3, <1>4, <1>5 DEF GrpcInv

\* What the registry will say of the client.
Told == [status |-> status, attempts |-> IF status = "connecting" THEN retry ELSE 0]

\* A cast sent to a running registry.
LEMMA UpdateStatusSends ==
    ASSUME GrpcInv, registry, NEW x \in Status, UpdateStatus(x), entry' = entry,
           client # "down"
    PROVE  /\ casts' \in Seq(Status)
           /\ AfterCasts(entry, casts)' =
                [status |-> x, attempts |-> IF x = "connecting" THEN Told.attempts + 1 ELSE 0]
<1>1. casts \in Seq(Status) /\ entry \in Entry
  BY DEF GrpcInv, GrpcTypeOK
<1>2. casts' = Append(casts, x)
  BY DEF UpdateStatus
<1>3. AfterCasts(entry, casts)' = AfterCasts(entry, Append(casts, x))
  BY <1>2
<1>4. AfterCasts(entry, casts) = Told
  BY DEF GrpcInv, RegistryFollowsClient, Told
<1>5. Told # NoEntry
  BY DEF GrpcInv, GrpcTypeOK, Status, Told, NoEntry
<1>6. AfterCasts(entry, casts)' = Updated(Told, x)
  BY <1>1, <1>3, <1>4, AfterAppend
<1>7. Updated(Told, x) =
        [status |-> x, attempts |-> IF x = "connecting" THEN Told.attempts + 1 ELSE 0]
  BY <1>5 DEF Updated
<1> QED BY <1>1, <1>2, <1>6, <1>7

\* The client handles :connect.
LEMMA ClientStepInv ==
    ASSUME GrpcInv, ClientStep PROVE GrpcInv'
<1> USE ConnectionAssumption
<1>1. CASE ConnectSucceeds
  <2> USE <1>1 DEF ConnectSucceeds
  <2>1. registry /\ client # "down"
    BY DEF GrpcInv, LifeInv
  <2>2. /\ casts' \in Seq(Status)
        /\ AfterCasts(entry, casts)' = [status |-> "connected", attempts |-> 0]
    BY <2>1, UpdateStatusSends DEF Status
  <2>3. GrpcTypeOK'
    BY <2>2 DEF GrpcInv, GrpcTypeOK, Status
  <2>4. LifeInv'
    BY <2>1 DEF GrpcInv, LifeInv
  <2>5. RegistryFollowsClient'
    BY <2>2 DEF RegistryFollowsClient
  <2>6. BackoffFollowsRetries'
    BY DoubledDef DEF BackoffFollowsRetries, SmallerDelay
  <2> QED BY <2>3, <2>4, <2>5, <2>6 DEF GrpcInv
<1>2. CASE ConnectFails
  <2> USE <1>2 DEF ConnectFails
  <2>1. registry /\ client # "down"
    BY DEF GrpcInv, LifeInv
  <2>2. Told.attempts = retry
    BY DEF Told, GrpcInv, LifeInv
  <2>3. /\ casts' \in Seq(Status)
        /\ AfterCasts(entry, casts)' = [status |-> "connecting", attempts |-> retry + 1]
    BY <2>1, <2>2, UpdateStatusSends DEF Status
  <2>4. retry \in Nat /\ backoff \in Nat /\ retry + 1 \in 1..MaxRetries /\ retry \in 0..MaxRetries
    BY DEF GrpcInv, GrpcTypeOK
  <2>5. GrpcTypeOK'
    BY <2>3, <2>4 DEF GrpcInv, GrpcTypeOK, Status, SmallerDelay
  <2>6. LifeInv'
    BY <2>1 DEF GrpcInv, LifeInv
  <2>7. RegistryFollowsClient'
    BY <2>3 DEF RegistryFollowsClient
  <2>8. Doubled[retry + 1] = 2 * Doubled[retry] /\ Doubled[retry] \in Nat
    BY <2>4, DoubledDef
  <2>9. backoff = SmallerDelay(Doubled[retry], MaxBackoff)
    BY DEF GrpcInv, BackoffFollowsRetries
  <2>10. backoff' = SmallerDelay(Doubled[retry + 1], MaxBackoff)
    BY <2>8, <2>9 DEF SmallerDelay
  <2>11. BackoffFollowsRetries'
    BY <2>4, <2>10 DEF BackoffFollowsRetries
  <2> QED BY <2>5, <2>6, <2>7, <2>11 DEF GrpcInv
<1>3. CASE GiveUp
  <2> USE <1>3 DEF GiveUp
  <2>1. registry /\ client # "down"
    BY DEF GrpcInv, LifeInv
  <2>2. /\ casts' \in Seq(Status)
        /\ AfterCasts(entry, casts)' = [status |-> "disconnected", attempts |-> 0]
    BY <2>1, UpdateStatusSends DEF Status
  <2>3. GrpcTypeOK'
    BY <2>2 DEF GrpcInv, GrpcTypeOK, Status
  <2>4. LifeInv'
    BY <2>1 DEF GrpcInv, LifeInv
  <2>5. RegistryFollowsClient'
    BY <2>2 DEF RegistryFollowsClient
  <2>6. BackoffFollowsRetries'
    BY DEF GrpcInv, GrpcTypeOK, BackoffFollowsRetries
  <2> QED BY <2>3, <2>4, <2>5, <2>6 DEF GrpcInv
<1>4. CASE TimerFires
  <2> USE <1>4 DEF TimerFires
  <2>1. GrpcTypeOK' /\ LifeInv'
    BY DEF GrpcInv, GrpcTypeOK, LifeInv
  <2>2. RegistryFollowsClient'
    BY DEF GrpcInv, RegistryFollowsClient
  <2>3. BackoffFollowsRetries'
    BY DEF GrpcInv, BackoffFollowsRetries
  <2> QED BY <2>1, <2>2, <2>3 DEF GrpcInv
<1> QED BY <1>1, <1>2, <1>3, <1>4 DEF ClientStep

\* The registry handles a cast.
LEMMA HandleUpdateStatusInv ==
    ASSUME GrpcInv, HandleUpdateStatus PROVE GrpcInv'
<1> USE DEF HandleUpdateStatus
<1>1. casts \in Seq(Status) /\ entry \in Entry
  BY DEF GrpcInv, GrpcTypeOK
<1>2. Head(casts) \in Status /\ casts' \in Seq(Status)
  BY <1>1, HeadTailProperties
<1>3. entry' \in Entry
  BY <1>1, <1>2, UpdatedType
<1>4. AfterCasts(entry, casts)' = AfterCasts(entry, casts)
  BY <1>1, AfterHead
<1>5. GrpcTypeOK'
  BY <1>2, <1>3 DEF GrpcInv, GrpcTypeOK, clientVars
<1>6. LifeInv'
  BY DEF GrpcInv, LifeInv, clientVars
<1>7. RegistryFollowsClient'
  BY <1>4 DEF GrpcInv, RegistryFollowsClient, clientVars
<1>8. BackoffFollowsRetries'
  BY DEF GrpcInv, BackoffFollowsRetries, clientVars
<1> QED BY <1>5, <1>6, <1>7, <1>8 DEF GrpcInv

\* A client that is gone has its initial state; the registry says what it likes.
LEMMA ClientGoneInv ==
    ASSUME GrpcInv, ClientGone, registry' \in BOOLEAN, sup' = registry',
           entry' \in Entry, casts' \in Seq(Status),
           ~registry' => entry' = NoEntry /\ casts' = <<>>
    PROVE  GrpcInv'
<1> USE ConnectionAssumption DEF ClientGone
<1>1. GrpcTypeOK'
  BY DEF GrpcTypeOK, Status
<1>2. LifeInv'
  BY DEF LifeInv
<1>3. RegistryFollowsClient'
  BY DEF RegistryFollowsClient
<1>4. BackoffFollowsRetries'
  BY DoubledDef DEF BackoffFollowsRetries, SmallerDelay
<1> QED BY <1>1, <1>2, <1>3, <1>4 DEF GrpcInv

\* Counting a restart leaves the registry as it was or takes everything down.
LEMMA CountRestartDoes ==
    ASSUME GrpcInv, CountRestart
    PROVE  /\ registry' \in BOOLEAN /\ sup' = registry'
           /\ entry' \in Entry /\ casts' \in Seq(Status)
           /\ ~registry' => entry' = NoEntry /\ casts' = <<>>
<1>1. NoEntry \in Entry
  BY DEF NoEntry, Entry
<1>2. <<>> \in Seq(Status)
  OBVIOUS
<1>3. CASE restarts < MaxRestarts
  BY <1>3 DEF CountRestart, GrpcInv, GrpcTypeOK, LifeInv
<1>4. CASE ~(restarts < MaxRestarts)
  BY <1>1, <1>2, <1>4 DEF CountRestart
<1> QED BY <1>3, <1>4

\* Starts, refused starts and the restart of the supervisor.
LEMMA SupervisorStepInv ==
    ASSUME GrpcInv, SupervisorStep PROVE GrpcInv'
<1> USE ConnectionAssumption
<1>1. CASE ClientStarts
  <2> USE <1>1 DEF ClientStarts
  <2>1. NewEntry \in Entry
    BY DEF NewEntry, Entry, Status
  <2>2. status = "disconnected" /\ retry = 0
    BY DEF GrpcInv, LifeInv
  <2>3. AfterCasts(entry, casts)' = NewEntry
    BY <2>1, AfterNone
  <2>4. GrpcTypeOK'
    BY <2>1 DEF GrpcInv, GrpcTypeOK
  <2>5. LifeInv'
    BY <2>2 DEF GrpcInv, LifeInv
  <2>6. RegistryFollowsClient'
    BY <2>2, <2>3 DEF RegistryFollowsClient, NewEntry
  <2>7. BackoffFollowsRetries'
    BY DEF GrpcInv, BackoffFollowsRetries
  <2> QED BY <2>4, <2>5, <2>6, <2>7 DEF GrpcInv
<1>2. CASE StartRefused
  <2>1. ClientGone
    BY <1>2, DoubledDef
    DEF StartRefused, ClientGone, clientVars, GrpcInv, LifeInv, BackoffFollowsRetries, SmallerDelay
  <2> QED BY <1>2, <2>1, CountRestartDoes, ClientGoneInv DEF StartRefused
<1>3. CASE SupervisorRestarts
  <2>1. ~registry /\ client = "down" /\ entry \in Entry /\ casts \in Seq(Status)
    BY <1>3 DEF SupervisorRestarts, GrpcInv, GrpcTypeOK, LifeInv
  <2>2. ClientGone
    BY <1>3, <2>1, DoubledDef
    DEF SupervisorRestarts, ClientGone, clientVars, GrpcInv, LifeInv, BackoffFollowsRetries,
        SmallerDelay
  <2> QED BY <1>3, <2>1, <2>2, ClientGoneInv DEF SupervisorRestarts
<1> QED BY <1>1, <1>2, <1>3 DEF SupervisorStep

\* Every step keeps the invariant.
LEMMA GrpcNextInv == GrpcInv /\ [GrpcNext]_grpcVars => GrpcInv'
<1> SUFFICES ASSUME GrpcInv, [GrpcNext]_grpcVars PROVE GrpcInv'
  OBVIOUS
<1>1. CASE ClientStep
  BY <1>1, ClientStepInv
<1>2. CASE HandleUpdateStatus
  BY <1>2, HandleUpdateStatusInv
<1>3. CASE SupervisorStep
  BY <1>3, SupervisorStepInv
<1>4. CASE ClientCrashes
  BY <1>4, CountRestartDoes, ClientGoneInv DEF ClientCrashes
<1>5. CASE RegistryCrashes
  <2>1. NoEntry \in Entry
    BY DEF NoEntry, Entry
  <2>2. <<>> \in Seq(Status)
    OBVIOUS
  <2>3. ClientGone /\ entry' = NoEntry /\ casts' = <<>>
    BY <1>5 DEF RegistryCrashes
  <2>4. registry' \in BOOLEAN /\ sup' = registry'
    <3>1. registry \in BOOLEAN /\ sup = registry
      BY DEF GrpcInv, GrpcTypeOK, LifeInv
    <3>2. CASE restarts < MaxRestarts
      BY <1>5, <3>1, <3>2 DEF RegistryCrashes
    <3>3. CASE ~(restarts < MaxRestarts)
      BY <1>5, <3>3 DEF RegistryCrashes
    <3> QED BY <3>2, <3>3
  <2> QED BY <2>1, <2>2, <2>3, <2>4, ClientGoneInv
<1>6. ASSUME UNCHANGED <<clientVars, registry, entry, casts, sup>> PROVE GrpcInv'
  <2>1. GrpcTypeOK' /\ LifeInv'
    BY <1>6 DEF clientVars, GrpcInv, GrpcTypeOK, LifeInv
  <2>2. RegistryFollowsClient' /\ BackoffFollowsRetries'
    BY <1>6 DEF clientVars, GrpcInv, RegistryFollowsClient, BackoffFollowsRetries
  <2> QED BY <2>1, <2>2 DEF GrpcInv
<1>7. CASE WindowPasses \/ CoreWindowPasses \/ UNCHANGED grpcVars
  BY <1>6, <1>7 DEF WindowPasses, CoreWindowPasses, clientVars, grpcVars
<1>8. CASE OtherChildEnds
  <2>1. CASE Ended'
    <3>1. NoEntry \in Entry
      BY DEF NoEntry, Entry
    <3>2. <<>> \in Seq(Status)
      OBVIOUS
    <3> QED BY <1>8, <2>1, <3>1, <3>2, ClientGoneInv DEF OtherChildEnds
  <2>2. CASE ~Ended'
    BY <1>6, <1>8, <2>2 DEF OtherChildEnds
  <2> QED BY <2>1, <2>2
<1> QED BY <1>1, <1>2, <1>3, <1>4, <1>5, <1>7, <1>8 DEF GrpcNext, Terminated

\* The registry's view of a running client is the client's own state once the
\* casts on their way have arrived, whatever crashes and restarts came before.
THEOREM RegistryTellsTheTruth == GrpcSpec => []RegistryFollowsClient
<1>1. GrpcInv => RegistryFollowsClient
  BY DEF GrpcInv
<1> QED BY <1>1, GrpcInitInv, GrpcNextInv, PTL DEF GrpcSpec

\* The delay is the base doubled once per failure and cut off at the maximum, for
\* every number of retries and every base and maximum.
THEOREM DelayFollowsRetries == GrpcSpec => []BackoffFollowsRetries
<1>1. GrpcInv => BackoffFollowsRetries
  BY DEF GrpcInv
<1> QED BY <1>1, GrpcInitInv, GrpcNextInv, PTL DEF GrpcSpec

=============================================================================
