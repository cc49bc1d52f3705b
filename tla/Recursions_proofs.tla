-------------------------- MODULE Recursions_proofs ---------------------------
(***************************************************************************)
(* Induction and recursion over the natural numbers without an operator as *)
(* a parameter, and what the functions of Recursions compute for every     *)
(* sequence and every bound.                                               *)
(***************************************************************************)
EXTENDS Recursions, FiniteSets, SequencesExt, SequenceTheorems, FiniteSetTheorems,
        WellFoundedInduction, TLAPS

----------------------------------------------------------------------------
(* Induction, with the set of the numbers that have the property.          *)

LEMMA NatOrder == ASSUME NEW T \in SUBSET Nat, T # {}
                  PROVE  \E x \in T : \A y \in T : x <= y
<1>1. IsWellFoundedOn(OpToRel(<, Nat), Nat)
  BY NatLessThanWellFounded
<1>2. PICK x \in T : \A y \in T : <<y, x>> \notin OpToRel(<, Nat)
  BY <1>1, WFMin, Zenon
<1>3. \A y \in T : ~(y < x)
  BY <1>2 DEF OpToRel
<1> QED BY <1>3

LEMMA Induct == ASSUME NEW S, 0 \in S, \A n \in Nat : n \in S => n + 1 \in S
                PROVE  Nat \subseteq S
<1> DEFINE T == {n \in Nat : n \notin S}
<1> SUFFICES ASSUME T # {} PROVE FALSE
  OBVIOUS
<1>1. PICK x \in T : \A y \in T : x <= y
  BY NatOrder
<1>2. x # 0
  OBVIOUS
<1>3. x - 1 \in Nat /\ x - 1 \notin T
  BY <1>1, <1>2
<1> QED BY <1>3

\* The same up to a bound.
LEMMA InductTo == ASSUME NEW n \in Nat, NEW S, 0 \in S, \A i \in 1..n : i - 1 \in S => i \in S
                  PROVE  0..n \subseteq S
<1> DEFINE T == {i \in Nat : i <= n => i \in S}
<1>1. 0 \in T
  OBVIOUS
<1>2. ASSUME NEW i \in Nat, i \in T PROVE i + 1 \in T
  <2> SUFFICES ASSUME i + 1 <= n PROVE i + 1 \in S
    OBVIOUS
  <2>1. i + 1 \in 1..n /\ (i + 1) - 1 = i /\ i \in S
    BY <1>2
  <2> QED BY <2>1
<1> HIDE DEF T
<1>3. Nat \subseteq T
  BY <1>1, <1>2, Induct
<1> QED BY <1>3 DEF T

\* A function is determined by its value at 0 and a step.
LEMMA Recursion ==
    ASSUME NEW X, NEW x0 \in X, NEW n \in Nat, NEW step \in [1..n -> [X -> X]]
    PROVE  \E f \in [0..n -> X] : f[0] = x0 /\ \A i \in 1..n : f[i] = step[i][f[i - 1]]
<1> DEFINE Upto(m) == \E f \in [0..m -> X] : f[0] = x0 /\ \A i \in 1..m : f[i] = step[i][f[i - 1]]
           S == {m \in 0..n : Upto(m)}
<1>1. 0 \in S
  <2> DEFINE g == [i \in 0..0 |-> x0]
  <2>1. g \in [0..0 -> X] /\ g[0] = x0 /\ \A i \in 1..0 : g[i] = step[i][g[i - 1]]
    OBVIOUS
  <2> HIDE DEF g
  <2>2. Upto(0)
    BY <2>1
  <2> QED BY <2>2
<1>2. ASSUME NEW m \in 1..n, m - 1 \in S PROVE m \in S
  <2>1. PICK f \in [0..(m - 1) -> X] : f[0] = x0 /\ \A i \in 1..(m - 1) : f[i] = step[i][f[i - 1]]
    BY <1>2
  <2> DEFINE g == [i \in 0..m |-> IF i = m THEN step[m][f[m - 1]] ELSE f[i]]
  <2>2. g \in [0..m -> X]
    BY <2>1
  <2>3. g[0] = x0
    BY <2>1
  <2>4. ASSUME NEW i \in 1..m PROVE g[i] = step[i][g[i - 1]]
    BY <2>1
  <2> HIDE DEF g
  <2>5. Upto(m)
    BY <2>2, <2>3, <2>4
  <2> HIDE DEF Upto
  <2> QED BY <2>5
<1> HIDE DEF S
<1>3. 0..n \subseteq S
  BY <1>1, <1>2, InductTo
<1> QED BY <1>3 DEF S

----------------------------------------------------------------------------
(* A selection from a sequence.                                            *)

\* How Only comes about.
Selects(s, S, kept) ==
    /\ kept[0] = <<>>
    /\ \A i \in 1..Len(s) : kept[i] = IF s[i] \in S THEN Append(kept[i - 1], s[i]) ELSE kept[i - 1]
    /\ Only(s, S) = kept[Len(s)]

LEMMA OnlySelects ==
    ASSUME NEW U, NEW S, NEW s \in Seq(U)
    PROVE  \E kept \in [0..Len(s) -> Seq(U)] : Selects(s, S, kept)
<1> DEFINE n == Len(s)
           next(t, i) == IF s[i] \in S THEN Append(t, s[i]) ELSE t
           step == [i \in 1..n |-> [t \in Seq(U) |-> next(t, i)]]
           body(f) == [i \in 0..n |-> IF i = 0 THEN <<>> ELSE next(f[i - 1], i)]
           kept == CHOOSE f : f = body(f)
<1>0. n \in Nat /\ <<>> \in Seq(U) /\ \A i \in 1..n : s[i] \in U
  OBVIOUS
<1>a. \A i \in 1..n : \A t \in Seq(U) : next(t, i) \in Seq(U)
  BY <1>0
<1>b. Only(s, S) = kept[n]
  BY DEF Only
<1> HIDE DEF n, next
<1>1. step \in [1..n -> [Seq(U) -> Seq(U)]]
  BY <1>a
<1>2. PICK f \in [0..n -> Seq(U)] : f[0] = <<>> /\ \A i \in 1..n : f[i] = step[i][f[i - 1]]
  <2> DEFINE X == Seq(U)
             x0 == <<>>
  <2>1. x0 \in X /\ n \in Nat /\ step \in [1..n -> [X -> X]]
    BY <1>0, <1>1, Zenon
  <2> HIDE DEF step, X, x0
  <2>2. \E f \in [0..n -> X] : f[0] = x0 /\ \A i \in 1..n : f[i] = step[i][f[i - 1]]
    BY <2>1, Recursion
  <2> QED BY <2>2, Zenon DEF X, x0
<1>3. \A i \in 1..n : f[i] = next(f[i - 1], i)
  <2> TAKE i \in 1..n
  <2>1. f[i - 1] \in Seq(U)
    BY <1>0
  <2>2. f[i] = step[i][f[i - 1]]
    BY <1>2
  <2>3. step[i] = [t \in Seq(U) |-> next(t, i)]
    OBVIOUS
  <2> HIDE DEF step
  <2> QED BY <2>1, <2>2, <2>3
<1>4. f = body(f)
  BY <1>0, <1>2, <1>3
<1>5. kept = body(kept)
  <2> HIDE DEF body
  <2> QED BY <1>4
<1> HIDE DEF kept
<1>6. kept[0] = <<>> /\ \A i \in 1..n : kept[i] = next(kept[i - 1], i)
  BY <1>0, <1>5
<1>7. \A i \in 0..n : kept[i] \in Seq(U)
  <2> DEFINE T == {i \in 0..n : kept[i] \in Seq(U)}
  <2>1. 0 \in T
    <3>1. kept[0] \in Seq(U)
      BY <1>0, <1>6, Zenon
    <3> QED BY <1>0, <3>1
  <2>2. ASSUME NEW i \in 1..n, i - 1 \in T PROVE i \in T
    BY <1>0, <1>a, <1>6, <2>2
  <2> HIDE DEF T
  <2>3. 0..n \subseteq T
    BY <1>0, <2>1, <2>2, InductTo
  <2> QED BY <2>3 DEF T
<1>8. kept \in [0..n -> Seq(U)]
  BY <1>5, <1>7
<1>9. Selects(s, S, kept)
  BY <1>b, <1>6 DEF Selects, next, n
<1> QED BY <1>8, <1>9 DEF n

\* A selection has the selected elements and no others, and repeats none that the
\* sequence did not repeat.
LEMMA OnlyType ==
    ASSUME NEW U, NEW S, NEW s \in Seq(U)
    PROVE  Only(s, S) \in Seq(U \cap S)
<1>1. PICK kept \in [0..Len(s) -> Seq(U)] : Selects(s, S, kept)
  BY OnlySelects
<1> DEFINE T == {i \in 0..Len(s) : kept[i] \in Seq(U \cap S)}
<1>0. Len(s) \in Nat
  OBVIOUS
<1>2. 0 \in T
  <2>1. kept[0] \in Seq(U \cap S)
    <3>1. <<>> \in Seq(U \cap S)
      OBVIOUS
    <3> QED BY <1>1, <3>1, Zenon DEF Selects
  <2> QED BY <1>0, <2>1
<1>3. ASSUME NEW i \in 1..Len(s), i - 1 \in T PROVE i \in T
  <2>1. kept[i - 1] \in Seq(U \cap S)
    BY <1>3
  <2>2. kept[i] = IF s[i] \in S THEN Append(kept[i - 1], s[i]) ELSE kept[i - 1]
    BY <1>1 DEF Selects
  <2>3. CASE s[i] \in S
    <3>1. s[i] \in U \cap S
      BY <2>3
    <3>2. Append(kept[i - 1], s[i]) \in Seq(U \cap S)
      BY <2>1, <3>1, AppendProperties
    <3>3. kept[i] \in Seq(U \cap S)
      BY <2>2, <2>3, <3>2, Zenon
    <3> QED BY <1>0, <3>3
  <2>4. CASE s[i] \notin S
    BY <1>0, <2>1, <2>2, <2>4
  <2> QED BY <2>3, <2>4
<1> HIDE DEF T
<1>4. 0..Len(s) \subseteq T
  BY <1>0, <1>2, <1>3, InductTo
<1>5. Len(s) \in T
  BY <1>0, <1>4
<1> QED BY <1>1, <1>5 DEF T, Selects

Elements(s) == {s[i] : i \in 1..Len(s)}

LEMMA OnlyElements ==
    ASSUME NEW U, NEW S, NEW s \in Seq(U)
    PROVE  Elements(Only(s, S)) = Elements(s) \cap S
<1>1. PICK kept \in [0..Len(s) -> Seq(U)] : Selects(s, S, kept)
  BY OnlySelects
<1> DEFINE T == {i \in 0..Len(s) : Elements(kept[i]) = {s[j] : j \in 1..i} \cap S}
<1>0. Len(s) \in Nat
  OBVIOUS
<1>2. 0 \in T
  BY <1>0, <1>1 DEF Selects, Elements
<1>3. ASSUME NEW i \in 1..Len(s), i - 1 \in T PROVE i \in T
  <2>1. kept[i - 1] \in Seq(U) /\ s[i] \in U
    BY <1>1
  <2>2. Elements(Append(kept[i - 1], s[i])) = Elements(kept[i - 1]) \cup {s[i]}
    <3>1. Len(Append(kept[i - 1], s[i])) = Len(kept[i - 1]) + 1
      BY <2>1
    <3>2. \A j \in 1..Len(kept[i - 1]) : Append(kept[i - 1], s[i])[j] = kept[i - 1][j]
      BY <2>1
    <3>3. Append(kept[i - 1], s[i])[Len(kept[i - 1]) + 1] = s[i]
      BY <2>1
    <3> QED BY <2>1, <3>1, <3>2, <3>3 DEF Elements
  <2>3. {s[j] : j \in 1..i} = {s[j] : j \in 1..(i - 1)} \cup {s[i]}
    OBVIOUS
  <2> QED BY <1>1, <1>3, <2>2, <2>3 DEF Selects
<1> HIDE DEF T
<1>4. 0..Len(s) \subseteq T
  BY <1>0, <1>2, <1>3, InductTo
<1>5. Len(s) \in T
  BY <1>0, <1>4
<1> QED BY <1>1, <1>5 DEF T, Selects, Elements
LEMMA OnlyShorter ==
    ASSUME NEW U, NEW S, NEW s \in Seq(U)
    PROVE  Len(Only(s, S)) <= Len(s)
<1>1. PICK kept \in [0..Len(s) -> Seq(U)] : Selects(s, S, kept)
  BY OnlySelects
<1> DEFINE T == {i \in 0..Len(s) : Len(kept[i]) <= i}
<1>0. Len(s) \in Nat
  OBVIOUS
<1>2. 0 \in T
  BY <1>0, <1>1 DEF Selects
<1>3. ASSUME NEW i \in 1..Len(s), i - 1 \in T PROVE i \in T
  <2>1. kept[i - 1] \in Seq(U) /\ s[i] \in U /\ Len(kept[i - 1]) <= i - 1
    BY <1>1, <1>3
  <2>2. Len(Append(kept[i - 1], s[i])) = Len(kept[i - 1]) + 1
    BY <2>1
  <2>3. kept[i] = IF s[i] \in S THEN Append(kept[i - 1], s[i]) ELSE kept[i - 1]
    BY <1>1 DEF Selects
  <2>4. Len(kept[i]) \in {Len(kept[i - 1]), Len(kept[i - 1]) + 1}
    BY <2>2, <2>3, Zenon
  <2> QED BY <1>0, <2>1, <2>4
<1> HIDE DEF T
<1>4. 0..Len(s) \subseteq T
  BY <1>0, <1>2, <1>3, InductTo
<1>5. Len(s) \in T
  BY <1>0, <1>4
<1> QED BY <1>1, <1>5 DEF T, Selects

\* No element of s is repeated.
Distinct(s) == \A i, j \in 1..Len(s) : s[i] = s[j] => i = j

LEMMA AppendDistinct ==
    ASSUME NEW U, NEW s \in Seq(U), NEW x \in U, Distinct(s), x \notin Elements(s)
    PROVE  Distinct(Append(s, x))
<1>1. Len(Append(s, x)) = Len(s) + 1 /\ Append(s, x)[Len(s) + 1] = x
  BY AppendProperties
<1>2. \A i \in 1..Len(s) : Append(s, x)[i] = s[i] /\ s[i] # x
  BY AppendProperties DEF Elements
<1> QED BY <1>1, <1>2 DEF Distinct

LEMMA AppendElements ==
    ASSUME NEW U, NEW s \in Seq(U), NEW x \in U
    PROVE  Elements(Append(s, x)) = Elements(s) \cup {x}
<1>1. Len(Append(s, x)) = Len(s) + 1 /\ Append(s, x)[Len(s) + 1] = x
  BY AppendProperties
<1>2. \A i \in 1..Len(s) : Append(s, x)[i] = s[i]
  BY AppendProperties
<1> QED BY <1>1, <1>2 DEF Elements

LEMMA OnlyDistinct ==
    ASSUME NEW U, NEW S, NEW s \in Seq(U), Distinct(s)
    PROVE  Distinct(Only(s, S))
<1>1. PICK kept \in [0..Len(s) -> Seq(U)] : Selects(s, S, kept)
  BY OnlySelects
<1> DEFINE T == {i \in 0..Len(s) : Distinct(kept[i]) /\ Elements(kept[i]) \subseteq {s[j] : j \in 1..i}}
<1>0. Len(s) \in Nat
  OBVIOUS
<1>2. 0 \in T
  BY <1>0, <1>1 DEF Selects, Distinct, Elements
<1>3. ASSUME NEW i \in 1..Len(s), i - 1 \in T PROVE i \in T
  <2>1. /\ kept[i - 1] \in Seq(U) /\ s[i] \in U
        /\ Distinct(kept[i - 1]) /\ Elements(kept[i - 1]) \subseteq {s[j] : j \in 1..(i - 1)}
    BY <1>1, <1>3
  <2>2. s[i] \notin {s[j] : j \in 1..(i - 1)}
    BY DEF Distinct
  <2>3. Distinct(Append(kept[i - 1], s[i]))
    BY <2>1, <2>2, AppendDistinct
  <2>4. Elements(Append(kept[i - 1], s[i])) = Elements(kept[i - 1]) \cup {s[i]}
    BY <2>1, AppendElements
  <2>5. {s[j] : j \in 1..i} = {s[j] : j \in 1..(i - 1)} \cup {s[i]}
    OBVIOUS
  <2>6. kept[i] = IF s[i] \in S THEN Append(kept[i - 1], s[i]) ELSE kept[i - 1]
    BY <1>1 DEF Selects
  <2>7. Distinct(kept[i])
    BY <2>1, <2>3, <2>6, Zenon
  <2>8. Elements(kept[i]) \subseteq Elements(kept[i - 1]) \cup {s[i]}
    <3>1. Elements(kept[i]) = Elements(kept[i - 1]) \/ Elements(kept[i]) = Elements(kept[i - 1]) \cup {s[i]}
      BY <2>4, <2>6, Zenon
    <3> QED BY <3>1
  <2> QED BY <1>0, <2>1, <2>5, <2>7, <2>8
<1> HIDE DEF T
<1>4. 0..Len(s) \subseteq T
  BY <1>0, <1>2, <1>3, InductTo
<1>5. Len(s) \in T
  BY <1>0, <1>4
<1> QED BY <1>1, <1>5 DEF T, Selects

\* A sequence without repetitions is as long as it has elements.
LEMMA DistinctCard ==
    ASSUME NEW U, NEW s \in Seq(U), Distinct(s)
    PROVE  IsFiniteSet(Elements(s)) /\ Cardinality(Elements(s)) = Len(s)
<1>0. Len(s) \in Nat
  OBVIOUS
<1> DEFINE n == Len(s)
           f == [i \in 1..n |-> s[i]]
<1>1. IsFiniteSet(1..n) /\ Cardinality(1..n) = n
  <2>1. 1 \in Int /\ n \in Int
    BY <1>0
  <2> HIDE DEF n
  <2>2. IsFiniteSet(1..n) /\ Cardinality(1..n) = IF 1 > n THEN 0 ELSE n - 1 + 1
    BY <2>1, FS_Interval
  <2> QED BY <1>0, <2>2 DEF n
<1>2. f \in Bijection(1..n, Elements(s))
  BY <1>0 DEF Bijection, Injection, Surjection, IsInjective, Distinct, Elements
<1> HIDE DEF f
<1>3. ExistsBijection(1..n, Elements(s))
  BY <1>2 DEF ExistsBijection
<1> HIDE DEF n
<1>4. IsFiniteSet(Elements(s)) /\ Cardinality(Elements(s)) = n
  BY <1>1, <1>3, FS_Bijection
<1> QED BY <1>4 DEF n
LEMMA ToSetElements ==
    ASSUME NEW U, NEW s \in Seq(U)
    PROVE  ToSet(s) = Elements(s)
BY DEF ToSet, Elements

LEMMA OnlyToSet ==
    ASSUME NEW U, NEW S, NEW s \in Seq(U)
    PROVE  ToSet(Only(s, S)) = ToSet(s) \cap S
<1>1. Only(s, S) \in Seq(U \cap S)
  BY OnlyType
<1> QED BY <1>1, ToSetElements, OnlyElements

LEMMA ConcatToSet ==
    ASSUME NEW U, NEW s \in Seq(U), NEW t \in Seq(U)
    PROVE  ToSet(s \o t) = ToSet(s) \cup ToSet(t)
<1> DEFINE u == s \o t
<1>1. Range(u) = Range(s) \cup Range(t)
  BY RangeConcatenation
<1>2. \A v : ToSet(v) = Range(v)
  BY DEF ToSet, Range
<1> HIDE DEF u
<1> QED BY <1>1, <1>2 DEF u

LEMMA SubSeqToSet ==
    ASSUME NEW U, NEW s \in Seq(U), NEW m \in 1..(Len(s) + 1), NEW n \in 0..Len(s)
    PROVE  /\ SubSeq(s, m, n) \in Seq(U)
           /\ ToSet(SubSeq(s, m, n)) = {s[i] : i \in m..n}
<1> DEFINE t == SubSeq(s, m, n)
<1>1. m \in Int /\ n \in Int /\ \A i \in m..n : s[i] \in U
  OBVIOUS
<1>2. /\ t \in Seq(U) /\ Len(t) = IF m <= n THEN n - m + 1 ELSE 0
      /\ \A i \in 1..(n - m + 1) : t[i] = s[m + i - 1]
  BY <1>1, SubSeqProperties
<1> HIDE DEF t
<1>3. Elements(t) = {s[i] : i \in m..n}
  <2>1. CASE m <= n
    <3>1. ASSUME NEW i \in 1..Len(t) PROVE t[i] \in {s[j] : j \in m..n}
      BY <1>2, <2>1
    <3>2. ASSUME NEW j \in m..n PROVE s[j] \in Elements(t)
      <4>1. t[j - m + 1] = s[j] /\ j - m + 1 \in 1..Len(t)
        BY <1>2, <2>1
      <4> QED BY <4>1 DEF Elements
    <3> QED BY <3>1, <3>2 DEF Elements
  <2>2. CASE m > n
    BY <1>2, <2>2 DEF Elements
  <2> QED BY <2>1, <2>2
<1> QED BY <1>2, <1>3, ToSetElements DEF t

LEMMA RemoveAtSequence ==
    ASSUME NEW U, NEW s \in Seq(U), NEW i \in 1..Len(s)
    PROVE  /\ RemoveAt(s, i) \in Seq(U)
           /\ ToSet(s) \ {s[i]} \subseteq ToSet(RemoveAt(s, i))
<1> DEFINE a == SubSeq(s, 1, i - 1)
           b == SubSeq(s, i + 1, Len(s))
<1>1. a \in Seq(U) /\ ToSet(a) = {s[j] : j \in 1..(i - 1)}
  <2>1. 1 \in 1..(Len(s) + 1) /\ i - 1 \in 0..Len(s)
    OBVIOUS
  <2> QED BY <2>1, SubSeqToSet
<1>2. b \in Seq(U) /\ ToSet(b) = {s[j] : j \in (i + 1)..Len(s)}
  <2>1. i + 1 \in 1..(Len(s) + 1) /\ Len(s) \in 0..Len(s)
    OBVIOUS
  <2> QED BY <2>1, SubSeqToSet
<1>3. RemoveAt(s, i) = a \o b
  BY DEF RemoveAt
<1> HIDE DEF a, b
<1>4. a \o b \in Seq(U) /\ ToSet(a \o b) = ToSet(a) \cup ToSet(b)
  BY <1>1, <1>2, ConcatToSet, ConcatProperties
<1>5. Elements(s) \ {s[i]} \subseteq ToSet(a) \cup ToSet(b)
  BY <1>1, <1>2 DEF Elements
<1> QED BY <1>3, <1>4, <1>5, ToSetElements
LEMMA AppendToSet ==
    ASSUME NEW U, NEW s \in Seq(U), NEW x \in U
    PROVE  Append(s, x) \in Seq(U) /\ ToSet(Append(s, x)) = ToSet(s) \cup {x}
<1>1. Append(s, x) \in Seq(U)
  BY AppendProperties
<1>2. Elements(Append(s, x)) = Elements(s) \cup {x} /\ ToSet(s) = Elements(s)
  BY ToSetElements, AppendElements
<1>3. ToSet(Append(s, x)) = Elements(Append(s, x))
  <2> HIDE DEF Elements
  <2> QED BY <1>1, ToSetElements
<1> QED BY <1>1, <1>2, <1>3
LEMMA CardDistinct ==
    ASSUME NEW U, NEW s \in Seq(U), Cardinality(ToSet(s)) = Len(s)
    PROVE  Distinct(s)
<1> DEFINE n == Len(s)
           f == [i \in 1..n |-> s[i]]
<1>1. n \in Nat /\ ToSet(s) = Elements(s)
  BY ToSetElements
<1>2. IsFiniteSet(1..n) /\ Cardinality(1..n) = n
  <2>1. 1 \in Int /\ n \in Int
    BY <1>1
  <2> HIDE DEF n
  <2>2. IsFiniteSet(1..n) /\ Cardinality(1..n) = IF 1 > n THEN 0 ELSE n - 1 + 1
    BY <2>1, FS_Interval
  <2> QED BY <1>1, <2>2
<1>3. f \in Surjection(1..n, ToSet(s))
  BY <1>1 DEF Surjection, Elements
<1>4. f \in Injection(1..n, ToSet(s))
  <2>1. Cardinality(ToSet(s)) = n
    OBVIOUS
  <2> HIDE DEF n, f
  <2> QED BY <1>2, <1>3, <2>1, FS_SurjSameCardinalityImpliesInj
<1>5. \A i, j \in 1..n : f[i] = f[j] => i = j
  <2> HIDE DEF f
  <2> QED BY <1>4 DEF Injection, IsInjective
<1> QED BY <1>5 DEF Distinct

LEMMA SubSeqDistinct ==
    ASSUME NEW U, NEW s \in Seq(U), NEW m \in 1..(Len(s) + 1), NEW n \in 0..Len(s), Distinct(s)
    PROVE  Distinct(SubSeq(s, m, n))
<1> DEFINE t == SubSeq(s, m, n)
<1>1. m \in Int /\ n \in Int /\ \A i \in m..n : s[i] \in U
  OBVIOUS
<1>2. /\ Len(t) = IF m <= n THEN n - m + 1 ELSE 0
      /\ \A i \in 1..(n - m + 1) : t[i] = s[m + i - 1]
  BY <1>1, SubSeqProperties
<1> HIDE DEF t
<1>3. ASSUME NEW i \in 1..Len(t), NEW j \in 1..Len(t), t[i] = t[j] PROVE i = j
  <2>1. m <= n /\ Len(t) = n - m + 1
    BY <1>2
  <2>2. s[m + i - 1] = s[m + j - 1] /\ m + i - 1 \in 1..Len(s) /\ m + j - 1 \in 1..Len(s)
    BY <1>2, <1>3, <2>1
  <2>3. m + i - 1 = m + j - 1
    BY <2>2 DEF Distinct
  <2> QED BY <2>3
<1> QED BY <1>3 DEF Distinct, t

\* A finite set can be put in a sequence.
LEMMA SetToSeqOrders ==
    ASSUME NEW S, IsFiniteSet(S)
    PROVE  SetToSeq(S) \in Seq(S) /\ ToSet(SetToSeq(S)) = S /\ Distinct(SetToSeq(S))
<1> DEFINE n == Cardinality(S)
           s == SetToSeq(S)
<1>1. n \in Nat /\ ExistsBijection(1..n, S)
  BY FS_CardinalityType
<1> HIDE DEF n
<1>2. PICK f \in [1..n -> S] : IsInjective(f)
  BY <1>1 DEF ExistsBijection, Bijection, Injection, IsInjective
<1>3. s \in [1..n -> S] /\ IsInjective(s)
  BY <1>2 DEF SetToSeq, n
<1> HIDE DEF s
<1>4. s \in Seq(S) /\ Len(s) = n
  BY <1>1, <1>3
<1>5. Distinct(s)
  BY <1>3, <1>4 DEF Distinct, IsInjective
<1>6. ToSet(s) = S
  <2>1. ToSet(s) \subseteq S /\ ToSet(s) = Elements(s)
    BY <1>4, ToSetElements DEF Elements
  <2>2. Cardinality(ToSet(s)) = Cardinality(S)
    BY <1>4, <1>5, <2>1, DistinctCard DEF n
  <2> QED BY <2>1, <2>2, FS_Subset
<1> QED BY <1>4, <1>5, <1>6 DEF s
----------------------------------------------------------------------------
(* Sums.                                                                   *)

Sums(f, n, sum) ==
    /\ sum \in [0..n -> Int]
    /\ sum[0] = 0
    /\ \A i \in 1..n : sum[i] = sum[i - 1] + f[i]
    /\ SumTo(f, n) = sum[n]

LEMMA SumToSums ==
    ASSUME NEW n \in Nat, NEW f, \A i \in 1..n : f[i] \in Int
    PROVE  \E sum : Sums(f, n, sum)
<1> DEFINE next(t, i) == t + f[i]
           step == [i \in 1..n |-> [t \in Int |-> next(t, i)]]
           body(g) == [i \in 0..n |-> IF i = 0 THEN 0 ELSE next(g[i - 1], i)]
           sum == CHOOSE g : g = body(g)
<1>a. \A i \in 1..n : \A t \in Int : next(t, i) \in Int
  OBVIOUS
<1>b. SumTo(f, n) = sum[n]
  BY DEF SumTo
<1> HIDE DEF next
<1>1. step \in [1..n -> [Int -> Int]]
  BY <1>a
<1>2. PICK g \in [0..n -> Int] : g[0] = 0 /\ \A i \in 1..n : g[i] = step[i][g[i - 1]]
  <2> DEFINE X == Int
             x0 == 0
  <2>1. x0 \in X /\ n \in Nat /\ step \in [1..n -> [X -> X]]
    BY <1>1
  <2> HIDE DEF step, X, x0
  <2>2. \E g \in [0..n -> X] : g[0] = x0 /\ \A i \in 1..n : g[i] = step[i][g[i - 1]]
    BY <2>1, Recursion
  <2> QED BY <2>2, Zenon DEF X, x0
<1>3. ASSUME NEW i \in 1..n PROVE g[i] = next(g[i - 1], i)
  <2>1. g[i - 1] \in Int
    OBVIOUS
  <2>2. g[i] = step[i][g[i - 1]]
    BY <1>2
  <2>3. step[i] = [t \in Int |-> next(t, i)]
    OBVIOUS
  <2> HIDE DEF step
  <2> QED BY <2>1, <2>2, <2>3
<1>4. g = body(g)
  BY <1>2, <1>3
<1>5. sum = body(sum)
  <2> HIDE DEF body
  <2> QED BY <1>4
<1> HIDE DEF sum
<1>6. sum[0] = 0 /\ \A i \in 1..n : sum[i] = next(sum[i - 1], i)
  BY <1>5
<1> DEFINE T == {i \in 0..n : sum[i] \in Int}
<1>7. 0 \in T
  BY <1>6
<1>8. ASSUME NEW i \in 1..n, i - 1 \in T PROVE i \in T
  <2>1. sum[i - 1] \in Int /\ i \in 0..n
    BY <1>8
  <2>2. next(sum[i - 1], i) \in Int /\ sum[i] = next(sum[i - 1], i)
    BY <1>a, <1>6, <2>1, Zenon
  <2> QED BY <2>1, <2>2, Zenon
<1> HIDE DEF T
<1>9. 0..n \subseteq T
  BY <1>7, <1>8, InductTo
<1>10. sum \in [0..n -> Int]
  BY <1>5, <1>9 DEF T
<1>11. Sums(f, n, sum)
  BY <1>b, <1>6, <1>10 DEF Sums, next
<1> QED BY <1>11

\* A sum of differences.
LEMMA SumTelescopes ==
    ASSUME NEW n \in Nat, NEW h \in [0..n -> Int],
           NEW f, \A i \in 1..n : f[i] = h[i] - h[i - 1]
    PROVE  SumTo(f, n) = h[n] - h[0]
<1>1. \A i \in 1..n : f[i] \in Int
  OBVIOUS
<1>2. PICK sum : Sums(f, n, sum)
  BY <1>1, SumToSums
<1> DEFINE T == {i \in 0..n : sum[i] = h[i] - h[0]}
<1>3. 0 \in T
  BY <1>2 DEF Sums
<1>4. ASSUME NEW i \in 1..n, i - 1 \in T PROVE i \in T
  <2>1. sum[i - 1] = h[i - 1] - h[0] /\ sum[i] = sum[i - 1] + f[i]
    BY <1>2, <1>4 DEF Sums
  <2>2. f[i] = h[i] - h[i - 1] /\ h[i] \in Int /\ h[i - 1] \in Int /\ h[0] \in Int
    OBVIOUS
  <2> QED BY <2>1, <2>2
<1> HIDE DEF T
<1>5. 0..n \subseteq T
  BY <1>3, <1>4, InductTo
<1>6. n \in T
  BY <1>5
<1> QED BY <1>2, <1>6 DEF T, Sums

LEMMA SumZero ==
    ASSUME NEW n \in Nat, NEW f, \A i \in 1..n : f[i] = 0
    PROVE  SumTo(f, n) = 0
<1> DEFINE h == [i \in 0..n |-> 0]
<1>1. h \in [0..n -> Int] /\ \A i \in 1..n : f[i] = h[i] - h[i - 1]
  OBVIOUS
<1>2. h[n] - h[0] = 0
  OBVIOUS
<1> HIDE DEF h
<1>3. SumTo(f, n) = h[n] - h[0]
  BY <1>1, SumTelescopes
<1> QED BY <1>2, <1>3
===============================================================================
