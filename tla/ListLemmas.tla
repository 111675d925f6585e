----------------------------- MODULE ListLemmas -------------------------------
(* Facts about lists and numbers, used by every proof.                       *)
EXTENDS Lists, FiniteSetTheorems, SequenceTheorems, WellFoundedInduction, TLAPS

(* Induction, for a set: every number is in S because the least that is not  *)
(* would have a predecessor in S.                                            *)
LEMMA NumbersInSet ==
    ASSUME NEW S, 0 \in S, \A n \in Nat : n \in S => n + 1 \in S
    PROVE  Nat \subseteq S
<1> DEFINE T == {n \in Nat : n \notin S}
           R == {p \in Nat \X Nat : p[1] < p[2]}
<1>1. SUFFICES ASSUME T # {} PROVE FALSE
  OBVIOUS
<1>2. IsWellFoundedOn(R, Nat)
  BY NatLessThanWellFounded DEF OpToRel
<1>3. T \subseteq Nat
  OBVIOUS
<1> HIDE DEF T, R
<1>4. PICK m \in T : \A k \in T : <<k, m>> \notin R
  BY <1>1, <1>2, <1>3, WFMin
<1> USE DEF T, R
<1>5. m # 0 /\ m - 1 \in Nat
  OBVIOUS
<1>6. m - 1 < m /\ m \in Nat
  BY <1>5
<1>7. <<m - 1, m>> \in R
  BY <1>5, <1>6
<1>8. m - 1 \notin T
  BY <1>4, <1>7
<1> QED
  BY <1>5, <1>8

(* A set of positions has a last one.                                        *)
LEMMA LastOf ==
    ASSUME NEW n \in Nat, NEW T \in SUBSET (1..n), T # {}
    PROVE  \E i \in T : \A j \in T : j <= i
<1> DEFINE S == {m \in Nat : \A U \in SUBSET (1..m) : U # {} => \E i \in U : \A j \in U : j <= i}
<1>1. 0 \in S
  <2>1. 1..0 = {}
    OBVIOUS
  <2> QED
    BY <2>1
<1>2. ASSUME NEW m \in Nat, m \in S PROVE m + 1 \in S
  <2> SUFFICES ASSUME NEW U \in SUBSET (1..(m + 1)), U # {}
               PROVE  \E i \in U : \A j \in U : j <= i
    OBVIOUS
  <2>1. CASE m + 1 \in U
    <3>1. \A j \in U : j <= m + 1
      OBVIOUS
    <3> QED
      BY <2>1, <3>1
  <2>2. CASE m + 1 \notin U
    <3>1. U \in SUBSET (1..m)
      BY <2>2
    <3> QED
      BY <1>2, <3>1
  <2> QED
    BY <2>1, <2>2
<1> HIDE DEF S
<1>3. n \in S
  BY <1>1, <1>2, NumbersInSet
<1> QED
  BY <1>3 DEF S

(* The elements of a sequence extended by one, shortened by one, or split.   *)
LEMMA ElemsAppend ==
    ASSUME NEW S, NEW s \in Seq(S), NEW x \in S
    PROVE  Elems(Append(s, x)) = Elems(s) \cup {x}
<1>1. DOMAIN s = 1..Len(s) /\ DOMAIN Append(s, x) = 1..(Len(s) + 1)
  BY AppendProperties
<1>2. \A i \in 1..Len(s) : Append(s, x)[i] = s[i]
  BY AppendProperties
<1>3. Append(s, x)[Len(s) + 1] = x
  BY AppendProperties
<1>4. Len(s) \in Nat
  OBVIOUS
<1> QED
  BY <1>1, <1>2, <1>3, <1>4 DEF Elems

LEMMA ElemsEmpty == Elems(<<>>) = {}
  BY DEF Elems

LEMMA ElemsSingle == \A x : Elems(<<x>>) = {x}
  BY DEF Elems

LEMMA ElemsType ==
    ASSUME NEW S, NEW s \in Seq(S)
    PROVE  Elems(s) \subseteq S
  BY ElementOfSeq DEF Elems

LEMMA ElemsHeadTail ==
    ASSUME NEW S, NEW s \in Seq(S), s # <<>>
    PROVE  /\ Head(s) \in S
           /\ Tail(s) \in Seq(S)
           /\ Head(s) = s[1]
           /\ Elems(s) = {Head(s)} \cup Elems(Tail(s))
<1>1. /\ Head(s) \in S /\ Tail(s) \in Seq(S)
      /\ Len(Tail(s)) = Len(s) - 1
      /\ \A i \in 1..Len(Tail(s)) : Tail(s)[i] = s[i + 1]
  BY HeadTailProperties
<1>2. Len(s) \in Nat \ {0} /\ DOMAIN s = 1..Len(s) /\ DOMAIN Tail(s) = 1..(Len(s) - 1)
  BY <1>1, EmptySeq
<1>3. Head(s) = s[1]
  OBVIOUS
<1>4. \A i \in 1..Len(s) : i = 1 \/ (i - 1 \in 1..(Len(s) - 1) /\ s[i] = Tail(s)[i - 1])
  BY <1>1, <1>2
<1>5. \A i \in 1..(Len(s) - 1) : i + 1 \in 1..Len(s) /\ Tail(s)[i] = s[i + 1]
  BY <1>1, <1>2
<1>6. Elems(s) \subseteq {Head(s)} \cup Elems(Tail(s))
  <2>1. SUFFICES ASSUME NEW i \in 1..Len(s) PROVE s[i] \in {Head(s)} \cup Elems(Tail(s))
    BY <1>2 DEF Elems
  <2>2. CASE i = 1
    BY <2>2, <1>3
  <2>3. CASE i # 1
    <3>1. i - 1 \in DOMAIN Tail(s) /\ s[i] = Tail(s)[i - 1]
      BY <2>3, <1>2, <1>4
    <3> QED
      BY <3>1 DEF Elems
  <2> QED
    BY <2>2, <2>3
<1>7. Head(s) \in Elems(s) /\ Elems(Tail(s)) \subseteq Elems(s)
  BY <1>2, <1>3, <1>5 DEF Elems
<1> QED
  BY <1>1, <1>3, <1>6, <1>7

LEMMA ElemsConcat ==
    ASSUME NEW S, NEW s \in Seq(S), NEW t \in Seq(S)
    PROVE  Elems(s \o t) = Elems(s) \cup Elems(t)
<1>1. /\ Len(s \o t) = Len(s) + Len(t)
      /\ DOMAIN (s \o t) = 1..(Len(s) + Len(t))
      /\ DOMAIN s = 1..Len(s) /\ DOMAIN t = 1..Len(t)
      /\ Len(s) \in Nat /\ Len(t) \in Nat
  BY ConcatProperties
<1>2. \A i \in 1..(Len(s) + Len(t)) :
         (s \o t)[i] = IF i <= Len(s) THEN s[i] ELSE t[i - Len(s)]
  BY ConcatProperties
<1>3. Elems(s \o t) \subseteq Elems(s) \cup Elems(t)
  BY <1>1, <1>2 DEF Elems
<1>4. Elems(s) \subseteq Elems(s \o t)
  BY <1>1, <1>2 DEF Elems
<1>5. Elems(t) \subseteq Elems(s \o t)
  <2>1. SUFFICES ASSUME NEW i \in 1..Len(t) PROVE t[i] \in Elems(s \o t)
    BY <1>1 DEF Elems
  <2>2. i + Len(s) \in 1..(Len(s) + Len(t)) /\ (s \o t)[i + Len(s)] = t[i]
    BY <1>1, <1>2
  <2> QED
    BY <1>1, <2>2 DEF Elems
<1> QED
  BY <1>3, <1>4, <1>5

(* The length of a sequence without repetition is the number of its elements.*)
LEMMA DistinctElems ==
    ASSUME NEW S, NEW s \in Seq(S), \A i, j \in DOMAIN s : s[i] = s[j] => i = j
    PROVE  IsFiniteSet(Elems(s)) /\ Cardinality(Elems(s)) = Len(s)
<1>1. DOMAIN s = 1..Len(s) /\ Len(s) \in Nat
  OBVIOUS
<1>2. s \in [1..Len(s) -> Elems(s)] /\ \A y \in Elems(s) : \E i \in 1..Len(s) : s[i] = y
  BY <1>1 DEF Elems
<1>3. s \in Surjection(1..Len(s), Elems(s))
  BY <1>2 DEF Surjection
<1>4. s \in Injection(1..Len(s), Elems(s))
  BY <1>1, <1>2 DEF Injection, IsInjective
<1>5. IsFiniteSet(1..Len(s)) /\ Cardinality(1..Len(s)) = Len(s)
  BY <1>1, FS_Interval
<1> QED
  BY <1>3, <1>4, <1>5, FS_Surjection

(* Cutting a sequence after its first part gives the two parts back.         *)
LEMMA CutConcat ==
    ASSUME NEW S, NEW b \in Seq(S), NEW q \in Seq(S)
    PROVE  /\ SubSeq(b \o q, 1, Len(b)) = b
           /\ SubSeq(b \o q, Len(b) + 1, Len(b \o q)) = q
<1> DEFINE p == b \o q
           m == Len(b)
<1>1. /\ p \in Seq(S) /\ Len(p) = m + Len(q) /\ m \in Nat /\ Len(q) \in Nat
      /\ \A i \in 1..(m + Len(q)) : p[i] = IF i <= m THEN b[i] ELSE q[i - m]
  BY ConcatProperties
<1>2. \A i \in 1..(m + Len(q)) : p[i] \in S
  BY <1>1, ElementOfSeq
<1> HIDE DEF p, m
<1>3. /\ SubSeq(p, 1, m) \in Seq(S)
      /\ Len(SubSeq(p, 1, m)) = m
      /\ \A i \in 1..m : SubSeq(p, 1, m)[i] = p[i]
  <2>1. \A i \in 1..m : p[i] \in S
    BY <1>1, <1>2
  <2> QED
    BY <1>1, <2>1, SubSeqProperties
<1>4. /\ SubSeq(p, m + 1, m + Len(q)) \in Seq(S)
      /\ Len(SubSeq(p, m + 1, m + Len(q))) = Len(q)
      /\ \A i \in 1..Len(q) : SubSeq(p, m + 1, m + Len(q))[i] = p[i + m]
  <2>1. \A i \in (m + 1)..(m + Len(q)) : p[i] \in S
    BY <1>1, <1>2
  <2>2. /\ SubSeq(p, m + 1, m + Len(q)) \in Seq(S)
        /\ Len(SubSeq(p, m + 1, m + Len(q))) =
              IF m + 1 <= m + Len(q) THEN (m + Len(q)) - (m + 1) + 1 ELSE 0
        /\ \A i \in 1..((m + Len(q)) - (m + 1) + 1) :
              SubSeq(p, m + 1, m + Len(q))[i] = p[(m + 1) + i - 1]
    BY <1>1, <2>1, SubSeqProperties
  <2> QED
    BY <1>1, <2>2
<1>5. \A i \in 1..m : SubSeq(p, 1, m)[i] = b[i]
  BY <1>1, <1>3
<1>6. \A i \in 1..Len(q) : SubSeq(p, m + 1, m + Len(q))[i] = q[i]
  <2>1. \A i \in 1..Len(q) : p[i + m] = q[i]
    BY <1>1
  <2> QED
    BY <1>4, <2>1
<1>7. SubSeq(p, 1, m) = b
  BY <1>3, <1>5, SeqEqual DEF m
<1>8. SubSeq(p, m + 1, m + Len(q)) = q
  BY <1>4, <1>6, SeqEqual
<1> QED
  BY <1>1, <1>7, <1>8 DEF p, m

(* Induction over sequences.                                                 *)
LEMMA SequencesInSet ==
    ASSUME NEW S, NEW T, <<>> \in T,
           \A s \in Seq(S) : \A x \in S : s \in T => Append(s, x) \in T
    PROVE  Seq(S) \subseteq T
<1> DEFINE N == {n \in Nat : \A s \in Seq(S) : Len(s) = n => s \in T}
<1>1. 0 \in N
  BY EmptySeq
<1>2. ASSUME NEW n \in Nat, n \in N PROVE n + 1 \in N
  <2> SUFFICES ASSUME NEW s \in Seq(S), Len(s) = n + 1 PROVE s \in T
    OBVIOUS
  <2>1. s # <<>>
    OBVIOUS
  <2>2. PICK f \in Seq(S), x \in S : s = Append(f, x)
    BY <2>1, SequenceEmptyOrAppend
  <2>3. Len(f) = n
    BY <2>2
  <2> QED
    BY <1>2, <2>2, <2>3
<1> HIDE DEF N
<1>3. Nat \subseteq N
  BY <1>1, <1>2, NumbersInSet
<1>4. \A s \in Seq(S) : Len(s) \in N
  BY <1>3
<1> QED
  BY <1>4 DEF N

-----------------------------------------------------------------------------
(* FlattenSeq: its recursive function exists, and grows with the list.       *)
FlattenedTo(f, ss, n) == f = [i \in 1..n |-> IF i = 1 THEN ss[i] ELSE f[i - 1] \o ss[i]]

LEMMA FlattenedNext ==
    ASSUME NEW ss, NEW n \in Nat, NEW f, FlattenedTo(f, ss, n)
    PROVE  FlattenedTo([i \in 1..(n + 1) |->
                          IF i = n + 1 THEN IF n = 0 THEN ss[1] ELSE f[n] \o ss[n + 1]
                          ELSE f[i]], ss, n + 1)
<1> DEFINE last == IF n = 0 THEN ss[1] ELSE f[n] \o ss[n + 1]
           g == [i \in 1..(n + 1) |-> IF i = n + 1 THEN last ELSE f[i]]
<1>1. \A i \in 1..n : f[i] = IF i = 1 THEN ss[i] ELSE f[i - 1] \o ss[i]
  BY DEF FlattenedTo
<1>2. \A i \in 1..n : g[i] = f[i]
  OBVIOUS
<1>3. g[n + 1] = last
  OBVIOUS
<1>4. ASSUME NEW i \in 1..(n + 1) PROVE g[i] = IF i = 1 THEN ss[i] ELSE g[i - 1] \o ss[i]
  <2> HIDE DEF g
  <2>1. CASE i = n + 1
    <3>1. n # 0 => g[i - 1] = f[n]
      BY <2>1, <1>2
    <3> QED
      BY <2>1, <3>1, <1>3
  <2>2. CASE i # n + 1
    <3>1. i \in 1..n /\ (i # 1 => i - 1 \in 1..n)
      BY <2>2
    <3> QED
      BY <3>1, <1>1, <1>2
  <2> QED
    BY <2>1, <2>2
<1>5. g = [i \in 1..(n + 1) |-> IF i = 1 THEN ss[i] ELSE g[i - 1] \o ss[i]]
  BY <1>4
<1> HIDE DEF g
<1>6. FlattenedTo(g, ss, n + 1)
  BY <1>5 DEF FlattenedTo
<1> QED
  BY <1>6 DEF g

LEMMA FlattenedExists == ASSUME NEW ss, NEW n \in Nat PROVE \E f : FlattenedTo(f, ss, n)
<1> DEFINE N == {m \in Nat : \E f : FlattenedTo(f, ss, m)}
<1>1. 0 \in N
  <2>1. FlattenedTo([i \in 1..0 |-> 0], ss, 0)
    BY DEF FlattenedTo
  <2> QED
    BY <2>1
<1>2. ASSUME NEW m \in Nat, m \in N PROVE m + 1 \in N
  <2>1. PICK f : FlattenedTo(f, ss, m)
    BY <1>2
  <2>2. \E g : FlattenedTo(g, ss, m + 1)
    BY <2>1, FlattenedNext
  <2> QED
    BY <2>2
<1> HIDE DEF N
<1>3. n \in N
  BY <1>1, <1>2, NumbersInSet
<1> QED
  BY <1>3 DEF N

LEMMA FlattenedUnique ==
    ASSUME NEW ss, NEW n \in Nat, NEW f, NEW g, FlattenedTo(f, ss, n), FlattenedTo(g, ss, n)
    PROVE  f = g
<1> DEFINE N == {m \in Nat : m \in 1..n => f[m] = g[m]}
<1>0. /\ \A i \in 1..n : f[i] = IF i = 1 THEN ss[i] ELSE f[i - 1] \o ss[i]
      /\ \A i \in 1..n : g[i] = IF i = 1 THEN ss[i] ELSE g[i - 1] \o ss[i]
  BY DEF FlattenedTo
<1>1. 0 \in N
  OBVIOUS
<1>2. ASSUME NEW m \in Nat, m \in N PROVE m + 1 \in N
  <2> SUFFICES ASSUME m + 1 \in 1..n PROVE f[m + 1] = g[m + 1]
    OBVIOUS
  <2>1. CASE m = 0
    BY <2>1, <1>0
  <2>2. CASE m # 0
    <3>1. m \in 1..n /\ f[m] = g[m]
      BY <2>2, <1>2
    <3> QED
      BY <1>0, <2>2, <3>1
  <2> QED
    BY <2>1, <2>2
<1> HIDE DEF N
<1>3. Nat \subseteq N
  BY <1>1, <1>2, NumbersInSet
<1>4. \A i \in 1..n : f[i] = g[i]
  BY <1>3 DEF N
<1> QED
  BY <1>4 DEF FlattenedTo

LEMMA FlattenIs ==
    ASSUME NEW S, NEW ss \in Seq(S), ss # <<>>, NEW f, FlattenedTo(f, ss, Len(ss))
    PROVE  Seqs!FlattenSeq(ss) = f[Len(ss)]
<1>1. Len(ss) \in Nat /\ Len(ss) # 0
  OBVIOUS
<1> DEFINE g == CHOOSE g : g = [i \in 1..Len(ss) |-> IF i = 1 THEN ss[i] ELSE g[i - 1] \o ss[i]]
<1>2. g = [i \in 1..Len(ss) |-> IF i = 1 THEN ss[i] ELSE g[i - 1] \o ss[i]]
  <2>1. \E h : h = [i \in 1..Len(ss) |-> IF i = 1 THEN ss[i] ELSE h[i - 1] \o ss[i]]
    BY DEF FlattenedTo
  <2> QED
    BY <2>1
<1>3. Seqs!FlattenSeq(ss) = g[Len(ss)]
  BY <1>1 DEF Seqs!FlattenSeq
<1> HIDE DEF g
<1>4. FlattenedTo(g, ss, Len(ss))
  BY <1>2 DEF FlattenedTo
<1>5. f = g
  BY <1>1, <1>4, FlattenedUnique
<1> QED
  BY <1>3, <1>5

LEMMA FlattenEmpty == Seqs!FlattenSeq(<<>>) = <<>>
  BY DEF Seqs!FlattenSeq

LEMMA FlattenAppend ==
    ASSUME NEW S, NEW ss \in Seq(Seq(S)), NEW t \in Seq(S)
    PROVE  Seqs!FlattenSeq(Append(ss, t)) = Seqs!FlattenSeq(ss) \o t
<1> DEFINE n == Len(ss)
           tt == Append(ss, t)
<1>1. n \in Nat /\ tt \in Seq(Seq(S)) /\ Len(tt) = n + 1 /\ tt # <<>>
  BY AppendProperties
<1>2. tt[n + 1] = t /\ \A i \in 1..n : tt[i] = ss[i]
  BY AppendProperties
<1> HIDE DEF tt
<1>3. PICK f : FlattenedTo(f, tt, n)
  BY <1>1, FlattenedExists
<1> DEFINE g == [i \in 1..(n + 1) |->
                    IF i = n + 1 THEN IF n = 0 THEN tt[1] ELSE f[n] \o tt[n + 1] ELSE f[i]]
<1>4. FlattenedTo(g, tt, n + 1)
  BY <1>1, <1>3, FlattenedNext
<1>5. Seqs!FlattenSeq(tt) = g[n + 1]
  <2> HIDE DEF g
  <2> QED
    BY <1>1, <1>4, FlattenIs
<1>6. CASE n = 0
  <2>1. ss = <<>> /\ g[n + 1] = t
    BY <1>2, <1>6, EmptySeq
  <2>2. <<>> \o t = t
    BY ConcatEmptySeq
  <2> QED
    BY <1>5, <2>1, <2>2, FlattenEmpty DEF tt
<1>7. CASE n # 0
  <2>1. g[n + 1] = f[n] \o t
    BY <1>1, <1>2, <1>7
  <2>2. FlattenedTo(f, ss, n)
    <3>1. \A i \in 1..n : f[i] = IF i = 1 THEN ss[i] ELSE f[i - 1] \o ss[i]
      BY <1>2, <1>3 DEF FlattenedTo
    <3>2. f = [i \in 1..n |-> f[i]]
      BY <1>3 DEF FlattenedTo
    <3> QED
      BY <3>1, <3>2 DEF FlattenedTo
  <2>3. Seqs!FlattenSeq(ss) = f[n]
    BY <1>1, <1>7, <2>2, FlattenIs, EmptySeq
  <2> QED
    BY <1>5, <2>1, <2>3 DEF tt
<1> QED
  BY <1>6, <1>7

LEMMA FlattenType == ASSUME NEW S, NEW ss \in Seq(Seq(S)) PROVE Seqs!FlattenSeq(ss) \in Seq(S)
<1> DEFINE T == {tt \in Seq(Seq(S)) : Seqs!FlattenSeq(tt) \in Seq(S)}
<1>1. <<>> \in T
  BY FlattenEmpty, EmptySeq
<1>2. ASSUME NEW tt \in Seq(Seq(S)), NEW t \in Seq(S), tt \in T PROVE Append(tt, t) \in T
  BY <1>2, FlattenAppend, AppendProperties, ConcatProperties
<1> HIDE DEF T
<1>3. ss \in T
  BY <1>1, <1>2, SequencesInSet
<1> QED
  BY <1>3 DEF T

LEMMA FlattenOne == ASSUME NEW S, NEW t \in Seq(S) PROVE Seqs!FlattenSeq(<<t>>) = t
<1>1. <<t>> = Append(<<>>, t) /\ <<>> \in Seq(Seq(S))
  OBVIOUS
<1>2. <<>> \o t = t
  BY ConcatEmptySeq
<1> QED
  BY <1>1, <1>2, FlattenAppend, FlattenEmpty

LEMMA FlattenConcat ==
    ASSUME NEW S, NEW ss \in Seq(Seq(S)), NEW tt \in Seq(Seq(S))
    PROVE  Seqs!FlattenSeq(ss \o tt) = Seqs!FlattenSeq(ss) \o Seqs!FlattenSeq(tt)
<1> DEFINE T == {uu \in Seq(Seq(S)) : Seqs!FlattenSeq(ss \o uu) = Seqs!FlattenSeq(ss) \o Seqs!FlattenSeq(uu)}
<1>1. <<>> \in T
  <2>1. ss \o <<>> = ss /\ Seqs!FlattenSeq(ss) \o <<>> = Seqs!FlattenSeq(ss)
    BY ConcatEmptySeq, FlattenType
  <2>2. <<>> \in Seq(Seq(S))
    BY EmptySeq
  <2> QED
    BY <2>1, <2>2, FlattenEmpty
<1>2. ASSUME NEW uu \in Seq(Seq(S)), NEW t \in Seq(S), uu \in T PROVE Append(uu, t) \in T
  <2>1. ss \o Append(uu, t) = Append(ss \o uu, t) /\ ss \o uu \in Seq(Seq(S))
    BY ConcatProperties
  <2>2. Seqs!FlattenSeq(Append(ss \o uu, t)) = Seqs!FlattenSeq(ss \o uu) \o t
    BY <2>1, FlattenAppend
  <2>3. Seqs!FlattenSeq(Append(uu, t)) = Seqs!FlattenSeq(uu) \o t
    BY FlattenAppend
  <2>4. (Seqs!FlattenSeq(ss) \o Seqs!FlattenSeq(uu)) \o t = Seqs!FlattenSeq(ss) \o (Seqs!FlattenSeq(uu) \o t)
    <3>1. Seqs!FlattenSeq(ss) \in Seq(S) /\ Seqs!FlattenSeq(uu) \in Seq(S)
      BY FlattenType
    <3> QED
      BY <3>1, ConcatAssociative
  <2> QED
    BY <1>2, <2>1, <2>2, <2>3, <2>4, AppendProperties
<1> HIDE DEF T
<1>3. tt \in T
  BY <1>1, <1>2, SequencesInSet
<1> QED
  BY <1>3 DEF T

-----------------------------------------------------------------------------
(* A function defined by recursion over the first numbers: it exists if the  *)
(* steps stay in a set.                                                      *)
Stepwise(a, d, n) ==
    CHOOSE f : f = [i \in 0..n |-> IF i = 0 THEN a ELSE d[i][f[i - 1]]]

Steps(B, a, d, n) == a \in B /\ d \in [Nat -> [B -> B]] /\ n \in Nat
Follows(f, B, a, d, n) ==
    f \in [0..n -> B] /\ f[0] = a /\ \A i \in 1..n : f[i] = d[i][f[i - 1]]

LEMMA StepwiseIs ==
    ASSUME NEW B, NEW a, NEW d, NEW n, Steps(B, a, d, n)
    PROVE  Follows(Stepwise(a, d, n), B, a, d, n)
<1>0. a \in B /\ d \in [Nat -> [B -> B]] /\ n \in Nat
  BY DEF Steps
<1> DEFINE Good(f, m) == f \in [0..m -> B] /\ f[0] = a /\ \A i \in 1..m : f[i] = d[i][f[i - 1]]
           N == {m \in Nat : \E f : Good(f, m)}
<1>1. 0 \in N
  <2>1. Good([i \in 0..0 |-> a], 0)
    BY <1>0
  <2> QED
    BY <2>1
<1>2. ASSUME NEW m \in Nat, m \in N PROVE m + 1 \in N
  <2>1. PICK f : Good(f, m)
    BY <1>2
  <2> DEFINE g == [i \in 0..(m + 1) |-> IF i = m + 1 THEN d[i][f[m]] ELSE f[i]]
  <2>2. f[m] \in B /\ d[m + 1][f[m]] \in B
    BY <1>0, <2>1
  <2>3. g \in [0..(m + 1) -> B] /\ g[0] = a
    BY <2>1, <2>2
  <2>4. g[m + 1] = d[m + 1][f[m]] /\ \A i \in 0..m : g[i] = f[i]
    OBVIOUS
  <2> HIDE DEF g
  <2>5. ASSUME NEW i \in 1..(m + 1) PROVE g[i] = d[i][g[i - 1]]
    <3>1. i - 1 \in 0..m
      OBVIOUS
    <3>2. CASE i = m + 1
      BY <3>1, <3>2, <2>4
    <3>3. CASE i # m + 1
      <4>1. i \in 1..m
        BY <3>3
      <4> QED
        BY <3>1, <4>1, <2>1, <2>4
    <3> QED
      BY <3>2, <3>3
  <2>6. Good(g, m + 1)
    BY <2>3, <2>5
  <2> QED
    BY <2>6
<1> HIDE DEF N
<1>3. n \in N
  BY <1>0, <1>1, <1>2, NumbersInSet
<1>4. PICK f : Good(f, n)
  BY <1>3 DEF N
<1> DEFINE r == Stepwise(a, d, n)
<1>5. f = [i \in 0..n |-> IF i = 0 THEN a ELSE d[i][f[i - 1]]]
  BY <1>4
<1>6. r = [i \in 0..n |-> IF i = 0 THEN a ELSE d[i][r[i - 1]]]
  BY <1>5 DEF Stepwise
<1> HIDE DEF r
<1>7. r[0] = a /\ \A i \in 1..n : r[i] = d[i][r[i - 1]]
  BY <1>0, <1>6
<1> DEFINE M == {m \in Nat : m <= n => r[m] \in B}
<1>8. 0 \in M
  BY <1>0, <1>7
<1>9. ASSUME NEW m \in Nat, m \in M PROVE m + 1 \in M
  <2> SUFFICES ASSUME m + 1 <= n PROVE r[m + 1] \in B
    OBVIOUS
  <2>1. m <= n /\ m + 1 \in 1..n /\ (m + 1) - 1 = m
    BY <1>0
  <2> QED
    BY <1>0, <1>7, <1>9, <2>1
<1> HIDE DEF M
<1>10. \A m \in 0..n : r[m] \in B
  <2>1. Nat \subseteq M
    BY <1>8, <1>9, NumbersInSet
  <2> QED
    BY <2>1 DEF M
<1>11. r \in [0..n -> B]
  BY <1>6, <1>10
<1> QED
  BY <1>7, <1>11 DEF r, Follows

(* Lists put together, entry by entry.                                       *)
LEMMA OneEntry ==
    ASSUME NEW S, NEW e \in S
    PROVE  <<e>> \in Seq(S) /\ Len(<<e>>) = 1 /\ <<e>>[1] = e
  OBVIOUS

LEMMA ConcatAt ==
    ASSUME NEW S, NEW s \in Seq(S), NEW t \in Seq(S)
    PROVE  /\ s \o t \in Seq(S) /\ Len(s \o t) = Len(s) + Len(t)
           /\ \A x \in 1..Len(s) : (s \o t)[x] = s[x]
           /\ \A x \in (Len(s) + 1)..(Len(s) + Len(t)) : (s \o t)[x] = t[x - Len(s)]
<1> DEFINE k == Len(s)
           m == Len(t)
<1>1. k \in Nat /\ m \in Nat
  OBVIOUS
<1>2. /\ s \o t \in Seq(S) /\ Len(s \o t) = k + m
      /\ \A x \in 1..(k + m) : (s \o t)[x] = IF x <= k THEN s[x] ELSE t[x - k]
  BY ConcatProperties
<1> HIDE DEF k, m
<1>3. \A x \in 1..k : x \in 1..(k + m) /\ x <= k
  BY <1>1
<1>4. \A x \in (k + 1)..(k + m) : x \in 1..(k + m) /\ ~ (x <= k)
  BY <1>1
<1> QED
  BY <1>2, <1>3, <1>4 DEF k, m

LEMMA ConcatOne ==
    ASSUME NEW S, NEW s \in Seq(S), NEW e \in S
    PROVE  /\ s \o <<e>> \in Seq(S) /\ Len(s \o <<e>>) = Len(s) + 1
           /\ \A x \in 1..Len(s) : (s \o <<e>>)[x] = s[x]
           /\ (s \o <<e>>)[Len(s) + 1] = e
<1> DEFINE t == <<e>>
           m == 1
           k == Len(s)
<1>1. t \in Seq(S) /\ m = Len(t) /\ t[1] = e
  BY OneEntry
<1>2. k \in Nat
  OBVIOUS
<1> HIDE DEF t, m, k
<1>3. /\ s \o t \in Seq(S) /\ Len(s \o t) = k + m
      /\ \A x \in 1..k : (s \o t)[x] = s[x]
      /\ \A x \in (k + 1)..(k + m) : (s \o t)[x] = t[x - k]
  <2>1. /\ s \o t \in Seq(S) /\ Len(s \o t) = Len(s) + Len(t)
        /\ \A x \in 1..Len(s) : (s \o t)[x] = s[x]
        /\ \A x \in (Len(s) + 1)..(Len(s) + Len(t)) : (s \o t)[x] = t[x - Len(s)]
    BY <1>1, ConcatAt
  <2> QED
    BY <1>1, <2>1 DEF k
<1>4. k + 1 \in (k + 1)..(k + 1) /\ (k + 1) - k = 1
  BY <1>2
<1>5. (s \o t)[k + 1] = e
  BY <1>1, <1>3, <1>4 DEF m
<1> QED
  BY <1>3, <1>5 DEF t, m, k

LEMMA CutAt ==
    ASSUME NEW S, NEW s \in Seq(S), NEW a \in Nat \ {0}, NEW b \in Nat, a <= b + 1, b <= Len(s)
    PROVE  /\ SubSeq(s, a, b) \in Seq(S) /\ Len(SubSeq(s, a, b)) = b - a + 1
           /\ \A x \in 1..(b - a + 1) : SubSeq(s, a, b)[x] = s[a + x - 1]
<1>1. \A x \in 1..Len(s) : s[x] \in S
  OBVIOUS
<1>2. Len(SubSeq(s, a, b)) = b - a + 1 /\ \A x \in 1..(b - a + 1) : SubSeq(s, a, b)[x] = s[a + x - 1]
  OBVIOUS
<1>3. SubSeq(s, a, b) \in Seq(S)
  BY <1>1
<1> QED
  BY <1>2, <1>3

(* Two neighbours replaced by one entry.                                     *)
Spliced(v, S, u, k, h, e) ==
    /\ v \in Seq(S) /\ Len(v) = k - 1
    /\ \A x \in 1..(h - 1) : v[x] = u[x]
    /\ v[h] = e
    /\ \A x \in (h + 1)..(k - 1) : v[x] = u[x + 1]

LEMMA SplicedIs ==
    ASSUME NEW S, NEW u \in Seq(S), NEW k, k = Len(u), NEW h \in 1..(k - 1), NEW e \in S
    PROVE  Spliced(SubSeq(u, 1, h - 1) \o <<e>> \o SubSeq(u, h + 2, k), S, u, k, h, e)
<1> DEFINE a == SubSeq(u, 1, h - 1)
           b == SubSeq(u, h + 2, k)
           ae == a \o <<e>>
           v == ae \o b
           i == h - 1
           j == k - h - 1
<1>1. k \in Nat /\ h \in Nat /\ h >= 1 /\ h + 1 <= k /\ i \in Nat /\ j \in Nat
  OBVIOUS
<1>2. a \in Seq(S) /\ Len(a) = i /\ \A x \in 1..i : a[x] = u[x]
  BY <1>1, CutAt
<1>3. b \in Seq(S) /\ Len(b) = j /\ \A x \in 1..j : b[x] = u[h + 1 + x]
  BY <1>1, CutAt
<1> HIDE DEF a, b, i, j
<1>4. ae \in Seq(S) /\ Len(ae) = i + 1 /\ (\A x \in 1..i : ae[x] = a[x]) /\ ae[i + 1] = e
  <2>1. /\ ae \in Seq(S) /\ Len(ae) = Len(a) + 1
        /\ (\A x \in 1..Len(a) : ae[x] = a[x]) /\ ae[Len(a) + 1] = e
    BY <1>2, ConcatOne
  <2> QED
    BY <1>2, <2>1
<1>5. i + 1 = h
  BY <1>1 DEF i
<1> HIDE DEF ae
<1>11. h = Len(ae) /\ j = Len(b)
  BY <1>3, <1>4, <1>5
<1>6. /\ v \in Seq(S) /\ Len(v) = h + j
      /\ \A x \in 1..h : v[x] = ae[x]
      /\ \A x \in (h + 1)..(h + j) : v[x] = b[x - h]
  <2>1. /\ v \in Seq(S) /\ Len(v) = Len(ae) + Len(b)
        /\ \A x \in 1..Len(ae) : v[x] = ae[x]
        /\ \A x \in (Len(ae) + 1)..(Len(ae) + Len(b)) : v[x] = b[x - Len(ae)]
    BY <1>3, <1>4, ConcatAt
  <2> QED
    BY <1>11, <2>1
<1> HIDE DEF v
<1>7. h + j = k - 1
  BY <1>1 DEF j
<1>8. \A x \in 1..(h - 1) : v[x] = u[x]
  BY <1>1, <1>2, <1>4, <1>5, <1>6
<1>9. v[h] = e
  BY <1>1, <1>4, <1>5, <1>6
<1>10. ASSUME NEW x \in (h + 1)..(k - 1) PROVE v[x] = u[x + 1]
  <2>1. x \in (h + 1)..(h + j) /\ x - h \in 1..j /\ h + 1 + (x - h) = x + 1
    BY <1>1, <1>7
  <2> QED
    BY <1>3, <1>6, <2>1
<1> QED
  BY <1>6, <1>7, <1>8, <1>9, <1>10 DEF v, ae, a, b, Spliced

(* A list is what stands before two neighbours, these, and what follows.     *)
LEMMA ParsedAt ==
    ASSUME NEW S, NEW u \in Seq(S), NEW k, k = Len(u), NEW h \in 1..(k - 1)
    PROVE  u = ((SubSeq(u, 1, h - 1) \o <<u[h]>>) \o <<u[h + 1]>>) \o SubSeq(u, h + 2, k)
<1> DEFINE a == SubSeq(u, 1, h - 1)
           b == SubSeq(u, h + 2, k)
           ac == a \o <<u[h]>>
           acd == ac \o <<u[h + 1]>>
           all == acd \o b
           i == h - 1
           l == h + 1
           j == k - h - 1
<1>1. /\ k \in Nat /\ h \in Nat /\ h >= 1 /\ h + 1 <= k /\ i \in Nat /\ j \in Nat
      /\ u[h] \in S /\ u[h + 1] \in S
  OBVIOUS
<1>2. a \in Seq(S) /\ Len(a) = i /\ \A x \in 1..i : a[x] = u[x]
  BY <1>1, CutAt
<1>3. b \in Seq(S) /\ Len(b) = j /\ \A x \in 1..j : b[x] = u[h + 1 + x]
  BY <1>1, CutAt
<1>4. i + 1 = h /\ l = h + 1 /\ l + j = k /\ l \in Nat
  BY <1>1
<1> HIDE DEF a, b, i, j, l
<1>5. ac \in Seq(S) /\ Len(ac) = i + 1 /\ (\A x \in 1..i : ac[x] = a[x]) /\ ac[i + 1] = u[h]
  <2>1. /\ ac \in Seq(S) /\ Len(ac) = Len(a) + 1
        /\ (\A x \in 1..Len(a) : ac[x] = a[x]) /\ ac[Len(a) + 1] = u[h]
    BY <1>1, <1>2, ConcatOne
  <2> QED
    BY <1>2, <2>1
<1> HIDE DEF ac
<1>10. h = Len(ac)
  BY <1>4, <1>5
<1>6. acd \in Seq(S) /\ Len(acd) = h + 1 /\ (\A x \in 1..h : acd[x] = ac[x]) /\ acd[h + 1] = u[h + 1]
  <2>1. /\ acd \in Seq(S) /\ Len(acd) = Len(ac) + 1
        /\ (\A x \in 1..Len(ac) : acd[x] = ac[x]) /\ acd[Len(ac) + 1] = u[h + 1]
    BY <1>1, <1>5, ConcatOne
  <2> QED
    BY <1>10, <2>1
<1> HIDE DEF acd
<1>11. l = Len(acd) /\ j = Len(b)
  BY <1>3, <1>4, <1>6
<1>7. /\ all \in Seq(S) /\ Len(all) = l + j
      /\ \A x \in 1..l : all[x] = acd[x]
      /\ \A x \in (l + 1)..(l + j) : all[x] = b[x - l]
  <2>1. /\ all \in Seq(S) /\ Len(all) = Len(acd) + Len(b)
        /\ \A x \in 1..Len(acd) : all[x] = acd[x]
        /\ \A x \in (Len(acd) + 1)..(Len(acd) + Len(b)) : all[x] = b[x - Len(acd)]
    BY <1>3, <1>6, ConcatAt
  <2> QED
    BY <1>11, <2>1
<1> HIDE DEF all
<1>8. ASSUME NEW x \in 1..k PROVE all[x] = u[x]
  <2>1. CASE x \in 1..i
    <3>1. x \in 1..h /\ x \in 1..l
      BY <1>1, <1>4, <2>1
    <3> QED
      BY <1>2, <1>5, <1>6, <1>7, <2>1, <3>1
  <2>2. CASE x = h
    <3>1. x \in 1..h /\ x \in 1..l
      BY <1>1, <1>4, <2>2
    <3> QED
      BY <1>4, <1>5, <1>6, <1>7, <2>2, <3>1
  <2>3. CASE x = l
    <3>1. x \in 1..l
      BY <1>1, <1>4, <2>3
    <3> QED
      BY <1>4, <1>6, <1>7, <2>3, <3>1
  <2>4. CASE x \in (l + 1)..k
    <3>1. x - l \in 1..j /\ h + 1 + (x - l) = x
      BY <1>1, <1>4, <2>4
    <3> QED
      BY <1>3, <1>4, <1>7, <2>4, <3>1
  <2> QED
    BY <1>1, <1>4, <2>1, <2>2, <2>3, <2>4
<1>9. all = u
  BY <1>4, <1>7, <1>8, SeqEqual
<1> QED
  BY <1>9 DEF all, acd, ac, a, b

(* Rows of equal width do not overlap.                                       *)
LEMMA RowsApart ==
    ASSUME NEW w \in Nat, NEW a \in Int, NEW b \in Int, NEW x \in 0..(w - 1), NEW y \in 0..(w - 1),
           a * w + x = b * w + y
    PROVE  a = b /\ x = y
<1>1. ASSUME NEW c \in Int, NEW d \in Int, c < d PROVE c * w + w <= d * w
  <2>1. d - c - 1 \in Nat
    BY <1>1
  <2>2. (d - c - 1) * w >= 0
    BY <2>1
  <2>3. (d - c - 1) * w = d * w - c * w - w
    OBVIOUS
  <2>4. c * w \in Int /\ d * w \in Int
    OBVIOUS
  <2> QED
    BY <2>2, <2>3, <2>4
<1>2. a * w \in Int /\ b * w \in Int
  OBVIOUS
<1>3. ~(a < b)
  BY <1>1, <1>2
<1>4. ~(b < a)
  BY <1>1, <1>2
<1>5. a = b
  BY <1>3, <1>4
<1> QED
  BY <1>2, <1>5

LEMMA RowEnds ==
    ASSUME NEW w \in Nat, NEW n \in Nat, NEW i \in 1..n, NEW x \in 0..(w - 1)
    PROVE  (i - 1) * w + x \in 0..(n * w - 1)
<1>1. (i - 1) * w >= 0 /\ (n - i) * w >= 0
  OBVIOUS
<1>2. (n - i) * w = n * w - i * w /\ (i - 1) * w = i * w - w
  OBVIOUS
<1>3. i * w \in Int /\ n * w \in Int
  OBVIOUS
<1> QED
  BY <1>1, <1>2, <1>3

(* Which row a position is in.                                               *)
LEMMA RowIs ==
    ASSUME NEW w \in Nat \ {0}, NEW a \in Nat, NEW x \in 0..(w - 1)
    PROVE  (a * w + x) \div w = a
<1> DEFINE p == a * w + x
           y == p - w * (p \div w)
<1>1. a * w \in Nat /\ p \in Nat
  OBVIOUS
<1>2. p \div w \in Int /\ y \in 0..(w - 1)
  BY <1>1
<1>3. a * w + x = (p \div w) * w + y
  BY <1>1, <1>2
<1> HIDE DEF p, y
<1> QED
  BY <1>2, <1>3, RowsApart DEF p

-----------------------------------------------------------------------------
(* Lists of texts that are told apart by what they end up as, one by one.     *)

(* What stands before and after in a text: the same beginning can be cut off.*)
LEMMA Cancelled ==
    ASSUME NEW S, NEW s \in Seq(S), NEW a \in Seq(S), NEW b \in Seq(S), s \o a = s \o b
    PROVE  a = b
<1> DEFINE p == s \o a
           q == s \o b
<1>1. SubSeq(p, Len(s) + 1, Len(p)) = a
  BY CutConcat
<1>2. SubSeq(q, Len(s) + 1, Len(q)) = b
  BY CutConcat
<1>3. p = q
  OBVIOUS
<1> QED
  BY <1>1, <1>2, <1>3

LEMMA FirstOf ==
    ASSUME NEW S, NEW s \in Seq(S), NEW a \in Seq(S), Len(s) >= 1
    PROVE  (s \o a)[1] = s[1]
<1>1. 1 \in 1..Len(s)
  OBVIOUS
<1> QED
  BY <1>1, ConcatAt

LEMMA Regrouped ==
    ASSUME NEW S, NEW s \in Seq(S), NEW t \in Seq(S), NEW u \in Seq(S)
    PROVE  (s \o t) \o u = s \o (t \o u) /\ s \o t \in Seq(S) /\ t \o u \in Seq(S)
  BY ConcatAssociative, ConcatProperties

LEMMA FlattenHead ==
    ASSUME NEW S, NEW ss \in Seq(Seq(S)), ss # <<>>
    PROVE  /\ ss[1] \in Seq(S) /\ Tail(ss) \in Seq(Seq(S))
           /\ Len(ss) \in Nat /\ Len(ss) >= 1 /\ Len(Tail(ss)) = Len(ss) - 1
           /\ \A i \in 1..(Len(ss) - 1) : Tail(ss)[i] = ss[i + 1]
           /\ Seqs!FlattenSeq(ss) = ss[1] \o Seqs!FlattenSeq(Tail(ss))
<1> DEFINE B == Seq(S)
           t == Tail(ss)
           n == Len(ss)
           e == <<ss[1]>>
<1>1. ss \in Seq(B) /\ ss # <<>> /\ n = Len(ss)
  OBVIOUS
<1> HIDE DEF B
<1>2. n \in Nat /\ n >= 1 /\ ss[1] \in B
  BY <1>1
<1>3. t \in Seq(B) /\ Len(t) = n - 1 /\ \A i \in 1..(n - 1) : t[i] = ss[i + 1]
  BY <1>1, HeadTailProperties
<1>4. e \in Seq(B) /\ Len(e) = 1 /\ e[1] = ss[1]
  BY <1>2, OneEntry
<1> HIDE DEF t, n, e
<1>5. /\ e \o t \in Seq(B) /\ Len(e \o t) = n
      /\ \A x \in 1..1 : (e \o t)[x] = e[x]
      /\ \A x \in 2..n : (e \o t)[x] = t[x - 1]
  <2>1. /\ e \o t \in Seq(B) /\ Len(e \o t) = Len(e) + Len(t)
        /\ \A x \in 1..Len(e) : (e \o t)[x] = e[x]
        /\ \A x \in (Len(e) + 1)..(Len(e) + Len(t)) : (e \o t)[x] = t[x - Len(e)]
    <3>1. e \in Seq(B) /\ t \in Seq(B)
      BY <1>3, <1>4
    <3> QED
      BY <3>1, ConcatAt
  <2>2. Len(e) + Len(t) = n /\ Len(e) + 1 = 2
    BY <1>2, <1>3, <1>4
  <2> QED
    BY <1>4, <2>1, <2>2
<1>6. \A x \in 1..n : (e \o t)[x] = ss[x]
  <2> TAKE x \in 1..n
  <2>1. CASE x = 1
    BY <1>4, <1>5, <2>1
  <2>2. CASE x # 1
    <3>1. x \in 2..n /\ x - 1 \in 1..(n - 1) /\ (x - 1) + 1 = x
      BY <1>2, <2>2
    <3> QED
      BY <1>3, <1>5, <3>1
  <2> QED
    BY <2>1, <2>2
<1>7. e \o t = ss
  BY <1>1, <1>5, <1>6, SeqEqual
<1>8. Seqs!FlattenSeq(e) = ss[1]
  BY <1>2, FlattenOne DEF e, B
<1>9. Seqs!FlattenSeq(e \o t) = Seqs!FlattenSeq(e) \o Seqs!FlattenSeq(t)
  BY <1>3, <1>4, FlattenConcat DEF B
<1> QED
  BY <1>2, <1>3, <1>7, <1>8, <1>9 DEF B, n, t

(* Two texts of which neither can go on as the other does.                   *)
Separable(s, t, S) == \A a, b \in Seq(S) : s \o a = t \o b => s = t /\ a = b
StartsUnlike(s, S, c) == s \in Seq(S) /\ Len(s) >= 1 /\ s[1] # c

(* Two lists of texts, apart one by one, none of which starts as the end.    *)
Coded(P, Q, S, c) ==
    /\ c \in S /\ P \in Seq(Seq(S)) /\ Q \in Seq(Seq(S))
    /\ \A i \in 1..Len(P) : StartsUnlike(P[i], S, c)
    /\ \A i \in 1..Len(Q) : StartsUnlike(Q[i], S, c)
    /\ \A i \in 1..Len(P) : i \in 1..Len(Q) => Separable(P[i], Q[i], S)

Flat(P, c, a) == Seqs!FlattenSeq(P) \o (<<c>> \o a)

LEMMA FlatIs ==
    ASSUME NEW S, NEW c \in S, NEW a \in Seq(S), NEW P \in Seq(Seq(S))
    PROVE  /\ Flat(P, c, a) \in Seq(S)
           /\ P = <<>> => Flat(P, c, a)[1] = c
           /\ P # <<>> => /\ Flat(P, c, a) = P[1] \o Flat(Tail(P), c, a)
                          /\ StartsUnlike(P[1], S, c) => Flat(P, c, a)[1] # c
<1> DEFINE e == <<c>> \o a
           F == Seqs!FlattenSeq(P)
<1>1. e \in Seq(S) /\ e[1] = c
  <2> DEFINE h == <<c>>
  <2>1. h \in Seq(S) /\ Len(h) >= 1 /\ h[1] = c
    BY OneEntry
  <2> HIDE DEF h
  <2>2. h \o a \in Seq(S) /\ (h \o a)[1] = c
    BY <2>1, FirstOf, ConcatProperties
  <2> QED
    BY <2>2 DEF h
<1>2. F \in Seq(S)
  BY FlattenType
<1>3. Flat(P, c, a) = F \o e
  BY DEF Flat
<1> HIDE DEF e, F
<1>4. Flat(P, c, a) \in Seq(S)
  BY <1>1, <1>2, <1>3, ConcatProperties
<1>5. ASSUME P = <<>> PROVE Flat(P, c, a)[1] = c
  <2>1. F = <<>>
    BY <1>5, FlattenEmpty DEF F
  <2>2. F \o e = e
    BY <1>1, <2>1, ConcatEmptySeq
  <2> QED
    BY <1>1, <1>3, <2>2
<1>6. ASSUME P # <<>>
      PROVE  /\ Flat(P, c, a) = P[1] \o Flat(Tail(P), c, a)
             /\ StartsUnlike(P[1], S, c) => Flat(P, c, a)[1] # c
  <2> DEFINE G == Seqs!FlattenSeq(Tail(P))
             p == P[1]
  <2>1. p \in Seq(S) /\ Tail(P) \in Seq(Seq(S)) /\ F = p \o G
    BY <1>6, FlattenHead DEF F
  <2>2. G \in Seq(S)
    BY <2>1, FlattenType
  <2>3. Flat(Tail(P), c, a) = G \o e
    BY DEF Flat, e
  <2> HIDE DEF G, p
  <2>4. F \o e = p \o (G \o e) /\ G \o e \in Seq(S)
    <3>0. p \in Seq(S) /\ G \in Seq(S) /\ e \in Seq(S)
      BY <1>1, <2>1, <2>2
    <3>1. (p \o G) \o e = p \o (G \o e) /\ G \o e \in Seq(S)
      BY <3>0, Regrouped
    <3> QED
      BY <2>1, <3>1
  <2>5. StartsUnlike(p, S, c) => (p \o (G \o e))[1] # c
    BY <2>1, <2>4, FirstOf DEF StartsUnlike
  <2> QED
    BY <1>3, <2>3, <2>4, <2>5 DEF p
<1> QED
  BY <1>4, <1>5, <1>6

LEMMA CodedTail ==
    ASSUME NEW S, NEW c, NEW P, NEW Q, Coded(P, Q, S, c), P # <<>>, Q # <<>>
    PROVE  Coded(Tail(P), Tail(Q), S, c)
<1> DEFINE p == Tail(P)
           q == Tail(Q)
           m == Len(P)
           n == Len(Q)
<1>1. /\ c \in S /\ P \in Seq(Seq(S)) /\ Q \in Seq(Seq(S))
      /\ \A i \in 1..m : StartsUnlike(P[i], S, c)
      /\ \A i \in 1..n : StartsUnlike(Q[i], S, c)
      /\ \A i \in 1..m : i \in 1..n => Separable(P[i], Q[i], S)
  BY DEF Coded
<1>2. p \in Seq(Seq(S)) /\ Len(p) = m - 1 /\ m \in Nat /\ \A i \in 1..(m - 1) : p[i] = P[i + 1]
  BY <1>1, FlattenHead
<1>3. q \in Seq(Seq(S)) /\ Len(q) = n - 1 /\ n \in Nat /\ \A i \in 1..(n - 1) : q[i] = Q[i + 1]
  BY <1>1, FlattenHead
<1> HIDE DEF p, q, m, n
<1>4. (\A i \in 1..(m - 1) : i + 1 \in 1..m) /\ (\A i \in 1..(n - 1) : i + 1 \in 1..n)
  BY <1>2, <1>3
<1>5. \A i \in 1..Len(p) : StartsUnlike(p[i], S, c)
  BY <1>1, <1>2, <1>4
<1>6. \A i \in 1..Len(q) : StartsUnlike(q[i], S, c)
  BY <1>1, <1>3, <1>4
<1>7. \A i \in 1..Len(p) : i \in 1..Len(q) => Separable(p[i], q[i], S)
  BY <1>1, <1>2, <1>3, <1>4
<1>8. Coded(p, q, S, c)
  BY <1>1, <1>2, <1>3, <1>5, <1>6, <1>7 DEF Coded
<1> QED
  BY <1>8 DEF p, q

LEMMA ListEqual ==
    ASSUME NEW S, NEW P \in Seq(S), NEW Q \in Seq(S), P # <<>>, Q # <<>>, P[1] = Q[1], Tail(P) = Tail(Q)
    PROVE  P = Q
<1> DEFINE m == Len(P)
           n == Len(Q)
           p == Tail(P)
<1>1. p \in Seq(S) /\ Len(p) = m - 1 /\ m \in Nat /\ m >= 1 /\ \A i \in 1..(m - 1) : p[i] = P[i + 1]
  BY HeadTailProperties
<1> DEFINE q == Tail(Q)
<1>5. q \in Seq(S) /\ Len(q) = n - 1 /\ n \in Nat /\ n >= 1 /\ \A i \in 1..(n - 1) : q[i] = Q[i + 1]
  BY HeadTailProperties
<1>6. p = q
  OBVIOUS
<1> HIDE DEF p, q
<1>2. Len(p) = n - 1 /\ n \in Nat /\ \A i \in 1..(n - 1) : p[i] = Q[i + 1]
  BY <1>5, <1>6
<1>3. m = n
  BY <1>1, <1>2
<1> HIDE DEF m, n
<1>4. ASSUME NEW i \in 1..m PROVE P[i] = Q[i]
  <2>1. CASE i = 1
    BY <2>1
  <2>2. CASE i # 1
    <3>1. i - 1 \in 1..(m - 1) /\ (i - 1) + 1 = i
      BY <1>1, <2>2
    <3> QED
      BY <1>1, <1>2, <1>3, <3>1
  <2> QED
    BY <2>1, <2>2
<1> QED
  BY <1>3, <1>4, SeqEqual DEF m, n

(* The lists are the same if what they end up as is.                         *)
LEMMA FlattenApart ==
    ASSUME NEW S, NEW c, NEW P, NEW Q, Coded(P, Q, S, c), NEW a \in Seq(S), NEW b \in Seq(S),
           Flat(P, c, a) = Flat(Q, c, b)
    PROVE  P = Q /\ a = b
<1> DEFINE N == {n \in Nat : \A p, q : Coded(p, q, S, c) /\ Len(p) = n /\ Flat(p, c, a) = Flat(q, c, b) =>
                                 p = q /\ a = b}
<1>1. 0 \in N
  <2> SUFFICES ASSUME NEW p, NEW q, Coded(p, q, S, c), Len(p) = 0, Flat(p, c, a) = Flat(q, c, b)
               PROVE  p = q /\ a = b
    OBVIOUS
  <2>1. p \in Seq(Seq(S)) /\ q \in Seq(Seq(S)) /\ c \in S
    BY DEF Coded
  <2>2. p = <<>>
    BY <2>1, EmptySeq
  <2>3. q = <<>>
    <3> SUFFICES ASSUME q # <<>> PROVE FALSE
      OBVIOUS
    <3>1. Len(q) \in Nat /\ Len(q) >= 1
      BY <2>1, FlattenHead
    <3>2. StartsUnlike(q[1], S, c)
      BY <3>1 DEF Coded
    <3>3. Flat(p, c, a)[1] = c
      BY <2>1, <2>2, FlatIs
    <3>4. Flat(q, c, b)[1] # c
      BY <2>1, <3>2, FlatIs
    <3> QED
      BY <3>3, <3>4
  <2>4. a = b
    <3> DEFINE h == <<c>>
               F == Seqs!FlattenSeq(p)
    <3>1. F = <<>> /\ F = Seqs!FlattenSeq(q)
      BY <2>2, <2>3, FlattenEmpty
    <3>2. Flat(p, c, a) = F \o (h \o a) /\ Flat(q, c, b) = F \o (h \o b)
      BY <3>1 DEF Flat
    <3>3. h \in Seq(S)
      BY <2>1, OneEntry
    <3> HIDE DEF h, F
    <3>4. h \o a \in Seq(S) /\ h \o b \in Seq(S)
      BY <3>3, ConcatProperties
    <3>5. h \o a = h \o b
      BY <3>1, <3>2, <3>4, ConcatEmptySeq
    <3> QED
      BY <3>3, <3>5, Cancelled
  <2> QED
    BY <2>2, <2>3, <2>4
<1>2. ASSUME NEW n \in Nat, n \in N PROVE n + 1 \in N
  <2> SUFFICES ASSUME NEW p, NEW q, Coded(p, q, S, c), Len(p) = n + 1, Flat(p, c, a) = Flat(q, c, b)
               PROVE  p = q /\ a = b
    OBVIOUS
  <2>1. p \in Seq(Seq(S)) /\ q \in Seq(Seq(S)) /\ c \in S
    BY DEF Coded
  <2>2. p # <<>>
    BY <2>1, EmptySeq
  <2>3. StartsUnlike(p[1], S, c)
    <3>1. 1 \in 1..Len(p)
      OBVIOUS
    <3> QED
      BY <3>1 DEF Coded
  <2>4. q # <<>>
    <3>1. Flat(p, c, a)[1] # c
      BY <2>1, <2>2, <2>3, FlatIs
    <3>2. q = <<>> => Flat(q, c, b)[1] = c
      BY <2>1, FlatIs
    <3> QED
      BY <3>1, <3>2
  <2>5. Len(q) \in Nat /\ Len(q) >= 1
    BY <2>1, <2>4, FlattenHead
  <2>6. Separable(p[1], q[1], S)
    <3>1. 1 \in 1..Len(p) /\ 1 \in 1..Len(q)
      BY <2>5
    <3> QED
      BY <3>1 DEF Coded
  <2> DEFINE pt == Tail(p)
             qt == Tail(q)
             x == Flat(pt, c, a)
             y == Flat(qt, c, b)
  <2>7. Flat(p, c, a) = p[1] \o x /\ Flat(q, c, b) = q[1] \o y
    BY <2>1, <2>2, <2>4, FlatIs
  <2>8. pt \in Seq(Seq(S)) /\ qt \in Seq(Seq(S)) /\ Len(pt) = n
    <3>1. Len(pt) = Len(p) - 1 /\ pt \in Seq(Seq(S)) /\ qt \in Seq(Seq(S))
      BY <2>1, <2>2, <2>4, FlattenHead
    <3> QED
      BY <3>1
  <2>9. x \in Seq(S) /\ y \in Seq(S)
    BY <2>1, <2>8, FlatIs
  <2>10. Coded(pt, qt, S, c)
    BY <2>2, <2>4, CodedTail
  <2> HIDE DEF x, y
  <2>11. p[1] = q[1] /\ x = y
    BY <2>6, <2>7, <2>9 DEF Separable
  <2>12. Flat(pt, c, a) = Flat(qt, c, b)
    BY <2>11 DEF x, y
  <2> HIDE DEF pt, qt
  <2>13. pt = qt /\ a = b
    BY <1>2, <2>8, <2>10, <2>12
  <2>14. Tail(p) = Tail(q)
    BY <2>13 DEF pt, qt
  <2> QED
    BY <2>1, <2>2, <2>4, <2>11, <2>13, <2>14, ListEqual
<1> HIDE DEF N
<1>3. P \in Seq(Seq(S))
  BY DEF Coded
<1>4. Len(P) \in N
  <2>1. Len(P) \in Nat
    BY <1>3
  <2>2. Nat \subseteq N
    BY <1>1, <1>2, NumbersInSet
  <2> QED
    BY <2>1, <2>2
<1> QED
  BY <1>4 DEF N

(* A list of texts between an opening and an end.                            *)
Enclosed(o, P, c) == <<o>> \o Seqs!FlattenSeq(P) \o <<c>>
Led(x, o, y) == x = <<o>> \o y
Alike(x, a, y, b) == x \o a = y \o b

LEMMA EnclosedIs ==
    ASSUME NEW S, NEW o \in S, NEW c \in S, NEW P \in Seq(Seq(S))
    PROVE  /\ Enclosed(o, P, c) \in Seq(S) /\ Len(Enclosed(o, P, c)) >= 1 /\ Enclosed(o, P, c)[1] = o
           /\ \A a \in Seq(S) : Led(Enclosed(o, P, c) \o a, o, Flat(P, c, a)) /\ Flat(P, c, a) \in Seq(S)
<1> DEFINE h == <<o>>
           e == <<c>>
           F == Seqs!FlattenSeq(P)
           x == (h \o F) \o e
<1>1. Enclosed(o, P, c) = x
  BY DEF Enclosed
<1>2. h \in Seq(S) /\ Len(h) = 1 /\ h[1] = o /\ e \in Seq(S)
  BY OneEntry
<1>3. F \in Seq(S)
  BY FlattenType
<1>4. ASSUME NEW a \in Seq(S) PROVE Flat(P, c, a) = F \o (e \o a) /\ Flat(P, c, a) \in Seq(S)
  BY FlatIs DEF Flat
<1> HIDE DEF h, e, F
<1>10. h \in Seq(S) /\ F \in Seq(S) /\ e \in Seq(S)
  BY <1>2, <1>3
<1>5. x = h \o (F \o e) /\ h \o F \in Seq(S) /\ F \o e \in Seq(S)
  BY <1>10, Regrouped
<1>6. x \in Seq(S) /\ Len(x) = 1 + Len(F \o e)
  <2>1. h \o (F \o e) \in Seq(S) /\ Len(h \o (F \o e)) = Len(h) + Len(F \o e)
    BY <1>5, <1>10, ConcatAt
  <2> QED
    BY <1>2, <1>5, <2>1
<1>7. x[1] = o
  <2>1. Len(h) >= 1
    BY <1>2
  <2>2. (h \o (F \o e))[1] = h[1]
    BY <1>2, <1>5, <2>1, FirstOf
  <2> QED
    BY <1>2, <1>5, <2>2
<1>8. Len(x) >= 1
  <2>1. Len(F \o e) \in Nat
    BY <1>5
  <2> QED
    BY <1>6, <2>1
<1>9. ASSUME NEW a \in Seq(S) PROVE x \o a = h \o (F \o (e \o a))
  <2>1. (F \o e) \o a = F \o (e \o a)
    BY <1>10, Regrouped
  <2> DEFINE r == F \o e
  <2>3. r \in Seq(S)
    BY <1>5
  <2> HIDE DEF r
  <2>5. h \in Seq(S) /\ a \in Seq(S)
    BY <1>10
  <2>4. (h \o r) \o a = h \o (r \o a)
    BY <2>3, <2>5, Regrouped
  <2>2. (h \o (F \o e)) \o a = h \o ((F \o e) \o a)
    BY <2>4 DEF r
  <2> QED
    BY <1>5, <2>1, <2>2
<1>11. ASSUME NEW a \in Seq(S) PROVE Led(x \o a, o, Flat(P, c, a)) /\ Flat(P, c, a) \in Seq(S)
  BY <1>4, <1>9 DEF Led, h
<1> QED
  BY <1>1, <1>6, <1>7, <1>8, <1>11

LEMMA EnclosedApart ==
    ASSUME NEW S, NEW o \in S, NEW c, NEW P, NEW Q, Coded(P, Q, S, c), NEW a \in Seq(S), NEW b \in Seq(S),
           Alike(Enclosed(o, P, c), a, Enclosed(o, Q, c), b)
    PROVE  P = Q /\ a = b
<1> DEFINE h == <<o>>
           x == Flat(P, c, a)
           y == Flat(Q, c, b)
<1>1. c \in S /\ P \in Seq(Seq(S)) /\ Q \in Seq(Seq(S))
  BY DEF Coded
<1>2. h \in Seq(S) /\ x \in Seq(S) /\ y \in Seq(S)
  BY <1>1, EnclosedIs, OneEntry
<1>5. Enclosed(o, P, c) \o a = h \o x
  <2>1. Led(Enclosed(o, P, c) \o a, o, x)
    BY <1>1, EnclosedIs
  <2> QED
    BY <2>1 DEF Led
<1>6. Enclosed(o, Q, c) \o b = h \o y
  <2>1. Led(Enclosed(o, Q, c) \o b, o, y)
    BY <1>1, EnclosedIs
  <2> QED
    BY <2>1 DEF Led
<1>3. h \o x = h \o y
  BY <1>5, <1>6 DEF Alike
<1> HIDE DEF h, x, y
<1>4. x = y
  BY <1>2, <1>3, Cancelled
<1> QED
  BY <1>4, FlattenApart DEF x, y

Grouped(s, t, u, S) == (s \o t) \o u = s \o (t \o u) /\ t \o u \in Seq(S)

LEMMA GroupedIs ==
    ASSUME NEW S, NEW s \in Seq(S), NEW t \in Seq(S), NEW u \in Seq(S)
    PROVE  Grouped(s, t, u, S)
  BY Regrouped DEF Grouped

LEMMA Followed ==
    ASSUME NEW S, NEW s \in Seq(S), NEW t \in Seq(S), NEW u \in Seq(S), NEW v \in Seq(S),
           Separable(s, t, S), Separable(u, v, S)
    PROVE  Separable(s \o u, t \o v, S)
<1>5. ASSUME NEW a \in Seq(S) PROVE (s \o u) \o a = s \o (u \o a) /\ u \o a \in Seq(S)
  <2>1. Grouped(s, u, a, S)
    BY GroupedIs
  <2> QED
    BY <2>1 DEF Grouped
<1>6. ASSUME NEW b \in Seq(S) PROVE (t \o v) \o b = t \o (v \o b) /\ v \o b \in Seq(S)
  <2>1. Grouped(t, v, b, S)
    BY GroupedIs
  <2> QED
    BY <2>1 DEF Grouped
<1> SUFFICES ASSUME NEW a \in Seq(S), NEW b \in Seq(S), (s \o u) \o a = (t \o v) \o b
             PROVE  s \o u = t \o v /\ a = b
  BY DEF Separable
<1>1. (s \o u) \o a = s \o (u \o a) /\ u \o a \in Seq(S)
  BY <1>5
<1>2. (t \o v) \o b = t \o (v \o b) /\ v \o b \in Seq(S)
  BY <1>6
<1>3. s = t /\ u \o a = v \o b
  BY <1>1, <1>2 DEF Separable
<1>4. u = v /\ a = b
  BY <1>3 DEF Separable
<1> QED
  BY <1>3, <1>4

LEMMA SelfSeparable == ASSUME NEW S, NEW s \in Seq(S) PROVE Separable(s, s, S)
  BY Cancelled DEF Separable
=============================================================================
