---------------------------- MODULE LayagoProofs ------------------------------
(* go/layago: how a question becomes a sequence, its text tokens, the row of *)
(* logits an answer, for lists of any length, any vocabulary and any text.   *)
EXTENDS Scoring, Tokenizer, Questions, ListLemmas

(* The sequence of a question *)

Token == {<<"cls">>, <<"sep">>} \cup ({"head", "mask", "state"} \X Nat) \cup ({"option"} \X Nat \X Nat)

Shape == [head : Nat, options : Seq(Nat)]

LEMMA SumOf ==
    ASSUME NEW lens, NEW n \in Nat, Len(lens) = n, lens \in [1..n -> Nat]
    PROVE  Sum(lens) \in Nat
<1> DEFINE d == [i \in Nat |-> [x \in Nat |-> IF i \in 1..n THEN x + lens[i] ELSE 0]]
           f == Stepwise(0, d, n)
<1>1. n \in Nat /\ \A i \in 1..n : lens[i] \in Nat
  OBVIOUS
<1>2. d \in [Nat -> [Nat -> Nat]]
  BY <1>1
<1>3. \A i \in 1..n, x \in Nat : d[i][x] = x + lens[i]
  BY <1>1
<1> HIDE DEF d
<1>4. Steps(Nat, 0, d, n)
  BY <1>1, <1>2 DEF Steps
<1>5. Follows(f, Nat, 0, d, n)
  BY <1>4, StepwiseIs
<1> HIDE DEF f
<1>7. f \in [0..n -> Nat] /\ f[0] = 0 /\ \A i \in 1..n : f[i] = d[i][f[i - 1]]
  BY <1>5 DEF Follows
<1>8. \A j \in 0..n : j # 0 => j \in 1..n /\ j - 1 \in 0..n
  BY <1>1
<1>9. \A j \in 0..n : j # 0 => d[j][f[j - 1]] = f[j - 1] + lens[j]
  BY <1>3, <1>7, <1>8
<1>10. f = [j \in 0..n |-> IF j = 0 THEN 0 ELSE f[j - 1] + lens[j]]
  BY <1>7, <1>8, <1>9
<1> DEFINE g == CHOOSE g : g = [j \in 0..n |-> IF j = 0 THEN 0 ELSE g[j - 1] + lens[j]]
<1>17. g = [j \in 0..n |-> IF j = 0 THEN 0 ELSE g[j - 1] + lens[j]]
  BY <1>10
<1>16. Sum(lens) = g[n]
  BY DEF Sum
<1> HIDE DEF g
<1> DEFINE N == {m \in Nat : m <= n => g[m] \in Nat}
<1>12. \A j \in 0..n : g[j] = IF j = 0 THEN 0 ELSE g[j - 1] + lens[j]
  BY <1>17
<1>13. 0 \in N
  BY <1>1, <1>12
<1>14. ASSUME NEW m \in Nat, m \in N PROVE m + 1 \in N
  <2> SUFFICES ASSUME m + 1 <= n PROVE g[m + 1] \in Nat
    OBVIOUS
  <2>1. m + 1 \in 0..n /\ m + 1 # 0 /\ (m + 1) - 1 = m /\ m + 1 \in 1..n /\ m <= n
    BY <1>1
  <2>2. g[m] \in Nat /\ lens[m + 1] \in Nat
    BY <1>1, <1>14, <2>1
  <2>3. g[m + 1] = g[m] + lens[m + 1]
    BY <1>12, <2>1
  <2> QED
    BY <2>2, <2>3
<1> HIDE DEF N
<1>15. n \in N
  BY <1>1, <1>13, <1>14, NumbersInSet
<1> QED
  BY <1>1, <1>15, <1>16 DEF N

LEMMA SumType == ASSUME NEW lens \in Seq(Nat) PROVE Sum(lens) \in Nat
<1>1. Len(lens) \in Nat /\ lens \in [1..Len(lens) -> Nat]
  OBVIOUS
<1> QED
  BY <1>1, SumOf

LEMMA LensType ==
    ASSUME NEW q \in Shape
    PROVE  /\ OptionLens(q) \in Seq(Nat) /\ Len(OptionLens(q)) = Len(q.options)
           /\ HeadLen(q) \in Nat
<1>1. q.head \in Nat /\ q.options \in Seq(Nat) /\ DOMAIN q.options = 1..Len(q.options) /\ Len(q.options) \in Nat
  BY DEF Shape
<1>2. Capped(q) \in [1..Len(q.options) -> Nat]
  BY <1>1, LengthAssumption DEF Capped, AtMost
<1>3. Capped(q) \in Seq(Nat) /\ Len(Capped(q)) = Len(q.options)
  BY <1>1, <1>2
<1>4. Sum(Capped(q)) \in Nat
  BY <1>3, SumType
<1>5. AtLeast(1, Len(q.options)) \in Nat \ {0}
  BY <1>1 DEF AtLeast
<1>6. (HeadMaxLen - HeadRoom) \div AtLeast(1, Len(q.options)) \in Int
  BY <1>5, LengthAssumption
<1>7. PerOption(q) \in Nat
  BY <1>6, LengthAssumption DEF PerOption, AtLeast
<1>8. OptionLens(q) \in [1..Len(q.options) -> Nat]
  BY <1>1, <1>2, <1>7 DEF OptionLens, AtMost
<1>9. OptionLens(q) \in Seq(Nat) /\ Len(OptionLens(q)) = Len(q.options)
  BY <1>1, <1>8
<1>10. Sum(OptionLens(q)) \in Nat
  BY <1>9, SumType
<1>11. HeadLen(q) \in Nat
  BY <1>1, <1>10, LengthAssumption DEF HeadLen, AtMost, AtLeast
<1> QED
  BY <1>9, <1>11

LEMMA OptionType ==
    ASSUME NEW q \in Shape, NEW j \in 1..Len(q.options)
    PROVE  /\ Option(q, j) \in Seq(Token)
           /\ Len(Option(q, j)) \in Nat \ {0}
           /\ Option(q, j)[1] = <<"mask", j>>
<1> DEFINE n == OptionLens(q)[j]
           rest == [i \in 1..n |-> <<"option", j, i>>]
<1>1. n \in Nat /\ j \in Nat
  BY LensType DEF Shape
<1>2. rest \in [1..n -> Token]
  BY <1>1 DEF Token
<1>3. rest \in Seq(Token) /\ Len(rest) = n
  BY <1>1, <1>2
<1>4. <<<<"mask", j>>>> \in Seq(Token)
  BY <1>1 DEF Token
<1>5. Option(q, j) = <<<<"mask", j>>>> \o rest
  BY DEF Option
<1> HIDE DEF rest, n
<1> QED
  BY <1>1, <1>3, <1>4, <1>5, ConcatProperties

LEMMA PartType ==
    ASSUME NEW name \in {"head", "state"}, NEW n \in Nat
    PROVE  Part(name, n) \in Seq(Token) /\ Len(Part(name, n)) = n
<1>1. Part(name, n) \in [1..n -> Token]
  BY DEF Part, Token
<1> QED
  BY <1>1

Front(q) == <<<<"cls">>>> \o Part("head", HeadLen(q)) \o <<<<"sep">>>>
FirstOptions(q, j) == [h \in 1..j |-> Option(q, h)]

LEMMA FrontType == ASSUME NEW q \in Shape PROVE Front(q) \in Seq(Token)
<1>1. <<<<"cls">>>> \in Seq(Token) /\ <<<<"sep">>>> \in Seq(Token)
  BY DEF Token
<1>2. Part("head", HeadLen(q)) \in Seq(Token)
  BY LensType, PartType
<1> QED
  BY <1>1, <1>2, ConcatProperties DEF Front

LEMMA UptoNext ==
    ASSUME NEW q \in Shape, NEW j \in 0..Len(q.options)
    PROVE  /\ Upto(q, j) \in Seq(Token)
           /\ j > 0 => Upto(q, j) = Upto(q, j - 1) \o Option(q, j)
<1>0. Len(q.options) \in Nat
  BY DEF Shape
<1>1. ASSUME NEW m \in 0..Len(q.options)
      PROVE  /\ FirstOptions(q, m) \in Seq(Seq(Token))
             /\ Seqs!FlattenSeq(FirstOptions(q, m)) \in Seq(Token)
  <2>1. FirstOptions(q, m) \in [1..m -> Seq(Token)]
    BY <1>0, OptionType DEF FirstOptions
  <2>2. FirstOptions(q, m) \in Seq(Seq(Token))
    BY <2>1
  <2> QED
    BY <2>2, FlattenType
<1>2. \A m \in 0..Len(q.options) : Upto(q, m) = Front(q) \o Seqs!FlattenSeq(FirstOptions(q, m))
  BY DEF Upto, Front, FirstOptions
<1>3. Upto(q, j) \in Seq(Token)
  BY <1>1, <1>2, FrontType, ConcatProperties
<1>4. ASSUME j > 0 PROVE Upto(q, j) = Upto(q, j - 1) \o Option(q, j)
  <2>1. j - 1 \in 0..Len(q.options) /\ j \in 1..Len(q.options)
    BY <1>0, <1>4
  <2>2. FirstOptions(q, j) = Append(FirstOptions(q, j - 1), Option(q, j))
    <3>0. /\ FirstOptions(q, j) \in [1..j -> Seq(Token)]
          /\ FirstOptions(q, j - 1) \in [1..(j - 1) -> Seq(Token)]
      BY <1>0, <2>1, OptionType DEF FirstOptions
    <3>1. /\ FirstOptions(q, j) \in Seq(Seq(Token)) /\ Len(FirstOptions(q, j)) = j
          /\ FirstOptions(q, j - 1) \in Seq(Seq(Token)) /\ Len(FirstOptions(q, j - 1)) = j - 1
      BY <2>1, <3>0
    <3>2. /\ Append(FirstOptions(q, j - 1), Option(q, j)) \in Seq(Seq(Token))
          /\ Len(Append(FirstOptions(q, j - 1), Option(q, j))) = j
      <4> DEFINE S == Seq(Token)
                 s == FirstOptions(q, j - 1)
                 e == Option(q, j)
      <4>1. s \in Seq(S) /\ Len(s) = j - 1 /\ e \in S
        BY <2>1, <3>1, OptionType
      <4> HIDE DEF S, s, e
      <4>2. Append(s, e) \in Seq(S) /\ Len(Append(s, e)) = (j - 1) + 1
        BY <4>1, AppendProperties
      <4>3. (j - 1) + 1 = j
        BY <2>1
      <4> QED
        BY <4>2, <4>3 DEF S, s, e
    <3>3. \A h \in 1..j : FirstOptions(q, j)[h] = Append(FirstOptions(q, j - 1), Option(q, j))[h]
      BY <2>1, <3>1, OptionType, AppendProperties DEF FirstOptions
    <3> QED
      BY <3>1, <3>2, <3>3, SeqEqual
  <2>3. Seqs!FlattenSeq(FirstOptions(q, j)) = Seqs!FlattenSeq(FirstOptions(q, j - 1)) \o Option(q, j)
    BY <2>1, <2>2, <1>1, OptionType, FlattenAppend
  <2>4. /\ Front(q) \in Seq(Token) /\ Option(q, j) \in Seq(Token)
        /\ Seqs!FlattenSeq(FirstOptions(q, j - 1)) \in Seq(Token)
    BY <2>1, <1>1, FrontType, OptionType
  <2>5. \A a, b, c \in Seq(Token) : a \o (b \o c) = (a \o b) \o c
    BY ConcatAssociative
  <2>6. /\ Upto(q, j) = Front(q) \o Seqs!FlattenSeq(FirstOptions(q, j))
        /\ Upto(q, j - 1) = Front(q) \o Seqs!FlattenSeq(FirstOptions(q, j - 1))
    BY <2>1, <1>2
  <2>7. Front(q) \o (Seqs!FlattenSeq(FirstOptions(q, j - 1)) \o Option(q, j))
           = (Front(q) \o Seqs!FlattenSeq(FirstOptions(q, j - 1))) \o Option(q, j)
    BY <2>4, <2>5
  <2> QED
    BY <2>3, <2>6, <2>7, Zenon
<1> QED
  BY <1>3, <1>4

(* What is written stays where it is.                                        *)
LEMMA UptoGrows ==
    ASSUME NEW q \in Shape, NEW j \in 0..Len(q.options), NEW m \in 0..Len(q.options), j <= m
    PROVE  /\ Len(Upto(q, j)) <= Len(Upto(q, m))
           /\ \A x \in 1..Len(Upto(q, j)) : Upto(q, m)[x] = Upto(q, j)[x]
<1> DEFINE u == Upto(q, j)
           Same(s) == Len(u) <= Len(s) /\ \A x \in 1..Len(u) : s[x] = u[x]
           N == {c \in Nat : j + c <= Len(q.options) => Same(Upto(q, j + c))}
<1>0. Len(q.options) \in Nat /\ j \in Nat
  BY DEF Shape
<1>1. u \in Seq(Token) /\ Len(u) \in Nat
  BY UptoNext, LenProperties
<1>2. 0 \in N
  <2>1. j + 0 = j /\ Same(u)
    BY <1>0, <1>1
  <2> QED
    BY <2>1
<1>3. ASSUME NEW c \in Nat, c \in N PROVE c + 1 \in N
  <2> SUFFICES ASSUME j + (c + 1) <= Len(q.options) PROVE Same(Upto(q, j + (c + 1)))
    OBVIOUS
  <2> DEFINE v == Upto(q, j + c)
             o == Option(q, j + (c + 1))
  <2>1. /\ j + c \in 0..Len(q.options) /\ j + (c + 1) \in 1..Len(q.options)
        /\ j + (c + 1) \in 0..Len(q.options) /\ j + (c + 1) > 0 /\ (j + (c + 1)) - 1 = j + c
    BY <1>0
  <2>2. v \in Seq(Token) /\ o \in Seq(Token) /\ Upto(q, j + (c + 1)) = v \o o
    BY <2>1, UptoNext, OptionType
  <2>3. Same(v)
    BY <1>3, <2>1
  <2> HIDE DEF v, o, u
  <2> QED
    BY <2>2, <2>3, <1>1, ConcatProperties
<1> HIDE DEF N
<1>4. m - j \in N
  BY <1>0, <1>2, <1>3, NumbersInSet
<1>5. j + (m - j) = m
  BY <1>0
<1> QED
  BY <1>0, <1>4, <1>5 DEF N

LEMMA HeaderType ==
    ASSUME NEW q \in Shape
    PROVE  /\ Header(q) \in Seq(Token) /\ Len(Header(q)) \in Nat
           /\ Header(q) = Upto(q, Len(q.options)) \o <<<<"sep">>>>
<1>1. Len(q.options) \in 0..Len(q.options)
  BY DEF Shape
<1>2. <<<<"sep">>>> \in Seq(Token)
  BY DEF Token
<1> QED
  BY <1>1, <1>2, UptoNext, ConcatProperties, LenProperties DEF Header

(* A marker is where the mask token of its option is.                        *)
LEMMA MarkerPoints ==
    ASSUME NEW q \in Shape, NEW j \in 1..Len(q.options)
    PROVE  /\ Marker(q, j) \in Nat /\ Marker(q, j) < Len(Header(q))
           /\ Header(q)[Marker(q, j) + 1] = <<"mask", j>>
<1> DEFINE n == Len(q.options)
           u == Upto(q, j - 1)
           v == Upto(q, j)
           z == Upto(q, n)
<1>1. n \in Nat /\ j \in 0..n /\ j - 1 \in 0..n /\ n \in 0..n /\ j > 0
  BY DEF Shape
<1>2. u \in Seq(Token) /\ v = u \o Option(q, j) /\ v \in Seq(Token) /\ z \in Seq(Token)
  BY <1>1, UptoNext
<1>3. /\ Option(q, j) \in Seq(Token) /\ Len(Option(q, j)) \in Nat \ {0}
      /\ Option(q, j)[1] = <<"mask", j>>
  BY OptionType
<1>4. Len(v) <= Len(z) /\ \A x \in 1..Len(v) : z[x] = v[x]
  BY <1>1, UptoGrows
<1>5. Marker(q, j) = Len(u)
  BY DEF Marker
<1>6. Header(q) = z \o <<<<"sep">>>>
  BY DEF Header
<1> HIDE DEF u, v, z
<1>7. Len(u) \in Nat /\ Len(v) = Len(u) + Len(Option(q, j)) /\ v[Len(u) + 1] = <<"mask", j>>
  BY <1>2, <1>3, ConcatProperties
<1>8. <<<<"sep">>>> \in Seq(Token) /\ Len(<<<<"sep">>>>) = 1
  BY DEF Token
<1>9. Len(Header(q)) = Len(z) + 1 /\ \A x \in 1..Len(z) : Header(q)[x] = z[x]
  BY <1>2, <1>6, <1>8, ConcatProperties
<1>10. Len(z) \in Nat /\ Len(u) + 1 \in 1..Len(v) /\ Len(u) + 1 \in 1..Len(z)
  BY <1>2, <1>3, <1>4, <1>7, LenProperties
<1>11. Marker(q, j) \in Nat /\ Marker(q, j) < Len(Header(q))
  BY <1>5, <1>7, <1>9, <1>10
<1>12. Header(q)[Len(u) + 1] = v[Len(u) + 1]
  BY <1>4, <1>9, <1>10
<1> QED
  BY <1>5, <1>7, <1>11, <1>12

(* Markers are kept in order, so as many of them as there are options are    *)
(* all of them.                                                              *)
LEMMA MarkersAll ==
    ASSUME NEW q \in Shape
    PROVE  /\ Markers(q) \in Seq(Nat) /\ Len(Markers(q)) <= Len(q.options)
           /\ Len(Markers(q)) = Len(q.options) =>
                  \A j \in 1..Len(q.options) :
                      Markers(q)[j] = Marker(q, j) /\ Marker(q, j) < MaxLen
<1> DEFINE n == Len(q.options)
           going(j, s) == IF Marker(q, j) < MaxLen THEN Append(s, Marker(q, j)) ELSE s
           d == [j \in Nat |-> [s \in Seq(Nat) |-> IF j \in 1..n THEN going(j, s) ELSE s]]
           f == Stepwise(<<>>, d, n)
           g == CHOOSE kept : kept = [j \in 0..n |->
                    IF j = 0 THEN <<>>
                    ELSE IF Marker(q, j) < MaxLen THEN Append(kept[j - 1], Marker(q, j))
                    ELSE kept[j - 1]]
<1>1. Markers(q) = g[n]
  BY DEF Markers
<1>2. n \in Nat /\ \A j \in 1..n : Marker(q, j) \in Nat
  BY MarkerPoints DEF Shape
<1>3. \A j \in 1..n, s \in Seq(Nat) : going(j, s) \in Seq(Nat)
  BY <1>2, AppendProperties
<1> HIDE DEF n
<1>4. d \in [Nat -> [Seq(Nat) -> Seq(Nat)]]
  BY <1>3
<1>5. \A j \in 1..n, s \in Seq(Nat) : d[j][s] = going(j, s)
  BY <1>2
<1> HIDE DEF d
<1>6. Steps(Seq(Nat), <<>>, d, n)
  BY <1>2, <1>4 DEF Steps
<1>7. Follows(f, Seq(Nat), <<>>, d, n)
  BY <1>6, StepwiseIs
<1> HIDE DEF f
<1>8. f \in [0..n -> Seq(Nat)] /\ f[0] = <<>> /\ \A j \in 1..n : f[j] = d[j][f[j - 1]]
  BY <1>7 DEF Follows
<1>9. \A j \in 0..n : j # 0 => j \in 1..n /\ j - 1 \in 0..n
  BY <1>2
<1>10. ASSUME NEW j \in 1..n PROVE f[j] = going(j, f[j - 1])
  <2>1. f[j - 1] \in Seq(Nat) /\ f[j] = d[j][f[j - 1]]
    BY <1>2, <1>8
  <2>2. d[j][f[j - 1]] = going(j, f[j - 1])
    BY <1>5, <2>1
  <2> QED
    BY <2>1, <2>2
<1>11. f = [j \in 0..n |->
                    IF j = 0 THEN <<>>
                    ELSE IF Marker(q, j) < MaxLen THEN Append(f[j - 1], Marker(q, j))
                    ELSE f[j - 1]]
  BY <1>8, <1>9, <1>10
<1>12. g = [j \in 0..n |->
                    IF j = 0 THEN <<>>
                    ELSE IF Marker(q, j) < MaxLen THEN Append(g[j - 1], Marker(q, j))
                    ELSE g[j - 1]]
  BY <1>11
<1> HIDE DEF g
<1> DEFINE Kept(j) == /\ g[j] \in Seq(Nat) /\ Len(g[j]) <= j
                      /\ Len(g[j]) = j => \A h \in 1..j : g[j][h] = Marker(q, h) /\ Marker(q, h) < MaxLen
           N == {j \in Nat : j <= n => Kept(j)}
<1>13. 0 \in N
  <2>1. g[0] = <<>>
    BY <1>2, <1>12
  <2>2. <<>> \in Seq(Nat) /\ Len(<<>>) = 0
    OBVIOUS
  <2>3. g[0] \in Seq(Nat) /\ Len(g[0]) <= 0 /\ \A h \in 1..0 : FALSE
    BY <2>1, <2>2
  <2>4. Kept(0)
    BY <2>3
  <2> QED
    BY <2>4
<1>14. ASSUME NEW m \in Nat, m \in N PROVE m + 1 \in N
  <2> SUFFICES ASSUME m + 1 <= n PROVE Kept(m + 1)
    OBVIOUS
  <2>1. m + 1 \in 0..n /\ m + 1 # 0 /\ (m + 1) - 1 = m /\ m + 1 \in 1..n /\ m <= n
    BY <1>2
  <2>2. Kept(m)
    BY <1>14, <2>1
  <2>3. g[m + 1] = IF Marker(q, m + 1) < MaxLen THEN Append(g[m], Marker(q, m + 1)) ELSE g[m]
    BY <1>12, <2>1
  <2>4. CASE Marker(q, m + 1) < MaxLen
    <3>1. /\ g[m + 1] \in Seq(Nat) /\ Len(g[m + 1]) = Len(g[m]) + 1
          /\ \A h \in 1..Len(g[m]) : g[m + 1][h] = g[m][h]
          /\ g[m + 1][Len(g[m]) + 1] = Marker(q, m + 1)
      BY <1>2, <2>1, <2>2, <2>3, <2>4, AppendProperties
    <3>2. Len(g[m]) \in Nat
      BY <2>2
    <3>3. Len(g[m + 1]) <= m + 1
      BY <2>2, <3>1, <3>2
    <3>4. ASSUME Len(g[m + 1]) = m + 1, NEW h \in 1..(m + 1)
          PROVE  g[m + 1][h] = Marker(q, h) /\ Marker(q, h) < MaxLen
      <4>1. Len(g[m]) = m
        BY <3>1, <3>2, <3>4
      <4>2. CASE h = m + 1
        BY <2>4, <3>1, <4>1, <4>2
      <4>3. CASE h # m + 1
        <5>1. h \in 1..m
          BY <4>3
        <5> QED
          BY <2>2, <3>1, <4>1, <5>1
      <4> QED
        BY <4>2, <4>3
    <3> QED
      BY <3>1, <3>3, <3>4
  <2>5. CASE ~ (Marker(q, m + 1) < MaxLen)
    <3>1. g[m + 1] = g[m] /\ Len(g[m]) \in Nat
      BY <2>2, <2>3, <2>5
    <3> QED
      BY <2>2, <3>1
  <2> QED
    BY <2>4, <2>5
<1> HIDE DEF N
<1>15. Kept(n)
  <2>1. n \in N
    BY <1>2, <1>13, <1>14, NumbersInSet
  <2> QED
    BY <1>2, <2>1 DEF N
<1> QED
  BY <1>1, <1>15 DEF n

(* What BuildSequence gives.                                                 *)
LEMMA BuildIs ==
    ASSUME NEW q \in Shape, NEW state \in Nat,
           NEW b, b = Build(q, state), NEW h, h = Len(Header(q))
    PROVE  /\ b.ids \in Seq(Token)
           /\ b.markers \in Seq(Nat) /\ Len(b.markers) <= Len(q.options)
           /\ h < MaxLen => /\ b.ids[Len(b.ids)] = <<"sep">>
                            /\ Len(b.ids) = AtMost(MaxLen, h + state + 1)
           /\ Len(b.markers) = Len(q.options) =>
                  \A j \in 1..Len(q.options) :
                      /\ b.markers[j] < Len(b.ids)
                      /\ b.ids[b.markers[j] + 1] = <<"mask", j>>
<1> DEFINE s == AtMost(state, Room(q))
           front == Header(q) \o Part("state", s)
           full == front \o <<<<"sep">>>>
           cut == AtMost(Len(full), MaxLen)
<1>1. MaxLen \in Nat
  BY LengthAssumption
<1>2. Header(q) \in Seq(Token) /\ h \in Nat
  BY HeaderType
<1>3. s \in Nat /\ (h < MaxLen => s = AtMost(state, MaxLen - h - 1))
  BY <1>1, <1>2 DEF Room, AtLeast, AtMost
<1>4. Part("state", s) \in Seq(Token) /\ Len(Part("state", s)) = s
  BY <1>3, PartType
<1>5. <<<<"sep">>>> \in Seq(Token) /\ Len(<<<<"sep">>>>) = 1 /\ <<<<"sep">>>>[1] = <<"sep">>
  BY DEF Token
<1>6. b.ids = SubSeq(full, 1, cut) /\ b.markers = Markers(q)
  BY DEF Build
<1> HIDE DEF s, full
<1>7. /\ front \in Seq(Token) /\ Len(front) = h + s
      /\ \A x \in 1..h : front[x] = Header(q)[x]
  <2> DEFINE head == Header(q)
             part == Part("state", s)
  <2>1. head \in Seq(Token) /\ part \in Seq(Token) /\ Len(head) = h /\ Len(part) = s
    BY <1>2, <1>4
  <2> HIDE DEF head, part
  <2>2. /\ head \o part \in Seq(Token) /\ Len(head \o part) = h + s
        /\ \A x \in 1..(h + s) : (head \o part)[x] = IF x <= h THEN head[x] ELSE part[x - h]
    BY <2>1, ConcatProperties
  <2> QED
    BY <1>2, <1>3, <2>2 DEF head, part
<1> HIDE DEF front
<1>8. /\ full \in Seq(Token) /\ Len(full) = h + s + 1
      /\ \A x \in 1..h : full[x] = Header(q)[x]
      /\ full[h + s + 1] = <<"sep">>
  <2> DEFINE last == <<<<"sep">>>>
  <2>1. last \in Seq(Token) /\ Len(last) = 1 /\ last[1] = <<"sep">>
    BY <1>5
  <2>2. full = front \o last
    BY DEF full
  <2> HIDE DEF last
  <2>5. /\ full \in Seq(Token) /\ Len(full) = Len(front) + Len(last)
        /\ \A x \in 1..(Len(front) + Len(last)) :
               full[x] = IF x <= Len(front) THEN front[x] ELSE last[x - Len(front)]
    BY <1>7, <2>1, <2>2, ConcatProperties, Zenon
  <2>3. /\ full \in Seq(Token) /\ Len(full) = h + s + 1
        /\ \A x \in 1..(h + s + 1) : full[x] = IF x <= h + s THEN front[x] ELSE last[x - (h + s)]
    BY <1>7, <2>1, <2>5
  <2>4. h + s + 1 \in 1..(h + s + 1) /\ \A x \in 1..h : x \in 1..(h + s + 1) /\ x <= h + s
    BY <1>2, <1>3
  <2>6. \A x \in 1..h : full[x] = Header(q)[x]
    BY <1>7, <2>3, <2>4
  <2>7. full[h + s + 1] = <<"sep">>
    <3>1. ~(h + s + 1 <= h + s) /\ (h + s + 1) - (h + s) = 1
      BY <1>2, <1>3
    <3>2. full[h + s + 1] = last[1]
      BY <2>3, <2>4, <3>1
    <3> QED
      BY <2>1, <3>2
  <2> QED
    BY <2>3, <2>6, <2>7
<1>9. /\ cut \in Nat /\ cut <= Len(full)
      /\ \A x \in 1..Len(full) : x <= MaxLen => x <= cut
      /\ Len(full) <= MaxLen => cut = Len(full)
  BY <1>1, <1>2, <1>3, <1>8 DEF AtMost
<1>10. /\ b.ids \in Seq(Token) /\ Len(b.ids) = cut
       /\ \A x \in 1..cut : b.ids[x] = full[x]
  <2>1. /\ full \in Seq(Token) /\ Len(full) \in Nat
        /\ \A x \in 1..cut : x \in 1..Len(full) /\ full[x] \in Token
    BY <1>2, <1>3, <1>8, <1>9, ElementOfSeq
  <2>2. cut >= 1 => cut \in 1..Len(full) /\ 1 \in 1..Len(full)
    BY <1>9, <2>1
  <2> HIDE DEF cut
  <2>3. SubSeq(full, 1, cut) \in Seq(Token) /\ Len(SubSeq(full, 1, cut)) = cut
        /\ \A x \in 1..cut : SubSeq(full, 1, cut)[x] = full[x]
    BY <2>1, <2>2, <1>9
  <2> QED
    BY <1>6, <2>3
<1> HIDE DEF cut
<1>11. ASSUME h < MaxLen
       PROVE  b.ids[Len(b.ids)] = <<"sep">> /\ Len(b.ids) = AtMost(MaxLen, h + state + 1)
  <2>1. h + s + 1 <= MaxLen /\ h + s + 1 = AtMost(MaxLen, h + state + 1)
    BY <1>1, <1>2, <1>3, <1>11 DEF AtMost
  <2>2. cut = h + s + 1 /\ cut \in 1..cut
    BY <1>2, <1>3, <1>8, <1>9, <2>1
  <2> QED
    BY <1>8, <1>10, <2>1, <2>2
<1>12. ASSUME Len(b.markers) = Len(q.options), NEW j \in 1..Len(q.options)
       PROVE  b.markers[j] < Len(b.ids) /\ b.ids[b.markers[j] + 1] = <<"mask", j>>
  <2> DEFINE m == Marker(q, j)
  <2>1. b.markers[j] = m /\ m < MaxLen
    BY <1>6, <1>12, MarkersAll
  <2>2. m \in Nat /\ m < h /\ Header(q)[m + 1] = <<"mask", j>>
    BY MarkerPoints
  <2> HIDE DEF m
  <2>3. m + 1 \in 1..h /\ m + 1 \in 1..Len(full) /\ m + 1 <= MaxLen
    BY <1>1, <1>2, <1>3, <1>8, <2>1, <2>2
  <2>4. m + 1 \in 1..cut
    BY <1>9, <2>3
  <2> QED
    BY <1>8, <1>9, <1>10, <2>1, <2>2, <2>3, <2>4
<1> QED
  BY <1>6, <1>10, <1>11, <1>12, MarkersAll

-----------------------------------------------------------------------------
(* The batch *)

(* Of some lists one is longest.                                             *)
LEMMA LongestIs ==
    ASSUME NEW seqs, NEW n \in Nat \ {0}, DOMAIN seqs = 1..n,
           \A i \in 1..n : Len(seqs[i]) \in Nat
    PROVE  /\ Longest(seqs) \in Nat
           /\ \A i \in 1..n : Len(seqs[i]) <= Longest(seqs)
<1> DEFINE Top(m) == \E i \in 1..m : \A j \in 1..m : Len(seqs[j]) <= Len(seqs[i])
           N == {m \in Nat : m \in 1..n => Top(m)}
           lens == {Len(seqs[i]) : i \in DOMAIN seqs}
<1>1. 0 \in N
  OBVIOUS
<1>2. ASSUME NEW m \in Nat, m \in N PROVE m + 1 \in N
  <2> SUFFICES ASSUME m + 1 \in 1..n PROVE Top(m + 1)
    OBVIOUS
  <2>1. CASE m = 0
    <3>1. \A j \in 1..(m + 1) : j = m + 1
      BY <2>1
    <3>2. m + 1 \in 1..(m + 1)
      OBVIOUS
    <3>3. Len(seqs[m + 1]) \in Nat
      OBVIOUS
    <3>4. \A j \in 1..(m + 1) : Len(seqs[j]) <= Len(seqs[m + 1])
      BY <3>1, <3>3
    <3> QED
      BY <3>2, <3>4
  <2>2. CASE m # 0
    <3>1. m \in 1..n
      BY <2>2
    <3>2. PICK i \in 1..m : \A j \in 1..m : Len(seqs[j]) <= Len(seqs[i])
      BY <1>2, <3>1
    <3>3. /\ i \in 1..(m + 1) /\ m + 1 \in 1..(m + 1)
          /\ \A j \in 1..(m + 1) : j \in 1..m \/ j = m + 1
          /\ Len(seqs[i]) \in Nat /\ Len(seqs[m + 1]) \in Nat
          /\ \A j \in 1..m : Len(seqs[j]) \in Nat
      BY <3>1
    <3>4. CASE Len(seqs[m + 1]) <= Len(seqs[i])
      BY <3>2, <3>3, <3>4
    <3>5. CASE ~ (Len(seqs[m + 1]) <= Len(seqs[i]))
      <4>1. \A j \in 1..(m + 1) : Len(seqs[j]) <= Len(seqs[m + 1])
        BY <3>2, <3>3, <3>5
      <4> QED
        BY <3>3, <4>1
    <3> QED
      BY <3>4, <3>5
  <2> QED
    BY <2>1, <2>2
<1> HIDE DEF N
<1>3. Top(n)
  <2>1. n \in N
    BY <1>1, <1>2, NumbersInSet
  <2> QED
    BY <2>1 DEF N
<1>4. \E x \in lens : \A y \in lens : y <= x
  BY <1>3
<1>5. Longest(seqs) \in lens /\ \A y \in lens : y <= Longest(seqs)
  BY <1>4 DEF Longest
<1> QED
  BY <1>5

Rows(seqs, n, w) ==
    /\ n \in Nat /\ w \in Nat /\ DOMAIN seqs = 1..n /\ Len(seqs) = n
    /\ \A i \in 1..n : Len(seqs[i]) \in 0..w

At(i, w, x) == (i - 1) * w + x

(* A row of a packed tensor begins with what was packed into it.             *)
LEMMA PackedRow ==
    ASSUME NEW seqs, NEW n, NEW w, NEW fill, Rows(seqs, n, w),
           NEW i \in 1..n, NEW x \in 0..(Len(seqs[i]) - 1)
    PROVE  Packed(seqs, w, fill)[At(i, w, x)] = seqs[i][x + 1]
<1> DEFINE p == (i - 1) * w + x
           In(r) == p - (r - 1) * w \in 0..(Len(seqs[r]) - 1)
           c == CHOOSE r \in DOMAIN seqs : In(r)
<1>0. /\ n \in Nat /\ w \in Nat /\ DOMAIN seqs = 1..n /\ Len(seqs) = n
      /\ \A r \in 1..n : Len(seqs[r]) \in 0..w
  BY DEF Rows
<1>1. x \in 0..(w - 1) /\ (i - 1) * w \in Int /\ p \in Int
  BY <1>0
<1>2. p \in 0..(n * w - 1)
  BY <1>0, <1>1, RowEnds
<1>3. p - (i - 1) * w = x
  BY <1>1
<1>4. In(i)
  BY <1>3
<1>5. c \in 1..n /\ In(c)
  BY <1>0, <1>4
<1> HIDE DEF c
<1>6. c = i
  <2> DEFINE y == p - (c - 1) * w
  <2>1. y \in 0..(Len(seqs[c]) - 1) /\ Len(seqs[c]) \in 0..w
    BY <1>0, <1>5
  <2>2. y \in 0..(w - 1) /\ (c - 1) * w \in Int
    BY <1>0, <1>5, <2>1
  <2>3. (c - 1) * w + y = (i - 1) * w + x
    BY <1>0, <1>1, <2>2
  <2> HIDE DEF y
  <2>5. c - 1 \in Int /\ i - 1 \in Int
    BY <1>0, <1>5
  <2>6. ASSUME NEW a \in Int, NEW b \in Int, a = c - 1, b = i - 1 PROVE a = b
    <3>1. a * w + y = b * w + x
      BY <2>3, <2>6
    <3> QED
      BY <1>0, <1>1, <2>2, <3>1, RowsApart
  <2>4. c - 1 = i - 1
    BY <2>5, <2>6
  <2> QED
    BY <1>0, <1>5, <2>4
<1>7. Packed(seqs, w, fill)[p] = seqs[c][p - (c - 1) * w + 1]
  BY <1>0, <1>2, <1>4 DEF Packed, c
<1> QED
  BY <1>3, <1>6, <1>7 DEF At

Ids == [i \in DOMAIN items |-> items[i].ids]
Marks == [i \in DOMAIN items |-> items[i].markers]

Item == [ids : Seq(Token), markers : Seq(Nat)]

(* What an answer is read from: a prefix of some row.                        *)
Answers == {SubSeq(Row(i, k), 1, k) : i \in Nat, k \in Nat}
Wanted(i) == AtLeast(1, Len(asked[i][1].options))

(* The inductive invariant: items are those of the batch, in its order;      *)
(* tensors, once packed, hold all of them; an answer is the beginning of its *)
(* question's row.                                                           *)
BatchInv ==
    /\ phase \in {"build", "run", "answer", "done", "panic"}
    /\ \E n \in Nat \ {0} : asked \in [1..n -> Questions \X States]
    /\ items \in Seq(Item) /\ Len(items) <= Len(asked)
    /\ \A i \in DOMAIN items : items[i] = Build(asked[i][1], asked[i][2])
    /\ phase # "build" <=> Len(items) = Len(asked)
    /\ phase \in {"build", "run"} => answered = <<>>
    /\ phase \notin {"build", "run"} => tensors = Filled
    /\ phase = "answer" => Len(answered) < Len(asked)
    /\ answered \in Seq(Answers) /\ Len(answered) <= Len(asked)
    /\ \A i \in DOMAIN answered :
           Wanted(i) <= tensors.K /\ answered[i] = SubSeq(Row(i, Wanted(i)), 1, Wanted(i))

(* A batch has one question at least, and each has its shape.                *)
LEMMA BatchIs ==
    ASSUME BatchInv
    PROVE  /\ Len(asked) \in Nat \ {0} /\ DOMAIN asked = 1..Len(asked)
           /\ \A i \in 1..Len(asked) : asked[i][1] \in Shape /\ asked[i][2] \in Nat
           /\ Len(items) \in Nat /\ DOMAIN items = 1..Len(items)
<1>1. PICK n \in Nat \ {0} : asked \in [1..n -> Questions \X States]
  BY DEF BatchInv
<1>2. Len(asked) = n /\ DOMAIN asked = 1..n
  BY <1>1
<1>3. \A i \in 1..n : asked[i][1] \in Questions /\ asked[i][2] \in States
  BY <1>1
<1>4. items \in Seq(Item)
  BY DEF BatchInv
<1>5. \A i \in 1..n : asked[i][1] \in Shape /\ asked[i][2] \in Nat
  BY <1>3, ShapeAssumption DEF Shape
<1>6. Len(items) \in Nat /\ DOMAIN items = 1..Len(items)
  BY <1>4
<1> QED
  BY <1>2, <1>5, <1>6

LEMMA ScoreInitInv == ScoreInit => BatchInv
<1> SUFFICES ASSUME ScoreInit PROVE BatchInv
  OBVIOUS
<1>1. PICK n \in 1..BatchSize : asked \in [1..n -> Questions \X States]
  BY DEF ScoreInit
<1>2. n \in Nat \ {0}
  BY ShapeAssumption
<1>3. Len(asked) = n
  BY <1>1, <1>2
<1>4. items = <<>> /\ answered = <<>> /\ phase = "build"
  BY DEF ScoreInit
<1>5. /\ items \in Seq(Item) /\ Len(items) = 0 /\ DOMAIN items = {}
      /\ answered \in Seq(Answers) /\ Len(answered) = 0 /\ DOMAIN answered = {}
  BY <1>4, EmptySeq
<1> QED
  BY <1>1, <1>2, <1>3, <1>4, <1>5 DEF BatchInv

LEMMA BuildNextInv == BatchInv /\ BuildNext => BatchInv'
<1> SUFFICES ASSUME BatchInv, BuildNext PROVE BatchInv'
  OBVIOUS
<1> DEFINE n == Len(asked)
           m == Len(items) + 1
           b == Build(asked[m][1], asked[m][2])
<1>1. /\ n \in Nat \ {0} /\ m \in 1..n /\ Len(items) \in Nat /\ phase = "build"
      /\ asked[m][1] \in Shape /\ asked[m][2] \in Nat
      /\ items \in Seq(Item) /\ DOMAIN items = 1..Len(items)
  <2>1. phase = "build" /\ Len(items) <= n /\ Len(items) # n /\ items \in Seq(Item)
    BY DEF BatchInv, BuildNext
  <2>2. n \in Nat \ {0} /\ Len(items) \in Nat /\ DOMAIN items = 1..Len(items)
    BY BatchIs
  <2>3. m \in 1..n
    BY <2>1, <2>2
  <2> QED
    BY <2>1, <2>2, <2>3, BatchIs
<1>2. items' = Append(items, b) /\ UNCHANGED <<asked, tensors, answered>>
  BY DEF BuildNext
<1>3. b \in Item
  <2>1. b.ids \in Seq(Token) /\ b.markers \in Seq(Nat)
    BY <1>1, BuildIs
  <2>2. b = [ids |-> b.ids, markers |-> b.markers]
    BY DEF Build
  <2> HIDE DEF b
  <2> QED
    BY <2>1, <2>2 DEF Item
<1> HIDE DEF b
<1>4. /\ items' \in Seq(Item) /\ Len(items') = m /\ DOMAIN items' = 1..m
      /\ \A i \in 1..Len(items) : items'[i] = items[i]
      /\ items'[m] = b
  BY <1>1, <1>2, <1>3, AppendProperties
<1>5. asked' = asked /\ answered' = answered /\ answered = <<>>
  BY <1>1, <1>2 DEF BatchInv
<1>6. \A i \in 1..m : items'[i] = Build(asked'[i][1], asked'[i][2])
  <2>1. \A i \in 1..m : i \in 1..Len(items) \/ i = m
    BY <1>1
  <2> QED
    BY <1>1, <1>4, <1>5, <2>1 DEF BatchInv, b
<1>7. phase' = (IF Len(items') = n THEN "run" ELSE "build")
  BY <1>5 DEF BuildNext
<1>8. /\ phase' \in {"run", "build"} /\ (phase' # "build" <=> Len(items') = Len(asked'))
      /\ Len(items') <= Len(asked')
  BY <1>1, <1>4, <1>5, <1>7
<1>9. answered' = <<>> /\ answered' \in Seq(Answers') /\ Len(answered') = 0 /\ DOMAIN answered' = {}
  BY <1>5, EmptySeq
<1>10. \E k \in Nat \ {0} : asked' \in [1..k -> Questions \X States]
  BY <1>5 DEF BatchInv
<1>11. 0 <= Len(asked')
  BY <1>1, <1>5
<1> QED
  BY <1>4, <1>6, <1>8, <1>9, <1>10, <1>11 DEF BatchInv

LEMMA RunInv == BatchInv /\ Run => BatchInv'
<1> SUFFICES ASSUME BatchInv, Run PROVE BatchInv'
  OBVIOUS
<1>1. phase = "run" /\ phase' = "answer" /\ tensors' = Filled /\ UNCHANGED <<asked, items, answered>>
  BY DEF Run
<1>5. items' = items
  BY <1>1
<1>2. Filled' = Filled
  BY <1>5 DEF Filled, Longest, Packed, Ones, AtLeast, Zero
<1>3. answered' = <<>> /\ answered' \in Seq(Answers') /\ Len(answered') = 0 /\ DOMAIN answered' = {}
  BY <1>1, EmptySeq DEF BatchInv
<1>4. Len(answered') < Len(asked') /\ Len(answered') <= Len(asked')
  BY <1>1, <1>3, BatchIs
<1> QED
  BY <1>1, <1>2, <1>3, <1>4 DEF BatchInv

LEMMA AnswerNextInv == BatchInv /\ AnswerNext => BatchInv'
<1> SUFFICES ASSUME BatchInv, AnswerNext PROVE BatchInv'
  OBVIOUS
<1> DEFINE m == Len(answered) + 1
           k == Wanted(m)
           a == SubSeq(Row(m, k), 1, k)
<1>1. /\ phase = "answer" /\ k <= tensors.K /\ answered' = Append(answered, a)
      /\ phase' = (IF Len(answered') = Len(asked) THEN "done" ELSE "answer")
      /\ UNCHANGED <<asked, items, tensors>>
  BY DEF AnswerNext, Wanted
<1>2. /\ answered \in Seq(Answers) /\ Len(answered) \in Nat /\ Len(answered) < Len(asked)
      /\ Len(asked) \in Nat /\ m \in 1..Len(asked) /\ DOMAIN answered = 1..Len(answered)
  BY <1>1, BatchIs DEF BatchInv
<1>3. k \in Nat /\ m \in Nat
  <2>1. asked[m][1] \in Shape
    BY <1>2, BatchIs
  <2>2. Len(asked[m][1].options) \in Nat
    BY <2>1 DEF Shape
  <2> QED
    BY <1>2, <2>2 DEF Wanted, AtLeast
<1>4. a \in Answers
  <2>1. ASSUME NEW c \in Nat PROVE SubSeq(Row(m, c), 1, c) \in Answers
    BY <1>3 DEF Answers
  <2> QED
    BY <1>3, <2>1
<1>5. Answers' = Answers /\ Filled' = Filled /\ \A i, c : Row(i, c)' = Row(i, c)
  BY <1>1 DEF Answers, Row, Logit, Filled, Longest, Packed, Ones, AtLeast, Zero
<1>6. \A i : Wanted(i)' = Wanted(i)
  BY <1>1 DEF Wanted, AtLeast
<1> HIDE DEF a
<1>7. /\ answered' \in Seq(Answers) /\ Len(answered') = m /\ DOMAIN answered' = 1..m
      /\ \A i \in 1..Len(answered) : answered'[i] = answered[i]
      /\ answered'[m] = a
  BY <1>1, <1>2, <1>4, AppendProperties
<1>8. ASSUME NEW i \in 1..m
      PROVE  /\ Wanted(i)' <= tensors'.K
             /\ answered'[i] = SubSeq(Row(i, Wanted(i))', 1, Wanted(i)')
  <2>1. Row(i, Wanted(i))' = Row(i, Wanted(i)) /\ Wanted(i)' = Wanted(i)
    BY <1>1, <1>6 DEF Row, Logit
  <2>2. CASE i = m
    BY <1>1, <1>7, <2>1, <2>2 DEF a
  <2>3. CASE i # m
    <3>1. i \in 1..Len(answered)
      BY <1>2, <2>3
    <3> QED
      BY <1>1, <1>2, <1>7, <2>1, <3>1 DEF BatchInv
  <2> QED
    BY <2>2, <2>3
<1>9. /\ phase' \in {"answer", "done"} /\ Len(answered') <= Len(asked')
      /\ phase' = "answer" => Len(answered') < Len(asked')
  BY <1>1, <1>2, <1>7
<1> QED
  BY <1>1, <1>5, <1>7, <1>8, <1>9 DEF BatchInv

LEMMA QuietInv ==
    BatchInv /\ (RowTooShort \/ UNCHANGED scoreVars) => BatchInv'
<1> SUFFICES ASSUME BatchInv, RowTooShort \/ UNCHANGED scoreVars PROVE BatchInv'
  OBVIOUS
<1>1. UNCHANGED <<asked, items, tensors, answered>>
  BY DEF RowTooShort, scoreVars
<1>2. phase' = phase \/ (phase = "answer" /\ phase' = "panic")
  BY DEF RowTooShort, scoreVars
<1>3. Answers' = Answers /\ Filled' = Filled
  BY <1>1 DEF Answers, Row, Logit, Filled, Longest, Packed, Ones, AtLeast, Zero
<1>4. ASSUME NEW i \in DOMAIN answered
      PROVE  /\ Wanted(i)' <= tensors'.K
             /\ answered'[i] = SubSeq(Row(i, Wanted(i))', 1, Wanted(i)')
  <2>1. Row(i, Wanted(i))' = Row(i, Wanted(i)) /\ Wanted(i)' = Wanted(i)
    BY <1>1 DEF Row, Logit, Wanted, AtLeast
  <2> QED
    BY <1>1, <2>1 DEF BatchInv
<1> QED
  BY <1>1, <1>2, <1>3, <1>4 DEF BatchInv

(* In every reachable state of scoring, for every batch, room and option     *)
(* count: the invariant above holds.                                         *)
THEOREM BatchInvariant == ScoreSpec => []BatchInv
<1>1. BatchInv /\ [ScoreNext]_scoreVars => BatchInv'
  BY BuildNextInv, RunInv, AnswerNextInv, QuietInv DEF ScoreNext, ScoreRest
<1> QED
  BY ScoreInitInv, <1>1, PTL DEF ScoreSpec

-----------------------------------------------------------------------------

LEMMA FillsRoom == BatchInv => StateFillsRoom
<1> SUFFICES ASSUME BatchInv, NEW i \in DOMAIN items, Len(Header(asked[i][1])) < MaxLen
             PROVE  /\ items[i].ids[Len(items[i].ids)] = <<"sep">>
                    /\ Len(items[i].ids) = AtMost(MaxLen, Len(Header(asked[i][1])) + asked[i][2] + 1)
  BY DEF StateFillsRoom
<1>1. asked[i][1] \in Shape /\ asked[i][2] \in Nat /\ items[i] = Build(asked[i][1], asked[i][2])
  <2>1. i \in 1..Len(asked)
    BY BatchIs DEF BatchInv
  <2> QED
    BY <2>1, BatchIs DEF BatchInv
<1> QED
  BY <1>1, BuildIs

(* StateFillsRoom: BuildSequence of sequence.go cuts a state only as far as  *)
(* MaxLen requires, and never the separator behind it, for states and        *)
(* options of any length.                                                    *)
THEOREM StateFills == ScoreSpec => []StateFillsRoom
  BY BatchInvariant, FillsRoom, PTL

(* What is packed of the batch.                                              *)
LEMMA FilledIs ==
    ASSUME BatchInv, Len(items) = Len(asked)
    PROVE  LET n == Len(asked)
               f == Filled
           IN  /\ f.L \in Nat /\ f.K \in Nat \ {0}
               /\ \A i \in 1..n : Len(items[i].markers) <= f.K /\ Len(items[i].ids) <= f.L
               /\ f.ids = Packed(Ids, f.L, Zero)
               /\ f.mpos = Packed(Marks, f.K, 0)
               /\ f.mmask = Packed(Ones(Marks), f.K, 0)
<1> DEFINE n == Len(asked)
<1>1. n \in Nat \ {0} /\ DOMAIN items = 1..n
  BY BatchIs
<1>2. \A i \in 1..n : items[i] \in Item
  BY <1>1 DEF BatchInv
<1>3. /\ DOMAIN Ids = 1..n /\ DOMAIN Marks = 1..n
      /\ \A i \in 1..n : /\ Ids[i] = items[i].ids /\ Marks[i] = items[i].markers
                         /\ Len(Ids[i]) \in Nat /\ Len(Marks[i]) \in Nat
  BY <1>1, <1>2 DEF Ids, Marks, Item
<1> DEFINE L == Longest(Ids)
           W == AtLeast(1, Longest(Marks))
<1> HIDE DEF n
<1>4. L \in Nat /\ \A i \in 1..n : Len(Ids[i]) <= L
  BY <1>1, <1>3, LongestIs
<1>5. Longest(Marks) \in Nat /\ \A i \in 1..n : Len(Marks[i]) <= Longest(Marks)
  BY <1>1, <1>3, LongestIs
<1>6. W \in Nat \ {0} /\ \A i \in 1..n : Len(Marks[i]) <= W
  BY <1>3, <1>5 DEF AtLeast
<1>7. /\ Filled.L = L /\ Filled.K = W
      /\ Filled.ids = Packed(Ids, L, Zero)
      /\ Filled.mpos = Packed(Marks, W, 0)
      /\ Filled.mmask = Packed(Ones(Marks), W, 0)
  BY DEF Filled, Ids, Marks
<1> HIDE DEF L, W
<1> QED
  BY <1>3, <1>4, <1>6, <1>7 DEF n

(* The logit of a marker is that of the token it points at.                  *)
LEMMA LogitIs ==
    ASSUME BatchInv, Len(items) = Len(asked), tensors = Filled,
           NEW i \in 1..Len(asked), NEW j \in 1..Len(items[i].markers),
           items[i].markers[j] < Len(items[i].ids)
    PROVE  Logit((i - 1) * tensors.K + j - 1)
               = <<i, items[i].ids[items[i].markers[j] + 1]>>
<1> DEFINE n == Len(asked)
           L == tensors.L
           W == tensors.K
           ids == items[i].ids
           marks == items[i].markers
           p == (i - 1) * W + j - 1
<1>1. n \in Nat \ {0} /\ DOMAIN items = 1..n /\ i \in 1..n
  BY BatchIs
<1>2. \A h \in 1..n : items[h] \in Item
  BY <1>1 DEF BatchInv
<1>3. /\ L \in Nat /\ W \in Nat \ {0}
      /\ \A h \in 1..n : Len(items[h].markers) <= W /\ Len(items[h].ids) <= L
      /\ tensors.ids = Packed(Ids, L, Zero)
      /\ tensors.mpos = Packed(Marks, W, 0)
      /\ tensors.mmask = Packed(Ones(Marks), W, 0)
  BY FilledIs
<1>4. /\ DOMAIN Ids = 1..n /\ DOMAIN Marks = 1..n /\ DOMAIN Ones(Marks) = 1..n
      /\ \A h \in 1..n : /\ Ids[h] = items[h].ids /\ Marks[h] = items[h].markers
                         /\ Ids[h] \in Seq(Token) /\ Marks[h] \in Seq(Nat)
                         /\ Ones(Marks)[h] = [x \in DOMAIN Marks[h] |-> 1]
  BY <1>1, <1>2 DEF Ids, Marks, Item, Ones
<1>5. \A h \in 1..n : Len(Ones(Marks)[h]) = Len(Marks[h])
  BY <1>4
<1>6. \A h \in 1..n : /\ Len(Ids[h]) \in 0..L /\ Len(Marks[h]) \in 0..W
                      /\ Len(Ones(Marks)[h]) \in 0..W
  <2> TAKE h \in 1..n
  <2>1. Len(Ids[h]) \in Nat /\ Len(Marks[h]) \in Nat
    BY <1>4
  <2>2. Len(Ids[h]) <= L /\ Len(Marks[h]) <= W
    BY <1>3, <1>4
  <2> HIDE DEF L, W
  <2> QED
    BY <1>3, <1>5, <2>1, <2>2
<1>7. Len(Ids) = n /\ Len(Marks) = n /\ Len(Ones(Marks)) = n
  BY <1>1, <1>4 DEF Ids, Marks, Ones
<1>8. ids = Ids[i] /\ marks = Marks[i] /\ ids \in Seq(Token) /\ marks \in Seq(Nat) /\ j \in 1..Len(marks)
  BY <1>1, <1>4
<1>9. marks[j] \in 0..(Len(ids) - 1) /\ j - 1 \in 0..(Len(marks) - 1) /\ Len(marks) \in 0..W
  BY <1>1, <1>6, <1>8
<1> HIDE DEF ids, marks, n, L, W
<1>19. Rows(Ids, n, L) /\ Rows(Marks, n, W) /\ Rows(Ones(Marks), n, W)
  BY <1>1, <1>3, <1>4, <1>6, <1>7 DEF Rows
<1>10. tensors.mpos[At(i, W, j - 1)] = marks[(j - 1) + 1]
  BY <1>1, <1>3, <1>8, <1>9, <1>19, PackedRow
<1>11. tensors.mmask[At(i, W, j - 1)] = Ones(Marks)[i][(j - 1) + 1]
  <2> DEFINE r == Ones(Marks)
  <2>1. j - 1 \in 0..(Len(r[i]) - 1) /\ tensors.mmask = Packed(r, W, 0) /\ Rows(r, n, W)
    BY <1>1, <1>3, <1>5, <1>8, <1>9, <1>19
  <2>2. i \in 1..n /\ n \in Nat \ {0} /\ W \in Nat \ {0}
    BY <1>1, <1>3
  <2> HIDE DEF r
  <2>3. Packed(r, W, 0)[At(i, W, j - 1)] = r[i][(j - 1) + 1]
    BY <2>1, <2>2, PackedRow
  <2> QED
    BY <2>1, <2>3 DEF r
<1>12. tensors.ids[At(i, L, marks[j])] = ids[marks[j] + 1]
  <2>1. ASSUME NEW x \in 0..(Len(Ids[i]) - 1) PROVE Packed(Ids, L, Zero)[At(i, L, x)] = Ids[i][x + 1]
    BY <1>1, <1>19, PackedRow
  <2>2. ids = Ids[i] /\ marks[j] \in 0..(Len(Ids[i]) - 1)
    BY <1>8, <1>9
  <2> HIDE DEF ids
  <2> QED
    BY <1>3, <2>1, <2>2
<1>13. p = (i - 1) * W + (j - 1) /\ (j - 1) + 1 = j /\ i - 1 \in Nat /\ j - 1 \in 0..(W - 1)
       /\ (i - 1) + 1 = i
  BY <1>1, <1>3, <1>8, <1>9
<1>14. Ones(Marks)[i][j] = 1
  <2>1. j \in DOMAIN Marks[i]
    BY <1>8
  <2>2. Ones(Marks)[i] = [x \in DOMAIN Marks[i] |-> 1]
    BY <1>1, <1>4
  <2> QED
    BY <2>1, <2>2
<1>15. p \div W = i - 1
  BY <1>3, <1>13, RowIs
<1>20. At(i, W, j - 1) = p
  BY <1>13 DEF At
<1>16. tensors.mmask[p] = 1 /\ tensors.mpos[p] = marks[j]
  BY <1>10, <1>11, <1>13, <1>14, <1>20
<1>17. Logit(p) = <<(p \div W) + 1, tensors.ids[(p \div W) * L + tensors.mpos[p]]>>
  BY <1>16 DEF Logit, W, L
<1>18. Logit(p) = <<i, ids[marks[j] + 1]>>
  BY <1>12, <1>13, <1>15, <1>16, <1>17 DEF At
<1> QED
  BY <1>18 DEF ids, marks, W

LEMMA ScoredApart == BatchInv => OptionsScoredApart
<1> SUFFICES ASSUME BatchInv, NEW i \in DOMAIN answered,
                    Len(items[i].markers) = Len(asked[i][1].options),
                    NEW j \in DOMAIN asked[i][1].options
             PROVE  answered[i][j] = <<i, <<"mask", j>>>>
  BY DEF OptionsScoredApart, ScoredAt
<1> DEFINE q == asked[i][1]
           k == Wanted(i)
           W == tensors.K
<1>1. phase \notin {"build", "run"}
  BY EmptySeq DEF BatchInv
<1>2. Len(items) = Len(asked) /\ tensors = Filled
  BY <1>1 DEF BatchInv
<1>3. i \in 1..Len(asked) /\ k <= W /\ answered[i] = SubSeq(Row(i, k), 1, k)
  <2>1. DOMAIN answered = 1..Len(answered) /\ Len(answered) \in Nat /\ Len(answered) <= Len(asked)
    BY DEF BatchInv
  <2> QED
    BY <2>1, BatchIs DEF BatchInv
<1>4. q \in Shape /\ asked[i][2] \in Nat /\ items[i] = Build(q, asked[i][2])
  BY <1>2, <1>3, BatchIs DEF BatchInv
<1>5. Len(q.options) \in Nat /\ j \in 1..Len(q.options)
  BY <1>4 DEF Shape
<1>6. k \in Nat /\ j \in 1..k
  BY <1>5 DEF Wanted, AtLeast
<1>7. W \in Nat
  BY <1>2, FilledIs
<1>8. items[i].markers[j] < Len(items[i].ids) /\ items[i].ids[items[i].markers[j] + 1] = <<"mask", j>>
  BY <1>4, <1>5, BuildIs
<1>9. Logit((i - 1) * W + j - 1) = <<i, items[i].ids[items[i].markers[j] + 1]>>
  BY <1>2, <1>3, <1>5, <1>8, LogitIs
<1> HIDE DEF k, W
<1>10. Row(i, k)[j] = Logit((i - 1) * W + j - 1) /\ DOMAIN Row(i, k) = 1..W
  BY <1>3, <1>6, <1>7 DEF Row, W
<1>11. SubSeq(Row(i, k), 1, k)[j] = Row(i, k)[j]
  BY <1>3, <1>6, <1>7, <1>10
<1> QED
  BY <1>3, <1>8, <1>9, <1>10, <1>11

(* OptionsScoredApart: the logit that engine.go takes for an option is the   *)
(* one at the option's own mask token, in the row of its own question, for   *)
(* batches of any size and rows of any width.                                *)
THEOREM AnswersApart == ScoreSpec => []OptionsScoredApart
  BY BatchInvariant, ScoredApart, PTL

(* Characters that can be spelled by tokens of the vocabulary                *)
Letters == {c \in Chars : <<c>> \in Vocab \/ (c \in DOMAIN Bytes /\ Bytes[c] \in Seq(Chars))}

LEMMA SmallestOf ==
    ASSUME NEW T \in SUBSET Nat, T # {}
    PROVE  \E i \in T : \A j \in T : i <= j
<1> DEFINE N == {m \in Nat : (\E t \in T : t <= m) => \E i \in T : \A j \in T : i <= j}
<1>1. 0 \in N
  <2>1. ASSUME NEW t \in T, t <= 0 PROVE \A j \in T : t <= j
    BY <2>1
  <2> QED
    BY <2>1
<1>2. ASSUME NEW m \in Nat, m \in N PROVE m + 1 \in N
  <2> SUFFICES ASSUME NEW t \in T, t <= m + 1 PROVE \E i \in T : \A j \in T : i <= j
    OBVIOUS
  <2>1. CASE \E u \in T : u <= m
    BY <1>2, <2>1
  <2>2. CASE ~ \E u \in T : u <= m
    <3>1. \A j \in T : t <= j
      BY <2>2
    <3> QED
      BY <3>1
  <2> QED
    BY <2>1, <2>2
<1> HIDE DEF N
<1>3. PICK t \in T : TRUE
  OBVIOUS
<1>4. t \in N /\ t <= t
  BY <1>1, <1>2, <1>3, NumbersInSet
<1> QED
  BY <1>3, <1>4 DEF N

-----------------------------------------------------------------------------
(* One merge *)

LEMMA JoinedIs ==
    ASSUME NEW u \in Seq(Tokens), NEW h \in 1..(Len(u) - 1)
    PROVE  LET v == JoinedAt(u, h)
           IN  /\ v \in Seq(Tokens) /\ Len(v) = Len(u) - 1
               /\ \A x \in 1..(h - 1) : v[x] = u[x]
               /\ v[h] = u[h] \o u[h + 1]
               /\ \A x \in (h + 1)..(Len(u) - 1) : v[x] = u[x + 1]
<1> DEFINE e == u[h] \o u[h + 1]
<1>1. u[h] \in Tokens /\ u[h + 1] \in Tokens
  OBVIOUS
<1>2. e \in Tokens
  BY <1>1, ConcatProperties, EmptySeq DEF Tokens
<1>3. JoinedAt(u, h) = SubSeq(u, 1, h - 1) \o <<e>> \o SubSeq(u, h + 2, Len(u))
  BY DEF JoinedAt
<1> HIDE DEF e
<1>4. Spliced(JoinedAt(u, h), Tokens, u, Len(u), h, e)
  BY <1>2, <1>3, SplicedIs
<1> QED
  BY <1>4 DEF Spliced, e

(* What a word spells does not change when two symbols are joined.           *)
LEMMA JoinedSpells ==
    ASSUME NEW u \in Seq(Tokens), NEW h \in 1..(Len(u) - 1)
    PROVE  Seqs!FlattenSeq(JoinedAt(u, h)) = Seqs!FlattenSeq(u)
<1> DEFINE a == SubSeq(u, 1, h - 1)
           b == SubSeq(u, h + 2, Len(u))
           c == u[h]
           d == u[h + 1]
           e == c \o d
           S == Seq(Chars)
           F(s) == Seqs!FlattenSeq(s)
<1>1. Len(u) \in Nat /\ h \in Nat /\ h >= 1 /\ h + 1 <= Len(u) /\ \A x \in 1..Len(u) : u[x] \in Tokens
  OBVIOUS
<1>2. u \in Seq(S)
  <2>1. \A x \in 1..Len(u) : u[x] \in S
    BY <1>1 DEF Tokens
  <2> QED
    BY <1>1, <2>1
<1>3. a \in Seq(S) /\ b \in Seq(S) /\ c \in S /\ d \in S
  <2>1. a \in Seq(S)
    BY <1>1, <1>2, CutAt
  <2>2. b \in Seq(S)
    BY <1>1, <1>2, CutAt
  <2>3. c \in S /\ d \in S
    BY <1>1, <1>2
  <2> QED
    BY <2>1, <2>2, <2>3
<1>4. u = ((a \o <<c>>) \o <<d>>) \o b
  BY <1>1, <1>2, ParsedAt
<1>5. JoinedAt(u, h) = (a \o <<e>>) \o b
  BY DEF JoinedAt
<1>6. e \in S
  BY <1>3, ConcatProperties
<1>7. F(<<e>>) = e /\ F(<<c>>) = c /\ F(<<d>>) = d
  BY <1>3, <1>6, FlattenOne
<1>8. e = c \o d
  OBVIOUS
<1>9. <<e>> \in Seq(S) /\ <<c>> \in Seq(S) /\ <<d>> \in Seq(S)
  BY <1>3, <1>6, OneEntry
<1> HIDE DEF a, b, c, d, e
<1>10. ASSUME NEW s \in Seq(S), NEW t \in Seq(S)
       PROVE  s \o t \in Seq(S) /\ F(s \o t) = F(s) \o F(t) /\ F(s) \in S
  BY FlattenConcat, FlattenType, ConcatProperties
<1>11. ASSUME NEW s \in S, NEW t \in S, NEW w \in S PROVE (s \o t) \o w = s \o (t \o w)
  BY ConcatAssociative
<1> HIDE DEF F, S
<1>12. /\ a \o <<e>> \in Seq(S) /\ F(a \o <<e>>) = F(a) \o e
       /\ a \o <<c>> \in Seq(S) /\ F(a \o <<c>>) = F(a) \o c /\ F(a) \in S
  BY <1>3, <1>7, <1>9, <1>10
<1>13. (a \o <<c>>) \o <<d>> \in Seq(S) /\ F((a \o <<c>>) \o <<d>>) = (F(a) \o c) \o d
  <2> DEFINE ac == a \o <<c>>
             D == <<d>>
  <2>1. ac \in Seq(S) /\ F(ac) = F(a) \o c /\ D \in Seq(S) /\ F(D) = d
    BY <1>7, <1>9, <1>12
  <2> HIDE DEF ac, D
  <2>2. ac \o D \in Seq(S) /\ F(ac \o D) = F(ac) \o F(D)
    BY <1>10, <2>1
  <2> QED
    BY <2>1, <2>2 DEF ac, D
<1>14. F(JoinedAt(u, h)) = (F(a) \o e) \o F(b)
  BY <1>3, <1>5, <1>10, <1>12
<1>15. F(u) = ((F(a) \o c) \o d) \o F(b)
  BY <1>3, <1>4, <1>10, <1>13
<1>16. (F(a) \o c) \o d = F(a) \o e
  BY <1>3, <1>8, <1>11, <1>12
<1> QED
  BY <1>14, <1>15, <1>16 DEF F

-----------------------------------------------------------------------------
(* Merging one at a time *)

(* A merge makes tokens longer than its parts.                               *)
LEMMA MergeIs ==
    ASSUME merges \in Merges, NEW r \in DOMAIN merges
    PROVE  /\ DOMAIN merges \subseteq Nat
           /\ merges[r] = <<merges[r][1], merges[r][2]>>
           /\ merges[r][1] \in Tokens /\ merges[r][2] \in Tokens
           /\ merges[r][1] \o merges[r][2] \in Tokens
           /\ Len(merges[r][1] \o merges[r][2]) > Len(merges[r][1])
           /\ Len(merges[r][1] \o merges[r][2]) > Len(merges[r][2])
           /\ Len(merges[r][1] \o merges[r][2]) > 1
<1>1. merges \in Seq(Tokens \X Tokens)
  BY MergeAssumption
<1>2. merges[r] \in Tokens \X Tokens /\ DOMAIN merges \subseteq Nat
  BY <1>1
<1>3. \A s \in Tokens : s \in Seq(Chars) /\ Len(s) \in Nat /\ Len(s) >= 1
  BY EmptySeq DEF Tokens
<1>4. merges[r] = <<merges[r][1], merges[r][2]>> /\ merges[r][1] \in Tokens /\ merges[r][2] \in Tokens
  BY <1>2
<1> DEFINE a == merges[r][1]
           b == merges[r][2]
<1>5. a \in Seq(Chars) /\ b \in Seq(Chars) /\ Len(a) \in Nat /\ Len(b) \in Nat /\ Len(a) >= 1 /\ Len(b) >= 1
  BY <1>3, <1>4
<1> HIDE DEF a, b
<1>6. Len(a \o b) = Len(a) + Len(b)
  BY <1>5, ConcatProperties
<1>7. Len(a \o b) > Len(a) /\ Len(a \o b) > Len(b) /\ Len(a \o b) > 1
  BY <1>5, <1>6
<1>8. a \o b \in Tokens
  <2>1. a \o b \in Seq(Chars)
    BY <1>5, ConcatProperties
  <2>2. a \o b # <<>>
    <3>1. Len(<<>>) = 0
      OBVIOUS
    <3> QED
      BY <1>7, <3>1
  <2> QED
    BY <2>1, <2>2 DEF Tokens
<1> QED
  BY <1>2, <1>4, <1>7, <1>8 DEF a, b

LEMMA OneMergeRests == ASSUME NEW w, Ranked(w) = {} PROVE OneMerge(w) = w
  BY DEF OneMerge

(* The pair of the lowest rank, where it stands leftmost.                    *)
LEMMA OneMergeAt ==
    ASSUME merges \in Merges, NEW w, NEW r \in Ranked(w), \A k \in Ranked(w) : r <= k,
           NEW h \in Places(w, r), \A j \in Places(w, r) : h <= j
    PROVE  OneMerge(w) = JoinedAt(w, h)
<1> DEFINE m == CHOOSE k \in Ranked(w) : \A j \in Ranked(w) : k <= j
           p == CHOOSE j \in Places(w, r) : \A i \in Places(w, r) : j <= i
<1>1. \A k \in Ranked(w) : k \in Nat
  <2>1. DOMAIN merges \subseteq Nat
    BY MergeAssumption
  <2> QED
    BY <2>1 DEF Ranked, Ranks
<1>2. m \in Ranked(w) /\ \A j \in Ranked(w) : m <= j
  OBVIOUS
<1>3. m = r
  BY <1>1, <1>2
<1>4. p \in Places(w, r) /\ \A i \in Places(w, r) : p <= i
  OBVIOUS
<1>5. Places(w, r) \subseteq Int
  BY DEF Places
<1>6. p = h
  BY <1>4, <1>5
<1>7. OneMerge(w) = JoinedAt(w, CHOOSE j \in Places(w, m) : \A i \in Places(w, m) : j <= i)
  BY DEF OneMerge
<1> QED
  BY <1>3, <1>6, <1>7

LEMMA OneMergeIs ==
    ASSUME merges \in Merges, NEW w \in Seq(Tokens), Ranked(w) # {}
    PROVE  OneMerge(w) \in Seq(Tokens) /\ Len(OneMerge(w)) = Len(w) - 1
<1>1. DOMAIN merges \subseteq Nat
  BY MergeAssumption
<1>2. Ranked(w) \subseteq Nat
  BY <1>1 DEF Ranked, Ranks
<1>3. PICK r \in Ranked(w) : \A k \in Ranked(w) : r <= k
  BY <1>2, SmallestOf
<1>4. Places(w, r) # {} /\ Places(w, r) \subseteq Nat
  BY DEF Ranked, Places
<1>5. PICK h \in Places(w, r) : \A j \in Places(w, r) : h <= j
  BY <1>4, SmallestOf
<1>6. OneMerge(w) = JoinedAt(w, h) /\ h \in 1..(Len(w) - 1)
  BY <1>3, <1>5, OneMergeAt DEF Places
<1> QED
  BY <1>6, JoinedIs

LEMMA RoundsAgree ==
    ASSUME NEW n \in Nat, NEW f, NEW g, f[0] = g[0],
           \A i \in 1..n : f[i] = OneMerge(f[i - 1]) /\ g[i] = OneMerge(g[i - 1])
    PROVE  f[n] = g[n]
<1> DEFINE N == {m \in Nat : m <= n => f[m] = g[m]}
<1>1. 0 \in N
  OBVIOUS
<1>2. ASSUME NEW m \in Nat, m \in N PROVE m + 1 \in N
  <2> SUFFICES ASSUME m + 1 <= n PROVE f[m + 1] = g[m + 1]
    OBVIOUS
  <2>1. m + 1 \in 1..n /\ (m + 1) - 1 = m /\ m <= n
    OBVIOUS
  <2>2. f[m] = g[m]
    BY <1>2, <2>1
  <2>3. f[m + 1] = OneMerge(f[m]) /\ g[m + 1] = OneMerge(g[m])
    BY <2>1
  <2> QED
    BY <2>2, <2>3
<1> HIDE DEF N
<1>3. n \in N
  BY <1>1, <1>2, NumbersInSet
<1> QED
  BY <1>3 DEF N

LEMMA RoundsIs ==
    ASSUME merges \in Merges, NEW w \in Seq(Tokens), NEW n, n = Len(w), NEW g, g = Rounds(w)
    PROVE  /\ g[0] = w /\ \A i \in 1..n : g[i] = OneMerge(g[i - 1])
           /\ \A i \in 0..n : g[i] \in Seq(Tokens)
<1> DEFINE B == Seq(Tokens)
           d == [i \in Nat |-> [x \in B |-> OneMerge(x)]]
           f == Stepwise(w, d, n)
           c == CHOOSE c : c = [m \in 0..n |-> IF m = 0 THEN w ELSE OneMerge(c[m - 1])]
<1>1. g = c
  BY DEF Rounds
<1>2. n \in Nat
  OBVIOUS
<1>3. ASSUME NEW x \in B PROVE OneMerge(x) \in B
  BY OneMergeIs, OneMergeRests
<1>4. d \in [Nat -> [B -> B]] /\ \A i \in Nat, x \in B : d[i][x] = OneMerge(x)
  BY <1>3
<1>5. w \in B
  OBVIOUS
<1> HIDE DEF d, B
<1>6. Steps(B, w, d, n)
  BY <1>2, <1>4, <1>5 DEF Steps
<1>7. Follows(f, B, w, d, n)
  BY <1>6, StepwiseIs
<1> HIDE DEF f
<1>8. f \in [0..n -> B] /\ f[0] = w /\ \A i \in 1..n : f[i] = d[i][f[i - 1]]
  BY <1>7 DEF Follows
<1>9. ASSUME NEW i \in 0..n, i # 0 PROVE f[i] = OneMerge(f[i - 1])
  <2>1. i \in 1..n /\ i - 1 \in 0..n /\ i \in Nat
    BY <1>2, <1>9
  <2> QED
    BY <1>4, <1>8, <2>1
<1>10. f = [m \in 0..n |-> IF m = 0 THEN w ELSE OneMerge(f[m - 1])]
  BY <1>8, <1>9
<1>11. c = [m \in 0..n |-> IF m = 0 THEN w ELSE OneMerge(c[m - 1])]
  BY <1>10
<1> HIDE DEF c
<1>12. g = [m \in 0..n |-> IF m = 0 THEN w ELSE OneMerge(g[m - 1])]
  BY <1>1, <1>11
<1>13. g[0] = w /\ \A i \in 1..n : g[i] = OneMerge(g[i - 1])
  BY <1>2, <1>12
<1> DEFINE N == {m \in Nat : m <= n => g[m] \in B}
<1>14. 0 \in N
  BY <1>5, <1>13
<1>15. ASSUME NEW m \in Nat, m \in N PROVE m + 1 \in N
  <2> SUFFICES ASSUME m + 1 <= n PROVE g[m + 1] \in B
    OBVIOUS
  <2>1. m + 1 \in 1..n /\ (m + 1) - 1 = m /\ m <= n
    BY <1>2
  <2>2. g[m] \in B /\ g[m + 1] = OneMerge(g[m])
    BY <1>13, <1>15, <2>1
  <2> QED
    BY <1>3, <2>2
<1> HIDE DEF N
<1>16. Nat \subseteq N
  BY <1>14, <1>15, NumbersInSet
<1>17. \A i \in 0..n : g[i] \in B
  BY <1>2, <1>16 DEF N
<1> QED
  BY <1>13, <1>17 DEF B

(* The first merge may be made beforehand.                                   *)
LEMMA OneByOneStep ==
    ASSUME merges \in Merges, NEW w \in Seq(Tokens)
    PROVE  OneByOne(OneMerge(w)) = OneByOne(w)
<1>1. CASE Ranked(w) = {}
  BY <1>1, OneMergeRests
<1>2. CASE Ranked(w) # {}
  <2> DEFINE v == OneMerge(w)
             n == Len(w)
             m == n - 1
  <2>1. v \in Seq(Tokens) /\ Len(v) = m /\ n \in Nat /\ m \in Nat /\ m + 1 = n
    <3>1. v \in Seq(Tokens) /\ Len(v) = m /\ n \in Nat
      BY <1>2, OneMergeIs
    <3>2. Len(v) \in Nat
      BY <3>1
    <3> QED
      BY <3>1, <3>2
  <2>2. n = Len(w) /\ v = OneMerge(w)
    OBVIOUS
  <2> HIDE DEF v, n, m
  <2> DEFINE f == Rounds(w)
             g == Rounds(v)
  <2>3. f[0] = w /\ (\A i \in 1..n : f[i] = OneMerge(f[i - 1])) /\ OneByOne(w) = f[n]
    BY <2>2, RoundsIs DEF OneByOne
  <2>4. g[0] = v /\ (\A i \in 1..m : g[i] = OneMerge(g[i - 1])) /\ OneByOne(v) = g[m]
    BY <2>1, RoundsIs DEF OneByOne
  <2> HIDE DEF f, g
  <2> DEFINE h == [i \in 0..m |-> f[i + 1]]
  <2>5. h[0] = g[0]
    <3>1. 1 \in 1..n /\ f[1] = OneMerge(f[0])
      BY <2>1, <2>3
    <3> QED
      BY <2>1, <2>2, <2>3, <2>4, <3>1
  <2>6. \A i \in 1..m : h[i] = OneMerge(h[i - 1])
    <3> TAKE i \in 1..m
    <3>1. i + 1 \in 1..n /\ (i + 1) - 1 = i /\ i \in 0..m /\ i - 1 \in 0..m /\ (i - 1) + 1 = i
      BY <2>1
    <3> QED
      BY <2>3, <3>1
  <2>7. h[m] = f[n]
    BY <2>1
  <2> HIDE DEF h
  <2>8. h[m] = g[m]
    BY <2>1, <2>4, <2>5, <2>6, RoundsAgree
  <2> QED
    BY <2>2, <2>3, <2>4, <2>7, <2>8
<1> QED
  BY <1>1, <1>2

-----------------------------------------------------------------------------
(* Parts of a word                                                           *)

(* A part of a word in which two entries are joined is a part of the word    *)
(* before, or has the two in it.                                             *)
JoinedParts(v, u, h, i, j) ==
    /\ h < i => SubSeq(v, i, j) = SubSeq(u, i + 1, j + 1)
    /\ h > j => SubSeq(v, i, j) = SubSeq(u, i, j)
    /\ h \in i..j => SubSeq(v, i, j) = JoinedAt(SubSeq(u, i, j + 1), h - i + 1)

PartAt(p, u, i, n) == p \in Seq(Tokens) /\ Len(p) = n /\ \A x \in 1..n : p[x] = u[i + x - 1]

LEMMA PartIs ==
    ASSUME NEW u \in Seq(Tokens), NEW i \in 1..Len(u), NEW j \in i..Len(u)
    PROVE  PartAt(SubSeq(u, i, j), u, i, j - i + 1)
<1>1. i \in Nat \ {0} /\ j \in Nat /\ i <= j + 1 /\ j <= Len(u) /\ Len(u) \in Nat
  OBVIOUS
<1> QED
  BY <1>1, CutAt DEF PartAt

LEMMA JoinedPartsAre ==
    ASSUME NEW u \in Seq(Tokens), NEW h \in 1..(Len(u) - 1), NEW v, v = JoinedAt(u, h),
           NEW i \in 1..(Len(u) - 1), NEW j \in i..(Len(u) - 1)
    PROVE  JoinedParts(v, u, h, i, j)
<1> DEFINE m == Len(u)
           p == SubSeq(v, i, j)
           n == j - i + 1
<1>1. m \in Nat /\ h \in Nat /\ h >= 1 /\ h <= m - 1 /\ i \in Nat /\ i >= 1 /\ j \in Nat /\ i <= j /\ j <= m - 1
  OBVIOUS
<1>2. /\ v \in Seq(Tokens) /\ Len(v) = m - 1
      /\ \A x \in 1..(h - 1) : v[x] = u[x]
      /\ v[h] = u[h] \o u[h + 1]
      /\ \A x \in (h + 1)..(m - 1) : v[x] = u[x + 1]
  BY JoinedIs
<1>3. PartAt(p, v, i, n)
  <2>1. i \in 1..Len(v) /\ j \in i..Len(v)
    BY <1>1, <1>2
  <2> QED
    BY <1>2, <2>1, PartIs
<1>4. n \in Nat /\ p \in Seq(Tokens) /\ Len(p) = n /\ \A x \in 1..n : p[x] = v[i + x - 1]
  BY <1>1, <1>3 DEF PartAt
<1> HIDE DEF m, p
<1>5. CASE h < i
  <2> DEFINE q == SubSeq(u, i + 1, j + 1)
  <2>1. PartAt(q, u, i + 1, n)
    <3>1. i + 1 \in 1..Len(u) /\ j + 1 \in (i + 1)..Len(u) /\ (j + 1) - (i + 1) + 1 = n
      BY <1>1 DEF m
    <3>2. PartAt(q, u, i + 1, (j + 1) - (i + 1) + 1)
      BY <3>1, PartIs
    <3> QED
      BY <3>1, <3>2
  <2>2. q \in Seq(Tokens) /\ Len(q) = n /\ \A x \in 1..n : q[x] = u[(i + 1) + x - 1]
    BY <2>1 DEF PartAt
  <2> HIDE DEF q
  <2>3. ASSUME NEW x \in 1..n PROVE p[x] = q[x]
    <3>1. i + x - 1 \in (h + 1)..(m - 1) /\ (i + x - 1) + 1 = (i + 1) + x - 1
      BY <1>1, <1>5
    <3>2. v[i + x - 1] = u[(i + x - 1) + 1]
      BY <1>2, <3>1
    <3> QED
      BY <1>4, <2>2, <3>1, <3>2
  <2>4. p = q
    BY <1>4, <2>2, <2>3, SeqEqual
  <2>5. ~ (h > j) /\ h \notin i..j
    BY <1>1, <1>5
  <2> QED
    BY <2>4, <2>5 DEF JoinedParts, p, q
<1>6. CASE h > j
  <2> DEFINE q == SubSeq(u, i, j)
  <2>1. PartAt(q, u, i, n)
    <3>1. i \in 1..Len(u) /\ j \in i..Len(u)
      BY <1>1 DEF m
    <3> QED
      BY <3>1, PartIs
  <2>2. q \in Seq(Tokens) /\ Len(q) = n /\ \A x \in 1..n : q[x] = u[i + x - 1]
    BY <2>1 DEF PartAt
  <2> HIDE DEF q
  <2>3. ASSUME NEW x \in 1..n PROVE p[x] = q[x]
    <3>1. i + x - 1 \in 1..(h - 1)
      BY <1>1, <1>6
    <3>2. v[i + x - 1] = u[i + x - 1]
      BY <1>2, <3>1
    <3> QED
      BY <1>4, <2>2, <3>2
  <2>4. p = q
    BY <1>4, <2>2, <2>3, SeqEqual
  <2>5. ~ (h < i) /\ h \notin i..j
    BY <1>1, <1>6
  <2> QED
    BY <2>4, <2>5 DEF JoinedParts, p, q
<1>7. CASE h \in i..j
  <2> DEFINE q == SubSeq(u, i, j + 1)
             g == h - i + 1
             y == JoinedAt(q, g)
  <2>1. PartAt(q, u, i, n + 1)
    <3>1. i \in 1..Len(u) /\ j + 1 \in i..Len(u) /\ (j + 1) - i + 1 = n + 1
      BY <1>1 DEF m
    <3>2. PartAt(q, u, i, (j + 1) - i + 1)
      BY <3>1, PartIs
    <3> QED
      BY <3>1, <3>2
  <2>2. q \in Seq(Tokens) /\ Len(q) = n + 1 /\ \A x \in 1..(n + 1) : q[x] = u[i + x - 1]
    BY <2>1 DEF PartAt
  <2>3. g \in Nat /\ g >= 1 /\ g <= n /\ g + 1 <= n + 1 /\ g \in 1..((n + 1) - 1)
    BY <1>1, <1>7
  <2> HIDE DEF q
  <2>4. /\ y \in Seq(Tokens) /\ Len(y) = n
        /\ \A x \in 1..(g - 1) : y[x] = q[x]
        /\ y[g] = q[g] \o q[g + 1]
        /\ \A x \in (g + 1)..n : y[x] = q[x + 1]
    <3>1. g \in 1..(Len(q) - 1) /\ Len(q) - 1 = n
      BY <1>4, <2>2, <2>3
    <3>2. /\ y \in Seq(Tokens) /\ Len(y) = Len(q) - 1
          /\ \A x \in 1..(g - 1) : y[x] = q[x]
          /\ y[g] = q[g] \o q[g + 1]
          /\ \A x \in (g + 1)..(Len(q) - 1) : y[x] = q[x + 1]
      BY <2>2, <3>1, JoinedIs
    <3> QED
      BY <3>1, <3>2
  <2> HIDE DEF y
  <2>5. ASSUME NEW x \in 1..n PROVE p[x] = y[x]
    <3>1. CASE x \in 1..(g - 1)
      <4>1. i + x - 1 \in 1..(h - 1) /\ x \in 1..(n + 1)
        BY <1>1, <2>3, <3>1
      <4>2. v[i + x - 1] = u[i + x - 1] /\ q[x] = u[i + x - 1]
        BY <1>2, <2>2, <4>1
      <4> QED
        BY <1>4, <2>4, <3>1, <4>2
    <3>2. CASE x = g
      <4>1. i + x - 1 = h /\ g \in 1..(n + 1) /\ g + 1 \in 1..(n + 1) /\ i + g - 1 = h /\ i + (g + 1) - 1 = h + 1
        BY <1>1, <2>3, <3>2
      <4>2. q[g] = u[h] /\ q[g + 1] = u[h + 1]
        BY <2>2, <4>1
      <4> QED
        BY <1>2, <1>4, <2>4, <3>2, <4>1, <4>2
    <3>3. CASE x \in (g + 1)..n
      <4>1. /\ i + x - 1 \in (h + 1)..(m - 1) /\ x + 1 \in 1..(n + 1)
            /\ i + (x + 1) - 1 = (i + x - 1) + 1
        BY <1>1, <2>3, <3>3
      <4>2. v[i + x - 1] = u[(i + x - 1) + 1]
        BY <1>2, <4>1
      <4>3. q[x + 1] = u[(i + x - 1) + 1]
        <5>1. q[x + 1] = u[i + (x + 1) - 1]
          BY <2>2, <4>1
        <5> QED
          BY <4>1, <5>1
      <4> QED
        BY <1>4, <2>4, <3>3, <4>2, <4>3
    <3> QED
      BY <1>1, <2>3, <3>1, <3>2, <3>3
  <2>6. p = y
    BY <1>4, <2>4, <2>5, SeqEqual
  <2>7. ~ (h < i) /\ ~ (h > j)
    BY <1>1, <1>7
  <2> QED
    BY <2>6, <2>7 DEF JoinedParts, p, y, q
<1> QED
  BY <1>1, <1>5, <1>6, <1>7

(* Where a pair stands in a part, it stands in the word.                     *)
LEMMA PlacesOfPart ==
    ASSUME NEW u \in Seq(Tokens), NEW i \in 1..Len(u), NEW j \in i..Len(u), NEW k
    PROVE  \A x \in Int : x \in Places(SubSeq(u, i, j), k)
                             <=> x >= 1 /\ i + x - 1 < j /\ i + x - 1 \in Places(u, k)
<1> DEFINE p == SubSeq(u, i, j)
           n == j - i + 1
<1>1. PartAt(p, u, i, n)
  BY PartIs
<1>2. Len(p) = n /\ \A x \in 1..n : p[x] = u[i + x - 1]
  BY <1>1 DEF PartAt
<1>3. i \in Nat /\ j \in Nat /\ i >= 1 /\ i <= j /\ j <= Len(u) /\ Len(u) \in Nat
  OBVIOUS
<1> HIDE DEF p
<1>4. ASSUME NEW x \in Int
      PROVE  x \in Places(p, k) <=> x >= 1 /\ i + x - 1 < j /\ i + x - 1 \in Places(u, k)
  <2>1. x \in 1..(Len(p) - 1) <=> x >= 1 /\ i + x - 1 < j
    BY <1>2, <1>3
  <2>2. ASSUME x >= 1, i + x - 1 < j
        PROVE  <<p[x], p[x + 1]>> = <<u[i + x - 1], u[(i + x - 1) + 1]>> /\ i + x - 1 \in 1..(Len(u) - 1)
    <3>1. x \in 1..n /\ x + 1 \in 1..n /\ i + (x + 1) - 1 = (i + x - 1) + 1 /\ i + x - 1 \in 1..(Len(u) - 1)
      BY <1>3, <2>2
    <3>2. p[x] = u[i + x - 1] /\ p[x + 1] = u[i + (x + 1) - 1]
      BY <1>2, <3>1
    <3> QED
      BY <3>1, <3>2
  <2> QED
    BY <2>1, <2>2 DEF Places
<1> QED
  BY <1>4 DEF p

(* The merge that comes next in a word comes next in a part that has it.     *)
LEMMA PartMerges ==
    ASSUME merges \in Merges, NEW u \in Seq(Tokens),
           NEW r \in Ranked(u), \A k \in Ranked(u) : r <= k,
           NEW h \in Places(u, r), \A x \in Places(u, r) : h <= x,
           NEW i \in 1..Len(u), NEW j \in i..Len(u), i <= h, h < j
    PROVE  LET p == SubSeq(u, i, j)
           IN  /\ OneMerge(p) = JoinedAt(p, h - i + 1) /\ r \in Ranked(p)
               /\ Ranked(p) \subseteq Ranked(u) /\ h - i + 1 \in 1..(Len(p) - 1)
<1> DEFINE p == SubSeq(u, i, j)
           g == h - i + 1
<1>1. i \in Nat /\ j \in Nat /\ i >= 1 /\ h \in Int /\ g \in Int /\ g >= 1 /\ i + g - 1 = h
  BY DEF Places
<1>2. ASSUME NEW k, NEW x \in Int
      PROVE  x \in Places(p, k) <=> x >= 1 /\ i + x - 1 < j /\ i + x - 1 \in Places(u, k)
  BY PlacesOfPart
<1> HIDE DEF p
<1>3. \A k : Places(p, k) \subseteq Int
  BY DEF Places
<1>4. Ranked(p) \subseteq Ranked(u)
  <2> SUFFICES ASSUME NEW k \in Ranked(p) PROVE k \in Ranked(u)
    OBVIOUS
  <2>1. k \in Ranks
    BY DEF Ranked
  <2>2. PICK x \in Places(p, k) : TRUE
    BY DEF Ranked
  <2>3. i + x - 1 \in Places(u, k)
    BY <1>2, <1>3, <2>2
  <2> QED
    BY <2>1, <2>3 DEF Ranked
<1> HIDE DEF g
<1>5. g \in Places(p, r)
  BY <1>1, <1>2
<1>6. r \in Ranked(p)
  <2>1. r \in Ranks
    BY DEF Ranked
  <2> QED
    BY <1>5, <2>1 DEF Ranked
<1>7. ASSUME NEW x \in Places(p, r) PROVE g <= x
  <2>1. x \in Int /\ i + x - 1 \in Places(u, r)
    BY <1>2, <1>3
  <2>2. h <= i + x - 1
    BY <2>1
  <2> QED
    BY <1>1, <2>1, <2>2
<1>8. \A k \in Ranked(p) : r <= k
  BY <1>4
<1>9. OneMerge(p) = JoinedAt(p, g)
  BY <1>5, <1>6, <1>7, <1>8, OneMergeAt
<1>10. g \in 1..(Len(p) - 1)
  BY <1>5 DEF Places
<1> QED
  BY <1>4, <1>6, <1>9, <1>10 DEF p, g
(* Single symbols                                                            *)
Signs == {t \in Tokens : Len(t) = 1}
Spell(s) == Seqs!FlattenSeq(s)

LEMMA SignsApart == ASSUME NEW w \in Seq(Signs) PROVE Apart(Spell(w)) = w
<1> DEFINE T == {s \in Seq(Signs) : Apart(Spell(s)) = s}
           F(s) == Seqs!FlattenSeq(s)
<1>1. <<>> \in T
  <2>1. Spell(<<>>) = <<>>
    BY FlattenEmpty DEF Spell
  <2>2. Apart(<<>>) = <<>>
    BY DEF Apart
  <2> QED
    BY <2>1, <2>2, EmptySeq
<1>2. ASSUME NEW s \in Seq(Signs), NEW x \in Signs, s \in T PROVE Append(s, x) \in T
  <2> DEFINE t == Append(s, x)
             n == Len(s)
             f == F(s)
             g == F(t)
  <2>1. x \in Seq(Chars) /\ Len(x) = 1 /\ x = <<x[1]>> /\ s \in Seq(Seq(Chars)) /\ n \in Nat
    <3>1. \A k \in 1..Len(s) : s[k] \in Seq(Chars)
      BY DEF Signs, Tokens
    <3>2. x \in Seq(Chars) /\ Len(x) = 1
      BY DEF Signs, Tokens
    <3>3. s \in Seq(Seq(Chars)) /\ n \in Nat
      BY <3>1
    <3>4. x = <<x[1]>>
      BY <3>2
    <3> QED
      BY <3>2, <3>3, <3>4
  <2>2. f \in Seq(Chars) /\ g = f \o x
    BY <2>1, FlattenAppend, FlattenType
  <2>3. /\ t \in Seq(Signs) /\ Len(t) = n + 1 /\ t[n + 1] = x /\ \A k \in 1..n : t[k] = s[k]
    BY AppendProperties
  <2>4. Apart(f) = s
    BY <1>2 DEF Spell
  <2> HIDE DEF f, g, t, n
  <2>5. Len(f) = n /\ \A k \in 1..n : s[k] = <<f[k]>>
    <3>1. DOMAIN s = 1..n /\ DOMAIN f = 1..Len(f) /\ Len(f) \in Nat
      BY <2>2 DEF n
    <3>2. DOMAIN Apart(f) = DOMAIN f /\ \A k \in DOMAIN f : Apart(f)[k] = <<f[k]>>
      BY DEF Apart
    <3>3. 1..n = 1..Len(f)
      BY <2>4, <3>1, <3>2
    <3>4. Len(f) = n
      BY <2>1, <3>1, <3>3
    <3> QED
      BY <2>4, <3>1, <3>2, <3>4
  <2>6. /\ g \in Seq(Chars) /\ Len(g) = n + 1
        /\ \A k \in 1..n : g[k] = f[k]
        /\ g[n + 1] = x[1]
    <3>1. /\ f \o x \in Seq(Chars) /\ Len(f \o x) = Len(f) + Len(x)
          /\ \A k \in 1..Len(f) : (f \o x)[k] = f[k]
          /\ \A k \in (Len(f) + 1)..(Len(f) + Len(x)) : (f \o x)[k] = x[k - Len(f)]
      BY <2>1, <2>2, ConcatAt
    <3>2. n + 1 \in (n + 1)..(n + 1) /\ (n + 1) - n = 1
      BY <2>1
    <3> QED
      BY <2>1, <2>2, <2>5, <3>1, <3>2
  <2>7. Apart(g) = [k \in 1..(n + 1) |-> <<g[k]>>]
    BY <2>6 DEF Apart
  <2>8. t = [k \in 1..(n + 1) |-> t[k]]
    BY <2>1, <2>3
  <2>9. ASSUME NEW k \in 1..(n + 1) PROVE t[k] = <<g[k]>>
    <3>1. CASE k = n + 1
      BY <2>1, <2>3, <2>6, <3>1
    <3>2. CASE k \in 1..n
      BY <2>3, <2>5, <2>6, <3>2
    <3> QED
      BY <2>1, <3>1, <3>2
  <2>10. Apart(g) = t
    BY <2>7, <2>8, <2>9
  <2> QED
    BY <2>3, <2>10 DEF Spell, g, t
<1> HIDE DEF T
<1>3. Seq(Signs) \subseteq T
  BY <1>1, <1>2, SequencesInSet
<1> QED
  BY <1>3 DEF T

LEMMA ApartIs ==
    ASSUME NEW t \in Seq(Chars)
    PROVE  Apart(t) \in Seq(Signs) /\ Len(Apart(t)) = Len(t)
<1>1. Len(t) \in Nat /\ DOMAIN t = 1..Len(t) /\ \A i \in 1..Len(t) : t[i] \in Chars
  OBVIOUS
<1>2. ASSUME NEW c \in Chars PROVE <<c>> \in Signs
  <2>1. <<c>> \in Seq(Chars) /\ Len(<<c>>) = 1 /\ <<c>> # <<>>
    BY OneEntry
  <2> QED
    BY <2>1 DEF Signs, Tokens
<1>3. Apart(t) \in [1..Len(t) -> Signs]
  BY <1>1, <1>2 DEF Apart
<1> QED
  BY <1>1, <1>3

LEMMA TokensSpell == ASSUME NEW w \in Seq(Tokens) PROVE w \in Seq(Seq(Chars)) /\ Spell(w) \in Seq(Chars)
<1>1. \A k \in 1..Len(w) : w[k] \in Seq(Chars)
  BY DEF Tokens
<1>2. w \in Seq(Seq(Chars))
  BY <1>1
<1> QED
  BY <1>2, FlattenType DEF Spell

LEMMA SignsTokens == Seq(Signs) \subseteq Seq(Tokens)
<1>1. ASSUME NEW w \in Seq(Signs) PROVE w \in Seq(Tokens)
  <2>1. \A k \in 1..Len(w) : w[k] \in Tokens
    BY DEF Signs
  <2> QED
    BY <2>1
<1> QED
  BY <1>1

-----------------------------------------------------------------------------
(* What is next to each other in a word, merging the word it spells ends in. *)

ReachedAt(v, a, n) == n \in 0..Len(a) /\ Rounds(a)[n] = v /\ n + Len(v) = Len(a)
Reached(v) == \E n \in Nat : ReachedAt(v, Apart(Spell(v)), n)

LEMMA ReachedNext ==
    ASSUME merges \in Merges, NEW v \in Seq(Tokens), Ranked(v) # {}, NEW n \in Nat,
           NEW a \in Seq(Tokens), ReachedAt(v, a, n)
    PROVE  ReachedAt(OneMerge(v), a, n + 1)
<1>1. Len(v) \in Nat /\ Len(a) \in Nat /\ n + Len(v) = Len(a) /\ Rounds(a)[n] = v
  BY DEF ReachedAt
<1> DEFINE y == OneMerge(v)
<1>2. y \in Seq(Tokens) /\ Len(y) = Len(v) - 1
  BY OneMergeIs
<1>3. Len(y) \in Nat
  BY <1>2
<1> DEFINE g == Rounds(a)
<1>4. \A i \in 1..Len(a) : g[i] = OneMerge(g[i - 1])
  BY RoundsIs
<1> HIDE DEF g
<1>5. n + 1 \in 1..Len(a) /\ (n + 1) - 1 = n
  BY <1>1, <1>2, <1>3
<1>6. g[n + 1] = OneMerge(g[n])
  BY <1>4, <1>5
<1>7. Rounds(a)[n + 1] = y
  BY <1>1, <1>6 DEF g
<1> HIDE DEF y
<1>8. (n + 1) + Len(y) = Len(a) /\ n + 1 \in 0..Len(a)
  <2>1. /\ Len(v) \in Nat /\ Len(a) \in Nat /\ Len(y) \in Nat
        /\ n + Len(v) = Len(a) /\ Len(y) = Len(v) - 1
    BY <1>1, <1>2, <1>3
  <2> QED
    BY <2>1
<1> QED
  BY <1>7, <1>8 DEF ReachedAt, y

LEMMA PartsReached ==
    ASSUME merges \in Merges, NEW w \in Seq(Signs), NEW m \in 0..Len(w),
           NEW v, v = Rounds(w)[m], NEW i \in 1..Len(v), NEW j \in i..Len(v)
    PROVE  Reached(SubSeq(v, i, j))
<1> DEFINE g == Rounds(w)
           All(x) == \A p \in 1..Len(x) : \A q \in p..Len(x) : Reached(SubSeq(x, p, q))
           N == {k \in Nat : k <= Len(w) => All(g[k])}
<1>1. Len(w) \in Nat /\ w \in Seq(Tokens)
  BY SignsTokens
<1>2. /\ g[0] = w /\ \A k \in 1..Len(w) : g[k] = OneMerge(g[k - 1])
      /\ \A k \in 0..Len(w) : g[k] \in Seq(Tokens)
  BY <1>1, RoundsIs
<1> HIDE DEF g
<1>3. 0 \in N
  <2> SUFFICES ASSUME NEW p \in 1..Len(w), NEW q \in p..Len(w) PROVE Reached(SubSeq(w, p, q))
    BY <1>2
  <2> DEFINE s == SubSeq(w, p, q)
  <2>1. s \in Seq(Signs)
    <3>1. p \in Nat \ {0} /\ q \in Nat /\ p <= q + 1 /\ q <= Len(w)
      BY <1>1
    <3> QED
      BY <3>1, CutAt
  <2> HIDE DEF s
  <2>2. Apart(Spell(s)) = s /\ s \in Seq(Tokens) /\ Len(s) \in Nat
    BY <2>1, SignsApart, SignsTokens
  <2>3. Rounds(s)[0] = s
    BY <2>2, RoundsIs
  <2>4. ReachedAt(s, s, 0)
    BY <2>2, <2>3 DEF ReachedAt
  <2> QED
    BY <2>2, <2>4 DEF Reached, s
<1>4. ASSUME NEW k \in Nat, k \in N PROVE k + 1 \in N
  <2> SUFFICES ASSUME k + 1 <= Len(w) PROVE All(g[k + 1])
    OBVIOUS
  <2> DEFINE u == g[k]
             y == g[k + 1]
  <2>1. k + 1 \in 1..Len(w) /\ (k + 1) - 1 = k /\ k \in 0..Len(w) /\ k <= Len(w)
    BY <1>1
  <2>2. y = OneMerge(u) /\ u \in Seq(Tokens)
    BY <1>2, <2>1
  <2>3. All(u)
    BY <1>4, <2>1
  <2> HIDE DEF u, y
  <2>4. CASE Ranked(u) = {}
    <3>1. y = u
      BY <2>2, <2>4, OneMergeRests
    <3> QED
      BY <2>3, <3>1 DEF y
  <2>5. CASE Ranked(u) # {}
    <3>1. Ranked(u) \subseteq Nat
      <4>1. DOMAIN merges \subseteq Nat
        BY MergeAssumption
      <4> QED
        BY <4>1 DEF Ranked, Ranks
    <3>2. PICK r \in Ranked(u) : \A x \in Ranked(u) : r <= x
      BY <2>5, <3>1, SmallestOf
    <3>3. Places(u, r) # {} /\ Places(u, r) \subseteq Nat
      BY DEF Ranked, Places
    <3>4. PICK h \in Places(u, r) : \A x \in Places(u, r) : h <= x
      BY <3>3, SmallestOf
    <3>5. y = JoinedAt(u, h) /\ h \in 1..(Len(u) - 1)
      BY <2>2, <3>2, <3>4, OneMergeAt DEF Places
    <3>6. Len(y) = Len(u) - 1 /\ Len(u) \in Nat
      <4>1. Len(JoinedAt(u, h)) = Len(u) - 1
        BY <2>2, <3>5, JoinedIs
      <4>2. Len(u) \in Nat
        BY <2>2
      <4> QED
        BY <3>5, <4>1, <4>2
    <3> SUFFICES ASSUME NEW p \in 1..(Len(u) - 1), NEW q \in p..(Len(u) - 1) PROVE Reached(SubSeq(y, p, q))
      BY <3>6 DEF y
    <3>7. JoinedParts(y, u, h, p, q)
      BY <2>2, <3>5, JoinedPartsAre
    <3>8. CASE h < p
      <4>1. p + 1 \in 1..Len(u) /\ q + 1 \in (p + 1)..Len(u)
        BY <3>6
      <4> QED
        BY <2>3, <3>7, <3>8, <4>1 DEF JoinedParts
    <3>9. CASE h > q
      <4>1. p \in 1..Len(u) /\ q \in p..Len(u)
        BY <3>6
      <4> QED
        BY <2>3, <3>7, <3>9, <4>1 DEF JoinedParts
    <3>10. CASE h \in p..q
      <4> DEFINE s == SubSeq(u, p, q + 1)
                 t == SubSeq(y, p, q)
      <4>1. p \in 1..Len(u) /\ q + 1 \in p..Len(u) /\ p <= h /\ h < q + 1
        BY <3>6, <3>10
      <4>2. /\ OneMerge(s) = JoinedAt(s, h - p + 1) /\ r \in Ranked(s)
            /\ h - p + 1 \in 1..(Len(s) - 1)
        BY <2>2, <3>2, <3>4, <4>1, PartMerges
      <4>3. t = JoinedAt(s, h - p + 1)
        BY <3>7, <3>10 DEF JoinedParts
      <4>4. s \in Seq(Tokens)
        BY <2>2, <4>1, PartIs DEF PartAt
      <4>5. Reached(s)
        BY <2>3, <4>1
      <4> HIDE DEF s, t
      <4>6. Spell(t) = Spell(s)
        BY <4>2, <4>3, <4>4, JoinedSpells DEF Spell
      <4>7. Apart(Spell(s)) \in Seq(Tokens)
        BY <4>4, TokensSpell, ApartIs, SignsTokens
      <4>8. PICK n \in Nat : ReachedAt(s, Apart(Spell(s)), n)
        BY <4>5 DEF Reached
      <4>9. ReachedAt(t, Apart(Spell(s)), n + 1)
        BY <4>2, <4>3, <4>4, <4>7, <4>8, ReachedNext
      <4>10. n + 1 \in Nat
        OBVIOUS
      <4>11. Reached(t)
        BY <4>6, <4>9, <4>10 DEF Reached
      <4> QED
        BY <4>11 DEF t
    <3>11. h \in Nat /\ p \in Nat /\ q \in Nat
      BY <3>5, <3>6
    <3> QED
      BY <3>8, <3>9, <3>10, <3>11
  <2> QED
    BY <2>4, <2>5
<1> HIDE DEF N
<1>5. m \in N
  BY <1>3, <1>4, NumbersInSet
<1>6. All(g[m])
  BY <1>1, <1>5 DEF N
<1> QED
  BY <1>6 DEF g

(* A list that makes its own tokens in order merges every word in order: the *)
(* pair of a lower rank that a merge brings up is all of a token, and the    *)
(* merging of that token has come to it in the same way.                     *)
LEMMA WordsInOrder ==
    ASSUME merges \in Merges, TokensInOrder, NEW w \in Seq(Signs)
    PROVE  InOrder(w)
<1> DEFINE g == Rounds(w)
<1>1. Len(w) \in Nat /\ w \in Seq(Tokens)
  BY SignsTokens
<1>2. /\ \A m \in 1..Len(w) : g[m] = OneMerge(g[m - 1])
      /\ \A m \in 0..Len(w) : g[m] \in Seq(Tokens)
  BY <1>1, RoundsIs
<1> SUFFICES ASSUME NEW m \in 1..Len(w), NEW k \in Ranked(g[m])
             PROVE  \E f \in Ranked(g[m - 1]) : f <= k
  BY DEF InOrder
<1> DEFINE u == g[m - 1]
           y == g[m]
<1>3. m - 1 \in 0..Len(w)
  BY <1>1
<1>4. y = OneMerge(u) /\ u \in Seq(Tokens) /\ k \in Ranked(y)
  BY <1>2, <1>3
<1>5. \A i \in 1..Len(u) : \A j \in i..Len(u) : Reached(SubSeq(u, i, j))
  BY <1>3, PartsReached
<1> HIDE DEF g, u, y
<1>6. k \in Ranks /\ k \in Nat /\ k \in DOMAIN merges /\ DOMAIN merges \subseteq Nat
  <2>1. DOMAIN merges \subseteq Nat
    BY MergeAssumption
  <2> QED
    BY <1>4, <2>1 DEF Ranked, Ranks
<1>7. CASE k \in Ranked(u)
  <2>1. k <= k
    BY <1>6
  <2> QED
    BY <1>7, <2>1 DEF u
<1>8. CASE k \notin Ranked(u)
  <2>1. Ranked(u) # {}
    BY <1>4, <1>8, OneMergeRests
  <2>2. Ranked(u) \subseteq Nat
    BY <1>6 DEF Ranked, Ranks
  <2>3. PICK r \in Ranked(u) : \A x \in Ranked(u) : r <= x
    BY <2>1, <2>2, SmallestOf
  <2>4. Places(u, r) # {} /\ Places(u, r) \subseteq Nat
    BY <1>4 DEF Ranked, Places
  <2>5. PICK h \in Places(u, r) : \A x \in Places(u, r) : h <= x
    BY <2>4, SmallestOf
  <2>6. y = JoinedAt(u, h) /\ h \in 1..(Len(u) - 1)
    BY <1>4, <2>3, <2>5, OneMergeAt DEF Places
  <2>7. /\ y \in Seq(Tokens) /\ Len(y) = Len(u) - 1 /\ Len(u) \in Nat
        /\ \A x \in 1..(h - 1) : y[x] = u[x]
        /\ \A x \in (h + 1)..(Len(u) - 1) : y[x] = u[x + 1]
    <3> DEFINE z == JoinedAt(u, h)
    <3>1. /\ z \in Seq(Tokens) /\ Len(z) = Len(u) - 1
          /\ \A x \in 1..(h - 1) : z[x] = u[x]
          /\ \A x \in (h + 1)..(Len(u) - 1) : z[x] = u[x + 1]
      BY <1>4, <2>6, JoinedIs
    <3>2. Len(u) \in Nat
      BY <1>4
    <3> HIDE DEF z
    <3>3. y = z
      BY <2>6 DEF z
    <3> QED
      BY <3>1, <3>2, <3>3
  <2>8. PICK j \in Places(y, k) : TRUE
    BY <1>4 DEF Ranked
  <2>9. j \in 1..((Len(u) - 1) - 1) /\ <<y[j], y[j + 1]>> = merges[k]
    BY <2>7, <2>8 DEF Places
  <2>10. \A x \in 1..(Len(u) - 1) : <<u[x], u[x + 1]>> # merges[k]
    BY <1>6, <1>8 DEF Ranked, Places
  <2>11. ~ (j + 1 < h)
    <3> SUFFICES ASSUME j + 1 < h PROVE FALSE
      OBVIOUS
    <3>1. j \in 1..(h - 1) /\ j + 1 \in 1..(h - 1) /\ j \in 1..(Len(u) - 1)
      BY <2>6, <2>7, <2>9
    <3> QED
      BY <2>7, <2>9, <2>10, <3>1
  <2>12. ~ (j > h)
    <3> SUFFICES ASSUME j > h PROVE FALSE
      OBVIOUS
    <3>1. j \in (h + 1)..(Len(u) - 1) /\ j + 1 \in (h + 1)..(Len(u) - 1) /\ j + 1 \in 1..(Len(u) - 1)
      BY <2>6, <2>7, <2>9
    <3>2. y[j] = u[j + 1] /\ y[j + 1] = u[(j + 1) + 1]
      BY <2>7, <3>1
    <3> QED
      BY <2>9, <2>10, <3>1, <3>2
  <2> DEFINE p == SubSeq(u, j, j + 2)
             q == SubSeq(y, j, j + 1)
             e == merges[k][1] \o merges[k][2]
             a == Apart(e)
  <2>13. /\ h \in j..(j + 1) /\ j \in 1..Len(u) /\ j + 2 \in j..Len(u) /\ j <= h /\ h < j + 2
         /\ j \in 1..(Len(u) - 1) /\ j + 1 \in j..(Len(u) - 1)
    BY <2>6, <2>7, <2>9, <2>11, <2>12
  <2>14. /\ OneMerge(p) = JoinedAt(p, h - j + 1) /\ r \in Ranked(p) /\ Ranked(p) \subseteq Ranked(u)
         /\ h - j + 1 \in 1..(Len(p) - 1)
    BY <1>4, <2>3, <2>5, <2>13, PartMerges
  <2>15. q = JoinedAt(p, h - j + 1)
    <3>1. JoinedParts(y, u, h, j, j + 1)
      BY <1>4, <2>6, <2>13, JoinedPartsAre
    <3>2. (j + 1) + 1 = j + 2
      BY <2>13
    <3> QED
      BY <2>13, <3>1, <3>2 DEF JoinedParts
  <2>16. p \in Seq(Tokens)
    BY <1>4, <2>13, PartIs DEF PartAt
  <2>17. Reached(p)
    BY <1>5, <2>13
  <2>18. q \in Seq(Tokens) /\ Len(q) = 2 /\ q[1] = merges[k][1] /\ q[2] = merges[k][2]
    <3>1. j \in 1..Len(y) /\ j + 1 \in j..Len(y) /\ (j + 1) - j + 1 = 2
      BY <2>7, <2>13
    <3>2. PartAt(q, y, j, (j + 1) - j + 1)
      BY <2>7, <3>1, PartIs
    <3>3. q \in Seq(Tokens) /\ Len(q) = 2 /\ \A x \in 1..2 : q[x] = y[j + x - 1]
      BY <3>1, <3>2 DEF PartAt
    <3>4. j + 1 - 1 = j /\ j + 2 - 1 = j + 1
      BY <2>13
    <3>5. q[1] = y[j] /\ q[2] = y[j + 1]
      BY <3>3, <3>4
    <3>6. merges[k] = <<merges[k][1], merges[k][2]>>
      BY <1>6, MergeIs
    <3> QED
      BY <2>9, <3>3, <3>5, <3>6
  <2> HIDE DEF p, q
  <2>19. Spell(p) = e
    <3>1. Spell(q) = Spell(p)
      BY <2>14, <2>15, <2>16, JoinedSpells DEF Spell
    <3> DEFINE c == merges[k][1]
               d == merges[k][2]
    <3>2. c \in Seq(Chars) /\ d \in Seq(Chars)
      BY <1>6, MergeIs DEF Tokens
    <3> HIDE DEF c, d
    <3>3. q = <<c>> \o <<d>>
      <4>1. <<c>> \in Seq(Seq(Chars)) /\ <<d>> \in Seq(Seq(Chars)) /\ Len(<<c>>) = 1 /\ <<c>>[1] = c
        BY <3>2, OneEntry
      <4>2. /\ <<c>> \o <<d>> \in Seq(Seq(Chars)) /\ Len(<<c>> \o <<d>>) = 2
            /\ (<<c>> \o <<d>>)[1] = c /\ (<<c>> \o <<d>>)[2] = d
        BY <3>2, <4>1, ConcatOne
      <4>3. q \in Seq(Seq(Chars)) /\ Len(q) = 2 /\ q[1] = c /\ q[2] = d
        BY <2>18, TokensSpell DEF c, d
      <4> DEFINE cd == <<c>> \o <<d>>
      <4>4. cd \in Seq(Seq(Chars)) /\ Len(cd) = 2 /\ cd[1] = c /\ cd[2] = d
        BY <4>2
      <4> HIDE DEF cd
      <4>5. q = cd
        <5>1. \A x \in 1..2 : x = 1 \/ x = 2
          OBVIOUS
        <5>2. \A x \in 1..2 : q[x] = cd[x]
          BY <4>3, <4>4, <5>1
        <5> QED
          BY <4>3, <4>4, <5>2, SeqEqual
      <4> QED
        BY <4>5 DEF cd
    <3>4. /\ <<c>> \in Seq(Seq(Chars)) /\ <<d>> \in Seq(Seq(Chars))
          /\ Seqs!FlattenSeq(<<c>>) = c /\ Seqs!FlattenSeq(<<d>>) = d
      BY <3>2, OneEntry, FlattenOne
    <3>5. Seqs!FlattenSeq(<<c>> \o <<d>>) = c \o d
      BY <3>4, FlattenConcat
    <3> QED
      BY <3>1, <3>3, <3>5 DEF Spell, c, d
  <2>20. InOrder(a)
    BY <1>6 DEF TokensInOrder
  <2>21. a \in Seq(Tokens)
    BY <2>16, <2>19, TokensSpell, ApartIs, SignsTokens
  <2> HIDE DEF e
  <2>22. PICK n \in Nat : ReachedAt(p, a, n)
    BY <2>17, <2>19 DEF Reached
  <2> HIDE DEF a
  <2>23. ReachedAt(q, a, n + 1)
    BY <2>14, <2>15, <2>16, <2>21, <2>22, ReachedNext
  <2>24. n + 1 \in 1..Len(a) /\ (n + 1) - 1 = n /\ Rounds(a)[n + 1] = q /\ Rounds(a)[n] = p
    BY <2>22, <2>23 DEF ReachedAt
  <2>25. k \in Ranked(q)
    <3>1. 1 \in Places(q, k)
      <4>1. merges[k] = <<merges[k][1], merges[k][2]>>
        BY <1>6, MergeIs
      <4> QED
        BY <2>18, <4>1 DEF Places
    <3> QED
      BY <1>6, <3>1 DEF Ranked
  <2>26. PICK f \in Ranked(p) : f <= k
    BY <2>20, <2>24, <2>25 DEF InOrder
  <2> QED
    BY <2>14, <2>26 DEF u
<1> QED
  BY <1>7, <1>8

-----------------------------------------------------------------------------
(* Symbols *)

Single == {t \in Vocab : Len(t) = 1}

LEMMA SingleIs == Seq(Single) \subseteq Seq(Vocab) /\ Seq(Single) \subseteq Seq(Signs)
<1>1. ASSUME NEW s \in Seq(Single) PROVE s \in Seq(Vocab) /\ s \in Seq(Signs)
  <2>1. \A k \in 1..Len(s) : s[k] \in Vocab /\ s[k] \in Signs
    BY VocabAssumption DEF Single, Signs
  <2> QED
    BY <2>1
<1> QED
  BY <1>1

LEMMA OneSymbol == ASSUME NEW x, <<x>> \in Vocab PROVE <<x>> \in Single
<1>1. <<x>> \in Seq({x}) /\ Len(<<x>>) = 1
  BY OneEntry
<1> QED
  BY <1>1 DEF Single

LEMMA CharacterType == ASSUME NEW c \in Letters PROVE Character(c) \in Seq(Single)
<1>1. CASE <<c>> \in Vocab
  <2>1. <<c>> \in Single
    BY <1>1, OneSymbol
  <2> QED
    BY <1>1, <2>1, OneEntry DEF Character
<1>2. CASE <<c>> \notin Vocab
  <2>1. Bytes[c] \in Seq(Chars)
    BY <1>2 DEF Letters
  <2> DEFINE bs == Bytes[c]
             k == Len(bs)
  <2>2. k \in Nat /\ DOMAIN bs = 1..k
    BY <2>1
  <2>3. Character(c) = [b \in DOMAIN bs |-> Known(bs[b])]
    BY <1>2 DEF Character
  <2>4. \A x : Known(x) \in Single
    BY VocabAssumption, OneSymbol DEF Known
  <2> HIDE DEF bs, k
  <2>5. Character(c) \in [1..k -> Single]
    BY <2>2, <2>3, <2>4
  <2> QED
    BY <2>2, <2>5
<1> QED
  BY <1>1, <1>2

Spelled(s) == [k \in DOMAIN s |-> Character(s[k])]

LEMMA SpelledIs ==
    ASSUME NEW s \in Seq(Letters)
    PROVE  /\ Spelled(s) \in Seq(Seq(Single)) /\ Len(Spelled(s)) = Len(s)
           /\ \A k \in 1..Len(s) : Spelled(s)[k] = Character(s[k])
           /\ Symbols(s) = Seqs!FlattenSeq(Spelled(s))
           /\ Symbols(s) \in Seq(Single)
<1>1. Len(s) \in Nat /\ DOMAIN s = 1..Len(s) /\ \A k \in 1..Len(s) : s[k] \in Letters
  OBVIOUS
<1>2. Spelled(s) \in [1..Len(s) -> Seq(Single)]
  BY <1>1, CharacterType DEF Spelled
<1>3. Spelled(s) \in Seq(Seq(Single)) /\ Len(Spelled(s)) = Len(s)
  BY <1>1, <1>2
<1>4. \A k \in 1..Len(s) : Spelled(s)[k] = Character(s[k])
  BY <1>1 DEF Spelled
<1>5. Symbols(s) = Seqs!FlattenSeq(Spelled(s))
  BY DEF Symbols, Spelled
<1> QED
  BY <1>3, <1>4, <1>5, FlattenType

LEMMA SymbolsConcat ==
    ASSUME NEW s \in Seq(Letters), NEW t \in Seq(Letters)
    PROVE  Symbols(s \o t) = Symbols(s) \o Symbols(t)
<1> DEFINE k == Len(s)
           m == Len(t)
           st == s \o t
           joint == Spelled(s) \o Spelled(t)
<1>1. k \in Nat /\ m \in Nat
  OBVIOUS
<1>2. /\ st \in Seq(Letters) /\ Len(st) = k + m
      /\ \A x \in 1..k : st[x] = s[x]
      /\ \A x \in (k + 1)..(k + m) : st[x] = t[x - k]
  BY ConcatAt
<1>3. /\ Spelled(s) \in Seq(Seq(Single)) /\ Len(Spelled(s)) = k
      /\ \A x \in 1..k : Spelled(s)[x] = Character(s[x])
      /\ Spelled(t) \in Seq(Seq(Single)) /\ Len(Spelled(t)) = m
      /\ \A x \in 1..m : Spelled(t)[x] = Character(t[x])
  BY SpelledIs
<1> HIDE DEF st
<1>4. /\ Spelled(st) \in Seq(Seq(Single)) /\ Len(Spelled(st)) = k + m
      /\ \A x \in 1..(k + m) : Spelled(st)[x] = Character(st[x])
  BY <1>2, SpelledIs
<1> HIDE DEF k, m
<1>5. /\ joint \in Seq(Seq(Single)) /\ Len(joint) = k + m
      /\ \A x \in 1..k : joint[x] = Spelled(s)[x]
      /\ \A x \in (k + 1)..(k + m) : joint[x] = Spelled(t)[x - k]
  <2>1. /\ joint \in Seq(Seq(Single)) /\ Len(joint) = Len(Spelled(s)) + Len(Spelled(t))
        /\ \A x \in 1..Len(Spelled(s)) : joint[x] = Spelled(s)[x]
        /\ \A x \in (Len(Spelled(s)) + 1)..(Len(Spelled(s)) + Len(Spelled(t))) :
               joint[x] = Spelled(t)[x - Len(Spelled(s))]
    BY <1>3, ConcatAt
  <2> QED
    BY <1>3, <2>1
<1> HIDE DEF joint
<1>6. ASSUME NEW x \in 1..(k + m) PROVE Spelled(st)[x] = joint[x]
  <2>1. CASE x \in 1..k
    <3>1. Spelled(st)[x] = Character(st[x])
      BY <1>4
    <3>2. st[x] = s[x]
      BY <1>2, <2>1
    <3>3. joint[x] = Spelled(s)[x]
      BY <1>5, <2>1
    <3>4. Spelled(s)[x] = Character(s[x])
      BY <1>3, <2>1
    <3> QED
      BY <3>1, <3>2, <3>3, <3>4
  <2>2. CASE x \in (k + 1)..(k + m)
    <3>1. x - k \in 1..m
      BY <1>1, <2>2
    <3>2. Spelled(st)[x] = Character(st[x])
      BY <1>4
    <3>3. st[x] = t[x - k]
      BY <1>2, <2>2
    <3>4. joint[x] = Spelled(t)[x - k]
      BY <1>5, <2>2
    <3>5. Spelled(t)[x - k] = Character(t[x - k])
      BY <1>3, <3>1
    <3> QED
      BY <3>2, <3>3, <3>4, <3>5
  <2> QED
    BY <1>1, <2>1, <2>2
<1>7. Spelled(st) = joint
  BY <1>4, <1>5, <1>6, SeqEqual
<1>8. Seqs!FlattenSeq(joint) = Seqs!FlattenSeq(Spelled(s)) \o Seqs!FlattenSeq(Spelled(t))
  BY <1>3, FlattenConcat DEF joint
<1>9. /\ Symbols(st) = Seqs!FlattenSeq(Spelled(st)) /\ Symbols(s) = Seqs!FlattenSeq(Spelled(s))
      /\ Symbols(t) = Seqs!FlattenSeq(Spelled(t))
  BY <1>2, SpelledIs
<1> QED
  BY <1>7, <1>8, <1>9 DEF st

Piece == {p \in Seq(Letters) : p # <<>> /\ p[1] = Repl}

LEMMA SymbolsOfPiece == ASSUME NEW p \in Piece PROVE Symbols(p) \in Seq(Single) /\ Symbols(p) # <<>>
<1> DEFINE r == <<Repl>>
           t == Tail(p)
<1>1. p \in Seq(Letters) /\ p # <<>> /\ p[1] = Repl
  BY DEF Piece
<1>2. Head(p) = Repl /\ Repl \in Letters /\ t \in Seq(Letters) /\ p = <<Head(p)>> \o t
  BY <1>1, ElementOfSeq, HeadTailProperties
<1>3. r \in Seq(Letters) /\ Len(r) = 1 /\ r[1] = Repl
  BY <1>2, OneEntry
<1>4. p = r \o t
  BY <1>2
<1> HIDE DEF r, t
<1>5. Symbols(p) = Symbols(r) \o Symbols(t) /\ Symbols(t) \in Seq(Single)
  BY <1>2, <1>3, <1>4, SymbolsConcat, SpelledIs
<1>6. Symbols(r) = <<<<Repl>>>>
  <2>1. Character(Repl) = <<<<Repl>>>>
    BY VocabAssumption DEF Character
  <2>2. Spelled(r) = <<Character(Repl)>>
    BY <1>3 DEF Spelled, r
  <2>3. Character(Repl) \in Seq(Single)
    BY <1>2, CharacterType
  <2> QED
    BY <1>3, <2>1, <2>2, <2>3, SpelledIs, FlattenOne
<1>7. <<<<Repl>>>> \in Seq(Single) /\ Len(<<<<Repl>>>>) = 1
  <2>1. <<Repl>> \in Single
    BY VocabAssumption, OneSymbol
  <2> QED
    BY <2>1, OneEntry
<1>8. Symbols(p) \in Seq(Single) /\ Len(Symbols(p)) = 1 + Len(Symbols(t)) /\ Len(Symbols(t)) \in Nat
  BY <1>5, <1>6, <1>7, ConcatProperties, LenProperties
<1> QED
  BY <1>8

-----------------------------------------------------------------------------
(* Pieces *)

LEMMA PieceIs ==
    /\ Seq(Piece) \subseteq Seq(Seq(Letters))
    /\ \A p \in Piece : p \in Seq(Letters) /\ \A c \in Letters : Append(p, c) \in Piece
<1>1. ASSUME NEW f \in Seq(Piece) PROVE f \in Seq(Seq(Letters))
  <2>1. \A k \in 1..Len(f) : f[k] \in Seq(Letters)
    BY DEF Piece
  <2> QED
    BY <2>1
<1>2. ASSUME NEW p \in Piece, NEW c \in Letters PROVE p \in Seq(Letters) /\ Append(p, c) \in Piece
  <2>1. p \in Seq(Letters) /\ p # <<>> /\ p[1] = Repl
    BY DEF Piece
  <2>2. Len(p) \in Nat /\ Len(p) >= 1
    BY <2>1
  <2>3. /\ Append(p, c) \in Seq(Letters) /\ Len(Append(p, c)) = Len(p) + 1
        /\ \A k \in 1..Len(p) : Append(p, c)[k] = p[k]
    BY <2>1, AppendProperties
  <2>4. Append(p, c)[1] = Repl /\ Append(p, c) # <<>>
    BY <2>1, <2>2, <2>3
  <2> QED
    BY <2>1, <2>3, <2>4 DEF Piece
<1>3. Seq(Piece) \subseteq Seq(Seq(Letters))
  BY <1>1
<1>4. \A p \in Piece : p \in Seq(Letters) /\ \A c \in Letters : Append(p, c) \in Piece
  <2> TAKE p \in Piece
  <2>1. p \in Seq(Letters)
    BY DEF Piece
  <2>2. \A c \in Letters : Append(p, c) \in Piece
    BY <1>2
  <2> QED
    BY <2>1, <2>2
<1> QED
  BY <1>3, <1>4

LEMMA Opened ==
    ASSUME NEW f \in Seq(Piece), Repl \in Letters
    PROVE  /\ Append(f, <<Repl>>) \in Seq(Piece) /\ Append(f, <<Repl>>) # <<>>
           /\ Seqs!FlattenSeq(Append(f, <<Repl>>)) = Append(Seqs!FlattenSeq(f), Repl)
<1> DEFINE r == <<Repl>>
<1>1. r \in Seq(Letters) /\ r \in Piece
  BY DEF Piece
<1>2. f \in Seq(Seq(Letters))
  BY PieceIs
<1>3. Seqs!FlattenSeq(f) \in Seq(Letters)
  BY <1>2, FlattenType
<1>4. Seqs!FlattenSeq(f) \o r = Append(Seqs!FlattenSeq(f), Repl)
  <2> DEFINE g == Seqs!FlattenSeq(f)
  <2>1. g \in Seq(Letters)
    BY <1>3
  <2> HIDE DEF g
  <2>2. g \o <<Repl>> = Append(g, Repl)
    BY <2>1
  <2> QED
    BY <2>2 DEF g
<1> HIDE DEF r
<1>5. Seqs!FlattenSeq(Append(f, r)) = Seqs!FlattenSeq(f) \o r
  BY <1>1, <1>2, FlattenAppend
<1>6. Append(f, r) \in Seq(Piece) /\ Append(f, r) # <<>>
  BY <1>1, AppendProperties
<1> QED
  BY <1>4, <1>5, <1>6 DEF r

LEMMA Extended ==
    ASSUME NEW f \in Seq(Piece), f # <<>>, NEW c \in Letters
    PROVE  LET g == [f EXCEPT ![Len(f)] = Append(@, c)]
           IN  /\ g \in Seq(Piece) /\ g # <<>>
               /\ Seqs!FlattenSeq(g) = Append(Seqs!FlattenSeq(f), c)
<1> DEFINE g == [f EXCEPT ![Len(f)] = Append(@, c)]
<1>1. PICK e \in Seq(Piece), p \in Piece : f = Append(e, p)
  BY SequenceEmptyOrAppend
<1> DEFINE q == Append(p, c)
           n == Len(e)
<1>2. p \in Seq(Letters) /\ q \in Piece /\ q \in Seq(Letters)
  BY PieceIs
<1>3. e \in Seq(Seq(Letters))
  BY PieceIs
<1>4. n \in Nat /\ Len(f) = n + 1 /\ DOMAIN f = 1..(n + 1) /\ f[n + 1] = p /\ \A k \in 1..n : f[k] = e[k]
  BY <1>1, AppendProperties
<1>5. g = [k \in 1..(n + 1) |-> IF k = n + 1 THEN q ELSE f[k]]
  BY <1>4
<1> HIDE DEF q
<1>6. /\ Append(e, q) \in Seq(Piece) /\ Len(Append(e, q)) = n + 1 /\ Append(e, q)[n + 1] = q
      /\ \A k \in 1..n : Append(e, q)[k] = e[k]
  BY <1>2, AppendProperties
<1> HIDE DEF n, g
<1>7. g = Append(e, q)
  <2> DEFINE a == Append(e, q)
  <2>1. a \in Seq(Piece) /\ Len(a) = n + 1 /\ a[n + 1] = q /\ \A k \in 1..n : a[k] = e[k]
    BY <1>6
  <2> HIDE DEF a
  <2>2. a = [k \in 1..(n + 1) |-> a[k]]
    BY <1>4, <2>1
  <2>3. ASSUME NEW k \in 1..(n + 1) PROVE a[k] = IF k = n + 1 THEN q ELSE f[k]
    <3>1. k # n + 1 => k \in 1..n
      BY <1>4
    <3> QED
      BY <1>4, <2>1, <3>1
  <2>4. [k \in 1..(n + 1) |-> a[k]] = [k \in 1..(n + 1) |-> IF k = n + 1 THEN q ELSE f[k]]
    BY <2>3
  <2> QED
    BY <1>5, <2>2, <2>4 DEF a
<1>8. Seqs!FlattenSeq(Append(e, q)) = Seqs!FlattenSeq(e) \o q
  BY <1>2, <1>3, FlattenAppend
<1>9. Seqs!FlattenSeq(f) = Seqs!FlattenSeq(e) \o p
  BY <1>1, <1>2, <1>3, FlattenAppend
<1>10. Seqs!FlattenSeq(e) \in Seq(Letters)
  BY <1>3, FlattenType
<1>11. Seqs!FlattenSeq(e) \o q = Append(Seqs!FlattenSeq(e) \o p, c)
  <2> DEFINE h == Seqs!FlattenSeq(e)
  <2>1. h \in Seq(Letters)
    BY <1>10
  <2> HIDE DEF h
  <2>2. h \o Append(p, c) = Append(h \o p, c)
    BY <1>2, <2>1
  <2> QED
    BY <2>2 DEF h, q
<1>12. Append(e, q) # <<>>
  BY <1>4, <1>6
<1> QED
  BY <1>6, <1>7, <1>8, <1>9, <1>11, <1>12 DEF g

LEMMA CutNext ==
    ASSUME NEW S, NEW s \in Seq(S), NEW k \in Nat, k < Len(s)
    PROVE  SubSeq(s, 1, k + 1) = Append(SubSeq(s, 1, k), s[k + 1])
<1> DEFINE a == SubSeq(s, 1, k)
           b == SubSeq(s, 1, k + 1)
<1>1. Len(s) \in Nat /\ s[k + 1] \in S
  OBVIOUS
<1>2. a \in Seq(S) /\ Len(a) = k /\ \A x \in 1..k : a[x] = s[x]
  BY <1>1, CutAt
<1>3. b \in Seq(S) /\ Len(b) = k + 1 /\ \A x \in 1..(k + 1) : b[x] = s[x]
  BY <1>1, CutAt
<1> HIDE DEF a, b
<1> DEFINE c == Append(a, s[k + 1])
<1>4. c \in Seq(S) /\ Len(c) = k + 1 /\ c[k + 1] = s[k + 1] /\ \A x \in 1..k : c[x] = a[x]
  BY <1>1, <1>2, AppendProperties
<1> HIDE DEF c
<1>5. ASSUME NEW x \in 1..(k + 1) PROVE b[x] = c[x]
  <2>1. x \in 1..k \/ x = k + 1
    OBVIOUS
  <2> QED
    BY <1>2, <1>3, <1>4, <2>1
<1>6. b = c
  BY <1>3, <1>4, <1>5, SeqEqual
<1> QED
  BY <1>6 DEF a, b, c

(* The pieces are cut at every Metaspace and lose nothing.                   *)
LEMMA PiecesIs ==
    ASSUME NEW s \in Seq(Letters), s # <<>>, s[1] = Repl
    PROVE  Pieces(s) \in Seq(Piece) /\ Seqs!FlattenSeq(Pieces(s)) = s
<1> DEFINE n == Len(s)
           B == Seq(Piece)
           grown(f, i) == IF s[i] = Repl THEN Append(f, <<Repl>>)
                          ELSE [f EXCEPT ![Len(f)] = Append(@, s[i])]
           d == [i \in Nat |-> [f \in B |-> IF i \in 1..n THEN grown(f, i) ELSE f]]
           f == Stepwise(<<>>, d, n)
           g == CHOOSE g : g = [k \in 0..n |-> IF k = 0 THEN <<>>
                                ELSE IF s[k] = Repl THEN Append(g[k - 1], <<Repl>>)
                                ELSE [g[k - 1] EXCEPT ![Len(g[k - 1])] = Append(@, s[k])]]
<1>1. Pieces(s) = g[n]
  BY DEF Pieces
<1>2. n \in Nat /\ n >= 1 /\ \A i \in 1..n : s[i] \in Letters
  OBVIOUS
<1>3. Repl \in Letters
  BY <1>2
<1>4. ASSUME NEW x \in B, NEW i \in 1..n PROVE grown(x, i) \in B
  <2>1. CASE s[i] = Repl
    BY <1>3, <2>1, Opened
  <2>2. CASE s[i] # Repl /\ x # <<>>
    BY <1>2, <2>2, Extended
  <2>3. CASE s[i] # Repl /\ x = <<>>
    <3>1. [x EXCEPT ![Len(x)] = Append(@, s[i])] = x
      BY <2>3
    <3> QED
      BY <2>3, <3>1
  <2> QED
    BY <2>1, <2>2, <2>3
<1>5. d \in [Nat -> [B -> B]]
  BY <1>4
<1>6. \A i \in 1..n, x \in B : d[i][x] = grown(x, i)
  BY <1>2
<1>7. <<>> \in B
  OBVIOUS
<1> HIDE DEF d, B
<1>8. Steps(B, <<>>, d, n)
  BY <1>2, <1>5, <1>7 DEF Steps
<1>9. Follows(f, B, <<>>, d, n)
  BY <1>8, StepwiseIs
<1> HIDE DEF f, n
<1>10. f \in [0..n -> B] /\ f[0] = <<>> /\ \A i \in 1..n : f[i] = d[i][f[i - 1]]
  BY <1>9 DEF Follows
<1>11. ASSUME NEW i \in 0..n, i # 0 PROVE f[i] = grown(f[i - 1], i) /\ f[i - 1] \in B
  <2>1. i \in 1..n /\ i - 1 \in 0..n
    BY <1>2, <1>11
  <2>2. f[i - 1] \in B /\ f[i] = d[i][f[i - 1]]
    BY <1>10, <2>1
  <2> HIDE DEF grown
  <2> QED
    BY <1>6, <2>1, <2>2
<1>12. f = [k \in 0..n |-> IF k = 0 THEN <<>>
               ELSE IF s[k] = Repl THEN Append(f[k - 1], <<Repl>>)
               ELSE [f[k - 1] EXCEPT ![Len(f[k - 1])] = Append(@, s[k])]]
  BY <1>10, <1>11
<1>13. g = [k \in 0..n |-> IF k = 0 THEN <<>>
               ELSE IF s[k] = Repl THEN Append(g[k - 1], <<Repl>>)
               ELSE [g[k - 1] EXCEPT ![Len(g[k - 1])] = Append(@, s[k])]]
  BY <1>12 DEF n
<1> HIDE DEF g
<1>14. ASSUME NEW i \in 1..n PROVE g[i] = grown(g[i - 1], i)
  <2>1. i \in 0..n /\ i # 0
    BY <1>2
  <2>2. g[i] = IF i = 0 THEN <<>>
               ELSE IF s[i] = Repl THEN Append(g[i - 1], <<Repl>>)
               ELSE [g[i - 1] EXCEPT ![Len(g[i - 1])] = Append(@, s[i])]
    BY <1>13, <2>1
  <2> QED
    BY <2>1, <2>2
<1>15. g[0] = <<>>
  BY <1>2, <1>13
<1> DEFINE Good(m) == /\ g[m] \in B /\ (m >= 1 => g[m] # <<>>)
                      /\ Seqs!FlattenSeq(g[m]) = SubSeq(s, 1, m)
           N == {m \in Nat : m <= n => Good(m)}
<1>16. 0 \in N
  <2>1. SubSeq(s, 1, 0) = <<>>
    BY <1>2 DEF n
  <2> QED
    <3>1. g[0] \in B /\ Seqs!FlattenSeq(g[0]) = SubSeq(s, 1, 0)
      BY <1>7, <1>15, <2>1, FlattenEmpty
    <3>2. ~ (0 >= 1)
      OBVIOUS
    <3> QED
      BY <3>1, <3>2
<1>17. ASSUME NEW m \in Nat, m \in N PROVE m + 1 \in N
  <2> SUFFICES ASSUME m + 1 <= n PROVE Good(m + 1)
    OBVIOUS
  <2>1. Good(m) /\ m + 1 \in 1..n /\ (m + 1) - 1 = m /\ m < n
    BY <1>2, <1>17
  <2> DEFINE x == g[m]
             y == g[m + 1]
             c == s[m + 1]
  <2>2. y = grown(x, m + 1)
    BY <1>14, <2>1
  <2>3. SubSeq(s, 1, m + 1) = Append(SubSeq(s, 1, m), c)
    BY <2>1, CutNext DEF n
  <2>4. x \in Seq(Piece) /\ c \in Letters /\ Seqs!FlattenSeq(x) = SubSeq(s, 1, m) /\ (m >= 1 => x # <<>>)
    BY <1>2, <2>1 DEF B
  <2>5. c # Repl => x # <<>>
    BY <2>1, <2>4
  <2> HIDE DEF x, y, c
  <2>6. y = IF c = Repl THEN Append(x, <<Repl>>) ELSE [x EXCEPT ![Len(x)] = Append(@, c)]
    BY <2>2 DEF c
  <2>7. y \in Seq(Piece) /\ y # <<>> /\ Seqs!FlattenSeq(y) = Append(Seqs!FlattenSeq(x), c)
    <3>1. CASE c = Repl
      BY <1>3, <2>4, <2>6, <3>1, Opened
    <3>2. CASE c # Repl
      BY <2>4, <2>5, <2>6, <3>2, Extended
    <3> QED
      BY <3>1, <3>2
  <2>8. Good(m + 1)
    BY <2>3, <2>4, <2>7 DEF y, B
  <2> QED
    BY <2>8
<1> HIDE DEF N
<1>18. n \in N
  BY <1>2, <1>16, <1>17, NumbersInSet
<1>19. Good(n)
  BY <1>18 DEF N
<1>4a. SubSeq(s, 1, n) = s
  BY DEF n
<1> QED
  BY <1>1, <1>19, <1>4a DEF n, B

LEMMA NormIs ==
    ASSUME NEW t \in Texts
    PROVE  Norm(t) \in Seq(Letters) /\ Norm(t) # <<>> /\ Norm(t)[1] = Repl
<1> DEFINE s == [k \in DOMAIN t |-> IF t[k] = Space THEN Repl ELSE t[k]]
           r == <<Repl>>
<1>1. /\ t \in Seq(Chars)
      /\ \A k \in DOMAIN t :
             \/ t[k] = Space \/ <<t[k]>> \in Vocab
             \/ t[k] \in DOMAIN Bytes /\ Bytes[t[k]] \in Seq(Chars)
  BY TextAssumption
<1>2. Repl \in Letters
  <2>1. <<Repl>> \in Vocab /\ <<Repl>> \in Seq(Chars)
    BY VocabAssumption DEF Tokens
  <2>2. Repl \in Chars
    BY <2>1
  <2> QED
    BY <2>1, <2>2 DEF Letters
<1>3. ASSUME NEW k \in DOMAIN t PROVE (IF t[k] = Space THEN Repl ELSE t[k]) \in Letters
  <2>1. t[k] \in Chars
    BY <1>1
  <2> QED
    BY <1>1, <1>2, <2>1 DEF Letters
<1>4. Len(t) \in Nat /\ DOMAIN t = 1..Len(t)
  BY <1>1
<1>5. s \in [1..Len(t) -> Letters]
  BY <1>3, <1>4
<1>6. s \in Seq(Letters)
  BY <1>4, <1>5
<1>7. Norm(t) = IF s # <<>> /\ s[1] = Repl THEN s ELSE r \o s
  BY DEF Norm
<1> HIDE DEF s
<1>8. r \in Seq(Letters) /\ Len(r) = 1 /\ r[1] = Repl
  BY <1>2, OneEntry
<1> HIDE DEF r
<1>9. r \o s \in Seq(Letters) /\ (r \o s)[1] = Repl /\ r \o s # <<>>
  <2>1. /\ r \o s \in Seq(Letters) /\ Len(r \o s) = Len(r) + Len(s)
        /\ \A x \in 1..Len(r) : (r \o s)[x] = r[x]
    BY <1>6, <1>8, ConcatAt
  <2>2. Len(s) \in Nat
    BY <1>6
  <2> QED
    BY <1>8, <2>1, <2>2
<1> QED
  BY <1>6, <1>7, <1>9

-----------------------------------------------------------------------------
(* The array: what is written of it and what is not yet read.                *)

Left(w, a, b) == SubSeq(w, 1, a) \o SubSeq(w, b + 1, Len(w))
Remains(u, S, w, k, a, b) ==
    /\ u \in Seq(S) /\ Len(u) = a + (k - b)
    /\ \A x \in 1..a : u[x] = w[x]
    /\ \A x \in (a + 1)..(a + (k - b)) : u[x] = w[x - a + b]
Array(w, S, k, a, b) == w \in Seq(S) /\ k = Len(w) /\ a \in Nat /\ b \in Nat /\ a <= b /\ b <= k

LEMMA LeftIs ==
    ASSUME NEW S, NEW w, NEW k, NEW a, NEW b, Array(w, S, k, a, b)
    PROVE  Remains(Left(w, a, b), S, w, k, a, b)
<1> DEFINE p == SubSeq(w, 1, a)
           q == SubSeq(w, b + 1, k)
<1>1. w \in Seq(S) /\ k = Len(w) /\ k \in Nat /\ a \in Nat /\ b \in Nat /\ a <= b /\ b <= k
  BY DEF Array
<1>2. p \in Seq(S) /\ Len(p) = a /\ \A x \in 1..a : p[x] = w[x]
  BY <1>1, CutAt
<1>3. q \in Seq(S) /\ Len(q) = k - b /\ \A x \in 1..(k - b) : q[x] = w[b + x]
  <2>1. b + 1 \in Nat \ {0} /\ b + 1 <= k + 1 /\ k - (b + 1) + 1 = k - b
    BY <1>1
  <2>2. /\ q \in Seq(S) /\ Len(q) = k - (b + 1) + 1
        /\ \A x \in 1..(k - (b + 1) + 1) : q[x] = w[(b + 1) + x - 1]
    BY <1>1, <2>1, CutAt
  <2> HIDE DEF q
  <2>3. \A x \in 1..(k - b) : (b + 1) + x - 1 = b + x
    BY <1>1
  <2> QED
    BY <2>1, <2>2, <2>3
<1>4. Left(w, a, b) = p \o q
  BY <1>1 DEF Left
<1> HIDE DEF p, q
<1> DEFINE u == p \o q
<1>5. /\ u \in Seq(S) /\ Len(u) = a + (k - b)
      /\ \A x \in 1..a : u[x] = p[x]
      /\ \A x \in (a + 1)..(a + (k - b)) : u[x] = q[x - a]
  <2>1. /\ u \in Seq(S) /\ Len(u) = Len(p) + Len(q)
        /\ \A x \in 1..Len(p) : u[x] = p[x]
        /\ \A x \in (Len(p) + 1)..(Len(p) + Len(q)) : u[x] = q[x - Len(p)]
    BY <1>2, <1>3, ConcatAt
  <2> QED
    BY <1>2, <1>3, <2>1
<1> HIDE DEF u
<1>6. \A x \in (a + 1)..(a + (k - b)) : u[x] = w[x - a + b]
  <2> TAKE x \in (a + 1)..(a + (k - b))
  <2>1. x - a \in 1..(k - b) /\ b + (x - a) = x - a + b
    BY <1>1
  <2>2. u[x] = q[x - a]
    BY <1>5
  <2>3. q[x - a] = w[b + (x - a)]
    BY <1>3, <2>1
  <2> QED
    BY <2>1, <2>2, <2>3
<1>7. Remains(u, S, w, k, a, b)
  BY <1>2, <1>5, <1>6 DEF Remains
<1> QED
  BY <1>4, <1>7 DEF u

(* An entry copied down, or two of them joined.                              *)
Written(v, w, k, a, e) ==
    v = [w EXCEPT ![a + 1] = e] /\ Len(v) = k /\ v[a + 1] = e
        /\ \A x \in 1..k : x # a + 1 => v[x] = w[x]

LEMMA WrittenIs ==
    ASSUME NEW S, NEW w, NEW k, NEW a, NEW b, Array(w, S, k, a, b), b < k, NEW e \in S
    PROVE  LET v == [w EXCEPT ![a + 1] = e] IN v \in Seq(S) /\ Written(v, w, k, a, e)
<1> DEFINE v == [w EXCEPT ![a + 1] = e]
<1>1. w \in Seq(S) /\ k = Len(w) /\ k \in Nat /\ a \in Nat /\ b \in Nat /\ a <= b /\ b <= k
  BY DEF Array
<1>2. a + 1 \in 1..k /\ DOMAIN w = 1..k
  BY <1>1
<1>3. v \in Seq(S)
  BY <1>1, <1>2, ExceptSeq
<1>4. Len(v) = k /\ v[a + 1] = e /\ \A x \in 1..k : x # a + 1 => v[x] = w[x]
  BY <1>1, <1>2, ExceptSeq
<1> QED
  BY <1>3, <1>4 DEF Written

Copied(v, w, a, b) == v = [w EXCEPT ![a + 1] = w[b + 1]]

LEMMA CopyPlain ==
    ASSUME NEW S, NEW w, NEW k, NEW a, NEW b, Array(w, S, k, a, b), b < k,
           NEW v, Copied(v, w, a, b)
    PROVE  v \in Seq(S) /\ Len(v) = k /\ Left(v, a + 1, b + 1) = Left(w, a, b)
<1> DEFINE u == Left(w, a, b)
           t == Left(v, a + 1, b + 1)
           e == w[b + 1]
<1>1. w \in Seq(S) /\ k = Len(w) /\ k \in Nat /\ a \in Nat /\ b \in Nat /\ a <= b /\ b <= k
  BY DEF Array
<1>2. e \in S
  BY <1>1
<1> HIDE DEF e
<1>3. v \in Seq(S) /\ Written(v, w, k, a, e)
  <2>1. v = [w EXCEPT ![a + 1] = e]
    BY DEF Copied, e
  <2> QED
    BY <1>2, <2>1, WrittenIs
<1>4. Len(v) = k /\ v[a + 1] = e /\ \A x \in 1..k : x # a + 1 => v[x] = w[x]
  BY <1>3 DEF Written
<1>5. Array(v, S, k, a + 1, b + 1)
  BY <1>1, <1>3, <1>4 DEF Array
<1> HIDE DEF u, t
<1>6. Remains(u, S, w, k, a, b)
  BY LeftIs DEF u
<1>7. Remains(t, S, v, k, a + 1, b + 1)
  BY <1>5, LeftIs DEF t
<1>8. /\ u \in Seq(S) /\ Len(u) = a + (k - b)
      /\ \A x \in 1..a : u[x] = w[x]
      /\ \A x \in (a + 1)..(a + (k - b)) : u[x] = w[x - a + b]
  BY <1>6 DEF Remains
<1>9. /\ t \in Seq(S) /\ Len(t) = a + (k - b)
      /\ \A x \in 1..(a + 1) : t[x] = v[x]
      /\ \A x \in (a + 2)..(a + (k - b)) : t[x] = v[x - a + b]
  <2>1. (a + 1) + 1 = a + 2 /\ (a + 1) + (k - (b + 1)) = a + (k - b)
    BY <1>1
  <2>2. \A x \in (a + 2)..(a + (k - b)) : x - (a + 1) + (b + 1) = x - a + b
    BY <1>1
  <2> QED
    BY <1>7, <2>1, <2>2 DEF Remains
<1>10. ASSUME NEW x \in 1..(a + (k - b)) PROVE t[x] = u[x]
  <2>1. CASE x \in 1..a
    <3>1. x \in 1..(a + 1) /\ x \in 1..k /\ x # a + 1
      BY <1>1, <2>1
    <3>2. t[x] = v[x]
      BY <1>9, <3>1
    <3>3. v[x] = w[x]
      BY <1>4, <3>1
    <3> QED
      BY <1>8, <2>1, <3>2, <3>3
  <2>2. CASE x = a + 1
    <3>1. x \in 1..(a + 1) /\ x \in (a + 1)..(a + (k - b)) /\ x - a + b = b + 1
      BY <1>1, <2>2
    <3>2. t[x] = v[x]
      BY <1>9, <3>1
    <3>3. u[x] = w[b + 1]
      BY <1>8, <3>1
    <3> QED
      BY <1>4, <2>2, <3>2, <3>3 DEF e
  <2>3. CASE x \in (a + 2)..(a + (k - b))
    <3>1. x \in (a + 1)..(a + (k - b)) /\ x - a + b \in 1..k /\ x - a + b # a + 1
      BY <1>1, <2>3
    <3>2. t[x] = v[x - a + b]
      BY <1>9, <2>3
    <3>3. u[x] = w[x - a + b]
      BY <1>8, <3>1
    <3>4. v[x - a + b] = w[x - a + b]
      BY <1>4, <3>1
    <3> QED
      BY <3>2, <3>3, <3>4
  <2> QED
    BY <1>1, <2>1, <2>2, <2>3
<1>11. t = u
  BY <1>8, <1>9, <1>10, SeqEqual
<1> QED
  BY <1>3, <1>4, <1>11 DEF t, u

LEMMA CopyJoin ==
    ASSUME NEW w, NEW k, NEW a, NEW b, Array(w, Tokens, k, a, b), b + 1 < k,
           NEW v, v = [w EXCEPT ![a + 1] = w[b + 1] \o w[b + 2]]
    PROVE  Left(v, a + 1, b + 2) = JoinedAt(Left(w, a, b), a + 1)
<1> DEFINE S == Tokens
           u == Left(w, a, b)
           t == Left(v, a + 1, b + 2)
           m == Len(u)
           e == w[b + 1] \o w[b + 2]
           y == JoinedAt(u, a + 1)
<1>1. w \in Seq(S) /\ k = Len(w) /\ k \in Nat /\ a \in Nat /\ b \in Nat /\ a <= b /\ b <= k
  BY DEF Array
<1>2. e \in S
  <2>1. w[b + 1] \in Tokens /\ w[b + 2] \in Tokens
    BY <1>1
  <2> QED
    BY <2>1, ConcatProperties, EmptySeq DEF Tokens
<1> HIDE DEF e, S
<1>3. v \in Seq(S) /\ Written(v, w, k, a, e)
  <2>1. b < k
    BY <1>1
  <2>2. Array(w, S, k, a, b)
    BY DEF S
  <2>3. v = [w EXCEPT ![a + 1] = e]
    BY DEF e
  <2> DEFINE z == [w EXCEPT ![a + 1] = e]
  <2>4. z \in Seq(S) /\ Written(z, w, k, a, e)
    BY <1>2, <2>1, <2>2, WrittenIs
  <2> HIDE DEF z
  <2>5. v = z
    BY <2>3 DEF z
  <2> QED
    BY <2>4, <2>5
<1>4. Len(v) = k /\ v[a + 1] = e /\ \A x \in 1..k : x # a + 1 => v[x] = w[x]
  BY <1>3 DEF Written
<1>5. Array(v, S, k, a + 1, b + 2)
  BY <1>1, <1>3, <1>4 DEF Array
<1> HIDE DEF u, t
<1>6. Remains(u, S, w, k, a, b)
  BY LeftIs DEF u, S
<1>7. Remains(t, S, v, k, a + 1, b + 2)
  BY <1>5, LeftIs DEF t
<1>8. /\ u \in Seq(S) /\ m = a + (k - b)
      /\ \A x \in 1..a : u[x] = w[x]
      /\ \A x \in (a + 1)..(a + (k - b)) : u[x] = w[x - a + b]
  BY <1>6 DEF Remains
<1>9. /\ t \in Seq(S) /\ Len(t) = m - 1
      /\ \A x \in 1..(a + 1) : t[x] = v[x]
      /\ \A x \in (a + 2)..(m - 1) : t[x] = v[x - a + b + 1]
  <2>1. (a + 1) + 1 = a + 2 /\ (a + 1) + (k - (b + 2)) = m - 1
    BY <1>1, <1>8
  <2>2. \A x \in (a + 2)..(m - 1) : x - (a + 1) + (b + 2) = x - a + b + 1
    BY <1>1, <1>8
  <2> QED
    BY <1>7, <2>1, <2>2 DEF Remains
<1>10. a + 1 \in 1..(m - 1) /\ m \in Nat
  BY <1>1, <1>8
<1>11. /\ y \in Seq(Tokens) /\ Len(y) = m - 1
       /\ \A x \in 1..((a + 1) - 1) : y[x] = u[x]
       /\ y[a + 1] = u[a + 1] \o u[a + 1 + 1]
       /\ \A x \in (a + 1 + 1)..(m - 1) : y[x] = u[x + 1]
  BY <1>8, <1>10, JoinedIs DEF S
<1>12. /\ y \in Seq(S) /\ Len(y) = m - 1
       /\ \A x \in 1..a : y[x] = u[x]
       /\ y[a + 1] = u[a + 1] \o u[a + 2]
       /\ \A x \in (a + 2)..(m - 1) : y[x] = u[x + 1]
  <2>1. (a + 1) - 1 = a /\ a + 1 + 1 = a + 2
    BY <1>1
  <2> QED
    BY <1>11, <2>1 DEF S
<1> HIDE DEF y
<1>13. u[a + 1] = w[b + 1] /\ u[a + 2] = w[b + 2]
  <2>1. /\ a + 1 \in (a + 1)..(a + (k - b)) /\ (a + 1) - a + b = b + 1
        /\ a + 2 \in (a + 1)..(a + (k - b)) /\ (a + 2) - a + b = b + 2
    BY <1>1
  <2> QED
    BY <1>8, <2>1
<1>14. ASSUME NEW x \in 1..(m - 1) PROVE t[x] = y[x]
  <2>1. CASE x \in 1..a
    <3>1. x \in 1..(a + 1) /\ x \in 1..k /\ x # a + 1
      BY <1>1, <2>1
    <3>2. t[x] = v[x]
      BY <1>9, <3>1
    <3>3. v[x] = w[x]
      BY <1>4, <3>1
    <3>4. y[x] = u[x] /\ u[x] = w[x]
      BY <1>8, <1>12, <2>1
    <3> QED
      BY <3>2, <3>3, <3>4
  <2>2. CASE x = a + 1
    <3>1. x \in 1..(a + 1)
      BY <1>1, <2>2
    <3>2. t[x] = v[x]
      BY <1>9, <3>1
    <3>3. y[x] = e
      BY <1>12, <1>13, <2>2 DEF e
    <3> QED
      BY <1>4, <2>2, <3>2, <3>3
  <2>3. CASE x \in (a + 2)..(m - 1)
    <3>1. /\ x + 1 \in (a + 1)..(a + (k - b)) /\ x - a + b + 1 \in 1..k /\ x - a + b + 1 # a + 1
          /\ (x + 1) - a + b = x - a + b + 1
      BY <1>1, <1>8, <2>3
    <3>2. t[x] = v[x - a + b + 1]
      BY <1>9, <2>3
    <3>3. u[x + 1] = w[x - a + b + 1]
      <4>1. u[x + 1] = w[(x + 1) - a + b]
        BY <1>8, <3>1
      <4> QED
        BY <3>1, <4>1
    <3>4. v[x - a + b + 1] = w[x - a + b + 1]
      BY <1>4, <3>1
    <3>5. y[x] = u[x + 1]
      BY <1>12, <2>3
    <3> QED
      BY <3>2, <3>3, <3>4, <3>5
  <2> QED
    BY <1>1, <1>8, <2>1, <2>2, <2>3
<1>15. t = y
  BY <1>9, <1>12, <1>14, SeqEqual
<1> QED
  BY <1>15 DEF t, y, u

-----------------------------------------------------------------------------
(* The pair of the lowest rank                                               *)

(* No pair before the h-th entry is the pair merged.                         *)
Clear(u, h, p) == \A x \in 1..h : x < Len(u) => <<u[x], u[x + 1]>> # p
Lowest(u, r) == \A k \in Ranked(u) : r <= k

LEMMA ClearKept ==
    ASSUME merges \in Merges, NEW r \in DOMAIN merges, NEW u \in Seq(Tokens),
           NEW h \in Places(u, r), Clear(u, h - 1, merges[r])
    PROVE  Clear(JoinedAt(u, h), h, merges[r])
<1> DEFINE v == JoinedAt(u, h)
           m == Len(u)
           p == merges[r]
           e == merges[r][1] \o merges[r][2]
<1>1. m \in Nat /\ h \in 1..(m - 1) /\ <<u[h], u[h + 1]>> = merges[r]
  BY DEF Places
<1>2. u[h] \o u[h + 1] = e
  <2>1. u[h] = merges[r][1] /\ u[h + 1] = merges[r][2]
    BY <1>1, MergeIs
  <2> QED
    BY <2>1
<1>3. /\ v \in Seq(Tokens) /\ Len(v) = m - 1
      /\ \A x \in 1..(h - 1) : v[x] = u[x]
      /\ v[h] = e
  BY <1>1, <1>2, JoinedIs
<1>4. p = <<p[1], p[2]>> /\ e # p[1] /\ e # p[2]
  <2>1. Len(e) > Len(p[1]) /\ Len(e) > Len(p[2]) /\ p = <<p[1], p[2]>>
    BY MergeIs
  <2>2. Len(p[1]) \in Nat /\ Len(p[2]) \in Nat
    BY MergeIs, LenProperties DEF Tokens
  <2> HIDE DEF e, p
  <2>3. e # p[1] /\ e # p[2]
    BY <2>1, <2>2
  <2> QED
    BY <2>1, <2>3
<1> HIDE DEF v, m, e, p
<1>5. SUFFICES ASSUME NEW x \in 1..h, x < m - 1 PROVE <<v[x], v[x + 1]>> # p
  BY <1>3 DEF Clear, v, p
<1>6. CASE x = h
  <2>1. v[x] # p[1]
    BY <1>3, <1>4, <1>6
  <2> QED
    BY <1>4, <2>1
<1>7. CASE x + 1 = h
  <2>1. v[x + 1] # p[2]
    BY <1>3, <1>4, <1>7
  <2> QED
    BY <1>4, <2>1
<1>8. CASE x + 1 < h
  <2>1. x \in 1..(h - 1) /\ x + 1 \in 1..(h - 1) /\ x < m
    BY <1>1, <1>8
  <2>2. <<u[x], u[x + 1]>> # p
    BY <2>1 DEF Clear, m, p
  <2> QED
    BY <1>3, <2>1, <2>2
<1> QED
  BY <1>1, <1>6, <1>7, <1>8

(* A pass makes the merges that one at a time would come next.               *)
AtRound(w, v) == OneByOne(v) = OneByOne(w) /\ \E n \in Nat : ReachedAt(v, w, n)

LEMMA RoundKept ==
    ASSUME merges \in Merges, TokensInOrder, NEW w \in Seq(Signs), NEW u \in Seq(Tokens), AtRound(w, u),
           NEW r \in Ranks, Lowest(u, r), NEW h \in Places(u, r), Clear(u, h - 1, merges[r])
    PROVE  AtRound(w, JoinedAt(u, h)) /\ Lowest(JoinedAt(u, h), r)
<1> DEFINE v == JoinedAt(u, h)
<1>1. r \in Ranked(u)
  BY DEF Ranked
<1>2. ASSUME NEW j \in Places(u, r) PROVE h <= j
  <2>1. j \in 1..(Len(u) - 1) /\ h \in 1..(Len(u) - 1) /\ <<u[j], u[j + 1]>> = merges[r] /\ Len(u) \in Nat
    BY DEF Places
  <2>2. ~ (j \in 1..(h - 1) /\ j < Len(u))
    BY <2>1 DEF Clear
  <2> QED
    BY <2>1, <2>2
<1>3. OneMerge(u) = v
  BY <1>1, <1>2, OneMergeAt DEF Lowest
<1>4. OneByOne(v) = OneByOne(w)
  BY <1>3, OneByOneStep DEF AtRound
<1>5. PICK n \in Nat : ReachedAt(u, w, n)
  BY DEF AtRound
<1>6. w \in Seq(Tokens)
  BY SignsTokens
<1>7. ReachedAt(v, w, n + 1) /\ n + 1 \in Nat
  BY <1>1, <1>3, <1>5, <1>6, ReachedNext
<1> HIDE DEF v
<1>8. Lowest(v, r)
  <2> SUFFICES ASSUME NEW k \in Ranked(v) PROVE r <= k
    BY DEF Lowest
  <2>1. InOrder(w)
    BY WordsInOrder
  <2>2. Len(w) \in Nat /\ n + 1 \in 1..Len(w) /\ (n + 1) - 1 = n /\ Rounds(w)[n + 1] = v /\ Rounds(w)[n] = u
    BY <1>5, <1>7 DEF ReachedAt
  <2>3. PICK f \in Ranked(u) : f <= k
    BY <2>1, <2>2 DEF InOrder
  <2>4. r <= f
    BY DEF Lowest
  <2>5. r \in Nat /\ f \in Nat /\ k \in Nat
    <3>1. DOMAIN merges \subseteq Nat
      BY MergeAssumption
    <3> QED
      BY <3>1 DEF Ranked, Ranks
  <2> QED
    BY <2>3, <2>4, <2>5
<1> QED
  BY <1>4, <1>7, <1>8 DEF AtRound, v

-----------------------------------------------------------------------------
(* The invariant *)

EncodeTypes ==
    /\ merges \in Merges /\ text \in Texts
    /\ stage \in {"split", "piece", "scan", "merge", "done"}
    /\ pieces \in Seq(Piece) /\ word \in Seq(Tokens) /\ out \in Seq(Vocab)
    /\ MakesTokens => word \in Seq(Vocab)
    /\ read \in Nat /\ written \in Nat

(* The array holds the symbols of the first piece, or nothing.               *)
Held ==
    /\ stage \in {"scan", "merge"} => word # <<>> /\ pieces # <<>>
    /\ stage \notin {"scan", "merge"} => word = <<>>
    /\ stage = "split" => pieces = <<>> /\ out = <<>>

(* A pass writes behind what it reads, has left no pair it merges behind it, *)
(* and, if the list makes its tokens in order, has brought up no lower rank. *)
Passing ==
    stage = "merge" =>
        /\ written <= read /\ read <= Len(word) /\ (read > 0 => written > 0)
        /\ \E r \in Ranks :
              /\ pair = merges[r] /\ Clear(Unread, written, merges[r])
              /\ TokensInOrder => Lowest(Unread, r)

(* The array is at all times what merging one at a time comes to.            *)
SameEnd ==
    TokensInOrder /\ stage \in {"scan", "merge"} => AtRound(Symbols(Head(pieces)), Unread)

EncodeInv == EncodeTypes /\ Held /\ Passing /\ SameEnd /\ NothingLost

LEMMA InvInit == ASSUME EncodeInit PROVE EncodeInv
  BY EmptySeq DEF EncodeInit, EncodeInv, EncodeTypes, Held, Passing, SameEnd, NothingLost

LEMMA VocabIs == Seq(Vocab) \subseteq Seq(Tokens)
<1>1. ASSUME NEW s \in Seq(Vocab) PROVE s \in Seq(Tokens)
  <2>1. \A k \in 1..Len(s) : s[k] \in Tokens
    BY VocabAssumption
  <2> QED
    BY <2>1
<1> QED
  BY <1>1

LEMMA NothingLostIs ==
    NothingLost <=> (MakesTokens /\ stage # "split" =>
        (Spell(out) \o Spell(Unread)) \o Spell(Symbols(Later)) = Spell(Symbols(Norm(text))))
  BY DEF NothingLost, Spell

LEMMA SpellIs ==
    /\ Spell(<<>>) = <<>>
    /\ \A s \in Seq(Tokens) : Spell(s) \in Seq(Chars)
    /\ \A s, t \in Seq(Tokens) : Spell(s \o t) = Spell(s) \o Spell(t) /\ s \o t \in Seq(Tokens)
<1>1. Spell(<<>>) = <<>>
  BY FlattenEmpty DEF Spell
<1>2. ASSUME NEW s \in Seq(Tokens) PROVE Spell(s) \in Seq(Chars)
  BY TokensSpell
<1>3. ASSUME NEW s \in Seq(Tokens), NEW t \in Seq(Tokens)
      PROVE  Spell(s \o t) = Spell(s) \o Spell(t) /\ s \o t \in Seq(Tokens)
  <2>1. s \in Seq(Seq(Chars)) /\ t \in Seq(Seq(Chars))
    BY TokensSpell
  <2>2. Seqs!FlattenSeq(s \o t) = Seqs!FlattenSeq(s) \o Seqs!FlattenSeq(t)
    BY <2>1, FlattenConcat
  <2>3. s \o t \in Seq(Tokens)
    BY ConcatProperties
  <2> QED
    BY <2>2, <2>3 DEF Spell
<1> QED
  BY <1>1, <1>2, <1>3

LEMMA PiecesSpelled ==
    ASSUME NEW ps \in Seq(Piece), ps # <<>>
    PROVE  /\ Head(ps) \in Piece /\ Tail(ps) \in Seq(Piece)
           /\ Symbols(Head(ps)) \in Seq(Signs) /\ Symbols(Head(ps)) \in Seq(Vocab) /\ Symbols(Head(ps)) # <<>>
           /\ Seqs!FlattenSeq(Tail(ps)) \in Seq(Letters)
           /\ Symbols(Seqs!FlattenSeq(Tail(ps))) \in Seq(Vocab)
           /\ Symbols(Seqs!FlattenSeq(ps)) = Symbols(Head(ps)) \o Symbols(Seqs!FlattenSeq(Tail(ps)))
<1> DEFINE h == Head(ps)
           t == Tail(ps)
           one == <<h>>
<1>1. h \in Piece /\ t \in Seq(Piece) /\ ps = <<h>> \o t
  BY HeadTailProperties
<1> HIDE DEF h, t
<1>2. h \in Seq(Letters) /\ t \in Seq(Seq(Letters))
  BY <1>1, PieceIs
<1>3. one \in Seq(Seq(Letters)) /\ Seqs!FlattenSeq(one) = h
  BY <1>2, OneEntry, FlattenOne
<1>4. ps = one \o t
  BY <1>1
<1> HIDE DEF one
<1>5. Seqs!FlattenSeq(ps) = h \o Seqs!FlattenSeq(t)
  BY <1>2, <1>3, <1>4, FlattenConcat
<1>6. Seqs!FlattenSeq(t) \in Seq(Letters)
  BY <1>2, FlattenType
<1> DEFINE f == Seqs!FlattenSeq(t)
<1> HIDE DEF f
<1>7. f \in Seq(Letters)
  BY <1>6 DEF f
<1>8. Symbols(h \o f) = Symbols(h) \o Symbols(f)
  BY <1>2, <1>7, SymbolsConcat
<1>9. Symbols(f) \in Seq(Vocab)
  BY <1>7, SpelledIs, SingleIs
<1>10. Symbols(h) \in Seq(Signs) /\ Symbols(h) \in Seq(Vocab) /\ Symbols(h) # <<>>
  BY <1>1, SymbolsOfPiece, SingleIs
<1> QED
  BY <1>1, <1>5, <1>7, <1>8, <1>9, <1>10 DEF f, h, t

(* What the list says does not change with the rest of the state.            *)
LEMMA ListKept ==
    ASSUME merges' = merges
    PROVE  (MakesTokens' <=> MakesTokens) /\ (TokensInOrder' <=> TokensInOrder) /\ Ranks' = Ranks
<1>1. Ranks' = Ranks
  BY DEF Ranks
<1>2. MakesTokens' <=> MakesTokens
  BY DEF MakesTokens
<1>3. TokensInOrder' <=> TokensInOrder
  BY DEF TokensInOrder, InOrder, Rounds, OneMerge, Ranked, Ranks, Places
<1> QED
  BY <1>1, <1>2, <1>3

LEMMA RoundSame ==
    ASSUME merges' = merges, pieces' = pieces, NEW v, Unread' = v,
           TokensInOrder => AtRound(Symbols(Head(pieces)), v)
    PROVE  SameEnd'
<1> SUFFICES ASSUME TokensInOrder' PROVE AtRound(Symbols(Head(pieces)), Unread)'
  BY DEF SameEnd
<1>1. AtRound(Symbols(Head(pieces)), v)
  BY ListKept
<1>2. (OneByOne(Unread) = OneByOne(Symbols(Head(pieces))))'
          <=> OneByOne(v) = OneByOne(Symbols(Head(pieces)))
  BY DEF OneByOne, Rounds, OneMerge, Ranked, Ranks, Places
<1>3. (\E n \in Nat : ReachedAt(Unread, Symbols(Head(pieces)), n))'
          <=> \E n \in Nat : ReachedAt(v, Symbols(Head(pieces)), n)
  BY DEF ReachedAt, Rounds, OneMerge, Ranked, Ranks, Places
<1> QED
  BY <1>1, <1>2, <1>3 DEF AtRound

LEMMA LowestSame ==
    ASSUME merges' = merges, NEW v, Unread' = v, NEW r
    PROVE  Lowest(Unread, r)' <=> Lowest(v, r)
  BY DEF Lowest, Ranked, Ranks, Places

(* The text is split.                                                        *)
LEMMA SplitKeeps == ASSUME EncodeInv, Split PROVE EncodeInv'
<1>1. /\ stage = "split" /\ pieces' = Pieces(Norm(text)) /\ stage' = "piece"
      /\ merges' = merges /\ text' = text /\ word' = word /\ pair' = pair
      /\ read' = read /\ written' = written /\ out' = out
  BY DEF Split
<1>2. EncodeTypes /\ word = <<>> /\ out = <<>>
  BY <1>1 DEF EncodeInv, Held
<1>3. pieces' \in Seq(Piece) /\ Seqs!FlattenSeq(pieces') = Norm(text)
  BY <1>1, <1>2, NormIs, PiecesIs DEF EncodeTypes
<1>4. EncodeTypes'
  BY <1>1, <1>2, <1>3, EmptySeq DEF EncodeTypes
<1>5. Held' /\ Passing' /\ SameEnd'
  BY <1>1, <1>2 DEF Held, Passing, SameEnd
<1>6. NothingLost'
  <2>1. Unread' = <<>> /\ Later' = Norm(text) /\ out' = <<>>
    BY <1>1, <1>2, <1>3 DEF Unread, Later
  <2> DEFINE x == Spell(Symbols(Norm(text)))
  <2>2. x \in Seq(Chars)
    BY <1>2, NormIs, SpelledIs, SingleIs, VocabIs, SpellIs DEF EncodeTypes
  <2> HIDE DEF x
  <2>3. (<<>> \o <<>>) \o x = x
    BY <2>2, ConcatEmptySeq
  <2>4. (Spell(<<>>) \o Spell(<<>>)) \o Spell(Symbols(Norm(text))) = Spell(Symbols(Norm(text)))
    BY <2>3, SpellIs DEF x
  <2> QED
    BY <1>1, <2>1, <2>4 DEF NothingLost, Spell
<1> QED
  BY <1>4, <1>5, <1>6 DEF EncodeInv

(* The first piece is taken up: its symbols move from what is to come.       *)
LEMMA StartPieceKeeps == ASSUME EncodeInv, StartPiece PROVE EncodeInv'
<1>1. /\ stage = "piece" /\ pieces # <<>> /\ word' = Symbols(Head(pieces)) /\ stage' = "scan"
      /\ merges' = merges /\ text' = text /\ pieces' = pieces /\ pair' = pair
      /\ read' = read /\ written' = written /\ out' = out
  BY DEF StartPiece
<1>2. EncodeTypes /\ word = <<>>
  BY <1>1 DEF EncodeInv, Held
<1> DEFINE h == Symbols(Head(pieces))
           t == Symbols(Seqs!FlattenSeq(Tail(pieces)))
<1>3. /\ h \in Seq(Signs) /\ h \in Seq(Vocab) /\ h \in Seq(Tokens) /\ h # <<>>
      /\ t \in Seq(Vocab) /\ t \in Seq(Tokens)
      /\ Symbols(Seqs!FlattenSeq(pieces)) = h \o t
  BY <1>1, <1>2, PiecesSpelled, VocabIs DEF EncodeTypes
<1>4. EncodeTypes'
  BY <1>1, <1>2, <1>3 DEF EncodeTypes
<1>5. Unread' = h /\ Unread = <<>>
  BY <1>1, <1>2 DEF Unread
<1>6. Held' /\ Passing'
  BY <1>1, <1>3 DEF Held, Passing
<1>7. SameEnd'
  <2> HIDE DEF h
  <2>1. Rounds(h)[0] = h /\ Len(h) \in Nat
    BY <1>2, <1>3, RoundsIs DEF EncodeTypes
  <2>2. ReachedAt(h, h, 0)
    BY <2>1 DEF ReachedAt
  <2>3. AtRound(h, h)
    BY <2>2 DEF AtRound
  <2> QED
    BY <1>1, <1>5, <2>3, RoundSame DEF h
<1>8. NothingLost'
  <2> SUFFICES ASSUME MakesTokens PROVE NothingLost'
    BY <1>1, ListKept DEF NothingLost
  <2>1. Symbols(Later) = h \o t
    BY <1>2, <1>3 DEF Later
  <2>2. (Symbols(Later))' = t
    BY <1>1, <1>3 DEF Later
  <2> HIDE DEF h, t
  <2>3. (Spell(out) \o Spell(<<>>)) \o Spell(h \o t) = Spell(Symbols(Norm(text)))
    BY <1>1, <1>5, <2>1, NothingLostIs DEF EncodeInv
  <2>4. Spell(out) \in Seq(Chars) /\ Spell(h) \in Seq(Chars) /\ Spell(t) \in Seq(Chars)
    BY <1>2, <1>3, VocabIs, SpellIs DEF EncodeTypes
  <2>5. Spell(h \o t) = Spell(h) \o Spell(t) /\ Spell(<<>>) = <<>>
    BY <1>3, SpellIs
  <2> DEFINE a == Spell(out)
             b == Spell(h)
             c == Spell(t)
  <2>6. (a \o <<>>) \o (b \o c) = (a \o b) \o c
    <3> HIDE DEF a, b, c
    <3>1. a \in Seq(Chars) /\ b \in Seq(Chars) /\ c \in Seq(Chars)
      BY <2>4 DEF a, b, c
    <3>2. a \o <<>> = a
      BY <3>1, ConcatEmptySeq
    <3> QED
      BY <3>1, <3>2, ConcatAssociative
  <2>7. (Spell(out) \o Spell(h)) \o Spell(t) = Spell(Symbols(Norm(text)))
    BY <2>3, <2>5, <2>6
  <2> QED
    BY <1>1, <1>5, <2>2, <2>7 DEF NothingLost, Spell
<1> QED
  BY <1>4, <1>6, <1>7, <1>8 DEF EncodeInv

(* A pass begins with the pair of the lowest rank.                           *)
LEMMA ScanKeeps == ASSUME EncodeInv, Scan PROVE EncodeInv'
<1>1. /\ stage = "scan" /\ Ranked(word) # {} /\ pair' = BestPair(word)
      /\ read' = 0 /\ written' = 0 /\ stage' = "merge"
      /\ merges' = merges /\ text' = text /\ pieces' = pieces /\ word' = word /\ out' = out
  BY DEF Scan
<1>2. EncodeTypes /\ word # <<>> /\ pieces # <<>>
  BY <1>1 DEF EncodeInv, Held
<1>3. Unread = word /\ Unread' = word
  <2>1. Unread' = SubSeq(word, 1, 0) \o SubSeq(word, 0 + 1, Len(word))
    BY <1>1 DEF Unread
  <2>2. word \in Seq(Tokens)
    BY <1>2 DEF EncodeTypes
  <2>3. SubSeq(word, 1, 0) = <<>> /\ SubSeq(word, 0 + 1, Len(word)) = word
    BY <2>2
  <2>4. <<>> \o word = word
    BY <2>2, ConcatEmptySeq
  <2> QED
    BY <1>1, <2>1, <2>3, <2>4 DEF Unread
<1>4. EncodeTypes'
  BY <1>1, <1>2, ListKept DEF EncodeTypes
<1>5. Held'
  BY <1>1, <1>2 DEF Held
<1>6. Passing'
  <2>1. Ranked(word) \subseteq Nat
    <3>1. DOMAIN merges \subseteq Nat
      BY <1>2, MergeAssumption DEF EncodeTypes
    <3> QED
      BY <3>1 DEF Ranked, Ranks
  <2>2. \E k \in Ranked(word) : \A j \in Ranked(word) : k <= j
    BY <1>1, <2>1, SmallestOf
  <2>3. PICK r \in Ranked(word) : (\A j \in Ranked(word) : r <= j) /\ BestPair(word) = merges[r]
    BY <2>2 DEF BestPair
  <2>4. pair' = merges'[r] /\ r \in Ranks'
    BY <1>1, <2>3, ListKept DEF Ranked
  <2>5. Lowest(word, r)
    BY <2>3 DEF Lowest
  <2>6. Lowest(Unread, r)'
    BY <1>1, <1>3, <2>5, LowestSame
  <2>7. Clear(Unread, written, merges[r])'
    BY <1>1 DEF Clear
  <2>8. Len(word) \in Nat
    BY <1>2 DEF EncodeTypes
  <2> QED
    BY <1>1, <2>4, <2>6, <2>7, <2>8 DEF Passing
<1>7. SameEnd'
  <2>1. TokensInOrder => AtRound(Symbols(Head(pieces)), word)
    BY <1>1, <1>3 DEF EncodeInv, SameEnd
  <2> QED
    BY <1>1, <1>3, <2>1, RoundSame
<1>8. NothingLost'
  BY <1>1, <1>3, ListKept DEF EncodeInv, NothingLost, Later
<1> QED
  BY <1>4, <1>5, <1>6, <1>7, <1>8 DEF EncodeInv

(* A symbol, or the two of the pair, goes down to where the pass writes.     *)
LEMMA CopyStepKeeps == ASSUME EncodeInv, CopyStep PROVE EncodeInv'
<1> DEFINE k == Len(word)
           u == Unread
           joins == read + 1 < Len(word) /\ <<word[read + 1], word[read + 2]>> = pair
<1>1. /\ stage = "merge" /\ read < k
      /\ word' = [word EXCEPT ![written + 1] = IF joins THEN pair[1] \o pair[2] ELSE word[read + 1]]
      /\ read' = (IF joins THEN read + 2 ELSE read + 1) /\ written' = written + 1
      /\ merges' = merges /\ text' = text /\ stage' = stage /\ pieces' = pieces
      /\ pair' = pair /\ out' = out
  BY DEF CopyStep
<1>2. EncodeTypes /\ Passing /\ word # <<>> /\ pieces # <<>>
  BY <1>1 DEF EncodeInv, Held
<1>3. /\ merges \in Merges /\ word \in Seq(Tokens) /\ (MakesTokens => word \in Seq(Vocab))
      /\ read \in Nat /\ written \in Nat /\ k \in Nat
  BY <1>2 DEF EncodeTypes
<1>4. PICK r \in Ranks : /\ pair = merges[r] /\ Clear(u, written, merges[r])
                         /\ TokensInOrder => Lowest(u, r)
  BY <1>1, <1>2 DEF Passing
<1> DEFINE s == Symbols(Head(pieces))
<1>4a. r \in DOMAIN merges /\ s \in Seq(Signs) /\ (TokensInOrder => AtRound(s, u))
  <2>1. r \in DOMAIN merges
    BY DEF Ranks
  <2>2. s \in Seq(Signs)
    BY <1>2, PiecesSpelled DEF EncodeTypes
  <2>3. TokensInOrder => AtRound(s, u)
    BY <1>1 DEF EncodeInv, SameEnd
  <2> QED
    BY <2>1, <2>2, <2>3
<1>5. written <= read /\ read <= k
  BY <1>1, <1>2 DEF Passing
<1>6. Array(word, Tokens, k, written, read) /\ (MakesTokens => Array(word, Vocab, k, written, read))
  BY <1>3, <1>5 DEF Array
<1>7. u = Left(word, written, read) /\ Unread' = Left(word', written', read')
  BY <1>1 DEF Unread, Left
<1> HIDE DEF u, k, s
<1>8. u \in Seq(Tokens) /\ Remains(u, Tokens, word, k, written, read)
  BY <1>6, <1>7, LeftIs DEF Remains
<1>9. /\ u \in Seq(Tokens) /\ Len(u) = written + (k - read)
      /\ u[written + 1] = word[read + 1]
      /\ read + 1 < k => u[written + 2] = word[read + 2]
  <2>1. written + 1 \in (written + 1)..(written + (k - read)) /\ (written + 1) - written + read = read + 1
    BY <1>1, <1>3, <1>5
  <2>2. ASSUME read + 1 < k
        PROVE  written + 2 \in (written + 1)..(written + (k - read)) /\ (written + 2) - written + read = read + 2
    BY <1>3, <1>5, <2>2
  <2>3. \A x \in (written + 1)..(written + (k - read)) : u[x] = word[x - written + read]
    BY <1>8 DEF Remains
  <2> QED
    BY <1>8, <2>1, <2>2, <2>3 DEF Remains
<1>10. /\ word' \in Seq(Tokens) /\ Len(word') = k /\ (MakesTokens => word' \in Seq(Vocab))
       /\ written' <= read' /\ read' <= Len(word') /\ written' > 0
       /\ \E v : /\ Unread' = v /\ Clear(v, written + 1, merges[r])
                 /\ TokensInOrder => Lowest(v, r) /\ AtRound(s, v)
                 /\ Seqs!FlattenSeq(v) = Seqs!FlattenSeq(u)
  <2>1. CASE joins
    <3> DEFINE h == written + 1
               v == JoinedAt(u, h)
               e == word[read + 1] \o word[read + 2]
    <3>1. read + 1 < k /\ <<word[read + 1], word[read + 2]>> = merges[r]
      BY <1>4, <2>1 DEF k
    <3>2. word[read + 1] = merges[r][1] /\ word[read + 2] = merges[r][2]
      BY <1>3, <1>4a, <3>1, MergeIs
    <3>3. e \in Tokens /\ (MakesTokens => e \in Vocab) /\ pair[1] \o pair[2] = e
      BY <1>3, <1>4, <1>4a, <3>2, MergeIs DEF MakesTokens
    <3>4. word' = [word EXCEPT ![written + 1] = word[read + 1] \o word[read + 2]]
      BY <1>1, <2>1, <3>3
    <3>5. Unread' = v
      <4>1. Unread' = Left(word', written + 1, read + 2)
        BY <1>1, <1>7, <2>1
      <4>2. Left(word', written + 1, read + 2) = JoinedAt(Left(word, written, read), written + 1)
        BY <1>6, <3>1, <3>4, CopyJoin
      <4> QED
        BY <1>7, <4>1, <4>2
    <3>6. word' \in Seq(Tokens) /\ Len(word') = k /\ (MakesTokens => word' \in Seq(Vocab))
      <4> HIDE DEF e
      <4>1. word' = [word EXCEPT ![written + 1] = e]
        BY <3>4 DEF e
      <4> DEFINE z == [word EXCEPT ![written + 1] = e]
      <4>2. z \in Seq(Tokens) /\ Written(z, word, k, written, e)
        BY <1>1, <1>6, <3>3, WrittenIs
      <4>4. MakesTokens => z \in Seq(Vocab)
        BY <1>1, <1>6, <3>3, WrittenIs
      <4> HIDE DEF z
      <4>3. word' = z
        BY <4>1 DEF z
      <4> QED
        BY <4>2, <4>3, <4>4 DEF Written
    <3>7. h \in Places(u, r)
      <4>1. h \in 1..(Len(u) - 1) /\ h + 1 = written + 2
        BY <1>3, <1>5, <1>9, <3>1
      <4>2. <<u[h], u[h + 1]>> = merges[r]
        BY <1>9, <3>1, <4>1
      <4> QED
        BY <4>1, <4>2 DEF Places
    <3>8. h - 1 = written
      BY <1>3
    <3>9. Clear(u, h - 1, merges[r])
      BY <1>4, <3>8
    <3> HIDE DEF h
    <3>10. Clear(v, h, merges[r]) /\ (TokensInOrder => Lowest(v, r) /\ AtRound(s, v))
      <4>1. Clear(v, h, merges[r])
        BY <1>3, <1>9, <1>4a, <3>7, <3>9, ClearKept
      <4>2. TokensInOrder => Lowest(v, r) /\ AtRound(s, v)
        BY <1>3, <1>4, <1>9, <1>4a, <3>7, <3>9, RoundKept
      <4> QED
        BY <4>1, <4>2
    <3>11. h \in 1..(Len(u) - 1)
      BY <3>7 DEF Places
    <3>12. Seqs!FlattenSeq(v) = Seqs!FlattenSeq(u)
      BY <1>9, <3>11, JoinedSpells
    <3>14. written' <= read' /\ read' <= Len(word') /\ written' > 0
      BY <1>1, <1>3, <1>5, <2>1, <3>1, <3>6
    <3> QED
      BY <3>5, <3>6, <3>10, <3>12, <3>14 DEF h
  <2>2. CASE ~ joins
    <3>1. word' = [word EXCEPT ![written + 1] = word[read + 1]]
      BY <1>1, <2>2
    <3>2. /\ word' \in Seq(Tokens) /\ Len(word') = k /\ (MakesTokens => word' \in Seq(Vocab))
          /\ Left(word', written + 1, read + 1) = Left(word, written, read)
      <4> DEFINE z == [word EXCEPT ![written + 1] = word[read + 1]]
      <4>1. Copied(z, word, written, read)
        BY DEF Copied
      <4> HIDE DEF z
      <4>4. MakesTokens => z \in Seq(Vocab)
        BY <1>1, <1>6, <4>1, CopyPlain
      <4>2. z \in Seq(Tokens) /\ Len(z) = k /\ Left(z, written + 1, read + 1) = Left(word, written, read)
        BY <1>1, <1>6, <4>1, CopyPlain
      <4>3. word' = z
        BY <3>1 DEF z
      <4> QED
        BY <4>2, <4>3, <4>4
    <3>3. Unread' = u
      BY <1>1, <1>7, <2>2, <3>2
    <3>4. Clear(u, written + 1, merges[r])
      <4>1. SUFFICES ASSUME NEW x \in 1..(written + 1), x < Len(u) PROVE <<u[x], u[x + 1]>> # merges[r]
        BY DEF Clear
      <4>2. CASE x = written + 1
        <5>1. read + 1 < k /\ x + 1 = written + 2
          BY <1>3, <1>5, <1>9, <4>1, <4>2
        <5>2. <<word[read + 1], word[read + 2]>> # merges[r]
          BY <1>4, <2>2, <5>1 DEF k
        <5> QED
          BY <1>9, <4>2, <5>1, <5>2
      <4>3. CASE x # written + 1
        <5>1. x \in 1..written
          BY <1>3, <4>3
        <5> QED
          BY <1>4, <4>1, <5>1 DEF Clear
      <4> QED
        BY <4>2, <4>3
    <3>5. written' <= read' /\ read' <= Len(word') /\ written' > 0
      BY <1>1, <1>3, <1>5, <2>2, <3>2
    <3> QED
      BY <1>4, <1>4a, <3>2, <3>3, <3>4, <3>5
  <2> QED
    BY <2>1, <2>2
<1>11. PICK v : /\ Unread' = v /\ Clear(v, written + 1, merges[r])
                /\ TokensInOrder => Lowest(v, r) /\ AtRound(s, v)
                /\ Seqs!FlattenSeq(v) = Seqs!FlattenSeq(u)
  BY <1>10
<1>12. read' \in Nat /\ written' \in Nat
  BY <1>1, <1>3
<1>13. EncodeTypes'
  BY <1>1, <1>2, <1>10, <1>12, ListKept DEF EncodeTypes
<1>14. word' # <<>>
  <2>1. k # 0
    BY <1>3, <1>1
  <2> QED
    BY <1>10, <2>1
<1>15. Held'
  BY <1>1, <1>2, <1>14 DEF Held
<1>16. Passing'
  <2>1. TokensInOrder' => Lowest(Unread, r)'
    BY <1>1, <1>11, ListKept, LowestSame
  <2>2. Clear(Unread, written, merges[r])'
    BY <1>1, <1>11 DEF Clear
  <2>3. r \in Ranks' /\ pair' = merges'[r]
    BY <1>1, <1>4, ListKept
  <2> QED
    BY <1>10, <2>1, <2>2, <2>3 DEF Passing
<1>17. SameEnd'
  BY <1>1, <1>11, RoundSame DEF s
<1>18. NothingLost'
  <2> SUFFICES ASSUME MakesTokens PROVE NothingLost'
    BY <1>1, ListKept DEF NothingLost
  <2>1. (Symbols(Later))' = Symbols(Later)
    BY <1>1, <1>2, <1>14 DEF Later
  <2>2. (Spell(out) \o Spell(u)) \o Spell(Symbols(Later)) = Spell(Symbols(Norm(text)))
    BY <1>1, NothingLostIs DEF EncodeInv, u
  <2>3. Spell(v) = Spell(u)
    BY <1>11 DEF Spell
  <2>4. (Spell(out) \o Spell(v)) \o Spell(Symbols(Later)) = Spell(Symbols(Norm(text)))
    BY <2>2, <2>3
  <2> QED
    BY <1>1, <1>11, <2>1, <2>4 DEF NothingLost, Spell
<1> QED
  BY <1>13, <1>15, <1>16, <1>17, <1>18 DEF EncodeInv

(* The array is cut after the last entry written.                            *)
LEMMA CopyEndsKeeps == ASSUME EncodeInv, CopyEnds PROVE EncodeInv'
<1>1. /\ stage = "merge" /\ read >= Len(word) /\ word' = SubSeq(word, 1, written) /\ stage' = "scan"
      /\ merges' = merges /\ text' = text /\ pieces' = pieces /\ pair' = pair
      /\ read' = read /\ written' = written /\ out' = out
  BY DEF CopyEnds
<1>2. EncodeTypes /\ Passing /\ word # <<>> /\ pieces # <<>>
  BY <1>1 DEF EncodeInv, Held
<1>3. word \in Seq(Tokens) /\ (MakesTokens => word \in Seq(Vocab)) /\ read \in Nat /\ written \in Nat /\ Len(word) \in Nat
  BY <1>2 DEF EncodeTypes
<1>4. written <= read /\ read = Len(word) /\ written > 0
  <2>1. written <= read /\ read <= Len(word) /\ (read > 0 => written > 0)
    BY <1>1, <1>2 DEF Passing
  <2> QED
    BY <1>1, <1>2, <1>3, <2>1
<1> DEFINE v == SubSeq(word, 1, written)
<1>5. v \in Seq(Tokens) /\ (MakesTokens => v \in Seq(Vocab)) /\ Len(v) = written /\ v # <<>>
  <2>1. v \in Seq(Tokens) /\ Len(v) = written
    BY <1>3, <1>4, CutAt
  <2>2. MakesTokens => v \in Seq(Vocab)
    BY <1>3, <1>4, CutAt
  <2> HIDE DEF v
  <2> QED
    BY <1>3, <1>4, <2>1, <2>2
<1>6. Unread = v
  <2>1. Unread = v \o SubSeq(word, Len(word) + 1, Len(word))
    BY <1>1, <1>4 DEF Unread
  <2>2. SubSeq(word, Len(word) + 1, Len(word)) = <<>>
    BY <1>3
  <2> QED
    BY <1>5, <2>1, <2>2, ConcatEmptySeq
<1>7. word' = v
  BY <1>1
<1> HIDE DEF v
<1>8. Unread' = v
  BY <1>1, <1>7 DEF Unread
<1>9. EncodeTypes'
  BY <1>1, <1>2, <1>5, <1>7, ListKept DEF EncodeTypes
<1>10. Held' /\ Passing'
  BY <1>1, <1>2, <1>5, <1>7 DEF Held, Passing
<1>11. SameEnd'
  <2>1. TokensInOrder => AtRound(Symbols(Head(pieces)), v)
    BY <1>1, <1>6 DEF EncodeInv, SameEnd
  <2> QED
    BY <1>1, <1>8, <2>1, RoundSame
<1>12. NothingLost'
  <2> SUFFICES ASSUME MakesTokens PROVE NothingLost'
    BY <1>1, ListKept DEF NothingLost
  <2>1. (Symbols(Later))' = Symbols(Later)
    BY <1>1, <1>2, <1>5, <1>7 DEF Later
  <2>2. (Spell(out) \o Spell(v)) \o Spell(Symbols(Later)) = Spell(Symbols(Norm(text)))
    BY <1>1, <1>6, NothingLostIs DEF EncodeInv
  <2> QED
    BY <1>1, <1>8, <2>1, <2>2 DEF NothingLost, Spell
<1> QED
  BY <1>9, <1>10, <1>11, <1>12 DEF EncodeInv

(* The word moves from the array to the tokens found.                        *)
LEMMA EmitKeeps == ASSUME EncodeInv, Emit PROVE EncodeInv'
<1>1. /\ stage = "scan"
      /\ out' = out \o [k \in DOMAIN word |-> IF word[k] \in Vocab THEN word[k] ELSE <<Unk>>]
      /\ word' = <<>> /\ pieces' = Tail(pieces) /\ stage' = "piece"
      /\ merges' = merges /\ text' = text /\ pair' = pair /\ read' = read /\ written' = written
  BY DEF Emit
<1>2. EncodeTypes /\ word # <<>> /\ pieces # <<>>
  BY <1>1 DEF EncodeInv, Held
<1>3. /\ word \in Seq(Tokens) /\ (MakesTokens => word \in Seq(Vocab))
      /\ out \in Seq(Vocab) /\ out \in Seq(Tokens) /\ pieces \in Seq(Piece)
  BY <1>2, VocabIs DEF EncodeTypes
<1>3a. out' \in Seq(Vocab)
  <2> DEFINE w == [k \in DOMAIN word |-> IF word[k] \in Vocab THEN word[k] ELSE <<Unk>>]
  <2>1. w \in [1..Len(word) -> Vocab] /\ Len(word) \in Nat
    BY <1>3, VocabAssumption
  <2>2. w \in Seq(Vocab)
    BY <2>1
  <2> HIDE DEF w
  <2>3. out' = out \o w
    BY <1>1 DEF w
  <2> QED
    BY <1>3, <2>2, <2>3, ConcatProperties
<1>4. ASSUME MakesTokens PROVE out' = out \o word
  <2>1. \A k \in DOMAIN word : word[k] \in Vocab
    BY <1>3, <1>4
  <2>2. [k \in DOMAIN word |-> IF word[k] \in Vocab THEN word[k] ELSE <<Unk>>] = [k \in DOMAIN word |-> word[k]]
    BY <2>1
  <2>3. [k \in DOMAIN word |-> word[k]] = word
    BY <1>3
  <2> QED
    BY <1>1, <2>2, <2>3
<1>5. /\ out \o word \in Seq(Tokens) /\ Tail(pieces) \in Seq(Piece)
      /\ Spell(out \o word) = Spell(out) \o Spell(word)
  BY <1>2, <1>3, SpellIs, PiecesSpelled
<1>6. EncodeTypes'
  BY <1>1, <1>2, <1>5, <1>3a, EmptySeq DEF EncodeTypes
<1>7. Held' /\ Passing' /\ SameEnd'
  BY <1>1 DEF Held, Passing, SameEnd
<1>8. NothingLost'
  <2> SUFFICES ASSUME MakesTokens PROVE NothingLost'
    BY <1>1, ListKept DEF NothingLost
  <2>1. (Symbols(Later))' = Symbols(Later) /\ Unread = word /\ Unread' = <<>>
    BY <1>1, <1>2 DEF Later, Unread
  <2>2. (Spell(out) \o Spell(word)) \o Spell(Symbols(Later)) = Spell(Symbols(Norm(text)))
    BY <1>1, <2>1, NothingLostIs DEF EncodeInv
  <2> DEFINE o == out \o word
  <2>3. Spell(o) \in Seq(Chars) /\ Spell(o) = Spell(out) \o Spell(word)
    BY <1>5, SpellIs
  <2> HIDE DEF o
  <2>4. Spell(o) \o Spell(<<>>) = Spell(o)
    BY <2>3, SpellIs, ConcatEmptySeq
  <2>5. (Spell(o) \o Spell(<<>>)) \o Spell(Symbols(Later)) = Spell(Symbols(Norm(text)))
    BY <2>2, <2>3, <2>4
  <2>6. out' = o
    BY <1>4 DEF o
  <2> QED
    BY <1>1, <2>1, <2>5, <2>6 DEF NothingLost, Spell
<1> QED
  BY <1>6, <1>7, <1>8 DEF EncodeInv

LEMMA FinishKeeps == ASSUME EncodeInv, Finish PROVE EncodeInv'
<1>1. /\ stage = "piece" /\ stage' = "done"
      /\ merges' = merges /\ text' = text /\ pieces' = pieces /\ word' = word /\ pair' = pair
      /\ read' = read /\ written' = written /\ out' = out
  BY DEF Finish
<1>2. EncodeTypes' /\ Held' /\ Passing' /\ SameEnd'
  BY <1>1, ListKept DEF EncodeInv, EncodeTypes, Held, Passing, SameEnd
<1>3. NothingLost'
  BY <1>1, ListKept DEF EncodeInv, NothingLost, Unread, Later
<1> QED
  BY <1>2, <1>3 DEF EncodeInv

LEMMA NothingKeeps == ASSUME EncodeInv, UNCHANGED encodeVars PROVE EncodeInv'
<1>1. /\ merges' = merges /\ text' = text /\ stage' = stage /\ pieces' = pieces /\ word' = word
      /\ pair' = pair /\ read' = read /\ written' = written /\ out' = out
  BY DEF encodeVars
<1>2. EncodeTypes' /\ Held' /\ Unread' = Unread
  BY <1>1, ListKept DEF EncodeInv, EncodeTypes, Held, Unread
<1>3. NothingLost'
  BY <1>1, <1>2, ListKept DEF EncodeInv, NothingLost, Later
<1>4. SameEnd'
  <2>1. CASE stage \in {"scan", "merge"}
    <3>1. TokensInOrder => AtRound(Symbols(Head(pieces)), Unread)
      BY <2>1 DEF EncodeInv, SameEnd
    <3> QED
      BY <1>1, <1>2, <3>1, RoundSame
  <2>2. CASE stage \notin {"scan", "merge"}
    BY <1>1, <2>2 DEF SameEnd
  <2> QED
    BY <2>1, <2>2
<1>5. Passing'
  <2> SUFFICES ASSUME stage = "merge" PROVE Passing'
    BY <1>1 DEF Passing
  <2>1. PICK r \in Ranks : /\ pair = merges[r] /\ Clear(Unread, written, merges[r])
                           /\ TokensInOrder => Lowest(Unread, r)
    BY DEF EncodeInv, Passing
  <2>2. Clear(Unread, written, merges[r])'
    BY <1>1, <1>2, <2>1 DEF Clear
  <2>3. TokensInOrder' => Lowest(Unread, r)'
    BY <1>1, <1>2, <2>1, ListKept, LowestSame
  <2> QED
    BY <1>1, <2>1, <2>2, <2>3, ListKept DEF EncodeInv, Passing
<1> QED
  BY <1>2, <1>3, <1>4, <1>5 DEF EncodeInv

(* In every reachable state of encoding, for every vocabulary, merge list    *)
(* and text: the invariant above holds.                                      *)
THEOREM EncodeInvariant == EncodeSpec => []EncodeInv
<1>1. EncodeInit => EncodeInv
  BY InvInit
<1>2. EncodeInv /\ [EncodeNext]_encodeVars => EncodeInv'
  BY SplitKeeps, StartPieceKeeps, ScanKeeps, CopyStepKeeps, CopyEndsKeeps, EmitKeeps, FinishKeeps,
     NothingKeeps DEF EncodeNext, EncodeRest
<1> QED
  BY <1>1, <1>2, PTL DEF EncodeSpec

(* NothingLost: no merge, split or reuse of the array in Encode of           *)
(* tokenizer.go drops or doubles a part of the text.                         *)
THEOREM TextKept == EncodeSpec => []NothingLost
<1>1. EncodeInv => NothingLost
  BY DEF EncodeInv
<1> QED
  BY <1>1, EncodeInvariant, PTL

(* MergesAgree: joining all places of a pair in one pass ends in the tokens  *)
(* that joining one place at a time, as the reference tokenizer does, ends   *)
(* in - for every text, and every list that makes its own tokens in order of *)
(* rank when they are merged alone.                                          *)
THEOREM SameTokens == EncodeSpec => []MergesAgree
<1>1. EncodeInv => MergesAgree
  BY DEF EncodeInv, SameEnd, AtRound, MergesAgree, Unread
<1> QED
  BY <1>1, EncodeInvariant, PTL

-----------------------------------------------------------------------------
(* Objects *)

(* What an object is when the first n of the pairs are in it.                *)
Grown(o, ps, S, n) ==
    /\ o = Obj(o.keys, o.M) /\ o.keys \in Seq(S) /\ Len(o.keys) = n
    /\ \A i \in 1..n : o.keys[i] = ps[i][1]
    /\ DOMAIN o.M = {ps[i][1] : i \in 1..n} /\ o.M = [k \in DOMAIN o.M |-> o.M[k]]
    /\ \A i \in 1..n : \E j \in i..n : ps[j][1] = ps[i][1] /\ o.M[ps[i][1]] = ps[j][2]

GrownTo(f, ps, n) == f = [m \in 0..n |-> IF m = 0 THEN Empty ELSE Appended(f[m - 1], ps[m])]

LEMMA GrownNext ==
    ASSUME NEW S, NEW ps, NEW n \in Nat, NEW o, Grown(o, ps, S, n), ps[n + 1][1] \in S
    PROVE  Grown(Appended(o, ps[n + 1]), ps, S, n + 1)
<1> DEFINE p == ps[n + 1]
           w == Appended(o, p)
<1>1. w.keys = Append(o.keys, p[1]) /\ w.M = Stored(o.M, p[1], p[2]) /\ w = Obj(w.keys, w.M)
  BY DEF Appended, Obj
<1>2. /\ o.keys \in Seq(S) /\ Len(o.keys) = n /\ p[1] \in S
      /\ \A i \in 1..n : o.keys[i] = ps[i][1]
  BY DEF Grown
<1>3. /\ DOMAIN o.M = {ps[i][1] : i \in 1..n}
      /\ \A i \in 1..n : \E j \in i..n : ps[j][1] = ps[i][1] /\ o.M[ps[i][1]] = ps[j][2]
  BY DEF Grown
<1>4. p = ps[n + 1]
  OBVIOUS
<1> HIDE DEF w, p
<1>5. w.keys \in Seq(S) /\ Len(w.keys) = n + 1
  BY <1>1, <1>2, AppendProperties
<1>6. \A i \in 1..n : w.keys[i] = o.keys[i]
  BY <1>1, <1>2, AppendProperties
<1>7. w.keys[n + 1] = p[1]
  BY <1>1, <1>2, AppendProperties
<1>8. \A i \in 1..(n + 1) : i \in 1..n \/ i = n + 1
  OBVIOUS
<1>9. \A i \in 1..(n + 1) : w.keys[i] = ps[i][1]
  BY <1>2, <1>4, <1>6, <1>7, <1>8
<1>10. DOMAIN w.M = DOMAIN o.M \cup {p[1]} /\ w.M = [k \in DOMAIN w.M |-> w.M[k]]
  BY <1>1 DEF Stored
<1>11. DOMAIN w.M = {ps[i][1] : i \in 1..(n + 1)}
  <2>1. n + 1 \in 1..(n + 1) /\ \A i \in 1..n : i \in 1..(n + 1)
    OBVIOUS
  <2> QED
    BY <1>3, <1>4, <1>8, <1>10, <2>1
<1>12. w.M[p[1]] = p[2] /\ \A k \in DOMAIN o.M : k # p[1] => w.M[k] = o.M[k]
  BY <1>1 DEF Stored
<1>13. ASSUME NEW i \in 1..(n + 1)
       PROVE  \E j \in i..(n + 1) : ps[j][1] = ps[i][1] /\ w.M[ps[i][1]] = ps[j][2]
  <2>1. n + 1 \in i..(n + 1)
    OBVIOUS
  <2>2. CASE ps[i][1] = p[1]
    BY <1>4, <1>12, <2>1, <2>2
  <2>3. CASE ps[i][1] # p[1]
    <3>1. i \in 1..n
      BY <1>4, <1>8, <2>3
    <3>2. PICK j \in i..n : ps[j][1] = ps[i][1] /\ o.M[ps[i][1]] = ps[j][2]
      BY <1>3, <3>1
    <3>3. j \in i..(n + 1)
      BY <3>1, <3>2
    <3>4. w.M[ps[i][1]] = o.M[ps[i][1]]
      BY <1>3, <1>12, <2>3, <3>1
    <3> QED
      BY <3>2, <3>3, <3>4
  <2> QED
    BY <2>2, <2>3
<1>14. Grown(w, ps, S, n + 1)
  BY <1>1, <1>5, <1>9, <1>10, <1>11, <1>13 DEF Grown
<1> QED
  BY <1>4, <1>14 DEF w

LEMMA GrowingExists == ASSUME NEW ps, NEW n \in Nat PROVE \E f : GrownTo(f, ps, n)
<1> DEFINE N == {m \in Nat : \E f : GrownTo(f, ps, m)}
<1>1. 0 \in N
  <2> DEFINE f == [m \in 0..0 |-> Empty]
  <2>1. f = [m \in 0..0 |-> IF m = 0 THEN Empty ELSE Appended(f[m - 1], ps[m])]
    OBVIOUS
  <2> HIDE DEF f
  <2> QED
    BY <2>1 DEF GrownTo
<1>2. ASSUME NEW m \in Nat, m \in N PROVE m + 1 \in N
  <2>1. PICK f : GrownTo(f, ps, m)
    BY <1>2
  <2>2. \A i \in 0..m : f[i] = IF i = 0 THEN Empty ELSE Appended(f[i - 1], ps[i])
    BY <2>1 DEF GrownTo
  <2> DEFINE g == [i \in 0..(m + 1) |-> IF i = m + 1 THEN Appended(f[m], ps[m + 1]) ELSE f[i]]
  <2>3. g[m + 1] = Appended(f[m], ps[m + 1]) /\ \A i \in 0..m : g[i] = f[i]
    OBVIOUS
  <2>4. DOMAIN g = 0..(m + 1) /\ g = [i \in 0..(m + 1) |-> g[i]]
    OBVIOUS
  <2> HIDE DEF g
  <2>5. ASSUME NEW i \in 0..(m + 1) PROVE g[i] = IF i = 0 THEN Empty ELSE Appended(g[i - 1], ps[i])
    <3>1. CASE i = m + 1
      <4>1. i # 0 /\ i - 1 = m /\ m \in 0..m
        BY <3>1
      <4> QED
        BY <2>3, <3>1, <4>1
    <3>2. CASE i # m + 1
      <4>1. i \in 0..m /\ (i # 0 => i - 1 \in 0..m)
        BY <3>2
      <4> QED
        BY <2>2, <2>3, <4>1
    <3> QED
      BY <3>1, <3>2
  <2>6. GrownTo(g, ps, m + 1)
    BY <2>4, <2>5 DEF GrownTo
  <2> QED
    BY <2>6
<1> HIDE DEF N
<1>3. n \in N
  BY <1>1, <1>2, NumbersInSet
<1> QED
  BY <1>3 DEF N

(* An object lists its keys in the order of the pairs, and holds for each    *)
(* the value of the last pair with that key.                                 *)
LEMMA ObjectIs ==
    ASSUME NEW S, NEW ps, NEW n \in Nat, Len(ps) = n, \A i \in 1..n : ps[i][1] \in S
    PROVE  Grown(Object(ps), ps, S, n)
<1> DEFINE g == CHOOSE g : g = [m \in 0..n |-> IF m = 0 THEN Empty ELSE Appended(g[m - 1], ps[m])]
<1>1. Object(ps) = g[n]
  BY DEF Object
<1>2. g = [m \in 0..n |-> IF m = 0 THEN Empty ELSE Appended(g[m - 1], ps[m])]
  <2>1. \E f : f = [m \in 0..n |-> IF m = 0 THEN Empty ELSE Appended(f[m - 1], ps[m])]
    BY GrowingExists DEF GrownTo
  <2> QED
    BY <2>1
<1> HIDE DEF g
<1>3. \A m \in 0..n : g[m] = IF m = 0 THEN Empty ELSE Appended(g[m - 1], ps[m])
  BY <1>2
<1> DEFINE N == {m \in Nat : m <= n => Grown(g[m], ps, S, m)}
<1>4. 0 \in N
  <2>1. g[0] = Empty
    BY <1>3
  <2>2. Empty.keys = <<>> /\ Empty.M = <<>> /\ Empty = Obj(Empty.keys, Empty.M)
    BY DEF Empty, Obj
  <2>3. /\ <<>> \in Seq(S) /\ Len(<<>>) = 0 /\ DOMAIN <<>> = {} /\ 1..0 = {}
        /\ <<>> = [k \in DOMAIN <<>> |-> <<>>[k]]
    OBVIOUS
  <2>4. Grown(Empty, ps, S, 0)
    BY <2>2, <2>3 DEF Grown
  <2> QED
    BY <2>1, <2>4
<1>5. ASSUME NEW m \in Nat, m \in N PROVE m + 1 \in N
  <2> SUFFICES ASSUME m + 1 <= n PROVE Grown(g[m + 1], ps, S, m + 1)
    OBVIOUS
  <2>1. m + 1 \in 0..n /\ m + 1 # 0 /\ (m + 1) - 1 = m /\ m + 1 \in 1..n /\ m <= n
    OBVIOUS
  <2>2. g[m + 1] = Appended(g[m], ps[m + 1])
    BY <1>3, <2>1
  <2>3. Grown(g[m], ps, S, m) /\ ps[m + 1][1] \in S
    BY <1>5, <2>1
  <2> QED
    BY <2>2, <2>3, GrownNext
<1> HIDE DEF N
<1>6. n \in N
  BY <1>4, <1>5, NumbersInSet
<1>7. Grown(g[n], ps, S, n)
  BY <1>6 DEF N
<1> QED
  BY <1>1, <1>7

(* Decoding *)

LEMMA DecodingExists ==
    ASSUME NEW n \in Nat
    PROVE  \E f : f = [m \in 0..n |-> [x \in Docs |-> DecodedOver(x, IF m = 0 THEN <<>> ELSE f[m - 1])]]
<1> DEFINE T(f, m) == f = [i \in 0..m |-> [x \in Docs |-> DecodedOver(x, IF i = 0 THEN <<>> ELSE f[i - 1])]]
           N == {m \in Nat : \E f : T(f, m)}
<1>1. 0 \in N
  <2> DEFINE f == [m \in 0..0 |-> [x \in Docs |-> DecodedOver(x, <<>>)]]
  <2>1. T(f, 0)
    OBVIOUS
  <2> QED
    BY <2>1
<1>2. ASSUME NEW m \in Nat, m \in N PROVE m + 1 \in N
  <2>1. PICK f : T(f, m)
    BY <1>2
  <2>2. \A i \in 0..m : f[i] = [x \in Docs |-> DecodedOver(x, IF i = 0 THEN <<>> ELSE f[i - 1])]
    BY <2>1
  <2> DEFINE g == [i \in 0..(m + 1) |->
                     IF i = m + 1 THEN [x \in Docs |-> DecodedOver(x, f[m])] ELSE f[i]]
  <2>3. g[m + 1] = [x \in Docs |-> DecodedOver(x, f[m])] /\ \A i \in 0..m : g[i] = f[i]
    OBVIOUS
  <2>4. DOMAIN g = 0..(m + 1) /\ g = [i \in 0..(m + 1) |-> g[i]]
    OBVIOUS
  <2> HIDE DEF g
  <2>5. ASSUME NEW i \in 0..(m + 1)
        PROVE  g[i] = [x \in Docs |-> DecodedOver(x, IF i = 0 THEN <<>> ELSE g[i - 1])]
    <3>1. CASE i = m + 1
      <4>1. i # 0 /\ i - 1 = m /\ m \in 0..m
        BY <3>1
      <4> QED
        BY <2>3, <3>1, <4>1
    <3>2. CASE i # m + 1
      <4>1. i \in 0..m /\ (i # 0 => i - 1 \in 0..m)
        BY <3>2
      <4> QED
        BY <2>2, <2>3, <4>1
    <3> QED
      BY <3>1, <3>2
  <2>6. T(g, m + 1)
    BY <2>4, <2>5
  <2> QED
    BY <2>6
<1> HIDE DEF N
<1>3. n \in N
  BY <1>1, <1>2, NumbersInSet
<1> QED
  BY <1>3 DEF N

(* A document is decoded from what is decoded of those inside it.            *)
LEMMA DecodedIs == \E inside : \A d \in Docs : Decoded[d] = DecodedOver(d, inside)
<1> DEFINE g == CHOOSE g : g = [m \in 0..Depth |->
                                  [x \in Docs |-> DecodedOver(x, IF m = 0 THEN <<>> ELSE g[m - 1])]]
<1>1. Decoded = g[Depth]
  BY DEF Decoded
<1>2. Depth \in Nat
  BY DocAssumption
<1>3. g = [m \in 0..Depth |-> [x \in Docs |-> DecodedOver(x, IF m = 0 THEN <<>> ELSE g[m - 1])]]
  BY <1>2, DecodingExists
<1> HIDE DEF g
<1>4. Depth \in 0..Depth
  BY <1>2
<1>5. g[Depth] = [x \in Docs |-> DecodedOver(x, IF Depth = 0 THEN <<>> ELSE g[Depth - 1])]
  BY <1>3, <1>4
<1> QED
  BY <1>1, <1>5

LEMMA NestedExists ==
    ASSUME NEW n \in Nat
    PROVE  \E f : f = [m \in 0..n |-> {d \in Docs : d \in Nesting(IF m = 0 THEN {} ELSE f[m - 1])}]
<1> DEFINE T(f, m) == f = [i \in 0..m |-> {d \in Docs : d \in Nesting(IF i = 0 THEN {} ELSE f[i - 1])}]
           N == {m \in Nat : \E f : T(f, m)}
<1>1. 0 \in N
  <2> DEFINE f == [m \in 0..0 |-> {d \in Docs : d \in Nesting({})}]
  <2>1. T(f, 0)
    OBVIOUS
  <2> QED
    BY <2>1
<1>2. ASSUME NEW m \in Nat, m \in N PROVE m + 1 \in N
  <2>1. PICK f : T(f, m)
    BY <1>2
  <2>2. \A i \in 0..m : f[i] = {d \in Docs : d \in Nesting(IF i = 0 THEN {} ELSE f[i - 1])}
    BY <2>1
  <2> DEFINE g == [i \in 0..(m + 1) |->
                     IF i = m + 1 THEN {d \in Docs : d \in Nesting(f[m])} ELSE f[i]]
  <2>3. g[m + 1] = {d \in Docs : d \in Nesting(f[m])} /\ \A i \in 0..m : g[i] = f[i]
    OBVIOUS
  <2>4. DOMAIN g = 0..(m + 1) /\ g = [i \in 0..(m + 1) |-> g[i]]
    OBVIOUS
  <2> HIDE DEF g
  <2>5. ASSUME NEW i \in 0..(m + 1)
        PROVE  g[i] = {d \in Docs : d \in Nesting(IF i = 0 THEN {} ELSE g[i - 1])}
    <3>1. CASE i = m + 1
      <4>1. i # 0 /\ i - 1 = m /\ m \in 0..m
        BY <3>1
      <4> QED
        BY <2>3, <3>1, <4>1
    <3>2. CASE i # m + 1
      <4>1. i \in 0..m /\ (i # 0 => i - 1 \in 0..m)
        BY <3>2
      <4> QED
        BY <2>2, <2>3, <4>1
    <3> QED
      BY <3>1, <3>2
  <2>6. T(g, m + 1)
    BY <2>4, <2>5
  <2> QED
    BY <2>6
<1> HIDE DEF N
<1>3. n \in N
  BY <1>1, <1>2, NumbersInSet
<1> QED
  BY <1>3 DEF N

(* The documents, level by level.                                            *)
Levels(f) ==
    /\ \A m \in 0..Depth : f[m] = {d \in Docs : d \in Nesting(IF m = 0 THEN {} ELSE f[m - 1])}
    /\ Docs = f[Depth]

LEMMA LevelsExist == \E f : Levels(f)
<1> DEFINE g == CHOOSE g : g = [m \in 0..Depth |-> {d \in Docs : d \in Nesting(IF m = 0 THEN {} ELSE g[m - 1])}]
<1>1. NestedTo(Depth) = g[Depth]
  BY DEF NestedTo
<1>2. Depth \in Nat /\ Docs = NestedTo(Depth)
  BY DocAssumption
<1>3. g = [m \in 0..Depth |-> {d \in Docs : d \in Nesting(IF m = 0 THEN {} ELSE g[m - 1])}]
  BY <1>2, NestedExists
<1> HIDE DEF g
<1>4. \A m \in 0..Depth : g[m] = {d \in Docs : d \in Nesting(IF m = 0 THEN {} ELSE g[m - 1])}
  BY <1>3
<1> QED
  BY <1>1, <1>2, <1>4 DEF Levels

LEMMA NestingGrows == ASSUME NEW A, NEW B, A \subseteq B PROVE Nesting(A) \subseteq Nesting(B)
<1>1. Seq(A) \subseteq Seq(B) /\ Seq(Seq(Alphabet) \X A) \subseteq Seq(Seq(Alphabet) \X B)
  OBVIOUS
<1> QED
  BY <1>1 DEF Nesting

LEMMA DocsIs == Docs \subseteq Nesting(Docs)
<1>1. PICK f : Levels(f)
  BY LevelsExist
<1>2. Depth \in 0..Depth
  BY DocAssumption
<1>3. Docs \subseteq Nesting(IF Depth = 0 THEN {} ELSE f[Depth - 1])
  BY <1>1, <1>2 DEF Levels
<1>4. (IF Depth = 0 THEN {} ELSE f[Depth - 1]) \subseteq Docs
  <2>1. Depth # 0 => Depth - 1 \in 0..Depth
    BY DocAssumption
  <2>2. Depth # 0 => f[Depth - 1] \subseteq Docs
    BY <1>1, <2>1 DEF Levels
  <2> QED
    BY <2>2
<1> QED
  BY <1>3, <1>4, NestingGrows

(* Lists of options *)

LEMMA LabelledIs ==
    ASSUME NEW ps, NEW n \in Nat, Len(ps) = n
    PROVE  \E S : Grown(Object(ps), ps, S, n)
<1> DEFINE S == {ps[i][1] : i \in 1..n}
<1>1. \A i \in 1..n : ps[i][1] \in S
  OBVIOUS
<1> HIDE DEF S
<1> QED
  BY <1>1, ObjectIs

(* An object with n keys.                                                    *)
Keyed(o, n) == o.kind = "obj" /\ (\E S : o.keys \in Seq(S)) /\ Len(o.keys) = n

LEMMA ObjectKeyed ==
    ASSUME NEW ps, NEW n \in Nat, Len(ps) = n
    PROVE  Keyed(Object(ps), n)
<1> DEFINE o == Object(ps)
<1>1. PICK S : Grown(o, ps, S, n)
  BY LabelledIs
<1> HIDE DEF o
<1>2. o = Obj(o.keys, o.M) /\ o.keys \in Seq(S) /\ Len(o.keys) = n
  BY <1>1 DEF Grown
<1>3. o.kind = "obj"
  BY <1>2 DEF Obj
<1>4. Keyed(o, n)
  BY <1>2, <1>3 DEF Keyed
<1> QED
  BY <1>4 DEF o

(* What the decoder makes of the three kinds of documents.                   *)
LEMMA DocKinds ==
    ASSUME NEW d \in Docs
    PROVE  /\ d.kind = "doc" => d = Doc(d.pairs) /\ Len(d.pairs) \in Nat /\ DOMAIN d.pairs = 1..Len(d.pairs)
           /\ d.kind = "arr" => d = Arr(d.items) /\ Len(d.items) \in Nat /\ DOMAIN d.items = 1..Len(d.items)
           /\ d.kind = "arr" => (Len(d.items) = 0 <=> d.items = <<>>)
           /\ d.kind = "doc" => (Len(d.pairs) = 0 <=> d.pairs = <<>>)
           /\ d.kind \in {"str", "num", "word", "doc", "arr"}
<1>1. d \in Nesting(Docs)
  BY DocsIs
<1> DEFINE Inside == Seq(Seq(Alphabet) \X Docs)
<1>2. CASE d \in Scalars
  BY <1>2 DEF Scalars
<1>3. CASE d \in [kind : {"arr"}, items : Seq(Docs)]
  <2>1. d.kind = "arr" /\ d = Arr(d.items) /\ d.items \in Seq(Docs)
    BY <1>3 DEF Arr
  <2> QED
    BY <2>1
<1>4. CASE d \in [kind : {"doc"}, pairs : Inside]
  <2>1. d.kind = "doc" /\ d = Doc(d.pairs) /\ d.pairs \in Inside
    BY <1>4 DEF Doc
  <2> HIDE DEF Inside
  <2>2. d.pairs \in Seq(Seq(Alphabet) \X Docs)
    BY <2>1 DEF Inside
  <2> QED
    BY <2>1, <2>2
<1> QED
  BY <1>1, <1>2, <1>3, <1>4 DEF Nesting

LEMMA DecodedKinds ==
    ASSUME NEW d \in Docs
    PROVE  /\ d.kind = "doc" => Keyed(Decoded[d], Len(d.pairs))
           /\ d.kind = "arr" => /\ Decoded[d].kind = "arr" /\ DOMAIN Decoded[d].items = 1..Len(d.items)
                                /\ (\E S : Decoded[d].items \in Seq(S)) /\ Len(Decoded[d].items) = Len(d.items)
           /\ d.kind \notin {"doc", "arr"} => Decoded[d] = d
<1>1. PICK inside : \A x \in Docs : Decoded[x] = DecodedOver(x, inside)
  BY DecodedIs
<1>2. Decoded[d] = DecodedOver(d, inside)
  BY <1>1
<1>3. ASSUME d.kind = "doc" PROVE Keyed(Decoded[d], Len(d.pairs))
  <2> DEFINE ps == [i \in DOMAIN d.pairs |-> <<d.pairs[i][1], inside[d.pairs[i][2]]>>]
             n == Len(d.pairs)
  <2>1. n \in Nat /\ DOMAIN d.pairs = 1..n
    BY <1>3, DocKinds
  <2>2. Decoded[d] = Object(ps)
    BY <1>2, <1>3 DEF DecodedOver
  <2> HIDE DEF n
  <2>3. Len(ps) = n
    BY <2>1
  <2> HIDE DEF ps
  <2>4. Keyed(Object(ps), n)
    BY <2>1, <2>3, ObjectKeyed
  <2> QED
    BY <2>2, <2>4 DEF n
<1>4. ASSUME d.kind = "arr"
      PROVE  /\ Decoded[d].kind = "arr" /\ DOMAIN Decoded[d].items = 1..Len(d.items)
             /\ (\E S : Decoded[d].items \in Seq(S)) /\ Len(Decoded[d].items) = Len(d.items)
  <2> DEFINE its == [i \in DOMAIN d.items |-> inside[d.items[i]]]
             n == Len(d.items)
  <2>1. n \in Nat /\ DOMAIN d.items = 1..n
    BY <1>4, DocKinds
  <2>2. Decoded[d] = Arr(its)
    BY <1>2, <1>4 DEF DecodedOver
  <2>3. Decoded[d].kind = "arr" /\ Decoded[d].items = its
    BY <2>2 DEF Arr
  <2> DEFINE S == {inside[d.items[i]] : i \in 1..n}
  <2> HIDE DEF n
  <2>4. DOMAIN its = 1..n /\ its \in [1..n -> S]
    BY <2>1
  <2> HIDE DEF its, S
  <2>5. its \in Seq(S) /\ Len(its) = n
    BY <2>1, <2>4
  <2> QED
    BY <2>3, <2>4, <2>5 DEF n
<1>5. ASSUME d.kind \notin {"doc", "arr"} PROVE Decoded[d] = d
  BY <1>2, <1>5 DEF DecodedOver
<1> QED
  BY <1>3, <1>4, <1>5

(* What ToInternal leaves of the criteria: the options of a choice, of which *)
(* there are as many as are listed, and those of a score.                    *)
LEMMA ChoiceIs ==
    ASSUME NEW d, d.criteria \in Docs, d.type = "choice"
    PROVE  /\ Internal(d).Crit = Null <=> d.criteria.kind \notin {"arr", "doc"}
           /\ Internal(d).Crit # Null => /\ Keyed(Internal(d).Crit, OptionCount(d)) /\ OptionCount(d) \in Nat
                                         /\ OptionCount(d) = 0 <=> d.criteria \in {Arr(<<>>), Doc(<<>>)}
<1> DEFINE e == d.criteria
           crit == Internal(d).Crit
           c == Criteria(d)
<1>1. crit = IF c.kind = "obj" THEN c ELSE Null
  BY DEF Internal
<1>2. Null.kind = "word"
  BY DEF Null, Word
<1>3. ASSUME NEW n, Keyed(c, n) PROVE crit = c /\ crit # Null /\ Keyed(crit, n)
  BY <1>1, <1>2, <1>3 DEF Keyed
<1>4. CASE e.kind = "doc"
  <2>0. Decoded[e].kind = "obj"
    BY <1>4, DecodedKinds DEF Keyed
  <2>1. c = Decoded[e]
    BY <2>0 DEF Criteria
  <2>2. Keyed(c, Len(e.pairs)) /\ OptionCount(d) = Len(e.pairs)
    BY <1>4, <2>1, DecodedKinds DEF OptionCount
  <2>3. Len(e.pairs) \in Nat /\ (Len(e.pairs) = 0 <=> e = Doc(<<>>)) /\ e # Arr(<<>>)
    <3>1. e = Doc(e.pairs) /\ Len(e.pairs) \in Nat /\ (Len(e.pairs) = 0 <=> e.pairs = <<>>)
      BY <1>4, DocKinds
    <3>2. Arr(<<>>).kind = "arr" /\ Doc(<<>>).pairs = <<>>
      BY DEF Arr, Doc
    <3> QED
      BY <1>4, <3>1, <3>2
  <2> HIDE DEF c, crit
  <2> QED
    BY <1>3, <1>4, <2>2, <2>3 DEF crit
<1>5. CASE e.kind = "arr"
  <2> DEFINE its == Decoded[e].items
             ps == [i \in DOMAIN its |-> <<Label(its[i]), Null>>]
             n == Len(e.items)
  <2>1. Decoded[e].kind = "arr" /\ DOMAIN its = 1..n /\ n \in Nat
    BY <1>5, DecodedKinds, DocKinds
  <2>2. c = Object(ps)
    BY <1>5, <2>1 DEF Criteria
  <2>3. OptionCount(d) = n
    BY <1>5 DEF OptionCount
  <2>4. (n = 0 <=> e = Arr(<<>>)) /\ e # Doc(<<>>)
    <3>1. e = Arr(e.items) /\ Len(e.items) \in Nat /\ (Len(e.items) = 0 <=> e.items = <<>>)
      BY <1>5, DocKinds
    <3>2. Doc(<<>>).kind = "doc" /\ Arr(<<>>).items = <<>>
      BY DEF Arr, Doc
    <3> QED
      BY <1>5, <3>1, <3>2
  <2> HIDE DEF its, n
  <2>5. Len(ps) = n
    BY <2>1
  <2> HIDE DEF ps
  <2>6. Keyed(c, n)
    BY <2>1, <2>2, <2>5, ObjectKeyed
  <2> HIDE DEF c, crit
  <2> QED
    BY <1>3, <1>5, <2>1, <2>3, <2>4, <2>6 DEF crit
<1>6. CASE e.kind \notin {"arr", "doc"}
  <2>1. Decoded[e] = e /\ e.kind # "obj"
    BY <1>6, DecodedKinds, DocKinds
  <2>2. c = e
    BY <1>6, <2>1 DEF Criteria
  <2> HIDE DEF c
  <2>3. crit = Null
    BY <1>1, <2>1, <2>2
  <2> HIDE DEF crit
  <2> QED
    BY <1>6, <2>3 DEF crit
<1> QED
  BY <1>4, <1>5, <1>6

LEMMA ScoreIs ==
    ASSUME NEW d, d.criteria \in Docs, d.type = "score", Internal(d).CritList # <<>>
    PROVE  /\ DOMAIN Internal(d).CritList = 1..OptionCount(d)
           /\ OptionCount(d) \in Nat /\ OptionCount(d) >= 1
<1> DEFINE e == d.criteria
           cs == Internal(d).CritList
           c == Criteria(d)
<1>1. cs = IF c.kind = "arr" THEN c.items ELSE <<>>
  BY DEF Internal
<1>2. c = Decoded[e]
  <2>1. d.type # "choice"
    OBVIOUS
  <2> QED
    BY <2>1 DEF Criteria
<1>3. c.kind = "arr"
  BY <1>1
<1>4. e.kind = "arr"
  <2>1. e.kind # "doc"
    BY <1>2, <1>3, DecodedKinds DEF Keyed
  <2>2. e.kind \notin {"doc", "arr"} => c = e
    BY <1>2, DecodedKinds
  <2> QED
    BY <1>3, <2>1, <2>2
<1> DEFINE n == Len(e.items)
<1>5. n \in Nat /\ OptionCount(d) = n /\ cs = Decoded[e].items /\ DOMAIN cs = 1..n
  BY <1>1, <1>2, <1>3, <1>4, DecodedKinds, DocKinds DEF OptionCount
<1>6. PICK S : cs \in Seq(S)
  BY <1>4, <1>5, DecodedKinds
<1>7. Len(cs) = n /\ cs # <<>>
  BY <1>4, <1>5, DecodedKinds
<1> HIDE DEF cs, n
<1>8. n # 0
  BY <1>6, <1>7
<1> QED
  BY <1>5, <1>8 DEF cs

-----------------------------------------------------------------------------
(* Numbers *)

LEMMA ScaledUp ==
    ASSUME NEW x \in Int, NEW y \in Int, NEW t \in 5..50
    PROVE  /\ (x * 500) \div t \in Int
           /\ x < y => (x * 500) \div t < (y * 500) \div t
<1>1. t \in Int /\ t > 0 /\ t <= 50
  OBVIOUS
<1> DEFINE a == x * 500
           b == y * 500
           q == a \div t
           r == b \div t
<1>2. a \in Int /\ b \in Int /\ (x < y => a + t <= b)
  BY <1>1
<1> HIDE DEF a, b
<1>3. q \in Int /\ r \in Int /\ t * q <= a /\ a < t * q + t /\ t * r <= b /\ b < t * r + t
  BY <1>1, <1>2
<1> HIDE DEF q, r
<1>4. ASSUME x < y, r <= q PROVE FALSE
  <2>1. a + t <= b
    BY <1>2, <1>4
  <2>2. PICK k \in Nat : q = r + k
    <3>1. q - r \in Nat /\ q = r + (q - r)
      BY <1>3, <1>4
    <3> QED
      BY <3>1
  <2>3. t * q = t * r + t * k
    BY <1>1, <1>3, <2>2
  <2>4. t * k >= 0 /\ t * k \in Int
    BY <1>1, <2>2
  <2>5. t * r \in Int /\ t * q \in Int
    BY <1>1, <1>3
  <2> QED
    BY <1>1, <1>2, <1>3, <2>1, <2>3, <2>4, <2>5
<1> QED
  BY <1>3, <1>4 DEF a, b, q, r

(* The numbers that Go's > orders; all but one of them have a place in Int.  *)
Ordered == Int \cup Infinite

LEMMA NumbersApart ==
    /\ NaN \notin Ordered /\ PosInf \notin Int /\ NegInf \notin Int /\ PosInf # NegInf
    /\ Numbers = Ordered \cup {NaN}
  BY InputAssumption DEF Ordered, Infinite, Numbers

LEMMA GreaterIs ==
    ASSUME NEW x \in Ordered, NEW y \in Ordered, NEW z \in Ordered
    PROVE  /\ Greater(x, y) \/ Greater(y, x) \/ x = y
           /\ ~(Greater(x, y) /\ Greater(y, x)) /\ ~Greater(x, x)
           /\ Greater(x, y) /\ Greater(y, z) => Greater(x, z)
           /\ x \in Int /\ y \in Int => (Greater(x, y) <=> x > y)
<1>1. x # NaN /\ y # NaN /\ z # NaN
  BY NumbersApart
<1>2. Greater(x, y) <=> x # y /\ (x = PosInf \/ y = NegInf \/ (x \in Int /\ y \in Int /\ x > y))
  BY <1>1 DEF Greater
<1>3. Greater(y, x) <=> x # y /\ (y = PosInf \/ x = NegInf \/ (x \in Int /\ y \in Int /\ y > x))
  BY <1>1 DEF Greater
<1>4. Greater(y, z) <=> y # z /\ (y = PosInf \/ z = NegInf \/ (y \in Int /\ z \in Int /\ y > z))
  BY <1>1 DEF Greater
<1>5. Greater(x, z) <=> x # z /\ (x = PosInf \/ z = NegInf \/ (x \in Int /\ z \in Int /\ x > z))
  BY <1>1 DEF Greater
<1>6. ~Greater(x, x)
  BY DEF Greater
<1>7. PosInf \notin Int /\ NegInf \notin Int /\ PosInf # NegInf
  BY NumbersApart
<1>8. \A v \in {x, y, z} : v \in Int \/ v = PosInf \/ v = NegInf
  BY DEF Ordered, Infinite
<1> QED
  BY <1>2, <1>3, <1>4, <1>5, <1>6, <1>7, <1>8

(* Of a list of them, one is the first of the largest.                       *)
LEMMA LargestFirst ==
    ASSUME NEW n \in Nat \ {0}, NEW p, \A i \in 1..n : p[i] \in Ordered
    PROVE  \E i \in 1..n : \A j \in 1..n : Greater(p[i], p[j]) \/ (p[j] = p[i] /\ i <= j)
<1> DEFINE N == {m \in Nat : m + 1 <= n => \E i \in 1..(m + 1) : \A j \in 1..(m + 1) :
                                Greater(p[i], p[j]) \/ (p[j] = p[i] /\ i <= j)}
<1>1. 0 \in N
  <2>1. \A j \in 1..(0 + 1) : j = 1
    OBVIOUS
  <2> QED
    BY <2>1
<1>2. ASSUME NEW m \in Nat, m \in N PROVE m + 1 \in N
  <2> SUFFICES ASSUME (m + 1) + 1 <= n
               PROVE  \E i \in 1..((m + 1) + 1) : \A j \in 1..((m + 1) + 1) :
                          Greater(p[i], p[j]) \/ (p[j] = p[i] /\ i <= j)
    OBVIOUS
  <2>1. PICK i \in 1..(m + 1) : \A j \in 1..(m + 1) : Greater(p[i], p[j]) \/ (p[j] = p[i] /\ i <= j)
    BY <1>2
  <2>2. \A j \in 1..((m + 1) + 1) : j \in 1..(m + 1) \/ j = m + 2
    OBVIOUS
  <2>3. p[i] \in Ordered /\ p[m + 2] \in Ordered /\ (\A j \in 1..(m + 1) : p[j] \in Ordered)
    <3>1. i \in 1..n /\ m + 2 \in 1..n /\ \A j \in 1..(m + 1) : j \in 1..n
      BY <2>1
    <3> QED
      BY <3>1
  <2>4. i \in 1..((m + 1) + 1) /\ m + 2 \in 1..((m + 1) + 1) /\ i <= m + 2
    BY <2>1
  <2>5. CASE ~Greater(p[m + 2], p[i])
    <3>1. Greater(p[i], p[m + 2]) \/ p[m + 2] = p[i]
      BY <2>3, <2>5, GreaterIs
    <3>2. \A j \in 1..((m + 1) + 1) : Greater(p[i], p[j]) \/ (p[j] = p[i] /\ i <= j)
      BY <2>1, <2>2, <2>4, <3>1
    <3> QED
      BY <2>4, <3>2
  <2>6. CASE Greater(p[m + 2], p[i])
    <3>1. \A j \in 1..(m + 1) : Greater(p[m + 2], p[j])
      BY <2>1, <2>3, <2>6, GreaterIs
    <3>2. \A j \in 1..((m + 1) + 1) : Greater(p[m + 2], p[j]) \/ (p[j] = p[m + 2] /\ m + 2 <= j)
      BY <2>2, <3>1
    <3> QED
      BY <2>4, <3>2
  <2> QED
    BY <2>5, <2>6
<1> HIDE DEF N
<1>3. n - 1 \in N
  BY <1>1, <1>2, NumbersInSet
<1> QED
  BY <1>3 DEF N

(* Weighable, an entry at a time.                                            *)
LEMMA WeighableIs ==
    ASSUME NEW n \in Nat \ {0}, NEW z, DOMAIN z = 1..n
    PROVE  Weighable(z) <=> (\A i \in 1..n : z[i] \in Int \cup {NegInf}) /\ (\E i \in 1..n : z[i] # NegInf)
<1>1. 1 \in 1..n
  OBVIOUS
<1>2. Elems(z) = {z[i] : i \in 1..n}
  BY DEF Elems
<1>3. z[1] \in Elems(z)
  BY <1>1, <1>2
<1> HIDE DEF Elems
<1>4. Elems(z) # {NegInf} <=> \E i \in 1..n : z[i] # NegInf
  <2>1. ASSUME Elems(z) = {NegInf} PROVE \A i \in 1..n : z[i] = NegInf
    BY <1>2, <2>1
  <2>2. ASSUME \A i \in 1..n : z[i] = NegInf PROVE Elems(z) = {NegInf}
    <3>1. \A x \in Elems(z) : x = NegInf
      BY <1>2, <2>2
    <3> QED
      BY <1>1, <1>3, <2>2, <3>1
  <2> QED
    BY <2>1, <2>2
<1> QED
  BY <1>2, <1>4 DEF Weighable

(* Softmax of logits that weigh keeps their order; of others it is lost.     *)
LEMMA SoftmaxIs ==
    ASSUME NEW n \in Nat \ {0}, NEW z, DOMAIN z = 1..n, \A i \in 1..n : z[i] \in Numbers
    PROVE  /\ Weighable(z) => Softmax(z) = z
           /\ ~Weighable(z) => \A i \in 1..n : Softmax(z)[i] = NaN
<1> DEFINE Lost == \E i \in 1..n : z[i] = NaN \/ Largest(z) = NaN \/ (z[i] = Largest(z) /\ z[i] \in Infinite)
<1>1. Softmax(z) = IF Lost THEN [i \in 1..n |-> NaN] ELSE z
  BY DEF Softmax
<1>2. Weighable(z) <=> ~Lost
  <2>1. CASE \E i \in 1..n : z[i] = NaN
    <3>1. NaN \notin Int \cup {NegInf}
      BY NumbersApart DEF Ordered, Infinite
    <3> QED
      BY <2>1, <3>1, WeighableIs
  <2>2. CASE \A i \in 1..n : z[i] # NaN
    <3>1. \A i \in 1..n : z[i] \in Ordered
      BY <2>2, NumbersApart
    <3>2. PICK h \in 1..n : \A j \in 1..n : Greater(z[h], z[j]) \/ (z[j] = z[h] /\ h <= j)
      BY <3>1, LargestFirst
    <3>3. \A j \in 1..n : ~Greater(z[j], z[h])
      BY <3>1, <3>2, GreaterIs
    <3> DEFINE m == Largest(z)
    <3>4. m = CHOOSE x \in Elems(z) : x # NaN /\ \A i \in 1..n : ~Greater(z[i], x)
      <4>1. z[1] # NaN
        BY <2>2
      <4> QED
        BY <4>1 DEF Largest
    <3>5. z[h] \in Elems(z) /\ z[h] # NaN
      BY <2>2 DEF Elems
    <3> HIDE DEF m
    <3>6. m \in Elems(z) /\ m # NaN /\ \A i \in 1..n : ~Greater(z[i], m)
      BY <3>3, <3>4, <3>5
    <3>7. PICK k \in 1..n : m = z[k]
      BY <3>6 DEF Elems
    <3>8. Lost <=> m \in Infinite
      BY <2>2, <3>6, <3>7 DEF m
    <3>9. m = PosInf <=> \E i \in 1..n : z[i] = PosInf
      <4>1. ASSUME NEW i \in 1..n, z[i] = PosInf PROVE m = PosInf
        <5>1. ~Greater(PosInf, m) /\ PosInf # NaN
          BY <3>6, <4>1, <2>2
        <5> QED
          BY <3>6, <5>1 DEF Greater
      <4> QED
        BY <3>7, <4>1
    <3>10. m = NegInf <=> \A i \in 1..n : z[i] = NegInf
      <4>1. ASSUME m = NegInf, NEW i \in 1..n PROVE z[i] = NegInf
        <5>1. ~Greater(z[i], NegInf) /\ z[i] # NaN
          BY <2>2, <3>6, <4>1
        <5> QED
          BY <3>6, <4>1, <5>1 DEF Greater
      <4> QED
        BY <3>7, <4>1
    <3>11. \A i \in 1..n : z[i] \in Int \cup {NegInf} <=> z[i] # PosInf
      BY <3>1, NumbersApart DEF Ordered, Infinite
    <3> HIDE DEF Lost
    <3>12. Weighable(z) <=> (\A i \in 1..n : z[i] \in Int \cup {NegInf}) /\ (\E i \in 1..n : z[i] # NegInf)
      BY WeighableIs
    <3>13. m \in Infinite <=> m = PosInf \/ m = NegInf
      BY DEF Infinite
    <3> QED
      BY <3>8, <3>9, <3>10, <3>11, <3>12, <3>13
  <2> QED
    BY <2>1, <2>2
<1> HIDE DEF Lost
<1>3. ~Weighable(z) => Softmax(z) = [i \in 1..n |-> NaN]
  BY <1>1, <1>2
<1> QED
  BY <1>1, <1>2, <1>3

-----------------------------------------------------------------------------
(* The inductive invariant: what each step found, and what it made of it.    *)

Given == \E i \in Inputs : def = i.def /\ row = i.row /\ act = i.act /\ temp = i.temp
Defined ==
    step \in {"render", "answer", "marshal", "sent", "panic"} => ~Refused(def) /\ internal = Internal(def)
Stopped ==
    /\ step = "refused" => Refused(def)
    /\ step = "panic" => (def.type = "choice" /\ Optionless(def)) \/ Len(row) < OptionCount(def)
Listed ==
    IF step \in {"answer", "marshal", "sent"} \/ (step = "panic" /\ rendered # <<>>)
    THEN rendered = Rendered /\ ~(internal.T = "choice" /\ internal.Crit = Null)
    ELSE rendered = <<>>
Chances == Softmax(Scaled)
Told == internal.T \in {"choice", "score"} \/ K >= 2
Response ==
    [choice |-> IF internal.T = "choice" THEN internal.Crit.keys[Best(Chances)] ELSE Nil,
     probabilities |-> IF internal.T \in {"choice", "score"} THEN ByName(Chances) ELSE Nil,
     noul |-> IF internal.T = "noul" THEN Chances[2] ELSE Nil,
     numbers |-> {Softmax(act)[1]} \cup {Chances[i] : i \in IF Told THEN 1..K ELSE {}}]
Responded ==
    IF step \in {"marshal", "sent"}
    THEN answer = Response /\ Len(row) >= K /\ ~(internal.T = "choice" /\ rendered = <<>>)
    ELSE answer = Nil
Replied == step = "sent" => body = IF NaN \in answer.numbers THEN <<>> ELSE <<answer>>
QuestionInv ==
    /\ step \in {"define", "render", "answer", "marshal", "refused", "panic", "sent"}
    /\ Given /\ Defined /\ Stopped /\ Listed /\ Responded /\ Replied

LEMMA OfTwo == \A x, y : Len(<<x, y>>) = 2 /\ DOMAIN <<x, y>> = 1..2 /\ <<x, y>> # <<>>
<1> TAKE x, y
<1>1. <<x, y>> \in Seq({x, y}) /\ Len(<<x, y>>) = 2
  OBVIOUS
<1> QED
  BY <1>1

(* What is rendered of a question that was read.                             *)
LEMMA RenderedIs ==
    ASSUME Given, ~Refused(def), internal = Internal(def),
           ~(internal.T = "choice" /\ internal.Crit = Null),
           NEW n, n = Len(Rendered)
    PROVE  /\ n \in Nat /\ DOMAIN Rendered = 1..n /\ (Rendered = <<>> <=> n = 0)
           /\ OptionCount(def) = IF n = 0 /\ internal.T # "choice" THEN 1 ELSE n
           /\ internal.T = "choice" =>
                 /\ n = OptionCount(def) /\ DOMAIN internal.Crit.keys = 1..n
                 /\ \E S : internal.Crit.keys \in Seq(S)
                 /\ \A i \in 1..n : Rendered[i][1] = internal.Crit.keys[i]
           /\ internal.T = "score" => n >= 1 /\ \A i \in 1..n : Rendered[i][1] = i - 1
           /\ internal.T = "noul" => n = 2 /\ Rendered[1][1] = False /\ Rendered[2][1] = True
<1>1. PICK i \in Inputs : def = i.def
  BY DEF Given
<1>2. def.criteria \in Docs
  BY <1>1, InputAssumption
<1>3. internal.T = def.type /\ internal.CritList = Internal(def).CritList /\ internal.Crit = Internal(def).Crit
  BY DEF Internal
<1>4. CASE internal.T = "choice"
  <2> DEFINE keys == internal.Crit.keys
             c == OptionCount(def)
  <2>1. Keyed(internal.Crit, c) /\ c \in Nat
    BY <1>2, <1>3, <1>4, ChoiceIs
  <2>2. PICK S : keys \in Seq(S)
    BY <2>1 DEF Keyed
  <2>3. Len(keys) = c
    BY <2>1 DEF Keyed
  <2>4. Rendered = [j \in DOMAIN keys |-> Named(keys[j], <<>>)]
    BY <1>4 DEF Rendered
  <2> HIDE DEF keys, c
  <2>5. DOMAIN keys = 1..c
    BY <2>2, <2>3
  <2>6. DOMAIN Rendered = 1..c /\ Len(Rendered) = c
    BY <2>1, <2>4, <2>5
  <2>7. \A j \in 1..c : Rendered[j][1] = keys[j]
    BY <2>4, <2>5 DEF Named
  <2>8. Rendered = <<>> <=> c = 0
    <3>1. ASSUME Rendered = <<>> PROVE c = 0
      <4>1. Len(Rendered) = 0
        BY <3>1
      <4> QED
        BY <2>6, <4>1
    <3>2. ASSUME c = 0 PROVE Rendered = <<>>
      <4>1. DOMAIN keys = {}
        BY <2>5, <3>2
      <4> QED
        BY <2>4, <4>1
    <3> QED
      BY <3>1, <3>2
  <2>9. n = c
    BY <2>6
  <2> QED
    BY <1>2, <1>4, <2>1, <2>2, <2>5, <2>6, <2>7, <2>8, <2>9 DEF keys, c
<1>5. CASE internal.T = "score"
  <2> DEFINE cs == internal.CritList
             c == OptionCount(def)
  <2>1. cs # <<>>
    BY <1>3, <1>5 DEF Refused
  <2>2. DOMAIN cs = 1..c /\ c \in Nat /\ c >= 1
    BY <1>2, <1>3, <1>5, <2>1, ScoreIs
  <2>3. Rendered = [j \in DOMAIN cs |-> <<j - 1, Text(cs[j])>>]
    BY <1>5 DEF Rendered
  <2> HIDE DEF cs, c
  <2>4. DOMAIN Rendered = 1..c /\ Len(Rendered) = c
    BY <2>2, <2>3
  <2>5. \A j \in 1..c : Rendered[j][1] = j - 1
    BY <2>2, <2>3
  <2>6. Rendered # <<>>
    BY <2>2, <2>4
  <2>7. n = c
    BY <2>4
  <2> QED
    BY <1>2, <1>5, <2>2, <2>4, <2>5, <2>6, <2>7 DEF c
<1>6. CASE internal.T = "noul"
  <2>1. Rendered = <<Named(False, <<"no, the statement does not hold">>),
                     Named(True, <<"yes, the statement holds">>)>>
    BY <1>6 DEF Rendered
  <2>2. Len(Rendered) = 2 /\ DOMAIN Rendered = 1..2 /\ Rendered # <<>>
    BY <2>1, OfTwo
  <2>3. Rendered[1][1] = False /\ Rendered[2][1] = True
    BY <2>1 DEF Named
  <2>4. OptionCount(def) = 2
    BY <1>3, <1>6 DEF OptionCount
  <2> QED
    BY <1>2, <1>6, <2>2, <2>3, <2>4
<1>7. CASE internal.T \notin {"choice", "score", "noul"}
  <2>1. Rendered = <<>>
    BY <1>7 DEF Rendered
  <2>2. Len(Rendered) = 0 /\ DOMAIN Rendered = 1..0
    BY <2>1
  <2>3. OptionCount(def) = 1
    BY <1>3, <1>7 DEF OptionCount
  <2> QED
    BY <1>7, <2>1, <2>2, <2>3
<1> QED
  BY <1>4, <1>5, <1>6, <1>7

LEMMA QuestionInitInv == ASSUME QuestionInit PROVE QuestionInv
<1>1. PICK i \in Inputs : def = i.def /\ row = i.row /\ act = i.act /\ temp = i.temp
  BY DEF QuestionInit
<1>2. Given
  BY <1>1 DEF Given
<1>3. step = "define" /\ rendered = <<>> /\ answer = Nil
  BY DEF QuestionInit
<1> QED
  BY <1>2, <1>3 DEF QuestionInv, Defined, Stopped, Listed, Responded, Replied

LEMMA GivenKept == ASSUME Given, UNCHANGED inputs PROVE Given'
<1>1. def' = def /\ row' = row /\ act' = act /\ temp' = temp
  BY DEF inputs
<1> QED
  BY <1>1 DEF Given

(* What the answer is depends on nothing the later steps change.             *)
LEMMA ResponseKept ==
    ASSUME UNCHANGED <<inputs, internal, rendered>>
    PROVE  Rendered' = Rendered /\ Response' = Response /\ K' = K /\ row' = row
<1>1. row' = row /\ temp' = temp /\ act' = act /\ internal' = internal /\ rendered' = rendered
  BY DEF inputs
<1>2. K' = K /\ Scale' = Scale
  BY <1>1 DEF K, Scale
<1>3. Scaled' = Scaled
  BY <1>1, <1>2 DEF Scaled
<1>4. Chances' = Chances
  BY <1>3 DEF Chances, Softmax, Largest, Greater
<1>5. Softmax(act)' = Softmax(act)
  BY <1>1 DEF Softmax, Largest, Greater
<1>6. Names' = Names
  BY <1>1, <1>2 DEF Names
<1>7. ByName(Chances)' = ByName(Chances)
  BY <1>4, <1>6 DEF ByName
<1>8. Best(Chances)' = Best(Chances)
  BY <1>2, <1>4 DEF Best, Greater
<1>9. Told' = Told
  BY <1>1, <1>2 DEF Told
<1>10. Response' = Response
  BY <1>1, <1>2, <1>4, <1>5, <1>7, <1>8, <1>9 DEF Response
<1>11. Rendered' = Rendered
  BY <1>1 DEF Rendered, Named, Criterion
<1> QED
  BY <1>1, <1>2, <1>10, <1>11

LEMMA RefuseKeeps == ASSUME QuestionInv, Refuse PROVE QuestionInv'
<1>1. step' = "refused" /\ def' = def /\ rendered' = rendered /\ answer' = answer
  BY DEF Refuse, inputs
<1>2. Given'
  BY GivenKept DEF QuestionInv, Refuse
<1>3. Refused(def) /\ step = "define"
  BY DEF Refuse
<1>4. Defined' /\ Stopped' /\ Replied'
  BY <1>1, <1>3 DEF Defined, Stopped, Replied
<1>5. rendered = <<>> /\ answer = Nil
  BY <1>3 DEF QuestionInv, Listed, Responded
<1>6. Listed' /\ Responded'
  BY <1>1, <1>5 DEF Listed, Responded
<1> QED
  BY <1>1, <1>2, <1>4, <1>6 DEF QuestionInv

LEMMA ToInternalKeeps == ASSUME QuestionInv, ToInternal PROVE QuestionInv'
<1>1. /\ step' = "render" /\ def' = def /\ rendered' = rendered /\ answer' = answer
      /\ internal' = Internal(def)
  BY DEF ToInternal, inputs
<1>2. Given'
  BY GivenKept DEF QuestionInv, ToInternal
<1>3. ~Refused(def) /\ step = "define"
  BY DEF ToInternal
<1>4. Defined' /\ Stopped' /\ Replied'
  BY <1>1, <1>3 DEF Defined, Stopped, Replied
<1>5. rendered = <<>> /\ answer = Nil
  BY <1>3 DEF QuestionInv, Listed, Responded
<1>6. Listed' /\ Responded'
  BY <1>1, <1>5 DEF Listed, Responded
<1> QED
  BY <1>1, <1>2, <1>4, <1>6 DEF QuestionInv

LEMMA RenderKeeps == ASSUME QuestionInv, Render PROVE QuestionInv'
<1>1. /\ step' = "answer" /\ def' = def /\ internal' = internal /\ answer' = answer
      /\ rendered' = Rendered
  BY DEF Render, inputs
<1>2. Given'
  BY GivenKept DEF QuestionInv, Render
<1>3. step = "render" /\ ~(internal.T = "choice" /\ internal.Crit = Null)
  BY DEF Render
<1>4. Defined' /\ Stopped' /\ Replied'
  BY <1>1, <1>3 DEF QuestionInv, Defined, Stopped, Replied
<1>5. answer = Nil
  BY <1>3 DEF QuestionInv, Responded
<1>6. Rendered' = Rendered
  BY <1>1 DEF Rendered, Named, Criterion
<1>7. Listed'
  BY <1>1, <1>3, <1>6 DEF Listed
<1>8. Responded'
  BY <1>1, <1>5 DEF Responded
<1> QED
  BY <1>1, <1>2, <1>4, <1>7, <1>8 DEF QuestionInv

(* A choice without criteria of its own lists nothing.                       *)
LEMMA ChoiceOptionless ==
    ASSUME Given, internal = Internal(def), internal.T = "choice"
    PROVE  /\ def.type = "choice" /\ def.criteria \in Docs
           /\ internal.Crit = Null => Optionless(def)
           /\ internal.Crit # Null => (OptionCount(def) = 0 <=> Optionless(def))
<1>1. PICK i \in Inputs : def = i.def
  BY DEF Given
<1>2. def.criteria \in Docs
  BY <1>1, InputAssumption
<1>3. def.type = "choice"
  BY DEF Internal
<1>4. internal.Crit = Null <=> def.criteria.kind \notin {"arr", "doc"}
  BY <1>2, <1>3, ChoiceIs
<1>5. internal.Crit # Null => (OptionCount(def) = 0 <=> def.criteria \in {Arr(<<>>), Doc(<<>>)})
  BY <1>2, <1>3, ChoiceIs
<1> QED
  BY <1>2, <1>3, <1>4, <1>5 DEF Optionless

LEMMA RenderPanicsKeeps == ASSUME QuestionInv, RenderPanics PROVE QuestionInv'
<1>1. step' = "panic" /\ def' = def /\ internal' = internal /\ rendered' = rendered /\ answer' = answer
  BY DEF RenderPanics, inputs
<1>2. Given /\ Given'
  BY GivenKept DEF QuestionInv, RenderPanics
<1>3. step = "render" /\ internal.T = "choice" /\ internal.Crit = Null
  BY DEF RenderPanics
<1>4. ~Refused(def) /\ internal = Internal(def) /\ rendered = <<>> /\ answer = Nil
  BY <1>3 DEF QuestionInv, Defined, Listed, Responded
<1>5. def.type = "choice" /\ Optionless(def)
  BY <1>2, <1>3, <1>4, ChoiceOptionless
<1>6. Defined' /\ Stopped' /\ Listed' /\ Responded' /\ Replied'
  BY <1>1, <1>4, <1>5 DEF Defined, Stopped, Listed, Responded, Replied
<1> QED
  BY <1>1, <1>2, <1>6 DEF QuestionInv

(* How many options a question has that is about to be answered, or was.     *)
LEMMA CountIs ==
    ASSUME QuestionInv, step \in {"answer", "marshal", "sent"}
    PROVE  /\ K \in Nat \ {0} /\ row \in Seq(Numbers) /\ Len(row) \in Nat \ {0}
           /\ rendered = <<>> => K = 1
           /\ rendered # <<>> => K = Len(rendered) /\ DOMAIN rendered = 1..K
           /\ IF internal.T = "choice" /\ rendered = <<>>
              THEN def.type = "choice" /\ Optionless(def)
              ELSE K = OptionCount(def) /\ ~(def.type = "choice" /\ Optionless(def))
<1>1. Given /\ ~Refused(def) /\ internal = Internal(def) /\ rendered = Rendered
      /\ ~(internal.T = "choice" /\ internal.Crit = Null)
  BY DEF QuestionInv, Defined, Listed
<1> DEFINE n == Len(Rendered)
<1>2. n = Len(Rendered)
  OBVIOUS
<1> HIDE DEF n
<1>3. /\ n \in Nat /\ DOMAIN Rendered = 1..n /\ (Rendered = <<>> <=> n = 0)
      /\ OptionCount(def) = IF n = 0 /\ internal.T # "choice" THEN 1 ELSE n
  BY <1>1, <1>2, RenderedIs
<1>4. K = IF n = 0 THEN 1 ELSE n
  BY <1>1, <1>2, <1>3 DEF K
<1>5. row \in Seq(Numbers) /\ row # <<>>
  BY <1>1, InputAssumption DEF Given
<1>6. Len(row) \in Nat \ {0}
  BY <1>5
<1> HIDE DEF K
<1>7. internal.T = def.type
  BY <1>1 DEF Internal
<1>8. internal.T = "choice" => (n = 0 <=> Optionless(def))
  BY <1>1, <1>3, ChoiceOptionless
<1> QED
  BY <1>1, <1>2, <1>3, <1>4, <1>5, <1>6, <1>7, <1>8

LEMMA AnswerPanicsKeeps == ASSUME QuestionInv, AnswerPanics PROVE QuestionInv'
<1>1. /\ step' = "panic" /\ def' = def /\ row' = row /\ internal' = internal /\ rendered' = rendered
      /\ answer' = answer
  BY DEF AnswerPanics, inputs
<1>2. Given'
  BY GivenKept DEF QuestionInv, AnswerPanics
<1>3. step = "answer" /\ (Len(row) < K \/ (internal.T = "choice" /\ rendered = <<>>))
  BY DEF AnswerPanics
<1>4. ~Refused(def) /\ internal = Internal(def) /\ answer = Nil
  BY <1>3 DEF QuestionInv, Defined, Responded
<1>5. (def.type = "choice" /\ Optionless(def)) \/ Len(row) < OptionCount(def)
  BY <1>3, CountIs
<1>6. Rendered' = Rendered
  BY <1>1 DEF Rendered, Named, Criterion
<1>7. Listed'
  BY <1>1, <1>3, <1>6 DEF QuestionInv, Listed
<1>8. Defined' /\ Stopped' /\ Responded' /\ Replied'
  BY <1>1, <1>3, <1>4, <1>5 DEF Defined, Stopped, Responded, Replied
<1> QED
  BY <1>1, <1>2, <1>7, <1>8 DEF QuestionInv

LEMMA AnswerOneKeeps == ASSUME QuestionInv, AnswerOne PROVE QuestionInv'
<1>1. step' = "marshal" /\ def' = def /\ internal' = internal /\ rendered' = rendered
  BY DEF AnswerOne, inputs
<1>2. answer' = Response
  BY DEF AnswerOne, Response, Chances, Told
<1>3. Given'
  BY GivenKept DEF QuestionInv, AnswerOne
<1>4. Rendered' = Rendered /\ Response' = Response /\ K' = K /\ row' = row
  BY ResponseKept DEF AnswerOne
<1>5. step = "answer" /\ Len(row) >= K /\ ~(internal.T = "choice" /\ rendered = <<>>)
  BY DEF AnswerOne
<1>6. Defined' /\ Stopped' /\ Replied'
  BY <1>1, <1>5 DEF QuestionInv, Defined, Stopped, Replied
<1>7. Listed'
  BY <1>1, <1>4, <1>5 DEF QuestionInv, Listed
<1>8. Responded'
  BY <1>1, <1>2, <1>4, <1>5 DEF Responded
<1> QED
  BY <1>1, <1>3, <1>6, <1>7, <1>8 DEF QuestionInv

LEMMA MarshalKeeps == ASSUME QuestionInv, Marshal PROVE QuestionInv'
<1>1. /\ step' = "sent" /\ def' = def /\ internal' = internal /\ rendered' = rendered /\ answer' = answer
      /\ body' = IF NaN \in answer.numbers THEN <<>> ELSE <<answer>>
  BY DEF Marshal, inputs
<1>2. Given'
  BY GivenKept DEF QuestionInv, Marshal
<1>3. Rendered' = Rendered /\ Response' = Response /\ K' = K /\ row' = row
  BY ResponseKept DEF Marshal
<1>4. step = "marshal"
  BY DEF Marshal
<1>5. Defined' /\ Stopped' /\ Replied'
  BY <1>1, <1>4 DEF QuestionInv, Defined, Stopped, Replied
<1>6. Listed' /\ Responded'
  BY <1>1, <1>3, <1>4 DEF QuestionInv, Listed, Responded
<1> QED
  BY <1>1, <1>2, <1>5, <1>6 DEF QuestionInv

LEMMA StillKeeps == ASSUME QuestionInv, UNCHANGED questionVars PROVE QuestionInv'
<1>1. /\ step' = step /\ def' = def /\ internal' = internal /\ rendered' = rendered /\ answer' = answer
      /\ body' = body
  BY DEF questionVars, inputs
<1>2. Given'
  BY GivenKept DEF QuestionInv, questionVars
<1>3. Rendered' = Rendered /\ Response' = Response /\ K' = K /\ row' = row
  BY ResponseKept DEF questionVars
<1>4. Defined' /\ Stopped' /\ Replied' /\ Listed' /\ Responded'
  BY <1>1, <1>3 DEF QuestionInv, Defined, Stopped, Replied, Listed, Responded
<1> QED
  BY <1>1, <1>2, <1>4 DEF QuestionInv

(* Every state of a question is as its invariant says.                       *)
THEOREM QuestionInvariant == QuestionSpec => []QuestionInv
<1>1. QuestionInit => QuestionInv
  BY QuestionInitInv
<1>2. QuestionInv /\ [QuestionNext]_questionVars => QuestionInv'
  BY RefuseKeeps, ToInternalKeeps, RenderKeeps, RenderPanicsKeeps, AnswerOneKeeps, AnswerPanicsKeeps,
     MarshalKeeps, StillKeeps DEF QuestionNext, QuestionRest
<1> QED
  BY <1>1, <1>2, PTL DEF QuestionSpec

-----------------------------------------------------------------------------
(* What the invariant means. *)

(* Only choices without options and rows that are too short bring a          *)
(* goroutine down.                                                           *)
LEMMA PanicsAre == QuestionInv => PanicsExplained
<1> DEFINE Bad == (def.type = "choice" /\ Optionless(def)) \/ Len(row) < OptionCount(def)
<1> SUFFICES ASSUME QuestionInv, step \in {"refused", "panic", "sent"}
             PROVE  step = "panic" <=> ~Refused(def) /\ Bad
  BY DEF PanicsExplained
<1>1. CASE step = "refused"
  BY <1>1 DEF QuestionInv, Stopped
<1>2. CASE step = "panic"
  BY <1>2 DEF QuestionInv, Stopped, Defined
<1>3. ASSUME step = "sent", Bad PROVE FALSE
  <2>1. ~(internal.T = "choice" /\ rendered = <<>>) /\ Len(row) >= K
    BY <1>3 DEF QuestionInv, Responded
  <2>2. K = OptionCount(def) /\ ~(def.type = "choice" /\ Optionless(def)) /\ K \in Nat /\ Len(row) \in Nat
    BY <1>3, <2>1, CountIs
  <2> QED
    BY <1>3, <2>1, <2>2
<1> QED
  BY <1>1, <1>2, <1>3

(* PanicsExplained: of the questions that ToInternal accepts, exactly the    *)
(* choices whose criteria name no option, and those whose row holds fewer    *)
(* logits than they have options, bring a goroutine down.                    *)
THEOREM PanicsKnown == QuestionSpec => []PanicsExplained
  BY QuestionInvariant, PanicsAre, PTL

(* The logits of an answer: how many are read, and what becomes of them.     *)
LEMMA ScaleIs == ASSUME Given PROVE Scale \in 5..50
<1>1. PICK i \in Inputs : temp = i.temp
  BY DEF Given
<1>2. temp \in Int \cup {Nil, NaN}
  BY <1>1, InputAssumption
<1>3. CASE temp = Nil
  BY <1>3 DEF Scale
<1>4. CASE temp # Nil
  <2>1. Scale = Clamp(temp)
    BY <1>4 DEF Scale
  <2>2. temp = NaN => Clamp(temp) = 10
    BY DEF Clamp
  <2>3. temp \in Int => Clamp(temp) \in 5..50
    BY DEF Clamp, Low, High
  <2> QED
    BY <1>2, <1>4, <2>1, <2>2, <2>3
<1> QED
  BY <1>3, <1>4

LEMMA OverIs ==
    ASSUME Given
    PROVE  /\ \A x \in Int : Over(x, Scale) \in Int
           /\ \A x, y \in Int : x < y => Over(x, Scale) < Over(y, Scale)
           /\ \A x \in Infinite \cup {NaN} : Over(x, Scale) = x
<1>1. Scale \in 5..50 /\ NaN \notin Int /\ (\A x \in Infinite \cup {NaN} : x \notin Int)
  BY ScaleIs, NumbersApart DEF Ordered, Infinite
<1>2. ~(Scale < 0) /\ Scale # 0 /\ Scale > 0
  BY <1>1
<1>3. \A x \in Int : Over(x, Scale) = (x * 500) \div Scale
  BY <1>1, <1>2 DEF Over, Unit
<1>4. \A x, y \in Int : (x * 500) \div Scale \in Int
                        /\ (x < y => (x * 500) \div Scale < (y * 500) \div Scale)
  BY <1>1, ScaledUp
<1>5. \A x \in Infinite \cup {NaN} : Over(x, Scale) = x
  BY <1>1, <1>2 DEF Over
<1> QED
  BY <1>3, <1>4, <1>5

LEMMA LogitsAre ==
    ASSUME QuestionInv, step \in {"marshal", "sent"}
    PROVE  /\ K <= Len(row) /\ \A i \in 1..K : row[i] \in Numbers
           /\ DOMAIN Asked = 1..K /\ \A i \in 1..K : Asked[i] = row[i]
           /\ DOMAIN Scaled = 1..K /\ \A i \in 1..K : Scaled[i] = Over(row[i], Scale) /\ Scaled[i] \in Numbers
<1>1. K \in Nat \ {0} /\ row \in Seq(Numbers) /\ K <= Len(row) /\ Len(row) \in Nat
  <2>1. Len(row) >= K
    BY DEF QuestionInv, Responded
  <2> QED
    BY <2>1, CountIs
<1> HIDE DEF K
<1>2. \A i \in 1..K : i \in 1..Len(row)
  BY <1>1
<1>3. \A i \in 1..K : row[i] \in Numbers
  BY <1>1, <1>2, ElementOfSeq
<1>4. DOMAIN Asked = 1..K /\ \A i \in 1..K : Asked[i] = row[i]
  <2> DEFINE k == K
  <2>1. DOMAIN SubSeq(row, 1, k) = 1..k /\ \A i \in 1..k : SubSeq(row, 1, k)[i] = row[i]
    BY <1>1
  <2> QED
    BY <2>1 DEF Asked
<1>5. DOMAIN Scaled = 1..K /\ \A i \in 1..K : Scaled[i] = Over(row[i], Scale)
  BY DEF Scaled
<1>6. \A x \in Numbers : Over(x, Scale) \in Numbers
  BY OverIs, NumbersApart DEF QuestionInv, Numbers
<1> QED
  BY <1>1, <1>3, <1>4, <1>5, <1>6

(* What the scale leaves of the logits, and softmax of that.                 *)
LEMMA ChancesAre ==
    ASSUME QuestionInv, step \in {"marshal", "sent"}
    PROVE  /\ Weighable(Asked) => \A i \in 1..K : /\ row[i] \in Int \cup {NegInf}
                                                 /\ Chances[i] = Over(row[i], Scale)
                                                 /\ Chances[i] \in Int \cup {NegInf}
           /\ ~Weighable(Asked) => \A i \in 1..K : Chances[i] = NaN
<1>1. K \in Nat \ {0}
  BY CountIs
<1>2. /\ \A i \in 1..K : row[i] \in Numbers
      /\ DOMAIN Asked = 1..K /\ \A i \in 1..K : Asked[i] = row[i]
      /\ DOMAIN Scaled = 1..K /\ \A i \in 1..K : Scaled[i] = Over(row[i], Scale) /\ Scaled[i] \in Numbers
  BY LogitsAre
<1> HIDE DEF K, Asked, Scaled
<1>3. Weighable(Asked) <=> (\A i \in 1..K : Asked[i] \in Int \cup {NegInf}) /\ (\E i \in 1..K : Asked[i] # NegInf)
  BY <1>1, <1>2, WeighableIs
<1>4. Weighable(Scaled) <=> (\A i \in 1..K : Scaled[i] \in Int \cup {NegInf}) /\ (\E i \in 1..K : Scaled[i] # NegInf)
  BY <1>1, <1>2, WeighableIs
<1>5. \A x \in Numbers : /\ Over(x, Scale) \in Int \cup {NegInf} <=> x \in Int \cup {NegInf}
                         /\ Over(x, Scale) # NegInf <=> x # NegInf
  BY OverIs, NumbersApart DEF QuestionInv, Numbers, Infinite, Ordered
<1>6. Weighable(Scaled) <=> Weighable(Asked)
  BY <1>2, <1>3, <1>4, <1>5
<1>7. /\ Weighable(Scaled) => Softmax(Scaled) = Scaled
      /\ ~Weighable(Scaled) => \A i \in 1..K : Softmax(Scaled)[i] = NaN
  BY <1>1, <1>2, SoftmaxIs
<1>8. ASSUME Weighable(Asked), NEW i \in 1..K
      PROVE  row[i] \in Int \cup {NegInf} /\ Chances[i] = Over(row[i], Scale) /\ Chances[i] \in Int \cup {NegInf}
  <2>1. Chances = Scaled
    BY <1>6, <1>7, <1>8 DEF Chances
  <2> QED
    BY <1>2, <1>3, <1>4, <1>6, <1>8, <2>1
<1>9. ~Weighable(Asked) => \A i \in 1..K : Chances[i] = NaN
  BY <1>6, <1>7 DEF Chances
<1> QED
  BY <1>8, <1>9

(* A 200 without a body is sent only for logits that do not weigh.           *)
LEMMA EmptyIs == QuestionInv => EmptyOnlyUnweighed
<1> DEFINE Common == def.type \in {"choice", "score", "noul"}
<1> SUFFICES ASSUME QuestionInv, step = "sent"
             PROVE  body = <<answer>> <=> Weighable(act) /\ (Common => Weighable(Asked))
  BY DEF EmptyOnlyUnweighed
<1>1. answer = Response /\ body = IF NaN \in answer.numbers THEN <<>> ELSE <<answer>>
  BY DEF QuestionInv, Responded, Replied
<1>2. answer.numbers = {Softmax(act)[1]} \cup {Chances[i] : i \in IF Told THEN 1..K ELSE {}}
  BY <1>1 DEF Response
<1>3. K \in Nat \ {0} /\ 1 \in 1..K
  BY CountIs
<1>4. Told <=> Common
  <2>1. Given /\ ~Refused(def) /\ internal = Internal(def) /\ rendered = Rendered
        /\ ~(internal.T = "choice" /\ internal.Crit = Null)
    BY DEF QuestionInv, Defined, Listed
  <2>2. internal.T = def.type
    BY <2>1 DEF Internal
  <2>3. ASSUME internal.T = "noul" PROVE K = 2
    <3> DEFINE n == Len(Rendered)
    <3>1. n = Len(Rendered)
      OBVIOUS
    <3> HIDE DEF n
    <3>2. n = 2 /\ rendered # <<>>
      BY <2>1, <2>3, <3>1, RenderedIs
    <3> QED
      BY <2>1, <3>1, <3>2 DEF K
  <2>4. ASSUME ~Common PROVE K = 1
    <3>1. Rendered = <<>>
      BY <2>2, <2>4 DEF Rendered
    <3> QED
      BY <2>1, <3>1 DEF K
  <2> QED
    BY <2>2, <2>3, <2>4 DEF Told
<1>5. Softmax(act)[1] = NaN <=> ~Weighable(act)
  <2>1. act \in Seq(Numbers) /\ Len(act) = 2
    BY InputAssumption DEF QuestionInv, Given
  <2>2. DOMAIN act = 1..2 /\ (\A i \in 1..2 : act[i] \in Numbers) /\ 1 \in 1..2 /\ 2 \in Nat \ {0}
    BY <2>1
  <2>3. Weighable(act) => act[1] \in Int \cup {NegInf}
    BY <2>2, WeighableIs
  <2>4. /\ Weighable(act) => Softmax(act) = act
        /\ ~Weighable(act) => Softmax(act)[1] = NaN
    BY <2>2, SoftmaxIs
  <2>5. NaN \notin Int \cup {NegInf}
    BY NumbersApart DEF Ordered, Infinite
  <2> QED
    BY <2>3, <2>4, <2>5
<1>6. (\E i \in 1..K : Chances[i] = NaN) <=> ~Weighable(Asked)
  <2>1. NaN \notin Int \cup {NegInf}
    BY NumbersApart DEF Ordered, Infinite
  <2> QED
    BY <1>3, <2>1, ChancesAre
<1>7. NaN \in answer.numbers <=> ~Weighable(act) \/ (Common /\ ~Weighable(Asked))
  BY <1>2, <1>4, <1>5, <1>6
<1>8. <<answer>> # <<>>
  OBVIOUS
<1> QED
  BY <1>1, <1>7, <1>8

(* EmptyOnlyUnweighed: writeJSON of goserve sends a 200 without a body       *)
(* exactly if the logits of act_probability, or those of the options of a    *)
(* known type, hold what is not a number, plus infinity, or only minus       *)
(* infinity.                                                                 *)
THEOREM OnlyUnweighedEmpty == QuestionSpec => []EmptyOnlyUnweighed
  BY QuestionInvariant, EmptyIs, PTL

LEMMA OverGreater ==
    ASSUME Given, NEW x \in Int \cup {NegInf}, NEW y \in Int \cup {NegInf}, Greater(x, y)
    PROVE  Greater(Over(x, Scale), Over(y, Scale))
<1>1. x \in Ordered /\ y \in Ordered /\ NegInf \in Infinite /\ NegInf \in Ordered
      /\ NaN \notin Ordered /\ PosInf \notin Int /\ NegInf \notin Int /\ PosInf # NegInf
      /\ Int \subseteq Ordered
  BY NumbersApart DEF Ordered, Infinite
<1>2. x # NegInf
  BY <1>1 DEF Greater
<1>3. x \in Int /\ Over(x, Scale) \in Int
  BY <1>2, OverIs
<1>4. CASE y = NegInf
  <2>1. Over(y, Scale) = NegInf
    BY <1>1, <1>4, OverIs
  <2> QED
    BY <1>1, <1>3, <2>1 DEF Greater
<1>5. CASE y \in Int
  <2>1. y < x
    BY <1>1, <1>3, <1>5 DEF Greater
  <2>2. Over(y, Scale) \in Int /\ Over(y, Scale) < Over(x, Scale)
    BY <1>3, <1>5, <2>1, OverIs
  <2>3. Over(x, Scale) # Over(y, Scale) /\ Over(x, Scale) # NaN /\ Over(y, Scale) # NaN
    BY <1>1, <1>3, <2>2
  <2> QED
    BY <1>3, <2>2, <2>3 DEF Greater
<1> QED
  BY <1>4, <1>5

(* The answer to a choice is the first of its options whose logit is largest.*)
LEMMA ChoiceIsFirst == QuestionInv => ChoiceIsBest
<1> SUFFICES ASSUME QuestionInv, answer # Nil, internal.T = "choice", Weighable(Asked)
             PROVE  \E i \in DOMAIN rendered :
                       /\ answer.choice = rendered[i][1]
                       /\ \A j \in DOMAIN rendered : Greater(row[i], row[j]) \/ (row[j] = row[i] /\ i <= j)
  BY DEF ChoiceIsBest
<1>1. step \in {"marshal", "sent"} /\ answer = Response /\ rendered # <<>>
  BY DEF QuestionInv, Responded
<1>2. Given /\ ~Refused(def) /\ internal = Internal(def) /\ rendered = Rendered /\ internal.Crit # Null
  BY <1>1 DEF QuestionInv, Defined, Listed
<1>3. K \in Nat \ {0} /\ DOMAIN rendered = 1..K /\ K = Len(rendered) /\ 1 \in 1..K
  BY <1>1, CountIs
<1>4. \A i \in 1..K : /\ row[i] \in Int \cup {NegInf} /\ Chances[i] = Over(row[i], Scale)
                      /\ Chances[i] \in Int \cup {NegInf}
  BY <1>1, ChancesAre
<1>5. NaN \notin Int \cup {NegInf} /\ Int \cup {NegInf} \subseteq Ordered
  BY NumbersApart DEF Ordered, Infinite
<1> DEFINE p == Chances
           i == Best(p)
<1>6. i \in 1..K /\ \A j \in 1..K : Greater(p[i], p[j]) \/ (p[j] = p[i] /\ i <= j)
  <2>1. p[1] # NaN
    BY <1>3, <1>4, <1>5
  <2>2. i = CHOOSE h \in 1..K : \A j \in 1..K : Greater(p[h], p[j]) \/ (p[j] = p[h] /\ h <= j)
    BY <2>1 DEF Best
  <2>3. \A j \in 1..K : p[j] \in Ordered
    BY <1>4, <1>5
  <2> HIDE DEF p
  <2>4. \E h \in 1..K : \A j \in 1..K : Greater(p[h], p[j]) \/ (p[j] = p[h] /\ h <= j)
    BY <1>3, <2>3, LargestFirst
  <2> HIDE DEF i
  <2> QED
    BY <2>2, <2>4
<1>7. answer.choice = internal.Crit.keys[i]
  BY <1>1 DEF Response
<1> HIDE DEF i
<1>8. rendered[i][1] = internal.Crit.keys[i]
  <2> DEFINE n == Len(Rendered)
  <2>1. n = Len(Rendered) /\ n = K
    BY <1>2, <1>3
  <2> HIDE DEF n
  <2> QED
    BY <1>2, <1>6, <2>1, RenderedIs
<1>9. ASSUME NEW j \in 1..K PROVE Greater(row[i], row[j]) \/ (row[j] = row[i] /\ i <= j)
  <2>1. /\ row[j] \in Int \cup {NegInf} /\ row[i] \in Int \cup {NegInf}
        /\ p[j] = Over(row[j], Scale) /\ p[i] = Over(row[i], Scale)
        /\ p[j] \in Int \cup {NegInf} /\ p[i] \in Int \cup {NegInf}
    BY <1>4, <1>6
  <2>2. Greater(p[i], p[j]) \/ (p[j] = p[i] /\ i <= j)
    BY <1>6
  <2> HIDE DEF p
  <2>3. Greater(row[j], row[i]) => Greater(p[j], p[i])
    BY <1>2, <2>1, OverGreater
  <2>4. Greater(row[i], row[j]) => Greater(p[i], p[j])
    BY <1>2, <2>1, OverGreater
  <2>5. /\ Greater(row[i], row[j]) \/ Greater(row[j], row[i]) \/ row[i] = row[j]
        /\ ~(Greater(p[i], p[j]) /\ Greater(p[j], p[i])) /\ ~Greater(p[i], p[i])
    BY <1>5, <2>1, GreaterIs
  <2>6. row[i] = row[j] => p[i] = p[j]
    BY <2>1
  <2> QED
    BY <2>2, <2>3, <2>4, <2>5, <2>6
<1> QED
  BY <1>3, <1>6, <1>7, <1>8, <1>9

(* ChoiceIsBest: AnswerOne answers a choice with the first of its options    *)
(* whose logit is the largest, for any number of options and any scale, as   *)
(* long as the logits weigh against each other.                              *)
THEOREM BestChosen == QuestionSpec => []ChoiceIsBest
  BY QuestionInvariant, ChoiceIsFirst, PTL

(* The probabilities by name: each with its own logit's or a later one's.    *)
Holding(o, names, p) == o = Object([i \in DOMAIN names |-> <<names[i], p[i]>>])
Within(names, S, n) == n \in Nat /\ DOMAIN names = 1..n /\ \A i \in 1..n : names[i] \in S
NamedBy(o, names, p, n) ==
    /\ Len(o.keys) = n
    /\ \A i \in 1..n :
          /\ o.keys[i] = names[i]
          /\ \E j \in i..n : names[j] = names[i] /\ o.M[names[i]] = p[j]

LEMMA ByNameIs ==
    ASSUME NEW S, NEW names, NEW p, NEW n, Within(names, S, n), NEW o, Holding(o, names, p)
    PROVE  NamedBy(o, names, p, n)
<1>0. n \in Nat /\ DOMAIN names = 1..n /\ \A i \in 1..n : names[i] \in S
  BY DEF Within
<1> DEFINE ps == [i \in DOMAIN names |-> <<names[i], p[i]>>]
<1>1. /\ DOMAIN ps = 1..n /\ Len(ps) = n
      /\ \A i \in 1..n : ps[i][1] = names[i] /\ ps[i][2] = p[i]
  BY <1>0
<1>2. o = Object(ps)
  BY DEF Holding
<1> HIDE DEF ps
<1>3. Grown(o, ps, S, n)
  BY <1>0, <1>1, <1>2, ObjectIs
<1>4. /\ Len(o.keys) = n /\ \A i \in 1..n : o.keys[i] = ps[i][1]
      /\ \A i \in 1..n : \E j \in i..n : ps[j][1] = ps[i][1] /\ o.M[ps[i][1]] = ps[j][2]
  BY <1>3 DEF Grown
<1>5. ASSUME NEW i \in 1..n PROVE \E j \in i..n : names[j] = names[i] /\ o.M[names[i]] = p[j]
  <2>1. PICK j \in i..n : ps[j][1] = ps[i][1] /\ o.M[ps[i][1]] = ps[j][2]
    BY <1>4
  <2>2. j \in 1..n
    BY <2>1
  <2> QED
    BY <1>1, <2>1, <2>2
<1> QED
  BY <1>1, <1>4, <1>5 DEF NamedBy

(* RenderOptions and AnswerOne agree on which logit is whose.                *)
LEMMA NamesAre == QuestionInv => NamesMatchLogits
<1> SUFFICES ASSUME QuestionInv, answer # Nil, Weighable(Asked)
             PROVE  /\ internal.T \in {"choice", "score"} =>
                          LET po == answer.probabilities IN
                          /\ Len(po.keys) = Len(rendered)
                          /\ \A i \in DOMAIN rendered :
                                /\ po.keys[i] = rendered[i][1]
                                /\ \/ po.M[rendered[i][1]] = Over(row[i], Scale)
                                   \/ \E j \in DOMAIN rendered : j > i /\ rendered[j][1] = rendered[i][1]
                    /\ \A i \in DOMAIN rendered :
                          internal.T = "noul" /\ rendered[i][1] = True => answer.noul = Over(row[i], Scale)
  BY DEF NamesMatchLogits
<1>1. step \in {"marshal", "sent"} /\ answer = Response /\ ~(internal.T = "choice" /\ rendered = <<>>)
  BY DEF QuestionInv, Responded
<1>2. Given /\ ~Refused(def) /\ internal = Internal(def) /\ rendered = Rendered
      /\ ~(internal.T = "choice" /\ internal.Crit = Null)
  BY <1>1 DEF QuestionInv, Defined, Listed
<1> DEFINE n == Len(Rendered)
<1>3. n = Len(Rendered)
  OBVIOUS
<1> HIDE DEF n
<1>4. \A i \in 1..K : Chances[i] = Over(row[i], Scale)
  BY <1>1, ChancesAre
<1>5. DOMAIN rendered = 1..n /\ n \in Nat /\ n = Len(rendered) /\ (rendered # <<>> => K = n)
  BY <1>1, <1>2, <1>3, CountIs, RenderedIs
<1>6. ASSUME internal.T \in {"choice", "score"}
      PROVE  LET po == answer.probabilities IN
             /\ Len(po.keys) = Len(rendered)
             /\ \A i \in DOMAIN rendered :
                   /\ po.keys[i] = rendered[i][1]
                   /\ \/ po.M[rendered[i][1]] = Over(row[i], Scale)
                      \/ \E j \in DOMAIN rendered : j > i /\ rendered[j][1] = rendered[i][1]
  <2> DEFINE po == answer.probabilities
             names == Names
             p == Chances
  <2>1. Holding(po, names, p)
    BY <1>1, <1>6 DEF Response, ByName, Holding
  <2>2. rendered # <<>> /\ K = n
    <3>1. rendered # <<>>
      <4>1. internal.T = "score" => n >= 1
        BY <1>2, <1>3, RenderedIs
      <4>2. Rendered = <<>> <=> n = 0
        BY <1>2, <1>3, RenderedIs
      <4> QED
        BY <1>1, <1>2, <1>6, <4>1, <4>2
    <3> QED
      BY <1>5, <3>1
  <2>3. DOMAIN names = 1..n /\ (\A i \in 1..n : names[i] = rendered[i][1])
        /\ \E S : \A i \in 1..n : names[i] \in S
    <3>1. CASE internal.T = "choice"
      <4>1. names = internal.Crit.keys
        BY <3>1 DEF Names
      <4> HIDE DEF names
      <4>2. PICK S : internal.Crit.keys \in Seq(S)
        BY <1>2, <1>3, <3>1, RenderedIs
      <4>3. DOMAIN names = 1..n /\ \A i \in 1..n : Rendered[i][1] = names[i]
        BY <1>2, <1>3, <3>1, <4>1, RenderedIs
      <4>4. \A i \in 1..n : names[i] \in S
        <5>1. names \in Seq(S)
          BY <4>1, <4>2
        <5>2. \A i \in DOMAIN names : names[i] \in S
          BY <5>1
        <5> QED
          BY <4>3, <5>2
      <4> QED
        BY <1>2, <4>3, <4>4
    <3>2. CASE internal.T = "score"
      <4>1. names = [i \in 1..K |-> i - 1]
        BY <3>2 DEF Names
      <4> HIDE DEF names
      <4>2. DOMAIN names = 1..n /\ \A i \in 1..n : names[i] = i - 1 /\ names[i] \in Int
        BY <2>2, <4>1
      <4>3. \A i \in 1..n : Rendered[i][1] = i - 1
        BY <1>2, <1>3, <3>2, RenderedIs
      <4> QED
        BY <1>2, <4>2, <4>3
    <3> QED
      BY <1>6, <3>1, <3>2
  <2> HIDE DEF names, p, po
  <2>4. PICK S : \A i \in 1..n : names[i] \in S
    BY <2>3
  <2>5. /\ Len(po.keys) = n
        /\ \A i \in 1..n :
              /\ po.keys[i] = names[i]
              /\ \E j \in i..n : names[j] = names[i] /\ po.M[names[i]] = p[j]
    <3>1. Within(names, S, n)
      BY <1>5, <2>3, <2>4 DEF Within
    <3>2. NamedBy(po, names, p, n)
      BY <2>1, <3>1, ByNameIs
    <3> QED
      BY <3>2 DEF NamedBy
  <2>6. ASSUME NEW i \in 1..n
        PROVE  \/ po.M[rendered[i][1]] = Over(row[i], Scale)
               \/ \E j \in 1..n : j > i /\ rendered[j][1] = rendered[i][1]
    <3>1. PICK j \in i..n : names[j] = names[i] /\ po.M[names[i]] = p[j]
      BY <2>5
    <3>2. j \in 1..n /\ (j = i \/ j > i)
      BY <3>1
    <3>3. p[i] = Over(row[i], Scale)
      BY <1>4, <2>2 DEF p
    <3> QED
      BY <2>3, <3>1, <3>2, <3>3
  <2> QED
    BY <1>5, <2>3, <2>5, <2>6 DEF po
<1>7. ASSUME NEW i \in DOMAIN rendered, internal.T = "noul", rendered[i][1] = True
      PROVE  answer.noul = Over(row[i], Scale)
  <2>1. n = 2 /\ rendered[1][1] = False
    BY <1>2, <1>3, <1>7, RenderedIs
  <2>2. False # True
    <3>1. <<"false">>[1] # <<"true">>[1]
      OBVIOUS
    <3> QED
      BY <3>1 DEF False, True
  <2>3. i = 2
    BY <1>5, <1>7, <2>1, <2>2
  <2>4. K = 2
    <3>1. Rendered # <<>>
      BY <1>2, <1>3, <2>1, RenderedIs
    <3> QED
      BY <1>2, <1>5, <2>1, <3>1
  <2>5. answer.noul = Chances[2]
    BY <1>1, <1>7 DEF Response
  <2> QED
    BY <1>4, <2>3, <2>4, <2>5
<1> QED
  BY <1>6, <1>7

(* NamesMatchLogits: the answer lists the options in the order they were     *)
(* rendered, each with the probability of its own logit unless a later       *)
(* option has its name, and noul is that of the option named "true".         *)
THEOREM AnswersNamed == QuestionSpec => []NamesMatchLogits
  BY QuestionInvariant, NamesAre, PTL

-----------------------------------------------------------------------------
(* pyDumps *)

Sign == Alphabet \cup Literals \cup Words
          \cup {Quote, Slash, "n", "u", "0", "8", "1", "b", "[", "]", Open, Close, Comma, Colon, Blank}

(* Escapes are told apart by their first character, or their second, or the  *)
(* fifth.                                                                    *)
LEMMA Chars6 ==
    ASSUME NEW S, NEW u \in S, NEW v \in S, NEW w \in S, NEW x \in S, NEW y \in S, NEW z \in S
    PROVE  LET e == <<u, v, w, x>> \o <<y, z>> IN
           e \in Seq(S) /\ Len(e) = 6 /\ e[1] = u /\ e[2] = v /\ e[5] = y
<1> DEFINE s == <<u, v, w, x>>
           t == <<y, z>>
           e == s \o t
<1>1. s \in Seq(S) /\ Len(s) = 4 /\ s[1] = u /\ s[2] = v
  OBVIOUS
<1>2. t \in Seq(S) /\ Len(t) = 2 /\ t[1] = y
  OBVIOUS
<1> HIDE DEF s, t
<1>3. /\ e \in Seq(S) /\ Len(e) = Len(s) + Len(t)
      /\ \A i \in 1..Len(s) : e[i] = s[i]
      /\ \A i \in (Len(s) + 1)..(Len(s) + Len(t)) : e[i] = t[i - Len(s)]
  <2>1. s \in Seq(S) /\ t \in Seq(S)
    BY <1>1, <1>2
  <2> QED
    BY <2>1, ConcatAt
<1>4. Len(s) + Len(t) = 6 /\ 1 \in 1..Len(s) /\ 2 \in 1..Len(s) /\ 5 \in (Len(s) + 1)..(Len(s) + Len(t))
      /\ 5 - Len(s) = 1
  BY <1>1, <1>2
<1>5. Len(e) = 6 /\ e[1] = u /\ e[2] = v /\ e[5] = y
  BY <1>1, <1>2, <1>3, <1>4
<1> QED
  BY <1>3, <1>5 DEF s, t

LEMMA Chars2 ==
    ASSUME NEW S, NEW u \in S, NEW v \in S
    PROVE  <<u, v>> \in Seq(S) /\ Len(<<u, v>>) = 2 /\ <<u, v>>[1] = u /\ <<u, v>>[2] = v
  OBVIOUS

LEMMA EscapeIs ==
    ASSUME NEW c \in Alphabet
    PROVE  LET e == Escape(c) IN
           /\ e \in Seq(Sign)
           /\ \/ c \in {Quote, Slash} /\ Len(e) = 2 /\ e[1] = Slash /\ e[2] = c
              \/ c = "NL" /\ Len(e) = 2 /\ e[1] = Slash /\ e[2] = "n"
              \/ c = "BS" /\ Len(e) = 6 /\ e[1] = Slash /\ e[2] = "u" /\ e[5] = "0"
              \/ c = "ESC" /\ Len(e) = 6 /\ e[1] = Slash /\ e[2] = "u" /\ e[5] = "1"
              \/ c \notin {Quote, Slash} /\ Len(e) = 1 /\ e[1] = c
<1> DEFINE e == Escape(c)
<1>1. c \in Sign /\ Slash \in Sign /\ "n" \in Sign /\ "u" \in Sign /\ "0" \in Sign /\ "8" \in Sign
      /\ "1" \in Sign /\ "b" \in Sign
  BY DEF Sign
<1>5. DOMAIN Hex = {"BS", "ESC"} /\ Hex["BS"] = <<"0", "8">> /\ Hex["ESC"] = <<"1", "b">>
  BY DEF Hex
<1>2. CASE c \in {Quote, Slash}
  <2>1. e = <<Slash, c>>
    <3>1. c \in {Quote, Slash} /\ c # "NL" /\ c \notin DOMAIN Hex
      BY <1>2, <1>5 DEF Quote, Slash
    <3> QED
      BY <3>1 DEF Escape
  <2> HIDE DEF e
  <2>2. e \in Seq(Sign) /\ Len(e) = 2 /\ e[1] = Slash /\ e[2] = c
    BY <1>1, <2>1, Chars2
  <2> QED
    BY <1>2, <2>2 DEF e
<1>4. CASE c = "NL"
  <2>1. e = <<Slash, "n">>
    <3>1. c \notin {Quote, Slash} /\ c = "NL" /\ c \notin DOMAIN Hex
      BY <1>4, <1>5 DEF Quote, Slash
    <3> QED
      BY <3>1 DEF Escape
  <2> HIDE DEF e
  <2>2. e \in Seq(Sign) /\ Len(e) = 2 /\ e[1] = Slash /\ e[2] = "n"
    BY <1>1, <2>1, Chars2
  <2> QED
    BY <1>4, <2>2 DEF e
<1>6. CASE c = "BS"
  <2>1. e = <<Slash, "u", "0", "0">> \o <<"0", "8">>
    BY <1>5, <1>6 DEF Escape, Quote, Slash
  <2> HIDE DEF e
  <2>2. e \in Seq(Sign) /\ Len(e) = 6 /\ e[1] = Slash /\ e[2] = "u" /\ e[5] = "0"
    BY <1>1, <2>1, Chars6
  <2> QED
    BY <1>6, <2>2 DEF e
<1>7. CASE c = "ESC"
  <2>1. e = <<Slash, "u", "0", "0">> \o <<"1", "b">>
    BY <1>5, <1>7 DEF Escape, Quote, Slash
  <2> HIDE DEF e
  <2>2. e \in Seq(Sign) /\ Len(e) = 6 /\ e[1] = Slash /\ e[2] = "u" /\ e[5] = "1"
    BY <1>1, <2>1, Chars6
  <2> QED
    BY <1>7, <2>2 DEF e
<1>8. CASE c \notin {Quote, Slash, "NL", "BS", "ESC"}
  <2>1. e = <<c>>
    BY <1>5, <1>8 DEF Escape
  <2> HIDE DEF e
  <2>2. e \in Seq(Sign) /\ Len(e) = 1 /\ e[1] = c
    BY <1>1, <2>1, OneEntry
  <2> QED
    BY <1>8, <2>2 DEF e
<1> QED
  BY <1>2, <1>4, <1>6, <1>7, <1>8

LEMMA SamePlace ==
    ASSUME NEW S, NEW s \in Seq(S), NEW t \in Seq(S), NEW a \in Seq(S), NEW b \in Seq(S),
           s \o a = t \o b, NEW i \in 1..Len(s), i \in 1..Len(t)
    PROVE  s[i] = t[i]
<1>1. (s \o a)[i] = s[i]
  BY ConcatAt
<1>2. (t \o b)[i] = t[i]
  BY ConcatAt
<1> QED
  BY <1>1, <1>2

LEMMA EscapeApart ==
    ASSUME NEW c \in Alphabet, NEW d \in Alphabet
    PROVE  /\ StartsUnlike(Escape(c), Sign, Quote)
           /\ Separable(Escape(c), Escape(d), Sign)
           /\ Escape(c) = Escape(d) => c = d
<1> DEFINE e == Escape(c)
           f == Escape(d)
<1>1. /\ e \in Seq(Sign)
      /\ \/ c \in {Quote, Slash} /\ Len(e) = 2 /\ e[1] = Slash /\ e[2] = c
         \/ c = "NL" /\ Len(e) = 2 /\ e[1] = Slash /\ e[2] = "n"
         \/ c = "BS" /\ Len(e) = 6 /\ e[1] = Slash /\ e[2] = "u" /\ e[5] = "0"
         \/ c = "ESC" /\ Len(e) = 6 /\ e[1] = Slash /\ e[2] = "u" /\ e[5] = "1"
         \/ c \notin {Quote, Slash} /\ Len(e) = 1 /\ e[1] = c
  BY EscapeIs
<1>2. /\ f \in Seq(Sign)
      /\ \/ d \in {Quote, Slash} /\ Len(f) = 2 /\ f[1] = Slash /\ f[2] = d
         \/ d = "NL" /\ Len(f) = 2 /\ f[1] = Slash /\ f[2] = "n"
         \/ d = "BS" /\ Len(f) = 6 /\ f[1] = Slash /\ f[2] = "u" /\ f[5] = "0"
         \/ d = "ESC" /\ Len(f) = 6 /\ f[1] = Slash /\ f[2] = "u" /\ f[5] = "1"
         \/ d \notin {Quote, Slash} /\ Len(f) = 1 /\ f[1] = d
  BY EscapeIs
<1>4. c = d => e = f
  OBVIOUS
<1> HIDE DEF e, f
<1>5. StartsUnlike(e, Sign, Quote)
  BY <1>1 DEF StartsUnlike, Quote, Slash
<1>6. ASSUME NEW a \in Seq(Sign), NEW b \in Seq(Sign), e \o a = f \o b PROVE c = d
  <2>1. \A i \in 1..Len(e) : i \in 1..Len(f) => e[i] = f[i]
    BY <1>1, <1>2, <1>6, SamePlace
  <2>2. Len(e) \in {1, 2, 6} /\ Len(f) \in {1, 2, 6}
    BY <1>1, <1>2
  <2>3. e[1] = f[1]
    BY <2>1, <2>2
  <2>4. Len(e) # 1 /\ Len(f) # 1 => e[2] = f[2]
    BY <2>1, <2>2
  <2>5. Len(e) = 6 /\ Len(f) = 6 => e[5] = f[5]
    BY <2>1, <2>2
  <2> QED
    BY <1>1, <1>2, <2>3, <2>4, <2>5 DEF Quote, Slash
<1>7. Separable(e, f, Sign)
  <2> SUFFICES ASSUME NEW a \in Seq(Sign), NEW b \in Seq(Sign), e \o a = f \o b PROVE e = f /\ a = b
    BY DEF Separable
  <2>1. e = f
    BY <1>4, <1>6
  <2>2. e \in Seq(Sign) /\ e \o a = e \o b
    BY <1>1, <2>1
  <2>3. a = b
    BY <2>2, Cancelled
  <2> QED
    BY <2>1, <2>3
<1>8. e = f => c = d
  <2>1. <<>> \in Seq(Sign)
    OBVIOUS
  <2> QED
    BY <1>6, <2>1
<1> QED
  BY <1>5, <1>7, <1>8 DEF e, f

Escapes(s) == [i \in DOMAIN s |-> Escape(s[i])]

LEMMA EscapesAre ==
    ASSUME NEW s \in Seq(Alphabet), NEW t \in Seq(Alphabet)
    PROVE  /\ Coded(Escapes(s), Escapes(t), Sign, Quote)
           /\ Escapes(s) = Escapes(t) => s = t
<1> DEFINE p == Escapes(s)
           q == Escapes(t)
           m == Len(s)
           n == Len(t)
<1>1. m \in Nat /\ DOMAIN s = 1..m /\ (\A i \in 1..m : s[i] \in Alphabet)
  OBVIOUS
<1>2. n \in Nat /\ DOMAIN t = 1..n /\ (\A i \in 1..n : t[i] \in Alphabet)
  OBVIOUS
<1>3. Quote \in Sign
  BY DEF Sign
<1>4. \A c \in Alphabet : Escape(c) \in Seq(Sign)
  BY EscapeIs
<1>5. m = Len(s) /\ n = Len(t)
  OBVIOUS
<1> HIDE DEF m, n
<1>6. DOMAIN p = 1..m /\ (\A i \in 1..m : p[i] = Escape(s[i])) /\ p \in [1..m -> Seq(Sign)]
  BY <1>1, <1>4 DEF Escapes
<1>7. DOMAIN q = 1..n /\ (\A i \in 1..n : q[i] = Escape(t[i])) /\ q \in [1..n -> Seq(Sign)]
  BY <1>2, <1>4 DEF Escapes
<1> HIDE DEF p, q
<1>14. p \in Seq(Seq(Sign)) /\ Len(p) = m
  BY <1>1, <1>6
<1>15. q \in Seq(Seq(Sign)) /\ Len(q) = n
  BY <1>2, <1>7
<1>8. p \in Seq(Seq(Sign)) /\ Len(p) = m /\ q \in Seq(Seq(Sign)) /\ Len(q) = n
  BY <1>14, <1>15
<1>9. \A i \in 1..m : StartsUnlike(p[i], Sign, Quote)
  BY <1>1, <1>6, EscapeApart
<1>10. \A i \in 1..n : StartsUnlike(q[i], Sign, Quote)
  BY <1>2, <1>7, EscapeApart
<1>11. \A i \in 1..m : i \in 1..n => Separable(p[i], q[i], Sign) /\ (p[i] = q[i] => s[i] = t[i])
  BY <1>1, <1>2, <1>6, <1>7, EscapeApart
<1>12. Coded(p, q, Sign, Quote)
  BY <1>3, <1>8, <1>9, <1>10, <1>11 DEF Coded
<1>13. ASSUME p = q PROVE s = t
  <2>1. m = n
    BY <1>8, <1>13
  <2>2. \A i \in 1..m : s[i] = t[i]
    BY <1>11, <1>13, <2>1
  <2> QED
    BY <1>5, <2>1, <2>2, SeqEqual
<1> QED
  BY <1>12, <1>13 DEF p, q

(* A quoted text is told apart from any other.                               *)
LEMMA StringApart ==
    ASSUME NEW s \in Seq(Alphabet), NEW t \in Seq(Alphabet)
    PROVE  /\ String(s) \in Seq(Sign) /\ Len(String(s)) >= 1 /\ String(s)[1] = Quote
           /\ \A a, b \in Seq(Sign) : String(s) \o a = String(t) \o b => s = t /\ a = b
<1>1. Coded(Escapes(s), Escapes(t), Sign, Quote) /\ (Escapes(s) = Escapes(t) => s = t)
  BY EscapesAre
<1>2. Quote \in Sign /\ Escapes(s) \in Seq(Seq(Sign))
  BY <1>1 DEF Coded
<1>3. String(s) = Enclosed(Quote, Escapes(s), Quote) /\ String(t) = Enclosed(Quote, Escapes(t), Quote)
  BY DEF String, Escapes, Enclosed
<1>4. String(s) \in Seq(Sign) /\ Len(String(s)) >= 1 /\ String(s)[1] = Quote
  <2> DEFINE P == Escapes(s)
             o == Quote
  <2>1. P \in Seq(Seq(Sign)) /\ o \in Sign
    BY <1>2
  <2> HIDE DEF P, o
  <2>2. Enclosed(o, P, o) \in Seq(Sign) /\ Len(Enclosed(o, P, o)) >= 1 /\ Enclosed(o, P, o)[1] = o
    BY <2>1, EnclosedIs
  <2> QED
    BY <1>3, <2>2 DEF P, o
<1>5. ASSUME NEW a \in Seq(Sign), NEW b \in Seq(Sign), String(s) \o a = String(t) \o b PROVE s = t /\ a = b
  <2> DEFINE P == Escapes(s)
             Q == Escapes(t)
             o == Quote
  <2>1. o \in Sign /\ Coded(P, Q, Sign, o) /\ Alike(Enclosed(o, P, o), a, Enclosed(o, Q, o), b)
    BY <1>1, <1>2, <1>3, <1>5 DEF Alike
  <2> HIDE DEF P, Q, o
  <2>2. P = Q /\ a = b
    BY <2>1, EnclosedApart
  <2> QED
    BY <1>1, <2>2 DEF P, Q
<1> QED
  BY <1>4, <1>5

(* Commas between the parts change nothing of that.                          *)
Gap(i) == IF i > 1 THEN <<Comma, Blank>> ELSE <<>>
Separated(parts) == [i \in DOMAIN parts |-> Gap(i) \o parts[i]]

LEMMA GapIs ==
    ASSUME NEW i \in Nat, NEW p, NEW c, StartsUnlike(p, Sign, c), c # Comma
    PROVE  Gap(i) \in Seq(Sign) /\ StartsUnlike(Gap(i) \o p, Sign, c)
<1> DEFINE x == Gap(i)
<1>1. p \in Seq(Sign) /\ Len(p) >= 1 /\ p[1] # c
  BY DEF StartsUnlike
<1>2. CASE i > 1
  <2>1. Comma \in Sign /\ Blank \in Sign
    BY DEF Sign
  <2>2. x = <<Comma, Blank>>
    BY <1>2 DEF Gap
  <2> HIDE DEF x
  <2>3. x \in Seq(Sign) /\ Len(x) = 2 /\ x[1] = Comma
    BY <2>1, <2>2, Chars2
  <2>4. x \o p \in Seq(Sign) /\ Len(x \o p) = 2 + Len(p) /\ (x \o p)[1] = Comma
    <3>1. x \o p \in Seq(Sign) /\ Len(x \o p) = Len(x) + Len(p)
      BY <1>1, <2>3, ConcatAt
    <3>2. (x \o p)[1] = x[1]
      <4>1. x \in Seq(Sign) /\ Len(x) >= 1 /\ p \in Seq(Sign)
        BY <1>1, <2>3
      <4> QED
        BY <4>1, FirstOf
    <3> QED
      BY <2>3, <3>1, <3>2
  <2>5. Len(p) \in Nat
    BY <1>1
  <2>6. StartsUnlike(x \o p, Sign, c)
    BY <1>1, <2>4, <2>5 DEF StartsUnlike
  <2> QED
    BY <2>3, <2>6 DEF x
<1>3. CASE ~(i > 1)
  <2>1. x = <<>>
    BY <1>3 DEF Gap
  <2>2. x \o p = p /\ x \in Seq(Sign)
    BY <1>1, <2>1, ConcatEmptySeq
  <2> QED
    BY <2>2
<1> QED
  BY <1>2, <1>3

LEMMA SeparatedApart ==
    ASSUME NEW c, NEW P, NEW Q, Coded(P, Q, Sign, c), c # Comma
    PROVE  /\ Coded(Separated(P), Separated(Q), Sign, c)
           /\ Separated(P) = Separated(Q) => P = Q
<1> DEFINE p == Separated(P)
           q == Separated(Q)
           m == Len(P)
           n == Len(Q)
<1>1. /\ c \in Sign /\ P \in Seq(Seq(Sign)) /\ Q \in Seq(Seq(Sign))
      /\ \A i \in 1..m : StartsUnlike(P[i], Sign, c)
      /\ \A i \in 1..n : StartsUnlike(Q[i], Sign, c)
      /\ \A i \in 1..m : i \in 1..n => Separable(P[i], Q[i], Sign)
  BY DEF Coded
<1>2. m \in Nat /\ DOMAIN P = 1..m /\ n \in Nat /\ DOMAIN Q = 1..n /\ m = Len(P) /\ n = Len(Q)
  BY <1>1
<1> HIDE DEF m, n
<1>3. \A i \in 1..m : i \in Nat /\ P[i] \in Seq(Sign)
  BY <1>1, <1>2 DEF StartsUnlike
<1>4. \A i \in 1..n : i \in Nat /\ Q[i] \in Seq(Sign)
  BY <1>1, <1>2 DEF StartsUnlike
<1>5. DOMAIN p = 1..m /\ \A i \in 1..m : p[i] = Gap(i) \o P[i]
  BY <1>2 DEF Separated
<1>6. DOMAIN q = 1..n /\ \A i \in 1..n : q[i] = Gap(i) \o Q[i]
  BY <1>2 DEF Separated
<1>7. p = [i \in 1..m |-> p[i]] /\ q = [i \in 1..n |-> q[i]]
  BY <1>2 DEF Separated
<1> HIDE DEF p, q
<1>8. \A i \in 1..m : StartsUnlike(p[i], Sign, c) /\ Gap(i) \in Seq(Sign)
  BY <1>1, <1>3, <1>5, GapIs
<1>9. \A i \in 1..n : StartsUnlike(q[i], Sign, c)
  BY <1>1, <1>4, <1>6, GapIs
<1>10. p \in Seq(Seq(Sign)) /\ Len(p) = m
  <2>1. \A i \in 1..m : p[i] \in Seq(Sign)
    BY <1>8 DEF StartsUnlike
  <2>2. p \in [1..m -> Seq(Sign)]
    BY <1>7, <2>1
  <2> QED
    BY <1>2, <2>2
<1>11. q \in Seq(Seq(Sign)) /\ Len(q) = n
  <2>1. \A i \in 1..n : q[i] \in Seq(Sign)
    BY <1>9 DEF StartsUnlike
  <2>2. q \in [1..n -> Seq(Sign)]
    BY <1>7, <2>1
  <2> QED
    BY <1>2, <2>2
<1>12. ASSUME NEW i \in 1..m, i \in 1..n PROVE Separable(p[i], q[i], Sign) /\ (p[i] = q[i] => P[i] = Q[i])
  <2> DEFINE x == Gap(i)
             u == P[i]
             v == Q[i]
  <2>1. x \in Seq(Sign) /\ u \in Seq(Sign) /\ v \in Seq(Sign)
    BY <1>3, <1>4, <1>8, <1>12
  <2>2. Separable(u, v, Sign)
    BY <1>1, <1>12
  <2>3. p[i] = x \o u /\ q[i] = x \o v
    BY <1>5, <1>6, <1>12
  <2> HIDE DEF x, u, v
  <2>4. Separable(x, x, Sign)
    BY <2>1, SelfSeparable
  <2>5. Separable(x \o u, x \o v, Sign)
    BY <2>1, <2>2, <2>4, Followed
  <2>6. x \o u = x \o v => u = v
    BY <2>1, Cancelled
  <2> QED
    BY <2>3, <2>5, <2>6 DEF u, v
<1>13. Coded(p, q, Sign, c)
  BY <1>1, <1>8, <1>9, <1>10, <1>11, <1>12 DEF Coded
<1>14. ASSUME p = q PROVE P = Q
  <2>1. m = n
    BY <1>10, <1>11, <1>14
  <2>2. \A i \in 1..m : P[i] = Q[i]
    BY <1>12, <1>14, <2>1
  <2> QED
    BY <1>1, <1>2, <2>1, <2>2, SeqEqual
<1> QED
  BY <1>13, <1>14 DEF p, q

-----------------------------------------------------------------------------
(* Values and their texts *)

(* A value over those in V, and texts of these that tell them apart, whatever*)
(* stands behind.                                                            *)
Composed(v, V) ==
    \/ v \in Scalars
    \/ v = Arr(v.items) /\ v.items \in Seq(V)
    \/ /\ v = Obj(v.keys, v.M) /\ v.keys \in Seq(Seq(Alphabet))
       /\ v.M \in [{v.keys[i] : i \in DOMAIN v.keys} -> V]

Telling(x, y, v, w) == \A a, b \in Seq(Sign) : Alike(x, a, y, b) => v = w /\ a = b
Legible(V, t) ==
    \A v \in V : /\ StartsUnlike(t[v], Sign, "]") /\ StartsUnlike(t[v], Sign, Close)
                 /\ \A w \in V : Telling(t[v], t[w], v, w)

LEMMA TextsAre ==
    ASSUME NEW V, NEW t, Legible(V, t), NEW x \in V, NEW y \in V
    PROVE  /\ StartsUnlike(t[x], Sign, "]") /\ StartsUnlike(t[x], Sign, Close)
           /\ Separable(t[x], t[y], Sign)
           /\ t[x] = t[y] => x = y
<1>1. StartsUnlike(t[x], Sign, "]") /\ StartsUnlike(t[x], Sign, Close) /\ Telling(t[x], t[y], x, y)
  BY DEF Legible
<1>2. ASSUME NEW a \in Seq(Sign), NEW b \in Seq(Sign), t[x] \o a = t[y] \o b PROVE x = y /\ a = b
  BY <1>1, <1>2 DEF Telling, Alike
<1>3. Separable(t[x], t[y], Sign)
  BY <1>2 DEF Separable
<1>4. <<>> \in Seq(Sign)
  OBVIOUS
<1>5. t[x] = t[y] => x = y
  BY <1>2, <1>4
<1> QED
  BY <1>1, <1>3, <1>5

(* What a text starts with says what kind of a value it is of.               *)
Lead(v) ==
    CASE v.kind = "str" -> Quote
      [] v.kind = "num" -> v.lit
      [] v.kind = "word" -> v.word
      [] v.kind = "arr" -> "["
      [] OTHER -> Open

LEMMA ComposedKinds ==
    ASSUME NEW V, NEW v, Composed(v, V)
    PROVE  /\ v.kind \in {"str", "num", "word", "arr", "obj"}
           /\ v.kind = "str" => v = Str(v.s) /\ v.s \in Seq(Alphabet)
           /\ v.kind = "num" => v = Num(v.lit) /\ v.lit \in Literals
           /\ v.kind = "word" => v = Word(v.word) /\ v.word \in Words
           /\ v.kind = "arr" => v = Arr(v.items) /\ v.items \in Seq(V)
           /\ v.kind = "obj" => /\ v = Obj(v.keys, v.M) /\ v.keys \in Seq(Seq(Alphabet))
                                /\ v.M \in [{v.keys[i] : i \in DOMAIN v.keys} -> V]
<1>1. CASE v \in [kind : {"str"}, s : Seq(Alphabet)]
  <2>1. v.kind = "str" /\ v = Str(v.s) /\ v.s \in Seq(Alphabet)
    BY <1>1 DEF Str
  <2> QED
    BY <2>1
<1>2. CASE v \in [kind : {"num"}, lit : Literals]
  <2>1. v.kind = "num" /\ v = Num(v.lit) /\ v.lit \in Literals
    BY <1>2 DEF Num
  <2> QED
    BY <2>1
<1>3. CASE v \in [kind : {"word"}, word : Words]
  <2>1. v.kind = "word" /\ v = Word(v.word) /\ v.word \in Words
    BY <1>3 DEF Word
  <2> QED
    BY <2>1
<1>4. CASE v = Arr(v.items) /\ v.items \in Seq(V)
  <2>1. v.kind = "arr"
    BY <1>4 DEF Arr
  <2> QED
    BY <1>4, <2>1
<1>5. CASE /\ v = Obj(v.keys, v.M) /\ v.keys \in Seq(Seq(Alphabet))
           /\ v.M \in [{v.keys[i] : i \in DOMAIN v.keys} -> V]
  <2>1. v.kind = "obj"
    BY <1>5 DEF Obj
  <2> QED
    BY <1>5, <2>1
<1> QED
  BY <1>1, <1>2, <1>3, <1>4, <1>5 DEF Composed, Scalars

LEMMA LeadApart ==
    ASSUME NEW V, NEW v, NEW w, Composed(v, V), Composed(w, V)
    PROVE  /\ Lead(v) = Lead(w) => v.kind = w.kind
           /\ Lead(v) \notin {"]", Close}
<1>1. /\ v.kind \in {"str", "num", "word", "arr", "obj"}
      /\ v.kind = "num" => v.lit \in Literals
      /\ v.kind = "word" => v.word \in Words
  BY ComposedKinds
<1>2. /\ w.kind \in {"str", "num", "word", "arr", "obj"}
      /\ w.kind = "num" => w.lit \in Literals
      /\ w.kind = "word" => w.word \in Words
  BY ComposedKinds
<1>3. \A l \in Literals : l \notin Words /\ l \notin {Quote, "[", "]", Open, Close}
  BY LiteralAssumption
<1>4. \A l \in Words : l \notin {Quote, "[", "]", Open, Close}
  BY DEF Words, Quote, Open, Close
<1>5. Quote \notin {"[", "]", Open, Close} /\ "[" \notin {"]", Open, Close} /\ Open \notin {"]", Close}
  BY DEF Quote, Open, Close
<1>6. \A x : /\ x.kind = "str" => Lead(x) = Quote
             /\ x.kind = "num" => Lead(x) = x.lit
             /\ x.kind = "word" => Lead(x) = x.word
             /\ x.kind = "arr" => Lead(x) = "["
             /\ x.kind = "obj" => Lead(x) = Open
  BY DEF Lead
<1>7. Lead(v) \notin {"]", Close}
  BY <1>1, <1>3, <1>4, <1>5, <1>6
<1>8. ASSUME Lead(v) = Lead(w) PROVE v.kind = w.kind
  <2>1. CASE v.kind = "str"
    BY <1>2, <1>3, <1>4, <1>5, <1>6, <1>8, <2>1
  <2>2. CASE v.kind = "num"
    BY <1>1, <1>2, <1>3, <1>6, <1>8, <2>2
  <2>3. CASE v.kind = "word"
    BY <1>1, <1>2, <1>3, <1>4, <1>6, <1>8, <2>3
  <2>4. CASE v.kind = "arr"
    BY <1>2, <1>3, <1>4, <1>5, <1>6, <1>8, <2>4
  <2>5. CASE v.kind = "obj"
    BY <1>2, <1>3, <1>4, <1>5, <1>6, <1>8, <2>5
  <2> QED
    BY <1>1, <2>1, <2>2, <2>3, <2>4, <2>5
<1> QED
  BY <1>7, <1>8

(* The texts inside an array, and of the entries of an object.               *)
Parts(v, t) == [i \in DOMAIN v.items |-> t[v.items[i]]]
Entry(k, x) == String(k) \o <<Colon, Blank>> \o x
Entries(v, t) == [i \in DOMAIN v.keys |-> Entry(v.keys[i], t[v.M[v.keys[i]]])]

LEMMA PartsAre ==
    ASSUME NEW V, NEW t, Legible(V, t), NEW v, NEW w, v = Arr(v.items), w = Arr(w.items),
           v.items \in Seq(V), w.items \in Seq(V)
    PROVE  /\ Coded(Parts(v, t), Parts(w, t), Sign, "]")
           /\ Parts(v, t) = Parts(w, t) => v = w
           /\ DumpedOver(v, t) = Enclosed("[", Separated(Parts(v, t)), "]")
<1> DEFINE p == Parts(v, t)
           q == Parts(w, t)
           s == v.items
           u == w.items
           m == Len(s)
           n == Len(u)
<1>1. m \in Nat /\ DOMAIN s = 1..m /\ (\A i \in 1..m : s[i] \in V) /\ m = Len(s)
  OBVIOUS
<1>2. n \in Nat /\ DOMAIN u = 1..n /\ (\A i \in 1..n : u[i] \in V) /\ n = Len(u)
  OBVIOUS
<1>3. v.kind = "arr"
  BY DEF Arr
<1>4. DumpedOver(v, t) = Enclosed("[", Separated(p), "]")
  <2>1. DumpedOver(v, t) = <<"[">> \o Joined(p) \o <<"]">>
    BY <1>3 DEF DumpedOver, Parts
  <2>2. Joined(p) = Seqs!FlattenSeq(Separated(p))
    BY DEF Joined, Separated, Gap
  <2> QED
    BY <2>1, <2>2 DEF Enclosed
<1>5. p = [i \in 1..m |-> t[s[i]]]
  BY <1>1 DEF Parts
<1>6. q = [i \in 1..n |-> t[u[i]]]
  BY <1>2 DEF Parts
<1> HIDE DEF m, n, s, u, p, q
<1>7. \A x \in V : StartsUnlike(t[x], Sign, "]") /\ t[x] \in Seq(Sign)
  BY TextsAre DEF StartsUnlike
<1>8. p \in Seq(Seq(Sign)) /\ Len(p) = m /\ \A i \in 1..m : p[i] = t[s[i]]
  <2>1. p \in [1..m -> Seq(Sign)]
    BY <1>1, <1>5, <1>7
  <2>2. \A i \in 1..m : p[i] = t[s[i]]
    BY <1>5
  <2> QED
    BY <1>1, <2>1, <2>2
<1>9. q \in Seq(Seq(Sign)) /\ Len(q) = n /\ \A i \in 1..n : q[i] = t[u[i]]
  <2>1. q \in [1..n -> Seq(Sign)]
    BY <1>2, <1>6, <1>7
  <2>2. \A i \in 1..n : q[i] = t[u[i]]
    BY <1>6
  <2> QED
    BY <1>2, <2>1, <2>2
<1>10. \A i \in 1..m : i \in 1..n => Separable(p[i], q[i], Sign) /\ (p[i] = q[i] => s[i] = u[i])
  BY <1>1, <1>2, <1>8, <1>9, TextsAre
<1>11. "]" \in Sign
  BY DEF Sign
<1>12. Coded(p, q, Sign, "]")
  BY <1>1, <1>2, <1>7, <1>8, <1>9, <1>10, <1>11 DEF Coded
<1>13. ASSUME p = q PROVE v = w
  <2>1. m = n
    BY <1>8, <1>9, <1>13
  <2>2. \A i \in 1..m : s[i] = u[i]
    BY <1>10, <1>13, <2>1
  <2>3. s \in Seq(V) /\ u \in Seq(V)
    BY DEF s, u
  <2>4. s = u
    BY <1>1, <1>2, <2>1, <2>2, <2>3, SeqEqual
  <2>5. v = Arr(s) /\ w = Arr(u)
    BY DEF s, u
  <2> QED
    BY <2>4, <2>5
<1> QED
  BY <1>4, <1>12, <1>13 DEF p, q

LEMMA EntryIs ==
    ASSUME NEW k \in Seq(Alphabet), NEW l \in Seq(Alphabet), NEW x \in Seq(Sign), NEW y \in Seq(Sign),
           Separable(x, y, Sign)
    PROVE  /\ StartsUnlike(Entry(k, x), Sign, Close)
           /\ Separable(Entry(k, x), Entry(l, y), Sign)
           /\ Entry(k, x) = Entry(l, y) => k = l /\ x = y
<1> DEFINE s == String(k)
           t == String(l)
           m == <<Colon, Blank>>
<1>1. /\ s \in Seq(Sign) /\ Len(s) >= 1 /\ s[1] = Quote
      /\ \A a, b \in Seq(Sign) : s \o a = t \o b => k = l /\ a = b
  BY StringApart
<1>2. t \in Seq(Sign)
  BY StringApart
<1>3. m \in Seq(Sign)
  <2>1. Colon \in Sign /\ Blank \in Sign
    BY DEF Sign
  <2> QED
    BY <2>1, Chars2
<1>4. Entry(k, x) = (s \o m) \o x /\ Entry(l, y) = (t \o m) \o y
  BY DEF Entry
<1>5. k = l => s = t
  OBVIOUS
<1> HIDE DEF s, t, m
<1>6. Separable(s, t, Sign) /\ Separable(m, m, Sign)
  BY <1>1, <1>3, <1>5, SelfSeparable DEF Separable
<1>7. Separable(s \o m, t \o m, Sign)
  BY <1>1, <1>2, <1>3, <1>6, Followed
<1>8. s \o m \in Seq(Sign) /\ t \o m \in Seq(Sign)
  BY <1>1, <1>2, <1>3, ConcatProperties
<1>9. Separable((s \o m) \o x, (t \o m) \o y, Sign)
  <2> DEFINE c == s \o m
             d == t \o m
  <2>1. c \in Seq(Sign) /\ d \in Seq(Sign) /\ Separable(c, d, Sign)
    BY <1>7, <1>8
  <2> HIDE DEF c, d
  <2>2. Separable(c \o x, d \o y, Sign)
    BY <2>1, Followed
  <2> QED
    BY <2>2 DEF c, d
<1>10. Grouped(s, m, x, Sign) /\ Grouped(t, m, y, Sign)
  BY <1>1, <1>2, <1>3, GroupedIs
<1>11. /\ (s \o m) \o x = s \o (m \o x) /\ m \o x \in Seq(Sign)
       /\ (t \o m) \o y = t \o (m \o y) /\ m \o y \in Seq(Sign)
  BY <1>10 DEF Grouped
<1>12. ASSUME (s \o m) \o x = (t \o m) \o y PROVE k = l /\ x = y
  <2>1. k = l /\ m \o x = m \o y
    BY <1>1, <1>11, <1>12
  <2>2. x = y
    BY <1>3, <2>1, Cancelled
  <2> QED
    BY <2>1, <2>2
<1>13. StartsUnlike((s \o m) \o x, Sign, Close)
  <2> DEFINE r == m \o x
  <2>1. r \in Seq(Sign) /\ s \in Seq(Sign) /\ Len(s) >= 1
    BY <1>1, <1>11
  <2> HIDE DEF r
  <2>2. (s \o r)[1] = s[1]
    BY <2>1, FirstOf
  <2>3. s \o r \in Seq(Sign) /\ Len(s \o r) = Len(s) + Len(r)
    BY <2>1, ConcatAt
  <2>4. Len(s) \in Nat /\ Len(r) \in Nat
    BY <2>1
  <2>5. Quote # Close
    BY DEF Quote, Close
  <2>6. (s \o m) \o x = s \o r
    BY <1>11 DEF r
  <2> QED
    BY <1>1, <2>2, <2>3, <2>4, <2>5, <2>6, <2>1 DEF StartsUnlike
<1> QED
  BY <1>4, <1>9, <1>12, <1>13

LEMMA EntriesAre ==
    ASSUME NEW V, NEW t, Legible(V, t), NEW v, NEW w, v = Obj(v.keys, v.M), w = Obj(w.keys, w.M),
           v.keys \in Seq(Seq(Alphabet)), w.keys \in Seq(Seq(Alphabet)),
           v.M \in [{v.keys[i] : i \in DOMAIN v.keys} -> V], w.M \in [{w.keys[i] : i \in DOMAIN w.keys} -> V]
    PROVE  /\ Coded(Entries(v, t), Entries(w, t), Sign, Close)
           /\ Entries(v, t) = Entries(w, t) => v = w
           /\ DumpedOver(v, t) = Enclosed(Open, Separated(Entries(v, t)), Close)
<1> DEFINE p == Entries(v, t)
           q == Entries(w, t)
           s == v.keys
           u == w.keys
           m == Len(s)
           n == Len(u)
           f == v.M
           g == w.M
<1>1. /\ m \in Nat /\ DOMAIN s = 1..m /\ (\A i \in 1..m : s[i] \in Seq(Alphabet) /\ f[s[i]] \in V)
      /\ m = Len(s)
  OBVIOUS
<1>2. /\ n \in Nat /\ DOMAIN u = 1..n /\ (\A i \in 1..n : u[i] \in Seq(Alphabet) /\ g[u[i]] \in V)
      /\ n = Len(u)
  OBVIOUS
<1>3. v.kind = "obj"
  BY DEF Obj
<1>4. DumpedOver(v, t) = Enclosed(Open, Separated(p), Close)
  <2>1. DumpedOver(v, t) = <<Open>> \o Joined(p) \o <<Close>>
    BY <1>3 DEF DumpedOver, Entries, Entry
  <2>2. Joined(p) = Seqs!FlattenSeq(Separated(p))
    BY DEF Joined, Separated, Gap
  <2> QED
    BY <2>1, <2>2 DEF Enclosed
<1>5. p = [i \in 1..m |-> Entry(s[i], t[f[s[i]]])]
  BY <1>1 DEF Entries
<1>6. q = [i \in 1..n |-> Entry(u[i], t[g[u[i]]])]
  BY <1>2 DEF Entries
<1>16. f \in [{s[i] : i \in 1..m} -> V] /\ g \in [{u[i] : i \in 1..n} -> V]
  BY <1>1, <1>2
<1> HIDE DEF m, n, s, u, p, q, f, g
<1>7. \A x, y \in V : t[x] \in Seq(Sign) /\ Separable(t[x], t[y], Sign) /\ (t[x] = t[y] => x = y)
  BY TextsAre DEF StartsUnlike
<1>8. \A k, l \in Seq(Alphabet), x, y \in V :
          /\ StartsUnlike(Entry(k, t[x]), Sign, Close) /\ Entry(k, t[x]) \in Seq(Sign)
          /\ Separable(Entry(k, t[x]), Entry(l, t[y]), Sign)
          /\ Entry(k, t[x]) = Entry(l, t[y]) => k = l /\ x = y
  BY <1>7, EntryIs DEF StartsUnlike
<1>9. p \in Seq(Seq(Sign)) /\ Len(p) = m /\ \A i \in 1..m : p[i] = Entry(s[i], t[f[s[i]]])
  <2>1. p \in [1..m -> Seq(Sign)]
    BY <1>1, <1>5, <1>8
  <2>2. \A i \in 1..m : p[i] = Entry(s[i], t[f[s[i]]])
    BY <1>5
  <2> QED
    BY <1>1, <2>1, <2>2
<1>10. q \in Seq(Seq(Sign)) /\ Len(q) = n /\ \A i \in 1..n : q[i] = Entry(u[i], t[g[u[i]]])
  <2>1. q \in [1..n -> Seq(Sign)]
    BY <1>2, <1>6, <1>8
  <2>2. \A i \in 1..n : q[i] = Entry(u[i], t[g[u[i]]])
    BY <1>6
  <2> QED
    BY <1>2, <2>1, <2>2
<1>11. ASSUME NEW i \in 1..m, i \in 1..n
       PROVE  Separable(p[i], q[i], Sign) /\ (p[i] = q[i] => s[i] = u[i] /\ f[s[i]] = g[u[i]])
  <2> DEFINE k == s[i]
             l == u[i]
             x == f[k]
             y == g[l]
  <2>1. k \in Seq(Alphabet) /\ l \in Seq(Alphabet) /\ x \in V /\ y \in V
    BY <1>1, <1>2, <1>11
  <2>2. p[i] = Entry(k, t[x]) /\ q[i] = Entry(l, t[y])
    BY <1>9, <1>10, <1>11
  <2> HIDE DEF k, l, x, y
  <2>3. Separable(Entry(k, t[x]), Entry(l, t[y]), Sign) /\ (Entry(k, t[x]) = Entry(l, t[y]) => k = l /\ x = y)
    BY <1>8, <2>1
  <2>4. Separable(p[i], q[i], Sign) /\ (p[i] = q[i] => k = l /\ x = y)
    BY <2>2, <2>3
  <2> QED
    BY <2>4 DEF k, l, x, y
<1>12. Close \in Sign
  BY DEF Sign
<1>13. Coded(p, q, Sign, Close)
  <2>1. ASSUME NEW i \in 1..m PROVE StartsUnlike(p[i], Sign, Close)
    <3>1. s[i] \in Seq(Alphabet) /\ f[s[i]] \in V /\ p[i] = Entry(s[i], t[f[s[i]]])
      BY <1>1, <1>9
    <3> QED
      BY <1>8, <3>1
  <2>2. ASSUME NEW i \in 1..n PROVE StartsUnlike(q[i], Sign, Close)
    <3>1. u[i] \in Seq(Alphabet) /\ g[u[i]] \in V /\ q[i] = Entry(u[i], t[g[u[i]]])
      BY <1>2, <1>10
    <3> QED
      BY <1>8, <3>1
  <2> QED
    BY <1>9, <1>10, <1>11, <1>12, <2>1, <2>2 DEF Coded
<1>14. ASSUME p = q PROVE v = w
  <2>1. m = n
    BY <1>9, <1>10, <1>14
  <2>2. \A i \in 1..m : s[i] = u[i] /\ f[s[i]] = g[s[i]]
    BY <1>11, <1>14, <2>1
  <2>3. s \in Seq(Seq(Alphabet)) /\ u \in Seq(Seq(Alphabet))
    BY DEF s, u
  <2>4. s = u
    BY <1>1, <1>2, <2>1, <2>2, <2>3, SeqEqual
  <2>5. f = g
    <3> DEFINE D == {s[i] : i \in 1..m}
    <3>1. f \in [D -> V] /\ g \in [D -> V]
      BY <1>16, <2>1, <2>4
    <3>2. \A x \in D : f[x] = g[x]
      BY <2>2
    <3> HIDE DEF D
    <3> QED
      BY <3>1, <3>2
  <2>6. v = Obj(s, f) /\ w = Obj(u, g)
    BY DEF s, u, f, g
  <2> QED
    BY <2>4, <2>5, <2>6
<1> QED
  BY <1>4, <1>13, <1>14 DEF p, q

(* An object or an array, by the list in it.                                 *)
LEMMA ListedApart ==
    ASSUME NEW o, NEW c, c # Comma, o \in Sign, NEW P, NEW Q, Coded(P, Q, Sign, c)
    PROVE  /\ Enclosed(o, Separated(P), c) \in Seq(Sign) /\ Len(Enclosed(o, Separated(P), c)) >= 1
           /\ Enclosed(o, Separated(P), c)[1] = o
           /\ \A a, b \in Seq(Sign) :
                 Alike(Enclosed(o, Separated(P), c), a, Enclosed(o, Separated(Q), c), b) => P = Q /\ a = b
<1> DEFINE p == Separated(P)
           q == Separated(Q)
<1>1. Coded(p, q, Sign, c) /\ (p = q => P = Q)
  BY SeparatedApart
<1> HIDE DEF p, q
<1>2. p \in Seq(Seq(Sign)) /\ c \in Sign
  BY <1>1 DEF Coded
<1>3. Enclosed(o, p, c) \in Seq(Sign) /\ Len(Enclosed(o, p, c)) >= 1 /\ Enclosed(o, p, c)[1] = o
  BY <1>2, EnclosedIs
<1>4. ASSUME NEW a \in Seq(Sign), NEW b \in Seq(Sign), Alike(Enclosed(o, p, c), a, Enclosed(o, q, c), b)
      PROVE  P = Q /\ a = b
  <2>1. p = q /\ a = b
    BY <1>1, <1>4, EnclosedApart
  <2> QED
    BY <1>1, <2>1
<1> QED
  BY <1>3, <1>4 DEF p, q

Leading(x, y) == x \in Seq(Sign) /\ Len(x) >= 1 /\ x[1] = y

LEMMA DumpLead ==
    ASSUME NEW V, NEW t, Legible(V, t), NEW v, Composed(v, V)
    PROVE  Leading(DumpedOver(v, t), Lead(v))
<1> DEFINE x == DumpedOver(v, t)
<1>1. /\ v.kind \in {"str", "num", "word", "arr", "obj"}
      /\ v.kind = "str" => v = Str(v.s) /\ v.s \in Seq(Alphabet)
      /\ v.kind = "num" => v = Num(v.lit) /\ v.lit \in Literals
      /\ v.kind = "word" => v = Word(v.word) /\ v.word \in Words
      /\ v.kind = "arr" => v = Arr(v.items) /\ v.items \in Seq(V)
      /\ v.kind = "obj" => /\ v = Obj(v.keys, v.M) /\ v.keys \in Seq(Seq(Alphabet))
                           /\ v.M \in [{v.keys[i] : i \in DOMAIN v.keys} -> V]
  BY ComposedKinds
<1>2. CASE v.kind = "str"
  <2>1. x = String(v.s) /\ Lead(v) = Quote
    BY <1>2 DEF DumpedOver, Lead
  <2>2. v.s \in Seq(Alphabet)
    BY <1>1, <1>2
  <2>3. Leading(String(v.s), Quote)
    BY <2>2, StringApart DEF Leading
  <2> QED
    BY <2>1, <2>3
<1>3. CASE v.kind = "num"
  <2>1. x = <<v.lit>> /\ Lead(v) = v.lit /\ v.lit \in Sign
    BY <1>1, <1>3 DEF DumpedOver, Lead, Sign
  <2> QED
    BY <2>1, OneEntry DEF Leading
<1>4. CASE v.kind = "word"
  <2>1. x = <<v.word>> /\ Lead(v) = v.word /\ v.word \in Sign
    BY <1>1, <1>4 DEF DumpedOver, Lead, Sign
  <2> QED
    BY <2>1, OneEntry DEF Leading
<1>5. CASE v.kind = "arr"
  <2> DEFINE P == Parts(v, t)
  <2>1. Coded(P, P, Sign, "]") /\ x = Enclosed("[", Separated(P), "]")
    BY <1>1, <1>5, PartsAre
  <2>2. Lead(v) = "["
    BY <1>5 DEF Lead
  <2>3. "[" \in Sign /\ "]" # Comma
    BY DEF Sign, Comma
  <2> HIDE DEF P
  <2>4. Leading(Enclosed("[", Separated(P), "]"), "[")
    BY <2>1, <2>3, ListedApart DEF Leading
  <2> QED
    BY <2>1, <2>2, <2>4
<1>6. CASE v.kind = "obj"
  <2> DEFINE P == Entries(v, t)
  <2>1. Coded(P, P, Sign, Close) /\ x = Enclosed(Open, Separated(P), Close)
    BY <1>1, <1>6, EntriesAre
  <2>2. Lead(v) = Open
    BY <1>6 DEF Lead
  <2>3. Open \in Sign /\ Close # Comma
    BY DEF Sign, Comma, Close
  <2> HIDE DEF P
  <2>4. Leading(Enclosed(Open, Separated(P), Close), Open)
    BY <2>1, <2>3, ListedApart DEF Leading
  <2> QED
    BY <2>1, <2>2, <2>4
<1> QED
  BY <1>1, <1>2, <1>3, <1>4, <1>5, <1>6

LEMMA LedAlike ==
    ASSUME NEW x, NEW y, NEW c, NEW d, Leading(x, c), Leading(y, d),
           NEW a \in Seq(Sign), NEW b \in Seq(Sign), Alike(x, a, y, b)
    PROVE  c = d
<1> DEFINE S == Seq(Sign)
<1>1. x \in S /\ Len(x) >= 1 /\ x[1] = c /\ y \in S /\ Len(y) >= 1 /\ y[1] = d /\ a \in S /\ b \in S
  BY DEF Leading
<1>2. (x \o a)[1] = x[1]
  BY <1>1, FirstOf
<1>3. (y \o b)[1] = y[1]
  BY <1>1, FirstOf
<1>4. x \o a = y \o b
  BY DEF Alike
<1> QED
  BY <1>1, <1>2, <1>3, <1>4

LEMMA DumpApart ==
    ASSUME NEW V, NEW t, Legible(V, t), NEW v, Composed(v, V), NEW w, Composed(w, V)
    PROVE  Telling(DumpedOver(v, t), DumpedOver(w, t), v, w)
<1> DEFINE x == DumpedOver(v, t)
           y == DumpedOver(w, t)
<1> SUFFICES ASSUME NEW a \in Seq(Sign), NEW b \in Seq(Sign), Alike(x, a, y, b)
             PROVE  v = w /\ a = b
  BY DEF Telling
<1>1. /\ v.kind \in {"str", "num", "word", "arr", "obj"}
      /\ v.kind = "str" => v = Str(v.s) /\ v.s \in Seq(Alphabet)
      /\ v.kind = "num" => v = Num(v.lit) /\ v.lit \in Literals
      /\ v.kind = "word" => v = Word(v.word) /\ v.word \in Words
      /\ v.kind = "arr" => v = Arr(v.items) /\ v.items \in Seq(V)
      /\ v.kind = "obj" => /\ v = Obj(v.keys, v.M) /\ v.keys \in Seq(Seq(Alphabet))
                           /\ v.M \in [{v.keys[i] : i \in DOMAIN v.keys} -> V]
  BY ComposedKinds
<1>2. /\ w.kind = "str" => w = Str(w.s) /\ w.s \in Seq(Alphabet)
      /\ w.kind = "num" => w = Num(w.lit) /\ w.lit \in Literals
      /\ w.kind = "word" => w = Word(w.word) /\ w.word \in Words
      /\ w.kind = "arr" => w = Arr(w.items) /\ w.items \in Seq(V)
      /\ w.kind = "obj" => /\ w = Obj(w.keys, w.M) /\ w.keys \in Seq(Seq(Alphabet))
                           /\ w.M \in [{w.keys[i] : i \in DOMAIN w.keys} -> V]
  BY ComposedKinds
<1>3. Leading(x, Lead(v)) /\ Leading(y, Lead(w))
  BY DumpLead
<1> HIDE DEF x, y
<1>4. Lead(v) = Lead(w)
  BY <1>3, LedAlike
<1>5. v.kind = w.kind
  BY <1>4, LeadApart
<1>6. CASE v.kind = "str"
  <2>1. x = String(v.s) /\ y = String(w.s)
    BY <1>5, <1>6 DEF DumpedOver, x, y
  <2>2. v.s \in Seq(Alphabet) /\ w.s \in Seq(Alphabet)
    BY <1>1, <1>2, <1>5, <1>6
  <2> DEFINE s == v.s
             u == w.s
  <2>4. String(s) \o a = String(u) \o b
    BY <2>1 DEF Alike
  <2>5. s \in Seq(Alphabet) /\ u \in Seq(Alphabet)
    BY <2>2
  <2>6. s = u /\ a = b
    <3> HIDE DEF s, u
    <3>1. \A c, d \in Seq(Sign) : String(s) \o c = String(u) \o d => s = u /\ c = d
      BY <2>5, StringApart
    <3> HIDE DEF Sign
    <3>2. a \in Seq(Sign) /\ b \in Seq(Sign)
      OBVIOUS
    <3> QED
      BY <2>4, <3>1, <3>2
  <2>3. v.s = w.s /\ a = b
    BY <2>6
  <2> QED
    BY <1>1, <1>2, <1>5, <1>6, <2>3
<1>7. CASE v.kind = "num"
  <2>1. x = <<v.lit>> /\ y = <<w.lit>> /\ v.lit = w.lit
    BY <1>4, <1>5, <1>7 DEF DumpedOver, Lead, x, y
  <2>2. x \in Seq(Sign) /\ x = y
    BY <1>3, <2>1 DEF Leading
  <2>3. a = b
    BY <2>2, Cancelled DEF Alike
  <2> QED
    BY <1>1, <1>2, <1>5, <1>7, <2>1, <2>3
<1>8. CASE v.kind = "word"
  <2>1. x = <<v.word>> /\ y = <<w.word>> /\ v.word = w.word
    BY <1>4, <1>5, <1>8 DEF DumpedOver, Lead, x, y
  <2>2. x \in Seq(Sign) /\ x = y
    BY <1>3, <2>1 DEF Leading
  <2>3. a = b
    BY <2>2, Cancelled DEF Alike
  <2> QED
    BY <1>1, <1>2, <1>5, <1>8, <2>1, <2>3
<1>9. CASE v.kind = "arr"
  <2> DEFINE P == Parts(v, t)
             Q == Parts(w, t)
  <2>1. /\ Coded(P, Q, Sign, "]") /\ x = Enclosed("[", Separated(P), "]")
        /\ P = Q => v = w
    BY <1>1, <1>2, <1>5, <1>9, PartsAre DEF x
  <2>2. y = Enclosed("[", Separated(Q), "]")
    BY <1>1, <1>2, <1>5, <1>9, PartsAre DEF y
  <2>3. "[" \in Sign /\ "]" # Comma
    BY DEF Sign, Comma
  <2> HIDE DEF P, Q
  <2>4. P = Q /\ a = b
    BY <2>1, <2>2, <2>3, ListedApart
  <2> QED
    BY <2>1, <2>4
<1>10. CASE v.kind = "obj"
  <2> DEFINE P == Entries(v, t)
             Q == Entries(w, t)
  <2>5. /\ v = Obj(v.keys, v.M) /\ v.keys \in Seq(Seq(Alphabet))
        /\ v.M \in [{v.keys[i] : i \in DOMAIN v.keys} -> V]
    BY <1>1, <1>10
  <2>6. /\ w = Obj(w.keys, w.M) /\ w.keys \in Seq(Seq(Alphabet))
        /\ w.M \in [{w.keys[i] : i \in DOMAIN w.keys} -> V]
    BY <1>2, <1>5, <1>10
  <2>1. /\ Coded(P, Q, Sign, Close) /\ x = Enclosed(Open, Separated(P), Close)
        /\ P = Q => v = w
    BY <2>5, <2>6, EntriesAre DEF x
  <2>2. y = Enclosed(Open, Separated(Q), Close)
    BY <2>5, <2>6, EntriesAre DEF y
  <2>3. Open \in Sign /\ Close # Comma
    BY DEF Sign, Comma, Close
  <2> HIDE DEF P, Q
  <2>4. P = Q /\ a = b
    BY <2>1, <2>2, <2>3, ListedApart
  <2> QED
    BY <2>1, <2>4
<1> QED
  BY <1>1, <1>6, <1>7, <1>8, <1>9, <1>10

(* What tells the values inside apart tells those apart that they make up.   *)
LEMMA TextStep ==
    ASSUME NEW V, NEW W, NEW t, NEW u, Legible(V, t),
           \A v \in W : Composed(v, V) /\ u[v] = DumpedOver(v, t)
    PROVE  Legible(W, u)
<1>1. ASSUME NEW v \in W PROVE StartsUnlike(u[v], Sign, "]") /\ StartsUnlike(u[v], Sign, Close)
  <2>1. Leading(u[v], Lead(v))
    BY DumpLead
  <2>2. Lead(v) \notin {"]", Close}
    BY LeadApart
  <2> QED
    BY <2>1, <2>2 DEF Leading, StartsUnlike
<1>2. ASSUME NEW v \in W, NEW w \in W PROVE Telling(u[v], u[w], v, w)
  BY DumpApart
<1> QED
  BY <1>1, <1>2 DEF Legible

-----------------------------------------------------------------------------
(* The values, level by level *)

(* What is decoded of a document depends on those inside it only.            *)
LEMMA DecodedSame ==
    ASSUME NEW I, NEW d \in Nesting(I), NEW x, NEW y, \A e \in I : x[e] = y[e]
    PROVE  DecodedOver(d, x) = DecodedOver(d, y)
<1> DEFINE Inside == Seq(Seq(Alphabet) \X I)
<1>1. CASE d \in Scalars
  <2>1. d.kind \in {"str", "num", "word"}
    BY <1>1 DEF Scalars
  <2> QED
    BY <2>1 DEF DecodedOver
<1>2. CASE d \in [kind : {"arr"}, items : Seq(I)]
  <2>1. d.kind = "arr" /\ d.items \in Seq(I)
    BY <1>2
  <2>2. \A i \in DOMAIN d.items : d.items[i] \in I
    BY <2>1
  <2>3. [i \in DOMAIN d.items |-> x[d.items[i]]] = [i \in DOMAIN d.items |-> y[d.items[i]]]
    BY <2>2
  <2> QED
    BY <2>1, <2>3 DEF DecodedOver
<1>3. CASE d \in [kind : {"doc"}, pairs : Inside]
  <2>1. d.kind = "doc" /\ d.pairs \in Inside
    BY <1>3
  <2>2. \A i \in DOMAIN d.pairs : d.pairs[i] \in Seq(Alphabet) \X I
    BY <2>1
  <2>3. \A i \in DOMAIN d.pairs : d.pairs[i][2] \in I
    BY <2>2
  <2>4. \A i \in DOMAIN d.pairs : x[d.pairs[i][2]] = y[d.pairs[i][2]]
    BY <2>3
  <2>5. [i \in DOMAIN d.pairs |-> <<d.pairs[i][1], x[d.pairs[i][2]]>>]
          = [i \in DOMAIN d.pairs |-> <<d.pairs[i][1], y[d.pairs[i][2]]>>]
    BY <2>4
  <2> QED
    BY <2>1, <2>5 DEF DecodedOver
<1> QED
  BY <1>1, <1>2, <1>3 DEF Nesting

(* It is made up of what is decoded of those.                                *)
LEMMA ComposedIs ==
    ASSUME NEW I, NEW V, NEW d \in Nesting(I), NEW x, \A e \in I : x[e] \in V
    PROVE  Composed(DecodedOver(d, x), V)
<1> DEFINE Inside == Seq(Seq(Alphabet) \X I)
           v == DecodedOver(d, x)
<1>1. CASE d \in Scalars
  <2>1. d.kind \in {"str", "num", "word"}
    BY <1>1 DEF Scalars
  <2>2. v = d
    BY <2>1 DEF DecodedOver
  <2> QED
    BY <1>1, <2>2 DEF Composed
<1>2. CASE d \in [kind : {"arr"}, items : Seq(I)]
  <2> DEFINE its == d.items
             n == Len(its)
             u == [i \in DOMAIN its |-> x[its[i]]]
  <2>1. d.kind = "arr" /\ its \in Seq(I)
    BY <1>2
  <2>2. n \in Nat /\ DOMAIN its = 1..n /\ \A i \in 1..n : its[i] \in I
    BY <2>1
  <2>3. v = Arr(u)
    BY <2>1 DEF DecodedOver
  <2> HIDE DEF its, n, v
  <2>4. u \in [1..n -> V]
    BY <2>2
  <2> HIDE DEF u
  <2>5. u \in Seq(V)
    BY <2>2, <2>4
  <2>6. v.items = u
    BY <2>3 DEF Arr
  <2>7. Composed(v, V)
    BY <2>3, <2>5, <2>6 DEF Composed
  <2> QED
    BY <2>7 DEF v
<1>3. CASE d \in [kind : {"doc"}, pairs : Inside]
  <2> DEFINE prs == d.pairs
             n == Len(prs)
             ps == [i \in DOMAIN prs |-> <<prs[i][1], x[prs[i][2]]>>]
             A == Seq(Alphabet)
  <2>1. d.kind = "doc" /\ prs \in Seq(A \X I)
    BY <1>3
  <2>2. v = Object(ps)
    BY <2>1 DEF DecodedOver
  <2> HIDE DEF prs, n, v, A
  <2>3. n \in Nat /\ DOMAIN prs = 1..n /\ \A i \in 1..n : prs[i] \in A \X I
    BY <2>1 DEF n
  <2>4. \A i \in 1..n : prs[i][1] \in A /\ prs[i][2] \in I
    BY <2>3
  <2>5. Len(ps) = n /\ \A i \in 1..n : ps[i][1] \in A /\ ps[i][2] \in V
    BY <2>3, <2>4
  <2> HIDE DEF ps
  <2>6. Grown(v, ps, A, n)
    BY <2>2, <2>3, <2>5, ObjectIs
  <2>7. /\ v = Obj(v.keys, v.M) /\ v.keys \in Seq(A) /\ Len(v.keys) = n
        /\ \A i \in 1..n : v.keys[i] = ps[i][1]
        /\ DOMAIN v.M = {ps[i][1] : i \in 1..n} /\ v.M = [k \in DOMAIN v.M |-> v.M[k]]
        /\ \A i \in 1..n : \E j \in i..n : ps[j][1] = ps[i][1] /\ v.M[ps[i][1]] = ps[j][2]
    BY <2>6 DEF Grown
  <2> DEFINE K1 == {v.keys[i] : i \in DOMAIN v.keys}
             M == v.M
  <2>8. DOMAIN M = K1
    <3>1. DOMAIN v.keys = 1..n
      BY <2>3, <2>7
    <3> DEFINE K2 == {ps[i][1] : i \in 1..n}
    <3>3. \A i \in 1..n : v.keys[i] = ps[i][1]
      BY <2>7
    <3>4. ASSUME NEW k \in K1 PROVE k \in K2
      <4>1. PICK i \in DOMAIN v.keys : k = v.keys[i]
        OBVIOUS
      <4>2. i \in 1..n /\ k = ps[i][1]
        BY <3>1, <3>3, <4>1
      <4> QED
        BY <4>2
    <3>5. ASSUME NEW k \in K2 PROVE k \in K1
      <4>1. PICK i \in 1..n : k = ps[i][1]
        OBVIOUS
      <4>2. i \in DOMAIN v.keys /\ k = v.keys[i]
        BY <3>1, <3>3, <4>1
      <4> QED
        BY <4>2
    <3>6. \A k : k \in K1 <=> k \in K2
      BY <3>4, <3>5
    <3> HIDE DEF K1, K2
    <3>7. K1 = K2
      BY <3>6
    <3>2. K1 = {ps[i][1] : i \in 1..n}
      BY <3>7 DEF K2
    <3> QED
      BY <2>7, <3>2
  <2>9. \A i \in 1..n : M[ps[i][1]] \in V
    <3> TAKE i \in 1..n
    <3>1. PICK j \in i..n : M[ps[i][1]] = ps[j][2]
      BY <2>7
    <3>2. j \in 1..n
      BY <2>3
    <3> QED
      BY <2>5, <3>1, <3>2
  <2>10. \A k \in DOMAIN M : M[k] \in V
    BY <2>7, <2>9
  <2>12. M = [k \in DOMAIN M |-> M[k]]
    BY <2>7
  <2> HIDE DEF M, K1
  <2>11. M \in [K1 -> V]
    BY <2>8, <2>10, <2>12
  <2>13. Composed(v, V)
    BY <2>7, <2>11 DEF Composed, A, M, K1
  <2> QED
    BY <2>13 DEF v
<1> QED
  BY <1>1, <1>2, <1>3 DEF Nesting

Below(f, m) == IF m = 0 THEN {} ELSE f[m - 1]

LEMMA LevelsGrow ==
    ASSUME NEW f, Levels(f), NEW m \in Nat
    PROVE  m < Depth => f[m] \subseteq f[m + 1]
<1> DEFINE N == {i \in Nat : i < Depth => f[i] \subseteq f[i + 1]}
<1>1. \A i \in 0..Depth : f[i] = {d \in Docs : d \in Nesting(Below(f, i))}
  BY DEF Levels, Below
<1>2. Depth \in Nat
  BY DocAssumption
<1>3. ASSUME NEW i \in Nat, i < Depth, Below(f, i) \subseteq Below(f, i + 1) PROVE f[i] \subseteq f[i + 1]
  <2>1. i \in 0..Depth /\ i + 1 \in 0..Depth
    BY <1>2, <1>3
  <2>2. Nesting(Below(f, i)) \subseteq Nesting(Below(f, i + 1))
    BY <1>3, NestingGrows
  <2> QED
    BY <1>1, <2>1, <2>2
<1>4. 0 \in N
  <2>1. Below(f, 0) = {}
    BY DEF Below
  <2>2. Below(f, 0) \subseteq Below(f, 0 + 1)
    BY <2>1
  <2> QED
    BY <1>3, <2>2
<1>5. ASSUME NEW i \in Nat, i \in N PROVE i + 1 \in N
  <2> SUFFICES ASSUME i + 1 < Depth PROVE f[i + 1] \subseteq f[(i + 1) + 1]
    OBVIOUS
  <2>1. f[i] \subseteq f[i + 1]
    BY <1>2, <1>5
  <2>2. Below(f, i + 1) = f[i] /\ Below(f, (i + 1) + 1) = f[i + 1]
    <3>1. i + 1 # 0 /\ (i + 1) + 1 # 0 /\ (i + 1) - 1 = i /\ ((i + 1) + 1) - 1 = i + 1
      OBVIOUS
    <3> QED
      BY <3>1 DEF Below
  <2> QED
    BY <1>3, <2>1, <2>2
<1> HIDE DEF N
<1>6. m \in N
  BY <1>4, <1>5, NumbersInSet
<1> QED
  BY <1>6 DEF N

(* What is decoded at the level of a document is decoded of it at the top.   *)
Settled(f, g, m) == \A k \in m..Depth : \A d \in f[m] : g[k][d] = Decoded[d]

LEMMA DecodedSettles ==
    \E f, g : /\ Levels(f)
              /\ \A m \in 0..Depth : Settled(f, g, m)
              /\ \A k \in 0..Depth : \A d \in Docs :
                    g[k][d] = DecodedOver(d, IF k = 0 THEN <<>> ELSE g[k - 1])
<1>1. PICK f : Levels(f)
  BY LevelsExist
<1>2. Depth \in Nat
  BY DocAssumption
<1> DEFINE g == CHOOSE g : g = [m \in 0..Depth |->
                                  [x \in Docs |-> DecodedOver(x, IF m = 0 THEN <<>> ELSE g[m - 1])]]
<1>3. Decoded = g[Depth]
  BY DEF Decoded
<1>4. g = [m \in 0..Depth |-> [x \in Docs |-> DecodedOver(x, IF m = 0 THEN <<>> ELSE g[m - 1])]]
  BY <1>2, DecodingExists
<1> HIDE DEF g
<1>5. ASSUME NEW k \in 0..Depth, NEW d \in Docs
      PROVE  g[k][d] = DecodedOver(d, IF k = 0 THEN <<>> ELSE g[k - 1])
  <2>1. g[k] = [x \in Docs |-> DecodedOver(x, IF k = 0 THEN <<>> ELSE g[k - 1])]
    BY <1>4
  <2> QED
    BY <2>1
<1>6. \A m \in 0..Depth : f[m] = {d \in Docs : d \in Nesting(Below(f, m))}
  BY <1>1 DEF Levels, Below
<1> DEFINE N == {m \in Nat : m <= Depth => Settled(f, g, m)}
<1>7. ASSUME NEW m \in 0..Depth, \A k \in m..Depth : \A e \in Below(f, m) : k # 0 => g[k - 1][e] = Decoded[e]
      PROVE  Settled(f, g, m)
  <2> SUFFICES ASSUME NEW k \in m..Depth, NEW d \in f[m] PROVE g[k][d] = Decoded[d]
    BY DEF Settled
  <2> DEFINE x == IF k = 0 THEN <<>> ELSE g[k - 1]
             y == IF Depth = 0 THEN <<>> ELSE g[Depth - 1]
  <2>1. k \in 0..Depth /\ Depth \in 0..Depth /\ Depth \in m..Depth
    BY <1>2
  <2>2. d \in Docs /\ d \in Nesting(Below(f, m))
    BY <1>6
  <2>3. g[k][d] = DecodedOver(d, x) /\ Decoded[d] = DecodedOver(d, y)
    BY <1>3, <1>5, <2>1, <2>2
  <2>4. ASSUME NEW e \in Below(f, m) PROVE x[e] = y[e]
    <3>1. m # 0
      BY DEF Below
    <3>2. k # 0 /\ Depth # 0
      BY <1>2, <3>1
    <3>3. g[k - 1][e] = Decoded[e] /\ g[Depth - 1][e] = Decoded[e]
      BY <1>7, <2>1, <3>2
    <3> QED
      BY <3>2, <3>3
  <2> HIDE DEF x, y
  <2>5. DecodedOver(d, x) = DecodedOver(d, y)
    BY <2>2, <2>4, DecodedSame
  <2> QED
    BY <2>3, <2>5
<1>8. 0 \in N
  <2>1. Below(f, 0) = {} /\ 0 \in 0..Depth
    BY <1>2 DEF Below
  <2>2. Settled(f, g, 0)
    BY <1>7, <2>1
  <2> QED
    BY <2>2
<1>9. ASSUME NEW m \in Nat, m \in N PROVE m + 1 \in N
  <2> SUFFICES ASSUME m + 1 <= Depth PROVE Settled(f, g, m + 1)
    OBVIOUS
  <2>1. m + 1 \in 0..Depth /\ m <= Depth
    BY <1>2
  <2>2. Settled(f, g, m)
    BY <1>9, <2>1
  <2>3. Below(f, m + 1) = f[m]
    <3>1. m + 1 # 0 /\ (m + 1) - 1 = m
      OBVIOUS
    <3> QED
      BY <3>1 DEF Below
  <2>4. ASSUME NEW k \in (m + 1)..Depth, NEW e \in Below(f, m + 1) PROVE g[k - 1][e] = Decoded[e]
    <3>1. k - 1 \in m..Depth
      BY <1>2
    <3> QED
      BY <2>2, <2>3, <3>1 DEF Settled
  <2> QED
    BY <1>7, <2>1, <2>4
<1> HIDE DEF N
<1>10. \A m \in 0..Depth : m \in N
  BY <1>8, <1>9, NumbersInSet
<1>11. \A m \in 0..Depth : Settled(f, g, m)
  BY <1>10 DEF N
<1> QED
  BY <1>1, <1>5, <1>11

(* The values by the level of the documents they are decoded of.             *)
Layers(L) ==
    /\ \A m \in 0..Depth : \A v \in L[m] : v \in Values /\ Composed(v, Below(L, m))
    /\ Values = L[Depth]

LEMMA LayersExist == \E L : Layers(L)
<1>1. PICK f, g : /\ Levels(f)
                  /\ \A m \in 0..Depth : Settled(f, g, m)
                  /\ \A k \in 0..Depth : \A d \in Docs :
                        g[k][d] = DecodedOver(d, IF k = 0 THEN <<>> ELSE g[k - 1])
  BY DecodedSettles
<1>2. Depth \in Nat
  BY DocAssumption
<1>3. (\A m \in 0..Depth : f[m] = {d \in Docs : d \in Nesting(Below(f, m))}) /\ f[Depth] = Docs
  BY <1>1 DEF Levels, Below
<1> DEFINE L == [m \in 0..Depth |-> {Decoded[d] : d \in f[m]}]
<1>4. \A m \in 0..Depth : L[m] = {Decoded[d] : d \in f[m]}
  OBVIOUS
<1> HIDE DEF L
<1>5. Values = L[Depth]
  <2>1. Depth \in 0..Depth
    BY <1>2
  <2>2. L[Depth] = {Decoded[d] : d \in Docs}
    BY <1>3, <1>4, <2>1
  <2> QED
    BY <2>2 DEF Values
<1>6. ASSUME NEW m \in 0..Depth, NEW v \in L[m] PROVE v \in Values /\ Composed(v, Below(L, m))
  <2>1. PICK d \in f[m] : v = Decoded[d]
    BY <1>4
  <2>2. d \in Docs /\ d \in Nesting(Below(f, m))
    BY <1>3
  <2>3. v \in Values
    BY <2>1, <2>2 DEF Values
  <2> DEFINE x == IF m = 0 THEN <<>> ELSE g[m - 1]
  <2>4. Decoded[d] = DecodedOver(d, x)
    <3>1. m \in m..Depth
      BY <1>2
    <3>2. g[m][d] = Decoded[d]
      BY <1>1, <3>1 DEF Settled
    <3> QED
      BY <1>1, <2>2, <3>2
  <2>5. ASSUME NEW e \in Below(f, m) PROVE x[e] \in Below(L, m)
    <3>1. m # 0 /\ e \in f[m - 1]
      BY DEF Below
    <3>2. m - 1 \in 0..Depth /\ m - 1 \in (m - 1)..Depth
      BY <1>2, <3>1
    <3>3. g[m - 1][e] = Decoded[e]
      BY <1>1, <3>1, <3>2 DEF Settled
    <3>4. Decoded[e] \in L[m - 1]
      BY <1>4, <3>1, <3>2
    <3> QED
      BY <3>1, <3>3, <3>4 DEF Below
  <2> HIDE DEF x
  <2>6. Composed(DecodedOver(d, x), Below(L, m))
    BY <2>2, <2>5, ComposedIs
  <2> QED
    BY <2>1, <2>3, <2>4, <2>6
<1>7. Layers(L)
  BY <1>5, <1>6 DEF Layers
<1> QED
  BY <1>7

LEMMA ComposedGrows ==
    ASSUME NEW A, NEW B, A \subseteq B, NEW v, Composed(v, A)
    PROVE  Composed(v, B)
<1>1. Seq(A) \subseteq Seq(B)
  OBVIOUS
<1> DEFINE D == {v.keys[i] : i \in DOMAIN v.keys}
<1> HIDE DEF D
<1>2. [D -> A] \subseteq [D -> B]
  OBVIOUS
<1> QED
  BY <1>1, <1>2 DEF Composed, D

LEMMA ValuesComposed == \A v \in Values : Composed(v, Values)
<1>1. PICK L : Layers(L)
  BY LayersExist
<1>2. Depth \in Nat
  BY DocAssumption
<1>3. Below(L, Depth) \subseteq Values
  <2>1. Depth # 0 => Depth - 1 \in 0..Depth
    BY <1>2
  <2>2. Depth # 0 => \A v \in L[Depth - 1] : v \in Values
    BY <1>1, <2>1 DEF Layers
  <2> QED
    BY <2>2 DEF Below
<1>4. ASSUME NEW v \in Values PROVE Composed(v, Values)
  <2>1. Depth \in 0..Depth /\ v \in L[Depth]
    BY <1>1, <1>2 DEF Layers
  <2>2. Composed(v, Below(L, Depth))
    BY <1>1, <2>1 DEF Layers
  <2> QED
    BY <1>3, <2>2, ComposedGrows
<1> QED
  BY <1>4

LEMMA DumpingExists ==
    ASSUME NEW n \in Nat
    PROVE  \E f : f = [m \in 0..n |-> [x \in Values |-> DumpedOver(x, IF m = 0 THEN <<>> ELSE f[m - 1])]]
<1> DEFINE T(f, m) == f = [i \in 0..m |-> [x \in Values |-> DumpedOver(x, IF i = 0 THEN <<>> ELSE f[i - 1])]]
           N == {m \in Nat : \E f : T(f, m)}
<1>1. 0 \in N
  <2> DEFINE f == [m \in 0..0 |-> [x \in Values |-> DumpedOver(x, <<>>)]]
  <2>1. T(f, 0)
    OBVIOUS
  <2> QED
    BY <2>1
<1>2. ASSUME NEW m \in Nat, m \in N PROVE m + 1 \in N
  <2>1. PICK f : T(f, m)
    BY <1>2
  <2>2. \A i \in 0..m : f[i] = [x \in Values |-> DumpedOver(x, IF i = 0 THEN <<>> ELSE f[i - 1])]
    BY <2>1
  <2> DEFINE g == [i \in 0..(m + 1) |->
                     IF i = m + 1 THEN [x \in Values |-> DumpedOver(x, f[m])] ELSE f[i]]
  <2>3. g[m + 1] = [x \in Values |-> DumpedOver(x, f[m])] /\ \A i \in 0..m : g[i] = f[i]
    OBVIOUS
  <2>4. DOMAIN g = 0..(m + 1) /\ g = [i \in 0..(m + 1) |-> g[i]]
    OBVIOUS
  <2> HIDE DEF g
  <2>5. ASSUME NEW i \in 0..(m + 1)
        PROVE  g[i] = [x \in Values |-> DumpedOver(x, IF i = 0 THEN <<>> ELSE g[i - 1])]
    <3>1. CASE i = m + 1
      <4>1. i # 0 /\ i - 1 = m /\ m \in 0..m
        BY <3>1
      <4> QED
        BY <2>3, <3>1, <4>1
    <3>2. CASE i # m + 1
      <4>1. i \in 0..m /\ (i # 0 => i - 1 \in 0..m)
        BY <3>2
      <4> QED
        BY <2>2, <2>3, <4>1
    <3> QED
      BY <3>1, <3>2
  <2>6. T(g, m + 1)
    BY <2>4, <2>5
  <2> QED
    BY <2>6
<1> HIDE DEF N
<1>3. n \in N
  BY <1>1, <1>2, NumbersInSet
<1> QED
  BY <1>3 DEF N

(* The texts of the values tell them apart.                                  *)
LEMMA TextsOfValues == Legible(Values, Dumped)
<1>1. PICK L : Layers(L)
  BY LayersExist
<1>2. Depth \in Nat
  BY DocAssumption
<1> DEFINE h == CHOOSE h : h = [m \in 0..Depth |->
                                  [x \in Values |-> DumpedOver(x, IF m = 0 THEN <<>> ELSE h[m - 1])]]
<1>3. Dumped = h[Depth]
  BY DEF Dumped
<1>4. h = [m \in 0..Depth |-> [x \in Values |-> DumpedOver(x, IF m = 0 THEN <<>> ELSE h[m - 1])]]
  BY <1>2, DumpingExists
<1> HIDE DEF h
<1>5. ASSUME NEW m \in 0..Depth, NEW t, Legible(Below(L, m), t), t = IF m = 0 THEN <<>> ELSE h[m - 1]
      PROVE  Legible(L[m], h[m])
  <2>1. h[m] = [x \in Values |-> DumpedOver(x, t)]
    BY <1>4, <1>5
  <2>2. \A v \in L[m] : v \in Values /\ Composed(v, Below(L, m))
    BY <1>1 DEF Layers
  <2>3. \A v \in L[m] : Composed(v, Below(L, m)) /\ h[m][v] = DumpedOver(v, t)
    BY <2>1, <2>2
  <2> QED
    BY <1>5, <2>3, TextStep
<1> DEFINE N == {m \in Nat : m <= Depth => Legible(L[m], h[m])}
<1>6. 0 \in N
  <2>1. Below(L, 0) = {} /\ 0 \in 0..Depth
    BY <1>2 DEF Below
  <2>2. Legible(Below(L, 0), <<>>)
    BY <2>1 DEF Legible
  <2>3. Legible(L[0], h[0])
    BY <1>5, <2>1, <2>2
  <2> QED
    BY <2>3
<1>7. ASSUME NEW m \in Nat, m \in N PROVE m + 1 \in N
  <2> SUFFICES ASSUME m + 1 <= Depth PROVE Legible(L[m + 1], h[m + 1])
    OBVIOUS
  <2>1. m + 1 \in 0..Depth /\ m <= Depth /\ m + 1 # 0 /\ (m + 1) - 1 = m
    BY <1>2
  <2>2. Legible(L[m], h[m])
    BY <1>7, <2>1
  <2>3. Below(L, m + 1) = L[m]
    BY <2>1 DEF Below
  <2>4. Legible(Below(L, m + 1), h[m])
    BY <2>2, <2>3
  <2>5. h[m] = IF m + 1 = 0 THEN <<>> ELSE h[(m + 1) - 1]
    BY <2>1
  <2> QED
    BY <1>5, <2>1, <2>4, <2>5
<1> HIDE DEF N
<1>8. Depth \in N
  BY <1>2, <1>6, <1>7, NumbersInSet
<1>9. Legible(L[Depth], h[Depth])
  BY <1>2, <1>8 DEF N
<1> QED
  BY <1>1, <1>3, <1>9 DEF Layers

-----------------------------------------------------------------------------
(* Criteria and their texts *)

(* What a criterion of an object can be, and an item of a list.              *)
LEMMA CriteriaAre ==
    ASSUME NEW d, d.criteria \in Docs
    PROVE  /\ \A i \in DOMAIN Internal(d).CritList : Internal(d).CritList[i] \in Values
           /\ Internal(d).Crit # Null => \A k \in DOMAIN Internal(d).Crit.M :
                 Internal(d).Crit.M[k] \in Values \/ Internal(d).Crit.M[k] = Null
<1> DEFINE c == Decoded[d.criteria]
           e == Criteria(d)
           crit == Internal(d).Crit
           list == Internal(d).CritList
<1>1. c \in Values
  BY DEF Values
<1>2. Composed(c, Values)
  BY <1>1, ValuesComposed
<1>3. /\ c.kind = "arr" => c = Arr(c.items) /\ c.items \in Seq(Values)
      /\ c.kind = "obj" => c.M \in [{c.keys[i] : i \in DOMAIN c.keys} -> Values]
  BY <1>2, ComposedKinds
<1>4. crit = (IF e.kind = "obj" THEN e ELSE Null) /\ list = IF e.kind = "arr" THEN e.items ELSE <<>>
  BY DEF Internal
<1>5. CASE d.type = "choice" /\ c.kind = "arr"
  <2> DEFINE its == c.items
             n == Len(its)
             ps == [i \in DOMAIN its |-> <<Label(its[i]), Null>>]
  <2>1. its \in Seq(Values)
    BY <1>3, <1>5
  <2>2. e = Object(ps)
    BY <1>5 DEF Criteria
  <2> HIDE DEF its
  <2>3. n \in Nat /\ DOMAIN its = 1..n
    BY <2>1
  <2> HIDE DEF n
  <2>4. Len(ps) = n /\ \A i \in 1..n : ps[i][2] = Null
    BY <2>3
  <2> HIDE DEF ps, e
  <2>5. PICK S : Grown(e, ps, S, n)
    BY <2>2, <2>3, <2>4, LabelledIs
  <2>6. /\ e = Obj(e.keys, e.M) /\ DOMAIN e.M = {ps[i][1] : i \in 1..n}
        /\ \A i \in 1..n : \E j \in i..n : ps[j][1] = ps[i][1] /\ e.M[ps[i][1]] = ps[j][2]
    BY <2>5 DEF Grown
  <2>7. \A i \in 1..n : e.M[ps[i][1]] = Null
    <3> TAKE i \in 1..n
    <3>1. PICK j \in i..n : e.M[ps[i][1]] = ps[j][2]
      BY <2>6
    <3>2. j \in 1..n
      BY <2>3
    <3> QED
      BY <2>4, <3>1, <3>2
  <2>8. \A k \in DOMAIN e.M : e.M[k] = Null
    BY <2>6, <2>7
  <2>9. e.kind = "obj"
    BY <2>6 DEF Obj
  <2>10. crit = e /\ list = <<>>
    BY <1>4, <2>9
  <2> QED
    BY <2>8, <2>10
<1>6. CASE ~(d.type = "choice" /\ c.kind = "arr")
  <2>1. e = c
    BY <1>6 DEF Criteria
  <2> HIDE DEF c, e, crit, list
  <2>2. ASSUME NEW i \in DOMAIN list PROVE list[i] \in Values
    <3>1. CASE e.kind = "arr"
      BY <1>3, <1>4, <2>1, <3>1
    <3>2. CASE e.kind # "arr"
      BY <1>4, <3>2
    <3> QED
      BY <3>1, <3>2
  <2>3. ASSUME crit # Null, NEW k \in DOMAIN crit.M PROVE crit.M[k] \in Values
    <3>1. crit = c /\ c.kind = "obj"
      BY <1>4, <2>1, <2>3
    <3> QED
      BY <1>3, <2>3, <3>1
  <2> QED
    BY <2>2, <2>3 DEF crit, list
<1> QED
  BY <1>5, <1>6

(* What is put to the model for an object or an array is its text.           *)
LEMMA GivenIs ==
    ASSUME QuestionInv, rendered # <<>>, NEW i \in DOMAIN rendered, Structured(GivenTo(i))
    PROVE  GivenTo(i) \in Values /\ rendered[i][2] = Dumped[GivenTo(i)]
<1>1. step \in {"answer", "marshal", "sent", "panic"}
  BY DEF QuestionInv, Listed
<1>2. internal = Internal(def) /\ rendered = Rendered
  BY <1>1 DEF QuestionInv, Defined, Listed
<1>3. PICK inp \in Inputs : def = inp.def
  BY DEF QuestionInv, Given
<1>4. def.criteria \in Docs
  BY <1>3, InputAssumption
<1>5. /\ \A j \in DOMAIN internal.CritList : internal.CritList[j] \in Values
      /\ internal.Crit # Null => \A k \in DOMAIN internal.Crit.M :
            internal.Crit.M[k] \in Values \/ internal.Crit.M[k] = Null
  BY <1>2, <1>4, CriteriaAre
<1>6. \A x : Structured(x) => Text(x) = Dumped[x] /\ x \notin {Null, Str(<<>>)}
  BY DEF Structured, Text, Null, Word, Str
<1>7. ASSUME NEW name, Structured(Criterion(name)) PROVE Criterion(name) \in Values
  <2>1. internal.Crit # Null /\ Criterion(name) = Lookup(internal.Crit, name)
    BY <1>6, <1>7 DEF Criterion
  <2>2. name \in DOMAIN internal.Crit.M /\ Criterion(name) = internal.Crit.M[name]
    BY <1>6, <1>7, <2>1 DEF Lookup
  <2> QED
    BY <1>5, <1>6, <1>7, <2>1, <2>2
<1>8. ASSUME NEW name, NEW default, Structured(Criterion(Named(name, default)[1]))
      PROVE  Named(name, default)[2] = Dumped[Criterion(Named(name, default)[1])]
  <2>1. Named(name, default)[1] = name
    BY DEF Named
  <2>2. Criterion(name) \notin {Null, Str(<<>>)} /\ Text(Criterion(name)) = Dumped[Criterion(name)]
    BY <1>6, <1>8, <2>1
  <2>3. Named(name, default)[2] = Text(Criterion(name))
    BY <2>2 DEF Named
  <2> QED
    BY <2>1, <2>2, <2>3
<1>9. CASE internal.T = "score"
  <2>1. rendered = [j \in DOMAIN internal.CritList |-> <<j - 1, Text(internal.CritList[j])>>]
    BY <1>2, <1>9 DEF Rendered
  <2>2. i \in DOMAIN internal.CritList /\ rendered[i][2] = Text(internal.CritList[i])
    BY <2>1
  <2>3. GivenTo(i) = internal.CritList[i]
    BY <1>9 DEF GivenTo
  <2> QED
    BY <1>5, <1>6, <2>2, <2>3
<1>10. CASE internal.T # "score"
  <2>1. GivenTo(i) = Criterion(rendered[i][1])
    BY <1>10 DEF GivenTo
  <2>2. \E name, default : rendered[i] = Named(name, default)
    <3>1. CASE internal.T = "choice"
      <4>1. rendered = [j \in DOMAIN internal.Crit.keys |-> Named(internal.Crit.keys[j], <<>>)]
        BY <1>2, <3>1 DEF Rendered
      <4>2. rendered[i] = Named(internal.Crit.keys[i], <<>>)
        BY <4>1
      <4> QED
        BY <4>2
    <3>2. CASE internal.T = "noul"
      <4> DEFINE no == <<"no, the statement does not hold">>
                 yes == <<"yes, the statement holds">>
      <4>1. rendered = <<Named(False, no), Named(True, yes)>>
        BY <1>2, <3>2 DEF Rendered
      <4>2. i \in 1..2
        BY <4>1, OfTwo
      <4> HIDE DEF no, yes
      <4>3. rendered[i] = Named(False, no) \/ rendered[i] = Named(True, yes)
        BY <4>1, <4>2
      <4> QED
        BY <4>3
    <3>3. CASE internal.T \notin {"choice", "score", "noul"}
      BY <1>2, <3>3 DEF Rendered
    <3> QED
      BY <1>10, <3>1, <3>2, <3>3
  <2>3. rendered[i][2] = Dumped[Criterion(rendered[i][1])]
    BY <1>8, <2>1, <2>2
  <2> QED
    BY <1>7, <2>1, <2>3
<1> QED
  BY <1>9, <1>10

LEMMA TextsTell == QuestionInv => TextsApart
<1> SUFFICES ASSUME QuestionInv, rendered # <<>>, NEW i \in DOMAIN rendered, NEW j \in DOMAIN rendered,
                    Structured(GivenTo(i)), Structured(GivenTo(j)), rendered[i][2] = rendered[j][2]
             PROVE  GivenTo(i) = GivenTo(j)
  BY DEF TextsApart
<1> DEFINE x == GivenTo(i)
           y == GivenTo(j)
<1>1. x \in Values /\ y \in Values /\ Dumped[x] = Dumped[y]
  BY GivenIs
<1> HIDE DEF x, y
<1>2. x = y
  BY <1>1, TextsOfValues, TextsAre
<1> QED
  BY <1>2 DEF x, y

(* Two criteria of a question look alike to the model only if they are the   *)
(* same: no quote, bracket or control character in one makes its text that   *)
(* of another.                                                               *)
THEOREM CriteriaApart == QuestionSpec => []TextsApart
  BY QuestionInvariant, TextsTell, PTL
=============================================================================
