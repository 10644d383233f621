--------------------------- MODULE PacketBatchProofs ---------------------------
(***************************************************************************)
(* Proofs about the operators of PacketBatch for batches of every length:  *)
(* what Only keeps, and that drop_packets_stable drops what it is told to  *)
(* and keeps the order of the rest.                                        *)
(***************************************************************************)
EXTENDS PacketBatch, TLAPS, WellFoundedInduction

\* Time limit of the SMT backend for the leaves that name no other backend.
USE SMTT(60)

-----------------------------------------------------------------------------
(* Induction over numbers and sequences, for properties given as a set *)

\* A set that holds 0 and the successor of each of its numbers holds every natural.
LEMMA NatSet ==
  ASSUME NEW P, 0 \in P, \A n \in Nat : n \in P => n + 1 \in P
  PROVE  \A n \in Nat : n \in P
<1> DEFINE T == Nat \ P
<1> SUFFICES ASSUME T # {} PROVE FALSE
  OBVIOUS
<1> HIDE DEF T
<1>1. PICK x \in T : \A y \in T : ~ (<<y, x>> \in OpToRel(<, Nat))
  <2>1. T \subseteq Nat
    BY DEF T
  <2> QED BY <2>1, NatLessThanWellFounded, WFMin, Zenon
<1>2. \A y \in T : y \in Nat /\ x \in Nat
  BY DEF T
<1>3. \A y \in T : ~ (y < x)
  BY <1>1, <1>2, Zenon DEF OpToRel
<1>4. x # 0 /\ x \in Nat
  BY DEF T
<1>5. x - 1 \in Nat /\ x - 1 < x /\ (x - 1) + 1 = x
  BY <1>4
<1>6. x - 1 \in P
  BY <1>3, <1>5, Zenon DEF T
<1>7. x \in P
  BY <1>5, <1>6, Zenon
<1> QED BY <1>7, Zenon DEF T

\* Length, domain and elements of a sequence.
LEMMA LenFacts ==
  ASSUME NEW T, NEW s \in Seq(T)
  PROVE  /\ Len(s) \in Nat /\ DOMAIN s = 1 .. Len(s)
         /\ \A i \in 1 .. Len(s) : s[i] \in T
         /\ s = <<>> <=> Len(s) = 0
OBVIOUS

\* Sequences that agree in length and at every index are equal.
LEMMA SeqsEqual ==
  ASSUME NEW T, NEW s \in Seq(T), NEW t \in Seq(T), Len(s) = Len(t),
         \A i \in 1 .. Len(s) : s[i] = t[i]
  PROVE  s = t
OBVIOUS

\* A function on 1..n is a sequence of length n.
LEMMA SeqOfFunction ==
  ASSUME NEW T, NEW n \in Nat, NEW f \in [1 .. n -> T]
  PROVE  f \in Seq(T) /\ Len(f) = n
OBVIOUS

\* Appending one element.
LEMMA AppendFacts ==
  ASSUME NEW T, NEW s \in Seq(T), NEW x \in T
  PROVE  /\ Append(s, x) \in Seq(T) /\ Len(Append(s, x)) = Len(s) + 1
         /\ \A i \in 1 .. Len(s) : Append(s, x)[i] = s[i]
         /\ Append(s, x)[Len(s) + 1] = x
OBVIOUS

\* Length and elements of a concatenation.
LEMMA ConcatFacts ==
  ASSUME NEW T, NEW s \in Seq(T), NEW t \in Seq(T)
  PROVE  /\ s \o t \in Seq(T) /\ Len(s \o t) = Len(s) + Len(t)
         /\ \A i \in 1 .. Len(s) + Len(t) :
              (s \o t)[i] = IF i <= Len(s) THEN s[i] ELSE t[i - Len(s)]
OBVIOUS

\* The empty sequence is neutral for concatenation.
LEMMA ConcatEmpty ==
  ASSUME NEW T, NEW s \in Seq(T)
  PROVE  s \o <<>> = s /\ <<>> \o s = s
OBVIOUS

\* Concatenation is associative.
LEMMA ConcatAssoc ==
  ASSUME NEW T, NEW s \in Seq(T), NEW t \in Seq(T), NEW u \in Seq(T)
  PROVE  (s \o t) \o u = s \o (t \o u)
<1> DEFINE l == (s \o t) \o u
           r == s \o (t \o u)
<1>1. /\ l \in Seq(T) /\ r \in Seq(T)
      /\ Len(l) = (Len(s) + Len(t)) + Len(u) /\ Len(r) = Len(s) + (Len(t) + Len(u))
  BY ConcatFacts
<1>2. Len(s) \in Nat /\ Len(t) \in Nat /\ Len(u) \in Nat
  BY LenFacts
<1>3. \A i \in 1 .. Len(l) : l[i] = r[i]
  <2> TAKE i \in 1 .. Len(l)
  <2>1. CASE i <= Len(s)
    BY <2>1, <1>1, <1>2
  <2>2. CASE i > Len(s) /\ i <= Len(s) + Len(t)
    BY <2>2, <1>1, <1>2
  <2>3. CASE i > Len(s) + Len(t)
    BY <2>3, <1>1, <1>2
  <2> QED BY <2>1, <2>2, <2>3, <1>1, <1>2
<1> HIDE DEF l, r
<1>4. l = r
  BY <1>1, <1>2, <1>3, SeqsEqual
<1> QED BY <1>4 DEF l, r

\* Length and elements of the part of a sequence from m to n.
LEMMA SubSeqFacts ==
  ASSUME NEW T, NEW s \in Seq(T), NEW m \in 1 .. Len(s) + 1, NEW n \in m - 1 .. Len(s)
  PROVE  /\ SubSeq(s, m, n) \in Seq(T) /\ Len(SubSeq(s, m, n)) = n - m + 1
         /\ \A i \in 1 .. n - m + 1 : SubSeq(s, m, n)[i] = s[i + m - 1]
OBVIOUS

\* Length and elements of a prefix.
LEMMA PrefixFacts ==
  ASSUME NEW T, NEW s \in Seq(T), NEW n \in 0 .. Len(s)
  PROVE  /\ SubSeq(s, 1, n) \in Seq(T) /\ Len(SubSeq(s, 1, n)) = n
         /\ \A i \in 1 .. n : SubSeq(s, 1, n)[i] = s[i]
OBVIOUS

\* Appending concatenates a sequence of one element.
LEMMA AppendIsConcat ==
  ASSUME NEW T, NEW s \in Seq(T), NEW x \in T
  PROVE  Append(s, x) = s \o <<x>> /\ <<x>> \in Seq(T)
OBVIOUS

\* A sequence that is not empty ends with an element appended to the rest.
LEMMA SeqEnd ==
  ASSUME NEW T, NEW s \in Seq(T), s # <<>>
  PROVE  \E t \in Seq(T), x \in T : s = Append(t, x) /\ Len(t) = Len(s) - 1
<1> DEFINE t == SubSeq(s, 1, Len(s) - 1)
           a == Append(t, s[Len(s)])
<1>1. Len(s) \in Nat \ {0} /\ s[Len(s)] \in T
  BY LenFacts
<1>2. t \in Seq(T) /\ Len(t) = Len(s) - 1 /\ \A i \in 1 .. Len(s) - 1 : t[i] = s[i]
  <2>1. Len(s) - 1 \in 0 .. Len(s)
    BY <1>1
  <2> QED BY Zenon, <2>1, PrefixFacts
<1> HIDE DEF t
<1>3. /\ a \in Seq(T) /\ Len(a) = Len(t) + 1 /\ a[Len(t) + 1] = s[Len(s)]
      /\ \A i \in 1 .. Len(t) : a[i] = t[i]
  BY <1>1, <1>2
<1> HIDE DEF a
<1>4. a = s
  <2>1. Len(a) = Len(s) /\ \A i \in 1 .. Len(s) : a[i] = s[i]
    BY <1>1, <1>2, <1>3
  <2> QED BY Zenon, <1>3, <2>1, SeqsEqual
<1> QED BY <1>1, <1>2, <1>4 DEF a

\* A set that holds the empty sequence and is closed under Append holds every sequence.
LEMMA SeqSet ==
  ASSUME NEW T, NEW P, <<>> \in P,
         \A s \in Seq(T), x \in T : s \in P => Append(s, x) \in P
  PROVE  \A s \in Seq(T) : s \in P
<1> DEFINE N == {n \in Nat : \A s \in Seq(T) : Len(s) = n => s \in P}
<1>1. 0 \in N
  BY LenFacts
<1>2. ASSUME NEW n \in Nat, n \in N PROVE n + 1 \in N
  <2> SUFFICES ASSUME NEW s \in Seq(T), Len(s) = n + 1 PROVE s \in P
    OBVIOUS
  <2>1. s # <<>>
    BY LenFacts
  <2>2. PICK t \in Seq(T), x \in T : s = Append(t, x) /\ Len(t) = Len(s) - 1
    BY <2>1, SeqEnd, Zenon
  <2>3. t \in P
    BY <2>2, <1>2
  <2> QED BY <2>2, <2>3
<1> HIDE DEF N
<1>3. \A n \in Nat : n \in N
  BY <1>1, <1>2, NatSet, Zenon
<1> QED BY <1>3, LenFacts DEF N

-----------------------------------------------------------------------------
(* Only: the packets of a batch that are in a set *)

\* Step i of the loop of Only, from what the steps before it gave.
OnlyStep(f, s, S, i) ==
  IF i = 0 THEN <<>> ELSE IF s[i] \in S THEN Append(f[i - 1], s[i]) ELSE f[i - 1]

\* A step depends on the step before it only.
LEMMA OnlyStepLocal ==
  ASSUME NEW f, NEW g, NEW s, NEW S, NEW i, i # 0 => f[i - 1] = g[i - 1]
  PROVE  OnlyStep(f, s, S, i) = OnlyStep(g, s, S, i)
<1>1. CASE i = 0
  BY Zenon, <1>1 DEF OnlyStep
<1>2. CASE i # 0
  <2>1. f[i - 1] = g[i - 1]
    BY Zenon, <1>2
  <2> QED BY <2>1, <1>2 DEF OnlyStep
<1> QED BY Zenon, <1>1, <1>2

\* The loop of Only gives each step from the one before.
LEMMA OnlyRecursion ==
  ASSUME NEW s, Len(s) \in Nat, NEW S
  PROVE  \A i \in 0 .. Len(s) : OnlyWalk(s, S)[i] = OnlyStep(OnlyWalk(s, S), s, S, i)
<1> DEFINE Step(f, i) == OnlyStep(f, s, S, i)
           G(f, k) == [i \in 0 .. k |-> Step(f, i)]
           N == {k \in Nat : \E f : f = G(f, k)}
<1>1. 0 \in N
  <2> DEFINE z == [i \in 0 .. 0 |-> 0]
             f == [i \in 0 .. 0 |-> Step(z, 0)]
  <2>1. Step(f, 0) = Step(z, 0) /\ 0 \in Nat
    BY OnlyStepLocal
  <2> HIDE DEF Step
  <2>2. f = G(f, 0)
    BY <2>1
  <2> HIDE DEF f, G
  <2> QED BY Zenon, <2>1, <2>2
<1>2. ASSUME NEW k \in Nat, k \in N PROVE k + 1 \in N
  <2>1. PICK f : f = G(f, k)
    BY <1>2
  <2> DEFINE h == [i \in 0 .. k + 1 |-> IF i = k + 1 THEN Step(f, i) ELSE f[i]]
  <2>2. \A i \in 0 .. k + 1 : Step(h, i) = h[i]
    <3> TAKE i \in 0 .. k + 1
    <3>1. i # 0 => h[i - 1] = f[i - 1]
      <4> HIDE DEF Step
      <4> QED OBVIOUS
    <3>2. Step(h, i) = Step(f, i)
      <4> HIDE DEF h
      <4> QED BY <3>1, OnlyStepLocal
    <3> HIDE DEF Step
    <3>3. CASE i = k + 1
      BY <3>2, <3>3
    <3>4. CASE i # k + 1
      <4>1. i \in 0 .. k
        BY <3>4
      <4>2. f[i] = Step(f, i)
        BY Zenon, <2>1, <4>1
      <4> QED BY <3>2, <3>4, <4>2
    <3> QED BY <3>3, <3>4
  <2> HIDE DEF Step
  <2>3. h = G(h, k + 1)
    BY <2>2
  <2>4. k + 1 \in Nat
    OBVIOUS
  <2> HIDE DEF h, G
  <2> QED BY Zenon, <2>3, <2>4
<1> HIDE DEF N, Step
<1>3. Len(s) \in N
  <2>1. \A k \in Nat : k \in N
    BY <1>1, <1>2, NatSet, Zenon
  <2> QED BY Zenon, <2>1
<1>4. OnlyWalk(s, S) = CHOOSE f : f = G(f, Len(s))
  BY DEF OnlyWalk, Step, OnlyStep
<1>5. \E f : f = G(f, Len(s))
  BY <1>3 DEF N
<1> HIDE DEF G
<1>6. OnlyWalk(s, S) = G(OnlyWalk(s, S), Len(s))
  BY <1>4, <1>5, Zenon
<1>7. \A i \in 0 .. Len(s) : OnlyWalk(s, S)[i] = Step(OnlyWalk(s, S), i)
  BY Zenon, <1>6 DEF G
<1> QED BY Zenon, <1>7 DEF Step

\* The loop starts with the empty sequence.
LEMMA OnlyStart ==
  ASSUME NEW s, Len(s) \in Nat, NEW S
  PROVE  OnlyWalk(s, S)[0] = <<>>
<1>1. 0 \in 0 .. Len(s)
  OBVIOUS
<1>2. OnlyWalk(s, S)[0] = OnlyStep(OnlyWalk(s, S), s, S, 0)
  BY Zenon, <1>1, OnlyRecursion
<1> QED BY Zenon, <1>2 DEF OnlyStep

\* An element of S is appended, another one is skipped.
LEMMA OnlyLoop ==
  ASSUME NEW s, Len(s) \in Nat, NEW S, NEW i \in 1 .. Len(s)
  PROVE  /\ s[i] \in S => OnlyWalk(s, S)[i] = Append(OnlyWalk(s, S)[i - 1], s[i])
         /\ s[i] \notin S => OnlyWalk(s, S)[i] = OnlyWalk(s, S)[i - 1]
<1> DEFINE w == OnlyWalk(s, S)
<1>1. i \in 0 .. Len(s) /\ i # 0
  OBVIOUS
<1>2. w[i] = OnlyStep(w, s, S, i)
  BY Zenon, <1>1, OnlyRecursion
<1> HIDE DEF w
<1>3. /\ s[i] \in S => w[i] = Append(w[i - 1], s[i])
      /\ s[i] \notin S => w[i] = w[i - 1]
  BY Zenon, <1>1, <1>2 DEF OnlyStep
<1> QED BY Zenon, <1>3 DEF w

\* How one more element changes what Only gives.
LEMMA OnlyAppend ==
  ASSUME NEW T, NEW s \in Seq(T), NEW x \in T, NEW S
  PROVE  /\ x \in S => Only(Append(s, x), S) = Append(Only(s, S), x)
         /\ x \notin S => Only(Append(s, x), S) = Only(s, S)
<1> DEFINE t == Append(s, x)
           w == OnlyWalk(s, S)
           v == OnlyWalk(t, S)
           N == {i \in Nat : i <= Len(s) => v[i] = w[i]}
<1>1. Len(s) \in Nat /\ Len(t) = Len(s) + 1 /\ Len(t) \in Nat
  BY LenFacts, AppendFacts
<1>2. t[Len(t)] = x /\ \A i \in 1 .. Len(s) : t[i] = s[i]
  BY AppendFacts
<1> HIDE DEF t
<1>3. w[0] = <<>> /\ v[0] = <<>>
  BY Zenon, <1>1, OnlyStart
<1>4. \A i \in 1 .. Len(s) : /\ s[i] \in S => w[i] = Append(w[i - 1], s[i])
                             /\ s[i] \notin S => w[i] = w[i - 1]
  <2> TAKE i \in 1 .. Len(s)
  <2> QED BY ZenonT(60), <1>1, OnlyLoop
<1>5. \A i \in 1 .. Len(t) : /\ t[i] \in S => v[i] = Append(v[i - 1], t[i])
                             /\ t[i] \notin S => v[i] = v[i - 1]
  <2> TAKE i \in 1 .. Len(t)
  <2> QED BY ZenonT(60), <1>1, OnlyLoop
<1> HIDE DEF w, v
<1>6. 0 \in N
  BY <1>3
<1>7. ASSUME NEW n \in Nat, n \in N PROVE n + 1 \in N
  <2> SUFFICES ASSUME n + 1 <= Len(s) PROVE v[n + 1] = w[n + 1]
    OBVIOUS
  <2>1. /\ n + 1 \in 1 .. Len(s) /\ n + 1 \in 1 .. Len(t)
        /\ v[n] = w[n] /\ (n + 1) - 1 = n
    BY <1>1, <1>7
  <2>2. t[n + 1] = s[n + 1]
    BY Zenon, <1>2, <2>1
  <2>3. /\ s[n + 1] \in S => w[n + 1] = Append(w[n], s[n + 1])
        /\ s[n + 1] \notin S => w[n + 1] = w[n]
    BY Zenon, <1>4, <2>1
  <2>4. /\ t[n + 1] \in S => v[n + 1] = Append(v[n], t[n + 1])
        /\ t[n + 1] \notin S => v[n + 1] = v[n]
    BY Zenon, <1>5, <2>1
  <2> QED BY Zenon, <2>1, <2>2, <2>3, <2>4
<1> HIDE DEF N
<1>8. \A n \in Nat : n \in N
  BY Zenon, <1>6, <1>7, NatSet
<1>9. v[Len(s)] = w[Len(s)] /\ Len(t) \in 1 .. Len(t) /\ Len(t) - 1 = Len(s)
  BY <1>8, <1>1 DEF N
<1>10. /\ x \in S => v[Len(t)] = Append(w[Len(s)], x)
       /\ x \notin S => v[Len(t)] = w[Len(s)]
  BY Zenon, <1>2, <1>5, <1>9
<1> QED BY Zenon, <1>10 DEF Only, w, v, t

\* Nothing is in the empty sequence.
LEMMA OnlyEmpty == \A S : Only(<<>>, S) = <<>>
<1> TAKE S
<1>1. Len(<<>>) \in Nat /\ Len(<<>>) = 0
  OBVIOUS
<1>2. OnlyWalk(<<>>, S)[0] = <<>>
  BY Zenon, <1>1, OnlyStart
<1> QED BY Zenon, <1>1, <1>2 DEF Only

-----------------------------------------------------------------------------
(* Sequences as collections *)

\* Nothing occurs twice in s.
AllDistinct(s) == \A i, j \in DOMAIN s : s[i] = s[j] => i = j

\* The empty sequence holds nothing.
LEMMA EmptyElements == Elements(<<>>) = {} /\ AllDistinct(<<>>)
BY DEF Elements, AllDistinct

\* The elements of a sequence are of its type.
LEMMA ElementsType ==
  ASSUME NEW T, NEW s \in Seq(T)
  PROVE  Elements(s) \subseteq T
<1>1. \A i \in DOMAIN s : s[i] \in T
  BY LenFacts
<1> QED BY Zenon, <1>1 DEF Elements

\* What is held after appending, and when it is held once.
LEMMA AppendElements ==
  ASSUME NEW T, NEW s \in Seq(T), NEW x \in T
  PROVE  /\ Elements(Append(s, x)) = Elements(s) \cup {x}
         /\ AllDistinct(Append(s, x)) <=> AllDistinct(s) /\ x \notin Elements(s)
<1> DEFINE a == Append(s, x)
           n == Len(s) + 1
<1>1. /\ Len(s) \in Nat /\ DOMAIN s = 1 .. Len(s) /\ DOMAIN a = 1 .. n
      /\ a[n] = x /\ \A i \in DOMAIN s : a[i] = s[i]
  BY LenFacts, AppendFacts
<1>2. n \in DOMAIN a /\ n \notin DOMAIN s
  BY <1>1
<1>3. \A i \in DOMAIN a : i = n \/ i \in DOMAIN s
  BY <1>1
<1>4. \A i \in DOMAIN s : i \in DOMAIN a
  BY <1>1
<1> HIDE DEF a, n
<1>5. Elements(a) = Elements(s) \cup {x}
  <2>1. \A i \in DOMAIN a : a[i] \in Elements(s) \cup {x}
    BY Zenon, <1>1, <1>3 DEF Elements
  <2>2. \A i \in DOMAIN s : s[i] \in Elements(a)
    BY Zenon, <1>1, <1>4 DEF Elements
  <2>3. x \in Elements(a)
    BY Zenon, <1>1, <1>2 DEF Elements
  <2> QED BY Zenon, <2>1, <2>2, <2>3 DEF Elements
<1>6. ASSUME AllDistinct(a) PROVE AllDistinct(s) /\ x \notin Elements(s)
  <2>1. AllDistinct(s)
    BY Zenon, <1>1, <1>4, <1>6 DEF AllDistinct
  <2>2. \A i \in DOMAIN s : s[i] # x
    BY Zenon, <1>1, <1>2, <1>4, <1>6 DEF AllDistinct
  <2> QED BY Zenon, <2>1, <2>2 DEF Elements
<1>7. ASSUME AllDistinct(s), x \notin Elements(s) PROVE AllDistinct(a)
  <2>1. \A i \in DOMAIN s : s[i] # x
    BY Zenon, <1>7 DEF Elements
  <2> QED BY Zenon, <2>1, <1>1, <1>3, <1>7 DEF AllDistinct
<1> QED BY Zenon, <1>5, <1>6, <1>7 DEF a

\* Appending to a concatenation appends to its second part.
LEMMA AppendConcat ==
  ASSUME NEW T, NEW s \in Seq(T), NEW t \in Seq(T), NEW x \in T
  PROVE  s \o Append(t, x) = Append(s \o t, x)
<1>1. Append(t, x) = t \o <<x>> /\ <<x>> \in Seq(T)
  BY Zenon, AppendIsConcat
<1>2. s \o t \in Seq(T)
  BY Zenon, ConcatFacts
<1>3. Append(s \o t, x) = (s \o t) \o <<x>>
  BY Zenon, <1>2, AppendIsConcat
<1>4. (s \o t) \o <<x>> = s \o (t \o <<x>>)
  <2> DEFINE u == <<x>>
  <2>1. u \in Seq(T)
    BY <1>1
  <2> HIDE DEF u
  <2>2. (s \o t) \o u = s \o (t \o u)
    BY <2>1, ConcatAssoc
  <2> QED BY Zenon, <2>2 DEF u
<1> QED BY Zenon, <1>1, <1>3, <1>4

\* What a concatenation holds, and when it holds it once.
LEMMA ConcatElements ==
  ASSUME NEW T, NEW s \in Seq(T), NEW t \in Seq(T)
  PROVE  /\ Elements(s \o t) = Elements(s) \cup Elements(t)
         /\ AllDistinct(s \o t) <=>
              /\ AllDistinct(s) /\ AllDistinct(t)
              /\ \A x \in Elements(s) : x \notin Elements(t)
<1> DEFINE Q(u) == /\ Elements(s \o u) = Elements(s) \cup Elements(u)
                   /\ AllDistinct(s \o u) <=>
                        /\ AllDistinct(s) /\ AllDistinct(u)
                        /\ \A x \in Elements(s) : x \notin Elements(u)
           P == {u \in Seq(T) : Q(u)}
<1>1. <<>> \in P
  <2>1. s \o <<>> = s /\ <<>> \in Seq(T)
    BY ConcatEmpty
  <2> QED BY Zenon, <2>1, EmptyElements
<1>2. ASSUME NEW u \in Seq(T), NEW x \in T, u \in P PROVE Append(u, x) \in P
  <2> DEFINE a == Append(u, x)
           c == s \o u
  <2>1. s \o a = Append(c, x)
    BY AppendConcat
  <2>2. c \in Seq(T) /\ a \in Seq(T)
    BY ConcatFacts, AppendFacts
  <2>3. /\ Elements(a) = Elements(u) \cup {x}
        /\ AllDistinct(a) <=> AllDistinct(u) /\ x \notin Elements(u)
    BY Zenon, AppendElements
  <2> HIDE DEF a, c
  <2>4. /\ Elements(Append(c, x)) = Elements(c) \cup {x}
        /\ AllDistinct(Append(c, x)) <=> AllDistinct(c) /\ x \notin Elements(c)
    BY Zenon, <2>2, AppendElements
  <2>5. Q(u)
    BY Zenon, <1>2
  <2>6. Elements(s \o a) = Elements(s) \cup Elements(a)
    BY Zenon, <2>1, <2>3, <2>4, <2>5 DEF c
  <2>7. ASSUME AllDistinct(s \o a)
        PROVE  AllDistinct(s) /\ AllDistinct(a) /\ \A y \in Elements(s) : y \notin Elements(a)
    BY Zenon, <2>1, <2>3, <2>4, <2>5, <2>7 DEF c
  <2>8. ASSUME AllDistinct(s), AllDistinct(a), \A y \in Elements(s) : y \notin Elements(a)
        PROVE  AllDistinct(s \o a)
    BY Zenon, <2>1, <2>3, <2>4, <2>5, <2>8 DEF c
  <2>9. Q(a)
    BY Zenon, <2>6, <2>7, <2>8
  <2> HIDE DEF Q
  <2> QED BY Zenon, <2>2, <2>9 DEF a
<1> HIDE DEF Q
<1>3. P \subseteq Seq(T)
  OBVIOUS
<1> HIDE DEF P
<1>4. \A u \in Seq(T) : u \in P
  BY Zenon, <1>1, <1>2, SeqSet
<1>5. Q(t)
  BY Zenon, <1>4 DEF P
<1> QED BY Zenon, <1>5 DEF Q

-----------------------------------------------------------------------------
(* What Only keeps *)

\* Only gives a sequence, of the elements in S, each as often as before.
LEMMA OnlyElements ==
  ASSUME NEW T, NEW s \in Seq(T), NEW S
  PROVE  /\ Only(s, S) \in Seq(T)
         /\ Elements(Only(s, S)) = Elements(s) \cap S
         /\ AllDistinct(s) => AllDistinct(Only(s, S))
<1> DEFINE Q(u) == /\ Only(u, S) \in Seq(T)
                   /\ Elements(Only(u, S)) = Elements(u) \cap S
                   /\ AllDistinct(u) => AllDistinct(Only(u, S))
           P == {u \in Seq(T) : Q(u)}
<1>1. <<>> \in P
  <2>1. <<>> \in Seq(T)
    OBVIOUS
  <2> QED BY Zenon, <2>1, EmptyElements, OnlyEmpty
<1>2. ASSUME NEW u \in Seq(T), NEW x \in T, u \in P PROVE Append(u, x) \in P
  <2> DEFINE a == Append(u, x)
             o == Only(u, S)
  <2>1. /\ x \in S => Only(a, S) = Append(o, x)
        /\ x \notin S => Only(a, S) = o
    BY Zenon, OnlyAppend
  <2>2. a \in Seq(T)
    BY AppendFacts
  <2>3. o \in Seq(T) /\ Elements(o) = Elements(u) \cap S /\ (AllDistinct(u) => AllDistinct(o))
    BY Zenon, <1>2
  <2>4. /\ Elements(a) = Elements(u) \cup {x}
        /\ AllDistinct(a) <=> AllDistinct(u) /\ x \notin Elements(u)
    BY Zenon, AppendElements
  <2> HIDE DEF a, o
  <2>5. /\ Elements(Append(o, x)) = Elements(o) \cup {x}
        /\ AllDistinct(Append(o, x)) <=> AllDistinct(o) /\ x \notin Elements(o)
    BY Zenon, <2>3, AppendElements
  <2>6. Append(o, x) \in Seq(T)
    BY <2>3, AppendFacts
  <2>7. Q(a)
    <3>1. CASE x \in S
      <4>1. Elements(Append(o, x)) = Elements(a) \cap S
        BY Zenon, <2>3, <2>4, <2>5, <3>1
      <4>2. AllDistinct(a) => AllDistinct(Append(o, x))
        BY Zenon, <2>3, <2>4, <2>5
      <4> QED BY Zenon, <2>1, <2>6, <3>1, <4>1, <4>2
    <3>2. CASE x \notin S
      <4>1. Elements(o) = Elements(a) \cap S
        BY Zenon, <2>3, <2>4, <3>2
      <4> QED BY Zenon, <2>1, <2>3, <2>4, <3>2, <4>1
    <3> QED BY Zenon, <3>1, <3>2
  <2> HIDE DEF Q
  <2> QED BY Zenon, <2>2, <2>7 DEF a
<1> HIDE DEF Q, P
<1>3. \A u \in Seq(T) : u \in P
  BY Zenon, <1>1, <1>2, SeqSet
<1>4. Q(s)
  BY Zenon, <1>3 DEF P
<1> QED BY Zenon, <1>4 DEF Q

\* Only works on the parts of a concatenation.
LEMMA OnlyConcat ==
  ASSUME NEW T, NEW s \in Seq(T), NEW t \in Seq(T), NEW S
  PROVE  Only(s \o t, S) = Only(s, S) \o Only(t, S)
<1> DEFINE Q(u) == Only(s \o u, S) = Only(s, S) \o Only(u, S)
           P == {u \in Seq(T) : Q(u)}
           p == Only(s, S)
<1>1. p \in Seq(T)
  BY Zenon, OnlyElements
<1>2. <<>> \in P
  <2>1. <<>> \in Seq(T) /\ s \o <<>> = s /\ p \o <<>> = p
    BY <1>1, ConcatEmpty
  <2> QED BY Zenon, <2>1, OnlyEmpty
<1>3. ASSUME NEW u \in Seq(T), NEW x \in T, u \in P PROVE Append(u, x) \in P
  <2> DEFINE a == Append(u, x)
             o == Only(u, S)
             c == s \o u
  <2>1. /\ x \in S => Only(a, S) = Append(o, x)
        /\ x \notin S => Only(a, S) = o
    BY Zenon, OnlyAppend
  <2>2. a \in Seq(T) /\ c \in Seq(T) /\ s \o a = Append(c, x)
    BY AppendFacts, ConcatFacts, AppendConcat
  <2>3. o \in Seq(T)
    BY Zenon, OnlyElements
  <2>4. Only(c, S) = p \o o
    BY Zenon, <1>3
  <2> HIDE DEF a, o, c, p
  <2>5. /\ x \in S => Only(Append(c, x), S) = Append(Only(c, S), x)
        /\ x \notin S => Only(Append(c, x), S) = Only(c, S)
    BY Zenon, <2>2, OnlyAppend
  <2>6. p \o Append(o, x) = Append(p \o o, x)
    BY <1>1, <2>3, AppendConcat
  <2>7. Only(s \o a, S) = p \o Only(a, S)
    BY Zenon, <2>1, <2>2, <2>4, <2>5, <2>6
  <2> QED BY Zenon, <2>2, <2>7 DEF a, p
<1> HIDE DEF Q, P
<1>4. \A u \in Seq(T) : u \in P
  BY Zenon, <1>2, <1>3, SeqSet
<1>5. Q(t)
  BY Zenon, <1>4 DEF P
<1> QED BY Zenon, <1>5 DEF Q

\* Sets that agree on the elements of s give the same.
LEMMA OnlyAgree ==
  ASSUME NEW T, NEW s \in Seq(T), NEW R, NEW S, \A x \in Elements(s) : x \in R <=> x \in S
  PROVE  Only(s, R) = Only(s, S)
<1> DEFINE Q(u) == (\A x \in Elements(u) : x \in R <=> x \in S) => Only(u, R) = Only(u, S)
           P == {u \in Seq(T) : Q(u)}
<1>1. <<>> \in P
  <2>1. <<>> \in Seq(T)
    OBVIOUS
  <2> QED BY Zenon, <2>1, OnlyEmpty
<1>2. ASSUME NEW u \in Seq(T), NEW x \in T, u \in P PROVE Append(u, x) \in P
  <2> DEFINE a == Append(u, x)
  <2>1. /\ x \in S => Only(a, S) = Append(Only(u, S), x)
        /\ x \notin S => Only(a, S) = Only(u, S)
    BY Zenon, OnlyAppend
  <2>2. /\ x \in R => Only(a, R) = Append(Only(u, R), x)
        /\ x \notin R => Only(a, R) = Only(u, R)
    BY Zenon, OnlyAppend
  <2>3. a \in Seq(T)
    BY AppendFacts
  <2>4. Elements(a) = Elements(u) \cup {x}
    BY AppendElements
  <2>5. Q(u)
    BY Zenon, <1>2
  <2> HIDE DEF a
  <2>6. Q(a)
    BY Zenon, <2>1, <2>2, <2>4, <2>5
  <2> HIDE DEF Q
  <2> QED BY Zenon, <2>3, <2>6 DEF a
<1> HIDE DEF Q, P
<1>3. \A u \in Seq(T) : u \in P
  BY Zenon, <1>1, <1>2, SeqSet
<1>4. Q(s)
  BY Zenon, <1>3 DEF P
<1> QED BY Zenon, <1>4 DEF Q

\* All of s is kept when S holds all its elements.
LEMMA OnlyAll ==
  ASSUME NEW T, NEW s \in Seq(T), NEW S, Elements(s) \subseteq S
  PROVE  Only(s, S) = s
<1> DEFINE Q(u) == Elements(u) \subseteq S => Only(u, S) = u
           P == {u \in Seq(T) : Q(u)}
<1>1. <<>> \in P
  <2>1. <<>> \in Seq(T)
    OBVIOUS
  <2> QED BY Zenon, <2>1, OnlyEmpty
<1>2. ASSUME NEW u \in Seq(T), NEW x \in T, u \in P PROVE Append(u, x) \in P
  <2> DEFINE a == Append(u, x)
  <2>1. /\ x \in S => Only(a, S) = Append(Only(u, S), x)
        /\ x \notin S => Only(a, S) = Only(u, S)
    BY Zenon, OnlyAppend
  <2>2. a \in Seq(T)
    BY AppendFacts
  <2>3. Elements(a) = Elements(u) \cup {x}
    BY AppendElements
  <2>4. Q(u)
    BY Zenon, <1>2
  <2>5. Elements(a) \subseteq S => Only(a, S) = Append(u, x)
    BY Zenon, <2>1, <2>3, <2>4
  <2> HIDE DEF Q
  <2> QED BY Zenon, <2>2, <2>5 DEF Q
<1> HIDE DEF Q, P
<1>3. \A u \in Seq(T) : u \in P
  BY Zenon, <1>1, <1>2, SeqSet
<1>4. Q(s)
  BY Zenon, <1>3 DEF P
<1> QED BY Zenon, <1>4 DEF Q

\* Nothing of s is kept when S holds none of its elements.
LEMMA OnlyNone ==
  ASSUME NEW T, NEW s \in Seq(T), NEW S, \A x \in Elements(s) : x \notin S
  PROVE  Only(s, S) = <<>>
<1> DEFINE o == Only(s, S)
<1>1. o \in Seq(T) /\ Elements(o) = Elements(s) \cap S /\ (AllDistinct(s) => AllDistinct(o))
  BY Zenon, OnlyElements
<1> HIDE DEF o
<1>2. Elements(o) = {}
  BY Zenon, <1>1
<1>3. \A i \in DOMAIN o : FALSE
  BY Zenon, <1>2 DEF Elements
<1>4. o = <<>>
  BY <1>1, <1>3, LenFacts
<1> QED BY <1>4 DEF o

\* Keeping R and then S keeps what is in both.
LEMMA OnlyTwice ==
  ASSUME NEW T, NEW s \in Seq(T), NEW R, NEW S
  PROVE  Only(Only(s, R), S) = Only(s, R \cap S)
<1> DEFINE Q(u) == Only(Only(u, R), S) = Only(u, R \cap S)
           P == {u \in Seq(T) : Q(u)}
<1>1. <<>> \in P
  <2>1. <<>> \in Seq(T)
    OBVIOUS
  <2> QED BY Zenon, <2>1, OnlyEmpty
<1>2. ASSUME NEW u \in Seq(T), NEW x \in T, u \in P PROVE Append(u, x) \in P
  <2> DEFINE a == Append(u, x)
             o == Only(u, R)
             I == R \cap S
  <2>1. /\ x \in R => Only(a, R) = Append(o, x)
        /\ x \notin R => Only(a, R) = o
    BY Zenon, OnlyAppend
  <2>2. /\ x \in I => Only(a, I) = Append(Only(u, I), x)
        /\ x \notin I => Only(a, I) = Only(u, I)
    <3> HIDE DEF I
    <3> QED BY Zenon, OnlyAppend
  <2>3. a \in Seq(T)
    BY AppendFacts
  <2>4. o \in Seq(T)
    BY Zenon, OnlyElements
  <2>5. Only(o, S) = Only(u, I)
    BY Zenon, <1>2
  <2>6. x \in I <=> x \in R /\ x \in S
    BY Zenon
  <2> HIDE DEF a, o, I
  <2>7. /\ x \in S => Only(Append(o, x), S) = Append(Only(o, S), x)
        /\ x \notin S => Only(Append(o, x), S) = Only(o, S)
    BY Zenon, <2>4, OnlyAppend
  <2>8. Only(Only(a, R), S) = Only(a, I)
    BY Zenon, <2>1, <2>2, <2>5, <2>6, <2>7
  <2> QED BY Zenon, <2>3, <2>8 DEF a, I
<1> HIDE DEF Q, P
<1>3. \A u \in Seq(T) : u \in P
  BY Zenon, <1>1, <1>2, SeqSet
<1>4. Q(s)
  BY Zenon, <1>3 DEF P
<1> QED BY Zenon, <1>4 DEF Q

-----------------------------------------------------------------------------
(* The parts of a sequence *)

\* The shortest and the longest prefix.
LEMMA PrefixEnds ==
  ASSUME NEW T, NEW s \in Seq(T)
  PROVE  SubSeq(s, 1, 0) = <<>> /\ SubSeq(s, 1, Len(s)) = s
<1>1. Len(s) \in Nat /\ 0 \in 0 .. Len(s) /\ Len(s) \in 0 .. Len(s)
  BY LenFacts
<1>2. /\ SubSeq(s, 1, 0) \in Seq(T) /\ Len(SubSeq(s, 1, 0)) = 0
      /\ \A i \in 1 .. 0 : SubSeq(s, 1, 0)[i] = s[i]
  BY Zenon, <1>1, PrefixFacts
<1>3. /\ SubSeq(s, 1, Len(s)) \in Seq(T) /\ Len(SubSeq(s, 1, Len(s))) = Len(s)
      /\ \A i \in 1 .. Len(s) : SubSeq(s, 1, Len(s))[i] = s[i]
  BY Zenon, <1>1, PrefixFacts
<1>4. SubSeq(s, 1, 0) = <<>>
  BY <1>2, LenFacts
<1>5. SubSeq(s, 1, Len(s)) = s
  BY Zenon, <1>3, SeqsEqual
<1> QED BY <1>4, <1>5

\* A prefix is the one before it and one element.
LEMMA PrefixNext ==
  ASSUME NEW T, NEW s \in Seq(T), NEW i \in 1 .. Len(s)
  PROVE  SubSeq(s, 1, i) = Append(SubSeq(s, 1, i - 1), s[i]) /\ s[i] \in T
<1> DEFINE p == SubSeq(s, 1, i - 1)
           q == SubSeq(s, 1, i)
<1>1. Len(s) \in Nat /\ i - 1 \in 0 .. Len(s) /\ i \in 0 .. Len(s) /\ s[i] \in T
  BY LenFacts
<1>2. p \in Seq(T) /\ Len(p) = i - 1 /\ \A j \in 1 .. i - 1 : p[j] = s[j]
  BY Zenon, <1>1, PrefixFacts
<1>3. q \in Seq(T) /\ Len(q) = i /\ \A j \in 1 .. i : q[j] = s[j]
  BY Zenon, <1>1, PrefixFacts
<1> DEFINE a == Append(p, s[i])
<1> HIDE DEF p, q
<1>4. /\ a \in Seq(T) /\ Len(a) = Len(p) + 1
      /\ \A j \in 1 .. Len(p) : a[j] = p[j]
      /\ a[Len(p) + 1] = s[i]
  BY Zenon, <1>1, <1>2, AppendFacts
<1> HIDE DEF a
<1>5. Len(q) = Len(a) /\ \A j \in 1 .. Len(q) : q[j] = a[j]
  BY <1>1, <1>2, <1>3, <1>4
<1>6. q = a
  BY Zenon, <1>3, <1>4, <1>5, SeqsEqual
<1> QED BY Zenon, <1>1, <1>6 DEF p, q, a

\* A sequence is its first n elements and the others.
LEMMA SeqSplit ==
  ASSUME NEW T, NEW s \in Seq(T), NEW n \in 0 .. Len(s)
  PROVE  /\ SubSeq(s, 1, n) \in Seq(T) /\ SubSeq(s, n + 1, Len(s)) \in Seq(T)
         /\ s = SubSeq(s, 1, n) \o SubSeq(s, n + 1, Len(s))
<1> DEFINE p == SubSeq(s, 1, n)
           r == SubSeq(s, n + 1, Len(s))
           c == p \o r
<1>1. Len(s) \in Nat /\ n + 1 \in 1 .. Len(s) + 1 /\ Len(s) \in (n + 1) - 1 .. Len(s)
  BY LenFacts
<1>2. p \in Seq(T) /\ Len(p) = n /\ \A j \in 1 .. n : p[j] = s[j]
  BY Zenon, PrefixFacts
<1>3. /\ r \in Seq(T) /\ Len(r) = Len(s) - (n + 1) + 1
      /\ \A j \in 1 .. Len(s) - (n + 1) + 1 : r[j] = s[j + (n + 1) - 1]
  BY Zenon, <1>1, SubSeqFacts
<1> HIDE DEF p, r
<1>4. /\ c \in Seq(T) /\ Len(c) = Len(p) + Len(r)
      /\ \A i \in 1 .. Len(p) + Len(r) : c[i] = IF i <= Len(p) THEN p[i] ELSE r[i - Len(p)]
  BY Zenon, <1>2, <1>3, ConcatFacts
<1> HIDE DEF c
<1>5. Len(s) = Len(c) /\ \A j \in 1 .. Len(s) : s[j] = c[j]
  <2>1. Len(s) = Len(c)
    BY <1>1, <1>2, <1>3, <1>4
  <2> SUFFICES ASSUME NEW j \in 1 .. Len(s) PROVE s[j] = c[j]
    BY <2>1
  <2>2. j \in 1 .. Len(p) + Len(r)
    BY <1>1, <1>2, <1>3
  <2>3. CASE j <= n
    BY <1>1, <1>2, <1>4, <2>2, <2>3
  <2>4. CASE j > n
    <3>1. j - n \in 1 .. Len(s) - (n + 1) + 1 /\ (j - n) + (n + 1) - 1 = j
      BY <1>1, <2>4
    <3>2. r[j - n] = s[j]
      BY <1>3, <3>1
    <3> QED BY <1>1, <1>2, <1>4, <2>2, <2>4, <3>2
  <2> QED BY <2>3, <2>4, <1>1
<1>6. s = c
  BY Zenon, <1>4, <1>5, SeqsEqual
<1> QED BY Zenon, <1>2, <1>3, <1>6 DEF p, r, c

\* What is left of s from i on is element i and what is left from i + 1 on.
LEMMA SuffixNext ==
  ASSUME NEW T, NEW s \in Seq(T), NEW i \in 1 .. Len(s)
  PROVE  /\ SubSeq(s, i + 1, Len(s)) \in Seq(T) /\ s[i] \in T
         /\ SubSeq(s, i, Len(s)) = <<s[i]>> \o SubSeq(s, i + 1, Len(s))
<1> DEFINE p == SubSeq(s, i, Len(s))
           r == SubSeq(s, i + 1, Len(s))
           e == <<s[i]>>
           c == e \o r
<1>1. /\ Len(s) \in Nat /\ s[i] \in T
      /\ i \in 1 .. Len(s) + 1 /\ Len(s) \in i - 1 .. Len(s)
      /\ i + 1 \in 1 .. Len(s) + 1 /\ Len(s) \in (i + 1) - 1 .. Len(s)
  BY LenFacts
<1>2. p \in Seq(T) /\ Len(p) = Len(s) - i + 1
      /\ \A j \in 1 .. Len(s) - i + 1 : p[j] = s[j + i - 1]
  BY Zenon, <1>1, SubSeqFacts
<1>3. /\ r \in Seq(T) /\ Len(r) = Len(s) - (i + 1) + 1
      /\ \A j \in 1 .. Len(s) - (i + 1) + 1 : r[j] = s[j + (i + 1) - 1]
  BY Zenon, <1>1, SubSeqFacts
<1>4. e \in Seq(T) /\ Len(e) = 1 /\ e[1] = s[i]
  BY <1>1
<1> HIDE DEF p, r, e
<1>5. /\ c \in Seq(T) /\ Len(c) = Len(e) + Len(r)
      /\ \A j \in 1 .. Len(e) + Len(r) : c[j] = IF j <= Len(e) THEN e[j] ELSE r[j - Len(e)]
  BY Zenon, <1>3, <1>4, ConcatFacts
<1> HIDE DEF c
<1>6. Len(p) = Len(c)
  BY <1>1, <1>2, <1>3, <1>4, <1>5
<1>7. ASSUME NEW j \in 1 .. Len(p) PROVE p[j] = c[j]
  <2>1. j \in 1 .. Len(s) - i + 1 /\ j \in 1 .. Len(e) + Len(r)
    BY <1>1, <1>2, <1>3, <1>4
  <2>2. p[j] = s[j + i - 1] /\ c[j] = IF j <= Len(e) THEN e[j] ELSE r[j - Len(e)]
    BY Zenon, <1>2, <1>5, <2>1
  <2>3. CASE j = 1
    <3>1. j + i - 1 = i /\ j <= Len(e)
      BY <2>3, <1>1, <1>4
    <3> QED BY Zenon, <2>2, <2>3, <3>1, <1>4
  <2>4. CASE j # 1
    <3>1. /\ ~(j <= Len(e)) /\ j - Len(e) \in 1 .. Len(s) - (i + 1) + 1
          /\ (j - Len(e)) + (i + 1) - 1 = j + i - 1
      BY <2>1, <2>4, <1>1, <1>4
    <3>2. r[j - Len(e)] = s[(j - Len(e)) + (i + 1) - 1]
      BY Zenon, <1>3, <3>1
    <3> QED BY Zenon, <2>2, <3>1, <3>2
  <2> QED BY <2>3, <2>4
<1>8. p = c
  BY Zenon, <1>2, <1>5, <1>6, <1>7, SeqsEqual
<1> QED BY Zenon, <1>1, <1>3, <1>8 DEF p, r, e, c

\* Elements of what one element is put in front of.
LEMMA FrontElements ==
  ASSUME NEW T, NEW t \in Seq(T), NEW x \in T
  PROVE  /\ <<x>> \in Seq(T) /\ Elements(<<x>> \o t) = {x} \cup Elements(t)
         /\ AllDistinct(<<x>> \o t) <=> AllDistinct(t) /\ x \notin Elements(t)
<1> DEFINE e == <<x>>
<1>1. e \in Seq(T) /\ Elements(e) = {x} /\ AllDistinct(e)
  BY DEF Elements, AllDistinct
<1> HIDE DEF e
<1>2. /\ Elements(e \o t) = Elements(e) \cup Elements(t)
      /\ AllDistinct(e \o t) <=>
           /\ AllDistinct(e) /\ AllDistinct(t)
           /\ \A y \in Elements(e) : y \notin Elements(t)
  BY Zenon, <1>1, ConcatElements
<1> QED BY Zenon, <1>1, <1>2 DEF e

-----------------------------------------------------------------------------
(* drop_packets_stable drops the packets that the filter rejects *)

\* What the loops work on.
Work(b, k, c) == [array |-> b, kept |-> k, scratch |-> c]

\* Its parts.
LEMMA WorkParts ==
  \A b, k, c : Work(b, k, c).array = b /\ Work(b, k, c).kept = k /\ Work(b, k, c).scratch = c
BY DEF Work

\* Step i of the loops of drop_packets_stable, from what the steps before it gave.
CompactNext(w, x, i) ==
  LET r == Len(w.scratch) + 1 IN
  IF r <= Len(x) /\ x[r] = i - 1
  THEN [w EXCEPT !.scratch = Append(@, w.array[i])]
  ELSE [w EXCEPT !.array[w.kept + 1] = w.array[i], !.kept = @ + 1]

CompactStep(f, a, x, i) ==
  IF i = 0 THEN Work(a, 0, <<>>) ELSE CompactNext(f[i - 1], x, i)

\* The step at a packet that is rejected.
LEMMA CompactDrops ==
  ASSUME NEW b, NEW k, NEW c, NEW x, NEW i, Len(c) + 1 <= Len(x) /\ x[Len(c) + 1] = i - 1
  PROVE  CompactNext(Work(b, k, c), x, i) = Work(b, k, Append(c, b[i]))
<1> DEFINE w == Work(b, k, c)
<1>1. w.array = b /\ w.scratch = c
  BY DEF Work
<1> HIDE DEF w
<1>2. CompactNext(w, x, i) = [w EXCEPT !.scratch = Append(c, b[i])]
  BY Zenon, <1>1 DEF CompactNext
<1> DEFINE d == Append(c, b[i])
<1> HIDE DEF d
<1>3. [w EXCEPT !.scratch = d] = Work(b, k, d)
  BY DEF w, Work
<1> QED BY Zenon, <1>2, <1>3 DEF d, w

\* The step at a packet that stays.
LEMMA CompactKeeps ==
  ASSUME NEW b, NEW k, NEW c, NEW x, NEW i, ~(Len(c) + 1 <= Len(x) /\ x[Len(c) + 1] = i - 1)
  PROVE  CompactNext(Work(b, k, c), x, i) = Work([b EXCEPT ![k + 1] = b[i]], k + 1, c)
<1> DEFINE w == Work(b, k, c)
<1>1. w.array = b /\ w.kept = k /\ w.scratch = c
  BY DEF Work
<1> HIDE DEF w
<1>2. CompactNext(w, x, i) = [w EXCEPT !.array[k + 1] = b[i], !.kept = @ + 1]
  BY Zenon, <1>1 DEF CompactNext
<1> DEFINE f == [w.array EXCEPT ![k + 1] = b[i]]
           m == w.kept + 1
<1>3. [w EXCEPT !.array[k + 1] = b[i], !.kept = @ + 1] = [w EXCEPT !.array = f, !.kept = m]
  OBVIOUS
<1> HIDE DEF f, m
<1>4. [w EXCEPT !.array = f, !.kept = m] = Work(f, m, c)
  <2>1. [w EXCEPT !.array = f, !.kept = m] = [[w EXCEPT !.array = f] EXCEPT !.kept = m]
    OBVIOUS
  <2>2. [w EXCEPT !.array = f] = Work(f, k, c)
    BY DEF w, Work
  <2>3. [Work(f, k, c) EXCEPT !.kept = m] = Work(f, m, c)
    BY DEF Work
  <2> QED BY Zenon, <2>1, <2>2, <2>3
<1> QED BY Zenon, <1>1, <1>2, <1>3, <1>4 DEF w, f, m

\* A step depends on the step before it only.
LEMMA CompactStepLocal ==
  ASSUME NEW f, NEW g, NEW a, NEW x, NEW i, i # 0 => f[i - 1] = g[i - 1]
  PROVE  CompactStep(f, a, x, i) = CompactStep(g, a, x, i)
<1>1. CASE i = 0
  BY Zenon, <1>1 DEF CompactStep
<1>2. CASE i # 0
  <2>1. f[i - 1] = g[i - 1]
    BY Zenon, <1>2
  <2> QED BY <2>1, <1>2 DEF CompactStep
<1> QED BY Zenon, <1>1, <1>2

\* The loops of drop_packets_stable give each step from the one before.
LEMMA CompactRecursion ==
  ASSUME NEW a, Len(a) \in Nat, NEW x
  PROVE  \A i \in 0 .. Len(a) : CompactWalk(a, x)[i] = CompactStep(CompactWalk(a, x), a, x, i)
<1> DEFINE Step(f, i) == CompactStep(f, a, x, i)
           G(f, k) == [i \in 0 .. k |-> Step(f, i)]
           N == {k \in Nat : \E f : f = G(f, k)}
<1>1. 0 \in N
  <2> DEFINE z == [i \in 0 .. 0 |-> 0]
             f == [i \in 0 .. 0 |-> Step(z, 0)]
  <2>1. Step(f, 0) = Step(z, 0) /\ 0 \in Nat
    BY CompactStepLocal
  <2> HIDE DEF Step
  <2>2. f = G(f, 0)
    BY <2>1
  <2> HIDE DEF f, G
  <2> QED BY Zenon, <2>1, <2>2
<1>2. ASSUME NEW k \in Nat, k \in N PROVE k + 1 \in N
  <2>1. PICK f : f = G(f, k)
    BY <1>2
  <2> DEFINE h == [i \in 0 .. k + 1 |-> IF i = k + 1 THEN Step(f, i) ELSE f[i]]
  <2>2. \A i \in 0 .. k + 1 : Step(h, i) = h[i]
    <3> TAKE i \in 0 .. k + 1
    <3>1. i # 0 => h[i - 1] = f[i - 1]
      <4> HIDE DEF Step
      <4> QED OBVIOUS
    <3>2. Step(h, i) = Step(f, i)
      <4> HIDE DEF h
      <4> QED BY <3>1, CompactStepLocal
    <3> HIDE DEF Step
    <3>3. CASE i = k + 1
      BY <3>2, <3>3
    <3>4. CASE i # k + 1
      <4>1. i \in 0 .. k
        BY <3>4
      <4>2. f[i] = Step(f, i)
        BY Zenon, <2>1, <4>1
      <4> QED BY <3>2, <3>4, <4>2
    <3> QED BY <3>3, <3>4
  <2> HIDE DEF Step
  <2>3. h = G(h, k + 1)
    BY <2>2
  <2>4. k + 1 \in Nat
    OBVIOUS
  <2> HIDE DEF h, G
  <2> QED BY Zenon, <2>3, <2>4
<1> HIDE DEF N, Step
<1>3. Len(a) \in N
  <2>1. \A k \in Nat : k \in N
    BY <1>1, <1>2, NatSet, Zenon
  <2> QED BY Zenon, <2>1
<1>4. CompactWalk(a, x) = CHOOSE f : f = G(f, Len(a))
  BY DEF CompactWalk, Step, CompactStep, CompactNext, Work
<1>5. \E f : f = G(f, Len(a))
  BY <1>3 DEF N
<1> HIDE DEF G
<1>6. CompactWalk(a, x) = G(CompactWalk(a, x), Len(a))
  BY <1>4, <1>5, Zenon
<1>7. \A i \in 0 .. Len(a) : CompactWalk(a, x)[i] = Step(CompactWalk(a, x), i)
  BY Zenon, <1>6 DEF G
<1> QED BY Zenon, <1>7 DEF Step

\* The indexes, from 0, of a batch.
Indexes(a) == [i \in 1 .. Len(a) |-> i - 1]

\* The indexes that the filter rejects.
Rejects(a, K) == {i \in 0 .. Len(a) - 1 : a[i + 1] \notin K}

\* The indexes of a batch are numbers, as many as the batch has packets.
LEMMA IndexesFacts ==
  ASSUME NEW a, Len(a) \in Nat
  PROVE  /\ Indexes(a) \in Seq(Nat) /\ Len(Indexes(a)) = Len(a)
         /\ \A i \in 1 .. Len(a) : Indexes(a)[i] = i - 1
<1>1. Indexes(a) \in [1 .. Len(a) -> Nat]
  BY DEF Indexes
<1> QED BY <1>1, SeqOfFunction DEF Indexes

\* The rejected ones of the first i packets and of their indexes are as many.
LEMMA RejectedCount ==
  ASSUME NEW T, NEW a \in Seq(T), NEW K
  PROVE  \A i \in 0 .. Len(a) : Len(Only(SubSeq(Indexes(a), 1, i), Rejects(a, K)))
                                   = Len(Only(SubSeq(a, 1, i), T \ K))
<1> DEFINE d == Indexes(a)
           R == Rejects(a, K)
           U(i) == Only(SubSeq(d, 1, i), R)
           X(i) == Only(SubSeq(a, 1, i), T \ K)
           N == {i \in Nat : i <= Len(a) => Len(U(i)) = Len(X(i))}
<1>1. Len(a) \in Nat
  BY LenFacts
<1>2. d \in Seq(Nat) /\ Len(d) = Len(a) /\ \A i \in 1 .. Len(a) : d[i] = i - 1
  BY Zenon, <1>1, IndexesFacts
<1> HIDE DEF d
<1>3. 0 \in N
  <2>1. SubSeq(d, 1, 0) = <<>> /\ SubSeq(a, 1, 0) = <<>>
    BY <1>2, PrefixEnds
  <2>2. U(0) = <<>> /\ X(0) = <<>>
    BY Zenon, <2>1, OnlyEmpty
  <2> HIDE DEF U, X
  <2> QED BY <2>2
<1>4. ASSUME NEW n \in Nat, n \in N PROVE n + 1 \in N
  <2> SUFFICES ASSUME n + 1 <= Len(a) PROVE Len(U(n + 1)) = Len(X(n + 1))
    OBVIOUS
  <2> DEFINE p == SubSeq(d, 1, n)
             q == SubSeq(a, 1, n)
             y == a[n + 1]
  <2>1. /\ n + 1 \in 1 .. Len(a) /\ n + 1 \in 1 .. Len(d) /\ (n + 1) - 1 = n
        /\ n \in 0 .. Len(a) /\ n \in 0 .. Len(d)
    BY <1>1, <1>2
  <2>2. SubSeq(d, 1, n + 1) = Append(p, n)
    <3>1. SubSeq(d, 1, n + 1) = Append(SubSeq(d, 1, (n + 1) - 1), d[n + 1])
      BY <1>2, <2>1, PrefixNext
    <3> QED BY Zenon, <3>1, <1>2, <2>1
  <2>3. SubSeq(a, 1, n + 1) = Append(SubSeq(a, 1, (n + 1) - 1), y) /\ y \in T
    BY Zenon, <2>1, PrefixNext
  <2>4. p \in Seq(Nat) /\ q \in Seq(T)
    BY <1>2, <2>1, PrefixFacts
  <2>5. n \in R <=> y \in T \ K
    BY <1>1, <2>1, <2>3 DEF Rejects
  <2>6. Len(Only(p, R)) = Len(Only(q, T \ K))
    BY <2>1, <1>4
  <2> HIDE DEF p, q, y, R
  <2>7. /\ n \in R => Only(Append(p, n), R) = Append(Only(p, R), n)
        /\ n \notin R => Only(Append(p, n), R) = Only(p, R)
    BY Zenon, <2>4, OnlyAppend
  <2>8. /\ y \in T \ K => Only(Append(q, y), T \ K) = Append(Only(q, T \ K), y)
        /\ y \notin T \ K => Only(Append(q, y), T \ K) = Only(q, T \ K)
    BY Zenon, <2>3, <2>4, OnlyAppend
  <2>9. Only(p, R) \in Seq(Nat) /\ Only(q, T \ K) \in Seq(T)
    BY Zenon, <2>4, OnlyElements
  <2>10. /\ Len(Append(Only(p, R), n)) = Len(Only(p, R)) + 1
         /\ Len(Append(Only(q, T \ K), y)) = Len(Only(q, T \ K)) + 1
    BY <2>3, <2>9, AppendFacts
  <2>11. U(n + 1) = Only(Append(p, n), R) /\ X(n + 1) = Only(Append(q, y), T \ K)
    BY Zenon, <2>1, <2>2, <2>3 DEF q
  <2> HIDE DEF U, X
  <2> QED BY Zenon, <2>5, <2>6, <2>7, <2>8, <2>10, <2>11
<1> HIDE DEF N
<1>5. \A n \in Nat : n \in N
  BY Zenon, <1>3, <1>4, NatSet
<1>6. \A i \in 0 .. Len(a) : Len(U(i)) = Len(X(i))
  <2> HIDE DEF U, X
  <2> QED BY <1>1, <1>5 DEF N
<1> QED BY Zenon, <1>6 DEF d

\* Entry r of the rejected indexes is that of packet i exactly when packet i is rejected.
MarksNext(a, K, r, i) ==
  (r <= Len(Rejected(a, K)) /\ Rejected(a, K)[r] = i - 1) <=> a[i] \notin K

\* When i - 1 packets were looked at and r - 1 of them rejected, entry r of the rejected
\* indexes tells whether the next packet is rejected.
LEMMA RejectedAt ==
  ASSUME NEW T, NEW a \in Seq(T), NEW K, NEW i \in 1 .. Len(a), NEW r,
         r = Len(Only(SubSeq(a, 1, i - 1), T \ K)) + 1
  PROVE  MarksNext(a, K, r, i)
<1> DEFINE d == Indexes(a)
           R == Rejects(a, K)
           p == SubSeq(d, 1, i - 1)
           q == SubSeq(d, 1, i)
           e == SubSeq(d, i + 1, Len(d))
           u == Only(p, R)
           z == Only(e, R)
           x == Rejected(a, K)
<1>1. Len(a) \in Nat /\ i - 1 \in Nat /\ i - 1 \in 0 .. Len(a)
  BY LenFacts
<1>2. d \in Seq(Nat) /\ Len(d) = Len(a) /\ \A j \in 1 .. Len(a) : d[j] = j - 1
  BY Zenon, <1>1, IndexesFacts
<1>3. x = Only(d, R)
  BY DEF Rejected, Rejects, Indexes
<1>4. r = Len(u) + 1
  <2>1. Len(u) = Len(Only(SubSeq(a, 1, i - 1), T \ K))
    BY <1>1, RejectedCount
  <2> HIDE DEF u
  <2> QED BY Zenon, <2>1
<1>5. i - 1 \in R <=> a[i] \notin K
  BY <1>1 DEF Rejects
<1> HIDE DEF d, R
<1>6. q = Append(p, i - 1) /\ p \in Seq(Nat)
  <2>1. i \in 1 .. Len(d) /\ d[i] = i - 1
    BY Zenon, <1>2
  <2>2. q = Append(SubSeq(d, 1, i - 1), d[i]) /\ d[i] \in Nat
    BY Zenon, <1>2, <2>1, PrefixNext
  <2>3. p \in Seq(Nat)
    BY <1>1, <1>2, PrefixFacts
  <2> QED BY Zenon, <2>1, <2>2, <2>3
<1>7. q \in Seq(Nat) /\ e \in Seq(Nat) /\ d = q \o e
  <2>1. i \in 0 .. Len(d)
    BY <1>1, <1>2
  <2> QED BY Zenon, <1>2, <2>1, SeqSplit
<1>8. \A j \in Elements(e) : j >= i
  <2>1. i + 1 \in 1 .. Len(d) + 1 /\ Len(d) \in (i + 1) - 1 .. Len(d)
    BY <1>1, <1>2
  <2>2. /\ Len(e) = Len(d) - (i + 1) + 1
        /\ \A j \in 1 .. Len(d) - (i + 1) + 1 : e[j] = d[j + (i + 1) - 1]
    BY <1>2, <2>1, SubSeqFacts
  <2>3. DOMAIN e = 1 .. Len(d) - (i + 1) + 1
    BY <1>7, <2>2, LenFacts
  <2> HIDE DEF e
  <2>4. \A j \in DOMAIN e : e[j] >= i
    <3> TAKE j \in DOMAIN e
    <3>1. /\ j \in 1 .. Len(d) - (i + 1) + 1 /\ j + (i + 1) - 1 \in 1 .. Len(a)
          /\ (j + (i + 1) - 1) - 1 >= i
      <4>1. Len(d) = Len(a)
        BY <1>2
      <4> QED BY <1>1, <2>3, <4>1
    <3>2. e[j] = d[j + (i + 1) - 1] /\ d[j + (i + 1) - 1] = (j + (i + 1) - 1) - 1
      BY Zenon, <1>2, <2>2, <3>1
    <3> QED BY Zenon, <3>1, <3>2
  <2> QED BY Zenon, <2>4 DEF Elements
<1> HIDE DEF q, e, p
<1>9. x = Only(q, R) \o z
  <2>1. Only(q \o e, R) = Only(q, R) \o Only(e, R)
    BY <1>7, OnlyConcat
  <2> QED BY Zenon, <1>3, <1>7, <2>1
<1>10. z \in Seq(Nat) /\ Elements(z) = Elements(e) \cap R /\ (AllDistinct(e) => AllDistinct(z))
  BY Zenon, <1>7, OnlyElements
<1>11. u \in Seq(Nat) /\ Elements(u) = Elements(p) \cap R /\ (AllDistinct(p) => AllDistinct(u))
  BY Zenon, <1>6, OnlyElements
<1>12. /\ i - 1 \in R => Only(Append(p, i - 1), R) = Append(u, i - 1)
       /\ i - 1 \notin R => Only(Append(p, i - 1), R) = u
  BY Zenon, <1>1, <1>6, OnlyAppend
<1> HIDE DEF x, z, u
<1>13. CASE i - 1 \in R
  <2> DEFINE v == Append(u, i - 1)
  <2>1. x = v \o z
    BY Zenon, <1>6, <1>9, <1>12, <1>13
  <2>2. v \in Seq(Nat) /\ Len(v) = r /\ v[r] = i - 1
    BY <1>1, <1>4, <1>11, AppendFacts
  <2> HIDE DEF v
  <2>3. r \in Nat \ {0} /\ Len(z) \in Nat
    BY <1>4, <1>10, <1>11, LenFacts
  <2>4. r <= Len(x) /\ x[r] = i - 1
    BY <1>10, <2>1, <2>2, <2>3, ConcatFacts
  <2> QED BY Zenon, <1>5, <1>13, <2>4 DEF x, MarksNext
<1>14. CASE i - 1 \notin R
  <2>1. x = u \o z
    BY Zenon, <1>6, <1>9, <1>12, <1>14
  <2>2. ASSUME r <= Len(x) PROVE x[r] # i - 1
    <3>1. Len(u) \in Nat /\ Len(z) \in Nat /\ DOMAIN z = 1 .. Len(z)
      BY <1>10, <1>11, LenFacts
    <3>2. Len(x) = Len(u) + Len(z)
      BY <1>10, <1>11, <2>1, ConcatFacts
    <3>3. 1 \in DOMAIN z
      BY <1>4, <2>2, <3>1, <3>2
    <3>4. x[r] = z[1]
      <4>1. /\ r \in 1 .. Len(u) + Len(z) /\ ~(r <= Len(u)) /\ r - Len(u) = 1
        BY <1>4, <2>2, <3>1, <3>2
      <4>2. x[r] = IF r <= Len(u) THEN u[r] ELSE z[r - Len(u)]
        BY <1>10, <1>11, <2>1, <4>1, ConcatFacts
      <4> QED BY Zenon, <4>1, <4>2
    <3>5. z[1] \in Elements(z)
      BY Zenon, <3>3 DEF Elements
    <3>6. z[1] >= i
      BY Zenon, <1>8, <1>10, <3>5
    <3> QED BY <1>1, <3>4, <3>6
  <2> QED BY Zenon, <1>5, <1>14, <2>2 DEF x, MarksNext
<1> QED BY Zenon, <1>13, <1>14

\* After i steps scratch has the rejected ones of the first i packets, in order; the
\* others are at the front of the array, in order, and what follows them is unchanged.
Compact(w, T, a, K, i) ==
  LET v == Only(SubSeq(a, 1, i), K) IN
  /\ w = Work(w.array, w.kept, w.scratch)
  /\ w.array \in [1 .. Len(a) -> T] /\ w.kept \in Nat
  /\ w.scratch = Only(SubSeq(a, 1, i), T \ K)
  /\ w.kept = Len(v) /\ w.kept <= i
  /\ \A j \in 1 .. w.kept : w.array[j] = v[j]
  /\ \A j \in 1 .. Len(a) : j > w.kept => w.array[j] = a[j]

\* The loops of drop_packets_stable keep it so.
LEMMA CompactLoop ==
  ASSUME NEW T, NEW a \in Seq(T), NEW K
  PROVE  \A i \in 0 .. Len(a) : Compact(CompactWalk(a, Rejected(a, K))[i], T, a, K, i)
<1> DEFINE x == Rejected(a, K)
           W == CompactWalk(a, x)
           N == {i \in Nat : i <= Len(a) => Compact(W[i], T, a, K, i)}
<1>1. Len(a) \in Nat /\ a \in [1 .. Len(a) -> T]
  BY LenFacts
<1>2. \A i \in 0 .. Len(a) : W[i] = CompactStep(W, a, x, i)
  BY Zenon, <1>1, CompactRecursion
<1> HIDE DEF W, x
<1>3. 0 \in N
  <2>1. W[0] = Work(a, 0, <<>>)
    <3>1. 0 \in 0 .. Len(a)
      BY <1>1
    <3>2. W[0] = CompactStep(W, a, x, 0)
      BY Zenon, <1>2, <3>1
    <3> QED BY Zenon, <3>2 DEF CompactStep
  <2>2. Only(SubSeq(a, 1, 0), K) = <<>> /\ Only(SubSeq(a, 1, 0), T \ K) = <<>>
    <3>1. SubSeq(a, 1, 0) = <<>>
      BY PrefixEnds
    <3> QED BY Zenon, <3>1, OnlyEmpty
  <2>3. Compact(W[0], T, a, K, 0)
    <3>1. /\ W[0].array = a /\ W[0].kept = 0 /\ W[0].scratch = <<>>
          /\ W[0] = Work(W[0].array, W[0].kept, W[0].scratch)
      <4>1. W[0].array = a /\ W[0].kept = 0 /\ W[0].scratch = <<>>
        BY <2>1, WorkParts
      <4> QED BY Zenon, <2>1, <4>1
    <3>2. 0 \in Nat /\ 0 <= 0 /\ Len(<<>>) = 0 /\ \A j \in 1 .. 0 : FALSE
      OBVIOUS
    <3> QED BY Zenon, <1>1, <2>2, <3>1, <3>2 DEF Compact
  <2> QED BY <2>3
<1>4. ASSUME NEW n \in Nat, n \in N PROVE n + 1 \in N
  <2> SUFFICES ASSUME n + 1 <= Len(a) PROVE Compact(W[n + 1], T, a, K, n + 1)
    OBVIOUS
  <2> DEFINE p == SubSeq(a, 1, n)
             y == a[n + 1]
             v == Only(p, K)
             c == Only(p, T \ K)
             w == W[n]
             r == Len(c) + 1
             q == SubSeq(a, 1, n + 1)
  <2>1. /\ n + 1 \in 1 .. Len(a) /\ n + 1 \in 0 .. Len(a) /\ (n + 1) - 1 = n
        /\ n \in 0 .. Len(a) /\ n + 1 # 0
    BY <1>1
  <2>2. Compact(w, T, a, K, n)
    BY <2>1, <1>4
  <2>3. q = Append(p, y) /\ y \in T
    <3>1. q = Append(SubSeq(a, 1, (n + 1) - 1), y) /\ y \in T
      BY Zenon, <2>1, PrefixNext
    <3> QED BY Zenon, <2>1, <3>1
  <2>4. p \in Seq(T)
    BY <2>1, PrefixFacts
  <2>5. (r <= Len(x) /\ x[r] = (n + 1) - 1) <=> y \notin K
    <3>1. r = Len(Only(SubSeq(a, 1, (n + 1) - 1), T \ K)) + 1
      BY Zenon, <2>1
    <3> DEFINE i == n + 1
    <3>2. i \in 1 .. Len(a) /\ r = Len(Only(SubSeq(a, 1, i - 1), T \ K)) + 1
      BY Zenon, <2>1, <3>1
    <3> HIDE DEF r, i
    <3>3. MarksNext(a, K, r, i)
      BY Zenon, <3>2, RejectedAt
    <3> QED BY Zenon, <3>3 DEF x, i, MarksNext
  <2> HIDE DEF p, y
  <2>6. /\ y \in K => Only(Append(p, y), K) = Append(v, y)
        /\ y \notin K => Only(Append(p, y), K) = v
    BY Zenon, <2>3, <2>4, OnlyAppend
  <2>7. /\ y \in T \ K => Only(Append(p, y), T \ K) = Append(c, y)
        /\ y \notin T \ K => Only(Append(p, y), T \ K) = c
    BY Zenon, <2>3, <2>4, OnlyAppend
  <2>8. v \in Seq(T) /\ c \in Seq(T)
    BY Zenon, <2>4, OnlyElements
  <2>9. /\ w = Work(w.array, w.kept, w.scratch)
        /\ w.array \in [1 .. Len(a) -> T] /\ w.kept \in Nat
        /\ w.scratch = c /\ w.kept = Len(v) /\ w.kept <= n
        /\ \A j \in 1 .. w.kept : w.array[j] = v[j]
        /\ \A j \in 1 .. Len(a) : j > w.kept => w.array[j] = a[j]
    BY Zenon, <2>2 DEF Compact, p
  <2>10. w.array[n + 1] = y
    BY <1>1, <2>1, <2>9 DEF y
  <2>11. W[n + 1] = CompactNext(Work(w.array, w.kept, c), x, n + 1)
    <3>1. W[n + 1] = CompactStep(W, a, x, n + 1)
      BY Zenon, <1>2, <2>1
    <3>2. W[n + 1] = CompactNext(w, x, n + 1)
      BY Zenon, <2>1, <3>1 DEF CompactStep
    <3> QED BY Zenon, <3>2, <2>9
  <2> DEFINE b == w.array
             k == w.kept
             t == W[n + 1]
  <2>12. t = CompactNext(Work(b, k, c), x, n + 1) /\ b[n + 1] = y
    BY Zenon, <2>10, <2>11
  <2>13. /\ b \in [1 .. Len(a) -> T] /\ k \in Nat /\ k = Len(v) /\ k <= n
         /\ \A j \in 1 .. k : b[j] = v[j]
         /\ \A j \in 1 .. Len(a) : j > k => b[j] = a[j]
    BY Zenon, <2>9
  <2> HIDE DEF v, c, w, r, q, b, k, t
  <2>14. CASE y \notin K
    <3>1. t = Work(b, k, Append(c, y))
      <4>1. Len(c) + 1 <= Len(x) /\ x[Len(c) + 1] = (n + 1) - 1
        BY Zenon, <2>5, <2>14 DEF r
      <4>2. CompactNext(Work(b, k, c), x, n + 1) = Work(b, k, Append(c, b[n + 1]))
        BY <4>1, CompactDrops
      <4> QED BY Zenon, <2>12, <4>2
    <3>2. Only(q, K) = v /\ Only(q, T \ K) = Append(c, y)
      BY Zenon, <2>3, <2>6, <2>7, <2>14
    <3>3. /\ t = Work(t.array, t.kept, t.scratch)
          /\ t.scratch = Append(c, y) /\ t.kept = k /\ t.array = b
      <4> DEFINE d == Append(c, y)
      <4> HIDE DEF d
      <4>1. t.scratch = d /\ t.kept = k /\ t.array = b
        <5>1. t = Work(b, k, d)
          BY Zenon, <3>1 DEF d
        <5> QED BY <5>1, WorkParts
      <4> QED BY Zenon, <3>1, <4>1 DEF d
    <3>4. k <= n + 1
      BY <2>13
    <3> QED BY Zenon, <2>13, <3>2, <3>3, <3>4 DEF Compact, q, t
  <2>15. CASE y \in K
    <3> DEFINE e == [b EXCEPT ![k + 1] = y]
               g == Append(v, y)
    <3>1. t = Work(e, k + 1, c)
      <4>1. ~(Len(c) + 1 <= Len(x) /\ x[Len(c) + 1] = (n + 1) - 1)
        BY Zenon, <2>5, <2>15 DEF r
      <4>2. CompactNext(Work(b, k, c), x, n + 1) = Work([b EXCEPT ![k + 1] = b[n + 1]], k + 1, c)
        BY <4>1, CompactKeeps
      <4> QED BY Zenon, <2>12, <4>2
    <3>2. Only(q, K) = g /\ Only(q, T \ K) = c
      BY Zenon, <2>3, <2>6, <2>7, <2>15
    <3>3. Len(g) = k + 1 /\ g[k + 1] = y /\ \A j \in 1 .. k : g[j] = v[j]
      BY <2>3, <2>8, <2>13, AppendFacts
    <3>4. /\ t = Work(t.array, t.kept, t.scratch)
          /\ t.scratch = c /\ t.kept = k + 1 /\ t.array = e
      <4>1. t.scratch = c /\ t.kept = k + 1 /\ t.array = e
        BY <3>1, WorkParts
      <4> QED BY Zenon, <3>1, <4>1
    <3>5. k + 1 \in Nat /\ k + 1 <= n + 1 /\ e \in [1 .. Len(a) -> T]
      BY <2>3, <2>13
    <3>6. \A j \in 1 .. k + 1 : e[j] = g[j]
      <4> HIDE DEF g
      <4> QED BY <1>1, <2>1, <2>13, <3>3
    <3>7. \A j \in 1 .. Len(a) : j > k + 1 => e[j] = a[j]
      BY <1>1, <2>13
    <3> HIDE DEF e, g
    <3> QED BY Zenon, <3>2, <3>3, <3>4, <3>5, <3>6, <3>7 DEF Compact, q, t
  <2> QED BY Zenon, <2>14, <2>15 DEF t
<1> HIDE DEF N
<1>5. \A n \in Nat : n \in N
  BY Zenon, <1>3, <1>4, NatSet
<1> QED BY <1>1, <1>5 DEF N, W, x

\* drop_packets_stable, given the indexes of the packets that a filter rejects, meets all
\* of them, leaves the others in their order and frees exactly the rejected ones.
THEOREM DropIsStable ==
  ASSUME NEW T, NEW a \in Seq(T), NEW K
  PROVE  drop_packets_stable(a, Rejected(a, K)) =
           [some |-> TRUE, array |-> Only(a, K), freed |-> Elements(a) \ K]
<1> DEFINE x == Rejected(a, K)
           w == CompactWalk(a, x)[Len(a)]
           v == Only(a, K)
           c == Only(a, T \ K)
<1>1. Len(a) \in Nat /\ Len(a) \in 0 .. Len(a)
  BY LenFacts
<1>2. SubSeq(a, 1, Len(a)) = a
  BY PrefixEnds
<1>3. Compact(w, T, a, K, Len(a))
  BY Zenon, <1>1, CompactLoop
<1>4. v \in Seq(T) /\ Elements(v) = Elements(a) \cap K /\ (AllDistinct(a) => AllDistinct(v))
  BY Zenon, OnlyElements
<1>5. c \in Seq(T) /\ Elements(c) = Elements(a) \cap (T \ K)
      /\ (AllDistinct(a) => AllDistinct(c))
  BY Zenon, OnlyElements
<1>6. Len(x) = Len(c)
  <2>1. Len(Only(SubSeq(Indexes(a), 1, Len(a)), Rejects(a, K))) = Len(Only(SubSeq(a, 1, Len(a)), T \ K))
    BY <1>1, RejectedCount
  <2>2. SubSeq(Indexes(a), 1, Len(a)) = Indexes(a)
    <3>1. /\ Indexes(a) \in Seq(Nat) /\ Len(Indexes(a)) = Len(a)
          /\ \A i \in 1 .. Len(a) : Indexes(a)[i] = i - 1
      BY Zenon, <1>1, IndexesFacts
    <3>2. SubSeq(Indexes(a), 1, 0) = <<>> /\ SubSeq(Indexes(a), 1, Len(Indexes(a))) = Indexes(a)
      BY Zenon, <3>1, PrefixEnds
    <3> QED BY Zenon, <3>1, <3>2
  <2>3. x = Only(Indexes(a), Rejects(a, K))
    BY Zenon DEF Rejected, Indexes, Rejects
  <2> QED BY Zenon, <1>2, <2>1, <2>2, <2>3
<1> HIDE DEF w, v, c, x
<1>7. /\ w.array \in [1 .. Len(a) -> T] /\ w.kept \in Nat
      /\ w.scratch = c /\ w.kept = Len(v) /\ w.kept <= Len(a)
      /\ \A j \in 1 .. w.kept : w.array[j] = v[j]
  BY Zenon, <1>2, <1>3 DEF Compact, v, c
<1>8. SubSeq(w.array, 1, w.kept) = v
  <2> DEFINE b == w.array
             p == SubSeq(b, 1, w.kept)
  <2>1. b \in Seq(T) /\ Len(b) = Len(a)
    BY ZenonT(60), <1>1, <1>7, SeqOfFunction
  <2>2. w.kept \in 0 .. Len(b)
    BY <1>1, <1>7, <2>1
  <2>3. p \in Seq(T) /\ Len(p) = w.kept /\ \A i \in 1 .. w.kept : p[i] = b[i]
    BY Zenon, <2>1, <2>2, PrefixFacts
  <2> HIDE DEF p
  <2>4. Len(p) = Len(v) /\ \A i \in 1 .. Len(p) : p[i] = v[i]
    BY Zenon, <1>7, <2>3
  <2>5. p = v
    BY Zenon, <1>4, <2>3, <2>4, SeqsEqual
  <2> QED BY Zenon, <2>5 DEF p
<1>9. Elements(c) = Elements(a) \ K
  <2>1. Elements(a) \subseteq T
    BY Zenon, ElementsType
  <2> QED BY Zenon, <1>5, <2>1
<1>10. drop_packets_stable(a, x) =
         [some |-> Len(w.scratch) = Len(x), array |-> SubSeq(w.array, 1, w.kept),
          freed |-> Elements(w.scratch)]
  BY Zenon DEF drop_packets_stable, Compacted, w
<1>11. (Len(w.scratch) = Len(x)) = TRUE
  BY Zenon, <1>6, <1>7
<1> QED BY Zenon, <1>7, <1>8, <1>9, <1>10, <1>11 DEF x, v
=============================================================================
