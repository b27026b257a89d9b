------------------------- MODULE TransferRouterProofs -------------------------
(***************************************************************************)
(* Proofs about TransferRouter for every set of streams of any length, any *)
(* number of writers and any number of writes.  What is to be shown        *)
(* (Plain) is recursive: the first part proves that it is defined by its   *)
(* recursion, by induction over the length; the second what it is for      *)
(* sequences that begin in a known way; the third what the pump may let go *)
(* of what it holds back; the fourth that the steps of the pump keep what  *)
(* was passed on in agreement with it, which is the core of the invariant. *)
(***************************************************************************)
EXTENDS TransferRouter, SequenceTheorems, WellFoundedInduction, TLAPS

(***************************************************************************)
(* Induction.  Plain is a recursive function over sequences of any length: *)
(* that it is a function at all, with a value given by its body, is proved *)
(* from the well-foundedness of the numbers.                               *)
(***************************************************************************)
Smaller == {ss \in Nat \X Nat : ss[1] < ss[2]}

\* A set of numbers that is not empty has a least one, ...
LEMMA Least ==
    ASSUME NEW T \in SUBSET Nat, T # {}
    PROVE  \E n \in T : \A m \in T : n <= m
<1>1. IsWellFoundedOn(Smaller, Nat)
  BY NatLessThanWellFounded DEF OpToRel, Smaller
<1>2. PICK n \in T : \A m \in T : ~ (<<m, n>> \in Smaller)
  BY <1>1, WFMin
<1>3. \A m \in T : m \in Nat /\ n \in Nat /\ ~(m < n)
  BY <1>2 DEF Smaller
<1> QED
  BY <1>3

\* ... so a set that has 0 and the successors of its elements has all numbers.
LEMMA InductionOnNat ==
    ASSUME NEW S, 0 \in S, \A n \in Nat : n \in S => n + 1 \in S
    PROVE  Nat \subseteq S
<1> SUFFICES ASSUME Nat \ S # {} PROVE FALSE
  OBVIOUS
<1>1. PICK n \in Nat \ S : \A m \in Nat \ S : n <= m
  BY Least
<1>2. n # 0 /\ n - 1 \in Nat
  BY <1>1
<1>3. n - 1 \in S
  BY <1>1, <1>2
<1> QED
  BY <1>1, <1>2, <1>3

\* What the log may hold.
Text == Items \cup {"cut"}

\* The body of Plain with another function in the place of Plain, ...
PlainOf(g, s) ==
    IF s = <<>> THEN <<>>
    ELSE IF s[1] = "cut" THEN g[Tail(s)]
    ELSE IF ~IsPrefix(Magic, s) \/ Len(s) = Len(Magic)
      THEN <<s[1]>> \o g[Tail(s)]
    ELSE LET n == Len(Magic) + 1
             Eol(i) == i <= Len(s) /\ s[i] = "eol"
             m == n + (IF Eol(n + 1) THEN IF Eol(n + 2) THEN 2 ELSE 1 ELSE 0)
         IN  IF s[n] \in {"init", "other"}
               THEN g[SubSeq(s, m + 1, Len(s))]
               ELSE SubSeq(s, 1, n) \o g[SubSeq(s, n + 1, Len(s))]

\* ... and what solves the equation for sequences of at most n items.
Short(n) == {s \in Seq(Text) : Len(s) <= n}
Solves(g, n) == g \in [Short(n) -> Seq(Text)] /\ \A s \in Short(n) : g[s] = PlainOf(g, s)

\* The magic, item by item.
LEMMA MagicIs ==
    /\ Magic \in Seq(Text) /\ Len(Magic) = 3
    /\ Magic[1] = "*" /\ Magic[2] = "*" /\ Magic[3] = "B"
BY DEF Magic, Text, Items

\* The body asks for the value at an end of the sequence, which is shorter ...
LEMMA RestIsShorter ==
    ASSUME NEW s \in Seq(Text), NEW i \in 2..Len(s) + 1
    PROVE  SubSeq(s, i, Len(s)) \in Seq(Text) /\ Len(SubSeq(s, i, Len(s))) = Len(s) + 1 - i
<1>1. Len(s) \in Nat
  BY LenProperties
<1>2. \A j \in i..Len(s) : s[j] \in Text
  BY <1>1, ElementOfSeq
<1> QED
  BY <1>1, <1>2, SubSeqProperties

\* ... and so depends on values at shorter sequences only.
LEMMA PlainOfIsLocal ==
    ASSUME NEW g, NEW h, NEW s \in Seq(Text),
           \A t \in Seq(Text) : Len(t) < Len(s) => g[t] = h[t]
    PROVE  PlainOf(g, s) = PlainOf(h, s)
<1>1. CASE s = <<>>
  BY <1>1 DEF PlainOf
<1>2. CASE s # <<>>
  <2>0. Len(s) \in Nat /\ Len(s) # 0
    BY <1>2, EmptySeq
  <2>1. Tail(s) \in Seq(Text) /\ Len(Tail(s)) < Len(s)
    BY <1>2, <2>0, HeadTailProperties
  <2>2. g[Tail(s)] = h[Tail(s)]
    BY <2>1
  <2>3. ASSUME NEW i \in 2..Len(s) + 1 PROVE g[SubSeq(s, i, Len(s))] = h[SubSeq(s, i, Len(s))]
    <3>1. SubSeq(s, i, Len(s)) \in Seq(Text) /\ Len(SubSeq(s, i, Len(s))) = Len(s) + 1 - i
      BY RestIsShorter
    <3>2. Len(SubSeq(s, i, Len(s))) < Len(s)
      BY <2>0, <3>1
    <3> QED
      BY <3>1, <3>2
  <2>4. CASE IsPrefix(Magic, s) /\ Len(s) # Len(Magic)
    <3> DEFINE Eol(i) == i <= Len(s) /\ s[i] = "eol"
               e == IF Eol(4 + 1) THEN IF Eol(4 + 2) THEN 2 ELSE 1 ELSE 0
    <3>1. Len(s) >= 4 /\ Len(Magic) = 3
      BY <2>0, <2>4, MagicIs DEF IsPrefix
    <3>2. 4 + e + 1 \in 2..Len(s) + 1 /\ 4 + 1 \in 2..Len(s) + 1
      BY <2>0, <3>1
    <3>3. /\ g[SubSeq(s, 4 + e + 1, Len(s))] = h[SubSeq(s, 4 + e + 1, Len(s))]
          /\ g[SubSeq(s, 4 + 1, Len(s))] = h[SubSeq(s, 4 + 1, Len(s))]
      BY <2>3, <3>2
    <3> QED
      BY <2>2, <3>1, <3>3 DEF PlainOf
  <2>5. CASE ~IsPrefix(Magic, s) \/ Len(s) = Len(Magic)
    BY <2>2, <2>5 DEF PlainOf
  <2> QED
    BY <2>4, <2>5
<1> QED
  BY <1>1, <1>2

\* The body gives a sequence when it is given sequences.
LEMMA PlainOfType ==
    ASSUME NEW g, NEW s \in Seq(Text),
           \A t \in Seq(Text) : Len(t) < Len(s) => g[t] \in Seq(Text)
    PROVE  PlainOf(g, s) \in Seq(Text)
<1>1. CASE s = <<>>
  BY <1>1 DEF PlainOf
<1>2. CASE s # <<>>
  <2>0. Len(s) \in Nat /\ Len(s) # 0
    BY <1>2, EmptySeq
  <2>1. Tail(s) \in Seq(Text) /\ Len(Tail(s)) < Len(s)
    BY <1>2, <2>0, HeadTailProperties
  <2>2. g[Tail(s)] \in Seq(Text) /\ <<s[1]>> \in Seq(Text)
    <3>1. 1 \in 1..Len(s)
      BY <2>0
    <3>2. s[1] \in Text
      BY <3>1, ElementOfSeq
    <3>3. <<s[1]>> \in Seq(Text)
      BY <3>2
    <3>4. g[Tail(s)] \in Seq(Text)
      BY <2>1
    <3> QED
      BY <3>3, <3>4
  <2>3. ASSUME NEW i \in 2..Len(s) + 1 PROVE g[SubSeq(s, i, Len(s))] \in Seq(Text)
    <3>1. SubSeq(s, i, Len(s)) \in Seq(Text) /\ Len(SubSeq(s, i, Len(s))) = Len(s) + 1 - i
      BY RestIsShorter
    <3>2. Len(SubSeq(s, i, Len(s))) < Len(s)
      BY <2>0, <3>1
    <3> QED
      BY <3>1, <3>2
  <2>4. CASE IsPrefix(Magic, s) /\ Len(s) # Len(Magic)
    <3> DEFINE Eol(i) == i <= Len(s) /\ s[i] = "eol"
               e == IF Eol(4 + 1) THEN IF Eol(4 + 2) THEN 2 ELSE 1 ELSE 0
    <3>1. Len(s) >= 4 /\ Len(Magic) = 3
      BY <2>0, <2>4, MagicIs DEF IsPrefix
    <3>2. 4 + e + 1 \in 2..Len(s) + 1 /\ 4 + 1 \in 2..Len(s) + 1
      BY <2>0, <3>1
    <3>3. g[SubSeq(s, 4 + e + 1, Len(s))] \in Seq(Text) /\ g[SubSeq(s, 4 + 1, Len(s))] \in Seq(Text)
      BY <2>3, <3>2
    <3>4. SubSeq(s, 1, 4) \in Seq(Text)
      BY <2>0, <3>1, ElementOfSeq, SubSeqProperties
    <3>5. SubSeq(s, 1, 4) \o g[SubSeq(s, 4 + 1, Len(s))] \in Seq(Text)
      BY <3>3, <3>4, ConcatProperties
    <3>6. CASE s[1] = "cut"
      BY <1>2, <2>2, <3>6 DEF PlainOf
    <3>7. CASE s[1] # "cut" /\ s[4] \in {"init", "other"}
      BY <1>2, <2>4, <3>1, <3>3, <3>7 DEF PlainOf
    <3>8. CASE s[1] # "cut" /\ s[4] \notin {"init", "other"}
      BY <1>2, <2>4, <3>1, <3>5, <3>8 DEF PlainOf
    <3> QED
      BY <3>6, <3>7, <3>8
  <2>5. CASE ~IsPrefix(Magic, s) \/ Len(s) = Len(Magic)
    <3>1. <<s[1]>> \o g[Tail(s)] \in Seq(Text)
      BY <2>2, ConcatProperties
    <3> QED
      BY <2>2, <2>5, <3>1 DEF PlainOf
  <2> QED
    BY <2>4, <2>5
<1> QED
  BY <1>1, <1>2

\* Two solutions agree where both are defined: a shortest sequence on which they
\* differ would have a shorter one.
LEMMA SolutionsAgree ==
    ASSUME NEW m \in Nat, NEW n \in Nat, NEW g, NEW h, Solves(g, m), Solves(h, n),
           NEW s \in Short(m) \cap Short(n)
    PROVE  g[s] = h[s]
<1> DEFINE Apart == {t \in Short(m) \cap Short(n) : g[t] # h[t]}
           T == {Len(t) : t \in Apart}
<1> SUFFICES ASSUME g[s] # h[s] PROVE FALSE
  OBVIOUS
<1>1. T \in SUBSET Nat /\ T # {}
  BY LenProperties DEF Short
<1> HIDE DEF T
<1>2. PICK k \in T : \A l \in T : k <= l
  BY <1>1, Least
<1> USE DEF T
<1>3. PICK t \in Apart : Len(t) = k
  BY <1>2
<1>4. t \in Seq(Text) /\ Len(t) \in Nat /\ Len(t) <= m /\ Len(t) <= n
  BY <1>3, LenProperties DEF Short
<1>5. ASSUME NEW u \in Seq(Text), Len(u) < Len(t) PROVE g[u] = h[u]
  <2>1. u \in Short(m) \cap Short(n) /\ Len(u) \in Nat
    BY <1>4, <1>5, LenProperties DEF Short
  <2>2. u \in Apart => Len(u) \in T
    OBVIOUS
  <2>3. Len(u) \notin T
    <3> HIDE DEF T
    <3> QED
      BY <1>1, <1>2, <1>3, <1>5, <2>1
  <2> QED
    BY <2>1, <2>2, <2>3
<1>6. PlainOf(g, t) = PlainOf(h, t)
  BY <1>4, <1>5, PlainOfIsLocal
<1> QED
  BY <1>3, <1>6 DEF Solves

\* There is a solution for every length.
LEMMA SolutionsExist == ASSUME NEW n \in Nat PROVE \E g : Solves(g, n)
<1> DEFINE Solved == {k \in Nat : \E g : Solves(g, k)}
<1>1. 0 \in Solved
  <2> DEFINE g == [s \in Short(0) |-> <<>>]
  <2>1. \A s \in Short(0) : s = <<>>
    BY EmptySeq, LenProperties DEF Short
  <2>2. g \in [Short(0) -> Seq(Text)]
    BY EmptySeq
  <2>3. ASSUME NEW s \in Short(0) PROVE g[s] = PlainOf(g, s)
    BY <2>1 DEF PlainOf
  <2>4. Solves(g, 0)
    BY <2>2, <2>3 DEF Solves
  <2> QED
    BY <2>4
<1>2. ASSUME NEW k \in Nat, k \in Solved PROVE k + 1 \in Solved
  <2>1. PICK g : Solves(g, k)
    BY <1>2
  <2> DEFINE h == [s \in Short(k + 1) |-> PlainOf(g, s)]
  <2>2. ASSUME NEW s \in Short(k) PROVE s \in Short(k + 1) /\ h[s] = g[s] /\ g[s] \in Seq(Text)
    <3>1. s \in Short(k + 1)
      BY LenProperties DEF Short
    <3> QED
      BY <2>1, <3>1 DEF Solves
  <2>3. ASSUME NEW s \in Short(k + 1) PROVE h[s] \in Seq(Text) /\ h[s] = PlainOf(h, s)
    <3>1. s \in Seq(Text) /\ Len(s) <= k + 1 /\ Len(s) \in Nat
      BY LenProperties DEF Short
    <3>2. ASSUME NEW t \in Seq(Text), Len(t) < Len(s) PROVE g[t] = h[t] /\ g[t] \in Seq(Text)
      <4>1. t \in Short(k)
        BY <3>1, <3>2, LenProperties DEF Short
      <4> QED
        BY <2>2, <4>1
    <3>3. h[s] = PlainOf(g, s)
      OBVIOUS
    <3> HIDE DEF h
    <3>4. PlainOf(g, s) = PlainOf(h, s)
      BY <3>1, <3>2, PlainOfIsLocal
    <3>5. PlainOf(g, s) \in Seq(Text)
      BY <3>1, <3>2, PlainOfType
    <3> QED
      BY <3>3, <3>4, <3>5
  <2>4. h \in [Short(k + 1) -> Seq(Text)]
    BY <2>3
  <2>5. Solves(h, k + 1)
    <3> HIDE DEF h
    <3> QED
      BY <2>3, <2>4 DEF Solves
  <2> QED
    BY <2>5
<1> HIDE DEF Solved
<1>3. Nat \subseteq Solved
  BY <1>1, <1>2, InductionOnNat
<1> QED
  BY <1>3 DEF Solved

\* What is to be shown is defined for every sequence, by the body of Plain.
LEMMA PlainIsDefined ==
    ASSUME NEW s \in Seq(Text)
    PROVE  Plain[s] = PlainOf(Plain, s) /\ Plain[s] \in Seq(Text)
<1> DEFINE Best(n) == CHOOSE g : Solves(g, n)
           f == [t \in Seq(Text) |-> Best(Len(t))[t]]
<1>1. \A n \in Nat : Solves(Best(n), n)
  BY SolutionsExist
<1> HIDE DEF Best
<1>2. ASSUME NEW t \in Seq(Text) PROVE f[t] = PlainOf(f, t) /\ f[t] \in Seq(Text)
  <2> DEFINE n == Len(t)
  <2>1. n \in Nat /\ t \in Short(n)
    BY LenProperties DEF Short
  <2>2. f[t] = PlainOf(Best(n), t) /\ f[t] \in Seq(Text)
    BY <1>1, <2>1 DEF Solves
  <2>3. ASSUME NEW u \in Seq(Text), Len(u) < n PROVE Best(n)[u] = f[u]
    <3>1. Len(u) \in Nat /\ u \in Short(n) \cap Short(Len(u))
      BY <2>1, <2>3, LenProperties DEF Short
    <3>2. Solves(Best(n), n) /\ Solves(Best(Len(u)), Len(u))
      BY <1>1, <2>1, <3>1
    <3> HIDE DEF n
    <3>3. Best(n)[u] = Best(Len(u))[u]
      BY <2>1, <3>1, <3>2, SolutionsAgree
    <3> QED
      BY <3>3
  <2> HIDE DEF f
  <2>4. PlainOf(Best(n), t) = PlainOf(f, t)
    BY <2>3, PlainOfIsLocal
  <2> QED
    BY <2>2, <2>4
<1>3. f = [t \in Seq(Text) |-> PlainOf(f, t)]
  <2>1. DOMAIN f = Seq(Text)
    OBVIOUS
  <2> QED
    BY <1>2
<1>4. Plain = CHOOSE g : g = [t \in Seq(Text) |-> PlainOf(g, t)]
  BY DEF Plain, PlainOf, Text
<1> HIDE DEF f
<1>5. Plain = [t \in Seq(Text) |-> PlainOf(Plain, t)]
  BY <1>3, <1>4
<1>6. \A t \in Seq(Text) : Plain[t] = PlainOf(Plain, t)
  BY <1>5
<1> DEFINE Untyped == {t \in Seq(Text) : Plain[t] \notin Seq(Text)}
           T == {Len(t) : t \in Untyped}
<1>7. Untyped = {}
  <2> SUFFICES ASSUME Untyped # {} PROVE FALSE
    OBVIOUS
  <2>1. T \in SUBSET Nat /\ T # {}
    BY LenProperties
  <2> HIDE DEF T
  <2>2. PICK k \in T : \A l \in T : k <= l
    BY <2>1, Least
  <2>3. PICK t \in Untyped : Len(t) = k
    BY <2>2 DEF T
  <2>4. ASSUME NEW u \in Seq(Text), Len(u) < Len(t) PROVE Plain[u] \in Seq(Text)
    <3>1. u \in Untyped => Len(u) \in T
      BY DEF T
    <3>2. Len(u) \notin T
      BY <2>1, <2>2, <2>3, <2>4
    <3> QED
      BY <3>1, <3>2
  <2>5. PlainOf(Plain, t) \in Seq(Text)
    BY <2>4, PlainOfType
  <2> QED
    BY <1>6, <2>5
<1> QED
  BY <1>6, <1>7

-----------------------------------------------------------------------------
(***************************************************************************)
(* The value of Plain for a sequence whose beginning is known, in terms of *)
(* the value for what is behind: how headers, false starts and text are    *)
(* shown.                                                                  *)
(***************************************************************************)

\* The header of kind k with e line ends.
HeaderOf(k, e) == Append(Magic, k) \o [i \in 1..e |-> "eol"]

\* Being a beginning of the magic, and beginning with it, item by item.
LEMMA PrefixOfMagic ==
    ASSUME NEW s \in Seq(Text)
    PROVE  /\ IsPrefix(s, Magic) <=> Len(s) <= 3 /\ \A i \in 1..Len(s) : s[i] = Magic[i]
           /\ IsPrefix(Magic, s) <=> Len(s) >= 3 /\ \A i \in 1..3 : s[i] = Magic[i]
<1>1. Len(s) \in Nat
  BY LenProperties
<1>2. Magic \in Seq(Text) /\ Len(Magic) = 3
  BY MagicIs
<1>3. ASSUME NEW t \in Seq(Text), NEW u \in Seq(Text), Len(t) <= Len(u)
      PROVE  SubSeq(t, 1, Len(t)) = SubSeq(u, 1, Len(t)) <=> \A i \in 1..Len(t) : t[i] = u[i]
  <2>1. Len(t) \in Nat /\ Len(u) \in Nat
    BY LenProperties
  <2>2. /\ \A i \in 1..Len(t) : t[i] \in Text
        /\ \A i \in 1..Len(t) : u[i] \in Text
    BY <1>3, <2>1, ElementOfSeq
  <2>3. SubSeq(t, 1, Len(t)) = t
    BY SubSeqFull
  <2>4. /\ SubSeq(u, 1, Len(t)) \in Seq(Text) /\ Len(SubSeq(u, 1, Len(t))) = Len(t)
        /\ \A i \in 1..Len(t) : SubSeq(u, 1, Len(t))[i] = u[i]
    <3>1. /\ SubSeq(u, 1, Len(t)) \in Seq(Text)
          /\ Len(SubSeq(u, 1, Len(t))) = IF 1 <= Len(t) THEN Len(t) - 1 + 1 ELSE 0
          /\ \A i \in 1..(Len(t) - 1 + 1) : SubSeq(u, 1, Len(t))[i] = u[1 + i - 1]
      BY <2>1, <2>2, SubSeqProperties
    <3>2. \A i \in 1..Len(t) : SubSeq(u, 1, Len(t))[i] = u[i]
      <4>1. ASSUME NEW i \in 1..Len(t) PROVE SubSeq(u, 1, Len(t))[i] = u[i]
        <5>1. i \in 1..(Len(t) - 1 + 1) /\ 1 + i - 1 = i
          BY <2>1
        <5> QED
          BY <3>1, <5>1
      <4> QED
        BY <4>1
    <3> QED
      BY <2>1, <3>1, <3>2
  <2> QED
    BY <2>3, <2>4, SeqEqual
<1>4. IsPrefix(s, Magic) <=> Len(s) <= 3 /\ \A i \in 1..Len(s) : s[i] = Magic[i]
  BY <1>2, <1>3 DEF IsPrefix
<1>5. IsPrefix(Magic, s) <=> Len(s) >= 3 /\ \A i \in 1..3 : s[i] = Magic[i]
  <2>1. IsPrefix(Magic, s) <=> 3 <= Len(s) /\ \A i \in 1..3 : Magic[i] = s[i]
    BY <1>2, <1>3 DEF IsPrefix
  <2> QED
    BY <1>1, <2>1
<1> QED
  BY <1>4, <1>5

\* What is behind a sequence in front of another.
LEMMA RestBehind ==
    ASSUME NEW a \in Seq(Text), NEW x \in Seq(Text)
    PROVE  /\ a \o x \in Seq(Text) /\ Len(a \o x) = Len(a) + Len(x)
           /\ \A i \in 1..Len(a) : (a \o x)[i] = a[i]
           /\ \A i \in 1..Len(x) : (a \o x)[Len(a) + i] = x[i]
           /\ SubSeq(a \o x, Len(a) + 1, Len(a \o x)) = x
           /\ SubSeq(a \o x, 1, Len(a)) = a
<1> DEFINE s == a \o x
<1>1. Len(a) \in Nat /\ Len(x) \in Nat
  BY LenProperties
<1>2. /\ s \in Seq(Text) /\ Len(s) = Len(a) + Len(x)
      /\ \A i \in 1..Len(a) + Len(x) : s[i] = IF i <= Len(a) THEN a[i] ELSE x[i - Len(a)]
  BY ConcatProperties
<1> HIDE DEF s
<1>3. ASSUME NEW i \in 1..Len(a) PROVE s[i] = a[i]
  BY <1>1, <1>2
<1>4. ASSUME NEW i \in 1..Len(x) PROVE s[Len(a) + i] = x[i]
  <2>1. Len(a) + i \in 1..Len(a) + Len(x) /\ ~(Len(a) + i <= Len(a)) /\ Len(a) + i - Len(a) = i
    BY <1>1
  <2> QED
    BY <1>2, <2>1
<1>5. SubSeq(s, Len(a) + 1, Len(s)) = x
  <2> DEFINE m == Len(a) + 1
             n == Len(s)
             t == SubSeq(s, m, n)
  <2>1. m \in Int /\ n \in Int /\ n - m + 1 = Len(x) /\ (m <= n <=> Len(x) > 0)
    BY <1>1, <1>2
  <2>2. \A i \in m..n : s[i] \in Text
    BY <1>1, <1>2, ElementOfSeq
  <2> HIDE DEF m, n
  <2>3. /\ t \in Seq(Text) /\ Len(t) = (IF m <= n THEN n - m + 1 ELSE 0)
        /\ \A i \in 1..n - m + 1 : t[i] = s[m + i - 1]
    BY <2>1, <2>2, SubSeqProperties
  <2>4. ASSUME NEW i \in 1..Len(x) PROVE t[i] = x[i]
    <3>1. m + i - 1 = Len(a) + i
      BY <1>1 DEF m
    <3>2. t[i] = s[m + i - 1]
      BY <2>1, <2>3
    <3> QED
      BY <1>4, <3>1, <3>2
  <2>5. Len(t) = Len(x)
    BY <1>1, <2>1, <2>3
  <2> HIDE DEF t
  <2>6. t = x
    BY <2>3, <2>4, <2>5, SeqEqual
  <2> QED
    BY <2>6 DEF t, m, n
<1>6. SubSeq(s, 1, Len(a)) = a
  <2> DEFINE t == SubSeq(s, 1, Len(a))
  <2>1. \A i \in 1..Len(a) : s[i] \in Text
    BY <1>1, <1>2, ElementOfSeq
  <2>2. /\ t \in Seq(Text) /\ Len(t) = (IF 1 <= Len(a) THEN Len(a) - 1 + 1 ELSE 0)
        /\ \A i \in 1..Len(a) - 1 + 1 : t[i] = s[1 + i - 1]
    BY <1>1, <2>1, SubSeqProperties
  <2>3. ASSUME NEW i \in 1..Len(a) PROVE t[i] = a[i]
    <3>1. i \in 1..Len(a) - 1 + 1 /\ 1 + i - 1 = i
      BY <1>1
    <3>2. t[i] = s[i]
      BY <2>2, <3>1
    <3> QED
      BY <1>3, <3>2
  <2>4. Len(t) = Len(a)
    BY <1>1, <2>2
  <2> HIDE DEF t
  <2>5. t = a
    BY <2>2, <2>3, <2>4, SeqEqual
  <2> QED
    BY <2>5 DEF t
<1> QED
  BY <1>2, <1>3, <1>4, <1>5, <1>6 DEF s

\* The recursion, for an item that is shown as it is ...
LEMMA PlainShows ==
    ASSUME NEW s \in Seq(Text), s # <<>>, s[1] # "cut", ~IsPrefix(Magic, s) \/ Len(s) = 3
    PROVE  Plain[s] = <<s[1]>> \o Plain[Tail(s)]
<1>1. Len(Magic) = 3
  BY MagicIs
<1>2. Plain[s] = PlainOf(Plain, s)
  BY PlainIsDefined
<1> QED
  BY <1>1, <1>2 DEF PlainOf

\* What is behind one item.
LEMMA TailBehind ==
    ASSUME NEW c \in Text, NEW x \in Seq(Text)
    PROVE  /\ <<c>> \o x \in Seq(Text) /\ <<c>> \o x # <<>> /\ (<<c>> \o x)[1] = c
           /\ Tail(<<c>> \o x) = x
           /\ Len(<<c>> \o x) = 1 + Len(x)
<1>1. <<c>> \in Seq(Text) /\ Len(<<c>>) = 1 /\ <<c>>[1] = c
  OBVIOUS
<1> DEFINE s == <<c>> \o x
<1>2. /\ s \in Seq(Text) /\ Len(s) = 1 + Len(x) /\ s[1] = c
      /\ SubSeq(s, 1 + 1, Len(s)) = x
  <2>1. 1 \in 1..Len(<<c>>)
    BY <1>1
  <2> QED
    BY <1>1, <2>1, RestBehind
<1>3. Len(x) \in Nat
  BY LenProperties
<1> HIDE DEF s
<1>4. s # <<>>
  BY <1>2, <1>3, EmptySeq
<1>5. Tail(s) = x
  BY <1>2, <1>4, TailIsSubSeq
<1> QED
  BY <1>2, <1>4, <1>5 DEF s

\* ... for the end of what was handed to a transfer, ...
LEMMA PlainCut ==
    ASSUME NEW x \in Seq(Text)
    PROVE  Plain[<<"cut">> \o x] = Plain[x]
<1>1. "cut" \in Text
  BY DEF Text
<1> DEFINE s == <<"cut">> \o x
<1>2. s \in Seq(Text) /\ s # <<>> /\ s[1] = "cut" /\ Tail(s) = x
  BY <1>1, TailBehind
<1> HIDE DEF s
<1>3. Plain[s] = PlainOf(Plain, s)
  BY <1>2, PlainIsDefined
<1> QED
  BY <1>2, <1>3 DEF PlainOf, s

\* ... for nothing, ...
LEMMA PlainEmpty == Plain[<<>>] = <<>>
<1>1. <<>> \in Seq(Text)
  BY EmptySeq
<1> QED
  BY <1>1, PlainIsDefined DEF PlainOf

\* ... and for an item in front of something that makes no magic with it.
LEMMA PlainItem ==
    ASSUME NEW c \in Items, NEW x \in Seq(Text), ~IsPrefix(Magic, <<c>> \o x) \/ Len(x) = 2
    PROVE  Plain[<<c>> \o x] = <<c>> \o Plain[x]
<1> DEFINE s == <<c>> \o x
<1>1. c \in Text /\ c # "cut"
  BY DEF Text, Items
<1>2. s \in Seq(Text) /\ s # <<>> /\ s[1] = c /\ Tail(s) = x /\ Len(s) = 1 + Len(x)
  BY <1>1, TailBehind
<1>3. ~IsPrefix(Magic, s) \/ Len(s) = 3
  BY <1>2
<1> HIDE DEF s
<1>4. Plain[s] = <<s[1]>> \o Plain[Tail(s)]
  BY <1>1, <1>2, <1>3, PlainShows
<1> QED
  BY <1>2, <1>4 DEF s

\* What is longer than the magic is not the magic.
LEMMA LongIsNotMagic ==
    ASSUME NEW s \in Seq(Text), Len(s) >= 4
    PROVE  Len(s) # Len(Magic) /\ Len(Magic) + 1 = 4
<1>1. Len(s) \in Nat /\ Len(Magic) = 3
  BY LenProperties, MagicIs
<1> DEFINE l == Len(s)
           k == Len(Magic)
<1>2. l \in Nat /\ l >= 4 /\ k = 3
  BY <1>1
<1> HIDE DEF l, k
<1>3. l # k /\ k + 1 = 4
  BY <1>2
<1> QED
  BY <1>3 DEF l, k

\* The recursion for what begins with the magic: a header and its e line ends
\* are left out, four other items are shown.
LEMMA PlainLong ==
    ASSUME NEW s \in Seq(Text), IsPrefix(Magic, s), Len(s) >= 4, NEW e \in 0..2,
           e >= 1 <=> 5 <= Len(s) /\ s[5] = "eol",
           e = 2 <=> e >= 1 /\ 6 <= Len(s) /\ s[6] = "eol"
    PROVE  /\ s[4] \in {"init", "other"} => Plain[s] = Plain[SubSeq(s, 4 + e + 1, Len(s))]
           /\ s[4] \notin {"init", "other"} =>
                  Plain[s] = SubSeq(s, 1, 4) \o Plain[SubSeq(s, 5, Len(s))]
<1>1. Len(s) \in Nat /\ Len(Magic) = 3
  BY LenProperties, MagicIs
<1>0. Len(s) # Len(Magic) /\ Len(Magic) + 1 = 4
  BY LongIsNotMagic
<1> DEFINE Eol(i) == i <= Len(s) /\ s[i] = "eol"
           m == IF Eol(4 + 1) THEN IF Eol(4 + 2) THEN 2 ELSE 1 ELSE 0
<1>2. m = e
  <2>1. (Eol(4 + 1) <=> e >= 1) /\ (e >= 1 => (Eol(4 + 2) <=> e = 2))
    OBVIOUS
  <2> HIDE DEF Eol
  <2> QED
    BY <2>1
<1>3. s # <<>> /\ s[1] # "cut"
  <2>1. s[1] = Magic[1]
    BY <1>1, PrefixOfMagic
  <2> QED
    BY <1>1, <2>1, MagicIs, EmptySeq
<1>4. Plain[s] = PlainOf(Plain, s)
  BY PlainIsDefined
<1>5. /\ Len(Magic) + 1 = 4 /\ 4 + m + 1 = 4 + e + 1
      /\ Len(s) # Len(Magic)
  BY <1>0, <1>2
<1>6. PlainOf(Plain, s) =
          IF s[4] \in {"init", "other"} THEN Plain[SubSeq(s, 4 + m + 1, Len(s))]
          ELSE SubSeq(s, 1, 4) \o Plain[SubSeq(s, 4 + 1, Len(s))]
  <2> DEFINE n == Len(Magic) + 1
             l == n + (IF Eol(n + 1) THEN IF Eol(n + 2) THEN 2 ELSE 1 ELSE 0)
  <2>1. PlainOf(Plain, s) =
            IF s[n] \in {"init", "other"} THEN Plain[SubSeq(s, l + 1, Len(s))]
            ELSE SubSeq(s, 1, n) \o Plain[SubSeq(s, n + 1, Len(s))]
    BY <1>3, <1>5 DEF PlainOf
  <2>2. n = 4 /\ l = 4 + m
    BY <1>5
  <2> HIDE DEF n, l, m
  <2> QED
    BY <2>1, <2>2
<1> HIDE DEF m
<1> QED
  BY <1>2, <1>4, <1>6

\* The magic and an item.
LEMMA BehindMagic ==
    ASSUME NEW c \in Items
    PROVE  LET a == Append(Magic, c) IN
           /\ a \in Seq(Items) /\ a \in Seq(Text) /\ Len(a) = 4 /\ a[4] = c
           /\ \A i \in 1..3 : a[i] = Magic[i]
           /\ a = Magic \o <<c>>
<1>1. Magic \in Seq(Items) /\ Magic \in Seq(Text) /\ Len(Magic) = 3 /\ c \in Text
  BY DEF Magic, Items, Text
<1> DEFINE a == Append(Magic, c)
<1>2. /\ a \in Seq(Text) /\ Len(a) = Len(Magic) + 1
      /\ \A i \in 1..Len(Magic) : a[i] = Magic[i]
      /\ a[Len(Magic) + 1] = c
  <2>1. \A t \in Seq(Text) : Append(t, c) \in Seq(Text) /\ Len(Append(t, c)) = Len(t) + 1
    BY <1>1, AppendProperties
  <2>2. \A t \in Seq(Text) : \A i \in 1..Len(t) : Append(t, c)[i] = t[i]
    BY <1>1, AppendProperties
  <2>3. \A t \in Seq(Text) : Append(t, c)[Len(t) + 1] = c
    BY <1>1, AppendProperties
  <2> QED
    BY <1>1, <2>1, <2>2, <2>3
<1>3. a \in Seq(Items)
  BY <1>1, AppendProperties
<1>4. a = Magic \o <<c>>
  BY <1>1, AppendIsConcat
<1> HIDE DEF a
<1>5. Len(a) = 4 /\ a[4] = c /\ \A i \in 1..3 : a[i] = Magic[i]
  <2>1. Len(Magic) + 1 = 4
    BY <1>1
  <2> QED
    BY <1>1, <1>2, <2>1
<1> QED
  BY <1>2, <1>3, <1>4, <1>5 DEF a

\* A false start is shown with the item that shows it.
LEMMA PlainNoHeader ==
    ASSUME NEW c \in Items \ {"init", "other"}, NEW x \in Seq(Text)
    PROVE  Plain[Append(Magic, c) \o x] = Append(Magic, c) \o Plain[x]
<1> DEFINE a == Append(Magic, c)
           s == a \o x
<1>1. a \in Seq(Text) /\ Len(a) = 4 /\ a[4] = c /\ \A i \in 1..3 : a[i] = Magic[i]
  BY BehindMagic
<1> HIDE DEF a
<1>2. /\ s \in Seq(Text) /\ Len(s) = 4 + Len(x) /\ \A i \in 1..4 : s[i] = a[i]
      /\ SubSeq(s, 5, Len(s)) = x /\ SubSeq(s, 1, 4) = a
  <2>1. /\ s \in Seq(Text) /\ Len(s) = Len(a) + Len(x) /\ \A i \in 1..Len(a) : s[i] = a[i]
        /\ SubSeq(s, Len(a) + 1, Len(s)) = x /\ SubSeq(s, 1, Len(a)) = a
    BY <1>1, RestBehind
  <2> HIDE DEF s
  <2>2. Len(a) + 1 = 5
    BY <1>1
  <2> QED
    BY <1>1, <2>1, <2>2
<1>3. Len(x) \in Nat
  BY LenProperties
<1> HIDE DEF s
<1>4. IsPrefix(Magic, s) /\ s[4] = c /\ Len(s) >= 4
  <2>1. 4 \in 1..4 /\ \A i \in 1..3 : i \in 1..4
    OBVIOUS
  <2>2. s[4] = c /\ \A i \in 1..3 : s[i] = Magic[i]
    BY <1>1, <1>2, <2>1
  <2>3. Len(s) >= 4 /\ Len(s) >= 3
    BY <1>2, <1>3
  <2>4. IsPrefix(Magic, s)
    BY <1>2, <2>2, <2>3, PrefixOfMagic
  <2> QED
    BY <2>2, <2>3, <2>4
<1>5. PICK e \in 0..2 : (e >= 1 <=> 5 <= Len(s) /\ s[5] = "eol")
                        /\ (e = 2 <=> e >= 1 /\ 6 <= Len(s) /\ s[6] = "eol")
  <2>1. CASE ~(5 <= Len(s) /\ s[5] = "eol")
    BY <2>1
  <2>2. CASE 5 <= Len(s) /\ s[5] = "eol" /\ ~(6 <= Len(s) /\ s[6] = "eol")
    BY <2>2
  <2>3. CASE 5 <= Len(s) /\ s[5] = "eol" /\ 6 <= Len(s) /\ s[6] = "eol"
    BY <2>3
  <2> QED
    BY <2>1, <2>2, <2>3
<1>6. Plain[s] = SubSeq(s, 1, 4) \o Plain[SubSeq(s, 5, Len(s))]
  BY <1>2, <1>4, <1>5, PlainLong
<1> QED
  BY <1>2, <1>6 DEF a, s

\* A header, item by item.
LEMMA HeaderIs ==
    ASSUME NEW k \in {"init", "other"}, NEW e \in 0..2
    PROVE  LET h == HeaderOf(k, e) IN
           /\ h \in Seq(Text) /\ Len(h) = 4 + e /\ h[4] = k
           /\ \A i \in 1..3 : h[i] = Magic[i]
           /\ \A i \in 1..e : h[4 + i] = "eol"
<1> DEFINE a == Append(Magic, k)
           b == [i \in 1..e |-> "eol"]
<1>1. k \in Items
  BY DEF Items
<1>2. a \in Seq(Text) /\ Len(a) = 4 /\ a[4] = k /\ \A i \in 1..3 : a[i] = Magic[i]
  BY <1>1, BehindMagic
<1>3. b \in Seq(Text) /\ Len(b) = e /\ \A i \in 1..e : b[i] = "eol"
  BY DEF Text, Items
<1> HIDE DEF a, b
<1>4. /\ a \o b \in Seq(Text) /\ Len(a \o b) = 4 + e
      /\ \A i \in 1..4 : (a \o b)[i] = a[i]
      /\ \A i \in 1..e : (a \o b)[4 + i] = b[i]
  <2> DEFINE h == a \o b
  <2>1. /\ h \in Seq(Text) /\ Len(h) = Len(a) + Len(b) /\ \A i \in 1..Len(a) : h[i] = a[i]
        /\ \A i \in 1..Len(b) : h[Len(a) + i] = b[i]
    BY <1>2, <1>3, RestBehind
  <2> HIDE DEF h
  <2>2. /\ h \in Seq(Text) /\ Len(h) = 4 + e /\ \A i \in 1..4 : h[i] = a[i]
        /\ \A i \in 1..e : h[4 + i] = b[i]
    BY <1>2, <1>3, <2>1
  <2> QED
    BY <2>2 DEF h
<1> QED
  BY <1>2, <1>3, <1>4 DEF HeaderOf, a, b

\* A header is not shown, unless another line end may belong to it.
LEMMA PlainHeader ==
    ASSUME NEW k \in {"init", "other"}, NEW e \in 0..2, NEW x \in Seq(Text),
           e = 2 \/ x = <<>> \/ x[1] # "eol"
    PROVE  Plain[HeaderOf(k, e) \o x] = Plain[x]
<1> DEFINE h == HeaderOf(k, e)
           s == h \o x
<1>1. /\ h \in Seq(Text) /\ Len(h) = 4 + e /\ h[4] = k /\ \A i \in 1..3 : h[i] = Magic[i]
      /\ \A i \in 1..e : h[4 + i] = "eol"
  BY HeaderIs
<1> HIDE DEF h
<1>2. /\ s \in Seq(Text) /\ Len(s) = 4 + e + Len(x) /\ \A i \in 1..4 + e : s[i] = h[i]
      /\ \A i \in 1..Len(x) : s[4 + e + i] = x[i]
      /\ SubSeq(s, 4 + e + 1, Len(s)) = x
  <2>1. /\ s \in Seq(Text) /\ Len(s) = Len(h) + Len(x) /\ \A i \in 1..Len(h) : s[i] = h[i]
        /\ \A i \in 1..Len(x) : s[Len(h) + i] = x[i]
        /\ SubSeq(s, Len(h) + 1, Len(s)) = x
    BY <1>1, RestBehind
  <2> HIDE DEF s
  <2> QED
    BY <1>1, <2>1
<1>3. Len(x) \in Nat /\ (Len(x) = 0 <=> x = <<>>)
  BY LenProperties, EmptySeq
<1> HIDE DEF s
<1>4. IsPrefix(Magic, s) /\ s[4] = k /\ Len(s) >= 4
  <2>1. 4 \in 1..4 + e /\ \A i \in 1..3 : i \in 1..4 + e
    OBVIOUS
  <2>2. s[4] = k /\ \A i \in 1..3 : s[i] = Magic[i]
    BY <1>1, <1>2, <2>1
  <2>3. Len(s) >= 4 /\ Len(s) >= 3
    BY <1>2, <1>3
  <2>4. IsPrefix(Magic, s)
    BY <1>2, <2>2, <2>3, PrefixOfMagic
  <2> QED
    BY <2>2, <2>3, <2>4
<1>5. e >= 1 <=> 5 <= Len(s) /\ s[5] = "eol"
  <2>1. CASE e = 0
    <3>1. 5 <= Len(s) => 1 \in 1..Len(x) /\ 4 + e + 1 = 5
      BY <1>2, <1>3, <2>1
    <3>2. 5 <= Len(s) => s[5] = x[1]
      BY <1>2, <3>1
    <3> QED
      BY <1>2, <1>3, <2>1, <3>1, <3>2
  <2>2. CASE e >= 1
    <3>1. 5 \in 1..4 + e /\ 1 \in 1..e /\ 5 = 4 + 1
      BY <2>2
    <3>2. s[5] = h[4 + 1]
      BY <1>2, <3>1
    <3>3. s[5] = "eol"
      BY <1>1, <3>1, <3>2
    <3> QED
      BY <1>2, <1>3, <2>2, <3>3
  <2> QED
    BY <2>1, <2>2
<1>6. e = 2 <=> e >= 1 /\ 6 <= Len(s) /\ s[6] = "eol"
  <2>1. CASE e = 0
    BY <2>1
  <2>2. CASE e = 1
    <3>1. 6 <= Len(s) => 1 \in 1..Len(x) /\ 4 + e + 1 = 6
      BY <1>2, <1>3, <2>2
    <3>2. 6 <= Len(s) => s[6] = x[1]
      BY <1>2, <3>1
    <3> QED
      BY <1>2, <1>3, <2>2, <3>1, <3>2
  <2>3. CASE e = 2
    <3>1. 6 \in 1..4 + e /\ 2 \in 1..e /\ 6 = 4 + 2
      BY <2>3
    <3>2. s[6] = h[4 + 2]
      BY <1>2, <3>1
    <3>3. s[6] = "eol"
      BY <1>1, <3>1, <3>2
    <3> QED
      BY <1>2, <1>3, <2>3, <3>3
  <2> QED
    BY <2>1, <2>2, <2>3
<1>7. Plain[s] = Plain[SubSeq(s, 4 + e + 1, Len(s))]
  BY <1>2, <1>4, <1>5, <1>6, PlainLong
<1> QED
  BY <1>2, <1>7 DEF h, s

\* A beginning of the magic at the end is shown as it is.
Beginnings == {<<>>, <<"*">>, <<"*", "*">>}

\* Less than three items hold no magic.
LEMMA ShortHasNoHeader ==
    ASSUME NEW s \in Seq(Text), Len(s) < 3
    PROVE  ~IsPrefix(Magic, s)
<1>1. Len(s) \in Nat
  BY LenProperties
<1> QED
  BY <1>1, PrefixOfMagic

\* An item in front of a sequence, item by item.
LEMMA OneBefore ==
    ASSUME NEW c \in Text, NEW x \in Seq(Text), NEW q \in Seq(Text), Len(q) = 1 + Len(x),
           q[1] = c, \A i \in 1..Len(x) : q[i + 1] = x[i]
    PROVE  <<c>> \o x = q
<1> DEFINE s == <<c>> \o x
<1>1. <<c>> \in Seq(Text) /\ Len(<<c>>) = 1
  OBVIOUS
<1>2. s \in Seq(Text) /\ s[1] = c /\ Len(s) = 1 + Len(x) /\ Len(x) \in Nat
  BY TailBehind, LenProperties
<1>3. \A i \in 1..Len(x) : s[Len(<<c>>) + i] = x[i]
  BY <1>1, RestBehind
<1> HIDE DEF s
<1>4. ASSUME NEW i \in 1..Len(s) PROVE s[i] = q[i]
  <2>1. CASE i = 1
    BY <1>2, <2>1
  <2>2. CASE i # 1
    <3>1. i - 1 \in 1..Len(x) /\ i - 1 + 1 = i /\ 1 + (i - 1) = i
      BY <1>2, <2>2
    <3>2. s[1 + (i - 1)] = x[i - 1]
      BY <1>1, <1>3, <3>1
    <3> QED
      BY <3>1, <3>2
  <2> QED
    BY <2>1, <2>2
<1>5. s = q
  BY <1>2, <1>4, SeqEqual
<1> QED
  BY <1>5 DEF s

\* What is held back is shown as it is when nothing follows.
LEMMA PlainShort ==
    ASSUME NEW p \in Beginnings \cup {Magic}
    PROVE  Plain[p] = p
<1>1. "*" \in Items /\ "B" \in Items
  BY DEF Items
<1>0. \A s \in Seq(Text) : Len(s) < 3 => ~IsPrefix(Magic, s)
  BY ShortHasNoHeader
<1>2. ASSUME NEW c \in Items PROVE Plain[<<c>>] = <<c>>
  <2>1. <<c>> \in Seq(Text) /\ Len(<<c>>) = 1 /\ <<>> \in Seq(Text) /\ <<c>> \o <<>> = <<c>>
    BY DEF Text
  <2>2. ~IsPrefix(Magic, <<c>>)
    <3> DEFINE s == <<c>>
    <3>1. s \in Seq(Text) /\ Len(s) < 3
      BY <2>1
    <3> HIDE DEF s
    <3>2. ~IsPrefix(Magic, s)
      BY <1>0, <3>1
    <3> QED
      BY <3>2 DEF s
  <2> QED
    BY <2>1, <2>2, PlainEmpty, PlainItem
<1>3. ASSUME NEW c \in Items, NEW d \in Items PROVE Plain[<<c, d>>] = <<c, d>>
  <2>1. <<d>> \in Seq(Text) /\ <<c, d>> \in Seq(Text) /\ Len(<<c, d>>) = 2
    BY DEF Text
  <2>2. <<c>> \o <<d>> = <<c, d>>
    <3>1. c \in Text /\ <<c, d>>[1] = c /\ <<c, d>>[2] = d /\ Len(<<d>>) = 1 /\ <<d>>[1] = d
      BY DEF Text
    <3> DEFINE x == <<d>>
               q == <<c, d>>
    <3>2. /\ x \in Seq(Text) /\ q \in Seq(Text) /\ Len(q) = 1 + Len(x) /\ q[1] = c
          /\ Len(x) = 1 /\ q[1 + 1] = x[1]
      BY <2>1, <3>1
    <3> HIDE DEF x, q
    <3>3. \A i \in 1..Len(x) : q[i + 1] = x[i]
      BY <3>2
    <3>4. <<c>> \o x = q
      BY <3>1, <3>2, <3>3, OneBefore
    <3> QED
      BY <3>4 DEF x, q
  <2>3. ~IsPrefix(Magic, <<c, d>>)
    <3> DEFINE s == <<c, d>>
    <3>1. s \in Seq(Text) /\ Len(s) < 3
      BY <2>1
    <3> HIDE DEF s
    <3>2. ~IsPrefix(Magic, s)
      BY <1>0, <3>1
    <3> QED
      BY <3>2 DEF s
  <2> QED
    BY <1>2, <2>1, <2>2, <2>3, PlainItem
<1>4. Plain[Magic] = Magic
  <2>1. <<"*", "B">> \in Seq(Text) /\ Len(<<"*", "B">>) = 2
    BY <1>1 DEF Text
  <2>2. <<"*">> \o <<"*", "B">> = Magic
    <3> DEFINE x == <<"*", "B">>
    <3>1. "*" \in Text /\ x[1] = "*" /\ x[2] = "B"
      BY DEF Text, Items
    <3> HIDE DEF x
    <3>2. \A i \in 1..2 : Magic[i + 1] = x[i]
      <4>1. ASSUME NEW i \in 1..2 PROVE i = 1 \/ i = 2
        OBVIOUS
      <4>2. Magic[1 + 1] = x[1] /\ Magic[2 + 1] = x[2]
        BY <3>1, MagicIs
      <4> QED
        BY <4>1, <4>2
    <3>3. x \in Seq(Text) /\ Len(x) = 2
      BY <2>1 DEF x
    <3>5. Len(Magic) = 1 + Len(x) /\ \A i \in 1..Len(x) : Magic[i + 1] = x[i]
      BY <3>2, <3>3, MagicIs
    <3>4. <<"*">> \o x = Magic
      BY <3>1, <3>3, <3>5, MagicIs, OneBefore
    <3> QED
      BY <3>4 DEF x
  <2> QED
    BY <1>1, <1>3, <2>1, <2>2, PlainItem
<1> QED
  BY <1>1, <1>2, <1>3, <1>4, PlainEmpty DEF Beginnings

-----------------------------------------------------------------------------
(***************************************************************************)
(* The beginning of the magic that Keep holds back, and what it lets go:   *)
(* what is let go is shown whatever comes behind.                          *)
(***************************************************************************)

\* When the end of p from k on is a beginning of the magic.
LEMMA EndIsBeginning ==
    ASSUME NEW p \in Seq(Text), Len(p) \in 1..3, NEW k \in 1..Len(p) + 1
    PROVE  /\ SubSeq(p, k, Len(p)) \in Seq(Text)
           /\ IsPrefix(SubSeq(p, k, Len(p)), Magic) <=>
                  \A i \in 1..Len(p) + 1 - k : p[k + i - 1] = Magic[i]
<1> DEFINE l == Len(p)
           u == SubSeq(p, k, l)
<1>1. l \in 1..3 /\ k \in 1..l + 1 /\ l - k + 1 = l + 1 - k
  OBVIOUS
<1>2. \A i \in k..l : p[i] \in Text
  <2>1. \A i \in k..Len(p) : i \in 1..Len(p)
    OBVIOUS
  <2> QED
    BY <2>1, ElementOfSeq
<1> HIDE DEF l
<1>3. /\ u \in Seq(Text) /\ Len(u) = (IF k <= l THEN l - k + 1 ELSE 0)
      /\ \A i \in 1..l - k + 1 : u[i] = p[k + i - 1]
  BY <1>1, <1>2, SubSeqProperties
<1> HIDE DEF u
<1>4. Len(u) = l + 1 - k /\ Len(u) <= 3
  BY <1>1, <1>3
<1>5. IsPrefix(u, Magic) <=> \A i \in 1..Len(u) : u[i] = Magic[i]
  BY <1>3, <1>4, PrefixOfMagic
<1>6. \A i \in 1..l + 1 - k : u[i] = p[k + i - 1]
  BY <1>1, <1>3
<1>7. IsPrefix(u, Magic) <=> \A i \in 1..l + 1 - k : p[k + i - 1] = Magic[i]
  BY <1>4, <1>5, <1>6
<1> QED
  BY <1>3, <1>7 DEF u, l

\* Keep is the end from the first such place.
LEMMA KeepIs ==
    ASSUME NEW p \in Seq(Text), NEW k \in 1..Len(p) + 1,
           IsPrefix(SubSeq(p, k, Len(p)), Magic),
           \A j \in 1..(k - 1) : ~IsPrefix(SubSeq(p, j, Len(p)), Magic)
    PROVE  Keep(p) = SubSeq(p, k, Len(p))
<1> DEFINE Fits(m) == /\ IsPrefix(SubSeq(p, m, Len(p)), Magic)
                      /\ \A j \in 1..(m - 1) : ~IsPrefix(SubSeq(p, j, Len(p)), Magic)
           c == CHOOSE m \in 1..(Len(p) + 1) : Fits(m)
<1>1. Fits(k)
  OBVIOUS
<1>2. c \in 1..(Len(p) + 1) /\ Fits(c)
  BY <1>1
<1> HIDE DEF c
<1>3. c = k
  <2>0. Len(p) \in Nat
    BY LenProperties
  <2>1. c < k => c \in 1..k - 1
    BY <1>2, <2>0
  <2>2. k < c => k \in 1..c - 1
    BY <1>2, <2>0
  <2>3. c \in Nat /\ k \in Nat
    BY <1>2, <2>0
  <2>4. ~(c < k) /\ ~(k < c)
    BY <1>1, <1>2, <2>1, <2>2
  <2> QED
    BY <2>3, <2>4
<1>4. Keep(p) = SubSeq(p, c, Len(p))
  BY DEF Keep, c
<1> QED
  BY <1>3, <1>4

\* A beginning of the magic consists of stars, ...
LEMMA BeginningIs ==
    ASSUME NEW q \in Beginnings
    PROVE  q \in Seq(Items) /\ q \in Seq(Text) /\ Len(q) \in 0..2 /\ \A i \in 1..Len(q) : q[i] = "*"
<1>1. "*" \in Items /\ "*" \in Text
  BY DEF Items, Text
<1>2. CASE q = <<>>
  BY <1>2
<1>3. CASE q = <<"*">>
  BY <1>1, <1>3
<1>4. CASE q = <<"*", "*">>
  <2>1. q \in Seq(Items) /\ q \in Seq(Text) /\ Len(q) = 2 /\ q[1] = "*" /\ q[2] = "*"
    BY <1>1, <1>4
  <2>2. \A i \in 1..2 : i = 1 \/ i = 2
    OBVIOUS
  <2> QED
    BY <2>1, <2>2
<1> QED
  BY <1>2, <1>3, <1>4 DEF Beginnings

\* ... and stars, at most two, are a beginning.
LEMMA StarsAreBeginning ==
    ASSUME NEW p \in Seq(Text), Len(p) \in 0..2, \A i \in 1..Len(p) : p[i] = "*"
    PROVE  p = (IF Len(p) = 0 THEN <<>> ELSE IF Len(p) = 1 THEN <<"*">> ELSE <<"*", "*">>)
<1>1. "*" \in Text
  BY DEF Items, Text
<1> DEFINE q == IF Len(p) = 0 THEN <<>> ELSE IF Len(p) = 1 THEN <<"*">> ELSE <<"*", "*">>
<1>2. q \in Beginnings
  BY DEF Beginnings
<1>3. Len(q) = Len(p)
  <2>1. Len(p) = 0 \/ Len(p) = 1 \/ Len(p) = 2
    OBVIOUS
  <2>2. CASE Len(p) = 0
    BY <2>2
  <2>3. CASE Len(p) = 1
    BY <2>3
  <2>4. CASE Len(p) = 2
    BY <2>4
  <2> QED
    BY <2>1, <2>2, <2>3, <2>4
<1> HIDE DEF q
<1>4. q \in Seq(Text) /\ \A i \in 1..Len(q) : q[i] = "*"
  BY <1>2, BeginningIs
<1>5. p = q
  BY <1>3, <1>4, SeqEqual
<1> QED
  BY <1>5 DEF q

\* An item behind a beginning of the magic makes a longer one (or all of it), or
\* is a third star, or is none of these, and then nothing is kept.
LEMMA KeepCases ==
    ASSUME NEW q \in Beginnings, NEW c \in Items
    PROVE  LET p == Append(q, c)
           IN  /\ p \in Seq(Text)
               /\ \/ Keep(p) = p /\ p \in Beginnings \cup {Magic}
                  \/ q = <<"*", "*">> /\ c = "*" /\ Keep(p) = <<"*", "*">>
                  \/ Keep(p) = <<>> /\ c # "*" /\ ~(c = "B" /\ Len(q) = 2)
<1> DEFINE p == Append(q, c)
           n == Len(q) + 1
<1>1. q \in Seq(Text) /\ Len(q) \in 0..2 /\ c \in Text /\ \A i \in 1..Len(q) : q[i] = "*"
  BY BeginningIs DEF Text
<1>2. /\ p \in Seq(Text) /\ Len(p) = n /\ \A i \in 1..Len(q) : p[i] = q[i]
      /\ p[n] = c
  BY <1>1, AppendProperties
<1>3. n \in 1..3 /\ Len(q) = n - 1 /\ \A i \in 1..n - 1 : p[i] = "*"
  BY <1>1, <1>2
<1> HIDE DEF p, n
<1>4. Magic[1] = "*" /\ Magic[2] = "*" /\ Magic[3] = "B" /\ Len(Magic) = 3 /\ Magic \in Seq(Text)
  BY MagicIs
<1>5. ASSUME NEW k \in 1..n + 1
      PROVE  IsPrefix(SubSeq(p, k, n), Magic) <=> \A i \in 1..n + 1 - k : p[k + i - 1] = Magic[i]
  <2>1. Len(p) \in 1..3 /\ k \in 1..Len(p) + 1
    BY <1>2, <1>3
  <2> QED
    BY <1>2, <2>1, EndIsBeginning
<1>6. ASSUME NEW k \in 1..n + 1, IsPrefix(SubSeq(p, k, n), Magic),
             \A j \in 1..(k - 1) : ~IsPrefix(SubSeq(p, j, n), Magic)
      PROVE  Keep(p) = SubSeq(p, k, n)
  BY <1>2, <1>6, KeepIs
<1>7. CASE (c = "*" /\ n <= 2) \/ (c = "B" /\ n = 3)
  <2>1. \A i \in 1..n : p[i] = Magic[i]
    <3>1. ASSUME NEW i \in 1..n PROVE p[i] = Magic[i]
      <4>1. CASE i = n
        <5>1. n = 1 \/ n = 2 \/ n = 3
          BY <1>3
        <5> QED
          BY <1>2, <1>4, <1>7, <4>1, <5>1
      <4>2. CASE i # n
        <5>1. i \in 1..n - 1 /\ (i = 1 \/ i = 2)
          BY <1>3, <4>2
        <5> QED
          BY <1>3, <1>4, <5>1
      <4> QED
        BY <4>1, <4>2
    <3> QED
      BY <3>1
  <2>2. 1 \in 1..n + 1 /\ n + 1 - 1 = n /\ \A i \in 1..n : 1 + i - 1 = i
    BY <1>3
  <2>3. IsPrefix(SubSeq(p, 1, n), Magic)
    BY <1>5, <2>1, <2>2
  <2>4. \A j \in 1..(1 - 1) : ~IsPrefix(SubSeq(p, j, n), Magic)
    OBVIOUS
  <2>5. Keep(p) = SubSeq(p, 1, n)
    BY <1>6, <2>2, <2>3, <2>4
  <2>6. SubSeq(p, 1, n) = p
    BY <1>2, SubSeqFull
  <2>7. CASE n = 3
    <3>1. p = Magic
      BY <1>2, <1>4, <2>1, <2>7, SeqEqual
    <3> QED
      BY <1>2, <2>5, <2>6, <3>1 DEF p
  <2>8. CASE n # 3
    <3>1. c = "*" /\ n <= 2
      BY <1>7, <2>8
    <3>2. \A i \in 1..Len(p) : p[i] = "*"
      <4>1. ASSUME NEW i \in 1..n PROVE p[i] = "*"
        <5>1. i = n \/ i \in 1..n - 1
          BY <1>3
        <5> QED
          BY <1>2, <1>3, <3>1, <5>1
      <4> QED
        BY <1>2, <4>1
    <3>3. Len(p) \in 0..2
      BY <1>2, <1>3, <3>1
    <3>4. p \in Beginnings
      BY <1>2, <3>2, <3>3, StarsAreBeginning DEF Beginnings
    <3> QED
      BY <1>2, <2>5, <2>6, <3>4 DEF p
  <2> QED
    BY <2>7, <2>8
<1>8. CASE c = "*" /\ n = 3
  <2>1. ~IsPrefix(SubSeq(p, 1, n), Magic)
    <3>1. 1 \in 1..n + 1 /\ 3 \in 1..n + 1 - 1 /\ 1 + 3 - 1 = 3
      BY <1>8
    <3>2. p[3] = "*" /\ Magic[3] # "*"
      BY <1>2, <1>4, <1>8
    <3> QED
      BY <1>5, <3>1, <3>2
  <2>2. IsPrefix(SubSeq(p, 2, n), Magic)
    <3>1. 2 \in 1..n + 1
      BY <1>8
    <3>2. ASSUME NEW i \in 1..n + 1 - 2 PROVE p[2 + i - 1] = Magic[i]
      <4>1. CASE i = 1
        <5>1. 2 + i - 1 = 2 /\ 2 \in 1..n - 1
          BY <1>8, <4>1
        <5> QED
          BY <1>3, <1>4, <4>1, <5>1
      <4>2. CASE i = 2
        <5>1. 2 + i - 1 = n
          BY <1>8, <4>2
        <5> QED
          BY <1>2, <1>4, <1>8, <4>2, <5>1
      <4>3. i = 1 \/ i = 2
        BY <1>8
      <4> QED
        BY <4>1, <4>2, <4>3
    <3> QED
      BY <1>5, <3>1, <3>2
  <2>3. \A j \in 1..(2 - 1) : j = 1
    OBVIOUS
  <2>4. Keep(p) = SubSeq(p, 2, n)
    <3>1. 2 \in 1..n + 1
      BY <1>8
    <3> QED
      BY <1>6, <2>1, <2>2, <2>3, <3>1
  <2> DEFINE u == SubSeq(p, 2, n)
  <2>5. u \in Seq(Text) /\ Len(u) = 2 /\ \A i \in 1..2 : u[i] = "*"
    <3>1. \A i \in 2..n : p[i] \in Text
      <4>1. \A i \in 2..n : i \in 1..Len(p)
        BY <1>2, <1>3
      <4> QED
        BY <1>2, <4>1, ElementOfSeq
    <3>2. 2 \in Int /\ n \in Int
      BY <1>3
    <3>3. /\ u \in Seq(Text) /\ Len(u) = (IF 2 <= n THEN n - 2 + 1 ELSE 0)
          /\ \A i \in 1..n - 2 + 1 : u[i] = p[2 + i - 1]
      BY <3>1, <3>2, SubSeqProperties
    <3> HIDE DEF u
    <3>4. ASSUME NEW i \in 1..2 PROVE u[i] = "*"
      <4>1. i \in 1..n - 2 + 1 /\ (2 + i - 1 = 2 \/ 2 + i - 1 = 3) /\ 2 \in 1..n - 1
        BY <1>8
      <4>2. p[2] = "*" /\ p[3] = "*"
        BY <1>2, <1>3, <1>8, <4>1
      <4> QED
        BY <3>3, <4>1, <4>2
    <3>5. Len(u) = 2
      BY <1>8, <3>3
    <3> QED
      BY <3>3, <3>4, <3>5
  <2> HIDE DEF u
  <2>6. u = <<"*", "*">>
    BY <2>5, StarsAreBeginning
  <2>7. q = <<"*", "*">>
    <3>1. Len(q) = 2
      BY <1>3, <1>8
    <3> QED
      BY <1>1, <3>1, StarsAreBeginning
  <2> QED
    BY <1>2, <1>8, <2>4, <2>6, <2>7 DEF p, u
<1>9. CASE c # "*" /\ ~(c = "B" /\ n = 3)
  <2>1. n + 1 \in 1..n + 1 /\ n + 1 - (n + 1) = 0
    BY <1>3
  <2>2. IsPrefix(SubSeq(p, n + 1, n), Magic)
    BY <1>5, <2>1
  <2>3. ASSUME NEW j \in 1..n PROVE ~IsPrefix(SubSeq(p, j, n), Magic)
    <3>1. j \in 1..n + 1 /\ n + 1 - j \in 1..n + 1 - j /\ j + (n + 1 - j) - 1 = n
      BY <1>3
    <3>2. n + 1 - j = 1 \/ n + 1 - j = 2 \/ (n + 1 - j = 3 /\ n = 3)
      BY <1>3
    <3>3. Magic[n + 1 - j] # c
      BY <1>4, <1>9, <3>2
    <3>4. p[j + (n + 1 - j) - 1] = c
      BY <1>2, <3>1
    <3> QED
      BY <1>5, <3>1, <3>3, <3>4
  <2>4. Keep(p) = SubSeq(p, n + 1, n)
    <3> DEFINE k == n + 1
    <3>1. k \in 1..n + 1 /\ IsPrefix(SubSeq(p, k, n), Magic) /\ k - 1 = n
      BY <1>3, <2>1, <2>2
    <3> HIDE DEF k
    <3>2. \A j \in 1..(k - 1) : ~IsPrefix(SubSeq(p, j, n), Magic)
      BY <2>3, <3>1
    <3>3. Keep(p) = SubSeq(p, k, n)
      BY <1>6, <3>1, <3>2
    <3> QED
      BY <3>3 DEF k
  <2>5. SubSeq(p, n + 1, n) = <<>>
    <3>1. n \in Int /\ n + 1 \in Int /\ n < n + 1
      BY <1>3
    <3> QED
      BY <3>1, SubSeqEmpty
  <2>6. ~(c = "B" /\ Len(q) = 2)
    <3>1. Len(q) = 2 => n = 3
      BY <1>3
    <3> QED
      BY <1>9, <3>1
  <2> QED
    BY <1>2, <1>9, <2>4, <2>5, <2>6 DEF p
<1>10. n <= 2 \/ n = 3
  BY <1>3
<1> QED
  BY <1>7, <1>8, <1>9, <1>10

\* In the last case all is shown.
LEMMA PlainEnd ==
    ASSUME NEW q \in Beginnings, NEW c \in Items, c # "*", ~(c = "B" /\ Len(q) = 2),
           NEW x \in Seq(Text)
    PROVE  Plain[Append(q, c) \o x] = Append(q, c) \o Plain[x]
<1> DEFINE v == <<c>> \o x
           star == <<"*">>
           w == star \o v
           z == star \o w
           P == Plain[x]
<1>1. "*" \in Items /\ "*" \in Text /\ c \in Text
  BY DEF Items, Text
<1>2. star \in Seq(Text) /\ <<c>> \in Seq(Text) /\ P \in Seq(Text)
  BY <1>1, PlainIsDefined
<1>3. Magic[1] = "*" /\ Magic[2] = "*" /\ Magic[3] = "B"
  BY MagicIs
<1>4. v \in Seq(Text) /\ v[1] = c /\ Len(v) = 1 + Len(x) /\ Len(x) \in Nat
  BY <1>1, TailBehind, LenProperties
<1>5. Len(star) = 1
  OBVIOUS
<1> HIDE DEF v
<1>6. /\ w \in Seq(Text) /\ Len(w) = 1 + Len(v) /\ w[2] = c /\ w[1] = "*"
  <2>1. w \in Seq(Text) /\ Len(w) = 1 + Len(v) /\ w[1] = "*"
        /\ \A i \in 1..Len(v) : w[Len(star) + i] = v[i]
    BY <1>1, <1>2, <1>4, TailBehind, RestBehind
  <2>2. 1 \in 1..Len(v) /\ Len(star) + 1 = 2
    BY <1>4, <1>5
  <2>3. w[2] = v[1]
    BY <2>1, <2>2
  <2> QED
    BY <1>4, <2>1, <2>3
<1> HIDE DEF w
<1>7. /\ z \in Seq(Text) /\ z[3] = c
  <2>1. z \in Seq(Text) /\ \A i \in 1..Len(w) : z[Len(star) + i] = w[i]
    BY <1>1, <1>2, <1>6, RestBehind
  <2>2. 2 \in 1..Len(w) /\ Len(star) + 2 = 3
    BY <1>4, <1>5, <1>6
  <2>3. z[3] = w[2]
    BY <2>1, <2>2
  <2> QED
    BY <1>6, <2>1, <2>3
<1> HIDE DEF z
<1>8. Plain[v] = <<c>> \o P
  <2>1. ~IsPrefix(Magic, v)
    <3>1. 1 \in 1..3 /\ v[1] # Magic[1]
      BY <1>3, <1>4
    <3> QED
      BY <1>4, <3>1, PrefixOfMagic
  <2> QED
    BY <2>1, PlainItem DEF v
<1>9. Plain[w] = star \o (<<c>> \o P)
  <2>1. ~IsPrefix(Magic, w)
    <3>1. 2 \in 1..3 /\ w[2] # Magic[2]
      BY <1>3, <1>6
    <3> QED
      BY <1>6, <3>1, PrefixOfMagic
  <2>2. Plain[w] = star \o Plain[v]
    BY <1>1, <1>4, <2>1, PlainItem DEF w
  <2> QED
    BY <1>8, <2>2
<1>10. c # "B" => Plain[z] = star \o (star \o (<<c>> \o P))
  <2> SUFFICES ASSUME c # "B" PROVE Plain[z] = star \o (star \o (<<c>> \o P))
    OBVIOUS
  <2>1. ~IsPrefix(Magic, z)
    <3>1. 3 \in 1..3 /\ z[3] # Magic[3]
      BY <1>3, <1>7
    <3> QED
      BY <1>7, <3>1, PrefixOfMagic
  <2>2. Plain[z] = star \o Plain[w]
    BY <1>1, <1>6, <2>1, PlainItem DEF z
  <2> QED
    BY <1>9, <2>2
<1>11. ASSUME NEW y \in Seq(Text)
       PROVE  /\ <<>> \o y = y
              /\ Append(q, c) = q \o <<c>>
              /\ (q \o <<c>>) \o y = q \o (<<c>> \o y)
              /\ (star \o star) \o (<<c>> \o y) = star \o (star \o (<<c>> \o y))
  <2>1. q \in Seq(Text) /\ <<c>> \o y \in Seq(Text)
    BY <1>2, BeginningIs, ConcatProperties
  <2>2. <<>> \o y = y
    BY ConcatEmptySeq
  <2>3. Append(q, c) = q \o <<c>>
    BY <1>1, <2>1, AppendIsConcat
  <2>4. (q \o <<c>>) \o y = q \o (<<c>> \o y)
    BY <1>2, <2>1, ConcatAssociative
  <2>5. (star \o star) \o (<<c>> \o y) = star \o (star \o (<<c>> \o y))
    BY <1>2, <2>1, ConcatAssociative
  <2> QED
    BY <2>2, <2>3, <2>4, <2>5
<1>12. <<"*", "*">> = star \o star
  <2> DEFINE u == <<"*", "*">>
  <2>1. star \in Seq(Text) /\ u \in Seq(Text) /\ Len(u) = 1 + Len(star) /\ u[1] = "*"
        /\ u[1 + 1] = star[1] /\ Len(star) = 1
    BY <1>1
  <2> HIDE DEF u, star
  <2>2. \A i \in 1..Len(star) : u[i + 1] = star[i]
    BY <2>1
  <2>3. <<"*">> \o star = u
    BY <1>1, <2>1, <2>2, OneBefore
  <2> QED
    BY <2>3 DEF u, star
<1>13. <<>> \o (<<c>> \o x) = <<c>> \o x /\ <<>> \o (<<c>> \o P) = <<c>> \o P
  <2>1. <<c>> \o x \in Seq(Text) /\ <<c>> \o P \in Seq(Text)
    BY <1>2, ConcatProperties
  <2> QED
    BY <2>1, ConcatEmptySeq
<1>14. Append(q, c) \o x = q \o (<<c>> \o x) /\ Append(q, c) \o P = q \o (<<c>> \o P)
  BY <1>2, <1>11
<1>15. CASE q = <<>>
  BY <1>8, <1>13, <1>14, <1>15 DEF v
<1>16. CASE q = <<"*">>
  BY <1>9, <1>14, <1>16 DEF w, v
<1>17. CASE q = <<"*", "*">>
  <2>1. c # "B"
    <3>1. Len(q) = 2
      BY <1>17
    <3> QED
      BY <3>1
  <2>2. /\ q \o (<<c>> \o x) = star \o (star \o (<<c>> \o x))
        /\ q \o (<<c>> \o P) = star \o (star \o (<<c>> \o P))
    BY <1>2, <1>11, <1>12, <1>17
  <2> QED
    BY <1>10, <1>14, <2>1, <2>2 DEF z, w, v
<1> QED
  BY <1>15, <1>16, <1>17 DEF Beginnings

\* In all three, what is let go is shown, and what is kept decides on the rest.
LEMMA KeepShows ==
    ASSUME NEW q \in Beginnings, NEW c \in Items
    PROVE  LET p == Append(q, c)
               d == SubSeq(p, 1, Len(p) - Len(Keep(p)))
           IN  /\ p \in Seq(Text) /\ Keep(p) \in Beginnings \cup {Magic} /\ d \in Seq(Items)
               /\ \A x \in Seq(Text) : Plain[p \o x] = d \o Plain[Keep(p) \o x]
<1> DEFINE p == Append(q, c)
           d == SubSeq(p, 1, Len(p) - Len(Keep(p)))
<1>1. p \in Seq(Text) /\ p \in Seq(Items) /\ Len(p) = Len(q) + 1 /\ Len(q) \in 0..2 /\ c \in Text
  <2>1. q \in Seq(Text) /\ q \in Seq(Items) /\ c \in Text /\ Len(q) \in 0..2
    BY BeginningIs DEF Text
  <2> QED
    BY <2>1, AppendProperties
<1>1a. Len(p) \in 1..3
  <2> DEFINE l == Len(p)
             n == Len(q)
  <2>1. l = n + 1 /\ n \in 0..2
    BY <1>1
  <2> HIDE DEF l, n
  <2>2. l \in 1..3
    BY <2>1
  <2> QED
    BY <2>2 DEF l
<1>2. /\ \/ Keep(p) = p /\ p \in Beginnings \cup {Magic}
         \/ q = <<"*", "*">> /\ c = "*" /\ Keep(p) = <<"*", "*">>
         \/ Keep(p) = <<>> /\ c # "*" /\ ~(c = "B" /\ Len(q) = 2)
  BY KeepCases
<1>3. ASSUME NEW x \in Seq(Text)
      PROVE  /\ Plain[p \o x] \in Seq(Text) /\ <<>> \o Plain[p \o x] = Plain[p \o x]
             /\ <<>> \o x = x
  <2>1. p \o x \in Seq(Text)
    BY <1>1, ConcatProperties
  <2>2. Plain[p \o x] \in Seq(Text)
    BY <2>1, PlainIsDefined
  <2> QED
    BY <2>2, ConcatEmptySeq
<1>4. CASE Keep(p) = p /\ p \in Beginnings \cup {Magic}
  <2> HIDE DEF p
  <2>1. Len(p) - Len(p) = 0
    BY <1>1a
  <2>2. d = <<>>
    <3>1. SubSeq(p, 1, 0) = <<>>
      BY SubSeqEmpty
    <3> QED
      BY <1>4, <2>1, <3>1
  <2> HIDE DEF d
  <2>3. d \in Seq(Items)
    BY <2>2
  <2>4. \A x \in Seq(Text) : Plain[p \o x] = d \o Plain[Keep(p) \o x]
    BY <1>3, <1>4, <2>2
  <2> QED
    BY <1>1, <1>4, <2>3, <2>4 DEF d, p
<1>5. CASE q = <<"*", "*">> /\ c = "*" /\ Keep(p) = <<"*", "*">>
  <2> DEFINE star == <<"*">>
             k == <<"*", "*">>
  <2>1. /\ k \in Beginnings /\ k \in Seq(Text) /\ Len(k) = 2 /\ \A i \in 1..2 : k[i] = "*"
        /\ "*" \in Items /\ "*" \in Text /\ star \in Seq(Items) /\ star \in Seq(Text)
        /\ Len(star) = 1
        /\ star[1] = "*"
    <3>1. k \in Beginnings /\ "*" \in Items /\ "*" \in Text
      BY DEF Beginnings, Items, Text
    <3>2. k \in Seq(Text) /\ Len(k) = 2 /\ \A i \in 1..Len(k) : k[i] = "*"
      BY <3>1, BeginningIs
    <3> QED
      BY <3>1, <3>2
  <2>2. k = q /\ Keep(p) = k
    BY <1>5
  <2> HIDE DEF k, star
  <2>3. Len(p) = 3 /\ \A i \in 1..3 : p[i] = "*"
    <3>1. /\ Len(p) = Len(q) + 1 /\ \A i \in 1..Len(q) : p[i] = q[i]
          /\ p[Len(q) + 1] = c
      BY <1>1, <2>1, <2>2, AppendProperties
    <3> HIDE DEF p
    <3>2. Len(q) = 2 /\ Len(q) + 1 = 3
      <4>1. Len(k) = 2 /\ Len(k) + 1 = 3
        BY <2>1
      <4> QED
        BY <2>2, <4>1
    <3>3. ASSUME NEW i \in 1..3 PROVE p[i] = "*"
      <4>1. i \in 1..2 \/ i = 3
        OBVIOUS
      <4> QED
        BY <1>5, <2>1, <2>2, <3>1, <3>2, <4>1
    <3> QED
      BY <3>1, <3>2, <3>3
  <2> HIDE DEF p
  <2>4. p = star \o k
    <3>1. \A i \in 1..Len(k) : p[i + 1] = k[i]
      BY <2>1, <2>3
    <3>2. p[1] = "*" /\ Len(p) = 1 + Len(k)
      BY <2>1, <2>3
    <3>3. <<"*">> \o k = p
      BY <1>1, <2>1, <3>1, <3>2, OneBefore
    <3> QED
      BY <3>3 DEF star
  <2>5. d = star
    <3>1. Len(p) - Len(Keep(p)) = Len(star)
      BY <2>1, <2>2, <2>3
    <3>2. SubSeq(star \o k, 1, Len(star)) = star
      BY <2>1, RestBehind
    <3> QED
      BY <2>4, <3>1, <3>2
  <2> HIDE DEF d
  <2>6. ASSUME NEW x \in Seq(Text) PROVE Plain[p \o x] = d \o Plain[Keep(p) \o x]
    <3> DEFINE v == k \o x
               w == star \o v
    <3>1. v \in Seq(Text) /\ v[2] = "*" /\ Len(v) = 2 + Len(x) /\ Len(x) \in Nat
      <4>1. v \in Seq(Text) /\ Len(v) = Len(k) + Len(x) /\ \A i \in 1..Len(k) : v[i] = k[i]
        BY <2>1, RestBehind
      <4>2. 2 \in 1..Len(k) /\ 2 \in 1..2
        BY <2>1
      <4>3. v[2] = "*"
        BY <2>1, <4>1, <4>2
      <4> HIDE DEF v
      <4> QED
        BY <2>1, <4>1, <4>3, LenProperties
    <3>2. p \o x = w
      BY <2>1, <2>4, ConcatAssociative
    <3> HIDE DEF v
    <3>3. w \in Seq(Text) /\ w[3] = "*"
      <4>1. w \in Seq(Text) /\ \A i \in 1..Len(v) : w[Len(star) + i] = v[i]
        BY <2>1, <3>1, RestBehind
      <4>2. 2 \in 1..Len(v) /\ Len(star) + 2 = 3
        BY <2>1, <3>1
      <4>3. w[3] = v[2]
        BY <4>1, <4>2
      <4> QED
        BY <3>1, <4>1, <4>3
    <3> HIDE DEF w
    <3>4. ~IsPrefix(Magic, w)
      <4>1. 3 \in 1..3 /\ w[3] # Magic[3]
        BY <3>3, MagicIs
      <4> QED
        BY <3>3, <4>1, PrefixOfMagic
    <3>5. ~IsPrefix(Magic, <<"*">> \o v)
      BY <3>4 DEF w, star
    <3>6. Plain[<<"*">> \o v] = <<"*">> \o Plain[v]
      BY <2>1, <3>1, <3>5, PlainItem
    <3> QED
      BY <2>2, <2>5, <3>2, <3>6 DEF v, w, star
  <2> QED
    BY <1>1, <2>1, <2>2, <2>5, <2>6 DEF d, p
<1>6. CASE Keep(p) = <<>> /\ c # "*" /\ ~(c = "B" /\ Len(q) = 2)
  <2>1. \A x \in Seq(Text) : Plain[p \o x] = p \o Plain[x]
    BY <1>6, PlainEnd
  <2> HIDE DEF p
  <2>2. Len(p) - Len(<<>>) = Len(p)
    BY <1>1a
  <2>3. SubSeq(p, 1, Len(p)) = p
    BY <1>1, SubSeqFull
  <2>4. d = p
    BY <1>6, <2>2, <2>3
  <2> HIDE DEF d
  <2>5. \A x \in Seq(Text) : Plain[p \o x] = d \o Plain[Keep(p) \o x]
    BY <1>3, <1>6, <2>1, <2>4
  <2>6. Keep(p) \in Beginnings
    BY <1>6 DEF Beginnings
  <2> QED
    BY <1>1, <2>4, <2>5, <2>6 DEF d, p
<1> QED
  BY <1>2, <1>4, <1>5, <1>6

-----------------------------------------------------------------------------
(***************************************************************************)
(* What has been read (l) and passed on (o) agree when p is held back:     *)
(* whatever follows (x), what is to be shown of all is what was passed on, *)
(* and then what is to be shown of p and what follows.  Behind two line    *)
(* ends at most, a header is complete only when no line end follows        *)
(* (SettledBut).  The items that the pump reads keep this up.              *)
(***************************************************************************)

Settled(l, o, p) == \A x \in Seq(Text) : Plain[l \o x] = o \o Plain[p \o x]
SettledBut(l, o) == \A x \in Seq(Text) : x = <<>> \/ x[1] # "eol" => Plain[l \o x] = o \o Plain[x]

\* The order in which sequences are put together does not matter.
LEMMA Associative ==
    ASSUME NEW u \in Seq(Text), NEW v \in Seq(Text), NEW w \in Seq(Text)
    PROVE  (u \o v) \o w = u \o (v \o w)
BY ConcatAssociative

\* An item at the end of one sequence is an item in front of what follows.
LEMMA AppendShift ==
    ASSUME NEW l \in Seq(Text), NEW c \in Text, NEW x \in Seq(Text)
    PROVE  /\ Append(l, c) \o x = l \o (<<c>> \o x)
           /\ <<c>> \o x \in Seq(Text) /\ (<<c>> \o x)[1] = c
<1>1. <<c>> \in Seq(Text)
  OBVIOUS
<1>2. Append(l, c) = l \o <<c>>
  BY AppendIsConcat
<1>3. (l \o <<c>>) \o x = l \o (<<c>> \o x)
  BY <1>1, ConcatAssociative
<1> QED
  BY <1>2, <1>3, TailBehind

\* ReadByte: an item outside of headers.
LEMMA SettledRead ==
    ASSUME NEW l \in Seq(Text), NEW o \in Seq(Text), NEW q \in Beginnings, NEW c \in Items,
           Settled(l, o, q) \/ (q = <<>> /\ c # "eol" /\ SettledBut(l, o))
    PROVE  LET p == Append(q, c)
               d == SubSeq(p, 1, Len(p) - Len(Keep(p)))
           IN  Settled(Append(l, c), o \o d, Keep(p))
<1> DEFINE p == Append(q, c)
           d == SubSeq(p, 1, Len(p) - Len(Keep(p)))
<1>1. /\ p \in Seq(Text) /\ Keep(p) \in Beginnings \cup {Magic} /\ d \in Seq(Items)
      /\ \A x \in Seq(Text) : Plain[p \o x] = d \o Plain[Keep(p) \o x]
  BY KeepShows
<1>2. c \in Text /\ q \in Seq(Text) /\ Keep(p) \in Seq(Text) /\ d \in Seq(Text)
  <2>1. q \in Seq(Text) /\ c \in Text
    BY BeginningIs DEF Text
  <2>2. \A k \in Beginnings \cup {Magic} : k \in Seq(Text)
    BY BeginningIs, MagicIs
  <2>3. Items \subseteq Text
    BY DEF Text
  <2> HIDE DEF p, d
  <2>4. d \in Seq(Text)
    BY <1>1, <2>3, SeqMonotonic
  <2> QED
    BY <1>1, <2>1, <2>2, <2>4
<1>3. ASSUME NEW x \in Seq(Text)
      PROVE  Plain[Append(l, c) \o x] = (o \o d) \o Plain[Keep(p) \o x]
  <2> DEFINE y == <<c>> \o x
  <2>1. /\ Append(l, c) \o x = l \o y /\ y \in Seq(Text) /\ y[1] = c
        /\ Append(q, c) \o x = q \o y
    <3> HIDE DEF p, d
    <3>1. Append(l, c) \o x = l \o y /\ y \in Seq(Text) /\ y[1] = c
      BY <1>2, AppendShift
    <3>2. Append(q, c) \o x = q \o y
      BY <1>2, AppendShift
    <3> QED
      BY <3>1, <3>2
  <2>2. q = <<>> => q \o y = y
    BY <2>1, ConcatEmptySeq
  <2> HIDE DEF y
  <2>3. Plain[l \o y] = o \o Plain[q \o y]
    <3>1. CASE Settled(l, o, q)
      BY <2>1, <3>1 DEF Settled
    <3>2. CASE q = <<>> /\ c # "eol" /\ SettledBut(l, o)
      BY <2>1, <2>2, <3>2 DEF SettledBut
    <3> QED
      BY <3>1, <3>2
  <2>4. Plain[q \o y] = d \o Plain[Keep(p) \o x]
    <3>1. p \o x = q \o y
      BY <2>1
    <3>2. Plain[p \o x] = d \o Plain[Keep(p) \o x]
      BY <1>1
    <3> QED
      BY <3>1, <3>2
  <2>5. Plain[Keep(p) \o x] \in Seq(Text)
    <3>1. Keep(p) \o x \in Seq(Text)
      BY <1>2, ConcatProperties
    <3> QED
      BY <3>1, PlainIsDefined
  <2> HIDE DEF p, d
  <2>6. (o \o d) \o Plain[Keep(p) \o x] = o \o (d \o Plain[Keep(p) \o x])
    <3> DEFINE P == Plain[Keep(p) \o x]
    <3>1. P \in Seq(Text) /\ d \in Seq(Text)
      BY <1>2, <2>5 DEF d
    <3> HIDE DEF P
    <3>2. (o \o d) \o P = o \o (d \o P)
      BY <3>1, Associative
    <3> QED
      BY <3>2 DEF P
  <2> QED
    BY <2>1, <2>3, <2>4, <2>6
<1> QED
  BY <1>3 DEF Settled

\* Head14: the item behind the magic, a header or a false start.
LEMMA SettledHead ==
    ASSUME NEW l \in Seq(Text), NEW o \in Seq(Text), NEW c \in Items, Settled(l, o, Magic)
    PROVE  /\ c \in {"init", "other"} => Settled(Append(l, c), o, HeaderOf(c, 0))
           /\ c \notin {"init", "other"} => Settled(Append(l, c), o \o Append(Magic, c), <<>>)
<1> DEFINE a == Append(Magic, c)
<1>1. c \in Text /\ Magic \in Seq(Text) /\ a \in Seq(Text)
  BY BehindMagic, MagicIs DEF Text
<1>2. ASSUME NEW x \in Seq(Text)
      PROVE  Plain[Append(l, c) \o x] = o \o Plain[a \o x]
  <2> DEFINE y == <<c>> \o x
  <2>1. /\ Append(l, c) \o x = l \o y /\ y \in Seq(Text)
        /\ a \o x = Magic \o y
    BY <1>1, AppendShift
  <2> HIDE DEF y
  <2>2. Plain[l \o y] = o \o Plain[Magic \o y]
    BY <2>1 DEF Settled
  <2> QED
    BY <2>1, <2>2
<1>3. HeaderOf(c, 0) = a
  <2>1. [i \in 1..0 |-> "eol"] = <<>>
    OBVIOUS
  <2>2. a \o <<>> = a
    BY <1>1, ConcatEmptySeq
  <2> QED
    BY <2>1, <2>2 DEF HeaderOf
<1>4. ASSUME c \notin {"init", "other"}, NEW x \in Seq(Text)
      PROVE  Plain[Append(l, c) \o x] = (o \o a) \o Plain[<<>> \o x]
  <2>1. Plain[a \o x] = a \o Plain[x]
    BY <1>4, PlainNoHeader
  <2>2. Plain[x] \in Seq(Text) /\ <<>> \o x = x
    BY PlainIsDefined, ConcatEmptySeq
  <2>3. (o \o a) \o Plain[x] = o \o (a \o Plain[x])
    <3> DEFINE P == Plain[x]
    <3>1. P \in Seq(Text) /\ a \in Seq(Text)
      BY <1>1, <2>2
    <3> HIDE DEF P, a
    <3>2. (o \o a) \o P = o \o (a \o P)
      BY <3>1, Associative
    <3> QED
      BY <3>2 DEF P
  <2> QED
    BY <1>2, <2>1, <2>2, <2>3
<1>5. c \in {"init", "other"} => Settled(Append(l, c), o, HeaderOf(c, 0))
  BY <1>2, <1>3 DEF Settled
<1>6. c \notin {"init", "other"} => Settled(Append(l, c), o \o Append(Magic, c), <<>>)
  BY <1>4 DEF Settled
<1> QED
  BY <1>5, <1>6

\* A line end more.
LEMMA HeaderGrows ==
    ASSUME NEW k \in {"init", "other"}, NEW e \in 0..1
    PROVE  HeaderOf(k, e + 1) = Append(HeaderOf(k, e), "eol")
<1> DEFINE h == HeaderOf(k, e)
           g == HeaderOf(k, e + 1)
           f == Append(h, "eol")
<1>1. e \in 0..2 /\ e + 1 \in 0..2 /\ "eol" \in Text
  BY DEF Text, Items
<1>2. /\ h \in Seq(Text) /\ Len(h) = 4 + e /\ h[4] = k /\ \A i \in 1..3 : h[i] = Magic[i]
      /\ \A i \in 1..e : h[4 + i] = "eol"
  BY <1>1, HeaderIs
<1>3. /\ g \in Seq(Text) /\ Len(g) = 4 + (e + 1) /\ g[4] = k /\ \A i \in 1..3 : g[i] = Magic[i]
      /\ \A i \in 1..e + 1 : g[4 + i] = "eol"
  BY <1>1, HeaderIs
<1> HIDE DEF h, g
<1>4. /\ f \in Seq(Text) /\ Len(f) = Len(h) + 1 /\ \A i \in 1..Len(h) : f[i] = h[i]
      /\ f[Len(h) + 1] = "eol"
  BY <1>1, <1>2, AppendProperties
<1> HIDE DEF f
<1>5. Len(f) = Len(g) /\ Len(g) = 5 + e
  BY <1>2, <1>3, <1>4
<1>6. ASSUME NEW i \in 1..Len(g) PROVE g[i] = f[i]
  <2>1. i \in 1..3 \/ i = 4 \/ (i - 4 \in 1..e /\ i \in 1..4 + e) \/ (i = 5 + e)
    BY <1>5
  <2>2. CASE i \in 1..3
    <3>1. i \in 1..Len(h)
      BY <1>2, <2>2
    <3> QED
      BY <1>2, <1>3, <1>4, <2>2, <3>1
  <2>3. CASE i = 4
    <3>1. i \in 1..Len(h)
      BY <1>2, <2>3
    <3> QED
      BY <1>2, <1>3, <1>4, <2>3, <3>1
  <2>4. CASE i - 4 \in 1..e /\ i \in 1..4 + e
    <3>1. i \in 1..Len(h) /\ i - 4 \in 1..e + 1 /\ 4 + (i - 4) = i
      BY <1>2, <2>4
    <3>2. h[4 + (i - 4)] = "eol" /\ g[4 + (i - 4)] = "eol"
      BY <1>2, <1>3, <2>4, <3>1
    <3>3. f[i] = h[i]
      BY <1>4, <3>1
    <3> QED
      BY <3>1, <3>2, <3>3
  <2>5. CASE i = 5 + e
    <3>1. i = Len(h) + 1 /\ i = 4 + (e + 1) /\ e + 1 \in 1..e + 1
      BY <1>2, <2>5
    <3> QED
      BY <1>3, <1>4, <3>1
  <2> QED
    BY <2>1, <2>2, <2>3, <2>4, <2>5
<1>7. g = f
  BY <1>3, <1>4, <1>5, <1>6, SeqEqual
<1> QED
  BY <1>7 DEF f, g, h

\* EndOfLine: a line end behind a header.
LEMMA SettledEol ==
    ASSUME NEW l \in Seq(Text), NEW o \in Seq(Text), NEW k \in {"init", "other"}, NEW e \in 0..1,
           Settled(l, o, HeaderOf(k, e))
    PROVE  Settled(Append(l, "eol"), o, HeaderOf(k, e + 1))
<1> DEFINE h == HeaderOf(k, e)
<1>1. "eol" \in Text /\ h \in Seq(Text)
  <2>1. e \in 0..2
    OBVIOUS
  <2> QED
    BY <2>1, HeaderIs DEF Text, Items
<1> HIDE DEF h
<1>2. ASSUME NEW x \in Seq(Text)
      PROVE  Plain[Append(l, "eol") \o x] = o \o Plain[Append(h, "eol") \o x]
  <2> DEFINE y == <<"eol">> \o x
  <2>1. /\ Append(l, "eol") \o x = l \o y /\ y \in Seq(Text)
        /\ Append(h, "eol") \o x = h \o y
    BY <1>1, AppendShift
  <2> HIDE DEF y
  <2>2. Plain[l \o y] = o \o Plain[h \o y]
    BY <2>1 DEF Settled, h
  <2> QED
    BY <2>1, <2>2
<1> QED
  BY <1>2, HeaderGrows DEF Settled, h

\* Begin: a header is complete, and what was passed on is all there is to show.
LEMMA SettledBegin ==
    ASSUME NEW l \in Seq(Text), NEW o \in Seq(Text), NEW k \in {"init", "other"}, NEW e \in 0..2,
           Settled(l, o, HeaderOf(k, e))
    PROVE  /\ Settled(Append(l, "cut"), o, <<>>)
           /\ e = 2 => Settled(l, o, <<>>)
           /\ SettledBut(l, o)
           /\ Plain[l] = o
<1> DEFINE h == HeaderOf(k, e)
<1>1. "cut" \in Text /\ h \in Seq(Text)
  BY HeaderIs DEF Text, Items
<1> HIDE DEF h
<1>2. ASSUME NEW x \in Seq(Text), e = 2 \/ x = <<>> \/ x[1] # "eol"
      PROVE  Plain[l \o x] = o \o Plain[x]
  <2>1. Plain[l \o x] = o \o Plain[h \o x]
    BY DEF Settled, h
  <2>2. Plain[h \o x] = Plain[x]
    BY <1>2, PlainHeader DEF h
  <2> QED
    BY <2>1, <2>2
<1>3. ASSUME NEW x \in Seq(Text)
      PROVE  <<>> \o x = x /\ Plain[Append(l, "cut") \o x] = o \o Plain[<<>> \o x]
  <2> DEFINE y == <<"cut">> \o x
  <2>1. Append(l, "cut") \o x = l \o y /\ y \in Seq(Text) /\ y[1] = "cut"
    BY <1>1, AppendShift
  <2>2. Plain[y] = Plain[x]
    BY PlainCut
  <2> HIDE DEF y
  <2>3. Plain[l \o y] = o \o Plain[y]
    BY <1>2, <2>1
  <2>4. <<>> \o x = x
    BY ConcatEmptySeq
  <2> QED
    BY <2>1, <2>2, <2>3, <2>4
<1>4. Settled(Append(l, "cut"), o, <<>>) /\ (e = 2 => Settled(l, o, <<>>)) /\ SettledBut(l, o)
  BY <1>2, <1>3 DEF Settled, SettledBut
<1>5. Plain[l] = o
  <2>1. <<>> \in Seq(Text) /\ l \o <<>> = l /\ o \o <<>> = o
    BY ConcatEmptySeq
  <2>2. Plain[l \o <<>>] = o \o Plain[<<>>]
    BY <1>2, <2>1
  <2> QED
    BY <2>1, <2>2, PlainEmpty
<1> QED
  BY <1>4, <1>5

\* When nothing follows, what is held back is all that is missing.
LEMMA SettledEnds ==
    ASSUME NEW l \in Seq(Text), NEW o \in Seq(Text), NEW q \in Beginnings \cup {Magic},
           Settled(l, o, q) \/ (q = <<>> /\ SettledBut(l, o))
    PROVE  Plain[l] = o \o q
<1>1. q \in Seq(Text) /\ Plain[q] = q
  BY BeginningIs, MagicIs, PlainShort
<1>2. <<>> \in Seq(Text) /\ l \o <<>> = l /\ o \o <<>> = o /\ q \o <<>> = q
  BY <1>1, ConcatEmptySeq
<1>3. CASE Settled(l, o, q)
  <2>1. Plain[l \o <<>>] = o \o Plain[q \o <<>>]
    BY <1>2, <1>3 DEF Settled
  <2> QED
    BY <1>1, <1>2, <2>1
<1>4. CASE q = <<>> /\ SettledBut(l, o)
  <2>1. Plain[l \o <<>>] = o \o Plain[<<>>]
    BY <1>2, <1>4 DEF SettledBut
  <2> QED
    BY <1>1, <1>2, <1>4, <2>1
<1> QED
  BY <1>3, <1>4

\* What is in front of something is a beginning of the two.
LEMMA FrontIsPrefix ==
    ASSUME NEW a \in Seq(Text), NEW b \in Seq(Text)
    PROVE  IsPrefix(a, a \o b)
<1>1. Len(a) \in Nat /\ Len(b) \in Nat
  BY LenProperties
<1>2. Len(a \o b) = Len(a) + Len(b) /\ SubSeq(a \o b, 1, Len(a)) = a
  BY RestBehind
<1>3. SubSeq(a, 1, Len(a)) = a
  BY SubSeqFull
<1> DEFINE s == a \o b
<1>4. Len(s) = Len(a) + Len(b) /\ SubSeq(s, 1, Len(a)) = a
  BY <1>2
<1> HIDE DEF s
<1>5. Len(a) <= Len(s) /\ SubSeq(a, 1, Len(a)) = SubSeq(s, 1, Len(a))
  BY <1>1, <1>3, <1>4
<1>6. IsPrefix(a, s)
  BY <1>5 DEF IsPrefix
<1> QED
  BY <1>6 DEF s

\* The beginnings are those of the magic.
LEMMA BeginningIsPrefix ==
    ASSUME NEW q \in Beginnings
    PROVE  IsStrictPrefix(q, Magic)
<1>1. q \in Seq(Text) /\ Len(q) \in 0..2 /\ \A i \in 1..Len(q) : q[i] = "*"
  BY BeginningIs
<1>2. \A i \in 1..2 : Magic[i] = "*"
  <2>1. \A i \in 1..2 : i = 1 \/ i = 2
    OBVIOUS
  <2> QED
    BY <2>1, MagicIs
<1>3. Len(q) <= 3 /\ \A i \in 1..Len(q) : q[i] = Magic[i]
  BY <1>1, <1>2
<1>4. IsPrefix(q, Magic)
  BY <1>1, <1>3, PrefixOfMagic
<1>5. q # Magic
  <2>1. Len(q) # Len(Magic)
    <3> DEFINE m == Len(q)
               n == Len(Magic)
    <3>1. m \in 0..2 /\ n = 3
      BY <1>1, MagicIs
    <3> HIDE DEF m, n
    <3>2. m # n
      BY <3>1
    <3> QED
      BY <3>2 DEF m, n
  <2> QED
    BY <2>1
<1> QED
  BY <1>4, <1>5 DEF IsStrictPrefix

-----------------------------------------------------------------------------
(***************************************************************************)
(* The invariant.  By the place of the pump (Where, which looks through a  *)
(* flush), ParseInv says what is held back; NormalInv, when bytes wait for *)
(* the display; WriterInv, what a Write knows between its look under the   *)
(* lock and its effect.                                                    *)
(***************************************************************************)

\* What the display has got, or is about to get.
Passed == display \o normal
\* Where the pump is, or will be after a flush.
Where == IF pump.pc = "flush" THEN pump.next ELSE pump.pc
\* The byte that follows is no line end.
TextBehind == There /\ Item # "eol"

\* Behind a header whose line ends are complete because another byte follows, that
\* byte is still to be read.  The end of the stream cuts off the magic or a header,
\* a closed pipe also bytes for the display.
ParseInv ==
    /\ Where = "read" =>
           \/ Settled(log, Passed, pending)
           \/ pending = <<>> /\ TextBehind /\ SettledBut(log, Passed)
    /\ Where = "head" => pending = <<>> /\ Settled(log, Passed, Magic)
    /\ Where \in {"eol", "begin"} => pending = <<>> /\ Settled(log, Passed, HeaderOf(kind, eols))
    /\ Where = "begin" => eols = 2 \/ TextBehind
    /\ Where \in Talks => pending = <<>> /\ Settled(log, Passed, <<>>)
    /\ Where = "ended" /\ pump.pc = "flush" => Plain[log] = Passed
    /\ pump.pc = "ended" => \E r \in Seq(Text) : /\ Plain[log] = Passed \o r
                                                 /\ closing = 0 => r \in {<<>>, Magic}

\* Nothing waits for the display while a header is read or a transfer runs.
NormalInv ==
    /\ pump.pc \in {"head", "eol", "begin"} \cup Talks => normal = <<>>
    /\ pump.pc = "ended" /\ closing = 0 => normal = <<>>
    /\ pump.pc = "read" => There \/ normal = <<>> \/ normal = Magic \o <<Last(log)>>

\* A Write that saw a transfer may end that one only; one that saw none saw it
\* before the transfer that runs now.
WriterInv ==
    /\ transferring => transfer > 0
    /\ \A w \in Writers :
           /\ writer[w].pc = "ctrlc" /\ writer[w].active => writer[w].cancel \in wanted
           /\ writer[w].pc # "idle" /\ ~writer[w].active =>
                  writer[w].seen <= transfer /\ (transferring => writer[w].seen < transfer)
    /\ \A i \in intruders : i[1] < i[2]
    /\ cancelled \subseteq wanted

RouterInvariant == RouterTypeOK /\ pending \in Beginnings /\ ParseInv /\ NormalInv /\ WriterInv

\* What the types say of the sequences.
LEMMA RouterTypeUse ==
    ASSUME RouterTypeOK
    PROVE  /\ stream \in Seq(Items) /\ arrived \in 0..Len(stream) /\ taken \in 0..arrived
           /\ Len(stream) \in Nat
           /\ arrived \in Nat /\ taken \in Nat
           /\ There => Item \in Items
           /\ log \in Seq(Text) /\ normal \in Seq(Text) /\ display \in Seq(Text)
           /\ Passed \in Seq(Text)
<1>1. stream \in Seq(Items)
  BY RouterAssumption DEF RouterTypeOK
<1>2. Len(stream) \in Nat
  BY <1>1, LenProperties
<1>3. arrived \in 0..Len(stream) /\ taken \in 0..arrived /\ arrived \in Nat /\ taken \in Nat
  BY <1>2 DEF RouterTypeOK
<1>4. There => Item \in Items
  <2>1. There => taken + 1 \in 1..Len(stream)
    BY <1>2, <1>3 DEF There
  <2> QED
    BY <1>1, <2>1, ElementOfSeq DEF Item
<1>5. log \in Seq(Text) /\ normal \in Seq(Text) /\ display \in Seq(Text)
  <2>1. Items \subseteq Text
    BY DEF Text
  <2>2. normal \in Seq(Items) /\ display \in Seq(Items)
    BY DEF RouterTypeOK
  <2>3. log \in Seq(Text)
    BY DEF RouterTypeOK, Text
  <2> QED
    BY <2>1, <2>2, <2>3, SeqMonotonic
<1>6. Passed \in Seq(Text)
  BY <1>5, ConcatProperties DEF Passed
<1> QED
  BY <1>1, <1>2, <1>3, <1>4, <1>5, <1>6

\* The initial states.
LEMMA RouterInitially == RouterInit => RouterInvariant
<1> SUFFICES ASSUME RouterInit PROVE RouterInvariant
  OBVIOUS
<1>1. stream \in Seq(Items) /\ Len(stream) \in Nat
  BY RouterAssumption, LenProperties DEF RouterInit
<1>2. <<>> \in Beginnings /\ IsStrictPrefix(<<>>, Magic)
  BY BeginningIsPrefix DEF Beginnings
<1>3. RouterTypeOK
  <2>1. stream \in Streams /\ arrived \in 0..Len(stream) /\ eof \in BOOLEAN /\ taken \in 0..arrived
    <3>1. 0 \in 0..0 /\ \A l \in Nat : 0 \in 0..l
      OBVIOUS
    <3>2. 0 \in 0..Len(stream)
      BY <1>1, <3>1
    <3> QED
      BY <3>1, <3>2 DEF RouterInit
  <2>2. log \in Seq(Items \cup {"cut"}) /\ normal \in Seq(Items) /\ display \in Seq(Items)
    BY DEF RouterInit
  <2>3. pump \in [pc : Points, next : {"read", "head", "ended"}]
    BY DEF RouterInit, Points
  <2>4. IsStrictPrefix(pending, Magic) /\ reading \in BOOLEAN /\ transferring \in BOOLEAN
    BY <1>2 DEF RouterInit
  <2>5. eols \in 0..2 /\ kind \in {"init", "other"} /\ transfer \in Nat /\ closing \in 0..2
        /\ writes \in 0..MaxWrites
    BY RouterAssumption DEF RouterInit
  <2>6. cancelled \subseteq 1..transfer /\ wanted \subseteq 1..transfer
        /\ intruders \subseteq Nat \X Nat
    BY DEF RouterInit
  <2>7. writer \in [Writers -> [pc : {"idle", "key", "ctrlc"}, active : BOOLEAN, cancel : Nat,
                              seen : Nat]]
    BY DEF RouterInit, NoWrite
  <2> QED
    BY <2>1, <2>2, <2>3, <2>4, <2>5, <2>6, <2>7 DEF RouterTypeOK
<1>4. ParseInv
  <2>1. Where = "read" /\ pump.pc = "read"
    BY DEF RouterInit, Where
  <2>2. log = <<>> /\ pending = <<>> /\ Passed = <<>>
    BY DEF RouterInit, Passed
  <2>3. Settled(<<>>, <<>>, <<>>)
    <3>1. ASSUME NEW x \in Seq(Text) PROVE Plain[<<>> \o x] = <<>> \o Plain[<<>> \o x]
      <4>1. Plain[x] \in Seq(Text)
        BY PlainIsDefined
      <4>2. <<>> \o x = x /\ <<>> \o Plain[x] = Plain[x]
        BY <4>1, ConcatEmptySeq
      <4> QED
        BY <4>2
    <3> QED
      BY <3>1 DEF Settled
  <2>4. Settled(log, Passed, pending)
    BY <2>2, <2>3
  <2> QED
    BY <2>1, <2>4 DEF ParseInv, Talks
<1>5. NormalInv /\ WriterInv
  BY DEF RouterInit, NormalInv, WriterInv, NoWrite
<1> QED
  BY <1>2, <1>3, <1>4, <1>5 DEF RouterInvariant, RouterInit

\* Steps of others leave the parser alone; more may arrive, and Close may go on.
LEMMA ParseFrame ==
    ASSUME ParseInv, NormalInv, There => There', closing' = 0 => closing = 0,
           UNCHANGED <<stream, taken, log, pump, pending, normal, display, eols, kind>>
    PROVE  ParseInv' /\ NormalInv'
<1>1. Passed' = Passed /\ Where' = Where /\ (TextBehind => TextBehind') /\ Item' = Item
  BY DEF Passed, Where, TextBehind, Item
<1>2. NormalInv'
  BY DEF NormalInv
<1>3. Where' = "read" =>
           \/ Settled(log', Passed', pending')
           \/ pending' = <<>> /\ TextBehind' /\ SettledBut(log', Passed')
  BY <1>1 DEF ParseInv
<1>4. Where' = "head" => pending' = <<>> /\ Settled(log', Passed', Magic)
  BY <1>1 DEF ParseInv
<1>5. /\ Where' \in {"eol", "begin"} =>
            pending' = <<>> /\ Settled(log', Passed', HeaderOf(kind', eols'))
      /\ Where' = "begin" => eols' = 2 \/ TextBehind'
  BY <1>1 DEF ParseInv
<1>6. Where' \in Talks => pending' = <<>> /\ Settled(log', Passed', <<>>)
  BY <1>1 DEF ParseInv
<1>7. /\ Where' = "ended" /\ pump'.pc = "flush" => Plain[log'] = Passed'
      /\ pump'.pc = "ended" => \E r \in Seq(Text) : /\ Plain[log'] = Passed' \o r
                                                    /\ closing' = 0 => r \in {<<>>, Magic}
  BY <1>1 DEF ParseInv
<1> QED
  BY <1>2, <1>3, <1>4, <1>5, <1>6, <1>7 DEF ParseInv

\* What is served is written to the display, or is read on.
LEMMA Served ==
    ASSUME RouterTypeOK, Serve, pump.pc # "flush", Settled(log', Passed', pending'),
           arrived' = arrived
    PROVE  /\ ParseInv'
           /\ pump' \in [pc : Points, next : {"read", "head", "ended"}]
           /\ NormalInv'
<1>1. pump' = [pc |-> "flush", next |-> "read"] \/ (pump' = [pump EXCEPT !.pc = "read"] /\ There')
  BY DEF Serve, FlushThen, Goto, There
<1>2. pump \in [pc : Points, next : {"read", "head", "ended"}]
  BY DEF RouterTypeOK
<1>3. pump'.pc \in {"flush", "read"} /\ (pump'.pc = "read" => There')
      /\ Where' = "read" /\ pump' \in [pc : Points, next : {"read", "head", "ended"}]
  BY <1>1, <1>2 DEF Where, Points
<1>4. ParseInv'
  BY <1>3 DEF ParseInv, Talks
<1>5. NormalInv'
  BY <1>3 DEF NormalInv, Talks
<1> QED
  BY <1>3, <1>4, <1>5

\* What is handed to the display comes behind what was passed on.
LEMMA PassedGrows ==
    ASSUME display \in Seq(Text), normal \in Seq(Text), NEW d \in Seq(Text),
           display' = display, normal' = normal \o d
    PROVE  Passed' = Passed \o d
<1>1. (display \o normal) \o d = display \o (normal \o d)
  BY Associative
<1> QED
  BY <1>1 DEF Passed

\* The steps of the pump.
LEMMA ReadByteStep ==
    ASSUME RouterTypeOK, pending \in Beginnings, ParseInv, ReadByte
    PROVE  /\ ParseInv' /\ NormalInv' /\ pending' \in Beginnings
           /\ pump' \in [pc : Points, next : {"read", "head", "ended"}]
           /\ normal' \in Seq(Items) /\ log' \in Seq(Text)
<1> DEFINE c == Item
           p == Append(pending, c)
           d == SubSeq(p, 1, Len(p) - Len(Keep(p)))
<1>1. /\ c \in Items /\ log \in Seq(Text) /\ normal \in Seq(Text) /\ display \in Seq(Text)
      /\ Passed \in Seq(Text) /\ normal \in Seq(Items) /\ c \in Text
  <2>1. There
    BY DEF ReadByte
  <2>2. normal \in Seq(Items) /\ Items \subseteq Text
    BY DEF RouterTypeOK, Text
  <2> QED
    BY <2>1, <2>2, RouterTypeUse
<1> HIDE DEF c
<1>2. /\ pump.pc = "read" /\ log' = Append(log, c) /\ normal' = normal \o d /\ display' = display
      /\ arrived' = arrived
      /\ IF Keep(p) = Magic THEN pending' = <<>> /\ FlushThen("head")
                            ELSE pending' = Keep(p) /\ Serve
  BY DEF ReadByte, c, incoming
<1>3. Settled(log, Passed, pending) \/ (pending = <<>> /\ c # "eol" /\ SettledBut(log, Passed))
  BY <1>2 DEF ParseInv, Where, TextBehind, c
<1>4. /\ p \in Seq(Text) /\ Keep(p) \in Beginnings \cup {Magic} /\ d \in Seq(Items)
  BY <1>1, KeepShows
<1>5. Settled(Append(log, c), Passed \o d, Keep(p))
  BY <1>1, <1>3, SettledRead
<1> HIDE DEF p, d
<1>6. d \in Seq(Text) /\ normal' \in Seq(Items) /\ log' \in Seq(Text)
  <2>1. Items \subseteq Text
    BY DEF Text
  <2>2. d \in Seq(Text)
    BY <1>4, <2>1, SeqMonotonic
  <2>3. normal \o d \in Seq(Items)
    BY <1>1, <1>4, ConcatProperties
  <2>4. Append(log, c) \in Seq(Text)
    BY <1>1, AppendProperties
  <2> QED
    BY <1>2, <2>2, <2>3, <2>4
<1>7. Passed' = Passed \o d
  BY <1>1, <1>2, <1>6, PassedGrows
<1>8. Settled(log', Passed', Keep(p))
  BY <1>2, <1>5, <1>7
<1>9. CASE Keep(p) = Magic
  <2>1. pending' = <<>> /\ pump' = [pc |-> "flush", next |-> "head"]
    BY <1>2, <1>9 DEF FlushThen
  <2>2. Where' = "head" /\ pump'.pc = "flush"
        /\ pump' \in [pc : Points, next : {"read", "head", "ended"}]
    BY <2>1 DEF Where, Points
  <2>3. ParseInv'
    BY <1>8, <1>9, <2>1, <2>2 DEF ParseInv, Talks
  <2>4. NormalInv'
    BY <2>2 DEF NormalInv, Talks
  <2> QED
    BY <1>6, <2>1, <2>2, <2>3, <2>4 DEF Beginnings
<1>10. CASE Keep(p) # Magic
  <2>1. pending' = Keep(p) /\ Serve
    BY <1>2, <1>10
  <2>2. ParseInv' /\ NormalInv' /\ pump' \in [pc : Points, next : {"read", "head", "ended"}]
    BY <1>2, <1>8, <2>1, Served
  <2> QED
    BY <1>4, <1>6, <1>10, <2>1, <2>2
<1> QED
  BY <1>9, <1>10

LEMMA ReadEndsStep ==
    ASSUME RouterTypeOK, pending \in Beginnings, ParseInv, ReadEnds
    PROVE  /\ ParseInv' /\ NormalInv' /\ pending' \in Beginnings
           /\ pump' \in [pc : Points, next : {"read", "head", "ended"}]
           /\ normal' \in Seq(Items)
<1>1. /\ log \in Seq(Text) /\ normal \in Seq(Text) /\ display \in Seq(Text) /\ Passed \in Seq(Text)
      /\ normal \in Seq(Items) /\ pending \in Seq(Items) /\ pending \in Seq(Text)
  BY RouterTypeUse, BeginningIs DEF RouterTypeOK
<1>2. /\ pump.pc = "read" /\ normal' = normal \o pending /\ pending' = <<>> /\ log' = log
      /\ display' = display
      /\ pump' = [pc |-> "flush", next |-> "ended"]
  BY DEF ReadEnds, FlushThen
<1>3. Settled(log, Passed, pending) \/ (pending = <<>> /\ SettledBut(log, Passed))
  BY <1>2 DEF ParseInv, Where
<1>4. Plain[log] = Passed \o pending
  BY <1>1, <1>3, SettledEnds
<1>5. Passed' = Passed \o pending
  BY <1>1, <1>2, PassedGrows
<1>6. Where' = "ended" /\ pump'.pc = "flush"
      /\ pump' \in [pc : Points, next : {"read", "head", "ended"}]
  BY <1>2 DEF Where, Points
<1>7. ParseInv'
  BY <1>2, <1>4, <1>5, <1>6 DEF ParseInv, Talks
<1>8. NormalInv'
  BY <1>6 DEF NormalInv, Talks
<1>9. normal' \in Seq(Items)
  BY <1>1, <1>2, ConcatProperties
<1> QED
  BY <1>2, <1>6, <1>7, <1>8, <1>9 DEF Beginnings

LEMMA FlushStep ==
    ASSUME RouterTypeOK, pending \in Beginnings, ParseInv, Flush
    PROVE  /\ ParseInv' /\ NormalInv' /\ pending' \in Beginnings
           /\ pump' \in [pc : Points, next : {"read", "head", "ended"}]
           /\ normal' \in Seq(Items) /\ display' \in Seq(Items)
<1>1. /\ log \in Seq(Text) /\ normal \in Seq(Text) /\ display \in Seq(Text) /\ Passed \in Seq(Text)
      /\ normal \in Seq(Items) /\ display \in Seq(Items)
      /\ pump \in [pc : Points, next : {"read", "head", "ended"}]
  BY RouterTypeUse DEF RouterTypeOK
<1>2. /\ pump.pc = "flush" /\ log' = log /\ pending' = pending /\ kind' = kind /\ eols' = eols
      /\ closing' = closing /\ stream' = stream /\ arrived' = arrived /\ taken' = taken
      /\ pump.next \in {"read", "head", "ended"}
  BY <1>1 DEF Flush, incoming
<1>3. Where = pump.next
  BY <1>2 DEF Where
<1>4. TextBehind' = TextBehind
  BY <1>2 DEF TextBehind, There, Item
<1>5. CASE /\ normal' = <<>> /\ Passed' = Passed /\ display' \in Seq(Items)
           /\ pump' = [pump EXCEPT !.pc = pump.next]
  <2>1. /\ pump'.pc = pump.next /\ Where' = pump.next /\ pump'.pc # "flush"
        /\ pump' \in [pc : Points, next : {"read", "head", "ended"}]
    BY <1>1, <1>2, <1>5 DEF Where, Points
  <2>2. NormalInv'
    BY <1>5 DEF NormalInv
  <2>3. CASE pump.next = "read"
    <3>1. Where = "read" /\ Where' = "read" /\ pump'.pc = "read"
      BY <1>3, <2>1, <2>3
    <3>2. \/ Settled(log, Passed, pending)
          \/ pending = <<>> /\ TextBehind /\ SettledBut(log, Passed)
      BY <3>1 DEF ParseInv
    <3>3. ParseInv'
      BY <1>2, <1>4, <1>5, <3>1, <3>2 DEF ParseInv
    <3> QED
      BY <1>2, <1>5, <2>1, <2>2, <3>3
  <2>4. CASE pump.next = "head"
    <3>1. Where = "head" /\ Where' = "head" /\ pump'.pc = "head"
      BY <1>3, <2>1, <2>4
    <3>2. pending = <<>> /\ Settled(log, Passed, Magic)
      BY <3>1 DEF ParseInv
    <3>3. ParseInv'
      BY <1>2, <1>4, <1>5, <3>1, <3>2 DEF ParseInv
    <3> QED
      BY <1>2, <1>5, <2>1, <2>2, <3>3
  <2>5. CASE pump.next = "ended"
    <3>1. Where = "ended" /\ Where' = "ended" /\ pump'.pc = "ended"
      BY <1>3, <2>1, <2>5
    <3>2. Plain[log] = Passed
      BY <1>2, <3>1 DEF ParseInv
    <3>3. Passed \o <<>> = Passed /\ <<>> \in Seq(Text)
      BY <1>1, ConcatEmptySeq
    <3>4. \E r \in Seq(Text) : Plain[log'] = Passed' \o r /\ (closing' = 0 => r \in {<<>>, Magic})
      BY <1>2, <1>5, <3>2, <3>3
    <3>5. ParseInv'
      BY <3>1, <3>4 DEF ParseInv, Talks
    <3> QED
      BY <1>2, <1>5, <2>1, <2>2, <3>5
  <2> QED
    BY <1>2, <2>3, <2>4, <2>5
<1>6. CASE normal = <<>> /\ Goto(pump.next) /\ UNCHANGED <<normal, display>>
  BY <1>1, <1>5, <1>6 DEF Goto, Passed
<1>7. CASE /\ normal # <<>> /\ closing < 2 /\ reading
           /\ display' = display \o normal /\ normal' = <<>> /\ Goto(pump.next)
  <2>1. display \o normal \in Seq(Items) /\ (display \o normal) \o <<>> = display \o normal
    BY <1>1, ConcatProperties, ConcatEmptySeq DEF Passed
  <2> QED
    BY <1>5, <1>7, <2>1 DEF Goto, Passed
<1>8. CASE normal # <<>> /\ closing = 2 /\ Goto("ended") /\ UNCHANGED <<normal, display>>
  <2>1. /\ pump' = [pump EXCEPT !.pc = "ended"] /\ normal' = normal /\ display' = display
        /\ closing' # 0
        /\ Passed' = Passed
    BY <1>2, <1>8 DEF Goto, Passed
  <2>2. pump'.pc = "ended" /\ Where' = "ended"
        /\ pump' \in [pc : Points, next : {"read", "head", "ended"}]
    BY <1>1, <2>1 DEF Where, Points
  <2>3. \E r \in Seq(Text) : Plain[log] = Passed \o r
    <3>1. <<>> \in Seq(Text) /\ Passed \o <<>> = Passed
      BY <1>1, ConcatEmptySeq
    <3>2. CASE Where = "read"
      <4>1. Plain[log] = Passed \o pending
        <5>1. Settled(log, Passed, pending) \/ (pending = <<>> /\ SettledBut(log, Passed))
          BY <3>2 DEF ParseInv
        <5> QED
          BY <1>1, <5>1, SettledEnds
      <4> QED
        BY <4>1, BeginningIs
    <3>3. CASE Where = "head"
      <4>1. Settled(log, Passed, Magic)
        BY <3>3 DEF ParseInv
      <4>2. Plain[log] = Passed \o Magic
        BY <1>1, <4>1, SettledEnds
      <4> QED
        BY <4>2, MagicIs
    <3>4. CASE Where = "ended"
      <4>1. Plain[log] = Passed
        BY <1>2, <3>4 DEF ParseInv
      <4> QED
        BY <3>1, <4>1
    <3> QED
      BY <1>2, <1>3, <3>2, <3>3, <3>4
  <2>4. ParseInv'
    BY <1>2, <2>1, <2>2, <2>3 DEF ParseInv, Talks
  <2>5. NormalInv'
    BY <2>1, <2>2 DEF NormalInv, Talks
  <2> QED
    BY <1>1, <1>2, <2>1, <2>2, <2>4, <2>5
<1> QED
  BY <1>6, <1>7, <1>8 DEF Flush

LEMMA Head14Step ==
    ASSUME RouterTypeOK, pending \in Beginnings, ParseInv, NormalInv, Head14
    PROVE  /\ ParseInv' /\ NormalInv' /\ pending' \in Beginnings
           /\ pump' \in [pc : Points, next : {"read", "head", "ended"}]
           /\ normal' \in Seq(Items) /\ log' \in Seq(Text)
           /\ kind' \in {"init", "other"} /\ eols' \in 0..2
<1> DEFINE c == Item
<1>1. /\ log \in Seq(Text) /\ normal \in Seq(Text) /\ display \in Seq(Text) /\ Passed \in Seq(Text)
      /\ pump \in [pc : Points, next : {"read", "head", "ended"}] /\ c \in Items /\ c \in Text
      /\ normal \in Seq(Items) /\ kind \in {"init", "other"} /\ eols \in 0..2
  <2>1. There
    BY DEF Head14
  <2>2. Items \subseteq Text
    BY DEF Text
  <2> QED
    BY <2>1, <2>2, RouterTypeUse DEF RouterTypeOK
<1> HIDE DEF c
<1>2. /\ pump.pc = "head" /\ log' = Append(log, c) /\ pending' = pending /\ display' = display
      /\ IF c \in {"init", "other"}
           THEN kind' = c /\ eols' = 0 /\ Goto("eol") /\ normal' = normal
           ELSE normal' = normal \o Append(Magic, c) /\ Goto("read") /\ kind' = kind /\ eols' = eols
  BY DEF Head14, c
<1>3. pending = <<>> /\ Settled(log, Passed, Magic) /\ normal = <<>>
  BY <1>2 DEF ParseInv, NormalInv, Where
<1>4. log' \in Seq(Text)
  BY <1>1, <1>2, AppendProperties
<1>5. CASE c \in {"init", "other"}
  <2>1. /\ pump' = [pump EXCEPT !.pc = "eol"] /\ normal' = <<>> /\ Passed' = Passed
        /\ kind' = c /\ eols' = 0
    BY <1>2, <1>3, <1>5 DEF Goto, Passed
  <2>2. pump'.pc = "eol" /\ Where' = "eol"
        /\ pump' \in [pc : Points, next : {"read", "head", "ended"}]
    BY <1>1, <2>1 DEF Where, Points
  <2>3. Settled(log', Passed', HeaderOf(kind', eols'))
    <3>1. Settled(Append(log, c), Passed, HeaderOf(c, 0))
      BY <1>1, <1>3, <1>5, SettledHead
    <3> QED
      BY <1>2, <2>1, <3>1
  <2>4. ParseInv'
    BY <1>2, <1>3, <2>2, <2>3 DEF ParseInv, Talks
  <2>5. NormalInv'
    BY <2>1, <2>2 DEF NormalInv
  <2> QED
    BY <1>1, <1>2, <1>3, <1>4, <1>5, <2>1, <2>2, <2>4, <2>5 DEF Beginnings
<1>6. CASE c \notin {"init", "other"}
  <2> DEFINE a == Append(Magic, c)
  <2>0. a \in Seq(Text) /\ a \in Seq(Items) /\ a = Magic \o <<c>>
    BY <1>1, BehindMagic
  <2>1. /\ pump' = [pump EXCEPT !.pc = "read"] /\ normal' = normal \o a
        /\ kind' = kind /\ eols' = eols
    BY <1>2, <1>6 DEF Goto
  <2>2. pump'.pc = "read" /\ Where' = "read"
        /\ pump' \in [pc : Points, next : {"read", "head", "ended"}]
    BY <1>1, <2>1 DEF Where, Points
  <2>3. Settled(Append(log, c), Passed \o a, <<>>)
    BY <1>1, <1>3, <1>6, SettledHead
  <2> HIDE DEF a
  <2>4. Passed' = Passed \o a
    BY <1>1, <1>2, <2>0, <2>1, PassedGrows
  <2>5. Settled(log', Passed', pending')
    BY <1>2, <1>3, <2>3, <2>4
  <2>6. ParseInv'
    BY <2>2, <2>5 DEF ParseInv, Talks
  <2>7. normal' = a
    BY <1>3, <2>0, <2>1, ConcatEmptySeq
  <2>8. Last(log') = c
    <3> DEFINE g == Append(log, c)
    <3>1. Len(g) = Len(log) + 1 /\ g[Len(log) + 1] = c
      BY <1>1, AppendProperties
    <3> HIDE DEF g
    <3>2. g[Len(g)] = c
      BY <3>1
    <3>3. Last(g) = c
      BY <3>2 DEF Last
    <3> QED
      BY <1>2, <3>3 DEF g
  <2>9. NormalInv'
    <3>1. normal' = Magic \o <<Last(log')>>
      BY <2>0, <2>7, <2>8
    <3> QED
      BY <2>2, <3>1 DEF NormalInv, Talks
  <2> QED
    BY <1>1, <1>2, <1>4, <2>0, <2>1, <2>2, <2>6, <2>7, <2>9
<1> QED
  BY <1>5, <1>6

LEMMA EndOfLineStep ==
    ASSUME RouterTypeOK, pending \in Beginnings, ParseInv, NormalInv, EndOfLine
    PROVE  /\ ParseInv' /\ NormalInv'
           /\ pump' \in [pc : Points, next : {"read", "head", "ended"}]
           /\ log' \in Seq(Text) /\ eols' \in 0..2
<1>1. /\ log \in Seq(Text) /\ Passed \in Seq(Text)
      /\ pump \in [pc : Points, next : {"read", "head", "ended"}]
      /\ kind \in {"init", "other"} /\ eols \in 0..2
  BY RouterTypeUse DEF RouterTypeOK
<1>2. /\ pump.pc = "eol" /\ pending' = pending /\ display' = display /\ normal' = normal
      /\ kind' = kind
      /\ arrived' = arrived /\ stream' = stream /\ Passed' = Passed
  BY DEF EndOfLine, incoming, Passed
<1>3. pending = <<>> /\ Settled(log, Passed, HeaderOf(kind, eols)) /\ normal = <<>>
  BY <1>2 DEF ParseInv, NormalInv, Where
<1>4. CASE MayBeEol /\ There /\ Item = "eol" /\ log' = Append(log, Item) /\ eols' = eols + 1
           /\ pump' = pump
  <2>1. eols \in 0..1 /\ eols' \in 0..2 /\ "eol" \in Text
    BY <1>1, <1>4 DEF MayBeEol, Text, Items
  <2>2. Settled(log', Passed', HeaderOf(kind', eols'))
    <3>1. Settled(Append(log, "eol"), Passed, HeaderOf(kind, eols + 1))
      BY <1>1, <1>3, <2>1, SettledEol
    <3> QED
      BY <1>2, <1>4, <3>1
  <2>3. pump'.pc = "eol" /\ Where' = "eol"
    BY <1>2, <1>4 DEF Where
  <2>4. ParseInv' /\ NormalInv'
    BY <1>2, <1>3, <2>2, <2>3 DEF ParseInv, NormalInv, Talks
  <2>5. log' \in Seq(Text)
    BY <1>1, <1>4, <2>1, AppendProperties
  <2> QED
    BY <1>1, <1>4, <2>1, <2>4, <2>5
<1>5. CASE /\ log' = log /\ eols' = eols /\ taken' = taken /\ Goto("begin")
           /\ eols = 2 \/ TextBehind
  <2>1. pump' = [pump EXCEPT !.pc = "begin"] /\ TextBehind' = TextBehind
    BY <1>2, <1>5 DEF Goto, TextBehind, There, Item
  <2>2. pump'.pc = "begin" /\ Where' = "begin"
        /\ pump' \in [pc : Points, next : {"read", "head", "ended"}]
    BY <1>1, <2>1 DEF Where, Points
  <2>3. Settled(log', Passed', HeaderOf(kind', eols'))
    BY <1>2, <1>3, <1>5
  <2>4. ParseInv' /\ NormalInv'
    BY <1>2, <1>3, <1>5, <2>1, <2>2, <2>3 DEF ParseInv, NormalInv, Talks
  <2> QED
    BY <1>1, <1>5, <2>2, <2>4
<1>6. \/ /\ MayBeEol /\ There /\ Item = "eol" /\ log' = Append(log, Item) /\ eols' = eols + 1
         /\ pump' = pump
      \/ /\ log' = log /\ eols' = eols /\ taken' = taken /\ Goto("begin")
         /\ eols = 2 \/ TextBehind
  <2>1. ~MayBeEol => eols = 2
    BY <1>1 DEF MayBeEol
  <2>2. There /\ Item # "eol" => TextBehind
    BY DEF TextBehind
  <2> QED
    BY <2>1, <2>2 DEF EndOfLine
<1> QED
  BY <1>4, <1>5, <1>6

LEMMA HeadEndsStep ==
    ASSUME RouterTypeOK, pending \in Beginnings, ParseInv, NormalInv, HeadEnds
    PROVE  /\ ParseInv' /\ NormalInv'
           /\ pump' \in [pc : Points, next : {"read", "head", "ended"}]
<1>1. /\ log \in Seq(Text) /\ Passed \in Seq(Text)
      /\ pump \in [pc : Points, next : {"read", "head", "ended"}]
      /\ kind \in {"init", "other"} /\ eols \in 0..2
  BY RouterTypeUse DEF RouterTypeOK
<1>2. /\ pump.pc \in {"head", "eol"} /\ normal' = normal /\ Passed' = Passed /\ log' = log
      /\ pump' = [pump EXCEPT !.pc = "ended"]
  BY DEF HeadEnds, Goto, Passed
<1>3. pump'.pc = "ended" /\ Where' = "ended"
      /\ pump' \in [pc : Points, next : {"read", "head", "ended"}]
  BY <1>1, <1>2 DEF Where, Points
<1>4. normal = <<>>
  BY <1>2 DEF NormalInv
<1>5. \E r \in Seq(Text) : Plain[log] = Passed \o r /\ r \in {<<>>, Magic}
  <2>1. CASE pump.pc = "head"
    <3>1. Settled(log, Passed, Magic)
      BY <2>1 DEF ParseInv, Where
    <3>2. Plain[log] = Passed \o Magic
      BY <1>1, <3>1, SettledEnds
    <3> QED
      BY <3>2, MagicIs
  <2>2. CASE pump.pc = "eol"
    <3>1. Settled(log, Passed, HeaderOf(kind, eols))
      BY <2>2 DEF ParseInv, Where
    <3>2. Plain[log] = Passed
      BY <1>1, <3>1, SettledBegin
    <3>3. Passed \o <<>> = Passed /\ <<>> \in Seq(Text)
      BY <1>1, ConcatEmptySeq
    <3> QED
      BY <3>2, <3>3
  <2> QED
    BY <1>2, <2>1, <2>2
<1>6. ParseInv' /\ NormalInv'
  BY <1>2, <1>3, <1>4, <1>5 DEF ParseInv, NormalInv, Talks
<1> QED
  BY <1>3, <1>6

LEMMA BeginStep ==
    ASSUME RouterTypeOK, pending \in Beginnings, ParseInv, NormalInv, Begin
    PROVE  /\ ParseInv' /\ NormalInv'
           /\ pump' \in [pc : Points, next : {"read", "head", "ended"}]
           /\ log' \in Seq(Text)
<1>1. /\ log \in Seq(Text) /\ Passed \in Seq(Text)
      /\ pump \in [pc : Points, next : {"read", "head", "ended"}]
      /\ kind \in {"init", "other"} /\ eols \in 0..2
  BY RouterTypeUse DEF RouterTypeOK
<1>2. /\ pump.pc = "begin" /\ pending' = pending /\ normal' = normal /\ Passed' = Passed
      /\ TextBehind' = TextBehind
  BY DEF Begin, incoming, Passed, TextBehind, There, Item
<1>3. /\ pending = <<>> /\ Settled(log, Passed, HeaderOf(kind, eols)) /\ normal = <<>>
      /\ eols = 2 \/ TextBehind
  BY <1>2 DEF ParseInv, NormalInv, Where
<1>4. /\ Settled(Append(log, "cut"), Passed, <<>>)
      /\ eols = 2 => Settled(log, Passed, <<>>)
      /\ SettledBut(log, Passed)
  BY <1>1, <1>3, SettledBegin
<1>5. CASE kind = "init"
  <2>1. log' = Append(log, "cut") /\ pump' = [pump EXCEPT !.pc = "hook"]
    BY <1>5 DEF Begin, Goto
  <2>2. pump'.pc = "hook" /\ Where' = "hook"
        /\ pump' \in [pc : Points, next : {"read", "head", "ended"}]
    BY <1>1, <2>1 DEF Where, Points, Talks
  <2>3. log' \in Seq(Text)
    <3>1. "cut" \in Text
      BY DEF Text
    <3> QED
      BY <1>1, <2>1, <3>1, AppendProperties
  <2>4. Settled(log', Passed', <<>>)
    BY <1>2, <1>4, <2>1
  <2>5. ParseInv' /\ NormalInv'
    BY <1>2, <1>3, <2>2, <2>4 DEF ParseInv, NormalInv
  <2> QED
    BY <2>2, <2>3, <2>5
<1>6. CASE kind # "init"
  <2>1. log' = log /\ pump' = [pump EXCEPT !.pc = "read"]
    BY <1>6 DEF Begin, Goto
  <2>2. pump'.pc = "read" /\ Where' = "read"
        /\ pump' \in [pc : Points, next : {"read", "head", "ended"}]
    BY <1>1, <2>1 DEF Where, Points
  <2>3. \/ Settled(log', Passed', pending')
        \/ pending' = <<>> /\ TextBehind' /\ SettledBut(log', Passed')
    BY <1>2, <1>3, <1>4, <2>1
  <2>4. ParseInv' /\ NormalInv'
    BY <1>2, <1>3, <2>2, <2>3 DEF ParseInv, NormalInv, Talks
  <2> QED
    BY <1>1, <2>1, <2>2, <2>4
<1> QED
  BY <1>5, <1>6

\* The steps by which a transfer starts, or is left.
LEMMA LeaveStep ==
    ASSUME RouterTypeOK, pending \in Beginnings, ParseInv, NormalInv,
           pump.pc \in Talks,
           Serve \/ \E pc \in Talks : Goto(pc),
           UNCHANGED <<arrived, log, pending, normal, display>>
    PROVE  /\ ParseInv' /\ NormalInv'
           /\ pump' \in [pc : Points, next : {"read", "head", "ended"}]
<1>1. pending = <<>> /\ Settled(log, Passed, <<>>) /\ normal = <<>>
  BY DEF ParseInv, NormalInv, Where, Talks
<1>2. Passed' = Passed
  BY DEF Passed
<1>3. CASE Serve
  <2>1. Settled(log', Passed', pending') /\ pump.pc # "flush"
    BY <1>1, <1>2 DEF Talks
  <2> QED
    BY <1>3, <2>1, Served
<1>4. CASE \E pc \in Talks : Goto(pc)
  <2>1. PICK pc \in Talks : Goto(pc)
    BY <1>4
  <2>2. pump' = [pump EXCEPT !.pc = pc]
        /\ pump \in [pc : Points, next : {"read", "head", "ended"}]
    BY <2>1 DEF Goto, RouterTypeOK
  <2>3. pump'.pc = pc /\ Where' = pc
        /\ pump' \in [pc : Points, next : {"read", "head", "ended"}]
    BY <2>1, <2>2 DEF Where, Points, Talks
  <2>4. Settled(log', Passed', <<>>)
    BY <1>1, <1>2
  <2>5. ParseInv' /\ NormalInv'
    BY <1>1, <2>1, <2>3, <2>4 DEF ParseInv, NormalInv, Talks
  <2> QED
    BY <2>3, <2>5
<1> QED
  BY <1>3, <1>4

LEMMA TransferReadStep ==
    ASSUME RouterTypeOK, ParseInv, NormalInv, TransferRead
    PROVE  /\ ParseInv' /\ NormalInv'
           /\ pump' \in [pc : Points, next : {"read", "head", "ended"}]
<1>1. /\ pump.pc = "transfer" /\ log' = log /\ pending' = pending
      /\ normal' = normal
      /\ Passed' = Passed
  BY DEF TransferRead, Passed
<1>2. pending = <<>> /\ Settled(log, Passed, <<>>) /\ normal = <<>>
  BY <1>1 DEF ParseInv, NormalInv, Where, Talks
<1>3. /\ pump'.pc \in {"transfer", "write"} /\ Where' = pump'.pc
      /\ pump' \in [pc : Points, next : {"read", "head", "ended"}]
  BY DEF TransferRead, RouterTypeOK, Goto, Where, Points, Talks
<1>4. Settled(log', Passed', <<>>)
  BY <1>1, <1>2
<1> QED
  BY <1>1, <1>2, <1>3, <1>4 DEF ParseInv, NormalInv, Talks

\* The types of what the parser changes.
ParseTypeOK ==
    /\ pump \in [pc : Points, next : {"read", "head", "ended"}] /\ pending \in Beginnings
    /\ normal \in Seq(Items) /\ display \in Seq(Items) /\ log \in Seq(Text)
    /\ kind \in {"init", "other"} /\ eols \in 0..2

\* All steps.
LEMMA ParseStep ==
    ASSUME RouterInvariant, RouterNext
    PROVE  ParseInv' /\ NormalInv' /\ ParseTypeOK'
<1>1. RouterTypeOK /\ pending \in Beginnings /\ ParseInv /\ NormalInv
  BY DEF RouterInvariant
<1>2. ParseTypeOK /\ arrived \in Nat /\ taken \in Nat /\ closing \in 0..2
  BY <1>1, RouterTypeUse DEF RouterTypeOK, ParseTypeOK, Text
<1>3. ASSUME UNCHANGED <<stream, taken, log, pump, pending, normal, display, eols, kind>>,
             arrived' = arrived \/ arrived' = arrived + 1,
             closing' = closing \/ closing' = closing + 1
      PROVE  ParseInv' /\ NormalInv' /\ ParseTypeOK'
  <2>1. There => There'
    BY <1>2, <1>3 DEF There
  <2>2. closing' = 0 => closing = 0
    BY <1>2, <1>3
  <2>3. ParseTypeOK'
    BY <1>2, <1>3 DEF ParseTypeOK
  <2> QED
    BY <1>1, <1>3, <2>1, <2>2, <2>3, ParseFrame
<1>4. CASE Arrive
  BY <1>3, <1>4 DEF Arrive
<1>5. CASE Hangup
  BY <1>3, <1>5 DEF Hangup, incoming
<1>6. CASE StopReading
  BY <1>3, <1>6 DEF StopReading, incoming
<1>7. CASE ReadByte
  <2>1. /\ ParseInv' /\ NormalInv' /\ pending' \in Beginnings
        /\ pump' \in [pc : Points, next : {"read", "head", "ended"}]
        /\ normal' \in Seq(Items) /\ log' \in Seq(Text)
    BY <1>1, <1>7, ReadByteStep
  <2>2. display' = display /\ kind' = kind /\ eols' = eols
    BY <1>7 DEF ReadByte
  <2> QED
    BY <1>2, <2>1, <2>2 DEF ParseTypeOK
<1>8. CASE ReadEnds
  <2>1. /\ ParseInv' /\ NormalInv' /\ pending' \in Beginnings
        /\ pump' \in [pc : Points, next : {"read", "head", "ended"}]
        /\ normal' \in Seq(Items)
    BY <1>1, <1>8, ReadEndsStep
  <2>2. display' = display /\ kind' = kind /\ eols' = eols /\ log' = log
    BY <1>8 DEF ReadEnds
  <2> QED
    BY <1>2, <2>1, <2>2 DEF ParseTypeOK
<1>9. CASE Flush
  <2>1. /\ ParseInv' /\ NormalInv' /\ pending' \in Beginnings
        /\ pump' \in [pc : Points, next : {"read", "head", "ended"}]
        /\ normal' \in Seq(Items) /\ display' \in Seq(Items)
    BY <1>1, <1>9, FlushStep
  <2>2. kind' = kind /\ eols' = eols /\ log' = log
    BY <1>9 DEF Flush
  <2> QED
    BY <1>2, <2>1, <2>2 DEF ParseTypeOK
<1>10. CASE Head14
  <2>1. /\ ParseInv' /\ NormalInv' /\ pending' \in Beginnings
        /\ pump' \in [pc : Points, next : {"read", "head", "ended"}]
        /\ normal' \in Seq(Items) /\ log' \in Seq(Text)
        /\ kind' \in {"init", "other"} /\ eols' \in 0..2
    BY <1>1, <1>10, Head14Step
  <2>2. display' = display
    BY <1>10 DEF Head14
  <2> QED
    BY <1>2, <2>1, <2>2 DEF ParseTypeOK
<1>11. CASE EndOfLine
  <2>1. /\ ParseInv' /\ NormalInv'
        /\ pump' \in [pc : Points, next : {"read", "head", "ended"}]
        /\ log' \in Seq(Text) /\ eols' \in 0..2
    BY <1>1, <1>11, EndOfLineStep
  <2>2. display' = display /\ normal' = normal /\ pending' = pending /\ kind' = kind
    BY <1>11 DEF EndOfLine
  <2> QED
    BY <1>2, <2>1, <2>2 DEF ParseTypeOK
<1>12. CASE HeadEnds
  <2>1. /\ ParseInv' /\ NormalInv'
        /\ pump' \in [pc : Points, next : {"read", "head", "ended"}]
    BY <1>1, <1>12, HeadEndsStep
  <2>2. UNCHANGED <<display, normal, pending, kind, eols, log>>
    BY <1>12 DEF HeadEnds
  <2> QED
    BY <1>2, <2>1, <2>2 DEF ParseTypeOK
<1>13. CASE Begin
  <2>1. /\ ParseInv' /\ NormalInv'
        /\ pump' \in [pc : Points, next : {"read", "head", "ended"}]
        /\ log' \in Seq(Text)
    BY <1>1, <1>13, BeginStep
  <2>2. UNCHANGED <<display, normal, pending, kind, eols>>
    BY <1>13 DEF Begin
  <2> QED
    BY <1>2, <2>1, <2>2 DEF ParseTypeOK
<1>14. ASSUME pump.pc \in Talks, Serve \/ \E pc \in Talks : Goto(pc),
              UNCHANGED <<arrived, log, pending, normal, display, kind, eols>>
       PROVE  ParseInv' /\ NormalInv' /\ ParseTypeOK'
  <2>1. ParseInv' /\ NormalInv' /\ pump' \in [pc : Points, next : {"read", "head", "ended"}]
    BY <1>1, <1>14, LeaveStep
  <2> QED
    BY <1>2, <1>14, <2>1 DEF ParseTypeOK
<1>15. CASE Choose
  <2>1. pump.pc \in Talks /\ (Serve \/ \E pc \in Talks : Goto(pc))
    BY <1>15 DEF Choose, Steps, Talks
  <2>2. UNCHANGED <<arrived, log, pending, normal, display, kind, eols>>
    BY <1>15 DEF Choose, incoming
  <2> QED
    BY <1>14, <2>1, <2>2
<1>16. CASE HookCancelled
  <2>1. pump.pc \in Talks /\ (Serve \/ \E pc \in Talks : Goto(pc))
    BY <1>16 DEF HookCancelled, Steps, Talks
  <2>2. UNCHANGED <<arrived, log, pending, normal, display, kind, eols>>
    BY <1>16 DEF HookCancelled, incoming
  <2> QED
    BY <1>14, <2>1, <2>2
<1>17. CASE TransferWrites
  <2>1. pump.pc \in Talks /\ (Serve \/ \E pc \in Talks : Goto(pc))
    BY <1>17 DEF TransferWrites, Steps, Talks
  <2>2. UNCHANGED <<arrived, log, pending, normal, display, kind, eols>>
    BY <1>17 DEF TransferWrites, incoming
  <2> QED
    BY <1>14, <2>1, <2>2
<1>18. CASE TransferEnds
  <2>1. pump.pc \in Talks /\ (Serve \/ \E pc \in Talks : Goto(pc))
    BY <1>18 DEF TransferEnds, Leave, Steps, Talks
  <2>2. UNCHANGED <<arrived, log, pending, normal, display, kind, eols>>
    BY <1>18 DEF TransferEnds, incoming
  <2> QED
    BY <1>14, <2>1, <2>2
<1>19. CASE TransferCancelled
  <2>1. pump.pc \in Talks /\ (Serve \/ \E pc \in Talks : Goto(pc))
    BY <1>19 DEF TransferCancelled, Steps, Talks
  <2>2. UNCHANGED <<arrived, log, pending, normal, display, kind, eols>>
    BY <1>19 DEF TransferCancelled, incoming
  <2> QED
    BY <1>14, <2>1, <2>2
<1>20. CASE CancelWritten
  <2>1. pump.pc \in Talks /\ (Serve \/ \E pc \in Talks : Goto(pc))
    BY <1>20 DEF CancelWritten, Leave, Talks
  <2>2. UNCHANGED <<arrived, log, pending, normal, display, kind, eols>>
    BY <1>20 DEF CancelWritten, incoming
  <2> QED
    BY <1>14, <2>1, <2>2
<1>21. CASE TransferRead
  <2>1. /\ ParseInv' /\ NormalInv'
        /\ pump' \in [pc : Points, next : {"read", "head", "ended"}]
    BY <1>1, <1>21, TransferReadStep
  <2>2. UNCHANGED <<log, pending, normal, display, kind, eols>>
    BY <1>21 DEF TransferRead
  <2> QED
    BY <1>2, <2>1, <2>2 DEF ParseTypeOK
<1>22. CASE Timeout
  BY <1>3, <1>22 DEF Timeout, incoming
<1>23. CASE CloseRouter
  BY <1>3, <1>23 DEF CloseRouter, incoming
<1>24. ASSUME NEW w \in Writers, Write(w) PROVE ParseInv' /\ NormalInv' /\ ParseTypeOK'
  BY <1>3, <1>24 DEF Write, incoming
<1>25. ASSUME NEW w \in Writers, NEW key \in {"key", "ctrlc"}, Look(w, key)
       PROVE  ParseInv' /\ NormalInv' /\ ParseTypeOK'
  BY <1>3, <1>25 DEF Look, incoming
<1> QED
  BY <1>4, <1>5, <1>6, <1>7, <1>8, <1>9, <1>10, <1>11, <1>12, <1>13, <1>15, <1>16, <1>17, <1>18,
     <1>19, <1>20, <1>21, <1>22, <1>23, <1>24, <1>25 DEF RouterNext, Pump

\* The types of the stream, and of the keys and transfers.
StreamTypeOK ==
    /\ stream \in Streams /\ arrived \in 0..Len(stream) /\ eof \in BOOLEAN
    /\ taken \in 0..arrived /\ reading \in BOOLEAN /\ closing \in 0..2

KeyTypeOK ==
    /\ transfer \in Nat /\ transferring \in BOOLEAN
    /\ cancelled \subseteq 1..transfer /\ wanted \subseteq 1..transfer
    /\ writer \in [Writers -> [pc : {"idle", "key", "ctrlc"}, active : BOOLEAN, cancel : Nat,
                               seen : Nat]]
    /\ writes \in 0..MaxWrites
    /\ intruders \subseteq (Nat \X Nat)

\* Streams, their ends, and Close.
LEMMA StreamStep ==
    ASSUME RouterTypeOK, RouterNext
    PROVE  StreamTypeOK'
<1>1. /\ stream \in Streams /\ arrived \in 0..Len(stream) /\ taken \in 0..arrived
      /\ Len(stream) \in Nat
      /\ arrived \in Nat /\ taken \in Nat /\ eof \in BOOLEAN /\ reading \in BOOLEAN
      /\ closing \in 0..2
  BY RouterTypeUse DEF RouterTypeOK
<1>2. ASSUME stream' = stream, eof' = eof \/ eof' = TRUE, reading' = reading \/ reading' = FALSE,
             closing' = closing \/ (closing < 2 /\ closing' = closing + 1),
             \/ arrived' = arrived /\ (taken' = taken \/ (taken < arrived /\ taken' = taken + 1))
             \/ taken' = taken /\ arrived < Len(stream) /\ arrived' = arrived + 1
      PROVE  StreamTypeOK'
  <2>1. arrived' \in 0..Len(stream') /\ taken' \in 0..arrived'
    BY <1>1, <1>2
  <2>2. closing' \in 0..2
    BY <1>1, <1>2
  <2>3. eof' \in BOOLEAN /\ reading' \in BOOLEAN /\ stream' \in Streams
    BY <1>1, <1>2
  <2> QED
    BY <2>1, <2>2, <2>3 DEF StreamTypeOK
<1>3. CASE Arrive
  BY <1>2, <1>3 DEF Arrive
<1>4. CASE Hangup
  BY <1>2, <1>4 DEF Hangup
<1>5. CASE StopReading
  BY <1>2, <1>5 DEF StopReading, incoming
<1>6. CASE ReadByte
  BY <1>2, <1>6 DEF ReadByte, incoming, There
<1>7. CASE ReadEnds
  BY <1>2, <1>7 DEF ReadEnds, incoming
<1>8. CASE Flush
  BY <1>2, <1>8 DEF Flush, incoming
<1>9. CASE Head14
  BY <1>2, <1>9 DEF Head14, incoming, There
<1>10. CASE EndOfLine
  BY <1>2, <1>10 DEF EndOfLine, incoming, There
<1>11. CASE HeadEnds
  BY <1>2, <1>11 DEF HeadEnds, incoming
<1>12. CASE Begin
  BY <1>2, <1>12 DEF Begin, incoming
<1>13. CASE Choose \/ HookCancelled \/ TransferWrites \/ TransferEnds \/ TransferCancelled
            \/ CancelWritten
  BY <1>2, <1>13 DEF Choose, HookCancelled, TransferWrites, TransferEnds, TransferCancelled,
                     CancelWritten, Leave, Steps, incoming
<1>14. CASE TransferRead
  BY <1>2, <1>14 DEF TransferRead, incoming, There
<1>15. CASE Timeout
  BY <1>2, <1>15 DEF Timeout, incoming
<1>16. CASE CloseRouter
  BY <1>2, <1>16 DEF CloseRouter, incoming
<1>17. ASSUME NEW w \in Writers, Write(w) PROVE StreamTypeOK'
  BY <1>2, <1>17 DEF Write, incoming
<1>18. ASSUME NEW w \in Writers, NEW key \in {"key", "ctrlc"}, Look(w, key) PROVE StreamTypeOK'
  BY <1>2, <1>18 DEF Look, incoming
<1> QED
  BY <1>3, <1>4, <1>5, <1>6, <1>7, <1>8, <1>9, <1>10, <1>11, <1>12, <1>13, <1>14, <1>15, <1>16,
     <1>17, <1>18 DEF RouterNext, Pump

\* Steps that concern neither keys nor the beginning of transfers.
LEMMA KeysFrame ==
    ASSUME KeyTypeOK, WriterInv,
           UNCHANGED <<transfer, wanted, writer, writes, cancelled, intruders>>,
           transferring' = transferring \/ transferring' = FALSE
    PROVE  KeyTypeOK' /\ WriterInv'
<1>1. KeyTypeOK'
  BY DEF KeyTypeOK
<1>2. WriterInv'
  BY DEF WriterInv
<1> QED
  BY <1>1, <1>2

\* Keys and transfers: all steps.
LEMMA KeysStep ==
    ASSUME KeyTypeOK, WriterInv, RouterNext
    PROVE  KeyTypeOK' /\ WriterInv'
<1>1. /\ transfer \in Nat /\ transferring \in BOOLEAN
      /\ cancelled \subseteq 1..transfer /\ wanted \subseteq 1..transfer
      /\ writer \in [Writers -> [pc : {"idle", "key", "ctrlc"}, active : BOOLEAN, cancel : Nat,
                                 seen : Nat]]
      /\ writes \in 0..MaxWrites /\ MaxWrites \in Nat
      /\ intruders \subseteq (Nat \X Nat)
  BY RouterAssumption DEF KeyTypeOK
<1>2. CASE Arrive \/ Hangup \/ StopReading \/ CloseRouter
  <2>1. UNCHANGED <<transfer, transferring, wanted, writer, writes, cancelled, intruders>>
    BY <1>2 DEF Arrive, Hangup, StopReading, CloseRouter
  <2> QED
    BY <2>1, KeysFrame
<1>3. CASE ReadByte \/ ReadEnds \/ Flush \/ Head14 \/ EndOfLine \/ HeadEnds \/ TransferRead
  <2>1. UNCHANGED <<transfer, transferring, wanted, writer, writes, cancelled, intruders>>
    BY <1>3 DEF ReadByte, ReadEnds, Flush, Head14, EndOfLine, HeadEnds, TransferRead
  <2> QED
    BY <2>1, KeysFrame
<1>4. CASE Choose \/ HookCancelled \/ TransferWrites \/ TransferEnds \/ TransferCancelled
           \/ CancelWritten
  <2>1. UNCHANGED <<transfer, wanted, writer, writes, cancelled, intruders>>
    BY <1>4 DEF Choose, HookCancelled, TransferWrites, TransferEnds, TransferCancelled,
                CancelWritten
  <2>2. transferring' = transferring \/ transferring' = FALSE
    BY <1>4 DEF Choose, HookCancelled, TransferWrites, TransferEnds, TransferCancelled,
                CancelWritten, Leave, Steps
  <2> QED
    BY <2>1, <2>2, KeysFrame
<1>5. CASE Begin
  <2>1. UNCHANGED <<wanted, writer, writes, cancelled, intruders>>
    BY <1>5 DEF Begin
  <2>2. CASE UNCHANGED <<transfer, transferring>>
    BY <2>1, <2>2, KeysFrame
  <2>3. CASE transfer' = transfer + 1 /\ transferring' = TRUE
    <3>1. KeyTypeOK'
      <4>1. 1..transfer \subseteq 1..transfer + 1 /\ transfer + 1 \in Nat
        BY <1>1
      <4> QED
        BY <1>1, <2>1, <2>3, <4>1 DEF KeyTypeOK
    <3>2. ASSUME NEW w \in Writers
          PROVE  /\ writer'[w].pc = "ctrlc" /\ writer'[w].active => writer'[w].cancel \in wanted'
                 /\ writer'[w].pc # "idle" /\ ~writer'[w].active => writer'[w].seen < transfer'
      <4>1. writer'[w] = writer[w] /\ writer[w].seen \in Nat
        BY <1>1, <2>1
      <4>2. writer[w].pc = "ctrlc" /\ writer[w].active => writer[w].cancel \in wanted
        BY DEF WriterInv
      <4>3. writer[w].pc # "idle" /\ ~writer[w].active => writer[w].seen <= transfer
        BY DEF WriterInv
      <4>4. writer[w].seen <= transfer => writer[w].seen < transfer'
        BY <1>1, <2>3, <4>1
      <4> QED
        BY <2>1, <4>1, <4>2, <4>3, <4>4
    <3>3. ASSUME NEW w \in Writers PROVE writer'[w].seen < transfer' => writer'[w].seen <= transfer'
      <4>1. writer'[w].seen \in Nat /\ transfer' \in Nat
        BY <1>1, <2>1, <2>3
      <4> QED
        BY <4>1
    <3>4. transfer' > 0 /\ cancelled' \subseteq wanted' /\ \A i \in intruders' : i[1] < i[2]
      BY <1>1, <2>1, <2>3 DEF WriterInv
    <3>5. WriterInv'
      BY <3>2, <3>3, <3>4 DEF WriterInv
    <3> QED
      BY <3>1, <3>5
  <2> QED
    BY <1>5, <2>2, <2>3 DEF Begin
<1>6. CASE Timeout
  <2>1. /\ transferring /\ cancelled' = cancelled \cup {transfer}
        /\ wanted' = wanted \cup {transfer}
        /\ UNCHANGED <<transfer, transferring, writer, writes, intruders>>
    BY <1>6 DEF Timeout
  <2>2. transfer \in 1..transfer
    BY <1>1, <2>1 DEF WriterInv
  <2>3. KeyTypeOK'
    BY <1>1, <2>1, <2>2 DEF KeyTypeOK
  <2>4. WriterInv'
    <3>1. cancelled' \subseteq wanted' /\ wanted \subseteq wanted'
      BY <2>1 DEF WriterInv
    <3>2. ASSUME NEW w \in Writers
          PROVE  /\ writer'[w].pc = "ctrlc" /\ writer'[w].active => writer'[w].cancel \in wanted'
                 /\ writer'[w].pc # "idle" /\ ~writer'[w].active =>
                       writer'[w].seen <= transfer'
                       /\ (transferring' => writer'[w].seen < transfer')
      BY <2>1, <3>1 DEF WriterInv
    <3>3. (transferring' => transfer' > 0) /\ \A i \in intruders' : i[1] < i[2]
      BY <2>1 DEF WriterInv
    <3> QED
      BY <3>1, <3>2, <3>3 DEF WriterInv
  <2> QED
    BY <2>3, <2>4
<1>7. ASSUME NEW w \in Writers, Write(w) PROVE KeyTypeOK' /\ WriterInv'
  <2>1. /\ writer[w].pc # "idle" /\ cancelled' = cancelled \cup Target(w)
        /\ intruders' = IF Passes(w) /\ transferring
                          THEN intruders \cup {<<writer[w].seen, transfer>>} ELSE intruders
        /\ writer' = [writer EXCEPT ![w] = NoWrite]
        /\ UNCHANGED <<transfer, transferring, wanted, writes>>
    BY <1>7 DEF Write
  <2>2. Target(w) \subseteq wanted
    BY DEF Target, WriterInv
  <2>3. writer[w].seen \in Nat
    BY <1>1
  <2>4. Passes(w) /\ transferring => writer[w].seen < transfer
    BY <2>1 DEF Passes, WriterInv
  <2>5. NoWrite \in [pc : {"idle", "key", "ctrlc"}, active : BOOLEAN, cancel : Nat, seen : Nat]
    BY DEF NoWrite
  <2>6. writer' \in [Writers -> [pc : {"idle", "key", "ctrlc"}, active : BOOLEAN, cancel : Nat,
                               seen : Nat]]
    BY <1>1, <2>1, <2>5
  <2>7. cancelled' \subseteq wanted' /\ cancelled' \subseteq 1..transfer'
    BY <1>1, <2>1, <2>2 DEF WriterInv
  <2>8. intruders' \subseteq Nat \X Nat /\ \A i \in intruders' : i[1] < i[2]
    <3>1. CASE Passes(w) /\ transferring
      <4>1. intruders' = intruders \cup {<<writer[w].seen, transfer>>}
        BY <2>1, <3>1
      <4>2. <<writer[w].seen, transfer>> \in Nat \X Nat
        BY <1>1, <2>3
      <4>3. ASSUME NEW i \in intruders' PROVE i[1] < i[2]
        <5>1. CASE i \in intruders
          BY <5>1 DEF WriterInv
        <5>2. CASE i = <<writer[w].seen, transfer>>
          BY <2>4, <3>1, <5>2
        <5> QED
          BY <4>1, <5>1, <5>2
      <4> QED
        BY <1>1, <4>1, <4>2, <4>3
    <3>2. CASE ~(Passes(w) /\ transferring)
      BY <1>1, <2>1, <3>2 DEF WriterInv
    <3> QED
      BY <3>1, <3>2
  <2>9. ASSUME NEW v \in Writers
        PROVE  /\ writer'[v].pc = "ctrlc" /\ writer'[v].active => writer'[v].cancel \in wanted'
               /\ writer'[v].pc # "idle" /\ ~writer'[v].active =>
                     writer'[v].seen <= transfer' /\ (transferring' => writer'[v].seen < transfer')
    <3>1. CASE v = w
      <4>1. writer'[v] = NoWrite
        BY <1>1, <2>1, <3>1
      <4> QED
        BY <4>1 DEF NoWrite
    <3>2. CASE v # w
      <4>1. writer'[v] = writer[v]
        BY <1>1, <2>1, <3>2
      <4> QED
        BY <2>1, <4>1 DEF WriterInv
    <3> QED
      BY <3>1, <3>2
  <2>10. KeyTypeOK'
    BY <1>1, <2>1, <2>6, <2>7, <2>8 DEF KeyTypeOK
  <2>11. WriterInv'
    <3>1. transferring' => transfer' > 0
      BY <2>1 DEF WriterInv
    <3> QED
      BY <2>7, <2>8, <2>9, <3>1 DEF WriterInv
  <2> QED
    BY <2>10, <2>11
<1>8. ASSUME NEW w \in Writers, NEW key \in {"key", "ctrlc"}, Look(w, key)
      PROVE  KeyTypeOK' /\ WriterInv'
  <2> DEFINE r == [pc |-> key, active |-> transferring,
                   cancel |-> IF transferring THEN transfer ELSE 0, seen |-> transfer]
  <2>1. /\ writes < MaxWrites /\ writes' = writes + 1
        /\ writer' = [writer EXCEPT ![w] = r]
        /\ wanted' = IF transferring /\ key = "ctrlc" THEN wanted \cup {transfer} ELSE wanted
        /\ UNCHANGED <<transfer, transferring, cancelled, intruders>>
    BY <1>8 DEF Look
  <2>2. /\ r \in [pc : {"idle", "key", "ctrlc"}, active : BOOLEAN, cancel : Nat, seen : Nat]
        /\ r.pc = key /\ r.active = transferring /\ (transferring => r.cancel = transfer)
        /\ r.seen = transfer
    BY <1>1
  <2> HIDE DEF r
  <2>3. wanted' \subseteq 1..transfer /\ wanted \subseteq wanted'
        /\ (transferring /\ key = "ctrlc" => transfer \in wanted')
    <3>1. transferring => transfer \in 1..transfer
      BY <1>1 DEF WriterInv
    <3> QED
      BY <1>1, <2>1, <3>1
  <2>4. writes' \in 0..MaxWrites
    BY <1>1, <2>1
  <2>5. KeyTypeOK'
    BY <1>1, <2>1, <2>2, <2>3, <2>4 DEF KeyTypeOK
  <2>6. ASSUME NEW v \in Writers
        PROVE  /\ writer'[v].pc = "ctrlc" /\ writer'[v].active => writer'[v].cancel \in wanted'
               /\ writer'[v].pc # "idle" /\ ~writer'[v].active =>
                     writer'[v].seen <= transfer' /\ (transferring' => writer'[v].seen < transfer')
    <3>1. CASE v = w
      <4>1. writer'[v] = r
        BY <1>1, <2>1, <3>1
      <4>2. transfer <= transfer
        BY <1>1
      <4> QED
        BY <2>1, <2>2, <2>3, <4>1, <4>2
    <3>2. CASE v # w
      <4>1. writer'[v] = writer[v]
        BY <1>1, <2>1, <3>2
      <4> QED
        BY <2>1, <2>3, <4>1 DEF WriterInv
    <3> QED
      BY <3>1, <3>2
  <2>7. WriterInv'
    <3>1. (transferring' => transfer' > 0) /\ cancelled' \subseteq wanted'
          /\ \A i \in intruders' : i[1] < i[2]
      BY <2>1, <2>3 DEF WriterInv
    <3> QED
      BY <2>6, <3>1 DEF WriterInv
  <2> QED
    BY <2>5, <2>7
<1> QED
  BY <1>2, <1>3, <1>4, <1>5, <1>6, <1>7, <1>8 DEF RouterNext, Pump

-----------------------------------------------------------------------------
\* The invariant is inductive, ...
LEMMA RouterStep == RouterInvariant /\ [RouterNext]_routerVars => RouterInvariant'
<1> SUFFICES ASSUME RouterInvariant, [RouterNext]_routerVars PROVE RouterInvariant'
  OBVIOUS
<1>1. CASE RouterNext
  <2>1. ParseInv' /\ NormalInv' /\ ParseTypeOK'
    BY <1>1, ParseStep
  <2>2. RouterTypeOK /\ WriterInv
    BY DEF RouterInvariant
  <2>3. StreamTypeOK'
    BY <1>1, <2>2, StreamStep
  <2>4. KeyTypeOK
    BY <2>2 DEF RouterTypeOK, KeyTypeOK
  <2>5. KeyTypeOK' /\ WriterInv'
    BY <1>1, <2>2, <2>4, KeysStep
  <2>6. pending' \in Beginnings /\ IsStrictPrefix(pending', Magic)
    <3>1. pending' \in Beginnings
      BY <2>1 DEF ParseTypeOK
    <3> QED
      BY <3>1, BeginningIsPrefix
  <2>7. RouterTypeOK'
    BY <2>1, <2>3, <2>5, <2>6 DEF RouterTypeOK, ParseTypeOK, StreamTypeOK, KeyTypeOK, Text
  <2> QED
    BY <2>1, <2>5, <2>6, <2>7 DEF RouterInvariant
<1>2. CASE UNCHANGED routerVars
  <2>1. /\ UNCHANGED <<stream, arrived, eof, taken, log, pump, pending, normal, display>>
        /\ UNCHANGED <<reading, eols, kind, transfer, transferring, cancelled, wanted, closing>>
        /\ UNCHANGED <<writer, writes, intruders>>
    BY <1>2 DEF routerVars, incoming
  <2>2. RouterTypeOK /\ ParseInv /\ NormalInv /\ WriterInv /\ pending \in Beginnings
    BY DEF RouterInvariant
  <2>3. ParseInv' /\ NormalInv'
    <3>1. (There => There') /\ (closing' = 0 => closing = 0)
      BY <2>1 DEF There
    <3> QED
      BY <2>1, <2>2, <3>1, ParseFrame
  <2>4. RouterTypeOK'
    BY <2>1, <2>2 DEF RouterTypeOK
  <2>5. WriterInv'
    BY <2>1, <2>2 DEF WriterInv
  <2> QED
    BY <2>1, <2>2, <2>3, <2>4, <2>5 DEF RouterInvariant
<1> QED
  BY <1>1, <1>2

\* ... and gives the property.
LEMMA RouterInvariantSuffices == RouterInvariant => RouterIsTransparent
<1> SUFFICES ASSUME RouterInvariant PROVE RouterIsTransparent
  OBVIOUS
<1>1. RouterTypeOK /\ ParseInv /\ NormalInv /\ WriterInv /\ pending \in Beginnings
  BY DEF RouterInvariant
<1>2. /\ log \in Seq(Text) /\ normal \in Seq(Text) /\ display \in Seq(Text) /\ Passed \in Seq(Text)
      /\ pending \in Seq(Text) /\ pump.pc \in Points /\ Magic \in Seq(Text)
      /\ kind \in {"init", "other"} /\ eols \in 0..2
      /\ (pump.pc = "flush" => pump.next \in {"read", "head", "ended"})
  BY <1>1, RouterTypeUse, BeginningIs, MagicIs DEF RouterTypeOK
<1>3. Passed \o <<>> = Passed /\ <<>> \in Seq(Text)
  BY <1>2, ConcatEmptySeq
<1>4. Where = "read" => Plain[log] = Passed \o pending
  <2> SUFFICES ASSUME Where = "read" PROVE Plain[log] = Passed \o pending
    OBVIOUS
  <2>1. Settled(log, Passed, pending) \/ (pending = <<>> /\ SettledBut(log, Passed))
    BY <1>1 DEF ParseInv
  <2> QED
    BY <1>1, <1>2, <2>1, SettledEnds
<1>5. \E r \in Seq(Text) : Plain[log] = Passed \o r
  <2>1. CASE Where = "read"
    BY <1>2, <1>4, <2>1
  <2>2. CASE Where = "head"
    <3>1. Settled(log, Passed, Magic)
      BY <1>1, <2>2 DEF ParseInv
    <3>2. Plain[log] = Passed \o Magic
      BY <1>2, <3>1, SettledEnds
    <3> QED
      BY <1>2, <3>2
  <2>3. CASE Where \in {"eol", "begin"}
    <3>1. Settled(log, Passed, HeaderOf(kind, eols))
      BY <1>1, <2>3 DEF ParseInv
    <3>2. Plain[log] = Passed
      BY <1>2, <3>1, SettledBegin
    <3> QED
      BY <1>3, <3>2
  <2>4. CASE Where \in Talks
    <3>1. Settled(log, Passed, <<>>)
      BY <1>1, <2>4 DEF ParseInv
    <3>2. Plain[log] = Passed \o <<>>
      BY <1>2, <3>1, SettledEnds DEF Beginnings
    <3> QED
      BY <1>3, <3>2
  <2>5. CASE Where = "ended" /\ pump.pc = "flush"
    <3>1. Plain[log] = Passed
      BY <1>1, <2>5 DEF ParseInv
    <3> QED
      BY <1>3, <3>1
  <2>6. CASE pump.pc = "ended"
    BY <1>1, <2>6 DEF ParseInv
  <2>7. \/ Where = "read" \/ Where = "head" \/ Where \in {"eol", "begin"}
        \/ Where \in Talks
        \/ (Where = "ended" /\ pump.pc = "flush") \/ pump.pc = "ended"
    BY <1>2 DEF Where, Points
  <2> QED
    BY <2>1, <2>2, <2>3, <2>4, <2>5, <2>6, <2>7
<1>6. ShownIsPlain
  <2>1. pump.pc = "read" => display \o normal \o pending = Plain[log]
    BY <1>4 DEF Where, Passed
  <2>2. IsPrefix(display, Plain[log])
    <3>1. PICK r \in Seq(Text) : Plain[log] = Passed \o r
      BY <1>5
    <3>2. (display \o normal) \o r = display \o (normal \o r) /\ normal \o r \in Seq(Text)
      <4>1. normal \o r \in Seq(Text)
        BY <1>2, <3>1, ConcatProperties
      <4>2. \A u, v \in Seq(Text) : (u \o v) \o r = u \o (v \o r)
        BY <3>1, Associative
      <4>3. (display \o normal) \o r = display \o (normal \o r)
        BY <1>2, <4>2
      <4> QED
        BY <4>1, <4>3
    <3> DEFINE t == normal \o r
    <3>3. Plain[log] = display \o t /\ t \in Seq(Text)
      BY <3>1, <3>2 DEF Passed
    <3> HIDE DEF t
    <3> QED
      BY <1>2, <3>3, FrontIsPrefix
  <2>3. pump.pc = "ended" /\ closing = 0 => Plain[log] \in {display, display \o Magic}
    <3> SUFFICES ASSUME pump.pc = "ended", closing = 0
                 PROVE  Plain[log] \in {display, display \o Magic}
      OBVIOUS
    <3>1. PICK r \in Seq(Text) : Plain[log] = Passed \o r /\ r \in {<<>>, Magic}
      BY <1>1 DEF ParseInv
    <3>2. normal = <<>> /\ display \o <<>> = display
      BY <1>1, <1>2, ConcatEmptySeq DEF NormalInv
    <3>3. Passed = display
      BY <3>2 DEF Passed
    <3> QED
      BY <3>1, <3>2, <3>3
  <2> QED
    BY <2>1, <2>2, <2>3 DEF ShownIsPlain
<1>7. HeldBackIsShort
  BY <1>1 DEF HeldBackIsShort, NormalInv
<1>8. KeysStayOut /\ CancelIsMeant
  BY <1>1 DEF KeysStayOut, CancelIsMeant, WriterInv
<1> QED
  BY <1>1, <1>6, <1>7, <1>8 DEF RouterIsTransparent

\* Whatever the server sends, however it arrives, and whoever types: the view gets
\* every byte that pump of router.go reads once and in order, but for the headers of
\* transfers and their line ends (ShownIsPlain); nothing but a beginning of the
\* magic is held back (HeldBackIsShort); keys reach the server during a transfer
\* only from a Write that had looked before (KeysStayOut), and a Ctrl-C only ends
\* the transfer it was typed in (CancelIsMeant).
THEOREM RouterIsTransparentTheorem == RouterSpec => []RouterIsTransparent
<1>1. RouterSpec => []RouterInvariant
  BY RouterInitially, RouterStep, PTL DEF RouterSpec
<1> QED
  BY <1>1, RouterInvariantSuffices, PTL
=============================================================================
