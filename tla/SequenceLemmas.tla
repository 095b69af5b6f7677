--------------------------- MODULE SequenceLemmas ---------------------------
(***************************************************************************)
(* Facts about sequences of numbers that the proofs share: a buffer put in *)
(* front of a queue or moved from one sequence to another, the sequence of *)
(* the first n numbers, queues that no number is in twice, and sequences   *)
(* joined to one.                                                          *)
(***************************************************************************)
EXTENDS Integers, Sequences, SequencesExt, SequenceTheorems,
        WellFoundedInduction, TLAPS

(* A buffer in front of a queue. *)
LEMMA ConsProperties ==
  ASSUME NEW q \in Seq(Nat), NEW b \in Nat
  PROVE  /\ <<b>> \o q \in Seq(Nat)
         /\ <<b>> \o q # <<>>
         /\ Head(<<b>> \o q) = b
         /\ Tail(<<b>> \o q) = q
<1>1. <<b>> \in Seq(Nat) /\ Len(<<b>>) = 1 /\ <<b>>[1] = b
  OBVIOUS
<1> DEFINE c == <<b>> \o q
<1>2. /\ c \in Seq(Nat)
      /\ Len(c) = 1 + Len(q)
      /\ \A i \in 1..(1 + Len(q)) : c[i] = IF i <= 1 THEN <<b>>[i] ELSE q[i - 1]
  BY <1>1, ConcatProperties
<1>3. Len(q) \in Nat
  BY LenProperties
<1>4. c # <<>>
  BY <1>2, <1>3, EmptySeq
<1>5. Head(c) = b
  BY <1>1, <1>2, <1>3
<1>6. /\ Tail(c) \in Seq(Nat) /\ Len(Tail(c)) = Len(q)
      /\ \A i \in 1..Len(q) : Tail(c)[i] = c[i + 1]
  BY <1>2, <1>3, <1>4, HeadTailProperties
<1>7. \A i \in 1..Len(q) : Tail(c)[i] = q[i]
  BY <1>2, <1>3, <1>6
<1>8. Tail(c) = q
  BY <1>6, <1>7, SeqEqual
<1> QED
  BY <1>2, <1>4, <1>5, <1>8

(* The front of a queue, put back. *)
LEMMA HeadConsTail ==
  ASSUME NEW q \in Seq(Nat), q # <<>>
  PROVE  <<Head(q)>> \o Tail(q) = q
<1>1. /\ Head(q) \in Nat /\ Tail(q) \in Seq(Nat)
      /\ Len(Tail(q)) = Len(q) - 1
      /\ \A i \in 1..Len(Tail(q)) : Tail(q)[i] = q[i + 1]
  BY HeadTailProperties
<1>2. <<Head(q)>> \in Seq(Nat) /\ Len(<<Head(q)>>) = 1 /\ <<Head(q)>>[1] = q[1]
  BY <1>1
<1>3. Len(q) \in Nat \ {0}
  BY EmptySeq
<1> DEFINE c == <<Head(q)>> \o Tail(q)
<1>4. /\ c \in Seq(Nat) /\ Len(c) = Len(q)
      /\ \A i \in 1..Len(q) :
           c[i] = IF i <= 1 THEN <<Head(q)>>[i] ELSE Tail(q)[i - 1]
  BY <1>1, <1>2, <1>3, ConcatProperties
<1>5. \A i \in 1..Len(q) : c[i] = q[i]
  BY <1>1, <1>2, <1>3, <1>4
<1> QED
  BY <1>4, <1>5, SeqEqual

(* A sequence and a member more, by their values. *)
LEMMA AppendedAt ==
  ASSUME NEW T, NEW s \in Seq(T), NEW x \in T
  PROVE  Append(s, x) =
           [i \in 1..(Len(s) + 1) |-> IF i <= Len(s) THEN s[i] ELSE x]
<1> DEFINE k == Len(s)
           a == Append(s, x)
           h == [i \in 1..(k + 1) |-> IF i <= k THEN s[i] ELSE x]
<1>1. /\ k \in Nat /\ a \in Seq(T) /\ Len(a) = k + 1
      /\ \A i \in 1..k : a[i] = s[i]
      /\ a[k + 1] = x
  BY AppendProperties, LenProperties
<1>2. a \in [1..(k + 1) -> T]
  BY <1>1, LenProperties
<1> HIDE DEF a, k
<1>3. ASSUME NEW i \in 1..(k + 1) PROVE h[i] = a[i]
  <2>1. CASE i \in 1..k
    BY <1>1, <2>1
  <2>2. CASE i \notin 1..k
    BY <1>1, <2>2
  <2> QED
    BY <2>1, <2>2
<1>4. DOMAIN h = 1..(k + 1) /\ h = [i \in 1..(k + 1) |-> h[i]]
  OBVIOUS
<1> HIDE DEF h
<1>5. h = a
  BY <1>2, <1>3, <1>4
<1> QED
  BY <1>5 DEF a, h, k

(* ... and a function that has these values. *)
Appends(g, s, x, n) ==
  /\ DOMAIN g = 1..(n + 1) /\ g = [i \in 1..(n + 1) |-> g[i]]
  /\ \A i \in 1..n : g[i] = s[i]
  /\ g[n + 1] = x

(* It is the longer sequence. *)
LEMMA AppendIs ==
  ASSUME NEW T, NEW s \in Seq(T), NEW x \in T, NEW g,
         Appends(g, s, x, Len(s))
  PROVE  g = Append(s, x)
<1> DEFINE n == Len(s)
           h == [i \in 1..(n + 1) |-> IF i <= n THEN s[i] ELSE x]
<1>1. /\ n \in Nat
      /\ DOMAIN g = 1..(n + 1) /\ g = [i \in 1..(n + 1) |-> g[i]]
      /\ \A i \in 1..n : g[i] = s[i]
      /\ g[n + 1] = x
  BY LenProperties DEF Appends
<1>2. \A i \in 1..(n + 1) : (i \in 1..n /\ i <= n) \/ (i = n + 1 /\ ~(i <= n))
  BY <1>1
<1>3. \A i \in 1..(n + 1) : h[i] = g[i]
  BY <1>1, <1>2
<1>4. DOMAIN h = 1..(n + 1) /\ h = [i \in 1..(n + 1) |-> h[i]]
  OBVIOUS
<1>5. Append(s, x) = h
  BY AppendedAt
<1> HIDE DEF h
<1>6. g = h
  BY <1>1, <1>3, <1>4
<1> QED
  BY <1>5, <1>6

(* Appending to the second of two sequences. *)
LEMMA ConcatAppend ==
  ASSUME NEW p \in Seq(Nat), NEW q \in Seq(Nat), NEW x \in Nat
  PROVE  p \o Append(q, x) = Append(p \o q, x)
<1>1. <<x>> \in Seq(Nat) /\ p \o q \in Seq(Nat)
  BY ConcatProperties
<1>2. Append(q, x) = q \o <<x>> /\ Append(p \o q, x) = (p \o q) \o <<x>>
  BY <1>1, AppendIsConcat
<1> QED
  BY <1>1, <1>2, ConcatAssociative

(* Moving the head of the second sequence to the end of the first. *)
LEMMA MoveHead ==
  ASSUME NEW p \in Seq(Nat), NEW q \in Seq(Nat), q # <<>>
  PROVE  Append(p, Head(q)) \o Tail(q) = p \o q
<1>1. /\ Head(q) = q[1] /\ Head(q) \in Nat /\ Tail(q) \in Seq(Nat)
      /\ Len(Tail(q)) = Len(q) - 1
      /\ \A i \in 1..Len(Tail(q)) : Tail(q)[i] = q[i + 1]
      /\ Len(q) \in Nat \ {0} /\ Len(p) \in Nat
  BY HeadTailProperties, EmptySeq, LenProperties
<1> DEFINE a == Append(p, Head(q))
           l == a \o Tail(q)
           r == p \o q
<1>2. /\ a \in Seq(Nat) /\ Len(a) = Len(p) + 1
      /\ \A i \in 1..Len(p) : a[i] = p[i]
      /\ a[Len(p) + 1] = Head(q)
  BY <1>1, AppendProperties
<1>3. /\ l \in Seq(Nat) /\ Len(l) = Len(p) + Len(q)
      /\ \A i \in 1..(Len(p) + Len(q)) :
           l[i] = IF i <= Len(p) + 1 THEN a[i] ELSE Tail(q)[i - (Len(p) + 1)]
  <2>1. /\ l \in Seq(Nat) /\ Len(l) = Len(a) + Len(Tail(q))
        /\ \A i \in 1..(Len(a) + Len(Tail(q))) :
             l[i] = IF i <= Len(a) THEN a[i] ELSE Tail(q)[i - Len(a)]
    BY <1>1, <1>2, ConcatProperties
  <2>2. Len(a) + Len(Tail(q)) = Len(p) + Len(q)
    BY <1>1, <1>2
  <2> QED
    BY <1>2, <2>1, <2>2
<1>4. /\ r \in Seq(Nat) /\ Len(r) = Len(p) + Len(q)
      /\ \A i \in 1..(Len(p) + Len(q)) :
           r[i] = IF i <= Len(p) THEN p[i] ELSE q[i - Len(p)]
  BY ConcatProperties
<1>5. ASSUME NEW i \in 1..(Len(p) + Len(q)) PROVE l[i] = r[i]
  <2>1. CASE i <= Len(p)
    <3>1. i \in 1..Len(p)
      BY <2>1, <1>1
    <3> QED
      BY <2>1, <3>1, <1>1, <1>2, <1>3, <1>4
  <2>2. CASE i = Len(p) + 1
    <3>1. i - Len(p) = 1 /\ ~(i <= Len(p)) /\ i <= Len(p) + 1
      BY <2>2, <1>1
    <3> QED
      BY <2>2, <3>1, <1>1, <1>2, <1>3, <1>4
  <2>3. CASE i > Len(p) + 1
    <3>1. /\ i - (Len(p) + 1) \in 1..Len(Tail(q))
          /\ (i - (Len(p) + 1)) + 1 = i - Len(p)
          /\ ~(i <= Len(p)) /\ ~(i <= Len(p) + 1)
      BY <2>3, <1>1
    <3>2. Tail(q)[i - (Len(p) + 1)] = q[i - Len(p)]
      BY <3>1, <1>1
    <3> QED
      BY <3>1, <3>2, <1>3, <1>4
  <2> QED
    BY <2>1, <2>2, <2>3, <1>1
<1> QED
  BY <1>3, <1>4, <1>5, SeqEqual

(* The sequence 1, 2, ..., n. *)
Count(n) == [k \in 1..n |-> k]

(* It starts empty and grows by appending the next number. *)
LEMMA CountProperties ==
  /\ <<>> \o <<>> = Count(0)
  /\ \A n \in Nat : Count(n) \in Seq(Nat) /\ Len(Count(n)) = n
  /\ \A n \in Nat : Append(Count(n), n + 1) = Count(n + 1)
<1>1. ASSUME NEW n \in Nat
      PROVE  Count(n) \in Seq(Nat) /\ Len(Count(n)) = n
  <2>1. \A k \in 1..n : Count(n)[k] \in Nat
    BY DEF Count
  <2> QED
    BY <2>1 DEF Count
<1>2. <<>> \o <<>> = Count(0)
  <2>1. Count(0) = <<>>
    BY <1>1, EmptySeq
  <2> QED
    BY <2>1
<1>3. ASSUME NEW n \in Nat PROVE Append(Count(n), n + 1) = Count(n + 1)
  <2> DEFINE a == Append(Count(n), n + 1)
  <2>1. /\ a \in Seq(Nat) /\ Len(a) = n + 1
        /\ \A i \in 1..n : a[i] = Count(n)[i]
        /\ a[n + 1] = n + 1
    <3>1. Count(n) \in Seq(Nat) /\ Len(Count(n)) = n /\ n + 1 \in Nat
      BY <1>1
    <3> HIDE DEF a
    <3>2. a = Append(Count(n), n + 1)
      BY DEF a
    <3> QED
      BY <3>1, <3>2, AppendProperties
  <2>2. ASSUME NEW i \in 1..(n + 1) PROVE a[i] = Count(n + 1)[i]
    <3>0. i \in 1..n \/ i = n + 1
      OBVIOUS
    <3>1. CASE i \in 1..n
      BY <3>1, <2>1 DEF Count
    <3>2. CASE i = n + 1
      BY <3>2, <2>1 DEF Count
    <3> QED
      BY <3>0, <3>1, <3>2
  <2>3. Count(n + 1) \in Seq(Nat) /\ Len(Count(n + 1)) = n + 1
    BY <1>1
  <2> QED
    BY <2>1, <2>2, <2>3, SeqEqual
<1> QED
  BY <1>1, <1>2, <1>3

-----------------------------------------------------------------------------
(* Queues that no number is in twice. *)

Members(q) == {q[i] : i \in 1..Len(q)}

Distinct(q) == \A i, j \in 1..Len(q) : q[i] = q[j] => i = j

(* A number that is not in a queue yet goes to its end. *)
LEMMA MembersAppend ==
  ASSUME NEW q \in Seq(Nat), NEW x \in Nat
  PROVE  /\ Members(Append(q, x)) = Members(q) \cup {x}
         /\ Distinct(q) /\ x \notin Members(q) => Distinct(Append(q, x))
<1> DEFINE a == Append(q, x)
<1>1. /\ Len(q) \in Nat /\ Len(a) = Len(q) + 1
      /\ \A i \in 1..Len(q) : a[i] = q[i]
      /\ a[Len(q) + 1] = x
  BY AppendProperties, LenProperties
<1> HIDE DEF a
<1>2. \A i \in 1..Len(a) : i \in 1..Len(q) \/ i = Len(q) + 1
  BY <1>1
<1>3. \A i \in 1..Len(q) : i \in 1..Len(a)
  BY <1>1
<1>4. Len(q) + 1 \in 1..Len(a)
  BY <1>1
<1>5. Members(a) = Members(q) \cup {x}
  BY <1>1, <1>2, <1>3, <1>4 DEF Members
<1>6. ASSUME Distinct(q), x \notin Members(q),
             NEW i \in 1..Len(a), NEW j \in 1..Len(a), a[i] = a[j]
      PROVE  i = j
  BY <1>1, <1>2, <1>6 DEF Members, Distinct
<1>7. Distinct(q) /\ x \notin Members(q) => Distinct(a)
  BY <1>6 DEF Distinct
<1> QED
  BY <1>5, <1>7 DEF a

(* The front leaves a queue. *)
LEMMA MembersTail ==
  ASSUME NEW q \in Seq(Nat), q # <<>>
  PROVE  /\ Head(q) \in Nat /\ Tail(q) \in Seq(Nat)
         /\ Len(Tail(q)) = Len(q) - 1
         /\ Members(q) = Members(Tail(q)) \cup {Head(q)}
         /\ Distinct(q) => Head(q) \notin Members(Tail(q)) /\ Distinct(Tail(q))
<1> DEFINE t == Tail(q)
<1>1. /\ Head(q) \in Nat /\ Head(q) = q[1]
      /\ t \in Seq(Nat) /\ Len(t) = Len(q) - 1
      /\ \A i \in 1..Len(t) : t[i] = q[i + 1]
      /\ Len(q) \in Nat \ {0}
  BY HeadTailProperties, EmptySeq, LenProperties
<1> HIDE DEF t
<1>2. \A i \in 1..Len(t) : i + 1 \in 1..Len(q) /\ i + 1 # 1
  BY <1>1
<1>3. 1 \in 1..Len(q)
  BY <1>1
<1>4. Members(q) = Members(t) \cup {Head(q)}
  <2>1. ASSUME NEW i \in 1..Len(q) PROVE q[i] \in Members(t) \cup {Head(q)}
    <3>1. CASE i = 1
      BY <3>1, <1>1
    <3>2. CASE i # 1
      <4>1. i - 1 \in 1..Len(t) /\ (i - 1) + 1 = i
        BY <3>2, <1>1
      <4>2. t[i - 1] = q[i]
        BY <4>1, <1>1
      <4> QED
        BY <4>1, <4>2 DEF Members
    <3> QED
      BY <3>1, <3>2
  <2>2. ASSUME NEW i \in 1..Len(t) PROVE t[i] \in Members(q)
    BY <1>1, <1>2 DEF Members
  <2>3. Head(q) \in Members(q)
    BY <1>1, <1>3 DEF Members
  <2>4. Members(q) \subseteq Members(t) \cup {Head(q)}
    BY <2>1 DEF Members
  <2>5. Members(t) \subseteq Members(q)
    BY <2>2 DEF Members
  <2> QED
    BY <2>3, <2>4, <2>5
<1>5. ASSUME Distinct(q)
      PROVE  Head(q) \notin Members(t) /\ Distinct(t)
  <2>1. ASSUME NEW i \in 1..Len(t) PROVE t[i] # Head(q)
    BY <1>1, <1>2, <1>3, <1>5 DEF Distinct
  <2>2. ASSUME NEW i \in 1..Len(t), NEW j \in 1..Len(t), t[i] = t[j]
        PROVE  i = j
    <3>1. q[i + 1] = q[j + 1]
      BY <1>1, <2>2
    <3>2. i + 1 = j + 1
      BY <3>1, <1>2, <1>5 DEF Distinct
    <3> QED
      BY <3>2
  <2> QED
    BY <2>1, <2>2 DEF Members, Distinct
<1> QED
  BY <1>1, <1>4, <1>5 DEF t

(* One queue behind another that shares no number with it. *)
LEMMA MembersConcat ==
  ASSUME NEW p \in Seq(Nat), NEW q \in Seq(Nat)
  PROVE  /\ p \o q \in Seq(Nat) /\ Len(p \o q) = Len(p) + Len(q)
         /\ Members(p \o q) = Members(p) \cup Members(q)
         /\ Distinct(p) /\ Distinct(q) /\ Members(p) \cap Members(q) = {}
               => Distinct(p \o q)
<1> DEFINE c == p \o q
<1>1. /\ c \in Seq(Nat) /\ Len(c) = Len(p) + Len(q)
      /\ \A i \in 1..(Len(p) + Len(q)) :
           c[i] = IF i <= Len(p) THEN p[i] ELSE q[i - Len(p)]
      /\ Len(p) \in Nat /\ Len(q) \in Nat
  BY ConcatProperties, LenProperties
<1> HIDE DEF c
<1>2. ASSUME NEW i \in 1..Len(c)
      PROVE  \/ i \in 1..Len(p) /\ c[i] = p[i]
             \/ i - Len(p) \in 1..Len(q) /\ i > Len(p) /\ c[i] = q[i - Len(p)]
  <2>1. CASE i <= Len(p)
    <3>1. i \in 1..Len(p) /\ i \in 1..(Len(p) + Len(q))
      BY <1>1, <2>1
    <3> QED
      BY <1>1, <2>1, <3>1
  <2>2. CASE ~(i <= Len(p))
    <3>1. /\ i - Len(p) \in 1..Len(q) /\ i > Len(p)
          /\ i \in 1..(Len(p) + Len(q))
      BY <1>1, <2>2
    <3> QED
      BY <1>1, <2>2, <3>1
  <2> QED
    BY <2>1, <2>2
<1>3. ASSUME NEW i \in 1..Len(p) PROVE i \in 1..Len(c) /\ c[i] = p[i]
  BY <1>1
<1>4. ASSUME NEW i \in 1..Len(q)
      PROVE  i + Len(p) \in 1..Len(c) /\ c[i + Len(p)] = q[i]
  <2>1. /\ i + Len(p) \in 1..(Len(p) + Len(q)) /\ ~(i + Len(p) <= Len(p))
        /\ (i + Len(p)) - Len(p) = i
    BY <1>1
  <2> QED
    BY <1>1, <2>1
<1>5. Members(c) = Members(p) \cup Members(q)
  <2>1. Members(c) \subseteq Members(p) \cup Members(q)
    BY <1>2 DEF Members
  <2>2. Members(p) \subseteq Members(c)
    BY <1>3 DEF Members
  <2>3. Members(q) \subseteq Members(c)
    BY <1>4 DEF Members
  <2> QED
    BY <2>1, <2>2, <2>3
<1>6. ASSUME Distinct(p), Distinct(q), Members(p) \cap Members(q) = {},
             NEW i \in 1..Len(c), NEW j \in 1..Len(c), c[i] = c[j]
      PROVE  i = j
  <2>1. ASSUME NEW k \in 1..Len(p), NEW l \in 1..Len(q) PROVE p[k] # q[l]
    BY <1>6 DEF Members
  <2>2. CASE i \in 1..Len(p) /\ c[i] = p[i]
    <3>1. j \in 1..Len(p) /\ c[j] = p[j]
      BY <1>2, <1>6, <2>1, <2>2
    <3> QED
      BY <1>6, <2>2, <3>1 DEF Distinct
  <2>3. CASE i - Len(p) \in 1..Len(q) /\ i > Len(p) /\ c[i] = q[i - Len(p)]
    <3>1. j - Len(p) \in 1..Len(q) /\ c[j] = q[j - Len(p)]
      BY <1>2, <1>6, <2>1, <2>3
    <3>2. i - Len(p) = j - Len(p)
      BY <1>6, <2>3, <3>1 DEF Distinct
    <3> QED
      BY <3>2, <1>1
  <2> QED
    BY <1>2, <2>2, <2>3
<1>7. Distinct(p) /\ Distinct(q) /\ Members(p) \cap Members(q) = {}
        => Distinct(c)
  BY <1>6 DEF Distinct
<1> QED
  BY <1>1, <1>5, <1>7 DEF c

(* A queue of members of S. *)
LEMMA MembersSubset ==
  ASSUME NEW q \in Seq(Nat), NEW S, Members(q) \subseteq S
  PROVE  q \in Seq(S)
<1>1. Len(q) \in Nat /\ q \in [1..Len(q) -> Nat]
  BY LenProperties
<1>2. \A i \in 1..Len(q) : q[i] \in S
  BY DEF Members
<1> QED
  BY <1>1, <1>2

-----------------------------------------------------------------------------
(* Sequences of sequences, joined. *)

(* A set of numbers that is not empty has a least member. *)
LEMMA LeastNat ==
  ASSUME NEW T, T \subseteq Nat, T # {}
  PROVE  \E x \in T : \A y \in T : x <= y
<1> DEFINE R == OpToRel(<, Nat)
<1>1. IsWellFoundedOn(R, Nat)
  BY NatLessThanWellFounded DEF OpToRel
<1> HIDE DEF R
<1>2. PICK x \in T : \A y \in T : ~ (<<y, x>> \in R)
  BY <1>1, WFMin
<1>3. \A y \in T : ~(y < x)
  BY <1>2 DEF R, OpToRel
<1> QED
  BY <1>3

(* Induction over a set of numbers, from the least number that is not in   *)
(* it.                                                                     *)
LEMMA SetInduction ==
  ASSUME NEW T, 0 \in T, \A n \in Nat : n \in T => n + 1 \in T
  PROVE  Nat \subseteq T
<1> SUFFICES ASSUME Nat \ T # {} PROVE FALSE
  OBVIOUS
<1>1. PICK x \in Nat \ T : \A y \in Nat \ T : x <= y
  BY LeastNat
<1>2. x # 0 /\ x - 1 \in Nat /\ (x - 1) + 1 = x
  BY <1>1
<1>3. x - 1 \in T
  BY <1>1, <1>2
<1> QED
  BY <1>1, <1>2, <1>3

(* f is the function by which FlattenSeq joins the first n sequences of s. *)
Joins(f, s, n) == f = [i \in 1..n |-> IF i = 1 THEN s[i] ELSE f[i - 1] \o s[i]]

(* Its values, ... *)
LEMMA JoinsStep ==
  ASSUME NEW f, NEW s, NEW n, Joins(f, s, n), NEW i \in 1..n
  PROVE  f[i] = IF i = 1 THEN s[i] ELSE f[i - 1] \o s[i]
<1> DEFINE g == [j \in 1..n |-> IF j = 1 THEN s[j] ELSE f[j - 1] \o s[j]]
<1>1. f = g
  BY DEF Joins
<1>2. g[i] = IF i = 1 THEN s[i] ELSE f[i - 1] \o s[i]
  OBVIOUS
<1> HIDE DEF g
<1> QED
  BY <1>1, <1>2

(* ... there is one for every n, ... *)
LEMMA JoinsExists ==
  ASSUME NEW s, NEW n \in Nat
  PROVE  \E f : Joins(f, s, n)
<1> DEFINE T == {k \in Nat : \E f : Joins(f, s, k)}
<1>1. 0 \in T
  <2> DEFINE g == [i \in 1..0 |-> s[i]]
  <2>1. Joins(g, s, 0)
    BY DEF Joins
  <2> QED
    BY <2>1
<1>2. ASSUME NEW k \in Nat, k \in T PROVE k + 1 \in T
  <2>1. PICK f : Joins(f, s, k)
    BY <1>2
  <2> DEFINE g == [i \in 1..(k + 1) |->
                     IF i = k + 1 THEN (IF i = 1 THEN s[i] ELSE f[k] \o s[i])
                     ELSE f[i]]
  <2>2. ASSUME NEW i \in 1..(k + 1)
        PROVE  g[i] = IF i = 1 THEN s[i] ELSE g[i - 1] \o s[i]
    <3>1. CASE i = k + 1
      BY <3>1
    <3>2. CASE i # k + 1
      <4>1. i \in 1..k
        BY <3>2
      <4>2. f[i] = IF i = 1 THEN s[i] ELSE f[i - 1] \o s[i]
        BY <2>1, <4>1, JoinsStep
      <4>3. g[i] = f[i]
        BY <3>2
      <4>4. i # 1 => g[i - 1] = f[i - 1]
        BY <4>1
      <4> QED
        BY <4>2, <4>3, <4>4
    <3> QED
      BY <3>1, <3>2
  <2>3. DOMAIN g = 1..(k + 1) /\ g = [i \in 1..(k + 1) |-> g[i]]
    OBVIOUS
  <2> HIDE DEF g
  <2> DEFINE h == [i \in 1..(k + 1) |-> IF i = 1 THEN s[i]
                                         ELSE g[i - 1] \o s[i]]
  <2>4. g = h
    <3>1. \A i \in 1..(k + 1) : g[i] = h[i]
      BY <2>2
    <3>2. DOMAIN h = 1..(k + 1) /\ h = [i \in 1..(k + 1) |-> h[i]]
      OBVIOUS
    <3> HIDE DEF h
    <3> QED
      BY <2>3, <3>1, <3>2
  <2>5. Joins(g, s, k + 1)
    BY <2>4 DEF Joins
  <2> QED
    BY <2>5
<1> HIDE DEF T
<1>3. Nat \subseteq T
  BY <1>1, <1>2, SetInduction
<1> QED
  BY <1>3 DEF T

(* ... it depends on those sequences only, ... *)
LEMMA JoinsAgree ==
  ASSUME NEW s, NEW t, NEW n \in Nat, NEW m \in Nat, n <= m, NEW f, NEW g,
         Joins(f, s, n), Joins(g, t, m), \A i \in 1..n : s[i] = t[i]
  PROVE  \A i \in 1..n : f[i] = g[i]
<1> DEFINE T == {k \in Nat : k \in 1..n => f[k] = g[k]}
<1>1. 0 \in T
  OBVIOUS
<1>2. ASSUME NEW k \in Nat, k \in T PROVE k + 1 \in T
  <2>1. CASE k + 1 \in 1..n
    <3>1. /\ k + 1 \in 1..m /\ (k + 1) - 1 = k
          /\ s[k + 1] = t[k + 1]
      BY <2>1
    <3>2. f[k + 1] = IF k + 1 = 1 THEN s[k + 1] ELSE f[k] \o s[k + 1]
      <4>1. f[k + 1] = IF k + 1 = 1 THEN s[k + 1]
                       ELSE f[(k + 1) - 1] \o s[k + 1]
        BY <2>1, JoinsStep
      <4> QED
        BY <3>1, <4>1
    <3>3. g[k + 1] = IF k + 1 = 1 THEN t[k + 1] ELSE g[k] \o t[k + 1]
      <4>1. g[k + 1] = IF k + 1 = 1 THEN t[k + 1]
                       ELSE g[(k + 1) - 1] \o t[k + 1]
        BY <3>1, JoinsStep
      <4> QED
        BY <3>1, <4>1
    <3>4. k + 1 # 1 => f[k] = g[k]
      BY <1>2, <2>1
    <3> QED
      BY <3>1, <3>2, <3>3, <3>4
  <2> QED
    BY <2>1
<1> HIDE DEF T
<1>3. Nat \subseteq T
  BY <1>1, <1>2, SetInduction
<1> QED
  BY <1>3 DEF T

(* ... and FlattenSeq is its last value. *)
LEMMA FlattenIsJoins ==
  ASSUME NEW s, Len(s) \in Nat \ {0}, NEW f, Joins(f, s, Len(s))
  PROVE  FlattenSeq(s) = f[Len(s)]
<1> DEFINE n == Len(s)
           g == CHOOSE h : h = [i \in 1..n |-> IF i = 1 THEN s[i]
                                               ELSE h[i - 1] \o s[i]]
<1>1. FlattenSeq(s) = g[n]
  BY DEF FlattenSeq
<1>2. Joins(g, s, n)
  BY DEF Joins
<1> HIDE DEF g
<1>3. n \in 1..n /\ n <= n
  OBVIOUS
<1>4. \A i \in 1..n : f[i] = g[i]
  BY <1>2, <1>3, JoinsAgree
<1> QED
  BY <1>1, <1>3, <1>4

(* Nothing joined is nothing, ... *)
LEMMA FlattenEmpty == FlattenSeq(<<>>) = <<>>
BY DEF FlattenSeq

(* ... one sequence more comes behind the others, ... *)
LEMMA FlattenAppend ==
  ASSUME NEW T, NEW s \in Seq(Seq(T)), NEW x \in Seq(T)
  PROVE  FlattenSeq(Append(s, x)) = FlattenSeq(s) \o x
<1> DEFINE n == Len(s)
           a == Append(s, x)
<1>1. /\ n \in Nat /\ Len(a) = n + 1
      /\ \A i \in 1..n : a[i] = s[i]
      /\ a[n + 1] = x
  BY AppendProperties, LenProperties
<1> HIDE DEF a
<1>2. PICK g : Joins(g, a, n + 1)
  <2>1. n + 1 \in Nat
    BY <1>1
  <2> QED
    BY <2>1, JoinsExists
<1>3. FlattenSeq(a) = g[n + 1]
  BY <1>1, <1>2, FlattenIsJoins
<1>4. n + 1 \in 1..(n + 1) /\ (n + 1) - 1 = n
  BY <1>1
<1>5. g[n + 1] = IF n + 1 = 1 THEN x ELSE g[n] \o x
  <2>1. g[n + 1] = IF n + 1 = 1 THEN a[n + 1] ELSE g[(n + 1) - 1] \o a[n + 1]
    BY <1>2, <1>4, JoinsStep
  <2> QED
    BY <1>1, <1>4, <2>1
<1>6. CASE n = 0
  <2>1. s = <<>>
    BY <1>6, EmptySeq
  <2>2. FlattenSeq(s) = <<>>
    BY <2>1, FlattenEmpty
  <2>3. <<>> \o x = x
    BY ConcatEmptySeq
  <2> QED
    BY <1>3, <1>5, <1>6, <2>2, <2>3 DEF a
<1>7. CASE n # 0
  <2>1. PICK f : Joins(f, s, n)
    BY <1>1, JoinsExists
  <2>2. n \in 1..n /\ n + 1 # 1 /\ n <= n + 1
    BY <1>1, <1>7
  <2>3. f[n] = g[n]
    <3>1. \A i \in 1..n : s[i] = a[i]
      BY <1>1
    <3>2. n \in Nat /\ n + 1 \in Nat /\ n <= n + 1
      BY <1>1
    <3> HIDE DEF n
    <3>3. \A i \in 1..n : f[i] = g[i]
      BY <1>2, <2>1, <3>1, <3>2, JoinsAgree
    <3> QED
      BY <2>2, <3>3
  <2>4. FlattenSeq(s) = f[n]
    BY <1>1, <1>7, <2>1, FlattenIsJoins
  <2> QED
    BY <1>3, <1>5, <2>2, <2>3, <2>4 DEF a
<1> QED
  BY <1>6, <1>7

(* ... and what is joined stays a sequence over the same set. *)
LEMMA FlattenSeqType ==
  ASSUME NEW T, NEW s \in Seq(Seq(T))
  PROVE  FlattenSeq(s) \in Seq(T)
<1> DEFINE n == Len(s)
<1>1. n \in Nat /\ \A i \in 1..n : s[i] \in Seq(T)
  BY LenProperties
<1>2. CASE n = 0
  <2>1. s = <<>>
    BY <1>2, EmptySeq
  <2> QED
    <3>1. FlattenSeq(s) = <<>>
      BY <2>1, FlattenEmpty
    <3>2. <<>> \in Seq(T)
      OBVIOUS
    <3> QED
      BY <3>1, <3>2
<1>3. CASE n # 0
  <2>1. PICK f : Joins(f, s, n)
    BY <1>1, JoinsExists
  <2> DEFINE S == {k \in Nat : k \in 1..n => f[k] \in Seq(T)}
  <2>2. 0 \in S
    OBVIOUS
  <2>3. ASSUME NEW k \in Nat, k \in S PROVE k + 1 \in S
    <3>1. CASE k + 1 \in 1..n
      <4>1. (k + 1) - 1 = k /\ s[k + 1] \in Seq(T)
        BY <1>1, <3>1
      <4>2. f[k + 1] = IF k + 1 = 1 THEN s[k + 1] ELSE f[k] \o s[k + 1]
        <5>1. f[k + 1] = IF k + 1 = 1 THEN s[k + 1]
                         ELSE f[(k + 1) - 1] \o s[k + 1]
          BY <2>1, <3>1, JoinsStep
        <5> QED
          BY <4>1, <5>1
      <4>3. k + 1 # 1 => f[k] \in Seq(T)
        BY <2>3, <3>1
      <4>4. k + 1 # 1 => f[k] \o s[k + 1] \in Seq(T)
        BY <4>1, <4>3, ConcatProperties
      <4>5. f[k + 1] \in Seq(T)
        <5>1. CASE k + 1 = 1
          BY <5>1, <4>1, <4>2
        <5>2. CASE k + 1 # 1
          BY <5>2, <4>2, <4>4
        <5> QED
          BY <5>1, <5>2
      <4> QED
        BY <4>5
    <3> QED
      BY <3>1
  <2> HIDE DEF S
  <2>4. Nat \subseteq S
    BY <2>2, <2>3, SetInduction
  <2>5. f[n] \in Seq(T)
    BY <1>1, <1>3, <2>4 DEF S
  <2> QED
    BY <1>1, <1>3, <2>1, <2>5, FlattenIsJoins
<1> QED
  BY <1>2, <1>3
=============================================================================
