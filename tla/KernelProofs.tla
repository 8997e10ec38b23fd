---------------------------- MODULE KernelProofs ----------------------------
(***************************************************************************)
(* Every kernel operator keeps the kernel state well-typed and consistent. *)
(*                                                                         *)
(* The proofs work on Good, which says of a kernel state what KernelOK     *)
(* says, flattened to first-order facts about Linked and Armed: below the  *)
(* lemmas FlatIff, UnlinkLists and InsertLists nobody looks at sequences.  *)
(***************************************************************************)
EXTENDS Kernel, SequenceTheorems, FiniteSetTheorems, FunctionTheorems, TLAPS

-----------------------------------------------------------------------------
(* The list operations of rtservice.h on sequences without repetitions *)

\* RemoveAt drops position i of a sequence and moves the later elements up.
LEMMA RemoveAtSpec ==
    ASSUME NEW S, NEW s \in Seq(S), NEW i \in 1 .. Len(s)
    PROVE  /\ RemoveAt(s, i) \in Seq(S)
           /\ Len(RemoveAt(s, i)) = Len(s) - 1
           /\ \A j \in 1 .. Len(s) - 1 :
                 RemoveAt(s, i)[j] = IF j < i THEN s[j] ELSE s[j + 1]
<1> DEFINE a == SubSeq(s, 1, i - 1)
           b == SubSeq(s, i + 1, Len(s))
<1>1. a \in Seq(S) /\ Len(a) = i - 1 /\ \A j \in 1 .. i - 1 : a[j] = s[j]
  BY SubSeqProperties
<1>2. b \in Seq(S) /\ Len(b) = Len(s) - i /\ \A j \in 1 .. Len(s) - i : b[j] = s[i + j]
  BY SubSeqProperties
<1> HIDE DEF a, b
<1>3. /\ a \o b \in Seq(S)
      /\ Len(a \o b) = Len(a) + Len(b)
      /\ \A j \in 1 .. Len(a) + Len(b) :
            (a \o b)[j] = IF j <= Len(a) THEN a[j] ELSE b[j - Len(a)]
  BY <1>1, <1>2, ConcatProperties
<1>4. RemoveAt(s, i) = a \o b
  BY DEF RemoveAt, a, b
<1>5. ASSUME NEW j \in 1 .. Len(s) - 1
      PROVE  RemoveAt(s, i)[j] = IF j < i THEN s[j] ELSE s[j + 1]
  <2>1. CASE j < i
    BY <2>1, <1>1, <1>2, <1>3, <1>4
  <2>2. CASE ~(j < i)
    <3>1. j - (i - 1) \in 1 .. Len(s) - i /\ i + (j - (i - 1)) = j + 1
      BY <2>2
    <3>2. b[j - (i - 1)] = s[j + 1]
      BY <3>1, <1>2
    <3>3. (a \o b)[j] = b[j - (i - 1)]
      BY <2>2, <1>1, <1>2, <1>3
    <3> QED
      BY <2>2, <3>2, <3>3, <1>4
  <2> QED
    BY <2>1, <2>2
<1>6. RemoveAt(s, i) \in Seq(S)
  BY <1>3, <1>4
<1>7. Len(RemoveAt(s, i)) = Len(s) - 1
  <2>1. Len(a) = i - 1 /\ Len(b) = Len(s) - i /\ Len(a \o b) = Len(a) + Len(b)
    BY <1>1, <1>2, <1>3
  <2>2. Len(s) \in Nat /\ i \in Nat
    BY LenProperties
  <2> QED
    BY <2>1, <2>2, <1>4
<1> QED
  BY <1>5, <1>6, <1>7

\* InsertAt puts e at position i and moves the later elements down.
LEMMA InsertAtSpec ==
    ASSUME NEW S, NEW s \in Seq(S), NEW i \in 1 .. Len(s) + 1, NEW e \in S
    PROVE  /\ InsertAt(s, i, e) \in Seq(S)
           /\ Len(InsertAt(s, i, e)) = Len(s) + 1
           /\ \A j \in 1 .. Len(s) + 1 :
                 InsertAt(s, i, e)[j] = IF j < i THEN s[j]
                                        ELSE IF j = i THEN e ELSE s[j - 1]
<1> DEFINE a == SubSeq(s, 1, i - 1)
           b == SubSeq(s, i, Len(s))
           c == a \o <<e>>
<1>1. a \in Seq(S) /\ Len(a) = i - 1 /\ \A j \in 1 .. i - 1 : a[j] = s[j]
  BY SubSeqProperties
<1>2. /\ b \in Seq(S) /\ Len(b) = Len(s) + 1 - i
      /\ \A j \in 1 .. Len(s) + 1 - i : b[j] = s[i + j - 1]
  BY SubSeqProperties
<1> HIDE DEF a, b
<1>3. /\ c \in Seq(S)
      /\ Len(c) = i
      /\ \A j \in 1 .. i : c[j] = IF j < i THEN a[j] ELSE e
  BY <1>1, ConcatProperties
<1> HIDE DEF c
<1>4. /\ c \o b \in Seq(S)
      /\ Len(c \o b) = Len(c) + Len(b)
      /\ \A j \in 1 .. Len(c) + Len(b) :
            (c \o b)[j] = IF j <= Len(c) THEN c[j] ELSE b[j - Len(c)]
  BY <1>2, <1>3, ConcatProperties
<1>5. InsertAt(s, i, e) = c \o b
  BY DEF InsertAt, a, b, c
<1> QED
  BY <1>1, <1>2, <1>3, <1>4, <1>5

\* A set of naturals that is not empty has a least element, and Min is it.
LEMMA MinSpec ==
    ASSUME NEW I, I \subseteq Nat, I # {}
    PROVE  Min(I) \in I /\ \A j \in I : Min(I) <= j
<1> DEFINE R == {ss \in Nat \X Nat : ss[1] < ss[2]}
<1>1. IsWellFoundedOn(R, Nat)
  BY NatLessThanWellFounded, Zenon DEF OpToRel
<1>2. \E m \in I : \A j \in I : ~ (<<j, m>> \in R)
  <2> HIDE DEF R
  <2> QED
    BY <1>1, WFMin
<1>3. PICK m \in I : \A j \in I : ~ (<<j, m>> \in R)
  BY <1>2
<1>4. ASSUME NEW j \in I
      PROVE  m <= j
  <2>1. j \in Nat /\ m \in Nat /\ <<j, m>> \notin R
    BY <1>3
  <2>2. ~ (j < m)
    BY <2>1, Zenon
  <2> QED
    BY <2>1, <2>2
<1> QED
  BY <1>4 DEF Min

\* The greatest of some indices
LEMMA MaxSpec ==
    ASSUME NEW n \in Nat, NEW s, s \subseteq 1 .. n, s # {}
    PROVE  Max(s) \in s /\ \A y \in s : Max(s) >= y
<1> DEFINE J == {n - y : y \in s}
<1>1. J \subseteq Nat /\ J # {}
  <2>1. \A y \in s : n - y \in Nat
    OBVIOUS
  <2> QED
    BY <2>1
<1>2. Min(J) \in J /\ \A j \in J : Min(J) <= j
  <2> HIDE DEF J
  <2> QED
    BY <1>1, MinSpec
<1>3. PICK x \in s : Min(J) = n - x
  BY <1>2
<1>4. \A y \in s : x >= y
  <2> SUFFICES ASSUME NEW y \in s PROVE x >= y
    OBVIOUS
  <2>1. n - y \in J
    OBVIOUS
  <2>2. n - x <= n - y
    BY <1>2, <1>3, <2>1
  <2> QED
    BY <2>2
<1> QED
  BY <1>4 DEF Max

\* The least counterexample: what holds of 0 and of the successor of every number
\* of which it holds, holds of all.  I is the set of the numbers of which it holds.
LEMMA AllNumbers ==
    ASSUME NEW I, 0 \in I, \A n \in Nat : n \in I => n + 1 \in I
    PROVE  \A n \in Nat : n \in I
<1> SUFFICES ASSUME NEW n \in Nat, n \notin I PROVE FALSE
  OBVIOUS
<1> DEFINE J == {m \in Nat : m \notin I}
<1>1. Min(J) \in J /\ \A j \in J : Min(J) <= j
  <2>1. J \subseteq Nat /\ J # {}
    OBVIOUS
  <2> HIDE DEF J
  <2> QED
    BY <2>1, MinSpec
<1>2. PICK m \in Nat : m \notin I /\ \A j \in Nat : j < m => j \in I
  BY <1>1
<1>3. m # 0 /\ m - 1 \in Nat /\ m - 1 < m /\ m = (m - 1) + 1
  BY <1>2
<1> QED
  BY <1>2, <1>3

\* As many elements as places
LEMMA SeqCardinality ==
    ASSUME NEW T, NEW s \in Seq(T), IsInjective(s)
    PROVE  IsFiniteSet(ToSet(s)) /\ Cardinality(ToSet(s)) = Len(s)
<1>1. PICK n \in Nat : n = Len(s) /\ DOMAIN s = 1 .. n
  OBVIOUS
<1>2. IsFiniteSet(1 .. n) /\ Cardinality(1 .. n) = n
  <2>1. IsFiniteSet(1 .. n) /\ Cardinality(1 .. n) = IF 1 > n THEN 0 ELSE n - 1 + 1
    BY FS_Interval
  <2> QED
    BY <2>1
<1>3. s \in [1 .. n -> ToSet(s)] /\ ToSet(s) = {s[i] : i \in 1 .. n}
  BY <1>1 DEF ToSet
<1>4. s \in Bijection(1 .. n, ToSet(s))
  BY <1>1, <1>3 DEF Bijection, Injection, Surjection, IsInjective
<1>5. ExistsBijection(1 .. n, ToSet(s))
  BY <1>4 DEF ExistsBijection
<1> QED
  BY <1>1, <1>2, <1>5, FS_Bijection

\* RemoveFirst, the model of rt_list_remove, either finds nothing and changes
\* nothing or drops one position that holds e.
LEMMA RemoveFirstSpec ==
    ASSUME NEW S, NEW s \in Seq(S), NEW e
    PROVE  \/ e \notin ToSet(s) /\ RemoveFirst(s, e) = s
           \/ \E i \in 1 .. Len(s) : s[i] = e /\ RemoveFirst(s, e) = RemoveAt(s, i)
<1> DEFINE I == {i \in 1 .. Len(s) : s[i] = e}
<1>1. CASE I = {}
  <2>1. \A i \in DOMAIN s : s[i] # e
    BY <1>1
  <2>2. RemoveFirst(s, e) = s
    BY <2>1 DEF RemoveFirst
  <2> QED
    BY <2>1, <2>2 DEF ToSet
<1>2. CASE I # {}
  <2>1. I \subseteq Nat
    OBVIOUS
  <2>2. Min(I) \in I
    BY <1>2, <2>1, MinSpec
  <2>3. RemoveFirst(s, e) = RemoveAt(s, Min(I))
    BY <1>2 DEF RemoveFirst, SelectInSeq
  <2> QED
    BY <2>2, <2>3
<1> QED
  BY <1>1, <1>2

\* The elements of a list of threads are threads.
LEMMA ToSetType ==
    ASSUME NEW S, NEW s \in Seq(S)
    PROVE  ToSet(s) \subseteq S
  BY DEF ToSet

\* rt_list_remove of a list without repetitions: exactly the element goes, and
\* nothing is repeated.
LEMMA RemoveFirstList ==
    ASSUME NEW S, NEW s \in Seq(S), IsInjective(s), NEW e
    PROVE  /\ RemoveFirst(s, e) \in Seq(S)
           /\ IsInjective(RemoveFirst(s, e))
           /\ ToSet(RemoveFirst(s, e)) = ToSet(s) \ {e}
<1> DEFINE r == RemoveFirst(s, e)
<1>1. CASE e \notin ToSet(s) /\ r = s
  BY <1>1
<1>2. CASE \E i \in 1 .. Len(s) : s[i] = e /\ r = RemoveAt(s, i)
  <2>1. PICK i \in 1 .. Len(s) : s[i] = e /\ r = RemoveAt(s, i)
    BY <1>2
  <2> HIDE DEF r
  <2>2. /\ r \in Seq(S) /\ Len(r) = Len(s) - 1
        /\ \A j \in 1 .. Len(s) - 1 : r[j] = IF j < i THEN s[j] ELSE s[j + 1]
    BY <2>1, RemoveAtSpec
  <2>3. Len(s) \in Nat /\ i \in Nat /\ DOMAIN s = 1 .. Len(s) /\ DOMAIN r = 1 .. Len(s) - 1
    BY <2>2, LenProperties
  <2>4. \A j, l \in 1 .. Len(s) : s[j] = s[l] => j = l
    BY <2>3 DEF IsInjective
  <2>5. IsInjective(r)
    BY <2>2, <2>3, <2>4 DEF IsInjective
  <2>6. ASSUME NEW x \in ToSet(r)
        PROVE  x \in ToSet(s) \ {e}
    <3>1. PICK j \in 1 .. Len(s) - 1 : x = r[j]
      BY <2>3 DEF ToSet
    <3>2. \E m \in 1 .. Len(s) : m # i /\ x = s[m]
      BY <3>1, <2>2, <2>3
    <3> QED
      BY <3>2, <2>1, <2>3, <2>4 DEF ToSet
  <2>7. ASSUME NEW x \in ToSet(s) \ {e}
        PROVE  x \in ToSet(r)
    <3>1. PICK j \in 1 .. Len(s) : x = s[j] /\ j # i
      BY <2>1, <2>3 DEF ToSet
    <3>2. CASE j < i
      BY <3>1, <3>2, <2>2, <2>3 DEF ToSet
    <3>3. CASE i < j
      <4>1. j - 1 \in 1 .. Len(s) - 1 /\ ~(j - 1 < i) /\ (j - 1) + 1 = j
        BY <3>1, <3>3, <2>3
      <4>2. r[j - 1] = x
        BY <4>1, <3>1, <2>2
      <4> QED
        BY <4>1, <4>2, <2>3 DEF ToSet
    <3> QED
      BY <3>1, <3>2, <3>3, <2>3
  <2> QED
    BY <2>2, <2>5, <2>6, <2>7 DEF r
<1> QED
  BY <1>1, <1>2, RemoveFirstSpec

\* A sorted insertion (rt_ipc_list_suspend, rt_timer_start) of a new element
\* into a list without repetitions: exactly the element comes in.
LEMMA InsertAtList ==
    ASSUME NEW S, NEW s \in Seq(S), IsInjective(s), NEW i \in 1 .. Len(s) + 1,
           NEW e \in S, e \notin ToSet(s)
    PROVE  /\ InsertAt(s, i, e) \in Seq(S)
           /\ IsInjective(InsertAt(s, i, e))
           /\ ToSet(InsertAt(s, i, e)) = ToSet(s) \cup {e}
<1> DEFINE r == InsertAt(s, i, e)
<1>1. /\ r \in Seq(S) /\ Len(r) = Len(s) + 1
      /\ \A j \in 1 .. Len(s) + 1 :
            r[j] = IF j < i THEN s[j] ELSE IF j = i THEN e ELSE s[j - 1]
  BY InsertAtSpec
<1> HIDE DEF r
<1>2. Len(s) \in Nat /\ i \in Nat /\ DOMAIN s = 1 .. Len(s) /\ DOMAIN r = 1 .. Len(s) + 1
  BY <1>1, LenProperties
<1>3. (\A j, l \in 1 .. Len(s) : s[j] = s[l] => j = l) /\ (\A j \in 1 .. Len(s) : s[j] # e)
  BY <1>2 DEF IsInjective, ToSet
<1>4. IsInjective(r)
  BY <1>1, <1>2, <1>3 DEF IsInjective
<1>5. ASSUME NEW x \in ToSet(r)
      PROVE  x \in ToSet(s) \cup {e}
  <2>1. PICK j \in 1 .. Len(s) + 1 : x = r[j]
    BY <1>2 DEF ToSet
  <2>2. x = e \/ \E m \in 1 .. Len(s) : x = s[m]
    BY <2>1, <1>1, <1>2
  <2> QED
    BY <2>2, <1>2 DEF ToSet
<1>6. ASSUME NEW x \in ToSet(s)
      PROVE  x \in ToSet(r)
  <2>1. PICK j \in 1 .. Len(s) : x = s[j]
    BY <1>2 DEF ToSet
  <2>2. CASE j < i
    BY <2>1, <2>2, <1>1, <1>2 DEF ToSet
  <2>3. CASE i <= j
    <3>1. j + 1 \in 1 .. Len(s) + 1 /\ ~(j + 1 < i) /\ j + 1 # i /\ (j + 1) - 1 = j
      BY <2>3, <1>2
    <3>2. r[j + 1] = x
      BY <3>1, <2>1, <1>1
    <3> QED
      BY <3>1, <3>2, <1>2 DEF ToSet
  <2> QED
    BY <2>1, <2>2, <2>3, <1>2
<1>7. e \in ToSet(r)
  BY <1>1, <1>2 DEF ToSet
<1> QED
  BY <1>1, <1>4, <1>5, <1>6, <1>7 DEF r

\* rt_list_insert_before at a list head of an element that is not in the list.
LEMMA AppendList ==
    ASSUME NEW S, NEW s \in Seq(S), IsInjective(s), NEW e \in S, e \notin ToSet(s)
    PROVE  /\ Append(s, e) \in Seq(S)
           /\ IsInjective(Append(s, e))
           /\ ToSet(Append(s, e)) = ToSet(s) \cup {e}
<1> DEFINE r == Append(s, e)
<1>1. /\ r \in Seq(S) /\ Len(r) = Len(s) + 1
      /\ \A j \in 1 .. Len(s) : r[j] = s[j]
      /\ r[Len(s) + 1] = e
  BY AppendProperties
<1> HIDE DEF r
<1>2. Len(s) \in Nat /\ DOMAIN s = 1 .. Len(s) /\ DOMAIN r = 1 .. Len(s) + 1
  BY <1>1, LenProperties
<1>3. (\A j, l \in 1 .. Len(s) : s[j] = s[l] => j = l) /\ (\A j \in 1 .. Len(s) : s[j] # e)
  BY <1>2 DEF IsInjective, ToSet
<1>4. IsInjective(r)
  BY <1>1, <1>2, <1>3 DEF IsInjective
<1>5. ToSet(r) = ToSet(s) \cup {e}
  BY <1>1, <1>2 DEF ToSet
<1> QED
  BY <1>1, <1>4, <1>5 DEF r

\* rt_list_insert_after the list head: the element is put in front.
LEMMA PushList ==
    ASSUME NEW S, NEW s \in Seq(S), IsInjective(s), NEW e \in S, e \notin ToSet(s)
    PROVE  /\ <<e>> \o s \in Seq(S)
           /\ IsInjective(<<e>> \o s)
           /\ ToSet(<<e>> \o s) = ToSet(s) \cup {e}
<1> DEFINE r == <<e>> \o s
<1>0. <<e>> \in Seq(S) /\ Len(<<e>>) = 1 /\ <<e>>[1] = e /\ Len(s) \in Nat
  BY LenProperties
<1>1. /\ r \in Seq(S) /\ Len(r) = 1 + Len(s)
      /\ \A j \in 1 .. 1 + Len(s) : r[j] = IF j <= 1 THEN <<e>>[j] ELSE s[j - 1]
  BY <1>0, ConcatProperties
<1> HIDE DEF r
<1>2. DOMAIN s = 1 .. Len(s) /\ DOMAIN r = 1 .. 1 + Len(s)
  BY <1>1, LenProperties
<1>3. /\ r[1] = e
      /\ \A j \in 2 .. 1 + Len(s) : r[j] = s[j - 1] /\ j - 1 \in 1 .. Len(s)
  BY <1>0, <1>1
<1>4. (\A j, l \in 1 .. Len(s) : s[j] = s[l] => j = l) /\ (\A j \in 1 .. Len(s) : s[j] # e)
  BY <1>2 DEF IsInjective, ToSet
<1>5. IsInjective(r)
  <2> SUFFICES ASSUME NEW j \in 1 .. 1 + Len(s), NEW l \in 1 .. 1 + Len(s), r[j] = r[l]
               PROVE  j = l
    BY <1>2 DEF IsInjective
  <2>1. j = 1 \/ j \in 2 .. 1 + Len(s)
    BY <1>0
  <2>2. l = 1 \/ l \in 2 .. 1 + Len(s)
    BY <1>0
  <2>3. j \in 2 .. 1 + Len(s) /\ l \in 2 .. 1 + Len(s) => j - 1 = l - 1
    BY <1>3, <1>4
  <2> QED
    BY <1>0, <1>3, <1>4, <2>1, <2>2, <2>3
<1>6. ToSet(r) = ToSet(s) \cup {e}
  <2>1. \A j \in 1 .. Len(s) : j + 1 \in 2 .. 1 + Len(s) /\ r[j + 1] = s[j]
    BY <1>0, <1>3
  <2>2. 1 \in 1 .. 1 + Len(s) /\ 2 .. 1 + Len(s) \subseteq 1 .. 1 + Len(s)
    BY <1>0
  <2>3. ToSet(s) \cup {e} \subseteq ToSet(r)
    BY <1>2, <1>3, <2>1, <2>2, SMTT(30) DEF ToSet
  <2>4. \A j \in 1 .. 1 + Len(s) : j = 1 \/ j \in 2 .. 1 + Len(s)
    BY <1>0
  <2>5. ToSet(r) \subseteq ToSet(s) \cup {e}
    BY <1>2, <1>3, <2>4 DEF ToSet
  <2> QED
    BY <2>3, <2>5
<1> QED
  BY <1>1, <1>5, <1>6 DEF r

\* rt_list_isempty: a list is empty when it has no elements, and otherwise has
\* a first one.
LEMMA EmptyList ==
    ASSUME NEW S, NEW s \in Seq(S)
    PROVE  /\ s = << >> <=> ToSet(s) = {}
           /\ s # << >> => Head(s) \in ToSet(s)
<1>1. Len(s) \in Nat /\ DOMAIN s = 1 .. Len(s) /\ (s = << >> <=> Len(s) = 0)
  BY LenProperties, EmptySeq
<1>2. CASE s = << >>
  BY <1>1, <1>2 DEF ToSet
<1>3. CASE s # << >>
  <2>1. 1 \in DOMAIN s /\ Head(s) = s[1]
    BY <1>1, <1>3
  <2> QED
    BY <2>1, <1>3 DEF ToSet
<1> QED
  BY <1>2, <1>3

\* The least element of a set of list positions is one of them.
LEMMA LeastIndex ==
    ASSUME NEW n \in Nat, NEW I, I \subseteq 1 .. n, I # {}
    PROVE  (CHOOSE i \in I : \A j \in I : i <= j) \in 1 .. n
<1>1. I \subseteq Nat
  OBVIOUS
<1>2. Min(I) \in I /\ \A j \in I : Min(I) <= j
  BY <1>1, MinSpec
<1>3. \E i \in I : \A j \in I : i <= j
  BY <1>2
<1>4. (CHOOSE i \in I : \A j \in I : i <= j) \in I
  BY <1>3
<1> QED
  BY <1>4

\* SetToSeq lists the elements of a finite set, each of them once.
LEMMA SetToSeqList ==
    ASSUME NEW S, IsFiniteSet(S)
    PROVE  /\ SetToSeq(S) \in Seq(S)
           /\ IsInjective(SetToSeq(S))
           /\ ToSet(SetToSeq(S)) = S
<1> DEFINE n == Cardinality(S)
           f == SetToSeq(S)
<1>1. n \in Nat /\ ExistsBijection(1 .. n, S)
  BY FS_CardinalityType
<1>2. \E g \in [1 .. n -> S] : IsInjective(g)
  BY <1>1 DEF ExistsBijection, Bijection, Injection
<1>3. f \in [1 .. n -> S] /\ IsInjective(f)
  BY <1>2 DEF SetToSeq
<1>4. IsFiniteSet(1 .. n) /\ Cardinality(1 .. n) = n
  BY <1>1, FS_Interval
<1>5. f \in Injection(1 .. n, S)
  BY <1>3 DEF Injection
<1>6. f \in Surjection(1 .. n, S)
  BY <1>4, <1>5, FS_Injection
<1>7. \A e \in S : \E i \in 1 .. n : f[i] = e
  BY <1>6 DEF Surjection
<1>8. f \in Seq(S) /\ DOMAIN f = 1 .. n
  BY <1>1, <1>3
<1> HIDE DEF f
<1>9. ToSet(f) = S
  BY <1>3, <1>7, <1>8 DEF ToSet
<1> QED
  BY <1>3, <1>8, <1>9 DEF f

-----------------------------------------------------------------------------
(* Order *)

\* List r keeps the order of list s: what stands in r before something else
\* stands before it in s too.
KeepsOrder(s, r) ==
    \A i, j \in 1 .. Len(r) : i < j =>
        \E x, y \in 1 .. Len(s) : x < y /\ s[x] = r[i] /\ s[y] = r[j]

\* A list keeps its own order.
LEMMA KeepsOrderRefl ==
    ASSUME NEW s
    PROVE  KeepsOrder(s, s)
  BY DEF KeepsOrder

\* Keeping the order is transitive.
LEMMA KeepsOrderTrans ==
    ASSUME NEW s, NEW r, NEW q, KeepsOrder(s, r), KeepsOrder(r, q)
    PROVE  KeepsOrder(s, q)
<1> SUFFICES ASSUME NEW i \in 1 .. Len(q), NEW j \in 1 .. Len(q), i < j
             PROVE  \E x, y \in 1 .. Len(s) : x < y /\ s[x] = q[i] /\ s[y] = q[j]
  BY DEF KeepsOrder
<1>1. PICK a \in 1 .. Len(r), b \in 1 .. Len(r) : a < b /\ r[a] = q[i] /\ r[b] = q[j]
  BY DEF KeepsOrder
<1>2. \E x, y \in 1 .. Len(s) : x < y /\ s[x] = r[a] /\ s[y] = r[b]
  BY <1>1 DEF KeepsOrder
<1> QED
  BY <1>1, <1>2

\* rt_list_remove leaves the others in their order.
LEMMA RemoveFirstOrder ==
    ASSUME NEW S, NEW s \in Seq(S), NEW e
    PROVE  KeepsOrder(s, RemoveFirst(s, e))
<1> DEFINE r == RemoveFirst(s, e)
<1>1. CASE r = s
  BY <1>1, KeepsOrderRefl
<1>2. CASE \E i \in 1 .. Len(s) : r = RemoveAt(s, i)
  <2>1. PICK i \in 1 .. Len(s) : r = RemoveAt(s, i)
    BY <1>2
  <2> HIDE DEF r
  <2>2. /\ Len(r) = Len(s) - 1 /\ Len(s) \in Nat
        /\ \A j \in 1 .. Len(s) - 1 : r[j] = IF j < i THEN s[j] ELSE s[j + 1]
    BY <2>1, RemoveAtSpec, SMTT(30)
  <2> SUFFICES ASSUME NEW a \in 1 .. Len(r), NEW b \in 1 .. Len(r), a < b
               PROVE  \E x, y \in 1 .. Len(s) : x < y /\ s[x] = r[a] /\ s[y] = r[b]
    BY DEF KeepsOrder, r
  <2> DEFINE x == IF a < i THEN a ELSE a + 1
             y == IF b < i THEN b ELSE b + 1
  <2>3. /\ x \in 1 .. Len(s) /\ y \in 1 .. Len(s) /\ x < y
        /\ s[x] = r[a] /\ s[y] = r[b]
    BY <2>2
  <2> HIDE DEF x, y
  <2> QED
    BY <2>3
<1> QED
  BY <1>1, <1>2, RemoveFirstSpec

\* The elements of list s are sorted by their weights.
Rising(s, w) == \A i, j \in 1 .. Len(s) : i < j => w[s[i]] <= w[s[j]]

\* A list that keeps the order of a sorted one is sorted.
LEMMA RisingKept ==
    ASSUME NEW s, NEW r, NEW w, Rising(s, w), KeepsOrder(s, r)
    PROVE  Rising(r, w)
<1> SUFFICES ASSUME NEW i \in 1 .. Len(r), NEW j \in 1 .. Len(r), i < j
             PROVE  w[r[i]] <= w[r[j]]
  BY DEF Rising
<1>1. PICK x \in 1 .. Len(s), y \in 1 .. Len(s) : x < y /\ s[x] = r[i] /\ s[y] = r[j]
  BY DEF KeepsOrder
<1>2. w[s[x]] <= w[s[y]]
  BY <1>1 DEF Rising
<1> QED
  BY <1>1, <1>2

\* The least element of a set of list positions
LEMMA LeastSpec ==
    ASSUME NEW J, J \subseteq Nat, J # {}, NEW i, i = CHOOSE x \in J : \A j \in J : x <= j
    PROVE  i \in J /\ \A j \in J : i <= j
<1>1. Min(J) \in J /\ \A j \in J : Min(J) <= j
  BY MinSpec
<1>2. \E x \in J : \A j \in J : x <= j
  BY <1>1
<1> QED
  BY <1>2

\* The position before the first heavier element: everybody in front of it weighs at
\* most as much as the new element, everybody behind it at least as much.
LEMMA PositionSpec ==
    ASSUME NEW S, NEW s \in Seq(S), NEW e \in S, NEW w \in [S -> Int], Rising(s, w),
           NEW J, \A j : j \in J <=> j \in 1 .. Len(s) /\ w[e] < w[s[j]],
           NEW i, J = {} => i = Len(s) + 1,
           J # {} => i \in J /\ \A j \in J : i <= j
    PROVE  /\ i \in 1 .. Len(s) + 1
           /\ \A j \in 1 .. Len(s) : j < i => w[s[j]] <= w[e]
           /\ \A j \in 1 .. Len(s) : i <= j => w[e] <= w[s[j]]
<1>1. Len(s) \in Nat /\ w[e] \in Int /\ \A j \in 1 .. Len(s) : w[s[j]] \in Int
  OBVIOUS
<1>2. CASE J = {}
  BY <1>1, <1>2
<1>3. CASE J # {}
  <2>1. i \in 1 .. Len(s) /\ w[e] < w[s[i]]
    BY <1>3
  <2>2. ASSUME NEW j \in 1 .. Len(s), j < i PROVE w[s[j]] <= w[e]
    <3>1. j \notin J
      BY <1>1, <1>3, <2>1, <2>2
    <3>2. ~(w[e] < w[s[j]])
      BY <3>1
    <3> QED
      BY <1>1, <3>2
  <2>3. \A j \in 1 .. Len(s) : i <= j => w[e] <= w[s[j]]
    <3> SUFFICES ASSUME NEW j \in 1 .. Len(s), i <= j PROVE w[e] <= w[s[j]]
      OBVIOUS
    <3>1. i = j \/ w[s[i]] <= w[s[j]]
      BY <1>1, <2>1 DEF Rising
    <3>2. w[s[i]] \in Int /\ w[s[j]] \in Int /\ w[e] \in Int
      BY <1>1, <2>1
    <3> QED
      BY <2>1, <3>1, <3>2
  <2> QED
    BY <1>1, <2>1, <2>2, <2>3
<1> QED
  BY <1>2, <1>3

\* A sorted insertion keeps the list sorted.
LEMMA InsertRising ==
    ASSUME NEW S, NEW s \in Seq(S), NEW e \in S, NEW w \in [S -> Int], Rising(s, w),
           NEW i \in 1 .. Len(s) + 1,
           \A j \in 1 .. Len(s) : j < i => w[s[j]] <= w[e],
           \A j \in 1 .. Len(s) : i <= j => w[e] <= w[s[j]],
           NEW r, r = InsertAt(s, i, e)
    PROVE  Rising(r, w)
<1>1. /\ Len(r) = Len(s) + 1 /\ Len(s) \in Nat
      /\ \A j \in 1 .. Len(s) + 1 :
            r[j] = IF j < i THEN s[j] ELSE IF j = i THEN e ELSE s[j - 1]
  <2>1. /\ InsertAt(s, i, e) \in Seq(S)
        /\ Len(InsertAt(s, i, e)) = Len(s) + 1
        /\ \A j \in 1 .. Len(s) + 1 :
              InsertAt(s, i, e)[j] = IF j < i THEN s[j]
                                     ELSE IF j = i THEN e ELSE s[j - 1]
    BY ONLY s \in Seq(S), e \in S, i \in 1 .. Len(s) + 1, InsertAtSpec
  <2> QED
    BY <2>1
<1> SUFFICES ASSUME NEW x \in 1 .. Len(r), NEW y \in 1 .. Len(r), x < y
             PROVE  w[r[x]] <= w[r[y]]
  BY DEF Rising
<1>2. CASE x < i /\ y < i
  <2>1. x \in 1 .. Len(s) /\ y \in 1 .. Len(s) /\ r[x] = s[x] /\ r[y] = s[y]
    BY <1>1, <1>2
  <2> QED
    BY <2>1 DEF Rising
<1>3. CASE x < i /\ y = i
  <2>1. x \in 1 .. Len(s) /\ r[x] = s[x] /\ r[y] = e
    BY <1>1, <1>3
  <2> QED
    BY <1>3, <2>1
<1>4. CASE x < i /\ y > i
  <2>1. x \in 1 .. Len(s) /\ y - 1 \in 1 .. Len(s) /\ x < y - 1
    BY <1>1, <1>4
  <2>2. r[x] = s[x] /\ r[y] = s[y - 1]
    BY <1>1, <1>4
  <2> QED
    BY <2>1, <2>2 DEF Rising
<1>5. CASE x = i
  <2>1. y - 1 \in 1 .. Len(s) /\ i <= y - 1
    BY <1>1, <1>5
  <2>2. r[x] = e /\ r[y] = s[y - 1]
    BY <1>1, <1>5
  <2> QED
    BY <2>1, <2>2
<1>6. CASE x > i
  <2>1. x - 1 \in 1 .. Len(s) /\ y - 1 \in 1 .. Len(s) /\ x - 1 < y - 1
    BY <1>1, <1>6
  <2>2. r[x] = s[x - 1] /\ r[y] = s[y - 1]
    BY <1>1, <1>6
  <2> QED
    BY <2>1, <2>2 DEF Rising
<1> QED
  BY <1>1, <1>2, <1>3, <1>4, <1>5, <1>6

-----------------------------------------------------------------------------
(* How often an element occurs in a sequence *)

Places(s, e) == {i \in 1 .. Len(s) : s[i] = e}

\* An element occurs at most as often as the sequence is long.
LEMMA PlacesType ==
    ASSUME NEW S, NEW s \in Seq(S), NEW e
    PROVE  /\ IsFiniteSet(Places(s, e))
           /\ Cardinality(Places(s, e)) \in Nat
           /\ Cardinality(Places(s, e)) <= Len(s)
           /\ Cardinality(Places(s, e)) = 0 <=> e \notin ToSet(s)
<1>1. Len(s) \in Nat
  OBVIOUS
<1>2. IsFiniteSet(1 .. Len(s)) /\ Cardinality(1 .. Len(s)) = Len(s)
  <2>1. IsFiniteSet(1 .. Len(s)) /\ Cardinality(1 .. Len(s)) = IF 1 > Len(s) THEN 0 ELSE Len(s) - 1 + 1
    BY <1>1, FS_Interval
  <2> QED
    BY <1>1, <2>1
<1>3. Places(s, e) \subseteq 1 .. Len(s)
  BY DEF Places
<1>4. /\ IsFiniteSet(Places(s, e))
      /\ Cardinality(Places(s, e)) <= Len(s)
  BY <1>2, <1>3, FS_Subset
<1>5. Cardinality(Places(s, e)) \in Nat
  BY <1>4, FS_CardinalityType
<1>6. Cardinality(Places(s, e)) = 0 <=> Places(s, e) = {}
  BY <1>4, FS_EmptySet
<1>7. Places(s, e) = {} <=> e \notin ToSet(s)
  BY DEF Places, ToSet
<1> QED
  BY <1>4, <1>5, <1>6, <1>7

\* Append adds one occurrence of its element.
LEMMA AppendPlaces ==
    ASSUME NEW S, NEW s \in Seq(S), NEW e \in S, NEW x
    PROVE  Cardinality(Places(Append(s, e), x))
              = IF x = e THEN Cardinality(Places(s, x)) + 1 ELSE Cardinality(Places(s, x))
<1>1. PICK r : r = Append(s, e)
  OBVIOUS
<1>2. /\ Len(s) \in Nat /\ Len(r) = Len(s) + 1 /\ r[Len(s) + 1] = e
      /\ \A j \in 1 .. Len(s) : r[j] = s[j]
  BY <1>1
<1>3. CASE x = e
  <2>1. Places(r, x) = Places(s, x) \cup {Len(s) + 1} /\ Len(s) + 1 \notin Places(s, x)
    BY <1>2, <1>3 DEF Places
  <2>2. Cardinality(Places(r, x)) = Cardinality(Places(s, x)) + 1
    BY <2>1, PlacesType, FS_AddElement
  <2> QED
    BY <1>1, <1>3, <2>2
<1>4. CASE x # e
  <2>1. Places(r, x) = Places(s, x)
    BY <1>2, <1>4 DEF Places
  <2> QED
    BY <1>1, <1>4, <2>1
<1> QED
  BY <1>3, <1>4

\* Removing an element removes one occurrence of it.
LEMMA RemovePlaces ==
    ASSUME NEW S, NEW s \in Seq(S), NEW p \in 1 .. Len(s), NEW x
    PROVE  Cardinality(Places(RemoveAt(s, p), x))
              = IF x = s[p] THEN Cardinality(Places(s, x)) - 1 ELSE Cardinality(Places(s, x))
<1>1. PICK r : r = RemoveAt(s, p)
  OBVIOUS
<1>2. /\ Len(s) \in Nat /\ p \in Nat /\ r \in Seq(S) /\ Len(r) = Len(s) - 1
      /\ \A j \in 1 .. Len(s) - 1 : r[j] = IF j < p THEN s[j] ELSE s[j + 1]
  BY <1>1, RemoveAtSpec, SMTT(30)
<1>3. Cardinality(Places(r, x)) = Cardinality(Places(s, x) \ {p})
  <2> DEFINE f == [j \in Places(r, x) |-> IF j < p THEN j ELSE j + 1]
  <2>1. \A j \in Places(r, x) : f[j] \in Places(s, x) \ {p}
    BY <1>2 DEF Places
  <2>2. \A i, j \in Places(r, x) : f[i] = f[j] => i = j
    BY <1>2 DEF Places
  <2>3. ASSUME NEW i \in Places(s, x) \ {p}
        PROVE  \E j \in Places(r, x) : f[j] = i
    <3>1. i \in 1 .. Len(s) /\ i # p /\ s[i] = x
      BY <2>3 DEF Places
    <3>2. CASE i < p
      <4>1. i \in 1 .. Len(s) - 1 /\ r[i] = x
        BY <1>2, <3>1, <3>2
      <4>2. i \in Places(r, x)
        BY <1>2, <4>1 DEF Places
      <4> QED
        BY <3>2, <4>2
    <3>3. CASE i > p
      <4>1. i - 1 \in 1 .. Len(s) - 1 /\ ~(i - 1 < p) /\ (i - 1) + 1 = i
        BY <1>2, <3>1, <3>3
      <4>2. r[i - 1] = x
        BY <1>2, <3>1, <4>1
      <4>3. i - 1 \in Places(r, x)
        BY <1>2, <4>1, <4>2 DEF Places
      <4> QED
        BY <4>1, <4>3
    <3> QED
      BY <1>2, <3>1, <3>2, <3>3
  <2>4. f \in Bijection(Places(r, x), Places(s, x) \ {p})
    BY <2>1, <2>2, <2>3, Fun_IsBij
  <2>5. IsFiniteSet(Places(r, x))
    BY <1>2, PlacesType
  <2> QED
    BY <2>4, <2>5, FS_Bijection DEF ExistsBijection
<1>4. CASE x = s[p]
  <2>1. p \in Places(s, x)
    BY <1>4 DEF Places
  <2>2. Cardinality(Places(s, x) \ {p}) = Cardinality(Places(s, x)) - 1
    BY <2>1, PlacesType, FS_RemoveElement
  <2> QED
    BY <1>1, <1>3, <1>4, <2>2
<1>5. CASE x # s[p]
  <2>1. Places(s, x) \ {p} = Places(s, x)
    BY <1>5 DEF Places
  <2> QED
    BY <1>1, <1>3, <1>5, <2>1
<1> QED
  BY <1>4, <1>5

\* Front removes the last element.
LEMMA FrontRemoves ==
    ASSUME NEW S, NEW s \in Seq(S), s # << >>
    PROVE  /\ Len(s) \in 1 .. Len(s) /\ Last(s) = s[Len(s)]
           /\ Front(s) = RemoveAt(s, Len(s))
<1>1. Len(s) \in Nat \ {0}
  OBVIOUS
<1>2. Last(s) = s[Len(s)]
  BY DEF Last
<1>3. SubSeq(s, Len(s) + 1, Len(s)) = << >>
  BY <1>1
<1>4. Front(s) = SubSeq(s, 1, Len(s) - 1) /\ SubSeq(s, 1, Len(s) - 1) \in Seq(S)
  BY <1>1 DEF Front
<1>5. SubSeq(s, 1, Len(s) - 1) \o << >> = SubSeq(s, 1, Len(s) - 1)
  BY <1>4
<1> QED
  BY <1>1, <1>2, <1>3, <1>4, <1>5 DEF RemoveAt

-----------------------------------------------------------------------------
(* The consistency of the kernel state *)


Flat(k, X) ==
    /\ \A l \in Lists : IsInjective(k.q[l])
    /\ IsInjective(k.tlist)
    /\ \A t \in Thread : \A l, m \in Lists : Linked(k, t, l) /\ Linked(k, t, m) => l = m
    /\ \A t \in Thread : k.stat[t] = "READY" => t \in X \/ Linked(k, t, k.prio[t])
    /\ \A t \in Thread : \A p \in Prio : Linked(k, t, p) => k.stat[t] = "READY" /\ k.prio[t] = p
    /\ \A p \in Prio : p \in k.group <=> \E t \in Thread : Linked(k, t, p)
    /\ \A t \in Thread : k.stat[t] = "RUNNING" => t = k.cur
    /\ k.stat[k.cur] # "READY"
    /\ \A t \in Thread : \A o \in Obj : Linked(k, t, o) => k.stat[t] = "SUSPEND"
    /\ \A t \in Thread : Linked(k, t, Defunct) => k.stat[t] = "CLOSE"
    /\ \A t \in Thread : Armed(k, t) => k.stat[t] = "SUSPEND"
    /\ k.stat[Idle] \in {"READY", "RUNNING"}

Good(k, X) == k \in Kstate /\ Flat(k, X)

\* The threads on their way out and thread t.
Also(X, t) == X \cup {t}

\* A list is empty exactly when no thread is linked into it.
LEMMA NonEmpty ==
    ASSUME NEW k \in Kstate, NEW l \in Lists
    PROVE  k.q[l] # << >> <=> \E t \in Thread : Linked(k, t, l)
<1>1. k.q[l] \in Seq(Thread)
  BY DEF Kstate
<1>2. ToSet(k.q[l]) \subseteq Thread
  BY <1>1, ToSetType
<1>3. k.q[l] = << >> <=> ToSet(k.q[l]) = {}
  BY <1>1, EmptyList
<1> QED
  BY <1>2, <1>3 DEF Linked

\* The first thread of a list that is not empty is linked into it.
LEMMA HeadLinked ==
    ASSUME NEW k \in Kstate, NEW l \in Lists, k.q[l] # << >>
    PROVE  Head(k.q[l]) \in Thread /\ Linked(k, Head(k.q[l]), l)
<1>1. k.q[l] \in Seq(Thread)
  BY DEF Kstate
<1> QED
  BY <1>1, ToSetType, EmptyList DEF Linked

\* Flat is KernelOK.
LEMMA FlatIff ==
    ASSUME NEW k \in Kstate, NEW X
    PROVE  Flat(k, X) <=> KernelOK(k, X)
<1>1. \A p \in Prio : k.q[p] # << >> <=> \E t \in Thread : Linked(k, t, p)
  BY NonEmpty DEF Lists
<1>2. k.group \subseteq Prio
  BY DEF Kstate
<1>3. k.group = {p \in Prio : k.q[p] # << >>}
        <=> \A p \in Prio : p \in k.group <=> \E t \in Thread : Linked(k, t, p)
  BY <1>1, <1>2
<1> QED
  BY <1>3 DEF Flat, KernelOK, OneList, ReadyTable, OneRunning, WaitersSuspended,
         DefunctClosed, IdleAlive

\* What rt_list_remove does to the lists.
LEMMA UnlinkLists ==
    ASSUME NEW k \in Kstate, NEW t \in Thread, \A l \in Lists : IsInjective(k.q[l]),
           NEW f, f = [l \in Lists |-> RemoveFirst(k.q[l], t)]
    PROVE  /\ f \in [Lists -> Seq(Thread)]
           /\ \A l \in Lists : IsInjective(f[l]) /\ ToSet(f[l]) = ToSet(k.q[l]) \ {t}
<1>1. \A l \in Lists : k.q[l] \in Seq(Thread)
  BY DEF Kstate
<1>2. \A l \in Lists :
        /\ RemoveFirst(k.q[l], t) \in Seq(Thread)
        /\ IsInjective(RemoveFirst(k.q[l], t))
        /\ ToSet(RemoveFirst(k.q[l], t)) = ToSet(k.q[l]) \ {t}
  BY <1>1, RemoveFirstList
<1> QED
  BY <1>2

\* rt_list_remove takes thread t out of every list and touches nothing else.
LEMMA UnlinkFields ==
    ASSUME NEW k \in Kstate, NEW t \in Thread, \A l \in Lists : IsInjective(k.q[l]),
           NEW n, n = Unlink(k, t)
    PROVE  /\ n \in Kstate
           /\ \A l \in Lists : IsInjective(n.q[l])
           /\ \A u \in Thread : \A l \in Lists : Linked(n, u, l) <=> Linked(k, u, l) /\ u # t
           /\ n.cur = k.cur /\ n.stat = k.stat /\ n.prio = k.prio /\ n.group = k.group
           /\ n.lock = k.lock /\ n.err = k.err /\ n.tick = k.tick /\ n.slice = k.slice
           /\ n.tlist = k.tlist /\ n.timeout = k.timeout
<1> DEFINE f == [l \in Lists |-> RemoveFirst(k.q[l], t)]
<1>1. /\ f \in [Lists -> Seq(Thread)]
      /\ \A l \in Lists : IsInjective(f[l]) /\ ToSet(f[l]) = ToSet(k.q[l]) \ {t}
  BY UnlinkLists
<1>2. n = [k EXCEPT !.q = f]
  BY DEF Unlink
<1> HIDE DEF f
<1>3. n \in Kstate
  BY <1>1, <1>2 DEF Kstate
<1>4. n.q = f
  BY <1>2 DEF Kstate
<1>5. /\ n.cur = k.cur /\ n.stat = k.stat /\ n.prio = k.prio /\ n.group = k.group
      /\ n.lock = k.lock /\ n.err = k.err /\ n.tick = k.tick /\ n.slice = k.slice
      /\ n.tlist = k.tlist /\ n.timeout = k.timeout
  BY <1>2 DEF Kstate
<1> QED
  BY <1>1, <1>3, <1>4, <1>5 DEF Linked

\* Unlinking a suspended thread, or one that is on its way out.
LEMMA UnlinkGood ==
    ASSUME NEW k, NEW X, Good(k, X), NEW t \in Thread,
           \A p \in Prio : ~Linked(k, t, p),
           NEW n, n = Unlink(k, t)
    PROVE  /\ Good(n, X)
           /\ \A u \in Thread : \A l \in Lists : Linked(n, u, l) <=> Linked(k, u, l) /\ u # t
           /\ \A u \in Thread : Armed(n, u) <=> Armed(k, u)
           /\ n.cur = k.cur /\ n.stat = k.stat /\ n.prio = k.prio /\ n.lock = k.lock
<1>1. k \in Kstate /\ Flat(k, X)
  BY DEF Good
<1>2. \A l \in Lists : IsInjective(k.q[l])
  BY <1>1 DEF Flat
<1>3. /\ n \in Kstate
      /\ \A l \in Lists : IsInjective(n.q[l])
      /\ \A u \in Thread : \A l \in Lists : Linked(n, u, l) <=> Linked(k, u, l) /\ u # t
      /\ n.cur = k.cur /\ n.stat = k.stat /\ n.prio = k.prio /\ n.group = k.group
      /\ n.tlist = k.tlist /\ n.lock = k.lock
  BY <1>1, <1>2, UnlinkFields
<1>4. \A u \in Thread : Armed(n, u) <=> Armed(k, u)
  BY <1>3 DEF Armed
<1>5. Prio \subseteq Lists /\ Obj \subseteq Lists /\ Defunct \in Lists /\ k.prio \in [Thread -> Prio]
  BY <1>1 DEF Lists, Kstate
<1>6. Flat(n, X)
  BY <1>1, <1>3, <1>4, <1>5 DEF Flat
<1> QED
  BY <1>3, <1>4, <1>6 DEF Good

\* rt_schedule_insert_thread of the current thread.
LEMMA InsertCurrentGood ==
    ASSUME NEW k, NEW X, Good(k, X), NEW t \in Thread, t = k.cur,
           \A l \in Lists : ~Linked(k, t, l), ~Armed(k, t),
           NEW n, n = rt_schedule_insert_thread(k, t)
    PROVE  /\ Good(n, X)
           /\ \A u \in Thread : \A o \in Obj : Linked(n, u, o) <=> Linked(k, u, o)
           /\ n.cur = k.cur /\ n.prio = k.prio /\ n.q = k.q /\ n.lock = k.lock
           /\ \A u \in Thread : n.stat[u] = IF u = t THEN "RUNNING" ELSE k.stat[u]
<1>1. k \in Kstate /\ Flat(k, X)
  BY DEF Good
<1>2. n \in Kstate
  BY <1>1 DEF Kstate, Stat, rt_schedule_insert_thread
<1>3. /\ n.stat = [k.stat EXCEPT ![t] = "RUNNING"]
      /\ n.cur = k.cur /\ n.prio = k.prio /\ n.q = k.q /\ n.group = k.group
      /\ n.tlist = k.tlist /\ n.lock = k.lock
  BY <1>1 DEF Kstate, Stat, rt_schedule_insert_thread
<1>4. /\ \A u \in Thread : Armed(n, u) <=> Armed(k, u)
      /\ \A u \in Thread : \A l \in Lists : Linked(n, u, l) <=> Linked(k, u, l)
  BY <1>3 DEF Armed, Linked
<1>5. Prio \subseteq Lists /\ Obj \subseteq Lists /\ Defunct \in Lists /\ Idle \in Thread
  BY KernelAssumption DEF Lists
<1>6. k.stat \in [Thread -> Stat] /\ k.cur \in Thread /\ k.prio \in [Thread -> Prio]
  BY <1>1 DEF Kstate
<1>7. Flat(n, X)
  BY <1>1, <1>3, <1>4, <1>5, <1>6 DEF Flat
<1> QED
  BY <1>2, <1>3, <1>4, <1>5, <1>6, <1>7 DEF Good

\* rt_schedule_insert_thread of another thread: the fields.
LEMMA InsertFields ==
    ASSUME NEW k \in Kstate, \A l \in Lists : IsInjective(k.q[l]),
           NEW t \in Thread, t # k.cur, \A l \in Lists : ~Linked(k, t, l),
           NEW n, n = rt_schedule_insert_thread(k, t)
    PROVE  /\ n \in Kstate
           /\ \A l \in Lists : IsInjective(n.q[l])
           /\ \A u \in Thread : \A l \in Lists :
                Linked(n, u, l) <=> Linked(k, u, l) \/ (u = t /\ l = k.prio[t])
           /\ n.stat = [k.stat EXCEPT ![t] = "READY"]
           /\ n.group = k.group \cup {k.prio[t]}
           /\ n.cur = k.cur /\ n.prio = k.prio /\ n.lock = k.lock
           /\ n.err = k.err /\ n.tick = k.tick /\ n.slice = k.slice
           /\ n.tlist = k.tlist /\ n.timeout = k.timeout
<1> DEFINE p == k.prio[t]
           s == Append(k.q[p], t)
<1>1. p \in Prio /\ p \in Lists
  BY DEF Kstate, Lists
<1>2. k.q[p] \in Seq(Thread) /\ k.q \in [Lists -> Seq(Thread)]
  BY <1>1 DEF Kstate
<1>3. s \in Seq(Thread) /\ IsInjective(s) /\ ToSet(s) = ToSet(k.q[p]) \cup {t}
  BY <1>1, <1>2, AppendList DEF Linked
<1>4. n = [k EXCEPT !.stat[t] = "READY", !.q[p] = s, !.group = k.group \cup {p}]
  BY DEF rt_schedule_insert_thread
<1> HIDE DEF s
<1> HIDE DEF p
<1>5. /\ n.stat = [k.stat EXCEPT ![t] = "READY"]
      /\ n.group = k.group \cup {p}
      /\ n.q = [k.q EXCEPT ![p] = s]
      /\ n.cur = k.cur /\ n.prio = k.prio /\ n.lock = k.lock
      /\ n.err = k.err /\ n.tick = k.tick /\ n.slice = k.slice
      /\ n.tlist = k.tlist /\ n.timeout = k.timeout
  BY <1>4 DEF Kstate
<1>6. n.q \in [Lists -> Seq(Thread)]
  BY <1>1, <1>2, <1>3, <1>5
<1>7. n \in Kstate
  <2> DEFINE st == [k.stat EXCEPT ![t] = "READY"]
             f == [k.q EXCEPT ![p] = s]
             g == k.group \cup {p}
  <2>1. n = [k EXCEPT !.stat = st, !.q = f, !.group = g]
    BY <1>4
  <2>2. st \in [Thread -> Stat] /\ f \in [Lists -> Seq(Thread)] /\ g \in SUBSET Prio
    BY <1>1, <1>2, <1>5, <1>6 DEF Kstate, Stat
  <2> HIDE DEF st, f, g
  <2> QED
    BY <2>1, <2>2 DEF Kstate
<1>8. \A l \in Lists : n.q[l] = IF l = p THEN s ELSE k.q[l]
  BY <1>1, <1>2, <1>5
<1> QED
  BY <1>3, <1>5, <1>7, <1>8 DEF Linked, p

\* rt_schedule_insert_thread of another thread.
LEMMA InsertOtherGood ==
    ASSUME NEW k, NEW X, Good(k, X), NEW t \in Thread, t # k.cur,
           \A l \in Lists : ~Linked(k, t, l), ~Armed(k, t),
           NEW n, n = rt_schedule_insert_thread(k, t)
    PROVE  /\ Good(n, X)
           /\ \A u \in Thread : \A o \in Obj : Linked(n, u, o) <=> Linked(k, u, o)
           /\ n.cur = k.cur /\ n.prio = k.prio /\ n.lock = k.lock
           /\ \A u \in Thread : n.stat[u] = IF u = t THEN "READY" ELSE k.stat[u]
<1>1. k \in Kstate /\ Flat(k, X)
  BY DEF Good
<1>2. \A l \in Lists : IsInjective(k.q[l])
  BY <1>1 DEF Flat
<1>3. /\ n \in Kstate
      /\ \A l \in Lists : IsInjective(n.q[l])
      /\ \A u \in Thread : \A l \in Lists :
            Linked(n, u, l) <=> Linked(k, u, l) \/ (u = t /\ l = k.prio[t])
      /\ n.stat = [k.stat EXCEPT ![t] = "READY"]
      /\ n.group = k.group \cup {k.prio[t]}
      /\ n.cur = k.cur /\ n.prio = k.prio /\ n.lock = k.lock /\ n.tlist = k.tlist
  BY <1>1, <1>2, InsertFields
<1>4. \A u \in Thread : Armed(n, u) <=> Armed(k, u)
  BY <1>3 DEF Armed
<1>5. /\ Prio \subseteq Lists /\ Obj \subseteq Lists /\ Defunct \in Lists
      /\ Obj \cap Prio = {} /\ Defunct \notin Prio /\ Idle \in Thread
  BY KernelAssumption DEF Lists
<1>6. /\ k.stat \in [Thread -> Stat] /\ k.cur \in Thread
      /\ k.prio \in [Thread -> Prio]
  BY <1>1 DEF Kstate
<1>7. Flat(n, X)
  BY <1>1, <1>3, <1>4, <1>5, <1>6 DEF Flat
<1>8. \A u \in Thread : \A o \in Obj : Linked(n, u, o) <=> Linked(k, u, o)
  BY <1>3, <1>5, <1>6
<1> QED
  BY <1>3, <1>6, <1>7, <1>8 DEF Good

\* rt_schedule_insert_thread of a thread that is on no list.
LEMMA InsertGood ==
    ASSUME NEW k, NEW X, Good(k, X), NEW t \in Thread,
           \A l \in Lists : ~Linked(k, t, l), ~Armed(k, t),
           NEW n, n = rt_schedule_insert_thread(k, t)
    PROVE  /\ Good(n, X)
           /\ \A u \in Thread : \A o \in Obj : Linked(n, u, o) <=> Linked(k, u, o)
           /\ n.cur = k.cur /\ n.prio = k.prio /\ n.lock = k.lock
           /\ \A u \in Thread :
                n.stat[u] = IF u # t THEN k.stat[u]
                            ELSE IF t = k.cur THEN "RUNNING" ELSE "READY"
<1>0. k.stat \in [Thread -> Stat]
  BY DEF Good, Kstate
<1>1. CASE t = k.cur
  BY <1>0, <1>1, InsertCurrentGood
<1>2. CASE t # k.cur
  BY <1>0, <1>2, InsertOtherGood
<1> QED
  BY <1>1, <1>2

-----------------------------------------------------------------------------
(* scheduler.c *)

\* rt_schedule_remove_thread: the fields.
LEMMA RemoveFields ==
    ASSUME NEW k \in Kstate, \A l \in Lists : IsInjective(k.q[l]),
           NEW t \in Thread,
           NEW n, n = rt_schedule_remove_thread(k, t)
    PROVE  /\ n \in Kstate
           /\ \A l \in Lists : IsInjective(n.q[l])
           /\ \A u \in Thread : \A l \in Lists : Linked(n, u, l) <=> Linked(k, u, l) /\ u # t
           /\ \A p \in Prio :
                p \in n.group <=> /\ p \in k.group
                                  /\ p = k.prio[t] => \E u \in Thread : Linked(n, u, p)
           /\ n.cur = k.cur /\ n.stat = k.stat /\ n.prio = k.prio /\ n.lock = k.lock
           /\ n.err = k.err /\ n.tick = k.tick /\ n.slice = k.slice
           /\ n.tlist = k.tlist /\ n.timeout = k.timeout
<1> DEFINE v == Unlink(k, t)
           g == IF v.q[v.prio[t]] = << >> THEN v.group \ {v.prio[t]} ELSE v.group
<1>1. /\ v \in Kstate
      /\ \A l \in Lists : IsInjective(v.q[l])
      /\ \A u \in Thread : \A l \in Lists : Linked(v, u, l) <=> Linked(k, u, l) /\ u # t
      /\ v.cur = k.cur /\ v.stat = k.stat /\ v.prio = k.prio /\ v.group = k.group
      /\ v.lock = k.lock /\ v.err = k.err /\ v.tick = k.tick /\ v.slice = k.slice
      /\ v.tlist = k.tlist /\ v.timeout = k.timeout
  BY UnlinkFields
<1>2. n = [v EXCEPT !.group = g]
  BY DEF rt_schedule_remove_thread
<1> HIDE DEF v
<1>3. v.prio[t] \in Prio /\ v.prio[t] \in Lists /\ v.group \subseteq Prio
  BY <1>1 DEF Kstate, Lists
<1>4. v.q[v.prio[t]] # << >> <=> \E u \in Thread : Linked(v, u, v.prio[t])
  BY <1>1, <1>3, NonEmpty
<1>5. \A p \in Prio :
         p \in g <=> /\ p \in v.group
                     /\ p = v.prio[t] => \E u \in Thread : Linked(v, u, p)
  BY <1>3, <1>4
<1>6. g \in SUBSET Prio
  BY <1>3
<1> HIDE DEF g
<1>7. n \in Kstate
  BY <1>1, <1>2, <1>6 DEF Kstate
<1>8. /\ n.group = g /\ n.q = v.q
      /\ n.cur = v.cur /\ n.stat = v.stat /\ n.prio = v.prio /\ n.lock = v.lock
      /\ n.err = v.err /\ n.tick = v.tick /\ n.slice = v.slice
      /\ n.tlist = v.tlist /\ n.timeout = v.timeout
  BY <1>1, <1>2 DEF Kstate
<1>9. \A u \in Thread : \A l \in Lists : Linked(n, u, l) <=> Linked(v, u, l)
  BY <1>8 DEF Linked
<1>10. Prio \subseteq Lists
  BY DEF Lists
<1> QED
  BY <1>1, <1>5, <1>7, <1>8, <1>9, <1>10

\* rt_schedule_remove_thread: the thread is on no list afterwards; if it was
\* READY it is so without being in the ready table.
LEMMA RemoveGood ==
    ASSUME NEW k, NEW X, Good(k, X), NEW t \in Thread,
           NEW n, n = rt_schedule_remove_thread(k, t)
    PROVE  /\ Good(n, Also(X, t))
           /\ \A u \in Thread : \A l \in Lists : Linked(n, u, l) <=> Linked(k, u, l) /\ u # t
           /\ \A u \in Thread : Armed(n, u) <=> Armed(k, u)
           /\ n.cur = k.cur /\ n.stat = k.stat /\ n.prio = k.prio /\ n.lock = k.lock
<1>1. k \in Kstate /\ Flat(k, X)
  BY DEF Good
<1>2. \A l \in Lists : IsInjective(k.q[l])
  BY <1>1 DEF Flat
<1>3. /\ n \in Kstate
      /\ \A l \in Lists : IsInjective(n.q[l])
      /\ \A u \in Thread : \A l \in Lists : Linked(n, u, l) <=> Linked(k, u, l) /\ u # t
      /\ \A p \in Prio :
            p \in n.group <=> /\ p \in k.group
                              /\ p = k.prio[t] => \E u \in Thread : Linked(n, u, p)
      /\ n.cur = k.cur /\ n.stat = k.stat /\ n.prio = k.prio
      /\ n.tlist = k.tlist /\ n.lock = k.lock
  BY <1>1, <1>2, RemoveFields
<1>4. \A u \in Thread : Armed(n, u) <=> Armed(k, u)
  BY <1>3 DEF Armed
<1>5. Prio \subseteq Lists /\ Obj \subseteq Lists /\ Defunct \in Lists /\ k.prio \in [Thread -> Prio]
  BY <1>1 DEF Lists, Kstate
<1>6. \A p \in Prio : p \in n.group <=> \E u \in Thread : Linked(n, u, p)
  BY <1>1, <1>3, <1>5 DEF Flat
<1>7. Flat(n, Also(X, t))
  BY <1>1, <1>3, <1>4, <1>5, <1>6 DEF Flat, Also
<1> QED
  BY <1>3, <1>4, <1>7 DEF Good

\* A change of thread->stat alone.
SetStat(k, t, s) == [k EXCEPT !.stat[t] = s]

\* A change of thread->stat alone: the fields.
LEMMA SetStatFields ==
    ASSUME NEW k \in Kstate, NEW t \in Thread, NEW s \in Stat,
           NEW n, n = SetStat(k, t, s)
    PROVE  /\ n \in Kstate
           /\ n.stat = [k.stat EXCEPT ![t] = s]
           /\ n.cur = k.cur /\ n.prio = k.prio /\ n.q = k.q /\ n.group = k.group
           /\ n.tlist = k.tlist /\ n.lock = k.lock
  BY DEF Kstate, SetStat

\* A change of the state of a thread that is on no list.
LEMMA SetStatGood ==
    ASSUME NEW k, NEW X, NEW t \in Thread, Good(k, Also(X, t)),
           \A l \in Lists : ~Linked(k, t, l),
           NEW s \in Stat, s # "READY", s = "RUNNING" => t = k.cur,
           Armed(k, t) => s = "SUSPEND", t = Idle => s = "RUNNING",
           NEW n, n = SetStat(k, t, s)
    PROVE  /\ Good(n, X)
           /\ n.q = k.q /\ n.tlist = k.tlist
           /\ n.cur = k.cur /\ n.prio = k.prio /\ n.lock = k.lock
           /\ \A u \in Thread : n.stat[u] = IF u = t THEN s ELSE k.stat[u]
<1>1. k \in Kstate /\ Flat(k, Also(X, t))
  BY DEF Good
<1>2. n \in Kstate
  BY <1>1, SetStatFields
<1>3. /\ n.stat = [k.stat EXCEPT ![t] = s]
      /\ n.cur = k.cur /\ n.prio = k.prio /\ n.q = k.q /\ n.group = k.group
      /\ n.tlist = k.tlist /\ n.lock = k.lock
  BY <1>1, SetStatFields
<1>4. /\ \A u \in Thread : Armed(n, u) <=> Armed(k, u)
      /\ \A u \in Thread : \A l \in Lists : Linked(n, u, l) <=> Linked(k, u, l)
  BY <1>3 DEF Armed, Linked
<1>5. Prio \subseteq Lists /\ Obj \subseteq Lists /\ Defunct \in Lists /\ Idle \in Thread
  BY KernelAssumption DEF Lists
<1>6. k.stat \in [Thread -> Stat] /\ k.cur \in Thread /\ k.prio \in [Thread -> Prio]
  BY <1>1 DEF Kstate
<1>7. Flat(n, X)
  BY <1>1, <1>3, <1>4, <1>5, <1>6 DEF Flat, Also
<1> QED
  BY <1>2, <1>3, <1>6, <1>7 DEF Good

\* The current thread, on no list, is made RUNNING.
LEMMA SetRunningGood ==
    ASSUME NEW k, NEW X, NEW t \in Thread, Good(k, Also(X, t)), k.cur = t,
           \A l \in Lists : ~Linked(k, t, l), ~Armed(k, t),
           NEW n, n = SetStat(k, t, "RUNNING")
    PROVE  /\ Good(n, X)
           /\ n.q = k.q /\ n.tlist = k.tlist
           /\ n.cur = k.cur /\ n.prio = k.prio /\ n.lock = k.lock
           /\ \A u \in Thread : n.stat[u] = IF u = t THEN "RUNNING" ELSE k.stat[u]
<1>1. "RUNNING" \in Stat
  BY DEF Stat
<1> QED
  BY <1>1, SetStatGood

\* A thread on no list is made SUSPEND.
LEMMA SetSuspendGood ==
    ASSUME NEW k, NEW X, NEW t \in Thread, Good(k, Also(X, t)), t # Idle,
           \A l \in Lists : ~Linked(k, t, l),
           NEW n, n = SetStat(k, t, "SUSPEND")
    PROVE  /\ Good(n, X)
           /\ n.q = k.q /\ n.tlist = k.tlist
           /\ n.cur = k.cur /\ n.prio = k.prio /\ n.lock = k.lock
           /\ \A u \in Thread : n.stat[u] = IF u = t THEN "SUSPEND" ELSE k.stat[u]
<1>1. "SUSPEND" \in Stat
  BY DEF Stat
<1> QED
  BY <1>1, SetStatGood

\* The highest set bit of the priority group is the most urgent priority that
\* has a ready thread.
LEMMA HighestReadySpec ==
    ASSUME NEW k \in Kstate, k.group # {}
    PROVE  /\ HighestReady(k) \in k.group
           /\ \A r \in k.group : HighestReady(k) <= r
<1>1. k.group \subseteq Nat
  BY KernelAssumption DEF Kstate, Prio
<1>2. \E p \in k.group : \A r \in k.group : p <= r
  <2>1. Min(k.group) \in k.group /\ \A j \in k.group : Min(k.group) <= j
    BY <1>1, MinSpec
  <2> QED
    BY <2>1
<1> QED
  BY <1>2 DEF HighestReady

\* A thread that is RUNNING is on no list and has no armed timer.
LEMMA RunningFree ==
    ASSUME NEW k, NEW X, Good(k, X), NEW t \in Thread, k.stat[t] = "RUNNING"
    PROVE  (\A l \in Lists : ~Linked(k, t, l)) /\ ~Armed(k, t)
  BY DEF Good, Flat, Lists

\* The switch, when the current thread does not stay: what Leave changes.
LEMMA LeaveFields ==
    ASSUME NEW k, NEW X, Good(k, X), NEW to \in Thread, to # k.cur,
           NEW n, n = Leave(k, to)
    PROVE  /\ n \in Kstate
           /\ \A l \in Lists : IsInjective(n.q[l])
           /\ \A u \in Thread : \A l \in Lists :
                Linked(n, u, l) <=> \/ Linked(k, u, l)
                                    \/ k.stat[k.cur] = "RUNNING" /\ u = k.cur /\ l = k.prio[u]
           /\ \A u \in Thread :
                n.stat[u] = IF k.stat[u] = "RUNNING" THEN "READY" ELSE k.stat[u]
           /\ \A p \in Prio :
                p \in n.group <=> \/ p \in k.group
                                  \/ k.stat[k.cur] = "RUNNING" /\ p = k.prio[k.cur]
           /\ n.cur = to /\ n.prio = k.prio /\ n.lock = k.lock /\ n.tlist = k.tlist
<1> DEFINE v == [k EXCEPT !.cur = to]
<1>1. k \in Kstate /\ Flat(k, X) /\ k.cur \in Thread /\ k.stat \in [Thread -> Stat]
  BY DEF Good, Kstate
<1>2. v \in Kstate
  BY <1>1 DEF Kstate
<1>3. /\ v.cur = to /\ v.stat = k.stat /\ v.prio = k.prio /\ v.q = k.q
      /\ v.group = k.group /\ v.lock = k.lock /\ v.tlist = k.tlist
  BY <1>1 DEF Kstate
<1>4. \A u \in Thread : \A l \in Lists : Linked(v, u, l) <=> Linked(k, u, l)
  BY <1>3 DEF Linked
<1>5. \A l \in Lists : IsInjective(v.q[l])
  BY <1>1, <1>3 DEF Flat
<1>6. n = IF k.stat[k.cur] = "RUNNING" THEN rt_schedule_insert_thread(v, k.cur) ELSE v
  BY DEF Leave
<1>7. \A u \in Thread : k.stat[u] = "RUNNING" => u = k.cur
  BY <1>1 DEF Flat
<1> HIDE DEF v
<1>8. CASE k.stat[k.cur] = "RUNNING"
  <2>1. \A l \in Lists : ~Linked(v, k.cur, l)
    BY <1>1, <1>4, <1>8, RunningFree
  <2>2. /\ n \in Kstate
        /\ \A l \in Lists : IsInjective(n.q[l])
        /\ \A u \in Thread : \A l \in Lists :
             Linked(n, u, l) <=> Linked(v, u, l) \/ (u = k.cur /\ l = v.prio[k.cur])
        /\ n.stat = [v.stat EXCEPT ![k.cur] = "READY"]
        /\ n.group = v.group \cup {v.prio[k.cur]}
        /\ n.cur = v.cur /\ n.prio = v.prio /\ n.lock = v.lock /\ n.tlist = v.tlist
    BY <1>1, <1>2, <1>3, <1>5, <1>6, <1>8, <2>1, InsertFields
  <2> QED
    BY <1>1, <1>3, <1>4, <1>7, <1>8, <2>2
<1>9. CASE k.stat[k.cur] # "RUNNING"
  <2>1. n = v
    BY <1>6, <1>9
  <2> QED
    BY <1>1, <1>2, <1>3, <1>4, <1>5, <1>7, <1>9, <2>1
<1> QED
  BY <1>8, <1>9

\* The switch to another ready thread keeps the kernel consistent.
LEMMA SwitchGood ==
    ASSUME NEW k, NEW X, Good(k, X), NEW to \in Thread, to # k.cur,
           k.stat[to] = "READY", Linked(k, to, k.prio[to]),
           NEW n, n = Enter(Leave(k, to), to)
    PROVE  /\ Good(n, X)
           /\ n.cur = to /\ n.stat[to] = "RUNNING" /\ n.prio = k.prio /\ n.lock = k.lock
           /\ \A u \in Thread : \A o \in Obj : Linked(n, u, o) <=> Linked(k, u, o)
           /\ \A u \in Thread : k.stat[u] = "SUSPEND" <=> n.stat[u] = "SUSPEND"
<1> DEFINE v == Leave(k, to)
           w == rt_schedule_remove_thread(v, to)
<1>0. /\ k \in Kstate /\ Flat(k, X) /\ k.cur \in Thread /\ k.stat \in [Thread -> Stat]
      /\ k.prio \in [Thread -> Prio]
  BY DEF Good, Kstate
<1>1. /\ v \in Kstate
      /\ \A l \in Lists : IsInjective(v.q[l])
      /\ \A u \in Thread : \A l \in Lists :
            Linked(v, u, l) <=> \/ Linked(k, u, l)
                                \/ k.stat[k.cur] = "RUNNING" /\ u = k.cur /\ l = k.prio[u]
      /\ \A u \in Thread : v.stat[u] = IF k.stat[u] = "RUNNING" THEN "READY" ELSE k.stat[u]
      /\ \A p \in Prio :
            p \in v.group <=> \/ p \in k.group
                              \/ k.stat[k.cur] = "RUNNING" /\ p = k.prio[k.cur]
      /\ v.cur = to /\ v.prio = k.prio /\ v.lock = k.lock /\ v.tlist = k.tlist
  BY LeaveFields
<1> HIDE DEF v
<1>2. /\ w \in Kstate
      /\ \A l \in Lists : IsInjective(w.q[l])
      /\ \A u \in Thread : \A l \in Lists : Linked(w, u, l) <=> Linked(v, u, l) /\ u # to
      /\ \A p \in Prio :
            p \in w.group <=> /\ p \in v.group
                              /\ p = v.prio[to] => \E u \in Thread : Linked(w, u, p)
      /\ w.cur = v.cur /\ w.stat = v.stat /\ w.prio = v.prio /\ w.lock = v.lock
      /\ w.tlist = v.tlist
  BY <1>1, RemoveFields
<1>3. n = SetStat(w, to, "RUNNING")
  BY DEF Enter, SetStat, v
<1> HIDE DEF w
<1>4. "RUNNING" \in Stat
  BY DEF Stat
<1>5. /\ n \in Kstate
      /\ n.stat = [w.stat EXCEPT ![to] = "RUNNING"]
      /\ n.cur = w.cur /\ n.prio = w.prio /\ n.q = w.q /\ n.group = w.group
      /\ n.tlist = w.tlist /\ n.lock = w.lock
  BY <1>2, <1>3, <1>4, SetStatFields
<1>6. \A u \in Thread : \A l \in Lists : Linked(n, u, l) <=> Linked(w, u, l)
  BY <1>5 DEF Linked
<1>7. \A u \in Thread : Armed(n, u) <=> Armed(k, u)
  BY <1>1, <1>2, <1>5 DEF Armed
<1>8. /\ Prio \subseteq Lists /\ Obj \subseteq Lists /\ Defunct \in Lists
      /\ Obj \cap Prio = {} /\ Defunct \notin Prio /\ Idle \in Thread
  BY KernelAssumption DEF Lists
<1>9. w.stat \in [Thread -> Stat]
  BY <1>2 DEF Kstate
<1>10. \A u \in Thread : n.stat[u] = IF u = to THEN "RUNNING"
                                     ELSE IF k.stat[u] = "RUNNING" THEN "READY"
                                     ELSE k.stat[u]
  BY <1>1, <1>2, <1>5, <1>9
<1>11. \A u \in Thread : \A l \in Lists :
          Linked(n, u, l) <=>
            /\ u # to
            /\ \/ Linked(k, u, l)
               \/ k.stat[k.cur] = "RUNNING" /\ u = k.cur /\ l = k.prio[u]
  BY <1>1, <1>2, <1>6
<1>12. \A p \in Prio : p \in n.group <=> \E u \in Thread : Linked(n, u, p)
  <2> SUFFICES ASSUME NEW p \in Prio
               PROVE  p \in n.group <=> \E u \in Thread : Linked(n, u, p)
    OBVIOUS
  <2>1. p \in n.group <=> /\ p \in k.group \/ (k.stat[k.cur] = "RUNNING" /\ p = k.prio[k.cur])
                          /\ p = k.prio[to] => \E u \in Thread : Linked(n, u, p)
    BY <1>1, <1>2, <1>5, <1>6, <1>8
  <2>2. p \in k.group <=> \E u \in Thread : Linked(k, u, p)
    BY <1>0 DEF Flat
  <2>3. \A u \in Thread : Linked(k, u, p) => k.prio[u] = p
    BY <1>0 DEF Flat
  <2> QED
    BY <1>0, <1>8, <1>11, <2>1, <2>2, <2>3
<1>13. n.cur = to /\ n.prio = k.prio /\ n.lock = k.lock /\ n.tlist = k.tlist
  BY <1>1, <1>2, <1>5
<1>14. \A u \in Thread : k.stat[u] = "RUNNING" => u = k.cur
  BY <1>0 DEF Flat
<1>15. \A u \in Thread : \A l, m \in Lists : Linked(n, u, l) /\ Linked(n, u, m) => l = m
  <2>1. k.stat[k.cur] = "RUNNING" => \A l \in Lists : ~Linked(k, k.cur, l)
    BY <1>0, RunningFree
  <2> QED
    BY <1>0, <1>11, <2>1 DEF Flat
<1>16. \A l \in Lists : IsInjective(n.q[l])
  BY <1>2, <1>5
<1> HIDE DEF Linked
<1>17. Flat(n, X)
  <2>1. \A u \in Thread : n.stat[u] = "READY" => u \in X \/ Linked(n, u, n.prio[u])
    BY <1>0, <1>8, <1>10, <1>11, <1>13, <1>14 DEF Flat
  <2>2. \A u \in Thread : \A p \in Prio : Linked(n, u, p) => n.stat[u] = "READY" /\ n.prio[u] = p
    BY <1>0, <1>8, <1>10, <1>11, <1>13, <1>14 DEF Flat
  <2>3. \A u \in Thread : \A o \in Obj : Linked(n, u, o) => n.stat[u] = "SUSPEND"
    BY <1>0, <1>8, <1>10, <1>11 DEF Flat
  <2>4. \A u \in Thread : Linked(n, u, Defunct) => n.stat[u] = "CLOSE"
    BY <1>0, <1>8, <1>10, <1>11 DEF Flat
  <2>5. \A u \in Thread : Armed(n, u) => n.stat[u] = "SUSPEND"
    BY <1>0, <1>7, <1>10 DEF Flat
  <2> QED
    BY <1>0, <1>8, <1>10, <1>12, <1>13, <1>15, <1>16, <2>1, <2>2, <2>3, <2>4, <2>5 DEF Flat
<1>18. \A u \in Thread : \A o \in Obj : Linked(n, u, o) <=> Linked(k, u, o)
  BY <1>0, <1>8, <1>11 DEF Flat
<1> QED
  BY <1>5, <1>10, <1>13, <1>17, <1>18 DEF Good

\* With the scheduler unlocked there is always a thread to switch to, unless
\* the current one, RUNNING, is the only one.
LEMMA SomebodyRuns ==
    ASSUME NEW k, NEW X, Good(k, X), Idle \notin X, k.lock = 0, ~MaySwitch(k)
    PROVE  k.stat[k.cur] = "RUNNING"
<1>1. k \in Kstate /\ Flat(k, X) /\ k.prio \in [Thread -> Prio] /\ Idle \in Thread
  BY KernelAssumption DEF Good, Kstate
<1>2. k.stat[Idle] # "READY"
  BY <1>1 DEF Flat, MaySwitch
<1> QED
  BY <1>1, <1>2 DEF Flat

\* rt_schedule when the current thread goes on.
LEMMA StayGood ==
    ASSUME NEW k, NEW X, Good(k, X), NEW c \in Thread, k.cur = c, k.stat[c] = "RUNNING",
           NEW v, v = rt_schedule_remove_thread(k, c),
           NEW n, n = SetStat(v, c, "RUNNING")
    PROVE  /\ Good(n, X)
           /\ n.cur = k.cur /\ n.prio = k.prio /\ n.lock = k.lock
           /\ \A u \in Thread : n.stat[u] = k.stat[u]
           /\ \A l \in Lists : \A u \in Thread : Linked(n, u, l) <=> Linked(k, u, l)
<1>1. k \in Kstate /\ Flat(k, X) /\ k.stat \in [Thread -> Stat]
  BY DEF Good, Kstate
<1>2. /\ Good(v, Also(X, c))
      /\ \A l \in Lists : ~Linked(v, c, l)
      /\ \A u \in Thread : Armed(v, u) <=> Armed(k, u)
      /\ v.cur = k.cur /\ v.stat = k.stat /\ v.prio = k.prio /\ v.lock = k.lock
  BY RemoveGood
<1>3. \A l \in Lists : \A u \in Thread : Linked(v, u, l) <=> Linked(k, u, l)
  <2>1. \A u \in Thread : \A l \in Lists : Linked(v, u, l) <=> Linked(k, u, l) /\ u # c
    BY <1>1, RemoveFields DEF Flat
  <2>2. \A l \in Lists : ~Linked(k, c, l)
    BY RunningFree
  <2> QED
    BY <2>1, <2>2
<1>4. /\ Good(v, Also(X, c)) /\ \A l \in Lists : ~Linked(v, c, l)
      /\ ~Armed(v, c) /\ "RUNNING" \in Stat /\ v.cur = c
  BY <1>2, RunningFree DEF Stat
<1>5. /\ Good(n, X)
      /\ n.q = v.q /\ n.cur = v.cur /\ n.prio = v.prio /\ n.lock = v.lock
      /\ \A u \in Thread : n.stat[u] = IF u = c THEN "RUNNING" ELSE v.stat[u]
  BY <1>4, SetRunningGood
<1>6. \A l \in Lists : \A u \in Thread : Linked(n, u, l) <=> Linked(k, u, l)
  BY <1>3, <1>5 DEF Linked
<1> QED
  BY <1>1, <1>2, <1>5, <1>6

\* rt_schedule keeps the kernel consistent and, unless the scheduler is locked
\* or nobody is ready, leaves a RUNNING thread as the current one.
LEMMA ScheduleGood ==
    ASSUME NEW k, NEW X, Good(k, X), NEW n, n = rt_schedule(k)
    PROVE  /\ Good(n, X)
           /\ MaySwitch(k) => n.stat[n.cur] = "RUNNING"
           /\ ~MaySwitch(k) => n = k
           /\ n.lock = k.lock /\ n.prio = k.prio
           /\ \A u \in Thread : \A o \in Obj : Linked(n, u, o) <=> Linked(k, u, o)
           /\ \A u \in Thread : k.stat[u] = "SUSPEND" <=> n.stat[u] = "SUSPEND"
<1> DEFINE hp == HighestReady(k)
           to == Head(k.q[hp])
<1>1. /\ k \in Kstate /\ Flat(k, X) /\ k.cur \in Thread /\ k.stat \in [Thread -> Stat]
      /\ k.prio \in [Thread -> Prio]
  BY DEF Good, Kstate
<1>2. CASE ~MaySwitch(k)
  BY <1>2 DEF rt_schedule
<1>3. CASE MaySwitch(k) /\ Stays(k)
  <2>1. /\ k.stat[k.cur] = "RUNNING"
        /\ n = SetStat(rt_schedule_remove_thread(k, k.cur), k.cur, "RUNNING")
    BY <1>3 DEF rt_schedule, Stays, Enter, SetStat
  <2>2. /\ Good(n, X)
        /\ n.cur = k.cur /\ n.prio = k.prio /\ n.lock = k.lock
        /\ \A u \in Thread : n.stat[u] = k.stat[u]
        /\ \A l \in Lists : \A u \in Thread : Linked(n, u, l) <=> Linked(k, u, l)
    BY <1>1, <2>1, StayGood
  <2> QED
    BY <1>1, <1>3, <2>1, <2>2 DEF Lists
<1>4. CASE MaySwitch(k) /\ ~Stays(k)
  <2>1. hp \in k.group /\ hp \in Prio /\ hp \in Lists
    BY <1>1, <1>4, HighestReadySpec DEF MaySwitch, Kstate, Lists
  <2>2. k.q[hp] # << >>
    BY <1>1, <2>1, NonEmpty DEF Flat
  <2>3. to \in Thread /\ Linked(k, to, hp)
    BY <1>1, <2>1, <2>2, HeadLinked
  <2>4. n = Enter(Leave(k, to), to)
    BY <1>4 DEF rt_schedule
  <2> HIDE DEF hp, to
  <2>5. k.stat[to] = "READY" /\ k.prio[to] = hp /\ to # k.cur
    BY <1>1, <2>1, <2>3 DEF Flat
  <2>6. /\ Good(n, X)
        /\ n.cur = to /\ n.stat[to] = "RUNNING" /\ n.prio = k.prio /\ n.lock = k.lock
        /\ \A u \in Thread : \A o \in Obj : Linked(n, u, o) <=> Linked(k, u, o)
        /\ \A u \in Thread : k.stat[u] = "SUSPEND" <=> n.stat[u] = "SUSPEND"
    BY <1>1, <2>3, <2>4, <2>5, SwitchGood
  <2> QED
    BY <1>4, <2>6
<1> QED
  BY <1>2, <1>3, <1>4

-----------------------------------------------------------------------------
(* timer.c *)

\* A change of the timer list and of one timeout tick.
SetTimer(k, s, t, at) == [k EXCEPT !.tlist = s, !.timeout[t] = at]

\* Replacing the timer list keeps the state well typed and the lists of threads
\* as they are.
LEMMA SetTimerFields ==
    ASSUME NEW k \in Kstate, NEW s \in Seq(Thread), NEW t \in Thread, NEW at \in Tick,
           NEW n, n = SetTimer(k, s, t, at)
    PROVE  /\ n \in Kstate
           /\ n.tlist = s
           /\ n.cur = k.cur /\ n.stat = k.stat /\ n.prio = k.prio /\ n.q = k.q
           /\ n.group = k.group /\ n.lock = k.lock /\ n.tick = k.tick
  BY DEF Kstate, SetTimer

\* A timer list whose threads are all suspended keeps the kernel consistent.
LEMMA SetTimerGood ==
    ASSUME NEW k, NEW X, Good(k, X), NEW s \in Seq(Thread), IsInjective(s),
           NEW t \in Thread, NEW at \in Tick,
           \A u \in Thread : u \in ToSet(s) => k.stat[u] = "SUSPEND",
           NEW n, n = SetTimer(k, s, t, at)
    PROVE  /\ Good(n, X)
           /\ \A u \in Thread : Armed(n, u) <=> u \in ToSet(s)
           /\ n.cur = k.cur /\ n.stat = k.stat /\ n.prio = k.prio /\ n.q = k.q
           /\ n.lock = k.lock /\ n.tick = k.tick
<1>1. k \in Kstate /\ Flat(k, X)
  BY DEF Good
<1>2. /\ n \in Kstate
      /\ n.tlist = s
      /\ n.cur = k.cur /\ n.stat = k.stat /\ n.prio = k.prio /\ n.q = k.q
      /\ n.group = k.group /\ n.lock = k.lock /\ n.tick = k.tick
  BY <1>1, SetTimerFields
<1>3. \A u \in Thread : \A l \in Lists : Linked(n, u, l) <=> Linked(k, u, l)
  BY <1>2 DEF Linked
<1>4. \A u \in Thread : Armed(n, u) <=> u \in ToSet(s)
  BY <1>2 DEF Armed
<1>5. /\ Prio \subseteq Lists /\ Obj \subseteq Lists /\ Defunct \in Lists
      /\ k.prio \in [Thread -> Prio]
  BY <1>1 DEF Lists, Kstate
<1>6. Flat(n, X)
  BY <1>1, <1>2, <1>3, <1>4, <1>5 DEF Flat
<1> QED
  BY <1>2, <1>4, <1>6 DEF Good

\* rt_timer_stop.
LEMMA TimerStopGood ==
    ASSUME NEW k, NEW X, Good(k, X), NEW t \in Thread,
           NEW n, n = TimerStop(k, t)
    PROVE  /\ Good(n, X)
           /\ \A u \in Thread : Armed(n, u) <=> Armed(k, u) /\ u # t
           /\ n.cur = k.cur /\ n.stat = k.stat /\ n.prio = k.prio /\ n.q = k.q
           /\ n.lock = k.lock /\ n.tick = k.tick
<1> DEFINE s == RemoveFirst(k.tlist, t)
<1>1. k \in Kstate /\ Flat(k, X) /\ k.tlist \in Seq(Thread)
  BY DEF Good, Kstate
<1>2. s \in Seq(Thread) /\ IsInjective(s) /\ ToSet(s) = ToSet(k.tlist) \ {t}
  BY <1>1, RemoveFirstList DEF Flat
<1>3. n = SetTimer(k, s, t, 0)
  BY DEF TimerStop, SetTimer
<1> HIDE DEF s
<1>4. 0 \in Tick
  BY KernelAssumption DEF Tick
<1>5. \A u \in Thread : u \in ToSet(s) => k.stat[u] = "SUSPEND"
  BY <1>1, <1>2 DEF Flat, Armed
<1>6. /\ Good(n, X)
      /\ \A u \in Thread : Armed(n, u) <=> u \in ToSet(s)
      /\ n.cur = k.cur /\ n.stat = k.stat /\ n.prio = k.prio /\ n.q = k.q
      /\ n.lock = k.lock /\ n.tick = k.tick
  BY <1>2, <1>3, <1>4, <1>5, SetTimerGood
<1> QED
  BY <1>2, <1>6 DEF Armed

\* The position of a timer is a position of the timer list, or its end.
LEMMA TimerPositionType ==
    ASSUME NEW k \in Kstate, NEW at
    PROVE  TimerPosition(k, at) \in 1 .. Len(k.tlist) + 1
<1> DEFINE later == {i \in 1 .. Len(k.tlist) :
                        /\ TickDiff(k.timeout[k.tlist[i]], at) # 0
                        /\ TickDiff(k.timeout[k.tlist[i]], at) < HalfTick}
<1>1. Len(k.tlist) \in Nat
  BY DEF Kstate
<1>2. CASE later = {}
  <2>1. TimerPosition(k, at) = Len(k.tlist) + 1
    BY <1>2 DEF TimerPosition
  <2> QED
    BY <1>1, <2>1
<1>3. CASE later # {}
  <2>1. TimerPosition(k, at) = CHOOSE i \in later : \A j \in later : i <= j
    BY <1>3 DEF TimerPosition
  <2>2. later \subseteq 1 .. Len(k.tlist)
    OBVIOUS
  <2> HIDE DEF later
  <2>3. (CHOOSE i \in later : \A j \in later : i <= j) \in 1 .. Len(k.tlist)
    BY <1>1, <1>3, <2>2, LeastIndex
  <2> QED
    BY <1>1, <2>1, <2>3
<1> QED
  BY <1>2, <1>3

\* rt_timer_start of the timer of a suspended thread.
LEMMA TimerStartGood ==
    ASSUME NEW k, NEW X, Good(k, X), NEW t \in Thread, k.stat[t] = "SUSPEND",
           NEW ticks \in Nat,
           NEW v, v = TimerStop(k, t),
           NEW n, n = TimerStart(k, t, ticks)
    PROVE  /\ Good(n, X)
           /\ \A u \in Thread : Armed(n, u) <=> Armed(k, u) \/ u = t
           /\ n.cur = k.cur /\ n.stat = k.stat /\ n.prio = k.prio /\ n.q = k.q
           /\ n.lock = k.lock
<1> DEFINE at == (k.tick + ticks) % TickMod
           s == InsertAt(v.tlist, TimerPosition(v, at), t)
<1>1. /\ Good(v, X)
      /\ \A u \in Thread : Armed(v, u) <=> Armed(k, u) /\ u # t
      /\ v.cur = k.cur /\ v.stat = k.stat /\ v.prio = k.prio /\ v.q = k.q
      /\ v.lock = k.lock /\ v.tick = k.tick
  BY TimerStopGood
<1>2. v \in Kstate /\ Flat(v, X) /\ v.tlist \in Seq(Thread)
  BY <1>1 DEF Good, Kstate
<1>3. at \in Tick
  <2>1. k.tick \in Nat
    BY KernelAssumption DEF Good, Kstate, Tick
  <2> QED
    BY <2>1, KernelAssumption DEF Tick
<1>4. n = SetTimer(v, s, t, at)
  BY DEF TimerStart, SetTimer
<1> HIDE DEF at
<1>5. TimerPosition(v, at) \in 1 .. Len(v.tlist) + 1
  BY <1>2, TimerPositionType
<1>6. t \notin ToSet(v.tlist) /\ IsInjective(v.tlist)
  BY <1>1, <1>2 DEF Armed, Flat
<1>7. s \in Seq(Thread) /\ IsInjective(s) /\ ToSet(s) = ToSet(v.tlist) \cup {t}
  BY <1>2, <1>5, <1>6, InsertAtList
<1> HIDE DEF s
<1>8. \A u \in Thread : u \in ToSet(s) => v.stat[u] = "SUSPEND"
  BY <1>1, <1>2, <1>7 DEF Flat, Armed
<1>9. /\ Good(n, X)
      /\ \A u \in Thread : Armed(n, u) <=> u \in ToSet(s)
      /\ n.cur = v.cur /\ n.stat = v.stat /\ n.prio = v.prio /\ n.q = v.q
      /\ n.lock = v.lock
  BY <1>1, <1>3, <1>4, <1>7, <1>8, SetTimerGood
<1> QED
  BY <1>1, <1>7, <1>9 DEF Armed

-----------------------------------------------------------------------------
(* thread.c *)

\* The threads that wait for an object are the same in k and n, or the same
\* without thread t.
SameWaiters(k, n) ==
    /\ \A u \in Thread : \A o \in Obj : Linked(n, u, o) <=> Linked(k, u, o)
    /\ \A u \in Thread : n.stat[u] = "SUSPEND" <=> k.stat[u] = "SUSPEND"
LosesWaiter(k, n, t) ==
    /\ \A u \in Thread : \A o \in Obj : Linked(n, u, o) <=> Linked(k, u, o) /\ u # t
    /\ \A u \in Thread : n.stat[u] = "SUSPEND" <=> k.stat[u] = "SUSPEND" /\ u # t

\* rt_thread_suspend
LEMMA SuspendGood ==
    ASSUME NEW k, NEW X, Good(k, X), NEW t \in Thread, t # Idle,
           k.stat[t] \in {"READY", "RUNNING"},
           NEW v, v = rt_schedule_remove_thread(k, t),
           NEW w, w = SetStat(v, t, "SUSPEND"),
           NEW n, n = rt_thread_suspend(k, t)
    PROVE  /\ Good(n, X)
           /\ \A l \in Lists : ~Linked(n, t, l)
           /\ ~Armed(n, t)
           /\ \A u \in Thread : \A o \in Obj : Linked(n, u, o) <=> Linked(k, u, o)
           /\ \A u \in Thread : n.stat[u] = IF u = t THEN "SUSPEND" ELSE k.stat[u]
           /\ n.cur = k.cur /\ n.prio = k.prio /\ n.lock = k.lock
<1>1. /\ Good(v, Also(X, t))
      /\ \A u \in Thread : \A l \in Lists : Linked(v, u, l) <=> Linked(k, u, l) /\ u # t
      /\ v.cur = k.cur /\ v.stat = k.stat /\ v.prio = k.prio /\ v.lock = k.lock
  BY RemoveGood
<1>2. Good(v, Also(X, t)) /\ \A l \in Lists : ~Linked(v, t, l)
  BY <1>1
<1>3. /\ Good(w, X)
      /\ w.q = v.q /\ w.tlist = v.tlist
      /\ w.cur = v.cur /\ w.prio = v.prio /\ w.lock = v.lock
      /\ \A u \in Thread : w.stat[u] = IF u = t THEN "SUSPEND" ELSE v.stat[u]
  BY <1>2, SetSuspendGood
<1>4. n = TimerStop(w, t)
  BY DEF rt_thread_suspend, SetStat
<1>5. /\ Good(n, X)
      /\ \A u \in Thread : Armed(n, u) <=> Armed(w, u) /\ u # t
      /\ n.cur = w.cur /\ n.stat = w.stat /\ n.prio = w.prio /\ n.q = w.q
      /\ n.lock = w.lock
  BY <1>3, <1>4, TimerStopGood
<1>6. \A u \in Thread : \A l \in Lists : Linked(n, u, l) <=> Linked(v, u, l)
  BY <1>3, <1>5 DEF Linked
<1>7. Obj \subseteq Lists
  BY DEF Lists
<1>8. \A o \in Obj : ~Linked(k, t, o)
  BY DEF Good, Flat
<1> QED
  BY <1>1, <1>3, <1>5, <1>6, <1>7, <1>8

\* A thread that is suspended is not in the ready table or on the defunct list.
LEMMA SuspendedNotReady ==
    ASSUME NEW k, NEW X, Good(k, X), NEW t \in Thread, k.stat[t] = "SUSPEND"
    PROVE  \A p \in Prio : ~Linked(k, t, p)
  BY DEF Good, Flat

\* rt_thread_resume of a suspended thread
LEMMA ResumeGood ==
    ASSUME NEW k, NEW X, Good(k, X), NEW t \in Thread, k.stat[t] = "SUSPEND",
           NEW v, v = Unlink(k, t),
           NEW w, w = TimerStop(v, t),
           NEW n, n = rt_thread_resume(k, t)
    PROVE  /\ Good(n, X)
           /\ LosesWaiter(k, n, t)
           /\ n.cur = k.cur /\ n.prio = k.prio /\ n.lock = k.lock
           /\ \A u \in Thread :
                n.stat[u] = IF u # t THEN k.stat[u]
                            ELSE IF t = k.cur THEN "RUNNING" ELSE "READY"
<1>1. /\ Good(v, X)
      /\ \A u \in Thread : \A l \in Lists : Linked(v, u, l) <=> Linked(k, u, l) /\ u # t
      /\ v.cur = k.cur /\ v.stat = k.stat /\ v.prio = k.prio /\ v.lock = k.lock
  BY SuspendedNotReady, UnlinkGood
<1>2. /\ Good(w, X)
      /\ \A u \in Thread : Armed(w, u) <=> Armed(v, u) /\ u # t
      /\ w.cur = v.cur /\ w.stat = v.stat /\ w.prio = v.prio /\ w.q = v.q
      /\ w.lock = v.lock
  BY <1>1, TimerStopGood
<1>3. \A u \in Thread : \A l \in Lists : Linked(w, u, l) <=> Linked(v, u, l)
  BY <1>2 DEF Linked
<1>4. n = rt_schedule_insert_thread(w, t)
  BY DEF rt_thread_resume, ResumeUnlink
<1>5. (\A l \in Lists : ~Linked(w, t, l)) /\ ~Armed(w, t) /\ Obj \subseteq Lists
  BY <1>1, <1>2, <1>3 DEF Lists
<1>6. /\ Good(n, X)
      /\ \A u \in Thread : \A o \in Obj : Linked(n, u, o) <=> Linked(w, u, o)
      /\ n.cur = w.cur /\ n.prio = w.prio /\ n.lock = w.lock
      /\ \A u \in Thread :
           n.stat[u] = IF u # t THEN w.stat[u]
                       ELSE IF t = w.cur THEN "RUNNING" ELSE "READY"
  BY <1>2, <1>4, <1>5, InsertGood
<1>7. \A u \in Thread :
         n.stat[u] = IF u # t THEN k.stat[u]
                     ELSE IF t = k.cur THEN "RUNNING" ELSE "READY"
  BY <1>1, <1>2, <1>6
<1>8. LosesWaiter(k, n, t)
  BY <1>1, <1>3, <1>5, <1>6, <1>7 DEF LosesWaiter
<1> QED
  BY <1>1, <1>2, <1>6, <1>7, <1>8

\* A change of thread->error.
SetErr(k, t, e) == [k EXCEPT !.err[t] = e]

\* thread->error is not part of the consistency of a kernel state.
LEMMA SetErrGood ==
    ASSUME NEW k, NEW X, Good(k, X), NEW t \in Thread, NEW e \in Error,
           NEW n, n = SetErr(k, t, e)
    PROVE  /\ Good(n, X)
           /\ n.cur = k.cur /\ n.stat = k.stat /\ n.prio = k.prio /\ n.q = k.q
           /\ n.tlist = k.tlist /\ n.lock = k.lock
<1>1. k \in Kstate /\ Flat(k, X)
  BY DEF Good
<1>2. /\ n \in Kstate
      /\ n.cur = k.cur /\ n.stat = k.stat /\ n.prio = k.prio /\ n.q = k.q
      /\ n.group = k.group /\ n.tlist = k.tlist /\ n.lock = k.lock
  BY <1>1 DEF Kstate, SetErr
<1>3. /\ \A u \in Thread : \A l \in Lists : Linked(n, u, l) <=> Linked(k, u, l)
      /\ \A u \in Thread : Armed(n, u) <=> Armed(k, u)
  BY <1>2 DEF Linked, Armed
<1>4. /\ Prio \subseteq Lists /\ Obj \subseteq Lists /\ Defunct \in Lists
      /\ k.prio \in [Thread -> Prio]
  BY <1>1 DEF Lists, Kstate
<1>5. Flat(n, X)
  BY <1>1, <1>2, <1>3, <1>4 DEF Flat
<1> QED
  BY <1>2, <1>5 DEF Good

\* rt_thread_timeout, called with the timer of a suspended thread unlinked
LEMMA TimeoutGood ==
    ASSUME NEW k, NEW X, Good(k, X), NEW t \in Thread, k.stat[t] = "SUSPEND", ~Armed(k, t),
           NEW e, e = SetErr(k, t, "ETIMEOUT"),
           NEW v, v = Unlink(e, t),
           NEW w, w = rt_schedule_insert_thread(v, t),
           NEW n, n = rt_thread_timeout(k, t)
    PROVE  /\ Good(n, X)
           /\ LosesWaiter(k, n, t)
           /\ MaySwitch(w) => n.stat[n.cur] = "RUNNING"
           /\ ~MaySwitch(w) => n.cur = k.cur
           /\ k.stat[k.cur] = "RUNNING" => w.stat[w.cur] = "RUNNING"
           /\ ~MaySwitch(w) => n = w
           /\ Good(w, X) /\ w.lock = k.lock
           /\ n.prio = k.prio /\ n.lock = k.lock
<1>0. "ETIMEOUT" \in Error
  BY DEF Error
<1>1. /\ Good(e, X)
      /\ e.cur = k.cur /\ e.stat = k.stat /\ e.prio = k.prio /\ e.q = k.q
      /\ e.tlist = k.tlist /\ e.lock = k.lock
  BY <1>0, SetErrGood
<1>2. /\ \A u \in Thread : \A l \in Lists : Linked(e, u, l) <=> Linked(k, u, l)
      /\ ~Armed(e, t) /\ e.stat[t] = "SUSPEND"
  BY <1>1 DEF Linked, Armed
<1>3. /\ Good(v, X)
      /\ \A u \in Thread : \A l \in Lists : Linked(v, u, l) <=> Linked(e, u, l) /\ u # t
      /\ \A u \in Thread : Armed(v, u) <=> Armed(e, u)
      /\ v.cur = e.cur /\ v.stat = e.stat /\ v.prio = e.prio /\ v.lock = e.lock
  BY <1>1, <1>2, SuspendedNotReady, UnlinkGood
<1>4. (\A l \in Lists : ~Linked(v, t, l)) /\ ~Armed(v, t)
  BY <1>2, <1>3
<1>5. /\ Good(w, X)
      /\ \A u \in Thread : \A o \in Obj : Linked(w, u, o) <=> Linked(v, u, o)
      /\ w.cur = v.cur /\ w.prio = v.prio /\ w.lock = v.lock
      /\ \A u \in Thread :
           w.stat[u] = IF u # t THEN v.stat[u]
                       ELSE IF t = v.cur THEN "RUNNING" ELSE "READY"
  BY <1>3, <1>4, InsertGood
<1>6. n = rt_schedule(w)
  BY DEF rt_thread_timeout, SetErr
<1>7. /\ Good(n, X)
      /\ MaySwitch(w) => n.stat[n.cur] = "RUNNING"
      /\ ~MaySwitch(w) => n = w
      /\ n.lock = w.lock /\ n.prio = w.prio
      /\ \A u \in Thread : \A o \in Obj : Linked(n, u, o) <=> Linked(w, u, o)
      /\ \A u \in Thread : w.stat[u] = "SUSPEND" <=> n.stat[u] = "SUSPEND"
  BY <1>5, <1>6, ScheduleGood
<1>8. Obj \subseteq Lists /\ k.cur \in Thread
  BY DEF Lists, Good, Kstate
<1>9. LosesWaiter(k, n, t)
  BY <1>1, <1>2, <1>3, <1>5, <1>7, <1>8 DEF LosesWaiter
<1>10. k.stat[k.cur] = "RUNNING" => w.stat[w.cur] = "RUNNING"
  BY <1>1, <1>3, <1>5, <1>8
<1> QED
  BY <1>1, <1>3, <1>5, <1>7, <1>9, <1>10

\* A change of thread->current_priority of a thread outside the ready table.
SetPrio(k, t, p) == [k EXCEPT !.prio[t] = p]

\* The priority of a thread that is not in the ready table can be changed in
\* place, as rt_thread_control does for a thread that is not READY.
LEMMA SetPrioGood ==
    ASSUME NEW k, NEW X, Good(k, X), NEW t \in Thread, NEW p \in Prio,
           k.stat[t] = "READY" => t \in X, \A l \in Prio : ~Linked(k, t, l),
           NEW n, n = SetPrio(k, t, p)
    PROVE  /\ Good(n, X)
           /\ n.cur = k.cur /\ n.stat = k.stat /\ n.q = k.q
           /\ n.tlist = k.tlist /\ n.lock = k.lock
<1>1. k \in Kstate /\ Flat(k, X)
  BY DEF Good
<1>2. /\ n \in Kstate
      /\ n.prio = [k.prio EXCEPT ![t] = p]
      /\ n.cur = k.cur /\ n.stat = k.stat /\ n.q = k.q
      /\ n.group = k.group /\ n.tlist = k.tlist /\ n.lock = k.lock
  BY <1>1 DEF Kstate, SetPrio
<1>3. /\ \A u \in Thread : \A l \in Lists : Linked(n, u, l) <=> Linked(k, u, l)
      /\ \A u \in Thread : Armed(n, u) <=> Armed(k, u)
  BY <1>2 DEF Linked, Armed
<1>4. /\ Prio \subseteq Lists /\ Obj \subseteq Lists /\ Defunct \in Lists
      /\ k.prio \in [Thread -> Prio]
  BY <1>1 DEF Lists, Kstate
<1>5. Flat(n, X)
  BY <1>1, <1>2, <1>3, <1>4 DEF Flat
<1> QED
  BY <1>2, <1>5 DEF Good

\* rt_thread_control(RT_THREAD_CTRL_CHANGE_PRIORITY)
LEMMA ChangePriorityGood ==
    ASSUME NEW k, NEW X, Good(k, X), NEW t \in Thread, NEW p \in Prio,
           NEW v, v = rt_schedule_remove_thread(k, t),
           NEW w, w = SetPrio(v, t, p),
           NEW n, n = ChangePriority(k, t, p)
    PROVE  /\ Good(n, X)
           /\ SameWaiters(k, n)
           /\ \A u \in Thread : n.stat[u] = k.stat[u]
           /\ n.cur = k.cur /\ n.lock = k.lock
<1>0. k \in Kstate /\ Flat(k, X) /\ k.cur \in Thread /\ k.stat \in [Thread -> Stat]
  BY DEF Good, Kstate
<1>1. CASE k.stat[t] = "READY"
  <2>1. /\ Good(v, Also(X, t))
        /\ \A u \in Thread : \A l \in Lists : Linked(v, u, l) <=> Linked(k, u, l) /\ u # t
        /\ \A u \in Thread : Armed(v, u) <=> Armed(k, u)
        /\ v.cur = k.cur /\ v.stat = k.stat /\ v.prio = k.prio /\ v.lock = k.lock
    BY RemoveGood
  <2>2. t \in Also(X, t) /\ (\A l \in Prio : ~Linked(v, t, l)) /\ Obj \subseteq Lists
    BY <2>1 DEF Also, Lists
  <2>3. /\ Good(w, Also(X, t))
        /\ w.cur = v.cur /\ w.stat = v.stat /\ w.q = v.q
        /\ w.tlist = v.tlist /\ w.lock = v.lock
    BY <2>1, <2>2, SetPrioGood
  <2>4. /\ \A u \in Thread : \A l \in Lists : Linked(w, u, l) <=> Linked(v, u, l)
        /\ \A u \in Thread : Armed(w, u) <=> Armed(v, u)
    BY <2>3 DEF Linked, Armed
  <2>5. n = rt_schedule_insert_thread(w, t)
    BY <1>1 DEF ChangePriority, SetPrio
  <2>6. (\A l \in Lists : ~Linked(w, t, l)) /\ ~Armed(w, t) /\ t # w.cur
    BY <1>0, <1>1, <2>1, <2>3, <2>4 DEF Flat
  <2>7. /\ Good(n, Also(X, t))
        /\ \A u \in Thread : \A o \in Obj : Linked(n, u, o) <=> Linked(w, u, o)
        /\ n.cur = w.cur /\ n.prio = w.prio /\ n.lock = w.lock
        /\ \A u \in Thread : n.stat[u] = IF u # t THEN w.stat[u]
                                         ELSE IF t = w.cur THEN "RUNNING" ELSE "READY"
    BY <2>3, <2>5, <2>6, InsertGood
  <2>8. Linked(n, t, n.prio[t])
    <3>0. w \in Kstate /\ Flat(w, Also(X, t))
      BY <2>3 DEF Good
    <3>1. w \in Kstate /\ w.prio[t] \in Lists /\ \A l \in Lists : IsInjective(w.q[l])
      <4>1. w.prio[t] \in Prio
        BY <3>0 DEF Kstate
      <4>2. \A l \in Lists : IsInjective(w.q[l])
        BY <3>0 DEF Flat
      <4> QED
        BY <3>0, <4>1, <4>2 DEF Lists
    <3>2. \A u \in Thread : \A l \in Lists :
             Linked(n, u, l) <=> Linked(w, u, l) \/ (u = t /\ l = w.prio[t])
      BY <2>5, <2>6, <3>1, InsertFields
    <3> QED
      BY <2>7, <3>1, <3>2
  <2>9. Good(n, X)
    BY <2>7, <2>8 DEF Good, Flat, Also
  <2>10. \A u \in Thread : n.stat[u] = k.stat[u]
    BY <1>1, <2>1, <2>3, <2>6, <2>7
  <2>11. \A u \in Thread : \A o \in Obj : Linked(n, u, o) <=> Linked(k, u, o)
    <3>1. \A o \in Obj : ~Linked(k, t, o)
      BY <1>0, <1>1 DEF Flat
    <3> QED
      BY <2>1, <2>2, <2>4, <2>7, <3>1
  <2> QED
    BY <2>1, <2>3, <2>7, <2>9, <2>10, <2>11 DEF SameWaiters
<1>2. CASE k.stat[t] # "READY"
  <2>1. n = SetPrio(k, t, p)
    BY <1>2 DEF ChangePriority, SetPrio
  <2>2. \A l \in Prio : ~Linked(k, t, l)
    BY <1>0, <1>2 DEF Flat
  <2>3. /\ Good(n, X)
        /\ n.cur = k.cur /\ n.stat = k.stat /\ n.q = k.q
        /\ n.tlist = k.tlist /\ n.lock = k.lock
    BY <1>2, <2>1, <2>2, SetPrioGood
  <2> QED
    BY <2>3 DEF SameWaiters, Linked
<1> QED
  BY <1>1, <1>2

-----------------------------------------------------------------------------
(* ipc.c *)

\* A thread is put on the suspend list of an object.
Link(k, o, i, t) == [k EXCEPT !.q[o] = InsertAt(@, i, t)]

\* Linking a suspended thread that is on no list keeps the state consistent.
LEMMA LinkGood ==
    ASSUME NEW k, NEW X, Good(k, X), NEW t \in Thread, NEW o \in Obj,
           k.stat[t] = "SUSPEND", \A l \in Lists : ~Linked(k, t, l),
           NEW i \in 1 .. Len(k.q[o]) + 1,
           NEW n, n = Link(k, o, i, t)
    PROVE  /\ Good(n, X)
           /\ \A u \in Thread : \A l \in Lists :
                Linked(n, u, l) <=> Linked(k, u, l) \/ (u = t /\ l = o)
           /\ n.cur = k.cur /\ n.stat = k.stat /\ n.prio = k.prio
           /\ n.tlist = k.tlist /\ n.lock = k.lock
<1> DEFINE s == InsertAt(k.q[o], i, t)
<1>1. /\ k \in Kstate /\ Flat(k, X) /\ k.q \in [Lists -> Seq(Thread)]
      /\ k.prio \in [Thread -> Prio]
  BY DEF Good, Kstate
<1>2. /\ Prio \subseteq Lists /\ Obj \subseteq Lists /\ Defunct \in Lists
      /\ Obj \cap Prio = {} /\ Defunct \notin Obj
  BY KernelAssumption DEF Lists
<1>3. k.q[o] \in Seq(Thread) /\ IsInjective(k.q[o]) /\ t \notin ToSet(k.q[o])
  BY <1>1, <1>2 DEF Flat, Linked
<1>4. s \in Seq(Thread) /\ IsInjective(s) /\ ToSet(s) = ToSet(k.q[o]) \cup {t}
  BY <1>3, InsertAtList
<1>5. n = [k EXCEPT !.q[o] = s]
  BY DEF Link
<1> HIDE DEF s
<1>6. /\ n \in Kstate
      /\ n.q = [k.q EXCEPT ![o] = s]
      /\ n.cur = k.cur /\ n.stat = k.stat /\ n.prio = k.prio /\ n.group = k.group
      /\ n.tlist = k.tlist /\ n.lock = k.lock
  <2> DEFINE f == [k.q EXCEPT ![o] = s]
  <2>1. n = [k EXCEPT !.q = f]
    BY <1>5
  <2>2. f \in [Lists -> Seq(Thread)]
    BY <1>1, <1>4
  <2> HIDE DEF f
  <2>3. n \in Kstate
    BY <1>1, <2>1, <2>2 DEF Kstate
  <2>4. /\ n.q = f
        /\ n.cur = k.cur /\ n.stat = k.stat /\ n.prio = k.prio /\ n.group = k.group
        /\ n.tlist = k.tlist /\ n.lock = k.lock
    BY <1>1, <2>1 DEF Kstate
  <2> QED
    BY <2>3, <2>4 DEF f
<1>7. \A l \in Lists : n.q[l] = IF l = o THEN s ELSE k.q[l]
  BY <1>1, <1>2, <1>6
<1>8. /\ \A u \in Thread : \A l \in Lists :
            Linked(n, u, l) <=> Linked(k, u, l) \/ (u = t /\ l = o)
      /\ \A u \in Thread : Armed(n, u) <=> Armed(k, u)
  BY <1>2, <1>4, <1>6, <1>7 DEF Linked, Armed
<1>9. \A l \in Lists : IsInjective(n.q[l])
  BY <1>1, <1>4, <1>7 DEF Flat
<1>10. k.stat[t] = "SUSPEND" /\ \A l \in Lists : ~Linked(k, t, l)
  OBVIOUS
<1>11. /\ \A u \in Thread : \A l, m \in Lists :
            Linked(n, u, l) /\ Linked(n, u, m) => l = m
       /\ \A u \in Thread : \A l \in Obj : Linked(n, u, l) => n.stat[u] = "SUSPEND"
  <2>1. \A u \in Thread : \A l, m \in Lists :
            Linked(k, u, l) /\ Linked(k, u, m) => l = m
    BY <1>1 DEF Flat
  <2>2. \A u \in Thread : \A l \in Obj : Linked(k, u, l) => k.stat[u] = "SUSPEND"
    BY <1>1 DEF Flat
  <2>3. \A u \in Thread : \A l \in Obj : Linked(n, u, l) => n.stat[u] = "SUSPEND"
    BY <1>2, <1>6, <1>8, <1>10, <2>2
  <2> QED
    BY <1>8, <1>10, <2>1, <2>3
<1>12. /\ \A u \in Thread : \A p \in Prio : Linked(n, u, p) <=> Linked(k, u, p)
       /\ \A u \in Thread : Linked(n, u, Defunct) <=> Linked(k, u, Defunct)
  BY <1>2, <1>8
<1>13. \A u \in Thread : k.stat[u] = "READY" => u \in X \/ Linked(n, u, k.prio[u])
  BY <1>1, <1>12 DEF Flat
<1>14. Flat(n, X)
  BY <1>1, <1>6, <1>8, <1>9, <1>11, <1>12, <1>13 DEF Flat
<1> QED
  BY <1>6, <1>8, <1>14 DEF Good

\* The position of a waiter is a position of the suspend list, or its end.
LEMMA WaitPositionType ==
    ASSUME NEW k \in Kstate, NEW o \in Obj, NEW t, NEW flag
    PROVE  WaitPosition(k, o, t, flag) \in 1 .. Len(k.q[o]) + 1
<1> DEFINE after == {i \in 1 .. Len(k.q[o]) : k.prio[t] < k.prio[k.q[o][i]]}
<1>1. Len(k.q[o]) \in Nat
  BY DEF Kstate, Lists
<1>2. CASE flag = "FIFO" \/ after = {}
  <2>1. WaitPosition(k, o, t, flag) = Len(k.q[o]) + 1
    BY <1>2 DEF WaitPosition
  <2> QED
    BY <1>1, <2>1
<1>3. CASE ~(flag = "FIFO" \/ after = {})
  <2>1. WaitPosition(k, o, t, flag) = CHOOSE i \in after : \A j \in after : i <= j
    BY <1>3 DEF WaitPosition
  <2>2. after \subseteq 1 .. Len(k.q[o])
    OBVIOUS
  <2> HIDE DEF after
  <2>3. (CHOOSE i \in after : \A j \in after : i <= j) \in 1 .. Len(k.q[o])
    BY <1>1, <1>3, <2>2, LeastIndex
  <2> QED
    BY <1>1, <2>1, <2>3
<1> QED
  BY <1>2, <1>3

\* The current, RUNNING thread puts itself on the suspend list of an object.
LEMMA SuspendSelfOnGood ==
    ASSUME NEW k, Good(k, {}), NEW c \in Thread, k.cur = c, c # Idle,
           k.stat[c] = "RUNNING",
           NEW o \in Obj, NEW flag, NEW time \in Int,
           NEW e, e = SetErr(k, c, "EOK"),
           NEW s, s = rt_thread_suspend(e, c),
           NEW i, i = WaitPosition(s, o, c, flag),
           NEW w, w = Link(s, o, i, c),
           NEW n, n = SuspendSelfOn(k, o, flag, time)
    PROVE  /\ Good(n, {})
           /\ \A u \in Thread : \A l \in Obj :
                Linked(n, u, l) <=> Linked(k, u, l) \/ (u = c /\ l = o)
           /\ \A u \in Thread : n.stat[u] = IF u = c THEN "SUSPEND" ELSE k.stat[u]
           /\ n.cur = k.cur /\ n.lock = k.lock
<1>0. "EOK" \in Error
  BY DEF Error
<1>1. /\ Good(e, {})
      /\ e.cur = k.cur /\ e.stat = k.stat /\ e.prio = k.prio /\ e.q = k.q
      /\ e.tlist = k.tlist /\ e.lock = k.lock
  BY <1>0, SetErrGood
<1>2. e.stat[c] \in {"READY", "RUNNING"}
  BY <1>1
<1>3. /\ Good(s, {})
      /\ \A l \in Lists : ~Linked(s, c, l)
      /\ \A u \in Thread : \A l \in Obj : Linked(s, u, l) <=> Linked(e, u, l)
      /\ \A u \in Thread : s.stat[u] = IF u = c THEN "SUSPEND" ELSE e.stat[u]
      /\ s.cur = e.cur /\ s.lock = e.lock
  BY <1>1, <1>2, SuspendGood
<1>4. i \in 1 .. Len(s.q[o]) + 1 /\ s.stat[c] = "SUSPEND" /\ Obj \subseteq Lists
  BY <1>3, WaitPositionType DEF Good, Lists
<1>5. /\ Good(w, {})
      /\ \A u \in Thread : \A l \in Lists :
            Linked(w, u, l) <=> Linked(s, u, l) \/ (u = c /\ l = o)
      /\ w.cur = s.cur /\ w.stat = s.stat /\ w.lock = s.lock
  BY <1>3, <1>4, LinkGood
<1>6. rt_ipc_list_suspend(e, o, c, flag) = w
  BY DEF rt_ipc_list_suspend, Link
<1>7. n = IF time > 0 THEN TimerStart(w, c, time) ELSE w
  BY <1>6 DEF SuspendSelfOn, SetErr
<1>8. /\ Good(n, {}) /\ n.q = w.q
      /\ n.cur = w.cur /\ n.stat = w.stat /\ n.lock = w.lock
  <2>1. CASE time > 0
    <3>1. time \in Nat /\ n = TimerStart(w, c, time) /\ w.stat[c] = "SUSPEND"
      BY <1>4, <1>5, <1>7, <2>1
    <3> QED
      BY <1>5, <3>1, TimerStartGood
  <2>2. CASE ~(time > 0)
    BY <1>5, <1>7, <2>2
  <2> QED
    BY <2>1, <2>2
<1>9. /\ \A u \in Thread : \A l \in Lists : Linked(n, u, l) <=> Linked(w, u, l)
      /\ \A u \in Thread : \A l \in Lists : Linked(e, u, l) <=> Linked(k, u, l)
  BY <1>1, <1>8 DEF Linked
<1>10. \A u \in Thread : \A l \in Obj :
          Linked(n, u, l) <=> Linked(k, u, l) \/ (u = c /\ l = o)
  BY <1>3, <1>4, <1>5, <1>9
<1> QED
  BY <1>1, <1>3, <1>5, <1>8, <1>10

\* The first thread of a suspend list is suspended.
LEMMA HeadSuspended ==
    ASSUME NEW k, NEW X, Good(k, X), NEW o \in Obj, k.q[o] # << >>
    PROVE  /\ Head(k.q[o]) \in Thread
           /\ Linked(k, Head(k.q[o]), o)
           /\ k.stat[Head(k.q[o])] = "SUSPEND"
<1>1. o \in Lists
  BY DEF Lists
<1>2. k \in Kstate /\ Flat(k, X)
  BY DEF Good
<1>3. Head(k.q[o]) \in Thread /\ Linked(k, Head(k.q[o]), o)
  BY <1>1, <1>2, HeadLinked
<1> QED
  BY <1>2, <1>3 DEF Flat

\* What a wake-up may do to the current thread: a suspended one can be made
\* RUNNING again, nobody else becomes current.
SameRunner(k, n) ==
    n.cur = k.cur /\ (k.stat[k.cur] = "RUNNING" => n.stat[n.cur] = "RUNNING")

\* rt_ipc_list_resume
LEMMA ListResumeGood ==
    ASSUME NEW k, NEW X, Good(k, X), NEW o \in Obj, k.q[o] # << >>,
           NEW t, t = Head(k.q[o]),
           NEW n, n = rt_ipc_list_resume(k, o)
    PROVE  /\ Good(n, X)
           /\ LosesWaiter(k, n, t)
           /\ t \in Thread /\ Linked(k, t, o)
           /\ n.prio = k.prio /\ n.lock = k.lock
           /\ SameRunner(k, n)
<1>1. t \in Thread /\ Linked(k, t, o) /\ k.stat[t] = "SUSPEND"
  BY HeadSuspended
<1>2. n = rt_thread_resume(k, t)
  BY DEF rt_ipc_list_resume
<1>3. /\ Good(n, X)
      /\ LosesWaiter(k, n, t)
      /\ n.cur = k.cur /\ n.prio = k.prio /\ n.lock = k.lock
      /\ \A u \in Thread :
            n.stat[u] = IF u # t THEN k.stat[u]
                        ELSE IF t = k.cur THEN "RUNNING" ELSE "READY"
  BY <1>1, <1>2, ResumeGood
<1>4. k.cur \in Thread
  BY DEF Good, Kstate
<1> QED
  BY <1>1, <1>3, <1>4 DEF SameRunner

\* One turn of rt_ipc_list_resume_all
LEMMA ResumeOneGood ==
    ASSUME NEW k, NEW X, Good(k, X), NEW o \in Obj, k.q[o] # << >>,
           NEW t, t = Head(k.q[o]),
           NEW e, e = SetErr(k, t, "ERROR"),
           NEW n, n = ResumeOneWithError(k, o)
    PROVE  /\ Good(n, X)
           /\ LosesWaiter(k, n, t)
           /\ t \in Thread /\ Linked(k, t, o)
           /\ n.prio = k.prio /\ n.lock = k.lock
           /\ SameRunner(k, n)
<1>1. t \in Thread /\ Linked(k, t, o) /\ k.stat[t] = "SUSPEND"
  BY HeadSuspended
<1>2. "ERROR" \in Error
  BY DEF Error
<1>3. /\ Good(e, X)
      /\ e.cur = k.cur /\ e.stat = k.stat /\ e.prio = k.prio /\ e.q = k.q
      /\ e.tlist = k.tlist /\ e.lock = k.lock
  BY <1>1, <1>2, SetErrGood
<1>4. n = rt_ipc_list_resume(e, o)
  BY DEF ResumeOneWithError, SetErr
<1>5. e.q[o] # << >> /\ t = Head(e.q[o])
  BY <1>3
<1>6. /\ Good(n, X)
      /\ LosesWaiter(e, n, t)
      /\ n.prio = e.prio /\ n.lock = e.lock
      /\ SameRunner(e, n)
  BY <1>3, <1>4, <1>5, ListResumeGood
<1>7. LosesWaiter(k, n, t) /\ SameRunner(k, n)
  BY <1>3, <1>6 DEF LosesWaiter, SameRunner, Linked
<1> QED
  BY <1>1, <1>3, <1>6, <1>7

-----------------------------------------------------------------------------
(* clock.c and the timeout loop of timer.c *)

\* A step of an interrupt handler ends with a RUNNING current thread, or leaves
\* the current thread what it was: suspended and about to call rt_schedule.
RunsOrStays(k, n) ==
    n.stat[n.cur] = "RUNNING" \/ (n.cur = k.cur /\ k.stat[k.cur] # "RUNNING")

SetClock(k, now, c, left) == [k EXCEPT !.tick = now, !.slice[c] = left]

\* The clock and the time slice matter to no list.
LEMMA SetClockGood ==
    ASSUME NEW k, NEW X, Good(k, X), NEW now \in Tick, NEW c \in Thread,
           NEW left \in 1 .. Slice,
           NEW n, n = SetClock(k, now, c, left)
    PROVE  /\ Good(n, X)
           /\ n.cur = k.cur /\ n.stat = k.stat /\ n.prio = k.prio /\ n.q = k.q
           /\ n.tlist = k.tlist /\ n.lock = k.lock
<1>1. k \in Kstate /\ Flat(k, X)
  BY DEF Good
<1> DEFINE f == [k.slice EXCEPT ![c] = left]
<1>2. n = [k EXCEPT !.tick = now, !.slice = f]
  BY DEF SetClock
<1>3. f \in [Thread -> 1 .. Slice]
  BY <1>1 DEF Kstate
<1> HIDE DEF f
<1>4. n \in Kstate
  BY <1>1, <1>2, <1>3 DEF Kstate
<1>5. /\ n.cur = k.cur /\ n.stat = k.stat /\ n.prio = k.prio /\ n.q = k.q
      /\ n.group = k.group /\ n.tlist = k.tlist /\ n.lock = k.lock
  BY <1>1, <1>2 DEF Kstate
<1>6. Flat(n, X)
  BY <1>1, <1>5 DEF Flat, Linked, Armed
<1> QED
  BY <1>4, <1>5, <1>6 DEF Good

\* rt_tick_increase
LEMMA TickGood ==
    ASSUME NEW k, NEW X, Good(k, X),
           NEW now, now = (k.tick + 1) % TickMod,
           NEW n, n = rt_tick_increase(k)
    PROVE  /\ Good(n, X)
           /\ SameWaiters(k, n)
           /\ RunsOrStays(k, n)
           /\ n.prio = k.prio /\ n.lock = k.lock
<1>1. /\ k.cur \in Thread /\ k.slice \in [Thread -> 1 .. Slice] /\ k.tick \in Tick
      /\ k.stat \in [Thread -> Stat]
  BY DEF Good, Kstate
<1>2. now \in Tick
  BY <1>1, KernelAssumption DEF Tick
<1> DEFINE c == k.cur
           full == SetClock(k, now, c, Slice)
           less == SetClock(k, now, c, k.slice[c] - 1)
<1>3. n = IF k.slice[c] = 1 THEN rt_schedule(full) ELSE less
  BY DEF rt_tick_increase, SetClock, Good, Kstate
<1> HIDE DEF c, full, less
<1>4. CASE k.slice[c] = 1
  <2>1. /\ Good(full, X)
        /\ full.cur = k.cur /\ full.stat = k.stat /\ full.prio = k.prio /\ full.q = k.q
        /\ full.lock = k.lock
    BY <1>1, <1>2, KernelAssumption, SetClockGood DEF c, full
  <2>2. /\ Good(n, X)
        /\ MaySwitch(full) => n.stat[n.cur] = "RUNNING"
        /\ ~MaySwitch(full) => n = full
        /\ n.lock = full.lock /\ n.prio = full.prio
        /\ \A u \in Thread : \A o \in Obj : Linked(n, u, o) <=> Linked(full, u, o)
        /\ \A u \in Thread : full.stat[u] = "SUSPEND" <=> n.stat[u] = "SUSPEND"
    BY <1>3, <1>4, <2>1, ScheduleGood
  <2>3. SameWaiters(k, n)
    BY <2>1, <2>2 DEF SameWaiters, Linked
  <2>4. RunsOrStays(k, n)
    BY <2>1, <2>2 DEF RunsOrStays
  <2> QED
    BY <2>1, <2>2, <2>3, <2>4
<1>5. CASE k.slice[c] # 1
  <2>1. n = less /\ k.slice[c] - 1 \in 1 .. Slice
    BY <1>1, <1>3, <1>5, KernelAssumption DEF c
  <2>2. /\ Good(n, X)
        /\ n.cur = k.cur /\ n.stat = k.stat /\ n.prio = k.prio /\ n.q = k.q
        /\ n.lock = k.lock
    BY <1>1, <1>2, <2>1, SetClockGood DEF c, less
  <2> QED
    BY <2>2 DEF SameWaiters, RunsOrStays, Linked
<1> QED
  BY <1>4, <1>5

\* One turn of the loop of rt_timer_check
LEMMA ExpireGood ==
    ASSUME NEW k, NEW X, Good(k, X), k.tlist # << >>,
           NEW t, t = Head(k.tlist),
           NEW s, s = TimerStop(k, t),
           NEW n, n = rt_thread_timeout(s, t)
    PROVE  /\ Good(n, X)
           /\ t \in Thread
           /\ LosesWaiter(k, n, t)
           /\ RunsOrStays(k, n)
           /\ n.prio = k.prio /\ n.lock = k.lock
<1>1. k.tlist \in Seq(Thread) /\ Flat(k, X)
  BY DEF Good, Kstate
<1>2. t \in Thread /\ Armed(k, t)
  BY <1>1, ToSetType, EmptyList DEF Armed
<1>3. k.stat[t] = "SUSPEND"
  BY <1>1, <1>2 DEF Flat
<1>4. /\ Good(s, X)
      /\ ~Armed(s, t)
      /\ s.cur = k.cur /\ s.stat = k.stat /\ s.prio = k.prio /\ s.q = k.q
      /\ s.lock = k.lock
  BY <1>2, TimerStopGood
<1>5. PICK e : e = SetErr(s, t, "ETIMEOUT")
  OBVIOUS
<1>6. PICK v : v = Unlink(e, t)
  OBVIOUS
<1>7. PICK w : w = rt_schedule_insert_thread(v, t)
  OBVIOUS
<1>8. /\ Good(n, X)
      /\ LosesWaiter(s, n, t)
      /\ MaySwitch(w) => n.stat[n.cur] = "RUNNING"
      /\ ~MaySwitch(w) => n.cur = s.cur
      /\ s.stat[s.cur] = "RUNNING" => w.stat[w.cur] = "RUNNING"
      /\ ~MaySwitch(w) => n = w
      /\ n.prio = s.prio /\ n.lock = s.lock
  BY <1>2, <1>3, <1>4, <1>5, <1>6, <1>7, TimeoutGood
<1>9. LosesWaiter(k, n, t)
  BY <1>4, <1>8 DEF LosesWaiter, Linked
<1>10. RunsOrStays(k, n)
  BY <1>4, <1>8 DEF RunsOrStays
<1> QED
  BY <1>2, <1>4, <1>8, <1>9, <1>10

-----------------------------------------------------------------------------
(* What the kernel functions leave alone.                                  *)

\* The threads that still wait on a suspend list are in their old order.
OrderKept(k, n) == \A o \in Obj : KeepsOrder(k.q[o], n.q[o])

\* No priority and no thread->error changes, no timer is armed and the waiters
\* keep their order.
Undisturbed(k, n) ==
    /\ n.prio = k.prio /\ n.err = k.err
    /\ OrderKept(k, n)
    /\ \A u \in Thread : Armed(n, u) => Armed(k, u)

\* Suspend lists that are not touched keep their order.
LEMMA SameListsOrder ==
    ASSUME NEW k, NEW n, \A o \in Obj : n.q[o] = k.q[o]
    PROVE  OrderKept(k, n)
BY KeepsOrderRefl DEF OrderKept

\* A function that changes none of these fields is quiet.
LEMMA SameFieldsQuiet ==
    ASSUME NEW k, NEW n, n.prio = k.prio, n.err = k.err, n.tlist = k.tlist,
           \A o \in Obj : n.q[o] = k.q[o]
    PROVE  Undisturbed(k, n)
BY SameListsOrder DEF Undisturbed, Armed

\* Undisturbed functions compose.
LEMMA QuietTrans ==
    ASSUME NEW k, NEW m, NEW n, Undisturbed(k, m), Undisturbed(m, n)
    PROVE  Undisturbed(k, n)
<1>1. OrderKept(k, n)
  BY KeepsOrderTrans DEF Undisturbed, OrderKept
<1> QED
  BY <1>1 DEF Undisturbed

\* rt_list_remove
LEMMA UnlinkQuiet ==
    ASSUME NEW k \in Kstate, NEW t \in Thread, NEW n, n = Unlink(k, t)
    PROVE  Undisturbed(k, n)
<1>1. /\ n.prio = k.prio /\ n.err = k.err /\ n.tlist = k.tlist
      /\ \A l \in Lists : k.q[l] \in Seq(Thread) /\ n.q[l] = RemoveFirst(k.q[l], t)
  BY DEF Kstate, Unlink
<1>2. OrderKept(k, n)
  BY <1>1, RemoveFirstOrder DEF OrderKept, Lists
<1> QED
  BY <1>1, <1>2 DEF Undisturbed, Armed

\* rt_schedule_insert_thread
LEMMA InsertQuiet ==
    ASSUME NEW k \in Kstate, NEW t \in Thread,
           NEW n, n = rt_schedule_insert_thread(k, t)
    PROVE  Undisturbed(k, n)
<1>1. k.prio[t] \in Prio /\ \A o \in Obj : o # k.prio[t] /\ o \in Lists
  BY KernelAssumption DEF Kstate, Lists
<1>2. /\ n.prio = k.prio /\ n.err = k.err /\ n.tlist = k.tlist
      /\ \A o \in Obj : n.q[o] = k.q[o]
  BY <1>1 DEF rt_schedule_insert_thread, Kstate
<1> QED
  BY <1>2, SameFieldsQuiet

\* rt_schedule_remove_thread
LEMMA RemoveQuiet ==
    ASSUME NEW k \in Kstate, NEW t \in Thread,
           NEW n, n = rt_schedule_remove_thread(k, t)
    PROVE  Undisturbed(k, n)
<1>1. PICK v : v = Unlink(k, t)
  OBVIOUS
<1>2. Undisturbed(k, v)
  BY <1>1, UnlinkQuiet
<1>3. n.prio = v.prio /\ n.err = v.err /\ n.tlist = v.tlist /\ n.q = v.q
  BY <1>1 DEF rt_schedule_remove_thread, Unlink, Kstate
<1>4. Undisturbed(v, n)
  BY <1>3, SameFieldsQuiet
<1> QED
  BY <1>2, <1>4, QuietTrans

\* Putting the current thread back into the ready table and taking the next one
\* out of it
LEMMA SwitchQuiet ==
    ASSUME NEW k, NEW X, Good(k, X), NEW to \in Thread, to # k.cur,
           NEW v, v = Leave(k, to), NEW w, w = rt_schedule_remove_thread(v, to),
           NEW n, n = Enter(v, to)
    PROVE  Undisturbed(k, n)
<1>1. k \in Kstate /\ k.cur \in Thread
  BY DEF Good, Kstate
<1>2. PICK m : m = [k EXCEPT !.cur = to]
  OBVIOUS
<1>3. m \in Kstate /\ m.prio = k.prio /\ m.err = k.err /\ m.tlist = k.tlist /\ m.q = k.q
  BY <1>1, <1>2 DEF Kstate
<1>4. Undisturbed(k, m)
  BY <1>3, SameFieldsQuiet
<1>5. v = m \/ v = rt_schedule_insert_thread(m, k.cur)
  BY <1>2 DEF Leave
<1>6. Undisturbed(m, v)
  BY <1>1, <1>3, <1>5, InsertQuiet, SameFieldsQuiet
<1>7. v \in Kstate
  BY LeaveFields
<1>8. Undisturbed(v, w)
  BY <1>7, RemoveQuiet
<1>9. n.prio = w.prio /\ n.err = w.err /\ n.tlist = w.tlist /\ n.q = w.q
  BY <1>7 DEF Enter, rt_schedule_remove_thread, Unlink, Kstate
<1>10. Undisturbed(w, n)
  BY <1>9, SameFieldsQuiet
<1> QED
  BY <1>4, <1>6, <1>8, <1>10, QuietTrans

\* rt_schedule
LEMMA ScheduleQuiet ==
    ASSUME NEW k, NEW X, Good(k, X), NEW n, n = rt_schedule(k)
    PROVE  Undisturbed(k, n)
<1> DEFINE to == Head(k.q[HighestReady(k)])
<1>1. k \in Kstate /\ Flat(k, X) /\ k.cur \in Thread
  BY DEF Good, Kstate
<1>2. CASE ~MaySwitch(k)
  BY <1>2, SameFieldsQuiet DEF rt_schedule
<1>3. CASE MaySwitch(k) /\ Stays(k)
  <2>1. PICK v : v = rt_schedule_remove_thread(k, k.cur)
    OBVIOUS
  <2>2. Undisturbed(k, v)
    BY <1>1, <2>1, RemoveQuiet
  <2>3. n.prio = v.prio /\ n.err = v.err /\ n.tlist = v.tlist /\ n.q = v.q
    BY <1>1, <1>3, <2>1 DEF rt_schedule, Enter, rt_schedule_remove_thread, Unlink, Kstate
  <2>4. Undisturbed(v, n)
    BY <2>3, SameFieldsQuiet
  <2> QED
    BY <2>2, <2>4, QuietTrans
<1>4. CASE MaySwitch(k) /\ ~Stays(k)
  <2>1. PICK p \in Prio : p = HighestReady(k) /\ p \in k.group /\ p \in Lists
    BY <1>1, <1>4, HighestReadySpec DEF MaySwitch, Kstate, Lists
  <2>2. k.q[p] # << >>
    BY <1>1, <2>1, NonEmpty DEF Flat
  <2>3. to \in Thread /\ Linked(k, to, p)
    BY <1>1, <2>1, <2>2, HeadLinked
  <2>4. n = Enter(Leave(k, to), to)
    BY <1>4 DEF rt_schedule
  <2> HIDE DEF to
  <2>5. to # k.cur
    BY <1>1, <2>1, <2>3 DEF Flat
  <2>6. PICK v : v = Leave(k, to)
    OBVIOUS
  <2>7. PICK w : w = rt_schedule_remove_thread(v, to)
    OBVIOUS
  <2> QED
    BY <2>3, <2>4, <2>5, <2>6, <2>7, SwitchQuiet
<1> QED
  BY <1>2, <1>3, <1>4

\* rt_timer_stop
LEMMA TimerStopQuiet ==
    ASSUME NEW k, NEW X, Good(k, X), NEW t \in Thread, NEW n, n = TimerStop(k, t)
    PROVE  Undisturbed(k, n)
<1>1. n.prio = k.prio /\ n.err = k.err /\ n.q = k.q
  BY DEF TimerStop, Good, Kstate
<1>2. \A u \in Thread : Armed(n, u) => Armed(k, u)
  BY TimerStopGood
<1>3. OrderKept(k, n)
  BY <1>1, SameListsOrder
<1> QED
  BY <1>1, <1>2, <1>3 DEF Undisturbed

\* rt_thread_suspend
LEMMA SuspendQuiet ==
    ASSUME NEW k, NEW X, Good(k, X), NEW t \in Thread, t # Idle,
           k.stat[t] \in {"READY", "RUNNING"},
           NEW v, v = rt_schedule_remove_thread(k, t),
           NEW w, w = SetStat(v, t, "SUSPEND"),
           NEW n, n = rt_thread_suspend(k, t)
    PROVE  Undisturbed(k, n)
<1>1. k \in Kstate
  BY DEF Good
<1>2. Undisturbed(k, v)
  BY <1>1, RemoveQuiet
<1>3. /\ Good(v, Also(X, t)) /\ v \in Kstate
      /\ \A l \in Lists : ~Linked(v, t, l)
  BY RemoveGood DEF Good
<1>4. w.prio = v.prio /\ w.err = v.err /\ w.tlist = v.tlist /\ w.q = v.q
  BY <1>3 DEF SetStat, Kstate
<1>5. Undisturbed(v, w)
  BY <1>4, SameFieldsQuiet
<1>6. Good(w, X)
  BY <1>3, SetSuspendGood
<1>7. n = TimerStop(w, t)
  BY DEF rt_thread_suspend, SetStat
<1>8. Undisturbed(w, n)
  BY <1>6, <1>7, TimerStopQuiet
<1> QED
  BY <1>2, <1>5, <1>8, QuietTrans

\* rt_thread_resume
LEMMA ResumeQuiet ==
    ASSUME NEW k, NEW X, Good(k, X), NEW t \in Thread, k.stat[t] = "SUSPEND",
           NEW v, v = Unlink(k, t),
           NEW w, w = TimerStop(v, t),
           NEW n, n = rt_thread_resume(k, t)
    PROVE  Undisturbed(k, n)
<1>1. k \in Kstate
  BY DEF Good
<1>2. Undisturbed(k, v)
  BY <1>1, UnlinkQuiet
<1>3. Good(v, X)
  BY SuspendedNotReady, UnlinkGood
<1>4. Undisturbed(v, w) /\ w \in Kstate
  BY <1>3, TimerStopQuiet, TimerStopGood DEF Good
<1>5. n = rt_schedule_insert_thread(w, t)
  BY DEF rt_thread_resume, ResumeUnlink
<1>6. Undisturbed(w, n)
  BY <1>4, <1>5, InsertQuiet
<1> QED
  BY <1>2, <1>4, <1>6, QuietTrans

\* rt_ipc_list_resume
LEMMA ListResumeQuiet ==
    ASSUME NEW k, NEW X, Good(k, X), NEW o \in Obj, k.q[o] # << >>,
           NEW n, n = rt_ipc_list_resume(k, o)
    PROVE  Undisturbed(k, n)
<1>1. PICK t : t = Head(k.q[o])
  OBVIOUS
<1>2. t \in Thread /\ k.stat[t] = "SUSPEND"
  BY <1>1, HeadSuspended
<1>3. PICK v : v = Unlink(k, t)
  OBVIOUS
<1>4. PICK w : w = TimerStop(v, t)
  OBVIOUS
<1>5. n = rt_thread_resume(k, t)
  BY <1>1 DEF rt_ipc_list_resume
<1> QED
  BY <1>2, <1>3, <1>4, <1>5, ResumeQuiet

\* The same, but for the error that thread t is marked with.
Marks(k, n, t, e) ==
    /\ n.prio = k.prio /\ n.err = [k.err EXCEPT ![t] = e]
    /\ OrderKept(k, n)
    /\ \A u \in Thread : Armed(n, u) => Armed(k, u)

\* A thread is marked with an error and a quiet function follows.
LEMMA MarksQuiet ==
    ASSUME NEW k \in Kstate, NEW t \in Thread, NEW e, NEW m, m = SetErr(k, t, e),
           NEW n, Undisturbed(m, n)
    PROVE  Marks(k, n, t, e)
<1>1. /\ m.prio = k.prio /\ m.q = k.q /\ m.tlist = k.tlist
      /\ m.err = [k.err EXCEPT ![t] = e]
  BY DEF SetErr, Kstate
<1> QED
  BY <1>1 DEF Undisturbed, Marks, OrderKept, Armed

\* A quiet function, and then one that marks a thread
LEMMA QuietMarks ==
    ASSUME NEW k, NEW m, NEW n, NEW t, NEW e, Undisturbed(k, m), Marks(m, n, t, e)
    PROVE  Marks(k, n, t, e)
<1>1. OrderKept(k, n)
  BY KeepsOrderTrans DEF Undisturbed, Marks, OrderKept
<1> QED
  BY <1>1 DEF Undisturbed, Marks

\* One turn of rt_ipc_list_resume_all
LEMMA ResumeOneMarks ==
    ASSUME NEW k, NEW X, Good(k, X), NEW o \in Obj, k.q[o] # << >>,
           NEW t, t = Head(k.q[o]),
           NEW n, n = ResumeOneWithError(k, o)
    PROVE  Marks(k, n, t, "ERROR")
<1>1. PICK e : e = SetErr(k, t, "ERROR")
  OBVIOUS
<1>2. t \in Thread /\ k \in Kstate
  BY HeadSuspended DEF Good
<1>3. Good(e, X) /\ e.q = k.q
  <2>1. "ERROR" \in Error
    BY DEF Error
  <2> QED
    BY <1>1, <1>2, <2>1, SetErrGood
<1>4. n = rt_ipc_list_resume(e, o)
  BY <1>1 DEF ResumeOneWithError, SetErr
<1>5. Undisturbed(e, n)
  BY <1>3, <1>4, ListResumeQuiet
<1> QED
  BY <1>1, <1>2, <1>5, MarksQuiet

\* rt_thread_timeout
LEMMA TimeoutMarks ==
    ASSUME NEW k, NEW X, Good(k, X), NEW t \in Thread, k.stat[t] = "SUSPEND", ~Armed(k, t),
           NEW e, e = SetErr(k, t, "ETIMEOUT"),
           NEW v, v = Unlink(e, t),
           NEW w, w = rt_schedule_insert_thread(v, t),
           NEW n, n = rt_thread_timeout(k, t)
    PROVE  Marks(k, n, t, "ETIMEOUT")
<1>1. Good(w, X) /\ k \in Kstate
  BY TimeoutGood DEF Good
<1>2. Good(e, X) /\ e \in Kstate /\ e.stat[t] = "SUSPEND"
  BY SetErrGood DEF Error, Good
<1>3. Undisturbed(e, v) /\ v \in Kstate
  BY <1>2, UnlinkQuiet, SuspendedNotReady, UnlinkGood DEF Good
<1>4. Undisturbed(v, w)
  BY <1>3, InsertQuiet
<1>5. n = rt_schedule(w)
  BY DEF rt_thread_timeout, SetErr
<1>6. Undisturbed(w, n)
  BY <1>1, <1>5, ScheduleQuiet
<1>7. Undisturbed(e, n)
  BY <1>3, <1>4, <1>6, QuietTrans
<1> QED
  BY <1>1, <1>7, MarksQuiet

\* One turn of the loop of rt_timer_check: the thread that times out was armed.
LEMMA ExpireMarks ==
    ASSUME NEW k, NEW X, Good(k, X), k.tlist # << >>,
           NEW t, t = Head(k.tlist),
           NEW s, s = TimerStop(k, t),
           NEW n, n = rt_thread_timeout(s, t)
    PROVE  t \in Thread /\ Armed(k, t) /\ Marks(k, n, t, "ETIMEOUT")
<1>1. k.tlist \in Seq(Thread) /\ Flat(k, X)
  BY DEF Good, Kstate
<1>2. t \in Thread /\ Armed(k, t)
  BY <1>1, ToSetType, EmptyList DEF Armed
<1>3. k.stat[t] = "SUSPEND"
  BY <1>1, <1>2 DEF Flat
<1>4. Good(s, X) /\ ~Armed(s, t) /\ s.stat = k.stat
  BY <1>2, TimerStopGood
<1>5. PICK e : e = SetErr(s, t, "ETIMEOUT")
  OBVIOUS
<1>6. PICK v : v = Unlink(e, t)
  OBVIOUS
<1>7. PICK w : w = rt_schedule_insert_thread(v, t)
  OBVIOUS
<1>8. Marks(s, n, t, "ETIMEOUT")
  BY <1>2, <1>3, <1>4, <1>5, <1>6, <1>7, TimeoutMarks
<1>9. Undisturbed(k, s)
  BY <1>2, TimerStopQuiet
<1> QED
  BY <1>2, <1>8, <1>9, QuietMarks

\* rt_tick_increase
LEMMA TickQuiet ==
    ASSUME NEW k, NEW X, Good(k, X), NEW n, n = rt_tick_increase(k)
    PROVE  Undisturbed(k, n)
<1>1. /\ k \in Kstate /\ k.cur \in Thread /\ k.slice \in [Thread -> 1 .. Slice]
      /\ k.tick \in Tick
  BY DEF Good, Kstate
<1>2. PICK now : now = (k.tick + 1) % TickMod
  OBVIOUS
<1>3. now \in Tick
  BY <1>1, <1>2, KernelAssumption DEF Tick
<1>4. PICK full : full = SetClock(k, now, k.cur, Slice)
  OBVIOUS
<1>5. PICK less : less = SetClock(k, now, k.cur, k.slice[k.cur] - 1)
  OBVIOUS
<1>6. n = IF k.slice[k.cur] = 1 THEN rt_schedule(full) ELSE less
  BY <1>1, <1>2, <1>4, <1>5 DEF rt_tick_increase, SetClock, Kstate
<1>7. Undisturbed(k, full) /\ Undisturbed(k, less)
  <2>1. full.prio = k.prio /\ full.err = k.err /\ full.tlist = k.tlist /\ full.q = k.q
    BY <1>1, <1>4 DEF SetClock, Kstate
  <2>2. less.prio = k.prio /\ less.err = k.err /\ less.tlist = k.tlist /\ less.q = k.q
    BY <1>1, <1>5 DEF SetClock, Kstate
  <2> QED
    BY <2>1, <2>2, SameFieldsQuiet
<1>8. Good(full, X)
  BY <1>1, <1>3, <1>4, KernelAssumption, SetClockGood
<1> QED
  BY <1>6, <1>7, <1>8, ScheduleQuiet, QuietTrans

\* rt_thread_control(RT_THREAD_CTRL_CHANGE_PRIORITY) changes one priority; the
\* waiters stay where they are.
LEMMA ChangePriorityFrame ==
    ASSUME NEW k, NEW X, Good(k, X), NEW t \in Thread, NEW p \in Prio,
           NEW n, n = ChangePriority(k, t, p)
    PROVE  /\ n.prio = [k.prio EXCEPT ![t] = p] /\ n.err = k.err
           /\ OrderKept(k, n)
           /\ \A u \in Thread : Armed(n, u) => Armed(k, u)
<1>1. k \in Kstate
  BY DEF Good
<1>2. CASE k.stat[t] = "READY"
  <2>1. PICK v : v = rt_schedule_remove_thread(k, t)
    OBVIOUS
  <2>2. PICK w : w = SetPrio(v, t, p)
    OBVIOUS
  <2>3. Undisturbed(k, v) /\ v \in Kstate
    BY <1>1, <2>1, RemoveQuiet, RemoveGood DEF Good
  <2>4. /\ w \in Kstate /\ w.prio = [v.prio EXCEPT ![t] = p] /\ w.err = v.err /\ w.q = v.q
        /\ w.tlist = v.tlist
    BY <2>2, <2>3 DEF SetPrio, Kstate
  <2>5. n = rt_schedule_insert_thread(w, t)
    BY <1>2, <2>1, <2>2 DEF ChangePriority, SetPrio
  <2>6. Undisturbed(w, n)
    BY <2>4, <2>5, InsertQuiet
  <2>7. OrderKept(k, n)
    BY <2>3, <2>4, <2>6, KeepsOrderTrans DEF Undisturbed, OrderKept
  <2> QED
    BY <2>3, <2>4, <2>6, <2>7 DEF Undisturbed, Armed
<1>3. CASE k.stat[t] # "READY"
  <2>1. /\ n.prio = [k.prio EXCEPT ![t] = p] /\ n.err = k.err /\ n.q = k.q
        /\ n.tlist = k.tlist
    BY <1>1, <1>3 DEF ChangePriority, Kstate
  <2> QED
    BY <2>1, SameListsOrder DEF Armed
<1> QED
  BY <1>2, <1>3

-----------------------------------------------------------------------------
(* Suspend lists of flag PRIO *)

\* The waiters of list o stand in the order of their priorities.
Sorted(k, o) ==
    \A i, j \in 1 .. Len(k.q[o]) : i < j => k.prio[k.q[o][i]] <= k.prio[k.q[o][j]]

\* Waiters that keep their order and their priorities stay sorted.
LEMMA OrderSorted ==
    ASSUME NEW k, NEW n, NEW o \in Obj, Sorted(k, o),
           KeepsOrder(k.q[o], n.q[o]), n.prio = k.prio
    PROVE  Sorted(n, o)
<1>1. Rising(k.q[o], k.prio)
  BY DEF Sorted, Rising
<1>2. Rising(n.q[o], k.prio)
  BY <1>1, RisingKept
<1> QED
  BY <1>2 DEF Sorted, Rising

\* rt_ipc_list_suspend keeps a list of flag PRIO sorted.
LEMMA LinkSorted ==
    ASSUME NEW k \in Kstate, NEW o \in Obj, NEW t \in Thread, Sorted(k, o),
           NEW i, i = WaitPosition(k, o, t, "PRIO"),
           NEW n, n = Link(k, o, i, t)
    PROVE  Sorted(n, o)
<1>1. PICK s : s = k.q[o]
  OBVIOUS
<1>2. PICK w : w = k.prio
  OBVIOUS
<1>3. /\ s \in Seq(Thread) /\ w \in [Thread -> Int] /\ Len(s) \in Nat
      /\ n.q[o] = InsertAt(s, i, t) /\ n.prio = w
  <2>1. k.q[o] \in Seq(Thread) /\ k.prio \in [Thread -> Prio] /\ Prio \subseteq Int
    BY DEF Kstate, Lists, Prio
  <2>2. n.q[o] = InsertAt(k.q[o], i, t) /\ n.prio = k.prio
    BY DEF Kstate, Lists, Link
  <2>3. k.prio \in [Thread -> Int]
    BY ONLY <2>1
  <2> QED
    BY <1>1, <1>2, <2>1, <2>2, <2>3
<1>4. Rising(s, w)
  BY <1>1, <1>2 DEF Sorted, Rising
<1>5. PICK J : J = {j \in 1 .. Len(s) : w[t] < w[s[j]]}
  OBVIOUS
<1>6. (\A j : j \in J <=> j \in 1 .. Len(s) /\ w[t] < w[s[j]]) /\ J \subseteq Nat
  BY <1>3, <1>5
<1>7. i = IF J = {} THEN Len(s) + 1 ELSE CHOOSE x \in J : \A j \in J : x <= j
  BY <1>1, <1>2, <1>5 DEF WaitPosition
<1>8. /\ J = {} => i = Len(s) + 1
      /\ J # {} => i \in J /\ \A j \in J : i <= j
  BY ONLY <1>6, <1>7, LeastSpec
<1>9. /\ i \in 1 .. Len(s) + 1
      /\ \A j \in 1 .. Len(s) : j < i => w[s[j]] <= w[t]
      /\ \A j \in 1 .. Len(s) : i <= j => w[t] <= w[s[j]]
  BY ONLY <1>3, <1>4, <1>6, <1>8, t \in Thread, PositionSpec
<1>10. Rising(n.q[o], w)
  BY ONLY <1>3, <1>4, <1>9, t \in Thread, InsertRising
<1> QED
  BY <1>3, <1>10 DEF Sorted, Rising

\* The current thread puts itself on the suspend list of an object.
LEMMA SuspendSelfOnFrame ==
    ASSUME NEW k, Good(k, {}), NEW c \in Thread, k.cur = c, c # Idle,
           k.stat[c] = "RUNNING",
           NEW o \in Obj, NEW flag, NEW time \in Int,
           NEW n, n = SuspendSelfOn(k, o, flag, time)
    PROVE  /\ n.prio = k.prio /\ n.err = [k.err EXCEPT ![c] = "EOK"]
           /\ \A u \in Thread : Armed(n, u) => Armed(k, u) \/ u = c
           /\ \A l \in Obj \ {o} : KeepsOrder(k.q[l], n.q[l])
           /\ flag = "PRIO" /\ Sorted(k, o) => Sorted(n, o)
<1>1. PICK e : e = SetErr(k, c, "EOK")
  OBVIOUS
<1>2. PICK s : s = rt_thread_suspend(e, c)
  OBVIOUS
<1>3. PICK i : i = WaitPosition(s, o, c, flag)
  OBVIOUS
<1>4. PICK w : w = Link(s, o, i, c)
  OBVIOUS
<1>5. Good(e, {}) /\ e.stat = k.stat
  <2>1. "EOK" \in Error
    BY DEF Error
  <2> QED
    BY <1>1, <2>1, SetErrGood
<1>6. /\ Undisturbed(e, s) /\ Good(s, {})
      /\ \A l \in Lists : ~Linked(s, c, l)
      /\ s.stat[c] = "SUSPEND"
  <2>1. PICK v : v = rt_schedule_remove_thread(e, c)
    OBVIOUS
  <2>2. PICK x : x = SetStat(v, c, "SUSPEND")
    OBVIOUS
  <2>3. e.stat[c] \in {"READY", "RUNNING"}
    BY <1>5
  <2> QED
    BY <1>2, <1>5, <2>1, <2>2, <2>3, SuspendQuiet, SuspendGood
<1>7. Marks(k, s, c, "EOK")
  BY <1>1, <1>6, MarksQuiet DEF Good
<1>8. i \in 1 .. Len(s.q[o]) + 1 /\ s \in Kstate
  BY <1>3, <1>6, WaitPositionType DEF Good
<1>9. /\ Good(w, {}) /\ w.prio = s.prio /\ w.tlist = s.tlist /\ w.stat = s.stat
  BY <1>4, <1>6, <1>8, LinkGood
<1>10. w.err = s.err /\ \A l \in Obj \ {o} : w.q[l] = s.q[l]
  BY <1>4, <1>8 DEF Link, Kstate
<1>11. flag = "PRIO" /\ Sorted(s, o) => Sorted(w, o)
  BY <1>3, <1>4, <1>8, LinkSorted
<1>12. n = IF time > 0 THEN TimerStart(w, c, time) ELSE w
  <2>1. rt_ipc_list_suspend(e, o, c, flag) = w
    BY <1>2, <1>3, <1>4 DEF rt_ipc_list_suspend, Link
  <2> QED
    BY <1>1, <2>1 DEF SuspendSelfOn, SetErr
<1>13. /\ n.q = w.q /\ n.prio = w.prio /\ n.err = w.err
       /\ \A u \in Thread : Armed(n, u) => Armed(w, u) \/ u = c
  <2>1. CASE time > 0
    <3>1. time \in Nat /\ n = TimerStart(w, c, time) /\ w.stat[c] = "SUSPEND"
      BY <1>6, <1>9, <1>12, <2>1
    <3>2. PICK v : v = TimerStop(w, c)
      OBVIOUS
    <3>3. /\ n.q = w.q /\ n.prio = w.prio
          /\ \A u \in Thread : Armed(n, u) <=> Armed(w, u) \/ u = c
      BY <1>9, <3>1, <3>2, TimerStartGood
    <3>4. n.err = w.err
      BY <1>9, <3>1 DEF TimerStart, TimerStop, Good, Kstate
    <3> QED
      BY <3>3, <3>4
  <2>2. CASE ~(time > 0)
    BY <1>12, <2>2
  <2> QED
    BY <2>1, <2>2
<1>14. \A l \in Obj \ {o} : KeepsOrder(k.q[l], n.q[l])
  BY <1>7, <1>10, <1>13 DEF Marks, OrderKept
<1>15. flag = "PRIO" /\ Sorted(k, o) => Sorted(n, o)
  <2>1. Sorted(k, o) => Sorted(s, o)
    BY <1>7, OrderSorted DEF Marks, OrderKept
  <2> QED
    BY <1>11, <1>13, <2>1 DEF Sorted
<1> QED
  BY <1>7, <1>9, <1>10, <1>13, <1>14, <1>15 DEF Marks, Armed

-----------------------------------------------------------------------------
(* Preemption *)

\* The current thread is at least as urgent as every ready one outside X.
Urgent(k, X) == \A t \in Thread \ X : k.stat[t] = "READY" => k.prio[k.cur] <= k.prio[t]

\* After rt_schedule the most urgent thread runs.
LEMMA ScheduleUrgent ==
    ASSUME NEW k, NEW X, Good(k, X), k.lock = 0, NEW n, n = rt_schedule(k)
    PROVE  Urgent(n, X)
<1>1. /\ k \in Kstate /\ Flat(k, X) /\ k.cur \in Thread /\ k.stat \in [Thread -> Stat]
      /\ k.prio \in [Thread -> Prio] /\ Prio \subseteq Int /\ k.group \subseteq Prio
  BY DEF Good, Kstate, Prio
<1>2. \A t \in Thread \ X : k.stat[t] = "READY" => k.prio[t] \in k.group
  BY <1>1 DEF Flat
<1>3. CASE ~MaySwitch(k)
  BY <1>2, <1>3 DEF MaySwitch, rt_schedule, Urgent
<1>4. CASE MaySwitch(k)
  <2>1. PICK p \in Prio : /\ p = HighestReady(k) /\ p \in k.group /\ p \in Lists
                          /\ \A r \in k.group : p <= r
    BY <1>1, <1>4, HighestReadySpec DEF MaySwitch, Lists
  <2>2. \A t \in Thread \ X : k.stat[t] = "READY" => p <= k.prio[t]
    BY <1>2, <2>1
  <2>3. CASE Stays(k)
    <3>1. PICK v : v = rt_schedule_remove_thread(k, k.cur)
      OBVIOUS
    <3>2. /\ k.stat[k.cur] = "RUNNING"
          /\ n = SetStat(v, k.cur, "RUNNING")
      BY <1>4, <2>3, <3>1 DEF rt_schedule, Stays, Enter, SetStat
    <3>3. /\ n.cur = k.cur /\ n.prio = k.prio
          /\ \A u \in Thread : n.stat[u] = k.stat[u]
      BY <1>1, <3>1, <3>2, StayGood
    <3>4. k.prio[k.cur] < p
      BY <2>1, <2>3 DEF Stays
    <3>5. \A t \in Thread \ X : k.stat[t] = "READY" => k.prio[k.cur] <= k.prio[t]
      <4> SUFFICES ASSUME NEW t \in Thread \ X, k.stat[t] = "READY"
                   PROVE  k.prio[k.cur] <= k.prio[t]
        OBVIOUS
      <4>1. p <= k.prio[t]
        BY <2>2
      <4>2. p \in Int /\ k.prio[t] \in Int /\ k.prio[k.cur] \in Int
        BY <1>1
      <4> QED
        BY <3>4, <4>1, <4>2
    <3> QED
      BY <3>3, <3>5 DEF Urgent
  <2>4. CASE ~Stays(k)
    <3>1. k.q[p] # << >>
      BY <1>1, <2>1, NonEmpty DEF Flat
    <3>2. PICK to : to = Head(k.q[p])
      OBVIOUS
    <3>3. to \in Thread /\ Linked(k, to, p)
      BY <1>1, <2>1, <3>1, <3>2, HeadLinked
    <3>4. n = Enter(Leave(k, to), to)
      BY <1>4, <2>1, <2>4, <3>2 DEF rt_schedule
    <3>5. k.stat[to] = "READY" /\ k.prio[to] = p /\ to # k.cur
      BY <1>1, <2>1, <3>3 DEF Flat
    <3>6. PICK v : v = Leave(k, to)
      OBVIOUS
    <3>7. /\ v \in Kstate /\ v.cur = to /\ v.prio = k.prio
          /\ \A u \in Thread :
                v.stat[u] = IF k.stat[u] = "RUNNING" THEN "READY" ELSE k.stat[u]
      BY <3>3, <3>5, <3>6, LeaveFields
    <3>8. n.cur = v.cur /\ n.prio = v.prio /\ n.stat = [v.stat EXCEPT ![to] = "RUNNING"]
      BY <3>3, <3>4, <3>6, <3>7 DEF Enter, rt_schedule_remove_thread, Unlink, Kstate
    <3>9. k.stat[k.cur] = "RUNNING" => p <= k.prio[k.cur]
      <4>1. p \in Int /\ k.prio[k.cur] \in Int
        BY <1>1
      <4> QED
        BY <2>1, <2>4, <4>1 DEF Stays
    <3>10. \A u \in Thread \ X : n.stat[u] = "READY" => p <= k.prio[u]
      <4> SUFFICES ASSUME NEW u \in Thread \ X, n.stat[u] = "READY" PROVE p <= k.prio[u]
        OBVIOUS
      <4>1. v.stat[u] = "READY"
        BY <3>7, <3>8 DEF Kstate
      <4>2. k.stat[u] = "READY" \/ (k.stat[u] = "RUNNING" /\ u = k.cur)
        BY <1>1, <3>7, <4>1 DEF Flat
      <4> QED
        BY <2>2, <3>9, <4>2
    <3> QED
      BY <3>5, <3>7, <3>8, <3>10 DEF Urgent
  <2> QED
    BY <2>3, <2>4
<1> QED
  BY <1>3, <1>4

\* rt_tick_increase keeps the most urgent thread running.
LEMMA TickUrgent ==
    ASSUME NEW k, NEW X, Good(k, X), k.lock = 0, NEW n, n = rt_tick_increase(k)
    PROVE  \/ Urgent(n, X)
           \/ n.cur = k.cur /\ n.stat = k.stat /\ n.prio = k.prio
<1>1. /\ k \in Kstate /\ k.cur \in Thread /\ k.slice \in [Thread -> 1 .. Slice]
      /\ k.tick \in Tick
  BY DEF Good, Kstate
<1>2. PICK now : now = (k.tick + 1) % TickMod
  OBVIOUS
<1>3. now \in Tick
  BY <1>1, <1>2, KernelAssumption DEF Tick
<1>4. PICK full : full = SetClock(k, now, k.cur, Slice)
  OBVIOUS
<1>5. PICK less : less = SetClock(k, now, k.cur, k.slice[k.cur] - 1)
  OBVIOUS
<1>6. n = IF k.slice[k.cur] = 1 THEN rt_schedule(full) ELSE less
  BY <1>1, <1>2, <1>4, <1>5 DEF rt_tick_increase, SetClock, Kstate
<1>7. Good(full, X) /\ full.lock = 0
  <2>1. Slice \in 1 .. Slice
    BY KernelAssumption
  <2>2. Good(full, X) /\ full.lock = k.lock
    BY <1>1, <1>3, <1>4, <2>1, SetClockGood
  <2> QED
    BY <2>2
<1>8. less.cur = k.cur /\ less.stat = k.stat /\ less.prio = k.prio
  BY <1>1, <1>5 DEF SetClock, Kstate
<1> QED
  BY <1>6, <1>7, <1>8, ScheduleUrgent

\* After rt_thread_timeout the most urgent thread runs.
LEMMA ExpireUrgent ==
    ASSUME NEW k, NEW X, Good(k, X), k.lock = 0, k.tlist # << >>,
           NEW t, t = Head(k.tlist),
           NEW s, s = TimerStop(k, t),
           NEW n, n = rt_thread_timeout(s, t)
    PROVE  Urgent(n, X)
<1>1. k.tlist \in Seq(Thread) /\ Flat(k, X)
  BY DEF Good, Kstate
<1>2. t \in Thread /\ Armed(k, t)
  BY <1>1, ToSetType, EmptyList DEF Armed
<1>3. k.stat[t] = "SUSPEND"
  BY <1>1, <1>2 DEF Flat
<1>4. Good(s, X) /\ ~Armed(s, t) /\ s.stat = k.stat /\ s.lock = k.lock
  BY <1>2, TimerStopGood
<1>5. PICK e : e = SetErr(s, t, "ETIMEOUT")
  OBVIOUS
<1>6. PICK v : v = Unlink(e, t)
  OBVIOUS
<1>7. PICK w : w = rt_schedule_insert_thread(v, t)
  OBVIOUS
<1>8. Good(w, X) /\ w.lock = s.lock
  BY <1>2, <1>3, <1>4, <1>5, <1>6, <1>7, TimeoutGood
<1>9. n = rt_schedule(w)
  BY <1>5, <1>6, <1>7 DEF rt_thread_timeout, SetErr
<1> QED
  BY <1>4, <1>8, <1>9, ScheduleUrgent

-----------------------------------------------------------------------------
(* Threads the scheduler does not deal with *)

\* Thread u is neither RUNNING nor in the ready table: not started, suspended,
\* closed, or unlinked by rt_thread_delete.
Aside(k, u) == k.stat[u] # "RUNNING" /\ \A p \in Prio : ~Linked(k, u, p)

\* If thread u is aside, nothing happens to it and it does not become current;
\* if it is not, it does not go aside.
LeftAlone(k, n, u) ==
    /\ Aside(n, u) <=> Aside(k, u)
    /\ Aside(k, u) => /\ n.stat[u] = k.stat[u]
                      /\ \A l \in Lists : Linked(n, u, l) <=> Linked(k, u, l)
                      /\ Armed(n, u) <=> Armed(k, u)
                      /\ n.cur = u => k.cur = u

\* Only the threads of S that are aside are affected.
Spares(k, n, S) == \A u \in Thread \ S : LeftAlone(k, n, u)

\* Only thread t is affected: its state, its links and its timer.
ActsOn(k, n, t) ==
    /\ n.cur = k.cur
    /\ \A u \in Thread \ {t} :
        /\ n.stat[u] = k.stat[u]
        /\ \A l \in Lists : Linked(n, u, l) <=> Linked(k, u, l)
        /\ Armed(n, u) <=> Armed(k, u)

\* Functions that affect the same thread compose.
LEMMA ActsOnTrans ==
    ASSUME NEW k, NEW m, NEW n, NEW t, ActsOn(k, m, t), ActsOn(m, n, t)
    PROVE  ActsOn(k, n, t)
BY DEF ActsOn

\* Two steps spare whom each of them spares.
LEMMA SparesTrans ==
    ASSUME NEW k, NEW m, NEW n, NEW S, Spares(k, m, S), Spares(m, n, S)
    PROVE  Spares(k, n, S)
<1> SUFFICES ASSUME NEW u \in Thread \ S PROVE LeftAlone(k, n, u)
  BY DEF Spares
<1>1. LeftAlone(k, m, u) /\ LeftAlone(m, n, u)
  BY DEF Spares
<1> HIDE DEF Aside
<1> QED
  BY <1>1 DEF LeftAlone

\* A step spares fewer threads than it has to.
LEMMA SparesMore ==
    ASSUME NEW k, NEW n, NEW S, NEW R, S \subseteq R, Spares(k, n, S)
    PROVE  Spares(k, n, R)
BY DEF Spares

\* A function that affects one thread spares the others.
LEMMA ActsOnSpares ==
    ASSUME NEW k, NEW n, NEW t, ActsOn(k, n, t)
    PROVE  Spares(k, n, {t})
<1> SUFFICES ASSUME NEW u \in Thread \ {t} PROVE LeftAlone(k, n, u)
  BY DEF Spares
<1>1. Prio \subseteq Lists
  BY DEF Lists
<1> QED
  BY <1>1 DEF ActsOn, LeftAlone, Aside

\* A step that leaves current thread, states, lists and timers alone
LEMMA SameSpares ==
    ASSUME NEW k, NEW n, n.cur = k.cur, n.stat = k.stat, n.q = k.q, n.tlist = k.tlist
    PROVE  Spares(k, n, {}) /\ \A t \in Thread : ActsOn(k, n, t)
BY DEF Spares, LeftAlone, Aside, Linked, Armed, ActsOn

\* rt_list_remove, and rt_schedule_remove_thread
LEMMA UnlinkActs ==
    ASSUME NEW k, NEW X, Good(k, X), NEW t \in Thread,
           NEW n, n = Unlink(k, t) \/ n = rt_schedule_remove_thread(k, t)
    PROVE  ActsOn(k, n, t)
<1>1. k \in Kstate /\ \A l \in Lists : IsInjective(k.q[l])
  BY DEF Good, Flat
<1>2. /\ \A u \in Thread : \A l \in Lists : Linked(n, u, l) <=> Linked(k, u, l) /\ u # t
      /\ n.cur = k.cur /\ n.stat = k.stat /\ n.tlist = k.tlist
  BY <1>1, UnlinkFields, RemoveFields
<1> QED
  BY <1>2 DEF ActsOn, Armed

\* rt_schedule_insert_thread of a thread that is on no list
LEMMA InsertActs ==
    ASSUME NEW k, NEW X, Good(k, X), NEW t \in Thread, \A l \in Lists : ~Linked(k, t, l),
           NEW n, n = rt_schedule_insert_thread(k, t)
    PROVE  ActsOn(k, n, t) /\ (Armed(n, t) <=> Armed(k, t))
<1>1. k \in Kstate /\ (\A l \in Lists : IsInjective(k.q[l])) /\ k.stat \in [Thread -> Stat]
  BY DEF Good, Flat, Kstate
<1>2. CASE t = k.cur
  <2>1. /\ n.cur = k.cur /\ n.q = k.q /\ n.tlist = k.tlist
        /\ \A u \in Thread \ {t} : n.stat[u] = k.stat[u]
    BY <1>1, <1>2 DEF rt_schedule_insert_thread, Kstate
  <2> QED
    BY <2>1 DEF ActsOn, Linked, Armed
<1>3. CASE t # k.cur
  <2>1. /\ \A u \in Thread : \A l \in Lists :
             Linked(n, u, l) <=> Linked(k, u, l) \/ (u = t /\ l = k.prio[t])
        /\ n.stat = [k.stat EXCEPT ![t] = "READY"]
        /\ n.cur = k.cur /\ n.tlist = k.tlist
    BY <1>1, <1>3, InsertFields
  <2> QED
    BY <1>1, <2>1 DEF ActsOn, Armed
<1> QED
  BY <1>2, <1>3

\* A change of thread->stat or of thread->error alone
LEMMA SetStatActs ==
    ASSUME NEW k \in Kstate, NEW t \in Thread, NEW s \in Stat \cup Error,
           NEW n, n = SetStat(k, t, s) \/ n = SetErr(k, t, s)
    PROVE  ActsOn(k, n, t)
<1>1. /\ n.cur = k.cur /\ n.q = k.q /\ n.tlist = k.tlist
      /\ \A u \in Thread \ {t} : n.stat[u] = k.stat[u]
  BY DEF SetStat, SetErr, Kstate
<1> QED
  BY <1>1 DEF ActsOn, Linked, Armed

\* rt_timer_stop
LEMMA TimerStopActs ==
    ASSUME NEW k, NEW X, Good(k, X), NEW t \in Thread, NEW n, n = TimerStop(k, t)
    PROVE  ActsOn(k, n, t)
<1>1. /\ \A u \in Thread : Armed(n, u) <=> Armed(k, u) /\ u # t
      /\ n.cur = k.cur /\ n.stat = k.stat /\ n.q = k.q
  BY TimerStopGood
<1> QED
  BY <1>1 DEF ActsOn, Linked

\* rt_timer_start of the timer of a suspended thread
LEMMA TimerStartActs ==
    ASSUME NEW k, NEW X, Good(k, X), NEW t \in Thread, k.stat[t] = "SUSPEND",
           NEW ticks \in Nat, NEW n, n = TimerStart(k, t, ticks)
    PROVE  ActsOn(k, n, t)
<1>1. PICK v : v = TimerStop(k, t)
  OBVIOUS
<1>2. /\ \A u \in Thread : Armed(n, u) <=> Armed(k, u) \/ u = t
      /\ n.cur = k.cur /\ n.stat = k.stat /\ n.q = k.q
  BY <1>1, TimerStartGood
<1> QED
  BY <1>2 DEF ActsOn, Linked

\* A thread that is not READY on its way out is not aside while it is READY.
LEMMA ReadyNotAside ==
    ASSUME NEW k, NEW X, Good(k, X), NEW t \in Thread \ X, k.stat[t] = "READY"
    PROVE  ~Aside(k, t)
<1>1. Linked(k, t, k.prio[t]) /\ k.prio[t] \in Prio
  BY DEF Good, Flat, Kstate
<1> QED
  BY <1>1 DEF Aside

\* rt_thread_control(RT_THREAD_CTRL_CHANGE_PRIORITY) moves a READY thread within
\* the ready table.
LEMMA ChangePrioritySpares ==
    ASSUME NEW k, NEW X, Good(k, X), NEW t \in Thread \ X, NEW p \in Prio,
           NEW n, n = ChangePriority(k, t, p)
    PROVE  Spares(k, n, {})
<1>0. k \in Kstate /\ Flat(k, X) /\ k.stat \in [Thread -> Stat]
  BY DEF Good, Kstate
<1>1. PICK v : v = rt_schedule_remove_thread(k, t)
  OBVIOUS
<1>2. PICK w : w = SetPrio(v, t, p)
  OBVIOUS
<1>3. Good(n, X) /\ (\A u \in Thread : n.stat[u] = k.stat[u]) /\ n.cur = k.cur
  BY <1>1, <1>2, ChangePriorityGood
<1>4. CASE k.stat[t] = "READY"
  <2>1. /\ Good(v, Also(X, t))
        /\ \A l \in Lists : ~Linked(v, t, l)
        /\ v.stat = k.stat /\ v.cur = k.cur
    BY <1>1, RemoveGood
  <2>2. t \in Also(X, t) /\ \A l \in Prio : ~Linked(v, t, l)
    BY <2>1 DEF Also, Lists
  <2>3. /\ Good(w, Also(X, t))
        /\ w.cur = v.cur /\ w.stat = v.stat /\ w.q = v.q /\ w.tlist = v.tlist
    BY <1>2, <2>1, <2>2, SetPrioGood
  <2>4. n = rt_schedule_insert_thread(w, t)
    BY <1>1, <1>2, <1>4 DEF ChangePriority, SetPrio
  <2>5. ActsOn(k, v, t) /\ ActsOn(v, w, t)
    BY <1>1, <2>3, UnlinkActs, SameSpares
  <2>6. \A l \in Lists : ~Linked(w, t, l)
    BY <2>1, <2>3 DEF Linked
  <2>7. ActsOn(w, n, t)
    BY <2>3, <2>4, <2>6, InsertActs
  <2>8. Spares(k, n, {t})
    BY <2>5, <2>7, ActsOnTrans, ActsOnSpares
  <2>9. ~Aside(k, t) /\ ~Aside(n, t)
    BY <1>3, <1>4, ReadyNotAside
  <2> QED
    BY <2>8, <2>9 DEF Spares, LeftAlone
<1>5. CASE k.stat[t] # "READY"
  <2>1. n.q = k.q /\ n.tlist = k.tlist /\ n.stat = k.stat /\ n.cur = k.cur
    BY <1>0, <1>5 DEF ChangePriority, Kstate
  <2> QED
    BY <2>1, SameSpares
<1> QED
  BY <1>4, <1>5

\* The switch to another ready thread
LEMMA SwitchSpares ==
    ASSUME NEW k, NEW X, Good(k, X), NEW to \in Thread, to # k.cur,
           k.stat[to] = "READY", Linked(k, to, k.prio[to]),
           NEW v, v = Leave(k, to), NEW w, w = rt_schedule_remove_thread(v, to),
           NEW n, n = Enter(v, to)
    PROVE  Spares(k, n, {})
<1>0. /\ k \in Kstate /\ k.cur \in Thread /\ k.stat \in [Thread -> Stat]
      /\ k.prio \in [Thread -> Prio] /\ Prio \subseteq Lists
      /\ \A u \in Thread : k.stat[u] = "RUNNING" => u = k.cur
  BY DEF Good, Flat, Kstate, Lists
<1>1. /\ v \in Kstate
      /\ \A l \in Lists : IsInjective(v.q[l])
      /\ \A u \in Thread : \A l \in Lists :
            Linked(v, u, l) <=> \/ Linked(k, u, l)
                                \/ k.stat[k.cur] = "RUNNING" /\ u = k.cur /\ l = k.prio[u]
      /\ \A u \in Thread : v.stat[u] = IF k.stat[u] = "RUNNING" THEN "READY" ELSE k.stat[u]
      /\ v.cur = to /\ v.tlist = k.tlist
  BY LeaveFields
<1>2. /\ w \in Kstate
      /\ \A u \in Thread : \A l \in Lists : Linked(w, u, l) <=> Linked(v, u, l) /\ u # to
      /\ w.cur = v.cur /\ w.stat = v.stat /\ w.tlist = v.tlist
  BY <1>1, RemoveFields
<1>3. n = SetStat(w, to, "RUNNING") /\ "RUNNING" \in Stat
  BY DEF Enter, SetStat, Stat
<1>4. /\ n.stat = [w.stat EXCEPT ![to] = "RUNNING"]
      /\ n.cur = w.cur /\ n.q = w.q /\ n.tlist = w.tlist
  BY <1>2, <1>3, SetStatFields
<1>5. /\ \A u \in Thread : n.stat[u] = IF u = to THEN "RUNNING"
                                       ELSE IF k.stat[u] = "RUNNING" THEN "READY"
                                       ELSE k.stat[u]
      /\ \A u \in Thread : \A l \in Lists :
            Linked(n, u, l) <=>
              /\ u # to
              /\ \/ Linked(k, u, l)
                 \/ k.stat[k.cur] = "RUNNING" /\ u = k.cur /\ l = k.prio[u]
      /\ \A u \in Thread : Armed(n, u) <=> Armed(k, u)
      /\ n.cur = to
  BY <1>1, <1>2, <1>4 DEF Linked, Armed, Kstate
<1> SUFFICES ASSUME NEW u \in Thread PROVE LeftAlone(k, n, u)
  BY DEF Spares
<1>6. CASE u = to
  <2>1. ~Aside(k, u) /\ ~Aside(n, u)
    BY <1>0, <1>5, <1>6 DEF Aside
  <2> QED
    BY <2>1 DEF LeftAlone
<1>7. CASE u # to /\ k.stat[u] = "RUNNING"
  <2>1. u = k.cur /\ k.prio[u] \in Prio
    BY <1>0, <1>7
  <2>2. ~Aside(k, u) /\ ~Aside(n, u)
    BY <1>0, <1>5, <1>7, <2>1 DEF Aside
  <2> QED
    BY <2>2 DEF LeftAlone
<1>8. CASE u # to /\ k.stat[u] # "RUNNING"
  <2>1. /\ n.stat[u] = k.stat[u] /\ (\A l \in Lists : Linked(n, u, l) <=> Linked(k, u, l))
        /\ (Armed(n, u) <=> Armed(k, u)) /\ n.cur # u
    BY <1>5, <1>8
  <2> QED
    BY <1>0, <2>1 DEF LeftAlone, Aside
<1> QED
  BY <1>6, <1>7, <1>8

\* A thread that is not aside is RUNNING or READY, without a timer.
LEMMA NotAside ==
    ASSUME NEW k, NEW X, Good(k, X), NEW t \in Thread, ~Aside(k, t)
    PROVE  k.stat[t] \in {"RUNNING", "READY"} /\ ~Armed(k, t)
BY DEF Good, Flat, Aside

\* rt_schedule spares every thread that is aside.
LEMMA ScheduleSpares ==
    ASSUME NEW k, NEW X, Good(k, X), NEW n, n = rt_schedule(k)
    PROVE  Spares(k, n, {})
<1> DEFINE to == Head(k.q[HighestReady(k)])
<1>1. k \in Kstate /\ Flat(k, X) /\ k.cur \in Thread
  BY DEF Good, Kstate
<1>2. CASE ~MaySwitch(k)
  BY <1>2, SameSpares DEF rt_schedule
<1>3. CASE MaySwitch(k) /\ Stays(k)
  <2>1. PICK v : v = rt_schedule_remove_thread(k, k.cur)
    OBVIOUS
  <2>2. k.stat[k.cur] = "RUNNING" /\ n = SetStat(v, k.cur, "RUNNING")
    BY <1>3, <2>1 DEF rt_schedule, Stays, Enter, SetStat
  <2>3. Good(n, X) /\ n.cur = k.cur /\ \A u \in Thread : n.stat[u] = k.stat[u]
    BY <1>1, <2>1, <2>2, StayGood
  <2>4. ActsOn(k, v, k.cur) /\ v \in Kstate
    BY <1>1, <2>1, UnlinkActs, RemoveGood DEF Good
  <2>5. ActsOn(v, n, k.cur)
    BY <1>1, <2>2, <2>4, SetStatActs DEF Stat
  <2>6. Spares(k, n, {k.cur})
    BY <2>4, <2>5, ActsOnTrans, ActsOnSpares
  <2>7. LeftAlone(k, n, k.cur)
    BY <1>1, <2>2, <2>3 DEF LeftAlone, Aside
  <2> QED
    BY <2>6, <2>7 DEF Spares
<1>4. CASE MaySwitch(k) /\ ~Stays(k)
  <2>1. PICK p \in Prio : p = HighestReady(k) /\ p \in k.group /\ p \in Lists
    BY <1>1, <1>4, HighestReadySpec DEF MaySwitch, Kstate, Lists
  <2>2. k.q[p] # << >>
    BY <1>1, <2>1, NonEmpty DEF Flat
  <2>3. to \in Thread /\ Linked(k, to, p)
    BY <1>1, <2>1, <2>2, HeadLinked
  <2>4. n = Enter(Leave(k, to), to)
    BY <1>4 DEF rt_schedule
  <2> HIDE DEF to
  <2>5. to # k.cur /\ k.stat[to] = "READY" /\ Linked(k, to, k.prio[to])
    BY <1>1, <2>1, <2>3 DEF Flat
  <2>6. PICK v : v = Leave(k, to)
    OBVIOUS
  <2>7. PICK w : w = rt_schedule_remove_thread(v, to)
    OBVIOUS
  <2> QED
    BY <2>3, <2>4, <2>5, <2>6, <2>7, SwitchSpares
<1> QED
  BY <1>2, <1>3, <1>4

\* rt_tick_increase
LEMMA TickSpares ==
    ASSUME NEW k, NEW X, Good(k, X), NEW n, n = rt_tick_increase(k)
    PROVE  Spares(k, n, {})
<1>1. /\ k \in Kstate /\ k.cur \in Thread /\ k.slice \in [Thread -> 1 .. Slice]
      /\ k.tick \in Tick
  BY DEF Good, Kstate
<1>2. PICK now : now = (k.tick + 1) % TickMod
  OBVIOUS
<1>3. now \in Tick
  BY <1>1, <1>2, KernelAssumption DEF Tick
<1>4. PICK full : full = SetClock(k, now, k.cur, Slice)
  OBVIOUS
<1>5. PICK less : less = SetClock(k, now, k.cur, k.slice[k.cur] - 1)
  OBVIOUS
<1>6. n = IF k.slice[k.cur] = 1 THEN rt_schedule(full) ELSE less
  BY <1>1, <1>2, <1>4, <1>5 DEF rt_tick_increase, SetClock, Kstate
<1>7. Spares(k, full, {}) /\ Spares(k, less, {})
  <2>1. full.cur = k.cur /\ full.stat = k.stat /\ full.tlist = k.tlist /\ full.q = k.q
    BY <1>1, <1>4 DEF SetClock, Kstate
  <2>2. less.cur = k.cur /\ less.stat = k.stat /\ less.tlist = k.tlist /\ less.q = k.q
    BY <1>1, <1>5 DEF SetClock, Kstate
  <2> QED
    BY <2>1, <2>2, SameSpares
<1>8. Good(full, X)
  BY <1>1, <1>3, <1>4, KernelAssumption, SetClockGood
<1> QED
  BY <1>6, <1>7, <1>8, ScheduleSpares, SparesTrans

\* rt_schedule_insert_thread puts a thread into the scheduler's hands.
LEMMA InsertNotAside ==
    ASSUME NEW k, NEW X, Good(k, X), NEW t \in Thread, \A l \in Lists : ~Linked(k, t, l),
           NEW n, n = rt_schedule_insert_thread(k, t)
    PROVE  ~Aside(n, t)
<1>1. /\ k \in Kstate /\ (\A l \in Lists : IsInjective(k.q[l])) /\ k.stat \in [Thread -> Stat]
      /\ k.prio[t] \in Prio /\ Prio \subseteq Lists
  BY DEF Good, Flat, Kstate, Lists
<1>2. CASE t = k.cur
  <2>1. n.stat[t] = "RUNNING"
    BY <1>1, <1>2 DEF rt_schedule_insert_thread, Kstate
  <2> QED
    BY <2>1 DEF Aside
<1>3. CASE t # k.cur
  <2>1. \A u \in Thread : \A l \in Lists :
           Linked(n, u, l) <=> Linked(k, u, l) \/ (u = t /\ l = k.prio[t])
    BY <1>1, <1>3, InsertFields
  <2> QED
    BY <1>1, <2>1 DEF Aside
<1> QED
  BY <1>2, <1>3

\* rt_thread_resume
LEMMA ResumeActs ==
    ASSUME NEW k, NEW X, Good(k, X), NEW t \in Thread, k.stat[t] = "SUSPEND",
           NEW n, n = rt_thread_resume(k, t)
    PROVE  ActsOn(k, n, t) /\ ~Aside(n, t)
<1>1. PICK v : v = Unlink(k, t)
  OBVIOUS
<1>2. PICK w : w = TimerStop(v, t)
  OBVIOUS
<1>3. /\ Good(v, X)
      /\ \A l \in Lists : ~Linked(v, t, l)
  BY <1>1, SuspendedNotReady, UnlinkGood
<1>4. Good(w, X) /\ w.q = v.q
  BY <1>2, <1>3, TimerStopGood
<1>5. \A l \in Lists : ~Linked(w, t, l)
  BY <1>3, <1>4 DEF Linked
<1>6. n = rt_schedule_insert_thread(w, t)
  BY <1>1, <1>2 DEF rt_thread_resume, ResumeUnlink
<1>7. ActsOn(k, v, t)
  BY <1>1, UnlinkActs
<1>8. ActsOn(v, w, t)
  BY <1>2, <1>3, TimerStopActs
<1>9. ActsOn(w, n, t) /\ ~Aside(n, t)
  BY <1>4, <1>5, <1>6, InsertActs, InsertNotAside
<1> QED
  BY <1>7, <1>8, <1>9, ActsOnTrans

\* rt_thread_timeout
LEMMA TimeoutSpares ==
    ASSUME NEW k, NEW X, Good(k, X), NEW t \in Thread, k.stat[t] = "SUSPEND", ~Armed(k, t),
           NEW e, e = SetErr(k, t, "ETIMEOUT"),
           NEW v, v = Unlink(e, t),
           NEW w, w = rt_schedule_insert_thread(v, t),
           NEW n, n = rt_thread_timeout(k, t)
    PROVE  Spares(k, n, {t}) /\ ~Aside(n, t)
<1>1. Good(w, X) /\ k \in Kstate
  BY TimeoutGood DEF Good
<1>2. Good(e, X) /\ e.stat[t] = "SUSPEND"
  BY SetErrGood DEF Error, Good
<1>3. ActsOn(k, e, t)
  BY <1>1, SetStatActs DEF Error
<1>4. ActsOn(e, v, t)
  BY <1>2, UnlinkActs
<1>5. Good(v, X) /\ \A l \in Lists : ~Linked(v, t, l)
  BY <1>2, SuspendedNotReady, UnlinkGood
<1>6. ActsOn(v, w, t) /\ ~Aside(w, t)
  BY <1>5, InsertActs, InsertNotAside
<1>7. Spares(k, w, {t})
  BY <1>3, <1>4, <1>6, ActsOnTrans, ActsOnSpares
<1>8. n = rt_schedule(w)
  BY DEF rt_thread_timeout, SetErr
<1>9. Spares(w, n, {})
  BY <1>1, <1>8, ScheduleSpares
<1>10. Spares(k, n, {t})
  BY <1>7, <1>9, SparesMore, SparesTrans
<1>11. ~Aside(n, t)
  BY <1>6, <1>9 DEF Spares, LeftAlone
<1> QED
  BY <1>10, <1>11

\* One turn of the loop of rt_timer_check
LEMMA ExpireSpares ==
    ASSUME NEW k, NEW X, Good(k, X), k.tlist # << >>,
           NEW t, t = Head(k.tlist),
           NEW s, s = TimerStop(k, t),
           NEW n, n = rt_thread_timeout(s, t)
    PROVE  t \in Thread /\ Armed(k, t) /\ Spares(k, n, {t}) /\ ~Aside(n, t)
<1>1. k.tlist \in Seq(Thread) /\ Flat(k, X)
  BY DEF Good, Kstate
<1>2. t \in Thread /\ Armed(k, t)
  BY <1>1, ToSetType, EmptyList DEF Armed
<1>3. k.stat[t] = "SUSPEND"
  BY <1>1, <1>2 DEF Flat
<1>4. Good(s, X) /\ ~Armed(s, t) /\ s.stat = k.stat
  BY <1>2, TimerStopGood
<1>5. PICK e : e = SetErr(s, t, "ETIMEOUT")
  OBVIOUS
<1>6. PICK v : v = Unlink(e, t)
  OBVIOUS
<1>7. PICK w : w = rt_schedule_insert_thread(v, t)
  OBVIOUS
<1>8. Spares(s, n, {t}) /\ ~Aside(n, t)
  BY <1>2, <1>3, <1>4, <1>5, <1>6, <1>7, TimeoutSpares
<1>9. Spares(k, s, {t})
  BY <1>2, TimerStopActs, ActsOnSpares
<1> QED
  BY <1>2, <1>8, <1>9, SparesTrans

\* Thread t is in no list and its timer is not armed.
Apart(k, t) == ~Armed(k, t) /\ \A l \in Lists : ~Linked(k, t, l)

\* How rt_thread_suspend and rt_thread_exit take a thread away from the scheduler
LEMMA TakeOutGood ==
    ASSUME NEW k, NEW X, Good(k, X), NEW t \in Thread, t # Idle,
           NEW s, s = "SUSPEND" \/ (s = "CLOSE" /\ ~Armed(k, t)),
           NEW v, v = rt_schedule_remove_thread(k, t),
           NEW w, w = SetStat(v, t, s),
           NEW n, n = TimerStop(w, t)
    PROVE  /\ Good(n, X) /\ ActsOn(k, n, t) /\ Apart(n, t)
           /\ n.stat[t] = s /\ n.lock = k.lock
<1>1. /\ Good(v, Also(X, t))
      /\ \A l \in Lists : ~Linked(v, t, l)
      /\ \A u \in Thread : Armed(v, u) <=> Armed(k, u)
      /\ v.lock = k.lock
  BY RemoveGood
<1>2. s \in Stat /\ s # "READY" /\ s # "RUNNING" /\ (Armed(v, t) => s = "SUSPEND")
  BY <1>1 DEF Stat
<1>3. /\ Good(w, X)
      /\ w.q = v.q /\ w.lock = v.lock
      /\ \A u \in Thread : w.stat[u] = IF u = t THEN s ELSE v.stat[u]
  BY <1>1, <1>2, SetStatGood
<1>4. /\ Good(n, X)
      /\ \A u \in Thread : Armed(n, u) <=> Armed(w, u) /\ u # t
      /\ n.stat = w.stat /\ n.q = w.q /\ n.lock = w.lock
  BY <1>3, TimerStopGood
<1>5. Apart(n, t)
  BY <1>1, <1>3, <1>4 DEF Apart, Linked
<1>6. ActsOn(k, v, t)
  BY UnlinkActs
<1>7. ActsOn(v, w, t)
  BY <1>1, <1>2, SetStatActs DEF Good
<1>8. ActsOn(w, n, t)
  BY <1>3, TimerStopActs
<1> QED
  BY <1>1, <1>3, <1>4, <1>5, <1>6, <1>7, <1>8, ActsOnTrans

\* A closed thread is put at the head of the list of the idle thread.
Bury(k, t) == [k EXCEPT !.q[Defunct] = <<t>> \o @]

\* The defunct list takes a closed thread that is on no list.
LEMMA BuryGood ==
    ASSUME NEW k, NEW X, Good(k, X), NEW t \in Thread, k.stat[t] = "CLOSE",
           \A l \in Lists : ~Linked(k, t, l),
           NEW n, n = Bury(k, t)
    PROVE  /\ Good(n, X) /\ ActsOn(k, n, t)
           /\ n.cur = k.cur /\ n.stat = k.stat /\ n.tlist = k.tlist /\ n.lock = k.lock
<1>1. k \in Kstate /\ Flat(k, X) /\ k.q \in [Lists -> Seq(Thread)]
  BY DEF Good, Kstate
<1>2. /\ Prio \subseteq Lists /\ Obj \subseteq Lists /\ Defunct \in Lists
      /\ Defunct \notin Prio /\ Defunct \notin Obj /\ k.prio \in [Thread -> Prio]
  BY <1>1, KernelAssumption DEF Lists, Kstate
<1> DEFINE d == k.q[Defunct]
           s == <<t>> \o d
<1>3. d \in Seq(Thread) /\ IsInjective(d) /\ t \notin ToSet(d)
  BY <1>1, <1>2 DEF Flat, Linked
<1>4. n = [k EXCEPT !.q = [k.q EXCEPT ![Defunct] = s]]
  BY DEF Bury
<1>5. s \in Seq(Thread) /\ IsInjective(s) /\ ToSet(s) = ToSet(d) \cup {t}
  <2> HIDE DEF d
  <2> QED
    BY <1>3, PushList
<1> HIDE DEF s, d
<1>6. [k.q EXCEPT ![Defunct] = s] \in [Lists -> Seq(Thread)]
  BY <1>1, <1>5
<1>7. n \in Kstate
  BY <1>1, <1>4, <1>6 DEF Kstate
<1>8. /\ n.q = [k.q EXCEPT ![Defunct] = s]
      /\ n.cur = k.cur /\ n.stat = k.stat /\ n.prio = k.prio /\ n.group = k.group
      /\ n.tlist = k.tlist /\ n.lock = k.lock
  BY <1>1, <1>4 DEF Kstate
<1>9. \A l \in Lists : n.q[l] = IF l = Defunct THEN s ELSE k.q[l]
  BY <1>1, <1>2, <1>8
<1>10. /\ \A u \in Thread : \A l \in Lists :
             Linked(n, u, l) <=> Linked(k, u, l) \/ (u = t /\ l = Defunct)
       /\ \A u \in Thread : Armed(n, u) <=> Armed(k, u)
  BY <1>2, <1>5, <1>8, <1>9 DEF Linked, Armed, d
<1>11. \A l \in Lists : IsInjective(n.q[l])
  BY <1>1, <1>5, <1>9 DEF Flat
<1>12. \A u \in Thread : \A l, m \in Lists : Linked(n, u, l) /\ Linked(n, u, m) => l = m
  BY <1>1, <1>10 DEF Flat
<1>13. /\ \A u \in Thread : \A p \in Prio : Linked(n, u, p) <=> Linked(k, u, p)
       /\ \A u \in Thread : \A o \in Obj : Linked(n, u, o) <=> Linked(k, u, o)
  BY <1>2, <1>10
<1>14. \A u \in Thread : Linked(n, u, Defunct) => n.stat[u] = "CLOSE"
  BY <1>1, <1>2, <1>8, <1>10 DEF Flat
<1>15. Flat(n, X)
  BY <1>1, <1>2, <1>8, <1>10, <1>11, <1>12, <1>13, <1>14 DEF Flat
<1>16. ActsOn(k, n, t)
  BY <1>8, <1>10 DEF ActsOn
<1> QED
  BY <1>7, <1>8, <1>15, <1>16 DEF Good

\* A state that is consistent but for the threads of X is so but for more.
LEMMA GoodMore ==
    ASSUME NEW k, NEW X, NEW Y, X \subseteq Y, Good(k, X)
    PROVE  Good(k, Y)
BY DEF Good, Flat

\* A thread that is not started and not closed is on no list.
LEMMA InitApart ==
    ASSUME NEW k, NEW X, Good(k, X), NEW t \in Thread, k.stat[t] = "INIT"
    PROVE  Apart(k, t)
BY DEF Good, Flat, Apart, Lists

\* With the scheduler locked, neither rt_schedule nor the tick handler switches to
\* another thread.
LEMMA ScheduleLocked ==
    ASSUME NEW k, k.lock > 0, NEW n, n = rt_schedule(k)
    PROVE  n = k
BY DEF rt_schedule, MaySwitch

LEMMA TickLocked ==
    ASSUME NEW k, NEW X, Good(k, X), k.lock > 0, NEW n, n = rt_tick_increase(k)
    PROVE  n.cur = k.cur
BY DEF rt_tick_increase, rt_schedule, MaySwitch, Good, Kstate

LEMMA ExpireLocked ==
    ASSUME NEW k, NEW X, Good(k, X), k.lock > 0,
           NEW t, NEW s, s = TimerStop(k, t), NEW n, n = rt_thread_timeout(s, t)
    PROVE  n.cur = k.cur
<1>1. k \in Kstate
  BY DEF Good
<1>2. PICK w : w = rt_schedule_insert_thread(Unlink(SetErr(s, t, "ETIMEOUT"), t), t)
  OBVIOUS
<1>3. w.cur = k.cur /\ w.lock = k.lock
  BY <1>1, <1>2 DEF TimerStop, SetErr, Unlink, rt_schedule_insert_thread, Kstate
<1>4. n = rt_schedule(w)
  BY <1>2 DEF rt_thread_timeout, SetErr
<1> QED
  BY <1>3, <1>4 DEF rt_schedule, MaySwitch

-----------------------------------------------------------------------------
(* Ticks *)

\* The modulus adds or subtracts TickMod at most once.
LEMMA TickDiffIs ==
    ASSUME NEW x \in Tick, NEW y \in Tick
    PROVE  TickDiff(x, y) = IF y <= x THEN x - y ELSE x - y + TickMod
<1>1. TickMod \in Nat /\ TickMod >= 4 /\ x \in Int /\ y \in Int
      /\ 0 <= x /\ x < TickMod /\ 0 <= y /\ y < TickMod
  BY KernelAssumption DEF Tick
<1>2. CASE y <= x
  BY <1>1, <1>2 DEF TickDiff
<1>3. CASE x < y
  <2>1. PICK z \in Int : z = x - y + TickMod
    BY <1>1
  <2>2. z \in 0 .. TickMod - 1 /\ z - TickMod = x - y
    BY <1>1, <1>3, <2>1
  <2>3. (z - TickMod) % TickMod = z
    BY <1>1, <2>2
  <2> QED
    BY <1>1, <1>3, <2>1, <2>2, <2>3 DEF TickDiff
<1> QED
  BY <1>1, <1>2, <1>3

\* The difference of two ticks is a tick.
LEMMA TickDiffType ==
    ASSUME NEW x \in Tick, NEW y \in Tick
    PROVE  TickDiff(x, y) \in Tick /\ TickDiff(x, y) \in Int
<1>1. TickMod \in Nat /\ x \in 0 .. TickMod - 1 /\ y \in 0 .. TickMod - 1
  BY KernelAssumption DEF Tick
<1> QED
  BY <1>1, TickDiffIs DEF Tick

\* Half of the tick range and its double
LEMMA HalfTickSpec ==
    /\ HalfTick \in Nat /\ HalfTick >= 1 /\ 2 * HalfTick <= TickMod - 1
    /\ TickMod > 4 => HalfTick >= 2
BY KernelAssumption DEF HalfTick

\* A tick a legal delay ahead, and the tick before the next one
LEMMA TickPlus ==
    ASSUME NEW x \in Tick, NEW d \in 0 .. HalfTick - 1, NEW y, y = (x + d) % TickMod
    PROVE  /\ y \in Tick
           /\ y = IF x + d < TickMod THEN x + d ELSE x + d - TickMod
           /\ TickDiff(y, x) = d
<1>1. /\ TickMod \in Nat /\ x \in Int /\ d \in Int /\ 0 <= x /\ x < TickMod
      /\ 0 <= d /\ d < TickMod
  BY KernelAssumption, HalfTickSpec DEF Tick
<1>2. CASE x + d < TickMod
  <2>1. PICK z \in 0 .. TickMod - 1 : z = x + d
    BY <1>1, <1>2
  <2>2. z % TickMod = z
    BY <1>1
  <2>3. y = z /\ y \in Tick /\ x <= y
    BY <1>1, <2>1, <2>2 DEF Tick
  <2> QED
    BY <1>1, <1>2, <2>1, <2>3, TickDiffIs
<1>3. CASE x + d >= TickMod
  <2>1. PICK z \in 0 .. TickMod - 1 : z = x + d - TickMod
    BY <1>1, <1>3
  <2>2. (z + TickMod) % TickMod = z /\ z + TickMod = x + d
    BY <1>1, <2>1
  <2>3. y = z /\ y \in Tick /\ ~(x <= y)
    BY <1>1, <2>1, <2>2 DEF Tick
  <2> QED
    BY <1>1, <1>3, <2>1, <2>3, TickDiffIs
<1> QED
  BY <1>1, <1>2, <1>3

\* How rt_timer_start compares two timers that are both a legal delay ahead of the
\* tick: the difference of their expiry ticks tells which of them is later.
LEMMA LaterTick ==
    ASSUME NEW x \in Tick, NEW d \in 0 .. HalfTick - 1, NEW y, y = (x + d) % TickMod,
           NEW c \in Tick, TickDiff(c, x) < HalfTick
    PROVE  (TickDiff(c, y) # 0 /\ TickDiff(c, y) < HalfTick) <=> d < TickDiff(c, x)
<1>1. y \in Tick /\ y = IF x + d < TickMod THEN x + d ELSE x + d - TickMod
  BY TickPlus
<1>2. /\ TickDiff(c, y) = IF y <= c THEN c - y ELSE c - y + TickMod
      /\ TickDiff(c, x) = IF x <= c THEN c - x ELSE c - x + TickMod
  BY <1>1, TickDiffIs
<1>3. /\ HalfTick \in Nat /\ 2 * HalfTick <= TickMod - 1
      /\ TickMod \in Nat /\ x \in 0 .. TickMod - 1 /\ c \in 0 .. TickMod - 1
  BY HalfTickSpec, KernelAssumption DEF Tick
<1> QED
  BY <1>1, <1>2, <1>3

\* The tick before the next tick is this tick.
LEMMA TickBefore ==
    ASSUME NEW x \in Tick, NEW y, y = (x + 1) % TickMod
    PROVE  y \in Tick /\ TickDiff(y, 1) = x
<1>1. TickMod \in Nat /\ TickMod >= 4 /\ x \in Int /\ 0 <= x /\ x < TickMod /\ 1 \in Tick
  BY KernelAssumption DEF Tick
<1>2. CASE x + 1 < TickMod
  <2>1. y = x + 1
    BY <1>1, <1>2
  <2> QED
    BY <1>1, <1>2, <2>1, TickDiffIs DEF Tick
<1>3. CASE x + 1 = TickMod
  <2>1. y = 0
    BY <1>1, <1>3
  <2> QED
    BY <1>1, <1>3, <2>1, TickDiffIs DEF Tick
<1> QED
  BY <1>1, <1>2, <1>3

\* Seen from a tick later, a timer that is at least one tick ahead is one tick nearer.
LEMMA OneNearer ==
    ASSUME NEW x \in Tick, NEW b, b = TickDiff(x, 1), NEW c \in Tick, TickDiff(c, b) >= 1
    PROVE  TickDiff(c, x) = TickDiff(c, b) - 1
<1>1. TickMod \in Nat /\ TickMod >= 4 /\ 1 \in Tick
  BY KernelAssumption DEF Tick
<1>2. b = IF 1 <= x THEN x - 1 ELSE x - 1 + TickMod
  BY <1>1, TickDiffIs
<1>3. x \in 0 .. TickMod - 1 /\ c \in 0 .. TickMod - 1
  BY DEF Tick
<1>4. b \in Tick
  BY <1>1, <1>2, <1>3 DEF Tick
<1>5. /\ TickDiff(c, b) = IF b <= c THEN c - b ELSE c - b + TickMod
      /\ TickDiff(c, x) = IF x <= c THEN c - x ELSE c - x + TickMod
  BY <1>4, TickDiffIs
<1> QED
  BY <1>1, <1>2, <1>3, <1>5

\* A timer that rt_timer_check finds not expired, and that was not overdue before the
\* tick, expires after the tick.
LEMMA NotExpired ==
    ASSUME TickMod > 4, NEW x \in Tick, NEW b, b = TickDiff(x, 1), NEW c \in Tick,
           TickDiff(c, b) < HalfTick, ~(TickDiff(x, c) < HalfTick)
    PROVE  TickDiff(c, b) >= 2
<1>1. TickMod \in Nat /\ TickMod >= 4 /\ 1 \in Tick
  BY KernelAssumption DEF Tick
<1>2. b = IF 1 <= x THEN x - 1 ELSE x - 1 + TickMod
  BY <1>1, TickDiffIs
<1>3. x \in 0 .. TickMod - 1 /\ c \in 0 .. TickMod - 1
  BY DEF Tick
<1>4. b \in Tick
  BY <1>1, <1>2, <1>3 DEF Tick
<1>5. /\ TickDiff(c, b) = IF b <= c THEN c - b ELSE c - b + TickMod
      /\ TickDiff(x, c) = IF c <= x THEN x - c ELSE x - c + TickMod
  BY <1>4, TickDiffIs
<1>6. HalfTick \in Nat /\ HalfTick >= 2 /\ 2 * HalfTick <= TickMod - 1
  BY HalfTickSpec
<1> QED
  BY <1>1, <1>2, <1>3, <1>5, <1>6

-----------------------------------------------------------------------------
(* The timer list *)

\* Seen from tick b, every armed timer is a legal delay ahead and the timer list is
\* sorted by that distance.
DueInOrder(k, b) ==
    /\ \A t \in Thread : Armed(k, t) => TickDiff(k.timeout[t], b) < HalfTick
    /\ \A i, j \in 1 .. Len(k.tlist) : i < j =>
            TickDiff(k.timeout[k.tlist[i]], b) <= TickDiff(k.timeout[k.tlist[j]], b)

\* No timer is started or changed, and the clock stands still.
FewerTimers(k, n) ==
    /\ n.tick = k.tick
    /\ KeepsOrder(k.tlist, n.tlist)
    /\ \A t \in Thread : Armed(n, t) => Armed(k, t) /\ n.timeout[t] = k.timeout[t]

SameTimers(k, n) == n.tlist = k.tlist /\ n.timeout = k.timeout /\ n.tick = k.tick

LEMMA SameFewer ==
    ASSUME NEW k, NEW n, SameTimers(k, n)
    PROVE  FewerTimers(k, n)
BY KeepsOrderRefl DEF SameTimers, FewerTimers, Armed

LEMMA FewerTrans ==
    ASSUME NEW k, NEW m, NEW n, FewerTimers(k, m), FewerTimers(m, n)
    PROVE  FewerTimers(k, n)
<1>1. KeepsOrder(k.tlist, n.tlist)
  BY KeepsOrderTrans DEF FewerTimers
<1> QED
  BY <1>1 DEF FewerTimers

\* The threads of the timer list are the armed ones.
LEMMA ListedArmed ==
    ASSUME NEW k \in Kstate, NEW i \in 1 .. Len(k.tlist)
    PROVE  k.tlist[i] \in Thread /\ Armed(k, k.tlist[i])
<1>1. k.tlist \in Seq(Thread)
  BY DEF Kstate
<1> QED
  BY <1>1 DEF Armed, ToSet

\* Timers that are not touched stay in order.
LEMMA FewerInOrder ==
    ASSUME NEW k \in Kstate, NEW n \in Kstate, NEW b, DueInOrder(k, b), FewerTimers(k, n)
    PROVE  DueInOrder(n, b)
<1>1. ASSUME NEW i \in 1 .. Len(n.tlist), NEW j \in 1 .. Len(n.tlist), i < j
      PROVE  TickDiff(n.timeout[n.tlist[i]], b) <= TickDiff(n.timeout[n.tlist[j]], b)
  <2>1. PICK x \in 1 .. Len(k.tlist), y \in 1 .. Len(k.tlist) :
            x < y /\ k.tlist[x] = n.tlist[i] /\ k.tlist[y] = n.tlist[j]
    BY <1>1 DEF FewerTimers, KeepsOrder
  <2>2. TickDiff(k.timeout[k.tlist[x]], b) <= TickDiff(k.timeout[k.tlist[y]], b)
    BY <2>1 DEF DueInOrder
  <2>3. /\ n.timeout[n.tlist[i]] = k.timeout[k.tlist[x]]
        /\ n.timeout[n.tlist[j]] = k.timeout[k.tlist[y]]
    BY <2>1, ListedArmed DEF FewerTimers
  <2> QED
    BY <2>2, <2>3
<1>2. \A t \in Thread : Armed(n, t) => TickDiff(n.timeout[t], b) < HalfTick
  BY DEF DueInOrder, FewerTimers
<1> QED
  BY <1>1, <1>2 DEF DueInOrder

\* _rt_timer_remove takes the timer of one thread away.
LEMMA TimerStopFewer ==
    ASSUME NEW k, NEW X, Good(k, X), NEW t \in Thread, NEW n, n = TimerStop(k, t)
    PROVE  FewerTimers(k, n)
<1>1. k.tlist \in Seq(Thread) /\ k.timeout \in [Thread -> Tick] /\ k \in Kstate
  BY DEF Good, Kstate
<1>2. \A u \in Thread : Armed(n, u) <=> Armed(k, u) /\ u # t
  BY TimerStopGood
<1>3. /\ n.tick = k.tick /\ n.tlist = RemoveFirst(k.tlist, t)
      /\ \A u \in Thread : u # t => n.timeout[u] = k.timeout[u]
  BY <1>1 DEF TimerStop, Kstate
<1> QED
  BY <1>1, <1>2, <1>3, RemoveFirstOrder DEF FewerTimers

\* The functions of scheduler.c leave the timers alone.
LEMMA ReadyTableSameTimers ==
    ASSUME NEW k \in Kstate, NEW t
    PROVE  /\ SameTimers(k, Unlink(k, t))
           /\ SameTimers(k, rt_schedule_insert_thread(k, t))
           /\ SameTimers(k, rt_schedule_remove_thread(k, t))
BY DEF SameTimers, Unlink, rt_schedule_insert_thread, rt_schedule_remove_thread, Kstate

LEMMA ScheduleSameTimers ==
    ASSUME NEW k \in Kstate, NEW n, n = rt_schedule(k)
    PROVE  SameTimers(k, n)
<1>1. \A r \in Kstate : \A to : SameTimers(r, Enter(r, to))
  BY DEF Enter, rt_schedule_remove_thread, Unlink, SameTimers, Kstate
<1>2. \A to : SameTimers(k, Leave(k, to))
  BY DEF Leave, rt_schedule_insert_thread, SameTimers, Kstate
<1>3. \A to : SameTimers(Leave(k, to), Enter(Leave(k, to), to))
  BY DEF Leave, rt_schedule_insert_thread, Enter, rt_schedule_remove_thread, Unlink,
         SameTimers, Kstate
<1> QED
  BY <1>1, <1>2, <1>3 DEF rt_schedule, SameTimers

\* rt_tick_increase only advances the clock.
LEMMA TickTimers ==
    ASSUME NEW k, NEW X, Good(k, X), NEW n, n = rt_tick_increase(k)
    PROVE  n.tlist = k.tlist /\ n.timeout = k.timeout /\ n.tick = (k.tick + 1) % TickMod
<1>1. /\ k \in Kstate /\ k.cur \in Thread /\ k.slice \in [Thread -> 1 .. Slice]
      /\ k.tick \in Tick /\ k.tick \in Nat /\ Slice \in 1 .. Slice
  BY KernelAssumption DEF Good, Kstate, Tick
<1>2. PICK now : now = (k.tick + 1) % TickMod
  OBVIOUS
<1>3. now \in Tick
  BY <1>1, <1>2, TickBefore
<1>4. PICK full : full = SetClock(k, now, k.cur, Slice)
  OBVIOUS
<1>5. PICK less : less = SetClock(k, now, k.cur, k.slice[k.cur] - 1)
  OBVIOUS
<1>6. n = IF k.slice[k.cur] = 1 THEN rt_schedule(full) ELSE less
  BY <1>1, <1>2, <1>4, <1>5 DEF rt_tick_increase, SetClock, Kstate
<1>7. full \in Kstate
  BY <1>1, <1>3, <1>4, SetClockGood DEF Good
<1>8. SameTimers(full, rt_schedule(full))
  BY <1>7, ScheduleSameTimers
<1>9. /\ full.tlist = k.tlist /\ full.timeout = k.timeout /\ full.tick = now
      /\ less.tlist = k.tlist /\ less.timeout = k.timeout /\ less.tick = now
  BY <1>1, <1>4, <1>5 DEF SetClock, Kstate
<1> QED
  BY <1>2, <1>6, <1>8, <1>9 DEF SameTimers

\* rt_timer_start keeps the timer list sorted, across a wrap of rt_tick.
LEMMA TimerStartInOrder ==
    ASSUME NEW k, NEW X, Good(k, X), NEW t \in Thread, k.stat[t] = "SUSPEND",
           NEW ticks \in 0 .. HalfTick - 1, DueInOrder(k, k.tick),
           NEW n, n = TimerStart(k, t, ticks)
    PROVE  DueInOrder(n, n.tick)
<1>1. PICK v : v = TimerStop(k, t)
  OBVIOUS
<1>2. PICK at : at = (k.tick + ticks) % TickMod
  OBVIOUS
<1>3. PICK i : i = TimerPosition(v, at)
  OBVIOUS
<1>4. /\ Good(v, X) /\ v.tick = k.tick /\ FewerTimers(k, v) /\ ~Armed(v, t)
  BY <1>1, TimerStopGood, TimerStopFewer
<1>5. /\ k \in Kstate /\ v \in Kstate /\ v.tlist \in Seq(Thread) /\ k.tick \in Tick
      /\ v.timeout \in [Thread -> Tick] /\ Len(v.tlist) \in Nat
  BY <1>4 DEF Good, Kstate
<1>6. DueInOrder(v, k.tick)
  BY <1>4, <1>5, FewerInOrder
<1>7. at \in Tick /\ TickDiff(at, k.tick) = ticks
  BY <1>2, <1>5, TickPlus
<1>8. /\ n.tick = k.tick /\ n.tlist = InsertAt(v.tlist, i, t)
      /\ n.timeout = [v.timeout EXCEPT ![t] = at]
  BY <1>1, <1>2, <1>3, <1>4, <1>5 DEF TimerStart, Kstate
<1> DEFINE w == [u \in Thread |-> TickDiff(n.timeout[u], k.tick)]
<1>9. /\ n.timeout \in [Thread -> Tick] /\ n.timeout[t] = at
      /\ \A u \in Thread : u # t => n.timeout[u] = v.timeout[u]
  BY <1>5, <1>7, <1>8
<1>10. w \in [Thread -> Int] /\ w[t] = ticks
  <2>1. \A u \in Thread : TickDiff(n.timeout[u], k.tick) \in Int
    BY <1>5, <1>9, TickDiffType
  <2> QED
    BY <1>7, <1>9, <2>1
<1>11. \A j \in 1 .. Len(v.tlist) :
            /\ v.tlist[j] \in Thread /\ Armed(v, v.tlist[j]) /\ v.tlist[j] # t
            /\ w[v.tlist[j]] = TickDiff(v.timeout[v.tlist[j]], k.tick)
  BY <1>4, <1>5, <1>9, ListedArmed
<1>12. Rising(v.tlist, w)
  BY <1>6, <1>11 DEF Rising, DueInOrder
<1>13. \A j \in 1 .. Len(v.tlist) :
            (/\ TickDiff(v.timeout[v.tlist[j]], at) # 0
             /\ TickDiff(v.timeout[v.tlist[j]], at) < HalfTick)
            <=> w[t] < w[v.tlist[j]]
  <2> SUFFICES ASSUME NEW j \in 1 .. Len(v.tlist)
               PROVE  (/\ TickDiff(v.timeout[v.tlist[j]], at) # 0
                       /\ TickDiff(v.timeout[v.tlist[j]], at) < HalfTick)
                      <=> w[t] < w[v.tlist[j]]
    OBVIOUS
  <2>1. PICK c \in Tick : c = v.timeout[v.tlist[j]]
    BY <1>5, <1>11
  <2>2. TickDiff(c, k.tick) < HalfTick /\ w[v.tlist[j]] = TickDiff(c, k.tick)
    BY <1>6, <1>11, <2>1 DEF DueInOrder
  <2>3. (TickDiff(c, at) # 0 /\ TickDiff(c, at) < HalfTick) <=> ticks < TickDiff(c, k.tick)
    BY <1>2, <1>5, <2>2, LaterTick
  <2> QED
    BY <1>10, <2>1, <2>2, <2>3
<1>14. PICK J : J = {j \in 1 .. Len(v.tlist) :
                        /\ TickDiff(v.timeout[v.tlist[j]], at) # 0
                        /\ TickDiff(v.timeout[v.tlist[j]], at) < HalfTick}
  OBVIOUS
<1>15. /\ \A j : j \in J <=> j \in 1 .. Len(v.tlist) /\ w[t] < w[v.tlist[j]]
       /\ J \subseteq Nat
  BY <1>5, <1>13, <1>14
<1>16. /\ J = {} => i = Len(v.tlist) + 1
       /\ J # {} => i \in J /\ \A j \in J : i <= j
  <2>1. i = IF J = {} THEN Len(v.tlist) + 1 ELSE CHOOSE x \in J : \A j \in J : x <= j
    BY ONLY <1>3, <1>14 DEF TimerPosition
  <2> QED
    BY ONLY <1>15, <2>1, LeastSpec
<1> HIDE DEF w
<1>17. /\ i \in 1 .. Len(v.tlist) + 1
       /\ \A j \in 1 .. Len(v.tlist) : j < i => w[v.tlist[j]] <= w[t]
       /\ \A j \in 1 .. Len(v.tlist) : i <= j => w[t] <= w[v.tlist[j]]
  BY ONLY <1>5, <1>10, <1>12, <1>15, <1>16, t \in Thread, PositionSpec
<1>18. Rising(n.tlist, w)
  BY ONLY <1>5, <1>8, <1>10, <1>12, <1>17, t \in Thread, InsertRising, ZenonT(60)
<1>19. n \in Kstate /\ \A u \in Thread : Armed(n, u) <=> Armed(k, u) \/ u = t
  <2>1. ticks \in Nat
    BY HalfTickSpec
  <2> QED
    BY <1>1, <2>1, TimerStartGood DEF Good
<1>20. \A u \in Thread : Armed(n, u) => TickDiff(n.timeout[u], n.tick) < HalfTick
  <2>1. ticks < HalfTick
    BY HalfTickSpec
  <2>2. \A u \in Thread : u # t /\ Armed(k, u) => Armed(v, u)
    BY <1>1, TimerStopGood
  <2>3. \A u \in Thread : u # t /\ Armed(n, u) => TickDiff(n.timeout[u], n.tick) < HalfTick
    BY <1>6, <1>8, <1>9, <1>19, <2>2 DEF DueInOrder
  <2> QED
    BY <1>7, <1>8, <1>9, <2>1, <2>3
<1>21. ASSUME NEW x \in 1 .. Len(n.tlist), NEW y \in 1 .. Len(n.tlist), x < y
       PROVE  TickDiff(n.timeout[n.tlist[x]], n.tick) <= TickDiff(n.timeout[n.tlist[y]], n.tick)
  <2>1. n.tlist[x] \in Thread /\ n.tlist[y] \in Thread
    BY <1>19, ListedArmed
  <2>2. w[n.tlist[x]] <= w[n.tlist[y]]
    BY <1>18, <1>21 DEF Rising
  <2> QED
    BY <1>8, <2>1, <2>2 DEF w
<1> QED
  BY <1>20, <1>21 DEF DueInOrder

\* When rt_timer_check finds the first timer not expired, no timer is overdue and the
\* list is sorted as seen from the new tick too.
LEMMA CheckedInOrder ==
    ASSUME TickMod > 4, NEW k, NEW X, Good(k, X), DueInOrder(k, TickDiff(k.tick, 1)),
           ~HeadExpired(k)
    PROVE  DueInOrder(k, k.tick)
<1>1. PICK b : b = TickDiff(k.tick, 1)
  OBVIOUS
<1>2. /\ k \in Kstate /\ k.tick \in Tick /\ k.tlist \in Seq(Thread) /\ Len(k.tlist) \in Nat
      /\ b \in Tick /\ \A u \in Thread : k.timeout[u] \in Tick
  <2>1. k \in Kstate /\ k.tick \in Tick /\ k.tlist \in Seq(Thread)
    BY DEF Good, Kstate
  <2>2. Len(k.tlist) \in Nat /\ \A u \in Thread : k.timeout[u] \in Tick
    BY <2>1 DEF Kstate
  <2>3. 1 \in Tick
    BY KernelAssumption DEF Tick
  <2> QED
    BY <1>1, <2>1, <2>2, <2>3, TickDiffType
<1>3. ASSUME NEW i \in 1 .. Len(k.tlist)
      PROVE  /\ TickDiff(k.timeout[k.tlist[i]], b) >= 2
             /\ TickDiff(k.timeout[k.tlist[i]], k.tick) = TickDiff(k.timeout[k.tlist[i]], b) - 1
  <2>1. 1 \in 1 .. Len(k.tlist) /\ k.tlist # << >> /\ Head(k.tlist) = k.tlist[1]
    BY <1>2, <1>3
  <2>2. PICK c \in Tick : c = k.timeout[k.tlist[1]]
    BY <1>2, <2>1, ListedArmed
  <2>3. PICK e \in Tick : e = k.timeout[k.tlist[i]]
    BY <1>2, <1>3, ListedArmed
  <2>4. TickDiff(c, b) < HalfTick /\ ~(TickDiff(k.tick, c) < HalfTick)
    BY <1>1, <1>2, <2>1, <2>2, ListedArmed DEF DueInOrder, HeadExpired
  <2>5. TickDiff(c, b) >= 2
    BY <1>1, <1>2, <2>4, NotExpired
  <2>6. i = 1 \/ TickDiff(c, b) <= TickDiff(e, b)
    BY <1>1, <1>3, <2>1, <2>2, <2>3 DEF DueInOrder
  <2>7. TickDiff(c, b) \in Int /\ TickDiff(e, b) \in Int
    BY <1>2, TickDiffType
  <2>8. TickDiff(e, b) >= 2 /\ TickDiff(e, b) >= 1
    BY <2>2, <2>3, <2>5, <2>6, <2>7
  <2>9. TickDiff(e, k.tick) = TickDiff(e, b) - 1
    BY <1>1, <1>2, <2>8, OneNearer
  <2> QED
    BY <2>3, <2>8, <2>9
<1>4. \A i \in 1 .. Len(k.tlist) : TickDiff(k.timeout[k.tlist[i]], b) \in Int
  BY <1>2, ListedArmed, TickDiffType
<1>5. ASSUME NEW t \in Thread, Armed(k, t)
      PROVE  TickDiff(k.timeout[t], k.tick) < HalfTick
  <2>1. PICK i \in 1 .. Len(k.tlist) : k.tlist[i] = t
    BY <1>2, <1>5 DEF Armed, ToSet
  <2>2. TickDiff(k.timeout[t], b) < HalfTick
    BY <1>1, <1>5 DEF DueInOrder
  <2> QED
    BY <1>3, <1>4, <2>1, <2>2, HalfTickSpec
<1>6. ASSUME NEW i \in 1 .. Len(k.tlist), NEW j \in 1 .. Len(k.tlist), i < j
      PROVE  TickDiff(k.timeout[k.tlist[i]], k.tick) <= TickDiff(k.timeout[k.tlist[j]], k.tick)
  <2>1. TickDiff(k.timeout[k.tlist[i]], b) <= TickDiff(k.timeout[k.tlist[j]], b)
    BY <1>1, <1>6 DEF DueInOrder
  <2> QED
    BY <1>3, <1>4, <2>1
<1> QED
  BY <1>5, <1>6 DEF DueInOrder

\* A resumed thread loses its timer.
LEMMA ResumeFewer ==
    ASSUME NEW k, NEW X, Good(k, X), NEW t \in Thread, k.stat[t] = "SUSPEND",
           NEW n, n = rt_thread_resume(k, t)
    PROVE  FewerTimers(k, n)
<1>1. PICK v : v = Unlink(k, t)
  OBVIOUS
<1>2. PICK w : w = TimerStop(v, t)
  OBVIOUS
<1>3. Good(v, X) /\ FewerTimers(k, v)
  <2>1. Good(v, X)
    BY <1>1, SuspendedNotReady, UnlinkGood
  <2> QED
    BY <1>1, <2>1, ReadyTableSameTimers, SameFewer DEF Good
<1>4. Good(w, X) /\ FewerTimers(v, w)
  BY <1>2, <1>3, TimerStopGood, TimerStopFewer
<1>5. n = rt_schedule_insert_thread(w, t)
  BY <1>1, <1>2 DEF rt_thread_resume, ResumeUnlink
<1>6. FewerTimers(w, n)
  BY <1>4, <1>5, ReadyTableSameTimers, SameFewer DEF Good
<1> QED
  BY <1>3, <1>4, <1>6, FewerTrans

\* A timer that expires is taken off the list; its thread is made ready.
LEMMA ExpireFewer ==
    ASSUME NEW k, NEW X, Good(k, X), k.tlist # << >>,
           NEW t, t = Head(k.tlist),
           NEW s, s = TimerStop(k, t),
           NEW n, n = rt_thread_timeout(s, t)
    PROVE  FewerTimers(k, n)
<1>1. k.tlist \in Seq(Thread) /\ Flat(k, X)
  BY DEF Good, Kstate
<1>2. t \in Thread /\ Armed(k, t)
  BY <1>1, ToSetType, EmptyList DEF Armed
<1>3. /\ Good(s, X) /\ FewerTimers(k, s) /\ s.stat[t] = "SUSPEND" /\ ~Armed(s, t)
  BY <1>1, <1>2, TimerStopGood, TimerStopFewer, SMTT(30) DEF Flat
<1>4. PICK e : e = SetErr(s, t, "ETIMEOUT")
  OBVIOUS
<1>5. PICK v : v = Unlink(e, t)
  OBVIOUS
<1>6. PICK w : w = rt_schedule_insert_thread(v, t)
  OBVIOUS
<1>7. Good(e, X) /\ e.stat = s.stat /\ e.tlist = s.tlist /\ SameTimers(s, e)
  <2>1. Good(e, X) /\ e.stat = s.stat /\ e.tlist = s.tlist
    BY <1>2, <1>3, <1>4, SetErrGood, SMTT(30) DEF Error
  <2>2. e.timeout = s.timeout /\ e.tick = s.tick
    BY <1>3, <1>4 DEF Good, Kstate, SetErr
  <2> QED
    BY <2>1, <2>2 DEF SameTimers
<1>8. /\ Good(v, X) /\ SameTimers(e, v)
      /\ (\A l \in Lists : ~Linked(v, t, l)) /\ ~Armed(v, t) /\ v.stat = e.stat
  <2>1. /\ Good(v, X) /\ (\A l \in Lists : ~Linked(v, t, l)) /\ v.stat = e.stat
        /\ (Armed(v, t) <=> Armed(e, t))
    BY <1>2, <1>3, <1>5, <1>7, SuspendedNotReady, UnlinkGood
  <2> QED
    BY <1>3, <1>5, <1>7, <2>1, ReadyTableSameTimers DEF Good, Armed
<1>9. Good(w, X) /\ SameTimers(v, w)
  BY <1>2, <1>3, <1>6, <1>7, <1>8, InsertGood, ReadyTableSameTimers DEF Good
<1>10. n = rt_schedule(w)
  BY <1>4, <1>5, <1>6 DEF rt_thread_timeout, SetErr
<1>11. SameTimers(w, n)
  BY <1>9, <1>10, ScheduleSameTimers DEF Good
<1>12. SameTimers(s, n)
  BY <1>7, <1>8, <1>9, <1>11 DEF SameTimers
<1> QED
  BY <1>3, <1>12, SameFewer, FewerTrans

-----------------------------------------------------------------------------
(* The state in which the scheduler starts *)

\* The live threads and the priorities that the scheduler starts with
MayBoot(live, first) == live \subseteq Thread /\ first \in [Thread -> Prio]

\* The ready lists built by rt_thread_startup hold each live thread once, at
\* its own priority.
LEMMA ReadyTableLists ==
    ASSUME NEW live, NEW first, MayBoot(live, first), NEW r, r = ReadyTableOf(live, first)
    PROVE  /\ r.q \in [Lists -> Seq(Thread)]
           /\ \A l \in Lists : IsInjective(r.q[l])
           /\ \A t \in Thread : \A l \in Lists :
                Linked(r, t, l) <=> t \in live /\ first[t] = l
<1>0. live \subseteq Thread /\ first \in [Thread -> Prio]
  BY DEF MayBoot
<1> DEFINE S(l) == {t \in live : first[t] = l}
<1>1. r.q = [l \in Lists |-> SetToSeq(S(l))]
  BY DEF ReadyTableOf
<1>2. ASSUME NEW l \in Lists
      PROVE  /\ SetToSeq(S(l)) \in Seq(Thread)
             /\ IsInjective(SetToSeq(S(l)))
             /\ ToSet(SetToSeq(S(l))) = S(l)
  <2>1. IsFiniteSet(S(l))
    BY <1>0, KernelAssumption, FS_Subset
  <2>2. /\ SetToSeq(S(l)) \in Seq(S(l))
        /\ IsInjective(SetToSeq(S(l)))
        /\ ToSet(SetToSeq(S(l))) = S(l)
    BY <2>1, SetToSeqList
  <2>3. S(l) \subseteq Thread
    BY <1>0
  <2> HIDE DEF S
  <2> QED
    BY <2>2, <2>3
<1>3. \A l \in Lists : r.q[l] = SetToSeq(S(l))
  BY <1>1
<1>4. \A t \in Thread : \A l \in Lists : t \in S(l) <=> t \in live /\ first[t] = l
  OBVIOUS
<1> HIDE DEF S
<1>5. r.q \in [Lists -> Seq(Thread)]
  BY <1>1, <1>2
<1> QED
  BY <1>2, <1>3, <1>4, <1>5 DEF Linked

\* Before the first switch the kernel state has the right type.
LEMMA ReadyTableFields ==
    ASSUME NEW live, NEW first, MayBoot(live, first), NEW r, r = ReadyTableOf(live, first)
    PROVE  /\ r \in Kstate
           /\ \A t \in Thread : /\ t \in live => r.stat[t] = "READY"
                                /\ t \notin live => r.stat[t] = "CLOSE"
           /\ r.prio = first
           /\ r.group \in SUBSET Prio
           /\ \A p \in Prio : p \in r.group <=> \E t \in Thread : t \in live /\ first[t] = p
           /\ r.lock = 0 /\ r.tlist = << >>
<1>1. r.q \in [Lists -> Seq(Thread)]
  BY ReadyTableLists
<1>2. live \subseteq Thread /\ first \in [Thread -> Prio] /\ Idle \in Thread
  BY KernelAssumption DEF MayBoot
<1>3. /\ [t \in Thread |-> IF t \in live THEN "READY" ELSE "CLOSE"] \in [Thread -> Stat]
      /\ [t \in Thread |-> "EOK"] \in [Thread -> Error]
      /\ [t \in Thread |-> Slice] \in [Thread -> 1 .. Slice]
      /\ [t \in Thread |-> 0] \in [Thread -> Tick] /\ 0 \in Tick
      /\ << >> \in Seq(Thread)
  BY KernelAssumption DEF Stat, Error, Tick
<1>4. {first[t] : t \in live} \in SUBSET Prio
  BY <1>2
<1>5. r \in Kstate
  BY <1>1, <1>2, <1>3, <1>4 DEF ReadyTableOf, Kstate
<1> QED
  BY <1>2, <1>4, <1>5 DEF ReadyTableOf

\* rt_system_scheduler_start: the first thread runs, the rest is ready.
LEMMA BootGood ==
    ASSUME NEW live, NEW first, MayBoot(live, first), Idle \in live,
           NEW n, n = Booted(live, first)
    PROVE  /\ Good(n, {})
           /\ n.stat[n.cur] = "RUNNING" /\ n.lock = 0 /\ n.tlist = << >>
           /\ \A u \in Thread : n.stat[u] # "SUSPEND"
           /\ \A u \in Thread : \A o \in Obj : ~Linked(n, u, o)
           /\ \A u \in Thread : ~Linked(n, u, Defunct)
           /\ \A u \in Thread : n.stat[u] = "CLOSE" <=> u \notin live
           /\ n.prio = first /\ Urgent(n, {})
<1>31. live \subseteq Thread /\ first \in [Thread -> Prio]
  BY DEF MayBoot
<1>0. PICK r : r = ReadyTableOf(live, first)
  OBVIOUS
<1>1. /\ r \in Kstate
      /\ \A t \in Thread : r.stat[t] = IF t \in live THEN "READY" ELSE "CLOSE"
      /\ r.prio = first
      /\ r.group \in SUBSET Prio
      /\ \A p \in Prio : p \in r.group <=> \E t \in Thread : t \in live /\ first[t] = p
      /\ r.lock = 0 /\ r.tlist = << >>
  BY <1>0, ReadyTableFields
<1>2. /\ \A l \in Lists : IsInjective(r.q[l])
      /\ \A t \in Thread : \A l \in Lists :
            Linked(r, t, l) <=> t \in live /\ first[t] = l
  BY <1>0, ReadyTableLists
<1>3. /\ Prio \subseteq Lists /\ Obj \subseteq Lists /\ Defunct \in Lists
      /\ Obj \cap Prio = {} /\ Defunct \notin Prio /\ Idle \in Thread
      /\ first \in [Thread -> Prio]
  BY <1>31, KernelAssumption DEF Lists
<1> DEFINE h == HighestReady(r)
           to == Head(r.q[h])
<1>4. h \in r.group /\ h \in Prio /\ \A p \in r.group : h <= p
  <2>1. r.group # {} /\ r.group \subseteq Prio
    <3>1. Idle \in live /\ live \subseteq Thread
      BY <1>31
    <3> QED
      BY <1>1, <1>3, <3>1
  <2> QED
    BY <1>1, <2>1, HighestReadySpec
<1> HIDE DEF h
<1>5. \E t \in Thread : Linked(r, t, h)
  BY <1>1, <1>2, <1>3, <1>4
<1>6. to \in Thread /\ Linked(r, to, h)
  BY <1>1, <1>3, <1>4, <1>5, NonEmpty, HeadLinked
<1> HIDE DEF to
<1>7. to \in live /\ first[to] = h
  BY <1>2, <1>3, <1>4, <1>6
<1>8. PICK m : m = [r EXCEPT !.cur = to]
  OBVIOUS
<1>9. /\ m \in Kstate
      /\ m.cur = to /\ m.stat = r.stat /\ m.prio = r.prio /\ m.q = r.q
      /\ m.group = r.group /\ m.tlist = r.tlist /\ m.lock = r.lock
  BY <1>1, <1>6, <1>8 DEF Kstate
<1>10. PICK v : v = rt_schedule_remove_thread(m, to)
  OBVIOUS
<1>11. /\ v \in Kstate
       /\ \A l \in Lists : IsInjective(v.q[l])
       /\ \A u \in Thread : \A l \in Lists : Linked(v, u, l) <=> Linked(m, u, l) /\ u # to
       /\ \A p \in Prio :
            p \in v.group <=> /\ p \in m.group
                              /\ p = m.prio[to] => \E u \in Thread : Linked(v, u, p)
       /\ v.cur = m.cur /\ v.stat = m.stat /\ v.prio = m.prio /\ v.lock = m.lock
       /\ v.tlist = m.tlist
  <2>1. \A l \in Lists : IsInjective(m.q[l])
    BY <1>2, <1>9
  <2> QED
    BY <1>6, <1>9, <1>10, <2>1, RemoveFields
<1>12. n = SetStat(v, to, "RUNNING")
  BY <1>0, <1>8, <1>10 DEF Booted, Enter, SetStat, to, h
<1>13. \A u \in Thread : \A l \in Lists :
          Linked(v, u, l) <=> u \in live /\ first[u] = l /\ u # to
  BY <1>2, <1>9, <1>11 DEF Linked
<1>14. /\ \A u \in Thread : v.stat[u] = IF u \in live THEN "READY" ELSE "CLOSE"
       /\ v.cur = to /\ v.prio = first /\ v.lock = 0 /\ v.tlist = << >>
  BY <1>1, <1>9, <1>11
<1>15. \A p \in Prio : p \in v.group <=> \E u \in Thread : Linked(v, u, p)
  <2>1. \A p \in Prio : p \in m.group <=> \E u \in Thread : u \in live /\ first[u] = p
    BY <1>1, <1>9
  <2>2. m.prio[to] = h
    BY <1>1, <1>7, <1>9
  <2>3. \A p \in Prio : p # h =>
           ((\E u \in Thread : u \in live /\ first[u] = p)
                <=> \E u \in Thread : Linked(v, u, p))
    BY <1>3, <1>7, <1>13
  <2>4. \A p \in Prio : (\E u \in Thread : Linked(v, u, p)) => p \in m.group
    BY <1>3, <1>13, <2>1
  <2> QED
    BY <1>11, <2>1, <2>2, <2>3, <2>4
<1>16. /\ n \in Kstate
       /\ n.stat = [v.stat EXCEPT ![to] = "RUNNING"]
       /\ n.cur = v.cur /\ n.prio = v.prio /\ n.q = v.q /\ n.group = v.group
       /\ n.tlist = v.tlist /\ n.lock = v.lock
  <2>1. "RUNNING" \in Stat
    BY DEF Stat
  <2> QED
    BY <1>6, <1>11, <1>12, <2>1, SetStatFields
<1>17. \A u \in Thread : n.stat[u] = IF u = to THEN "RUNNING"
                                     ELSE IF u \in live THEN "READY" ELSE "CLOSE"
  BY <1>6, <1>11, <1>14, <1>16 DEF Kstate
<1>18. \A u \in Thread : \A l \in Lists : Linked(n, u, l) <=> Linked(v, u, l)
  BY <1>16 DEF Linked
<1>19. \A u \in Thread : ~Armed(n, u)
  BY <1>14, <1>16 DEF Armed, ToSet
<1>20. \A l \in Lists : IsInjective(n.q[l])
  BY <1>11, <1>16
<1>21. IsInjective(n.tlist)
  BY <1>14, <1>16 DEF IsInjective
<1>22. \A u \in Thread : \A o \in Obj : ~Linked(n, u, o)
  BY <1>3, <1>13, <1>18
<1>23. \A u \in Thread : ~Linked(n, u, Defunct)
  BY <1>3, <1>13, <1>18
<1>24. /\ \A u \in Thread : n.stat[u] = "READY" => Linked(n, u, n.prio[u])
       /\ \A u \in Thread : \A p \in Prio :
            Linked(n, u, p) => n.stat[u] = "READY" /\ n.prio[u] = p
       /\ \A p \in Prio : p \in n.group <=> \E u \in Thread : Linked(n, u, p)
  BY <1>3, <1>13, <1>14, <1>15, <1>16, <1>17, <1>18
<1>25. \A u \in Thread : \A l, j \in Lists : Linked(n, u, l) /\ Linked(n, u, j) => l = j
  BY <1>13, <1>18
<1>26. /\ n.cur = to /\ n.stat[to] = "RUNNING"
       /\ \A u \in Thread : n.stat[u] = "RUNNING" => u = to
       /\ n.stat[Idle] \in {"READY", "RUNNING"}
  BY <1>3, <1>6, <1>14, <1>16, <1>17
<1>27. Flat(n, {})
  BY <1>19, <1>20, <1>21, <1>22, <1>23, <1>24, <1>25, <1>26 DEF Flat
<1>28. Urgent(n, {})
  <2>1. \A u \in live : first[u] \in r.group
    BY <1>1, <1>31
  <2>2. \A u \in Thread : n.stat[u] = "READY" => u \in live
    BY <1>17
  <2>3. n.prio = first /\ n.prio[n.cur] = h
    BY <1>7, <1>14, <1>16
  <2> QED
    BY <1>4, <2>1, <2>2, <2>3 DEF Urgent
<1>29. \A u \in Thread : n.stat[u] = "CLOSE" <=> u \notin live
  BY <1>7, <1>17
<1> QED
  BY <1>6, <1>14, <1>16, <1>17, <1>22, <1>23, <1>26, <1>27, <1>28, <1>29 DEF Good
=============================================================================
