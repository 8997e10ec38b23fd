----------------------------- MODULE ObjectsProofs -----------------------------
(***************************************************************************)
(* Proofs about module Objects.                                            *)
(*                                                                         *)
(* First the heap: sums over finite sets, what Split, Merge and plug_holes *)
(* do to a tiled heap, and HeapInv, which each section of rt_malloc,       *)
(* rt_free and rt_realloc keeps.                                           *)
(*                                                                         *)
(* Then the objects that threads wait for.  Every step keeps Base, which   *)
(* is about all of them, and leaves the waiters and the points of the      *)
(* other objects alone (Keeps, Untouched, Still); so each object has an    *)
(* invariant of its own (EvInv, MpInv, CpInv, WqInv) that its own steps    *)
(* keep for one reason and all other steps for another.  The walks along a *)
(* suspend list (the event's send, resume all) are followed thread by      *)
(* thread.  ObjInv is all of these together.                               *)
(***************************************************************************)
EXTENDS Objects, IpcProofs, FiniteSetTheorems

-----------------------------------------------------------------------------
(* Sums over finite sets *)

\* The recursion that MapThenFoldSet does
FoldsTo(S, V, base, pick, step, f) ==
    /\ f \in [SUBSET S -> V]
    /\ \A s \in SUBSET S :
        f[s] = IF s = {} THEN base ELSE step[<<pick[s], f[s \ {pick[s]}]>>]

\* Recursion over the subsets of a finite set, which takes out one element after the
\* other, defines a function.
LEMMA FoldExists ==
    ASSUME NEW S, IsFiniteSet(S), NEW V, NEW base \in V,
           NEW pick, \A s \in SUBSET S : s # {} => pick[s] \in s,
           NEW step, \A x \in S, v \in V : step[<<x, v>>] \in V
    PROVE  \E f : FoldsTo(S, V, base, pick, step, f)
<1> DEFINE Small(n) == {s \in SUBSET S : Cardinality(s) <= n}
           Folds(f, n) ==
                /\ f \in [Small(n) -> V]
                /\ \A s \in Small(n) :
                    f[s] = IF s = {} THEN base ELSE step[<<pick[s], f[s \ {pick[s]}]>>]
           I == {n \in Nat : \E f \in [Small(n) -> V] : Folds(f, n)}
<1>1. \A s \in SUBSET S : IsFiniteSet(s) /\ Cardinality(s) \in Nat /\ Cardinality(s) <= Cardinality(S)
                           /\ (Cardinality(s) = 0 <=> s = {})
  BY FS_Subset, FS_CardinalityType, FS_EmptySet
<1>2. \A s \in SUBSET S : s # {} => /\ s \ {pick[s]} \in SUBSET S
                                    /\ Cardinality(s \ {pick[s]}) = Cardinality(s) - 1
  BY <1>1, FS_RemoveElement
<1>3. 0 \in I
  <2> DEFINE f == [s \in Small(0) |-> base]
  <2>1. \A s \in Small(0) : s = {}
    BY <1>1
  <2>2. f \in [Small(0) -> V] /\ Folds(f, 0)
    BY <2>1
  <2> QED
    BY <2>2
<1>4. ASSUME NEW n \in Nat, n \in I PROVE n + 1 \in I
  <2>1. PICK f \in [Small(n) -> V] : Folds(f, n)
    BY <1>4
  <2> DEFINE g == [s \in Small(n + 1) |-> IF s = {} THEN base ELSE step[<<pick[s], f[s \ {pick[s]}]>>]]
  <2>2. \A s \in Small(n + 1) : s # {} => pick[s] \in S /\ s \ {pick[s]} \in Small(n)
    BY <1>1, <1>2
  <2>3. \A s \in Small(n) : s \in Small(n + 1) /\ g[s] = f[s]
    BY <1>1, <2>1
  <2>4. g \in [Small(n + 1) -> V]
    BY <2>1, <2>2
  <2>5. Folds(g, n + 1)
    <3> SUFFICES ASSUME NEW s \in Small(n + 1)
                 PROVE g[s] = IF s = {} THEN base ELSE step[<<pick[s], g[s \ {pick[s]}]>>]
      BY <2>4
    <3>1. s # {} => g[s \ {pick[s]}] = f[s \ {pick[s]}]
      BY <2>2, <2>3
    <3> QED
      BY <3>1
  <2> HIDE DEF g, Small, Folds
  <2>6. n + 1 \in Nat
    OBVIOUS
  <2> QED
    BY <2>4, <2>5, <2>6
<1>5. \A n \in Nat : n \in I
  <2> HIDE DEF I
  <2> QED
    BY <1>3, <1>4, AllNumbers
<1>6. Cardinality(S) \in Nat /\ Small(Cardinality(S)) = SUBSET S
  BY <1>1
<1>7. PICK f \in [Small(Cardinality(S)) -> V] : Folds(f, Cardinality(S))
  BY <1>5, <1>6
<1>8. f \in [SUBSET S -> V] /\ \A s \in SUBSET S :
                f[s] = IF s = {} THEN base ELSE step[<<pick[s], f[s \ {pick[s]}]>>]
  BY <1>6, <1>7
<1> QED
  BY <1>8 DEF FoldsTo

\* The sum of a function over a finite set, as MapThenSumSet computes it
Sums(w, S, f) ==
    /\ f \in [SUBSET S -> Int]
    /\ \A s \in SUBSET S :
        f[s] = IF s = {} THEN 0 ELSE w[CHOOSE x \in s : TRUE] + f[s \ {CHOOSE x \in s : TRUE}]

\* It does not matter which element is added last.
LEMMA SumAnyOrder ==
    ASSUME NEW S, IsFiniteSet(S), NEW w, \A x \in S : w[x] \in Int, NEW f, Sums(w, S, f),
           NEW y \in S, NEW T, T = S \ {y}
    PROVE  f[S] = w[y] + f[T]
<1> DEFINE I == {n \in Nat : \A s \in SUBSET S : Cardinality(s) = n =>
                                \A x \in s : f[s] = w[x] + f[s \ {x}]}
<1>1. \A s \in SUBSET S : IsFiniteSet(s) /\ Cardinality(s) \in Nat
                           /\ (Cardinality(s) = 0 <=> s = {})
  BY FS_Subset, FS_CardinalityType, FS_EmptySet
<1>2. \A s \in SUBSET S : \A x \in s : /\ s \ {x} \in SUBSET S
                                      /\ Cardinality(s \ {x}) = Cardinality(s) - 1
  BY <1>1, FS_RemoveElement
<1>3. 0 \in I
  BY <1>1
<1>4. ASSUME NEW n \in Nat, n \in I PROVE n + 1 \in I
  <2> SUFFICES ASSUME NEW s \in SUBSET S, Cardinality(s) = n + 1, NEW x \in s
               PROVE  f[s] = w[x] + f[s \ {x}]
    OBVIOUS
  <2>1. PICK c \in s : c = CHOOSE z \in s : TRUE
    OBVIOUS
  <2>2. f[s] = w[c] + f[s \ {c}]
    BY <2>1 DEF Sums
  <2>3. CASE c = x
    BY <2>2, <2>3
  <2>4. CASE c # x
    <3>1. x \in s \ {c} /\ c \in s \ {x} /\ (s \ {c}) \ {x} = (s \ {x}) \ {c}
      BY <2>4
    <3>2. f[s \ {c}] = w[x] + f[(s \ {c}) \ {x}]
      <4>1. s \ {c} \in SUBSET S /\ Cardinality(s \ {c}) = n
        BY <1>2
      <4> QED
        BY <1>4, <3>1, <4>1
    <3>3. f[s \ {x}] = w[c] + f[(s \ {x}) \ {c}]
      <4>1. s \ {x} \in SUBSET S /\ Cardinality(s \ {x}) = n
        BY <1>2
      <4> QED
        BY <1>4, <3>1, <4>1
    <3>4. f[(s \ {c}) \ {x}] \in Int /\ w[c] \in Int /\ w[x] \in Int
      BY DEF Sums
    <3> DEFINE rest == (s \ {c}) \ {x}
    <3>5. f[s \ {c}] = w[x] + f[rest] /\ f[s \ {x}] = w[c] + f[rest] /\ f[rest] \in Int
      BY <3>1, <3>2, <3>3, <3>4
    <3> HIDE DEF rest
    <3> QED
      BY <2>2, <3>4, <3>5
  <2> QED
    BY <2>3, <2>4
<1>5. \A n \in Nat : n \in I
  <2> HIDE DEF I
  <2> QED
    BY <1>3, <1>4, AllNumbers
<1> QED
  BY <1>1, <1>5

\* The sums exist.
LEMMA SumsExist ==
    ASSUME NEW S, IsFiniteSet(S), NEW w, \A x \in S : w[x] \in Int
    PROVE  \E f : Sums(w, S, f)
<1> DEFINE pick == [s \in SUBSET S |-> CHOOSE x \in s : TRUE]
           step == [xv \in S \X Int |-> w[xv[1]] + xv[2]]
<1>1. \A s \in SUBSET S : s # {} => pick[s] \in s /\ pick[s] \in S
                                   /\ pick[s] = CHOOSE x \in s : TRUE
  OBVIOUS
<1>2. \A x \in S, v \in Int : step[<<x, v>>] \in Int /\ step[<<x, v>>] = w[x] + v
  OBVIOUS
<1> HIDE DEF pick, step
<1>3. PICK f : FoldsTo(S, Int, 0, pick, step, f)
  <2>1. \A s \in SUBSET S : s # {} => pick[s] \in s
    BY <1>1
  <2>2. \A x \in S, v \in Int : step[<<x, v>>] \in Int
    BY <1>2
  <2>3. 0 \in Int
    OBVIOUS
  <2> QED
    BY <2>1, <2>2, <2>3, FoldExists
<1>4. ASSUME NEW s \in SUBSET S
      PROVE  f[s] = IF s = {} THEN 0 ELSE w[CHOOSE x \in s : TRUE] + f[s \ {CHOOSE x \in s : TRUE}]
  <2>1. s # {} => f[s] = w[pick[s]] + f[s \ {pick[s]}]
    BY <1>1, <1>2, <1>3 DEF FoldsTo
  <2> QED
    BY <1>1, <1>3, <2>1 DEF FoldsTo
<1> QED
  BY <1>3, <1>4 DEF Sums, FoldsTo

\* The words of the blocks of a set, as the code counts them, and what one of them
\* adds to the sum
Words(hdr, S) == MapThenSumSet(LAMBDA p : hdr[p].next - p, S)

\* Words adds up the lengths.
LEMMA WordsSum ==
    ASSUME NEW S, IsFiniteSet(S), NEW hdr, NEW w,
           \A x \in S : w[x] = hdr[x].next - x /\ w[x] \in Int,
           NEW f, Sums(w, S, f)
    PROVE  Words(hdr, S) = f[S]
<1> DEFINE Body(g) == [s \in SUBSET S |-> IF s = {} THEN 0 ELSE
               (hdr[CHOOSE x \in s : TRUE].next - (CHOOSE x \in s : TRUE))
                   + g[s \ {CHOOSE x \in s : TRUE}]]
           iter == CHOOSE g : g = Body(g)
<1>1. Words(hdr, S) = iter[S]
  BY DEF Words, MapThenSumSet, MapThenFoldSet
<1>2. ASSUME NEW s \in SUBSET S, s # {} PROVE (CHOOSE x \in s : TRUE) \in S
  BY <1>2
<1>3. f = Body(f)
  <2>1. \A s \in SUBSET S : f[s] = Body(f)[s]
    BY <1>2 DEF Sums
  <2>2. f = [s \in SUBSET S |-> f[s]]
    BY DEF Sums
  <2> QED
    BY <2>1, <2>2
<1>4. iter = Body(iter)
  BY <1>3
<1> HIDE DEF iter
<1> DEFINE I == {n \in Nat : \A s \in SUBSET S : Cardinality(s) = n => iter[s] = f[s]}
<1>5. \A s \in SUBSET S : IsFiniteSet(s) /\ Cardinality(s) \in Nat
                           /\ (Cardinality(s) = 0 <=> s = {})
  BY FS_Subset, FS_CardinalityType, FS_EmptySet
<1>6. \A s \in SUBSET S : \A x \in s : /\ s \ {x} \in SUBSET S
                                      /\ Cardinality(s \ {x}) = Cardinality(s) - 1
  BY <1>5, FS_RemoveElement
<1>7. \A s \in SUBSET S : iter[s] = Body(iter)[s]
  BY <1>4
<1>8. 0 \in I
  BY <1>5, <1>7 DEF Sums
<1>9. ASSUME NEW n \in Nat, n \in I PROVE n + 1 \in I
  <2> SUFFICES ASSUME NEW s \in SUBSET S, Cardinality(s) = n + 1 PROVE iter[s] = f[s]
    OBVIOUS
  <2>1. s # {}
    BY <1>5
  <2>2. PICK c \in s : c = CHOOSE y \in s : TRUE
    BY <2>1
  <2>3. iter[s \ {c}] = f[s \ {c}]
    BY <1>6, <1>9
  <2>4. iter[s] = (hdr[c].next - c) + iter[s \ {c}]
    BY <1>7, <2>1, <2>2
  <2>5. f[s] = w[c] + f[s \ {c}]
    BY <2>1, <2>2 DEF Sums
  <2> QED
    BY <2>3, <2>4, <2>5
<1>10. \A n \in Nat : n \in I
  <2> HIDE DEF I
  <2> QED
    BY <1>8, <1>9, AllNumbers
<1>11. iter[S] = f[S]
  BY <1>5, <1>10
<1> QED
  BY <1>1, <1>11

\* The blocks have lengths; two tables agree on where blocks end.
Measured(hdr, S) == S \subseteq Int /\ \A x \in S : hdr[x].next \in Int
Agree(old, hdr, T) == \A x \in T : old[x].next = hdr[x].next

\* One block more or less, the others as they were
LEMMA WordsAdd ==
    ASSUME NEW S, IsFiniteSet(S), NEW hdr, Measured(hdr, S), NEW p \in S,
           NEW old, Agree(old, hdr, S \ {p})
    PROVE  /\ Words(hdr, S) = (hdr[p].next - p) + Words(old, S \ {p})
           /\ Words(hdr, S) \in Int /\ Words(old, S \ {p}) \in Int
<1>0. /\ S \subseteq Int /\ \A x \in S : hdr[x].next \in Int
      /\ \A x \in S \ {p} : old[x].next = hdr[x].next
  BY DEF Measured, Agree
<1> DEFINE w == [x \in S |-> hdr[x].next - x]
           T == S \ {p}
<1>1. \A x \in S : w[x] = hdr[x].next - x /\ w[x] \in Int
  BY <1>0
<1>2. \A x \in T : w[x] = old[x].next - x /\ w[x] \in Int
  BY <1>0
<1>3. w[p] = hdr[p].next - p
  OBVIOUS
<1> HIDE DEF w
<1>4. PICK f : Sums(w, S, f)
  BY <1>1, SumsExist
<1>5. IsFiniteSet(T) /\ T \in SUBSET S
  BY FS_Subset
<1> DEFINE g == [s \in SUBSET T |-> f[s]]
<1>6. Sums(w, T, g)
  <2>1. \A s \in SUBSET T : s # {} => s \ {CHOOSE x \in s : TRUE} \in SUBSET T
    OBVIOUS
  <2> QED
    BY <1>4, <1>5, <2>1 DEF Sums
<1>7. Words(hdr, S) = f[S]
  BY <1>1, <1>4, WordsSum
<1>8. Words(old, T) = g[T]
  <2> HIDE DEF T, g
  <2> QED
    BY <1>2, <1>5, <1>6, WordsSum
<1>9. f[S] = w[p] + f[T]
  <2>1. \A x \in S : w[x] \in Int
    BY <1>1
  <2>2. T = S \ {p}
    OBVIOUS
  <2> HIDE DEF T
  <2> QED
    BY ONLY <1>4, <2>1, <2>2, IsFiniteSet(S), p \in S, SumAnyOrder
<1>10. f[S] \in Int /\ f[T] \in Int
  BY <1>4, <1>5 DEF Sums
<1> QED
  BY <1>3, <1>7, <1>8, <1>9, <1>10

\* No block, no words
LEMMA WordsNone == ASSUME NEW hdr PROVE Words(hdr, {}) = 0
<1> DEFINE w == [x \in {} |-> 0]
<1>1. PICK f : Sums(w, {}, f)
  BY SumsExist, FS_EmptySet
<1>2. Words(hdr, {}) = f[{}]
  BY <1>1, WordsSum, FS_EmptySet
<1> QED
  BY <1>1, <1>2 DEF Sums

\* The lengths of the blocks decide.
LEMMA WordsSame ==
    ASSUME NEW S, IsFiniteSet(S), S \subseteq Int, NEW hdr, NEW old,
           \A x \in S : hdr[x].next \in Int /\ old[x].next = hdr[x].next
    PROVE  Words(old, S) = Words(hdr, S)
<1> DEFINE w == [x \in S |-> hdr[x].next - x]
<1>1. \A x \in S : w[x] = hdr[x].next - x /\ w[x] \in Int
  OBVIOUS
<1> HIDE DEF w
<1>2. \A x \in S : w[x] = old[x].next - x /\ w[x] \in Int
  BY <1>1
<1>3. PICK f : Sums(w, S, f)
  BY <1>1, SumsExist
<1>4. Words(hdr, S) = f[S]
  BY <1>1, <1>3, WordsSum
<1>5. Words(old, S) = f[S]
  BY <1>2, <1>3, WordsSum
<1> QED
  BY <1>4, <1>5

-----------------------------------------------------------------------------
(* The heap *)

Header == [used : BOOLEAN, next : 0 .. End, prev : 0 .. End]

\* The blocks lie one behind the other, linked in both directions; the header at
\* heap_end is used and leads to itself.
Tiled(hdr) ==
    /\ hdr \in [DOMAIN hdr -> Header] /\ DOMAIN hdr \subseteq 0 .. End
    /\ 0 \in DOMAIN hdr /\ hdr[0].prev = 0
    /\ End \in DOMAIN hdr /\ hdr[End].used /\ hdr[End].next = End
    /\ \A p \in DOMAIN hdr \ {End} :
        /\ hdr[p].next \in DOMAIN hdr /\ hdr[p].next - p >= SizeofMem
        /\ \A o \in DOMAIN hdr : ~(p < o /\ o < hdr[p].next)
        /\ hdr[p].next # End => hdr[hdr[p].next].prev = p
    /\ \A p \in DOMAIN hdr \ {0, End} :
        /\ hdr[p].prev \in DOMAIN hdr /\ hdr[p].prev < p
        /\ hdr[hdr[p].prev].next = p

\* No two neighbouring blocks are free.
Merged(hdr) == \A o \in DOMAIN hdr : ~hdr[o].used => hdr[hdr[o].next].used

\* lfree is the lowest free block, or heap_end if there is none.
Lowest(h) ==
    /\ \A o \in DOMAIN h.hdr : ~h.hdr[o].used => h.lfree <= o
    /\ h.lfree = End \/ ~h.hdr[h.lfree].used

\* The constants in the form the steps need
LEMMA HeapConstants ==
    /\ SizeofMem \in Nat /\ SizeofMem > 0 /\ MinSize \in Nat /\ MinSize > 0
    /\ MemSize \in Nat /\ MinSize <= MemSize
    /\ End \in Nat /\ End > 0 /\ End = MemSize + SizeofMem
    /\ \A size \in Sizes : size \in Nat /\ size > 0 /\ size <= MemSize
BY HeapAssumption DEF End

\* What Tiled says of a block that is not the last one
LEMMA TiledBlock ==
    ASSUME NEW hdr, Tiled(hdr), NEW p \in DOMAIN hdr, p # End
    PROVE  /\ p \in Nat /\ p < End
           /\ hdr[p] \in Header /\ hdr[p].used \in BOOLEAN
           /\ hdr[p].next \in DOMAIN hdr /\ hdr[p].next \in Nat
           /\ hdr[p].next - p >= SizeofMem /\ p < hdr[p].next /\ hdr[p].next <= End
           /\ \A o \in DOMAIN hdr : o <= p \/ hdr[p].next <= o
           /\ hdr[p].next # End => hdr[hdr[p].next].prev = p
           /\ hdr[p].prev \in DOMAIN hdr /\ hdr[p].prev \in Nat /\ hdr[p].prev <= p
           /\ p # 0 => hdr[p].prev < p /\ hdr[hdr[p].prev].next = p
<1>1. End \in Nat /\ SizeofMem \in Nat /\ SizeofMem > 0
  BY HeapConstants
<1>2. /\ hdr[p] \in Header /\ p \in 0 .. End /\ DOMAIN hdr \subseteq 0 .. End
      /\ 0 \in DOMAIN hdr
  BY DEF Tiled
<1>3. hdr[p].used \in BOOLEAN /\ hdr[p].next \in 0 .. End /\ hdr[p].prev \in 0 .. End
  BY <1>2 DEF Header
<1>4. /\ hdr[p].next \in DOMAIN hdr /\ hdr[p].next - p >= SizeofMem
      /\ \A o \in DOMAIN hdr : ~(p < o /\ o < hdr[p].next)
      /\ hdr[p].next # End => hdr[hdr[p].next].prev = p
  BY DEF Tiled
<1>5. p # 0 => /\ hdr[p].prev \in DOMAIN hdr /\ hdr[p].prev < p
               /\ hdr[hdr[p].prev].next = p
  BY DEF Tiled
<1>6. p = 0 => hdr[p].prev = 0
  BY DEF Tiled
<1> QED
  BY <1>1, <1>2, <1>3, <1>4, <1>5, <1>6

\* A block is cut in two, the second one free.
CutAt(hdr, p, p2, new) ==
    /\ Tiled(new) /\ DOMAIN new = DOMAIN hdr \cup {p2} /\ p2 \notin DOMAIN hdr
    /\ p2 \in Nat /\ p < p2 /\ p2 < hdr[p].next /\ p2 # End /\ p2 # 0
    /\ ~new[p2].used /\ new[p2].next = hdr[p].next /\ new[p2].prev = p
    /\ new[p].next = p2
    /\ \A o \in DOMAIN hdr : new[o].used = hdr[o].used
    /\ \A o \in DOMAIN hdr \ {p} : new[o].next = hdr[o].next

\* Split does that to a block that is large enough.
LEMMA SplitSpec ==
    ASSUME NEW hdr, Tiled(hdr), NEW p \in DOMAIN hdr, p # End,
           NEW size \in Nat, Room(hdr, p) >= size + SizeofMem,
           NEW new, new = Split(hdr, p, size), NEW p2, p2 = p + SizeofMem + size
    PROVE  CutAt(hdr, p, p2, new)
<1> DEFINE n == hdr[p].next
<1>1. End \in Nat /\ SizeofMem \in Nat /\ SizeofMem > 0
  BY HeapConstants
<1>2. /\ p \in Nat /\ p < End /\ n \in DOMAIN hdr /\ n \in Nat /\ p < n /\ n <= End
      /\ \A o \in DOMAIN hdr : o <= p \/ n <= o
  BY TiledBlock
<1>3. p2 \in Nat /\ p < p2 /\ p2 < n /\ n - p2 >= SizeofMem /\ p2 # End /\ p2 # 0 /\ p2 - p >= SizeofMem
  BY <1>1, <1>2 DEF Room
<1>4. p2 \notin DOMAIN hdr
  BY <1>2, <1>3
<1>5. /\ DOMAIN hdr \subseteq 0 .. End /\ hdr \in [DOMAIN hdr -> Header]
      /\ 0 \in DOMAIN hdr /\ hdr[0].prev = 0
      /\ End \in DOMAIN hdr /\ hdr[End].used /\ hdr[End].next = End
  BY DEF Tiled
<1> DEFINE linked == [hdr EXCEPT ![p].next = p2, ![n].prev = IF n = End THEN @ ELSE p2]
<1>6. /\ new = [o \in DOMAIN hdr \cup {p2} |->
                  IF o = p2 THEN [used |-> FALSE, next |-> n, prev |-> p] ELSE linked[o]]
  BY DEF Split
<1>7. \A o \in DOMAIN hdr :
        /\ linked[o] \in Header /\ linked[o].used = hdr[o].used
        /\ linked[o].next = (IF o = p THEN p2 ELSE hdr[o].next)
        /\ linked[o].prev = (IF o = n /\ n # End THEN p2 ELSE hdr[o].prev)
  <2>1. p2 \in 0 .. End
    BY <1>1, <1>2, <1>3
  <2>2. \A o \in DOMAIN hdr : hdr[o] \in Header
    BY <1>5
  <2> HIDE DEF n
  <2>3. n # p
    BY <1>2
  <2> QED
    BY <2>1, <2>2, <2>3 DEF Header
<1> HIDE DEF linked
<1>8. /\ DOMAIN new = DOMAIN hdr \cup {p2}
      /\ new[p2] = [used |-> FALSE, next |-> n, prev |-> p]
      /\ \A o \in DOMAIN hdr : new[o] = linked[o]
  BY <1>4, <1>6
<1>9. /\ \A o \in DOMAIN hdr :
            /\ new[o] \in Header /\ new[o].used = hdr[o].used
            /\ new[o].next = (IF o = p THEN p2 ELSE hdr[o].next)
            /\ new[o].prev = (IF o = n /\ n # End THEN p2 ELSE hdr[o].prev)
      /\ new[p2].used = FALSE /\ new[p2].next = n /\ new[p2].prev = p
  BY <1>7, <1>8
<1>10. new \in [DOMAIN new -> Header] /\ DOMAIN new \subseteq 0 .. End
  <2>1. [used |-> FALSE, next |-> n, prev |-> p] \in Header
    BY <1>1, <1>2 DEF Header
  <2>2. \A o \in DOMAIN new : new[o] \in Header
    BY <1>8, <1>9, <2>1
  <2>3. new = [o \in DOMAIN new |-> new[o]]
    BY <1>6, <1>8
  <2>4. p2 \in 0 .. End
    BY <1>1, <1>2, <1>3
  <2> QED
    BY <1>5, <1>8, <2>2, <2>3, <2>4
<1>11. /\ 0 \in DOMAIN new /\ new[0].prev = 0
       /\ End \in DOMAIN new /\ new[End].used /\ new[End].next = End
  BY <1>2, <1>5, <1>8, <1>9
<1> HIDE DEF n
<1>12. ASSUME NEW o \in DOMAIN new \ {End}
       PROVE  /\ new[o].next \in DOMAIN new /\ new[o].next - o >= SizeofMem
              /\ \A x \in DOMAIN new : ~(o < x /\ x < new[o].next)
              /\ new[o].next # End => new[new[o].next].prev = o
  <2>0. \A x \in DOMAIN new : x = p2 \/ (x \in Nat /\ (x <= p \/ n <= x))
    BY <1>2, <1>5, <1>8
  <2>1. CASE o = p
    BY <1>2, <1>3, <1>8, <1>9, <2>1, <2>0
  <2>2. CASE o = p2
    <3>1. new[o].next = n /\ n \in DOMAIN new /\ n - o >= SizeofMem
      BY <1>2, <1>3, <1>8, <1>9, <2>2
    <3>2. n # End => new[n].prev = p2
      BY <1>2, <1>9
    <3> QED
      BY <1>2, <1>3, <2>2, <2>0, <3>1, <3>2
  <2>3. CASE o # p /\ o # p2
    <3>1. o \in DOMAIN hdr /\ o # End
      BY <1>8, <2>3
    <3>2. /\ o \in Nat /\ hdr[o].next \in DOMAIN hdr /\ hdr[o].next \in Nat
          /\ hdr[o].next - o >= SizeofMem /\ o < hdr[o].next
          /\ \A x \in DOMAIN hdr : x <= o \/ hdr[o].next <= x
          /\ hdr[o].next # End => hdr[hdr[o].next].prev = o
      BY <3>1, TiledBlock
    <3>3. new[o].next = hdr[o].next
      BY <1>9, <2>3, <3>1
    <3>4. hdr[o].next # n \/ n = End
      <4> SUFFICES ASSUME hdr[o].next = n, n # End PROVE FALSE
        OBVIOUS
      <4>1. hdr[n].prev = p
        BY TiledBlock DEF n
      <4> QED
        BY <2>3, <3>2, <4>1
    <3>5. ~(o < p2 /\ p2 < hdr[o].next)
      <4>1. p \in DOMAIN hdr
        OBVIOUS
      <4>2. o <= p \/ n <= o
        BY <1>2, <3>1
      <4>3. p <= o \/ hdr[o].next <= p
        BY <3>2, <4>1
      <4> QED
        BY <1>2, <1>3, <2>3, <3>2, <4>2, <4>3
    <3>6. \A x \in DOMAIN hdr : x \in Nat
      BY <1>5
    <3> QED
      BY <1>1, <1>2, <1>8, <1>9, <3>2, <3>3, <3>4, <3>5, <3>6
  <2> QED
    BY <2>1, <2>2, <2>3
<1>13. ASSUME NEW o \in DOMAIN new \ {0, End}
       PROVE  /\ new[o].prev \in DOMAIN new /\ new[o].prev < o
              /\ new[new[o].prev].next = o
  <2>1. CASE o = p2
    BY <1>3, <1>8, <1>9, <2>1
  <2>2. CASE o = n
    BY <1>2, <1>3, <1>8, <1>9, <2>2
  <2>3. CASE o # p2 /\ o # n
    <3>1. o \in DOMAIN hdr /\ o # End /\ o # 0
      BY <1>8, <2>3
    <3>2. hdr[o].prev \in DOMAIN hdr /\ hdr[o].prev < o /\ hdr[hdr[o].prev].next = o
      BY <3>1, TiledBlock
    <3>3. new[o].prev = hdr[o].prev
      BY <1>9, <2>3, <3>1
    <3>4. hdr[o].prev # p
      BY <2>3, <3>2 DEF n
    <3> QED
      BY <1>8, <1>9, <3>2, <3>3, <3>4
  <2> QED
    BY <2>1, <2>2, <2>3
<1> HIDE DEF Header
<1>14. Tiled(new)
  BY <1>10, <1>11, <1>12, <1>13 DEF Tiled
<1> QED
  BY <1>2, <1>3, <1>4, <1>8, <1>9, <1>14 DEF n, CutAt

\* A heap has these fields.
IsHeap(h) ==
    h = [lfree |-> h.lfree, used_mem |-> h.used_mem, hdr |-> h.hdr, own |-> h.own,
         trimmed |-> h.trimmed]

\* A block becomes part of the one in front of it.
LEMMA MergeSpec ==
    ASSUME NEW h, IsHeap(h), Tiled(h.hdr), NEW p \in DOMAIN h.hdr, p # End,
           NEW n, n = h.hdr[p].next, n # End, NEW g, g = Merge(h, p)
    PROVE  /\ Tiled(g.hdr) /\ DOMAIN g.hdr = DOMAIN h.hdr \ {n} /\ n \in DOMAIN h.hdr
           /\ p < n /\ n # 0
           /\ \A o \in DOMAIN g.hdr : g.hdr[o].used = h.hdr[o].used
           /\ \A o \in DOMAIN g.hdr \ {p} : g.hdr[o].next = h.hdr[o].next
           /\ g.hdr[p].next = h.hdr[n].next
           /\ g.lfree = IF h.lfree = n THEN p ELSE h.lfree
           /\ g.used_mem = h.used_mem /\ g.own = h.own /\ g.trimmed = h.trimmed
           /\ IsHeap(g)
<1> DEFINE hdr == h.hdr
           nn == hdr[n].next
           linked == [hdr EXCEPT ![p].next = nn, ![nn].prev = p]
           new == [o \in DOMAIN hdr \ {n} |-> linked[o]]
<1>1. End \in Nat /\ SizeofMem \in Nat /\ SizeofMem > 0
  BY HeapConstants
<1>2. /\ p \in Nat /\ p < End /\ n \in DOMAIN hdr /\ n \in Nat /\ p < n /\ n < End
      /\ n - p >= SizeofMem /\ hdr[n].prev = p
      /\ \A o \in DOMAIN hdr : o <= p \/ n <= o
  BY <1>1, TiledBlock
<1>3. /\ nn \in DOMAIN hdr /\ nn \in Nat /\ n < nn /\ nn <= End
      /\ \A o \in DOMAIN hdr : o <= n \/ nn <= o
      /\ nn # End => hdr[nn].prev = n
  BY <1>2, TiledBlock
<1>4. g = [h EXCEPT !.hdr = new, !.lfree = IF @ = n THEN p ELSE @]
  BY DEF Merge
<1> HIDE DEF new
<1>5. /\ g.hdr = new /\ g.lfree = (IF h.lfree = n THEN p ELSE h.lfree)
      /\ g.used_mem = h.used_mem /\ g.own = h.own /\ g.trimmed = h.trimmed
      /\ IsHeap(g)
  BY <1>4 DEF IsHeap
<1>6. /\ DOMAIN hdr \subseteq 0 .. End /\ hdr \in [DOMAIN hdr -> Header]
      /\ 0 \in DOMAIN hdr /\ hdr[0].prev = 0
      /\ End \in DOMAIN hdr /\ hdr[End].used /\ hdr[End].next = End
  BY DEF Tiled
<1> HIDE DEF hdr
<1>7. \A o \in DOMAIN hdr :
        /\ linked[o] \in Header /\ linked[o].used = hdr[o].used
        /\ linked[o].next = (IF o = p THEN nn ELSE hdr[o].next)
        /\ linked[o].prev = (IF o = nn THEN p ELSE hdr[o].prev)
  <2>1. p \in 0 .. End /\ nn \in 0 .. End /\ nn # p
    BY <1>1, <1>2, <1>3
  <2>2. \A o \in DOMAIN hdr : hdr[o] \in Header
    BY <1>6
  <2> HIDE DEF nn
  <2> QED
    BY <2>1, <2>2 DEF Header
<1> HIDE DEF linked
<1>8. /\ DOMAIN new = DOMAIN hdr \ {n}
      /\ \A o \in DOMAIN new :
            /\ new[o] \in Header /\ new[o].used = hdr[o].used
            /\ new[o].next = (IF o = p THEN nn ELSE hdr[o].next)
            /\ new[o].prev = (IF o = nn THEN p ELSE hdr[o].prev)
  BY <1>7 DEF new
<1>9. new \in [DOMAIN new -> Header] /\ DOMAIN new \subseteq 0 .. End
  <2>1. new = [o \in DOMAIN new |-> new[o]]
    BY DEF new
  <2> HIDE DEF Header, nn
  <2> QED
    BY <1>6, <1>8, <2>1
<1> HIDE DEF nn
<1>10. /\ 0 \in DOMAIN new /\ new[0].prev = 0
       /\ End \in DOMAIN new /\ new[End].used /\ new[End].next = End
  BY <1>2, <1>3, <1>6, <1>8
<1>11. ASSUME NEW o \in DOMAIN new \ {End}
       PROVE  /\ new[o].next \in DOMAIN new /\ new[o].next - o >= SizeofMem
              /\ \A x \in DOMAIN new : ~(o < x /\ x < new[o].next)
              /\ new[o].next # End => new[new[o].next].prev = o
  <2>1. o \in DOMAIN hdr /\ o # n /\ o # End
    BY <1>8
  <2>2. /\ o \in Nat /\ hdr[o].next \in DOMAIN hdr /\ hdr[o].next \in Nat
        /\ hdr[o].next - o >= SizeofMem /\ o < hdr[o].next
        /\ \A x \in DOMAIN hdr : x <= o \/ hdr[o].next <= x
        /\ hdr[o].next # End => hdr[hdr[o].next].prev = o
    BY <2>1, TiledBlock DEF hdr
  <2>3. \A x \in DOMAIN new : x \in Nat /\ x \in DOMAIN hdr /\ x # n
    BY <1>6, <1>8
  <2>4. CASE o = p
    BY <1>1, <1>2, <1>3, <1>8, <2>3, <2>4
  <2>5. CASE o # p
    <3>1. new[o].next = hdr[o].next
      BY <1>8, <2>5
    <3>2. hdr[o].next # n
      BY <1>2, <2>1, <2>2, <2>5
    <3>3. hdr[o].next # nn \/ nn = End
      BY <1>3, <2>1, <2>2
    <3> QED
      BY <1>8, <2>2, <2>3, <3>1, <3>2, <3>3
  <2> QED
    BY <2>4, <2>5
<1>12. ASSUME NEW o \in DOMAIN new \ {0, End}
       PROVE  /\ new[o].prev \in DOMAIN new /\ new[o].prev < o
              /\ new[new[o].prev].next = o
  <2>1. o \in DOMAIN hdr /\ o # n /\ o # End /\ o # 0
    BY <1>8
  <2>2. hdr[o].prev \in DOMAIN hdr /\ hdr[o].prev < o /\ hdr[hdr[o].prev].next = o
    BY <2>1, TiledBlock DEF hdr
  <2>3. CASE o = nn
    BY <1>2, <1>3, <1>8, <2>3 DEF hdr
  <2>4. CASE o # nn
    <3>1. new[o].prev = hdr[o].prev
      BY <1>8, <2>4
    <3>2. hdr[o].prev # n /\ hdr[o].prev # p
      BY <2>1, <2>2, <2>4 DEF nn, hdr
    <3> QED
      BY <1>8, <2>2, <3>1, <3>2
  <2> QED
    BY <2>3, <2>4
<1> HIDE DEF Header
<1>13. Tiled(new)
  BY <1>9, <1>10, <1>11, <1>12 DEF Tiled
<1> QED
  BY <1>1, <1>2, <1>3, <1>5, <1>8, <1>13 DEF nn, hdr

\* The flag of a block does not matter for where the blocks lie.
FlagAt(hdr, p, b, new) ==
    /\ Tiled(new) /\ DOMAIN new = DOMAIN hdr
    /\ \A o \in DOMAIN hdr : new[o].next = hdr[o].next /\ new[o].prev = hdr[o].prev
    /\ \A o \in DOMAIN hdr : new[o].used = IF o = p THEN b ELSE hdr[o].used

\* Setting it leaves the heap tiled.
LEMMA FlagTiled ==
    ASSUME NEW hdr, Tiled(hdr), NEW p \in DOMAIN hdr, p # End, NEW b \in BOOLEAN,
           NEW new, new = [hdr EXCEPT ![p].used = b]
    PROVE  FlagAt(hdr, p, b, new)
<1>1. /\ hdr \in [DOMAIN hdr -> Header]
      /\ \A o \in DOMAIN hdr : hdr[o] \in Header
  BY DEF Tiled
<1>2. /\ DOMAIN new = DOMAIN hdr
      /\ \A o \in DOMAIN hdr : new[o].next = hdr[o].next /\ new[o].prev = hdr[o].prev
      /\ \A o \in DOMAIN hdr : new[o].used = IF o = p THEN b ELSE hdr[o].used
  BY <1>1 DEF Header
<1>3. new \in [DOMAIN new -> Header]
  BY <1>1 DEF Header
<1> HIDE DEF Header
<1> QED
  BY <1>2, <1>3 DEF Tiled, FlagAt

\* A free block joins a free neighbour behind it.
LEMMA JoinsBehind ==
    ASSUME NEW h, IsHeap(h), Tiled(h.hdr), NEW p \in DOMAIN h.hdr, p # End, ~h.hdr[p].used,
           h.lfree \in DOMAIN h.hdr,
           NEW g, g = IF ~h.hdr[h.hdr[p].next].used THEN Merge(h, p) ELSE h
    PROVE  /\ IsHeap(g) /\ Tiled(g.hdr) /\ p \in DOMAIN g.hdr
           /\ g.lfree \in DOMAIN g.hdr /\ (Lowest(h) => Lowest(g))
           /\ DOMAIN g.hdr \subseteq DOMAIN h.hdr
           /\ \A o \in DOMAIN h.hdr \ DOMAIN g.hdr : o = h.hdr[p].next /\ ~h.hdr[o].used
           /\ \A o \in DOMAIN g.hdr : g.hdr[o].used = h.hdr[o].used
           /\ \A o \in DOMAIN g.hdr \ {p} : g.hdr[o].next = h.hdr[o].next
           /\ \/ g = h /\ h.hdr[h.hdr[p].next].used
              \/ /\ ~h.hdr[h.hdr[p].next].used
                 /\ h.hdr[p].next \in DOMAIN h.hdr /\ h.hdr[p].next \notin DOMAIN g.hdr
                 /\ g.hdr[p].next = h.hdr[h.hdr[p].next].next
                 /\ h.hdr[p].next # p
           /\ g.used_mem = h.used_mem /\ g.own = h.own /\ g.trimmed = h.trimmed
<1> DEFINE n == h.hdr[p].next
<1>1. n \in DOMAIN h.hdr /\ n \in Nat /\ p \in Nat /\ p < n
  BY TiledBlock
<1>2. CASE h.hdr[n].used
  BY <1>1, <1>2
<1>3. CASE ~h.hdr[n].used
  <2>1. n # End
    BY <1>3 DEF Tiled
  <2>2. g = Merge(h, p)
    BY <1>3
  <2> HIDE DEF n
  <2>3. n = h.hdr[p].next
    BY DEF n
  <2>4. /\ Tiled(g.hdr) /\ DOMAIN g.hdr = DOMAIN h.hdr \ {n}
        /\ \A o \in DOMAIN g.hdr : g.hdr[o].used = h.hdr[o].used
        /\ \A o \in DOMAIN g.hdr \ {p} : g.hdr[o].next = h.hdr[o].next
        /\ g.hdr[p].next = h.hdr[n].next
        /\ g.lfree = IF h.lfree = n THEN p ELSE h.lfree
        /\ g.used_mem = h.used_mem /\ g.own = h.own /\ g.trimmed = h.trimmed
        /\ IsHeap(g)
    BY <2>1, <2>2, <2>3, MergeSpec
  <2>5. p \in DOMAIN g.hdr /\ g.lfree \in DOMAIN g.hdr
    BY <1>1, <2>4
  <2>6. ASSUME Lowest(h) PROVE Lowest(g)
    <3>1. h.lfree <= p /\ h.lfree # n
      BY <1>1, <2>6 DEF Lowest, Tiled
    <3> QED
      BY <2>4, <2>5, <2>6, <3>1 DEF Lowest
  <2> QED
    BY <1>1, <1>3, <2>3, <2>4, <2>5, <2>6
<1> QED
  BY <1>2, <1>3

\* plug_holes joins a free block with its free neighbours.
Plugged(h, g) ==
    /\ IsHeap(g) /\ Tiled(g.hdr) /\ Merged(g.hdr)
    /\ g.lfree \in DOMAIN g.hdr /\ (Lowest(h) => Lowest(g))
    /\ DOMAIN g.hdr \subseteq DOMAIN h.hdr
    /\ \A o \in DOMAIN h.hdr \ DOMAIN g.hdr : ~h.hdr[o].used
    /\ \A o \in DOMAIN g.hdr : g.hdr[o].used = h.hdr[o].used
    /\ \A o \in DOMAIN g.hdr : h.hdr[o].used => g.hdr[o].next = h.hdr[o].next
    /\ g.used_mem = h.used_mem /\ g.own = h.own /\ g.trimmed = h.trimmed

\* It does so whatever the neighbours are.
LEMMA PlugSpec ==
    ASSUME NEW h, IsHeap(h), Tiled(h.hdr), NEW p \in DOMAIN h.hdr, p # End, ~h.hdr[p].used,
           h.lfree \in DOMAIN h.hdr,
           \A o \in DOMAIN h.hdr \ {p} :
                ~h.hdr[o].used /\ h.hdr[o].next # p => h.hdr[h.hdr[o].next].used,
           NEW g, g = plug_holes(h, p)
    PROVE  Plugged(h, g)
<1>1. PICK f : f = IF ~h.hdr[h.hdr[p].next].used THEN Merge(h, p) ELSE h
  OBVIOUS
<1>2. /\ IsHeap(f) /\ Tiled(f.hdr) /\ p \in DOMAIN f.hdr
      /\ f.lfree \in DOMAIN f.hdr /\ (Lowest(h) => Lowest(f))
      /\ DOMAIN f.hdr \subseteq DOMAIN h.hdr
      /\ \A o \in DOMAIN h.hdr \ DOMAIN f.hdr : o = h.hdr[p].next /\ ~h.hdr[o].used
      /\ \A o \in DOMAIN f.hdr : f.hdr[o].used = h.hdr[o].used
      /\ \A o \in DOMAIN f.hdr \ {p} : f.hdr[o].next = h.hdr[o].next
      /\ \/ f = h /\ h.hdr[h.hdr[p].next].used
         \/ /\ ~h.hdr[h.hdr[p].next].used
            /\ h.hdr[p].next \in DOMAIN h.hdr /\ h.hdr[p].next \notin DOMAIN f.hdr
            /\ f.hdr[p].next = h.hdr[h.hdr[p].next].next
            /\ h.hdr[p].next # p
      /\ f.used_mem = h.used_mem /\ f.own = h.own /\ f.trimmed = h.trimmed
  BY <1>1, JoinsBehind
<1> DEFINE before == f.hdr[p].prev
<1>3. g = IF before # p /\ ~f.hdr[before].used THEN Merge(f, before) ELSE f
  BY <1>1 DEF plug_holes
\* behind p is a used block
<1>4. f.hdr[f.hdr[p].next].used
  <2>1. CASE f = h
    BY <1>2, <2>1
  <2>2. CASE f # h
    <3> DEFINE n == h.hdr[p].next
               nn == h.hdr[n].next
    <3>1. n \in DOMAIN h.hdr /\ n # p /\ ~h.hdr[n].used /\ n # End
      BY <1>2, <2>2 DEF Tiled
    <3>2. nn \in DOMAIN h.hdr /\ nn > n /\ n \in Nat /\ nn \in Nat /\ n > p /\ p \in Nat
      BY <3>1, TiledBlock
    <3>3. h.hdr[nn].used
      BY <3>1, <3>2
    <3>4. f.hdr[p].next = nn
      BY <1>2, <2>2
    <3>5. f.hdr[p].next \in DOMAIN f.hdr
      BY <1>2, TiledBlock
    <3> QED
      BY <1>2, <3>3, <3>4, <3>5
  <2> QED
    BY <2>1, <2>2
<1>5. /\ before \in DOMAIN f.hdr /\ before \in Nat /\ p \in Nat /\ before <= p
      /\ p # 0 => before < p /\ f.hdr[before].next = p
      /\ f.hdr[p].next \in DOMAIN f.hdr /\ f.hdr[p].next \in Nat /\ p < f.hdr[p].next
  BY <1>2, TiledBlock
<1>6. p = 0 => before = p
  BY <1>2 DEF Tiled
<1> HIDE DEF before
\* and p is the only block in front of it that may be free
<1>7. \A o \in DOMAIN f.hdr \ {p, before} : ~f.hdr[o].used => f.hdr[f.hdr[o].next].used
  <2> TAKE o \in DOMAIN f.hdr \ {p, before}
  <2> HAVE ~f.hdr[o].used
  <2>1. o # End
    BY <1>2 DEF Tiled
  <2>2. f.hdr[o].next \in DOMAIN f.hdr /\ f.hdr[o].next \in Nat /\ o \in Nat /\ o < f.hdr[o].next
    BY <1>2, <2>1, TiledBlock
  <2>3. f.hdr[o].next # p
    <3>1. f.hdr[o].next # End => f.hdr[f.hdr[o].next].prev = o
      BY <1>2, <2>1, TiledBlock
    <3> QED
      BY <3>1 DEF before
  <2>4. f.hdr[o].next = h.hdr[o].next /\ ~h.hdr[o].used /\ o \in DOMAIN h.hdr
    BY <1>2
  <2>5. h.hdr[h.hdr[o].next].used
    BY <2>3, <2>4
  <2> QED
    BY <1>2, <2>2, <2>4, <2>5
<1>8. CASE before = p \/ f.hdr[before].used
  <2>1. g = f
    BY <1>3, <1>8
  <2>2. Merged(f.hdr)
    BY <1>4, <1>7, <1>8 DEF Merged
  <2> QED
    BY <1>2, <2>1, <2>2 DEF Plugged
<1>9. CASE before # p /\ ~f.hdr[before].used
  <2>1. before # End /\ p # 0 /\ f.hdr[before].next = p
    BY <1>2, <1>5, <1>6, <1>9 DEF Tiled
  <2>2. g = IF ~f.hdr[f.hdr[before].next].used THEN Merge(f, before) ELSE f
    BY <1>2, <1>3, <1>9, <2>1
  <2>3. /\ IsHeap(g) /\ Tiled(g.hdr) /\ before \in DOMAIN g.hdr
        /\ g.lfree \in DOMAIN g.hdr /\ (Lowest(f) => Lowest(g))
        /\ DOMAIN g.hdr \subseteq DOMAIN f.hdr
        /\ \A o \in DOMAIN f.hdr \ DOMAIN g.hdr : o = f.hdr[before].next /\ ~f.hdr[o].used
        /\ \A o \in DOMAIN g.hdr : g.hdr[o].used = f.hdr[o].used
        /\ \A o \in DOMAIN g.hdr \ {before} : g.hdr[o].next = f.hdr[o].next
        /\ \/ g = f /\ f.hdr[f.hdr[before].next].used
           \/ /\ ~f.hdr[f.hdr[before].next].used
              /\ f.hdr[before].next \in DOMAIN f.hdr /\ f.hdr[before].next \notin DOMAIN g.hdr
              /\ g.hdr[before].next = f.hdr[f.hdr[before].next].next
              /\ f.hdr[before].next # before
        /\ g.used_mem = f.used_mem /\ g.own = f.own /\ g.trimmed = f.trimmed
    BY <1>2, <1>5, <1>9, <2>1, <2>2, JoinsBehind
  <2>4. p \notin DOMAIN g.hdr /\ g.hdr[before].next = f.hdr[p].next
    BY <1>2, <2>1, <2>3
  <2>5. Merged(g.hdr)
    <3> SUFFICES ASSUME NEW o \in DOMAIN g.hdr, ~g.hdr[o].used PROVE g.hdr[g.hdr[o].next].used
      BY DEF Merged
    <3>1. o # End
      BY <2>3 DEF Tiled
    <3>2. g.hdr[o].next \in DOMAIN g.hdr
      BY <2>3, <3>1, TiledBlock
    <3>3. CASE o = before
      BY <1>4, <2>3, <2>4, <3>2, <3>3
    <3>4. CASE o # before
      BY <1>7, <2>3, <2>4, <3>2, <3>4
    <3> QED
      BY <3>3, <3>4
  <2>6. \A o \in DOMAIN h.hdr \ DOMAIN g.hdr : ~h.hdr[o].used
    BY <1>2, <2>3
  <2>7. \A o \in DOMAIN g.hdr : g.hdr[o].used = h.hdr[o].used
    BY <1>2, <2>3
  <2>8. \A o \in DOMAIN g.hdr : h.hdr[o].used => g.hdr[o].next = h.hdr[o].next
    BY <1>2, <1>9, <2>3
  <2> QED
    BY <1>2, <2>3, <2>5, <2>6, <2>7, <2>8 DEF Plugged
<1> QED
  BY <1>8, <1>9

-----------------------------------------------------------------------------
(* The invariant of the heap *)

\* The blocks that are handed out
UsedIn(hdr) == {p \in DOMAIN hdr \ {End} : hdr[p].used}

\* The inductive invariant of the heap: what rt_malloc, rt_free and rt_realloc find
\* and leave behind
HeapInv(h) ==
    /\ IsHeap(h) /\ Tiled(h.hdr) /\ Merged(h.hdr)
    /\ h.lfree \in DOMAIN h.hdr /\ h.trimmed \in BOOLEAN /\ (h.trimmed \/ Lowest(h))
    /\ h.own \in [UsedIn(h.hdr) -> Nat]
    /\ \A p \in UsedIn(h.hdr) : Room(h.hdr, p) >= h.own[p]
    /\ h.used_mem = Words(h.hdr, UsedIn(h.hdr))

\* One block more or less in one table
LEMMA WordsOne ==
    ASSUME NEW S, IsFiniteSet(S), S \subseteq Int, NEW hdr, NEW p \in S,
           \A x \in S : hdr[x].next \in Int
    PROVE  /\ Words(hdr, S) = (hdr[p].next - p) + Words(hdr, S \ {p})
           /\ Words(hdr, S) \in Int
<1>1. Measured(hdr, S) /\ Agree(hdr, hdr, S \ {p})
  BY DEF Measured, Agree
<1> QED
  BY <1>1, WordsAdd

\* The blocks of a tiled heap are finitely many numbers.
LEMMA UsedFinite ==
    ASSUME NEW hdr, Tiled(hdr)
    PROVE  /\ IsFiniteSet(UsedIn(hdr)) /\ UsedIn(hdr) \subseteq Nat /\ UsedIn(hdr) \subseteq Int
           /\ UsedIn(hdr) \subseteq DOMAIN hdr /\ End \notin UsedIn(hdr)
           /\ \A p \in DOMAIN hdr : hdr[p].next \in Nat /\ hdr[p].next \in Int
           /\ \A p \in DOMAIN hdr : p \in Nat /\ p <= End
           /\ \A p \in DOMAIN hdr : hdr[p].used \in BOOLEAN
<1>1. End \in Nat
  BY HeapConstants
<1>2. DOMAIN hdr \subseteq 0 .. End /\ UsedIn(hdr) \subseteq 0 .. End
  BY DEF Tiled, UsedIn
<1>3. IsFiniteSet(0 .. End)
  BY <1>1, FS_Interval
<1>4. IsFiniteSet(UsedIn(hdr))
  BY <1>2, <1>3, FS_Subset
<1>5. \A p \in DOMAIN hdr : hdr[p].next \in Nat /\ hdr[p].next \in Int
  BY <1>1, TiledBlock DEF Tiled
<1>6. \A p \in DOMAIN hdr : hdr[p].used \in BOOLEAN
  BY DEF Tiled, Header
<1> QED
  BY <1>1, <1>2, <1>4, <1>5, <1>6 DEF UsedIn

\* lfree is what LowestFree says.
LEMMA LowestIsMin ==
    ASSUME NEW h, Tiled(h.hdr), h.lfree \in DOMAIN h.hdr, Lowest(h)
    PROVE  h.lfree = Min({p \in DOMAIN h.hdr : ~h.hdr[p].used \/ p = End})
<1> DEFINE S == {p \in DOMAIN h.hdr : ~h.hdr[p].used \/ p = End}
<1>1. S \subseteq Nat /\ S # {} /\ h.lfree \in S /\ \A p \in S : p <= End
  BY UsedFinite DEF Lowest, Tiled
<1>2. \A p \in S : h.lfree <= p
  BY <1>1, UsedFinite DEF Lowest
<1> HIDE DEF S
<1>3. Min(S) \in S /\ \A p \in S : Min(S) <= p
  BY <1>1, MinSpec
<1>4. Min(S) \in Nat /\ h.lfree \in Nat /\ Min(S) <= h.lfree /\ h.lfree <= Min(S)
  BY <1>1, <1>2, <1>3
<1>5. h.lfree = Min(S)
  BY <1>4
<1> QED
  BY <1>5 DEF S

\* NextFree finds the first free block behind p.
LEMMA NextFreeSpec ==
    ASSUME NEW hdr, Tiled(hdr), NEW p \in DOMAIN hdr, p # End, NEW f, f = NextFree(hdr, p)
    PROVE  /\ f \in DOMAIN hdr /\ p < f /\ (~hdr[f].used \/ f = End)
           /\ \A o \in DOMAIN hdr : p < o /\ ~hdr[o].used => f <= o
<1> DEFINE S == {o \in DOMAIN hdr : o > p /\ (~hdr[o].used \/ o = End)}
<1>1. S \subseteq Nat /\ S # {}
  BY UsedFinite, TiledBlock DEF Tiled
<1>2. f = Min(S)
  BY DEF NextFree
<1>3. Min(S) \in S /\ \A o \in S : Min(S) <= o
  <2> HIDE DEF S
  <2> QED
    BY <1>1, MinSpec
<1> QED
  BY <1>2, <1>3

\* The application is given block p for size words.
Handed(g, p, size) ==
    [g EXCEPT !.own = [o \in DOMAIN @ \cup {p} |-> IF o = p THEN size ELSE @[o]]]

\* rt_malloc keeps the invariant.
LEMMA TakenInv ==
    ASSUME NEW h, HeapInv(h), NEW m \in Nat, NEW size \in Nat, size <= m, NEW p \in Fits(h, m),
           NEW g, g = Taken(h, p, m), NEW f, f = Handed(g, p, size)
    PROVE  HeapInv(f) /\ DOMAIN h.own \subseteq DOMAIN f.own
<1>1. /\ End \in Nat /\ SizeofMem \in Nat /\ SizeofMem > 0 /\ MinSize \in Nat /\ MemSize \in Nat
      /\ End = MemSize + SizeofMem
  BY HeapConstants
<1>2. /\ IsHeap(h) /\ Tiled(h.hdr) /\ Merged(h.hdr)
      /\ h.lfree \in DOMAIN h.hdr /\ h.trimmed \in BOOLEAN /\ (h.trimmed \/ Lowest(h))
      /\ h.own \in [UsedIn(h.hdr) -> Nat]
      /\ \A x \in UsedIn(h.hdr) : Room(h.hdr, x) >= h.own[x]
      /\ h.used_mem = Words(h.hdr, UsedIn(h.hdr))
  BY DEF HeapInv
<1>3. /\ p \in DOMAIN h.hdr /\ ~h.hdr[p].used /\ h.lfree <= p /\ p # End
      /\ Room(h.hdr, p) >= m
  BY DEF Fits, HeapInv, Tiled
<1>4. \A x \in DOMAIN h.hdr : x \in Nat /\ h.hdr[x].used \in BOOLEAN /\ h.hdr[x].next \in Nat
  BY <1>2, UsedFinite
<1>5. /\ h.hdr[p].next \in DOMAIN h.hdr /\ h.hdr[h.hdr[p].next].used /\ p < h.hdr[p].next
      /\ h.hdr[p].next # p
  BY <1>2, <1>3, <1>4, TiledBlock DEF Merged
<1> DEFINE split == Room(h.hdr, p) >= m + SizeofMem + MinSize
           p2 == p + SizeofMem + m
<1>6. PICK cut : cut = IF split THEN Split(h.hdr, p, m) ELSE h.hdr
  OBVIOUS
\* the headers before the flag is set
<1>7. /\ Tiled(cut) /\ p \in DOMAIN cut /\ DOMAIN h.hdr \subseteq DOMAIN cut
      /\ \A o \in DOMAIN cut \ DOMAIN h.hdr :
            ~cut[o].used /\ p < o /\ cut[o].next = h.hdr[p].next /\ o # End
      /\ \A o \in DOMAIN h.hdr : cut[o].used = h.hdr[o].used
      /\ \A o \in DOMAIN h.hdr \ {p} : cut[o].next = h.hdr[o].next
      /\ Room(cut, p) >= m
  <2>1. CASE split
    <3>1. Room(h.hdr, p) >= m + SizeofMem
      BY <1>1, <1>3, <1>4, <2>1 DEF Room
    <3>2. PICK q : q = p + SizeofMem + m
      OBVIOUS
    <3>3. cut = Split(h.hdr, p, m)
      BY <1>6, <2>1
    <3>4. /\ Tiled(cut) /\ DOMAIN cut = DOMAIN h.hdr \cup {q} /\ q \notin DOMAIN h.hdr
          /\ q \in Nat /\ p < q /\ q < h.hdr[p].next /\ q # End /\ q # 0
          /\ ~cut[q].used /\ cut[q].next = h.hdr[p].next /\ cut[q].prev = p
          /\ cut[p].next = q
          /\ \A o \in DOMAIN h.hdr : cut[o].used = h.hdr[o].used
          /\ \A o \in DOMAIN h.hdr \ {p} : cut[o].next = h.hdr[o].next
      <4>1. CutAt(h.hdr, p, q, cut)
        BY <1>2, <1>3, <3>1, <3>2, <3>3, SplitSpec
      <4> QED
        BY <4>1 DEF CutAt
    <3>5. Room(cut, p) >= m
      <4>1. p \in Nat /\ q \in Nat /\ cut[p].next = q
        BY <1>3, <1>4, <3>4
      <4> QED
        BY <1>1, <3>2, <4>1 DEF Room
    <3> QED
      BY <1>3, <3>4, <3>5
  <2>2. CASE ~split
    <3>1. cut = h.hdr
      BY <1>6, <2>2
    <3> QED
      BY <1>2, <1>3, <3>1
  <2> QED
    BY <2>1, <2>2
<1>8. PICK new : new = [cut EXCEPT ![p].used = TRUE]
  OBVIOUS
<1>9. /\ Tiled(new) /\ DOMAIN new = DOMAIN cut
      /\ \A o \in DOMAIN cut : new[o].next = cut[o].next /\ new[o].prev = cut[o].prev
      /\ new[p].used /\ \A o \in DOMAIN cut \ {p} : new[o].used = cut[o].used
  <2>1. PICK b \in BOOLEAN : b = TRUE
    OBVIOUS
  <2>2. new = [cut EXCEPT ![p].used = b]
    BY <1>8, <2>1
  <2>3. /\ Tiled(new) /\ DOMAIN new = DOMAIN cut
        /\ \A o \in DOMAIN cut : new[o].next = cut[o].next /\ new[o].prev = cut[o].prev
        /\ \A o \in DOMAIN cut : new[o].used = IF o = p THEN b ELSE cut[o].used
    <3>1. FlagAt(cut, p, b, new)
      BY <1>3, <1>7, <2>2, FlagTiled
    <3> QED
      BY <3>1 DEF FlagAt
  <2> QED
    BY <1>7, <2>1, <2>3
<1>10. \A x \in DOMAIN new : x \in Nat /\ new[x].used \in BOOLEAN /\ new[x].next \in Nat
  BY <1>9, UsedFinite
<1> DEFINE lfree == IF h.lfree = p THEN NextFree(new, p) ELSE h.lfree
<1>11. g = [h EXCEPT !.hdr = new, !.used_mem = @ + (new[p].next - p),
                     !.lfree = IF @ = p THEN NextFree(new, p) ELSE @]
  BY <1>6, <1>8 DEF Taken
<1>12. /\ IsHeap(f) /\ f.hdr = new /\ f.used_mem = h.used_mem + (new[p].next - p)
       /\ f.lfree = lfree /\ f.trimmed = h.trimmed
       /\ f.own = [o \in DOMAIN h.own \cup {p} |-> IF o = p THEN size ELSE h.own[o]]
  BY <1>2, <1>11 DEF IsHeap, Handed
<1>13. UsedIn(new) = UsedIn(h.hdr) \cup {p} /\ p \notin UsedIn(h.hdr)
  BY <1>3, <1>7, <1>9 DEF UsedIn
<1>14. Merged(new)
  <2> SUFFICES ASSUME NEW o \in DOMAIN new, ~new[o].used PROVE new[new[o].next].used
    BY DEF Merged
  <2>1. o # p
    BY <1>7, <1>9
  <2>2. CASE o \in DOMAIN h.hdr
    <3>1. ~h.hdr[o].used /\ new[o].next = h.hdr[o].next /\ h.hdr[h.hdr[o].next].used
      BY <1>2, <1>7, <1>9, <2>1, <2>2 DEF Merged
    <3>2. h.hdr[o].next \in DOMAIN h.hdr
      BY <1>2, <2>2, <3>1, TiledBlock DEF Tiled
    <3> QED
      BY <1>7, <1>9, <3>1, <3>2
  <2>3. CASE o \notin DOMAIN h.hdr
    BY <1>5, <1>7, <1>9, <2>3
  <2> QED
    BY <2>2, <2>3
<1>15. lfree \in DOMAIN new
  <2>1. NextFree(new, p) \in DOMAIN new
    BY <1>3, <1>7, <1>9, NextFreeSpec
  <2> QED
    BY <1>2, <1>7, <1>9, <2>1
<1>16. ASSUME Lowest(h) PROVE Lowest(f)
  <2>1. ASSUME NEW o \in DOMAIN new, ~new[o].used PROVE h.lfree <= o /\ o # p
    <3>1. o # p /\ o \in Nat /\ h.lfree \in Nat /\ p \in Nat
      BY <1>2, <1>3, <1>4, <1>9, <1>10, <2>1
    <3>2. CASE o \in DOMAIN h.hdr
      BY <1>7, <1>9, <1>16, <2>1, <3>1, <3>2 DEF Lowest
    <3>3. CASE o \notin DOMAIN h.hdr
      BY <1>3, <1>7, <1>9, <3>1, <3>3
    <3> QED
      BY <3>1, <3>2, <3>3
  <2>2. CASE h.lfree = p
    <3>1. /\ lfree \in DOMAIN new /\ (~new[lfree].used \/ lfree = End)
          /\ \A o \in DOMAIN new : p < o /\ ~new[o].used => lfree <= o
      BY <1>3, <1>7, <1>9, <2>2, NextFreeSpec
    <3>2. \A o \in DOMAIN new : ~new[o].used => p < o
      BY <1>3, <1>4, <1>10, <2>1, <2>2
    <3> QED
      BY <1>12, <3>1, <3>2 DEF Lowest
  <2>3. CASE h.lfree # p
    <3>1. ~h.hdr[h.lfree].used \/ h.lfree = End
      BY <1>16 DEF Lowest
    <3>2. ~new[h.lfree].used \/ h.lfree = End
      BY <1>2, <1>7, <1>9, <2>3, <3>1
    <3> QED
      BY <1>12, <2>1, <2>3, <3>2 DEF Lowest
  <2> QED
    BY <2>2, <2>3
<1>17. f.own \in [UsedIn(new) -> Nat]
  BY <1>2, <1>12, <1>13
<1>18. ASSUME NEW x \in UsedIn(new) PROVE Room(new, x) >= f.own[x]
  <2>1. CASE x = p
    <3>1. f.own[p] = size
      BY <1>2, <1>12, <1>13
    <3> QED
      BY <1>1, <1>3, <1>4, <1>7, <1>9, <1>10, <2>1, <3>1 DEF Room
  <2>2. CASE x # p
    <3>1. x \in UsedIn(h.hdr) /\ x \in DOMAIN h.hdr /\ f.own[x] = h.own[x]
      BY <1>2, <1>12, <1>13, <2>2 DEF UsedIn
    <3>2. Room(new, x) = Room(h.hdr, x)
      BY <1>7, <1>9, <2>2, <3>1 DEF Room
    <3> QED
      BY <1>2, <3>1, <3>2
  <2> QED
    BY <2>1, <2>2
<1>19. f.used_mem = Words(new, UsedIn(new))
  <2> DEFINE S == UsedIn(new)
  <2>1. IsFiniteSet(S) /\ S \subseteq Int /\ \A x \in S : new[x].next \in Int
    BY <1>9, UsedFinite
  <2>2. p \in S /\ S \ {p} = UsedIn(h.hdr)
    BY <1>13
  <2>3. \A x \in S \ {p} : h.hdr[x].next = new[x].next
    BY <1>7, <1>9, <2>2 DEF UsedIn
  <2> HIDE DEF S
  <2>4. /\ Words(new, S) = (new[p].next - p) + Words(h.hdr, S \ {p})
        /\ Words(new, S) \in Int /\ Words(h.hdr, S \ {p}) \in Int
    <3>1. IsFiniteSet(S) /\ p \in S /\ Measured(new, S) /\ Agree(h.hdr, new, S \ {p})
      BY <2>1, <2>2, <2>3 DEF Measured, Agree
    <3> QED
      BY ONLY <3>1, WordsAdd
  <2>5. new[p].next - p \in Int
    BY <1>3, <1>4, <1>7, <1>9, <1>10
  <2>6. Words(h.hdr, S \ {p}) = h.used_mem
    BY <1>2, <2>2
  <2>7. f.used_mem = Words(new, S)
    BY <1>12, <2>4, <2>5, <2>6
  <2> QED
    BY <2>7 DEF S
<1>20. DOMAIN h.own \subseteq DOMAIN f.own
  BY <1>12
<1>21. f.trimmed \/ Lowest(f)
  BY <1>2, <1>12, <1>16
<1> QED
  BY <1>2, <1>9, <1>12, <1>14, <1>15, <1>17, <1>18, <1>19, <1>20, <1>21 DEF HeapInv

\* rt_free keeps the invariant.
LEMMA FreedInv ==
    ASSUME NEW h, HeapInv(h), NEW p \in DOMAIN h.own, NEW g, g = Freed(h, p)
    PROVE  HeapInv(g) /\ DOMAIN g.own = DOMAIN h.own \ {p}
<1>1. /\ IsHeap(h) /\ Tiled(h.hdr) /\ Merged(h.hdr)
      /\ h.lfree \in DOMAIN h.hdr /\ h.trimmed \in BOOLEAN /\ (h.trimmed \/ Lowest(h))
      /\ h.own \in [UsedIn(h.hdr) -> Nat]
      /\ \A x \in UsedIn(h.hdr) : Room(h.hdr, x) >= h.own[x]
      /\ h.used_mem = Words(h.hdr, UsedIn(h.hdr))
  BY DEF HeapInv
<1>2. p \in UsedIn(h.hdr) /\ p \in DOMAIN h.hdr /\ h.hdr[p].used /\ p # End
  BY <1>1 DEF UsedIn
<1>3. \A x \in DOMAIN h.hdr : x \in Nat /\ h.hdr[x].used \in BOOLEAN /\ h.hdr[x].next \in Nat
  BY <1>1, UsedFinite
<1>4. PICK new : new = [h.hdr EXCEPT ![p].used = FALSE]
  OBVIOUS
<1>5. /\ Tiled(new) /\ DOMAIN new = DOMAIN h.hdr
      /\ \A o \in DOMAIN h.hdr : new[o].next = h.hdr[o].next /\ new[o].prev = h.hdr[o].prev
      /\ ~new[p].used /\ \A o \in DOMAIN h.hdr \ {p} : new[o].used = h.hdr[o].used
  <2>1. PICK b \in BOOLEAN : b = FALSE
    OBVIOUS
  <2>2. new = [h.hdr EXCEPT ![p].used = b]
    BY <1>4, <2>1
  <2>3. /\ Tiled(new) /\ DOMAIN new = DOMAIN h.hdr
        /\ \A o \in DOMAIN h.hdr : new[o].next = h.hdr[o].next /\ new[o].prev = h.hdr[o].prev
        /\ \A o \in DOMAIN h.hdr : new[o].used = IF o = p THEN b ELSE h.hdr[o].used
    <3>1. FlagAt(h.hdr, p, b, new)
      BY <1>1, <1>2, <2>2, FlagTiled
    <3> QED
      BY <3>1 DEF FlagAt
  <2> QED
    BY <1>2, <2>1, <2>3
<1>6. PICK f : f = [h EXCEPT !.hdr[p].used = FALSE,
                         !.lfree = IF p < @ THEN p ELSE @,
                         !.used_mem = @ - (h.hdr[p].next - p),
                         !.own = [o \in DOMAIN @ \ {p} |-> @[o]]]
  OBVIOUS
<1>7. /\ IsHeap(f) /\ f.hdr = new /\ f.lfree = (IF p < h.lfree THEN p ELSE h.lfree)
      /\ f.used_mem = h.used_mem - (h.hdr[p].next - p) /\ f.trimmed = h.trimmed
      /\ f.own = [o \in DOMAIN h.own \ {p} |-> h.own[o]]
  BY <1>1, <1>4, <1>6 DEF IsHeap
<1>8. g = plug_holes(f, p)
  BY <1>6 DEF Freed
<1>9. ASSUME Lowest(h) PROVE Lowest(f)
  <2>1. h.lfree \in Nat /\ p \in Nat /\ f.lfree \in {p, h.lfree} /\ f.lfree <= p
        /\ f.lfree <= h.lfree
    BY <1>1, <1>2, <1>3, <1>7
  <2>2. ASSUME NEW o \in DOMAIN new, ~new[o].used PROVE f.lfree <= o
    <3>1. o \in Nat
      BY <1>3, <1>5
    <3>2. o # p => h.lfree <= o
      BY <1>5, <1>9, <2>2 DEF Lowest
    <3> QED
      BY <2>1, <3>1, <3>2
  <2>3. f.lfree = End \/ ~new[f.lfree].used
    <3>1. h.lfree # p => h.lfree = End \/ ~new[h.lfree].used
      BY <1>1, <1>5, <1>9 DEF Lowest
    <3> QED
      BY <1>5, <2>1, <3>1
  <2> QED
    BY <1>7, <2>2, <2>3 DEF Lowest
<1>10. \A o \in DOMAIN f.hdr \ {p} :
                ~f.hdr[o].used /\ f.hdr[o].next # p => f.hdr[f.hdr[o].next].used
  <2> TAKE o \in DOMAIN f.hdr \ {p}
  <2> HAVE ~f.hdr[o].used /\ f.hdr[o].next # p
  <2>1. ~h.hdr[o].used /\ o \in DOMAIN h.hdr /\ new[o].next = h.hdr[o].next
    BY <1>5, <1>7
  <2>2. h.hdr[h.hdr[o].next].used /\ h.hdr[o].next \in DOMAIN h.hdr
    BY <1>1, <2>1, TiledBlock DEF Merged, Tiled
  <2> QED
    BY <1>5, <1>7, <2>1, <2>2
<1>11. p \in DOMAIN f.hdr /\ ~f.hdr[p].used /\ f.lfree \in DOMAIN f.hdr /\ Tiled(f.hdr)
  BY <1>1, <1>2, <1>5, <1>7
<1>12. /\ IsHeap(g) /\ Tiled(g.hdr) /\ Merged(g.hdr)
       /\ g.lfree \in DOMAIN g.hdr /\ (Lowest(f) => Lowest(g))
       /\ DOMAIN g.hdr \subseteq DOMAIN f.hdr
       /\ \A o \in DOMAIN f.hdr \ DOMAIN g.hdr : ~f.hdr[o].used
       /\ \A o \in DOMAIN g.hdr : g.hdr[o].used = f.hdr[o].used
       /\ \A o \in DOMAIN g.hdr : f.hdr[o].used => g.hdr[o].next = f.hdr[o].next
       /\ g.used_mem = f.used_mem /\ g.own = f.own /\ g.trimmed = f.trimmed
  <2>1. Plugged(f, g)
    BY <1>2, <1>7, <1>8, <1>10, <1>11, PlugSpec
  <2> QED
    BY <2>1 DEF Plugged
<1>13. UsedIn(g.hdr) = UsedIn(h.hdr) \ {p}
  BY <1>2, <1>5, <1>7, <1>12 DEF UsedIn
<1>14. \A x \in UsedIn(h.hdr) \ {p} : g.hdr[x].next = h.hdr[x].next
  <2> TAKE x \in UsedIn(h.hdr) \ {p}
  <2>1. x \in DOMAIN g.hdr /\ x \in DOMAIN h.hdr /\ f.hdr[x].used /\ f.hdr[x].next = h.hdr[x].next
    BY <1>5, <1>7, <1>13 DEF UsedIn
  <2> QED
    BY <1>12, <2>1
<1>15. g.used_mem = Words(g.hdr, UsedIn(g.hdr))
  <2> DEFINE S == UsedIn(h.hdr)
  <2>1. IsFiniteSet(S) /\ S \subseteq Int /\ \A x \in S : h.hdr[x].next \in Int
    BY <1>1, UsedFinite
  <2>2. p \in S /\ \A x \in S \ {p} : g.hdr[x].next = h.hdr[x].next
    BY <1>2, <1>14
  <2> HIDE DEF S
  <2>3. /\ Words(h.hdr, S) = (h.hdr[p].next - p) + Words(g.hdr, S \ {p})
        /\ Words(h.hdr, S) \in Int /\ Words(g.hdr, S \ {p}) \in Int
    <3>1. IsFiniteSet(S) /\ p \in S /\ Measured(h.hdr, S) /\ Agree(g.hdr, h.hdr, S \ {p})
      BY <2>1, <2>2 DEF Measured, Agree
    <3> QED
      BY ONLY <3>1, WordsAdd
  <2>4. h.hdr[p].next - p \in Int
    BY <1>2, <1>3
  <2>5. UsedIn(g.hdr) = S \ {p}
    BY <1>13 DEF S
  <2>6. h.used_mem = Words(h.hdr, S)
    BY <1>1 DEF S
  <2> QED
    BY <1>7, <1>12, <2>3, <2>4, <2>5, <2>6
<1>16. g.own = [o \in DOMAIN h.own \ {p} |-> h.own[o]]
  BY <1>7, <1>12
<1>17. DOMAIN g.own = DOMAIN h.own \ {p} /\ g.own \in [UsedIn(g.hdr) -> Nat]
  BY <1>1, <1>13, <1>16
<1>18. \A x \in UsedIn(g.hdr) : Room(g.hdr, x) >= g.own[x]
  <2> TAKE x \in UsedIn(g.hdr)
  <2>1. x \in UsedIn(h.hdr) /\ g.own[x] = h.own[x] /\ g.hdr[x].next = h.hdr[x].next
    BY <1>1, <1>13, <1>14, <1>16
  <2> QED
    BY <1>1, <2>1 DEF Room
<1>19. g.trimmed \in BOOLEAN /\ (g.trimmed \/ Lowest(g))
  BY <1>1, <1>7, <1>9, <1>12
<1> QED
  BY <1>12, <1>15, <1>17, <1>18, <1>19 DEF HeapInv

\* What rt_realloc cuts off block p
Shortened(h, p, size) ==
    [h EXCEPT !.hdr = Split(@, p, size), !.used_mem = @ - (Room(h.hdr, p) - size),
              !.own[p] = size, !.trimmed = TRUE]

\* rt_realloc keeps the invariant when it cuts the block.
LEMMA TrimInv ==
    ASSUME NEW h, HeapInv(h), NEW p \in DOMAIN h.own, NEW size \in Nat,
           size + SizeofMem + MinSize < Room(h.hdr, p),
           NEW f, f = Shortened(h, p, size),
           NEW g, g = plug_holes(f, p + SizeofMem + size)
    PROVE  HeapInv(g) /\ DOMAIN g.own = DOMAIN h.own
<1>0. SizeofMem \in Nat /\ SizeofMem > 0 /\ MinSize \in Nat /\ End \in Nat
  BY HeapConstants
<1>1. /\ IsHeap(h) /\ Tiled(h.hdr) /\ Merged(h.hdr)
      /\ h.lfree \in DOMAIN h.hdr
      /\ h.own \in [UsedIn(h.hdr) -> Nat]
      /\ \A x \in UsedIn(h.hdr) : Room(h.hdr, x) >= h.own[x]
      /\ h.used_mem = Words(h.hdr, UsedIn(h.hdr))
  BY DEF HeapInv
<1>2. p \in UsedIn(h.hdr) /\ p \in DOMAIN h.hdr /\ h.hdr[p].used /\ p # End
  BY <1>1 DEF UsedIn
<1>3. \A x \in DOMAIN h.hdr : x \in Nat /\ h.hdr[x].used \in BOOLEAN /\ h.hdr[x].next \in Nat
  BY <1>1, UsedFinite
<1>4. PICK q : q = p + SizeofMem + size
  OBVIOUS
<1>5. Room(h.hdr, p) >= size + SizeofMem
  BY <1>0, <1>2, <1>3 DEF Room
<1>6. PICK new : new = Split(h.hdr, p, size)
  OBVIOUS
<1>7. /\ Tiled(new) /\ DOMAIN new = DOMAIN h.hdr \cup {q} /\ q \notin DOMAIN h.hdr
      /\ q \in Nat /\ p < q /\ q < h.hdr[p].next /\ q # End /\ q # 0
      /\ ~new[q].used /\ new[q].next = h.hdr[p].next /\ new[q].prev = p
      /\ new[p].next = q
      /\ \A o \in DOMAIN h.hdr : new[o].used = h.hdr[o].used
      /\ \A o \in DOMAIN h.hdr \ {p} : new[o].next = h.hdr[o].next
  <2>1. CutAt(h.hdr, p, q, new)
    BY <1>1, <1>2, <1>4, <1>5, <1>6, SplitSpec
  <2> QED
    BY <2>1 DEF CutAt
<1>8. /\ IsHeap(f) /\ f.hdr = new /\ f.lfree = h.lfree /\ f.trimmed
      /\ f.used_mem = h.used_mem - (Room(h.hdr, p) - size)
      /\ f.own = [h.own EXCEPT ![p] = size]
  BY <1>1, <1>6 DEF IsHeap, Shortened
<1>9. g = plug_holes(f, q)
  BY <1>4
<1>10. \A o \in DOMAIN f.hdr \ {q} :
                ~f.hdr[o].used /\ f.hdr[o].next # q => f.hdr[f.hdr[o].next].used
  <2> TAKE o \in DOMAIN f.hdr \ {q}
  <2> HAVE ~f.hdr[o].used /\ f.hdr[o].next # q
  <2>1. ~h.hdr[o].used /\ o \in DOMAIN h.hdr /\ new[o].next = h.hdr[o].next
    BY <1>2, <1>7, <1>8
  <2>2. h.hdr[h.hdr[o].next].used /\ h.hdr[o].next \in DOMAIN h.hdr
    BY <1>1, <2>1, TiledBlock DEF Merged, Tiled
  <2> QED
    BY <1>7, <1>8, <2>1, <2>2
<1>11. q \in DOMAIN f.hdr /\ ~f.hdr[q].used /\ f.lfree \in DOMAIN f.hdr /\ Tiled(f.hdr)
  BY <1>1, <1>7, <1>8
<1>12. /\ IsHeap(g) /\ Tiled(g.hdr) /\ Merged(g.hdr)
       /\ g.lfree \in DOMAIN g.hdr
       /\ DOMAIN g.hdr \subseteq DOMAIN f.hdr
       /\ \A o \in DOMAIN f.hdr \ DOMAIN g.hdr : ~f.hdr[o].used
       /\ \A o \in DOMAIN g.hdr : g.hdr[o].used = f.hdr[o].used
       /\ \A o \in DOMAIN g.hdr : f.hdr[o].used => g.hdr[o].next = f.hdr[o].next
       /\ g.used_mem = f.used_mem /\ g.own = f.own /\ g.trimmed = f.trimmed
  <2>1. Plugged(f, g)
    BY <1>7, <1>8, <1>9, <1>10, <1>11, PlugSpec
  <2> QED
    BY <2>1 DEF Plugged
<1>13. UsedIn(g.hdr) = UsedIn(h.hdr)
  BY <1>2, <1>7, <1>8, <1>12 DEF UsedIn
<1>14. /\ g.hdr[p].next = q
       /\ \A x \in UsedIn(h.hdr) \ {p} : g.hdr[x].next = h.hdr[x].next
  <2>1. \A x \in UsedIn(h.hdr) : x \in DOMAIN g.hdr /\ x \in DOMAIN h.hdr /\ f.hdr[x].used
    BY <1>7, <1>8, <1>13 DEF UsedIn
  <2> QED
    BY <1>2, <1>7, <1>8, <1>12, <2>1
<1>15. g.used_mem = Words(g.hdr, UsedIn(g.hdr))
  <2> DEFINE S == UsedIn(h.hdr)
  <2>1. IsFiniteSet(S) /\ S \subseteq Int /\ \A x \in S : h.hdr[x].next \in Int
    BY <1>1, UsedFinite
  <2>2. \A x \in S : g.hdr[x].next \in Int
    BY <1>12, <1>13, UsedFinite
  <2>3. p \in S /\ \A x \in S \ {p} : g.hdr[x].next = h.hdr[x].next
    BY <1>2, <1>14
  <2> HIDE DEF S
  <2>4. /\ Words(h.hdr, S) = (h.hdr[p].next - p) + Words(g.hdr, S \ {p})
        /\ Words(h.hdr, S) \in Int /\ Words(g.hdr, S \ {p}) \in Int
    <3>1. IsFiniteSet(S) /\ p \in S /\ Measured(h.hdr, S) /\ Agree(g.hdr, h.hdr, S \ {p})
      BY <2>1, <2>3 DEF Measured, Agree
    <3> QED
      BY ONLY <3>1, WordsAdd
  <2>5. IsFiniteSet(S) /\ S \subseteq Int /\ p \in S
    BY <2>1, <2>3
  <2>6. /\ Words(g.hdr, S) = (g.hdr[p].next - p) + Words(g.hdr, S \ {p})
        /\ Words(g.hdr, S) \in Int
    BY ONLY <2>2, <2>5, WordsOne
  <2>7. h.hdr[p].next \in Int /\ p \in Int /\ q \in Int /\ size \in Int
    BY <1>2, <1>3, <1>7
  <2>8. UsedIn(g.hdr) = S /\ h.used_mem = Words(h.hdr, S)
    BY <1>1, <1>13 DEF S
  <2>9. f.used_mem = h.used_mem - (h.hdr[p].next - q)
    BY <1>0, <1>4, <1>8, <2>4, <2>7, <2>8 DEF Room
  <2> QED
    <3>1. g.used_mem = Words(h.hdr, S) - (h.hdr[p].next - q)
      BY <1>12, <2>8, <2>9
    <3>2. Words(g.hdr, S) = (q - p) + Words(g.hdr, S \ {p})
      BY <1>14, <2>6
    <3>3. g.used_mem = Words(g.hdr, S)
      BY ONLY <3>1, <3>2, <2>4, <2>7
    <3> QED
      BY <2>8, <3>3
<1>16. g.own = [h.own EXCEPT ![p] = size]
  BY <1>8, <1>12
<1>17. DOMAIN g.own = DOMAIN h.own /\ g.own \in [UsedIn(g.hdr) -> Nat]
  BY <1>1, <1>13, <1>16
<1>18. \A x \in UsedIn(g.hdr) : Room(g.hdr, x) >= g.own[x]
  <2> TAKE x \in UsedIn(g.hdr)
  <2>1. CASE x = p
    BY <1>0, <1>1, <1>2, <1>3, <1>4, <1>7, <1>13, <1>14, <1>16, <2>1 DEF Room
  <2>2. CASE x # p
    <3>1. x \in UsedIn(h.hdr) /\ g.own[x] = h.own[x] /\ g.hdr[x].next = h.hdr[x].next
      BY <1>1, <1>13, <1>14, <1>16, <2>2
    <3> QED
      BY <1>1, <3>1 DEF Room
  <2> QED
    BY <2>1, <2>2
<1>19. g.trimmed \in BOOLEAN /\ g.trimmed
  BY <1>8, <1>12
<1> QED
  BY <1>12, <1>15, <1>17, <1>18, <1>19 DEF HeapInv

-----------------------------------------------------------------------------
(* The heap among the other objects *)

\* The points inside rt_realloc
HpPoint == {"hp_expand", "hp_copied"}

\* No thread goes on in rt_realloc or leaves it.
StaysOut ==
    /\ DOMAIN pc' = Thread
    /\ \A t \in User : pc'[t].at \in HpPoint => pc'[t] = pc[t]

\* What a thread in rt_realloc holds is its own block.
HoldsOwn ==
    /\ DOMAIN pc = Thread
    /\ \A t \in Reallocating :
        /\ pc[t].arg.old \in DOMAIN heap.own /\ pc[t].arg.newsize \in Sizes
        /\ \A u \in Reallocating : t # u => pc[t].arg.old # pc[u].arg.old

\* The inductive invariant of the heap and of the threads in rt_realloc
HpInv == HeapInv(heap) /\ HoldsOwn

\* A call of another object leaves rt_realloc alone.
LEMMA OutGoto ==
    ASSUME DOMAIN pc = Thread, NEW t, NEW at, at \notin HpPoint, NEW arg, Goto(t, at, arg)
    PROVE  StaysOut
BY DEF StaysOut, Goto, HpPoint

\* So does a step that leaves all threads where they are.
LEMMA OutSame ==
    ASSUME DOMAIN pc = Thread, UNCHANGED pc
    PROVE  StaysOut
BY DEF StaysOut

\* The steps of the scheduler, the tick and rt_thread_sleep stay out of rt_realloc.
LEMMA OutSystem ==
    ASSUME DOMAIN pc = Thread, SystemStep PROVE StaysOut
<1>1. ASSUME NEW t, CallSchedule(t) PROVE StaysOut
  <2>1. After[pc[t].at] \notin HpPoint /\ Goto(t, After[pc[t].at], pc[t].arg)
    BY <1>1 DEF CallSchedule, After, HpPoint
  <2> QED
    BY <2>1, OutGoto
<1>2. ASSUME NEW t, Slept(t) PROVE StaysOut
  BY <1>2, OutGoto DEF Slept, HpPoint
<1>3. ASSUME NEW t, NEW d, Sleep(t, d) PROVE StaysOut
  BY <1>3, OutGoto DEF Sleep, HpPoint
<1>4. CASE TickInterrupt
  BY <1>4, OutSame DEF TickInterrupt
<1> QED
  BY <1>1, <1>2, <1>3, <1>4 DEF SystemStep

\* So do delete and the change of a priority
LEMMA OutIpc ==
    ASSUME DOMAIN pc = Thread, IpcStep(Deletable) PROVE StaysOut
<1>1. ASSUME NEW t, NEW o, Delete(t, o) PROVE StaysOut
  BY <1>1, OutGoto DEF Delete, HpPoint
<1>2. ASSUME NEW t, WakeCheck(t) PROVE StaysOut
  <2>1. \/ Goto(t, "wake_one", pc[t].arg) \/ Goto(t, "wake_check", Second[pc[t].arg])
        \/ Goto(t, "run", t)
    BY <1>2 DEF WakeCheck
  <2> QED
    BY <2>1, OutGoto DEF HpPoint
<1>3. ASSUME NEW t, WakeOne(t) PROVE StaysOut
  BY <1>3, OutGoto DEF WakeOne, HpPoint
<1>4. ASSUME NEW t, NEW u, NEW p, Control(t, u, p) PROVE StaysOut
  BY <1>4, OutSame DEF Control
<1> QED
  BY <1>1, <1>2, <1>3, <1>4, OutSystem DEF IpcStep

\* the event
LEMMA OutEv ==
    ASSUME DOMAIN pc = Thread, EvStep(sys.producer, sys.consumer) PROVE StaysOut
<1>1. ASSUME NEW set, EvIsrSend(set) PROVE StaysOut
  BY <1>1, OutSame DEF EvIsrSend
<1>2. ASSUME NEW t, NEW set, EvSend(t, set) PROVE StaysOut
  <2>1. Goto(t, "sched", t) \/ UNCHANGED pc
    BY <1>2 DEF EvSend
  <2> QED
    BY <2>1, OutGoto, OutSame DEF HpPoint
<1>3. ASSUME NEW t, NEW w, EvRecv(t, w) PROVE StaysOut
  BY <1>3, OutSame DEF EvRecv, kernel
<1>4. ASSUME NEW t, NEW w, NEW time, EvRecvBlocks(t, w, time) PROVE StaysOut
  BY <1>4, OutGoto DEF EvRecvBlocks, HpPoint
<1>5. ASSUME NEW t, EvRecvReturns(t) PROVE StaysOut
  BY <1>5, OutGoto DEF EvRecvReturns, HpPoint
<1>6. ASSUME NEW t, EvReset(t) PROVE StaysOut
  BY <1>6, OutGoto DEF EvReset, HpPoint
<1> QED
  BY <1>1, <1>2, <1>3, <1>4, <1>5, <1>6 DEF EvStep

\* the memory pool
LEMMA OutMp ==
    ASSUME DOMAIN pc = Thread, MpStep(sys.consumer) PROVE StaysOut
<1>1. CASE MpIsrAlloc
  BY <1>1, OutSame DEF MpIsrAlloc, kernel
<1>2. ASSUME NEW b, MpIsrFree(b) PROVE StaysOut
  BY <1>2, OutSame DEF MpIsrFree
<1>3. ASSUME NEW t, MpAlloc(t) PROVE StaysOut
  BY <1>3, OutSame DEF MpAlloc, kernel
<1>4. ASSUME NEW t, NEW time, MpBlocks(t, time) PROVE StaysOut
  BY <1>4, OutGoto DEF MpBlocks, WaitFirst, Wait, HpPoint
<1>5. ASSUME NEW t, MpFails(t) PROVE StaysOut
  BY <1>5, OutGoto DEF MpFails, WaitFails, HpPoint
<1>6. ASSUME NEW t, MpResumed(t) PROVE StaysOut
  BY <1>6, OutGoto DEF MpResumed, HpPoint
<1>7. ASSUME NEW t, MpAllocResumed(t) PROVE StaysOut
  BY <1>7, OutGoto DEF MpAllocResumed, HpPoint
<1>8. ASSUME NEW t, MpAgain(t) PROVE StaysOut
  BY <1>8, OutGoto DEF MpAgain, WaitAgain, Wait, HpPoint
<1>9. ASSUME NEW t, MpGivesUp(t) PROVE StaysOut
  BY <1>9, OutGoto DEF MpGivesUp, HpPoint
<1>10. ASSUME NEW t, NEW b, MpFree(t, b) PROVE StaysOut
  <2>1. Goto(t, "sched", t) \/ UNCHANGED pc
    BY <1>10 DEF MpFree
  <2> QED
    BY <2>1, OutGoto, OutSame DEF HpPoint
<1>11. ASSUME NEW t, MpDelete(t) PROVE StaysOut
  BY <1>11, OutGoto DEF MpDelete, HpPoint
<1>12. ASSUME NEW t, MpWakeCheck(t) PROVE StaysOut
  <2>1. Goto(t, "mp_wake", Mp) \/ Goto(t, "run", t)
    BY <1>12 DEF MpWakeCheck
  <2> QED
    BY <2>1, OutGoto DEF HpPoint
<1>13. ASSUME NEW t, MpWakeOne(t) PROVE StaysOut
  BY <1>13, OutGoto DEF MpWakeOne, HpPoint
<1> QED
  BY <1>1, <1>2, <1>3, <1>4, <1>5, <1>6, <1>7, <1>8, <1>9, <1>10, <1>11, <1>12, <1>13
  DEF MpStep

\* the completion
LEMMA OutCp ==
    ASSUME DOMAIN pc = Thread, CpStep(sys.producer, sys.consumer) PROVE StaysOut
<1>1. CASE CpIsrDone
  BY <1>1, OutSame DEF CpIsrDone, IsrResumeFirst
<1>2. ASSUME NEW t, CpDone(t) PROVE StaysOut
  BY <1>2, OutGoto DEF CpDone, HpPoint
<1>3. ASSUME NEW t, CpDoneSets(t) PROVE StaysOut
  <2>1. Goto(t, "sched", t) \/ Goto(t, "run", t)
    BY <1>3 DEF CpDoneSets, ResumeFirst
  <2> QED
    BY <2>1, OutGoto DEF HpPoint
<1>4. ASSUME NEW t, CpWait(t) PROVE StaysOut
  BY <1>4, OutSame DEF CpWait, kernel
<1>5. ASSUME NEW t, CpWaitReturns(t) PROVE StaysOut
  BY <1>5, OutGoto DEF CpWaitReturns, HpPoint
<1>6. ASSUME NEW t, NEW time, CpWaitBlocks(t, time) PROVE StaysOut
  BY <1>6, OutGoto DEF CpWaitBlocks, CpSuspend, HpPoint
<1> QED
  BY <1>1, <1>2, <1>3, <1>4, <1>5, <1>6 DEF CpStep

\* and the work queue.
LEMMA OutWq ==
    ASSUME DOMAIN pc = Thread, WqStep(sys.producer) PROVE StaysOut
<1>1. CASE WorkerCheck
  <2>1. Goto(Worker, "wq_suspend", Worker) \/ Goto(Worker, "take_ret", Worker)
    BY <1>1 DEF WorkerCheck
  <2> QED
    BY <2>1, OutGoto DEF HpPoint
<1>2. CASE WorkerSuspend
  BY <1>2, OutGoto DEF WorkerSuspend, HpPoint
<1>3. CASE WorkerTake
  BY <1>3, OutGoto DEF WorkerTake, HpPoint
<1>4. CASE WorkerDone
  BY <1>4, OutGoto DEF WorkerDone, HpPoint
<1>5. CASE WorkerAck
  BY <1>5, OutGoto DEF WorkerAck, HpPoint
<1>6. ASSUME NEW w, DelayedTimeout(w) PROVE StaysOut
  BY <1>6, OutSame DEF DelayedTimeout
<1>7. ASSUME NEW t, NEW w, Submit(t, w) PROVE StaysOut
  <2>1. Goto(t, "wq_resume", t) \/ Goto(t, "run", t)
    BY <1>7 DEF Submit
  <2> QED
    BY <2>1, OutGoto DEF HpPoint
<1>8. ASSUME NEW t, NEW w, CriticalWork(t, w) PROVE StaysOut
  <2>1. Goto(t, "wq_resume", t) \/ Goto(t, "run", t)
    BY <1>8 DEF CriticalWork
  <2> QED
    BY <2>1, OutGoto DEF HpPoint
<1>9. ASSUME NEW t, NEW w, CancelWork(t, w) \/ CancelSync(t, w) PROVE StaysOut
  BY <1>9, OutSame DEF CancelWork, CancelSync, kernel
<1>10. ASSUME NEW t, NEW w, CancelSyncBlocks(t, w) PROVE StaysOut
  BY <1>10, OutGoto DEF CancelSyncBlocks, HpPoint
<1>11. ASSUME NEW t, NEW w, DelayedNow(t, w) PROVE StaysOut
  <2>1. Goto(t, "wq_resume", t) \/ Goto(t, "run", t)
    BY <1>11 DEF DelayedNow
  <2> QED
    BY <2>1, OutGoto DEF HpPoint
<1>12. ASSUME NEW t, NEW w, DelayedStart(t, w) PROVE StaysOut
  BY <1>12, OutSame DEF DelayedStart, kernel
<1>13. ASSUME NEW t, NEW w, DelayedCancel(t, w) PROVE StaysOut
  BY <1>13, OutGoto DEF DelayedCancel, HpPoint
<1>14. ASSUME NEW t, ResumeWorker(t) \/ CancelSyncReturns(t) \/ DelayedStop(t) PROVE StaysOut
  <2>1. Goto(t, "sched", t) \/ Goto(t, "run", t)
    BY <1>14 DEF ResumeWorker, CancelSyncReturns, DelayedStop
  <2> QED
    BY <2>1, OutGoto DEF HpPoint
<1> QED
  BY <1>1, <1>2, <1>3, <1>4, <1>5, <1>6, <1>7, <1>8, <1>9, <1>10, <1>11, <1>12, <1>13, <1>14
  DEF WqStep, SubmitWork

-----------------------------------------------------------------------------
(* The steps of the heap *)

\* Allocate keeps the invariant and the blocks that are handed out.
LEMMA AllocateInv ==
    ASSUME HeapInv(heap), NEW size \in Sizes, Found(size), Allocate(size)
    PROVE  HeapInv(heap') /\ DOMAIN heap.own \subseteq DOMAIN heap'.own
<1>1. PICK m : m = AtLeastMin(size)
  OBVIOUS
<1>2. m \in Nat /\ size \in Nat /\ size <= m
  BY <1>1, HeapConstants DEF AtLeastMin
<1>3. PICK p : p = FirstFit(size)
  OBVIOUS
<1>4. p \in Fits(heap, m)
  <2> DEFINE S == Fits(heap, m)
  <2>1. S \subseteq DOMAIN heap.hdr
    BY DEF Fits
  <2>2. S \subseteq Nat /\ S # {}
    BY <1>1, <2>1, UsedFinite DEF HeapInv, Found
  <2>3. p = Min(S)
    BY <1>1, <1>3 DEF FirstFit
  <2> HIDE DEF S
  <2>4. Min(S) \in S
    BY <2>2, MinSpec
  <2> QED
    BY <2>3, <2>4 DEF S
<1>5. PICK g : g = Taken(heap, p, m)
  OBVIOUS
<1>6. heap' = Handed(g, p, size)
  BY <1>1, <1>3, <1>5 DEF Allocate, Handed
<1> QED
  BY <1>2, <1>4, <1>5, <1>6, TakenInv

\* The blocks at which nobody works are kept.
LEMMA HoldsSame ==
    ASSUME HoldsOwn, StaysOut, DOMAIN heap.own \subseteq DOMAIN heap'.own
    PROVE  HoldsOwn'
BY DEF HoldsOwn, StaysOut, Reallocating, HpPoint

\* Every section of rt_malloc, rt_free and rt_realloc keeps the invariant.
LEMMA HpStepInv ==
    ASSUME HpInv, sys.consumer \subseteq User, HpStep(sys.consumer)
    PROVE  HpInv'
<1>1. HeapInv(heap) /\ HoldsOwn /\ DOMAIN pc = Thread
  BY DEF HpInv, HoldsOwn
<1>2. \A size \in Sizes : size \in Nat
  BY HeapConstants
<1>3. ASSUME NEW t \in sys.consumer, NEW size \in Sizes, HpMalloc(t, size) PROVE HpInv'
  BY <1>1, <1>3, AllocateInv, HoldsSame, OutSame DEF HpMalloc, kernel, HpInv
<1>4. ASSUME NEW t \in sys.consumer, NEW p \in Mine, HpFree(t, p) PROVE HpInv'
  <2>1. HeapInv(heap') /\ DOMAIN heap'.own = DOMAIN heap.own \ {p} /\ UNCHANGED pc
    BY <1>1, <1>4, FreedInv DEF HpFree, kernel, Mine
  <2>2. HoldsOwn'
    BY <1>1, <2>1 DEF HoldsOwn, Reallocating, Mine
  <2> QED
    BY <2>1, <2>2 DEF HpInv
<1>5. ASSUME NEW t \in sys.consumer, NEW p \in Mine, NEW size \in Sizes, HpReallocInPlace(t, p, size)
      PROVE  HpInv'
  <2>1. p \in DOMAIN heap.own /\ UNCHANGED pc
    BY <1>5 DEF HpReallocInPlace, kernel, Mine
  <2>2. CASE Room(heap.hdr, p) = size /\ heap' = [heap EXCEPT !.own[p] = size]
    <3>1. IsHeap(heap) /\ heap.own \in [UsedIn(heap.hdr) -> Nat]
          /\ \A x \in UsedIn(heap.hdr) : Room(heap.hdr, x) >= heap.own[x]
      BY <1>1 DEF HeapInv
    <3>2. IsHeap(heap') /\ heap'.hdr = heap.hdr /\ heap'.lfree = heap.lfree
          /\ heap'.used_mem = heap.used_mem /\ heap'.trimmed = heap.trimmed
          /\ heap'.own = [heap.own EXCEPT ![p] = size]
      BY <2>2, <3>1 DEF IsHeap
    <3>3. heap'.own \in [UsedIn(heap.hdr) -> Nat] /\ DOMAIN heap'.own = DOMAIN heap.own
      BY <1>2, <2>1, <3>1, <3>2
    <3>4. \A x \in UsedIn(heap.hdr) : Room(heap.hdr, x) >= heap'.own[x]
      BY <1>2, <2>1, <2>2, <3>1, <3>2
    <3>5. HeapInv(heap')
      BY <1>1, <3>2, <3>3, <3>4 DEF HeapInv, Lowest
    <3> QED
      BY <1>1, <2>1, <3>3, <3>5, OutSame, HoldsSame DEF HpInv
  <2>3. CASE Trims(p, size) /\ heap' = plug_holes(
                [heap EXCEPT !.hdr = Split(@, p, size),
                             !.used_mem = @ - (Room(heap.hdr, p) - size),
                             !.own[p] = size, !.trimmed = TRUE],
                p + SizeofMem + size)
    <3>1. PICK f : f = Shortened(heap, p, size)
      OBVIOUS
    <3>2. heap' = plug_holes(f, p + SizeofMem + size)
      BY <2>3, <3>1 DEF Shortened
    <3>3. size + SizeofMem + MinSize < Room(heap.hdr, p)
      BY <2>3 DEF Trims
    <3>4. HeapInv(heap') /\ DOMAIN heap'.own = DOMAIN heap.own
      BY <1>1, <1>2, <2>1, <3>1, <3>2, <3>3, TrimInv
    <3> QED
      BY <1>1, <2>1, <3>4, OutSame, HoldsSame DEF HpInv
  <2> QED
    BY <1>5, <2>2, <2>3 DEF HpReallocInPlace
<1>6. ASSUME NEW t \in sys.consumer, NEW p \in Mine, NEW size \in Sizes, HpReallocMoves(t, p, size)
      PROVE  HpInv'
  <2>1. /\ heap' = heap /\ t \in User /\ p \in Mine
        /\ pc' = [pc EXCEPT ![t] = [at |-> "hp_expand", arg |-> [old |-> p, newsize |-> size]]]
    BY <1>6 DEF HpReallocMoves, Goto
  <2>2. HoldsOwn'
    <3>1. DOMAIN pc' = Thread /\ t \in Thread
      BY <1>1, <2>1 DEF User
    <3>2. pc'[t].arg.old = p /\ pc'[t].arg.newsize = size
      BY <1>1, <2>1, <3>1
    <3>3. \A u \in User \ {t} : pc'[u] = pc[u]
      BY <1>1, <2>1 DEF User
    <3>4. Reallocating' \subseteq Reallocating \cup {t}
      BY <3>3 DEF Reallocating
    <3>5. \A u \in Reallocating : pc[u].arg.old # p /\ p \in DOMAIN heap.own
      BY <2>1 DEF Mine
    <3>6. p \in DOMAIN heap.own
      BY <2>1 DEF Mine
    <3>7. \A u \in Reallocating' \ {t} : u \in Reallocating /\ pc'[u] = pc[u]
      BY <3>3, <3>4 DEF Reallocating
    <3> QED
      BY <1>1, <2>1, <3>1, <3>2, <3>5, <3>6, <3>7 DEF HoldsOwn
  <2> QED
    BY <1>1, <2>1, <2>2 DEF HpInv
<1>7. ASSUME NEW t \in sys.consumer, HpReallocMalloc(t) PROVE HpInv'
  <2>1. t \in Reallocating /\ t \in User /\ pc[t].at = "hp_expand" /\ pc[t].arg.newsize \in Sizes
    BY <1>1, <1>7 DEF HpReallocMalloc, Is, Reallocating, HoldsOwn
  <2>2. CASE Found(pc[t].arg.newsize)
    <3>1. /\ Allocate(pc[t].arg.newsize)
          /\ pc' = [pc EXCEPT ![t] = [at |-> "hp_copied", arg |-> pc[t].arg]]
      BY <1>7, <2>2 DEF HpReallocMalloc, Goto
    <3>2. HeapInv(heap') /\ DOMAIN heap.own \subseteq DOMAIN heap'.own
      BY <1>1, <2>1, <2>2, <3>1, AllocateInv
    <3>3. DOMAIN pc' = Thread /\ \A u \in User : pc'[u].arg = pc[u].arg
      BY <1>1, <3>1 DEF User
    <3>4. Reallocating' = Reallocating
      <4>1. \A u \in User \ {t} : pc'[u] = pc[u]
        BY <1>1, <3>1 DEF User
      <4>2. pc'[t].at = "hp_copied"
        BY <1>1, <2>1, <3>1 DEF User
      <4> QED
        BY <2>1, <4>1, <4>2 DEF Reallocating
    <3>5. HoldsOwn'
      BY <1>1, <3>2, <3>3, <3>4 DEF HoldsOwn, Reallocating
    <3> QED
      BY <3>2, <3>5 DEF HpInv
  <2>3. CASE ~Found(pc[t].arg.newsize)
    <3>1. heap' = heap /\ Goto(t, "run", t)
      BY <1>7, <2>3 DEF HpReallocMalloc
    <3> QED
      BY <1>1, <3>1, OutGoto, HoldsSame DEF HpInv, HpPoint
  <2> QED
    BY <2>2, <2>3
<1>8. ASSUME NEW t \in sys.consumer, HpReallocFree(t) PROVE HpInv'
  <2>1. /\ t \in Reallocating /\ t \in User /\ pc[t].arg.old \in DOMAIN heap.own
        /\ heap' = Freed(heap, pc[t].arg.old)
        /\ pc' = [pc EXCEPT ![t] = [at |-> "run", arg |-> t]]
    BY <1>1, <1>8 DEF HpReallocFree, Is, Goto, Reallocating, HoldsOwn
  <2>2. HeapInv(heap') /\ DOMAIN heap'.own = DOMAIN heap.own \ {pc[t].arg.old}
    BY <1>1, <2>1, FreedInv
  <2>3. HoldsOwn'
    <3>1. DOMAIN pc' = Thread /\ pc'[t].at = "run" /\ \A u \in User \ {t} : pc'[u] = pc[u]
      BY <1>1, <2>1 DEF User
    <3>2. Reallocating' \subseteq Reallocating \ {t}
      BY <3>1 DEF Reallocating
    <3>3. \A u \in Reallocating' : u \in Reallocating /\ u # t /\ pc'[u] = pc[u]
      BY <3>1, <3>2 DEF Reallocating
    <3>4. \A u \in Reallocating' : pc[u].arg.old \in DOMAIN heap'.own
      BY <1>1, <2>1, <2>2, <3>3 DEF HoldsOwn
    <3> QED
      BY <1>1, <3>1, <3>3, <3>4 DEF HoldsOwn
  <2> QED
    BY <2>2, <2>3 DEF HpInv
<1> QED
  BY <1>3, <1>4, <1>5, <1>6, <1>7, <1>8 DEF HpStep

\* The empty heap has it.
LEMMA HpInitInv == ASSUME Init PROVE HpInv
<1>1. End \in Nat /\ End > 0 /\ SizeofMem \in Nat /\ SizeofMem > 0 /\ End >= SizeofMem
  BY HeapConstants
<1> DEFINE hdr == [o \in {0, End} |-> [used |-> o = End, next |-> End, prev |-> o]]
<1>2. heap = [lfree |-> 0, used_mem |-> 0, hdr |-> hdr, own |-> [o \in {} |-> 0], trimmed |-> FALSE]
  BY DEF Init, HpInit
<1>3. /\ DOMAIN hdr = {0, End} /\ hdr[0] = [used |-> FALSE, next |-> End, prev |-> 0]
      /\ hdr[End] = [used |-> TRUE, next |-> End, prev |-> End]
  <2>1. DOMAIN hdr = {0, End}
    OBVIOUS
  <2>2. 0 # End
    BY <1>1
  <2> QED
    BY <2>1, <2>2
<1>4. hdr \in [{0, End} -> Header]
  BY <1>1 DEF Header
<1> HIDE DEF hdr
<1>5. Tiled(hdr)
  BY <1>1, <1>3, <1>4 DEF Tiled
<1>6. Merged(hdr) /\ UsedIn(hdr) = {}
  BY <1>1, <1>3 DEF Merged, UsedIn
<1>7. Lowest(heap) /\ IsHeap(heap)
  BY <1>1, <1>2, <1>3 DEF Lowest, IsHeap
<1>8. HeapInv(heap)
  BY <1>2, <1>3, <1>5, <1>6, <1>7, WordsNone DEF HeapInv
<1>9. HoldsOwn
  BY DEF Init, HoldsOwn, Reallocating, User
<1> QED
  BY <1>8, <1>9 DEF HpInv

\* Every step of the system keeps it.
LEMMA HpNextInv ==
    ASSUME HpInv, sys \in Systems, [Next]_vars
    PROVE  HpInv' /\ sys' \in Systems
<1>1. HeapInv(heap) /\ HoldsOwn /\ DOMAIN pc = Thread
  BY DEF HpInv, HoldsOwn
<1>2. ASSUME UNCHANGED heap, StaysOut PROVE HpInv'
  BY <1>1, <1>2, HoldsSame DEF HpInv
<1>3. CASE UNCHANGED vars
  BY <1>1, <1>2, <1>3, OutSame DEF vars, kernel
<1>4. CASE Next
  <2>1. sys' = sys
    BY <1>4 DEF Next
  <2>2. CASE IpcStep(Deletable) /\ UNCHANGED heap
    BY <1>1, <1>2, <2>1, <2>2, OutIpc
  <2>3. CASE EvStep(sys.producer, sys.consumer) /\ UNCHANGED heap
    BY <1>1, <1>2, <2>1, <2>3, OutEv
  <2>4. CASE MpStep(sys.consumer) /\ UNCHANGED heap
    BY <1>1, <1>2, <2>1, <2>4, OutMp
  <2>5. CASE CpStep(sys.producer, sys.consumer) /\ UNCHANGED heap
    BY <1>1, <1>2, <2>1, <2>5, OutCp
  <2>6. CASE WqStep(sys.producer) /\ UNCHANGED heap
    BY <1>1, <1>2, <2>1, <2>6, OutWq
  <2>7. CASE HpStep(sys.consumer)
    <3>1. sys.consumer \subseteq User
      BY ObjectsAssumption
    <3> QED
      BY <2>1, <2>7, <3>1, HpStepInv
  <2> QED
    BY <1>4, <2>1, <2>2, <2>3, <2>4, <2>5, <2>6, <2>7 DEF Next
<1> QED
  BY <1>3, <1>4 DEF Next, vars

\* It implies what the runs check.
LEMMA HpSafe ==
    ASSUME HpInv PROVE HeapWellFormed /\ AllocationsIntact
<1>1. HeapInv(heap)
  BY DEF HpInv
<1>2. HeapTiled
  <2>1. Tiled(heap.hdr) /\ heap.lfree \in DOMAIN heap.hdr
    BY <1>1 DEF HeapInv
  <2>2. 0 \in DOMAIN heap.hdr \ {End} /\ heap.hdr[0].prev = 0
    BY <2>1, HeapConstants DEF Tiled
  <2>3. ASSUME NEW p \in DOMAIN heap.hdr \ {End}
        PROVE  /\ heap.hdr[p].next \in DOMAIN heap.hdr /\ Room(heap.hdr, p) >= 0
               /\ \A o \in DOMAIN heap.hdr : ~(p < o /\ o < heap.hdr[p].next)
               /\ heap.hdr[p].next # End => heap.hdr[heap.hdr[p].next].prev = p
    <3>1. p \in Nat /\ heap.hdr[p].next \in Nat /\ SizeofMem \in Nat
          /\ heap.hdr[p].next - p >= SizeofMem
      BY <2>1, TiledBlock, HeapConstants
    <3>2. Room(heap.hdr, p) >= 0
      BY <3>1 DEF Room
    <3> QED
      BY <2>1, <3>2 DEF Tiled
  <2> QED
    BY <2>1, <2>2, <2>3 DEF HeapTiled
<1>3. FreeBlocksMerged
  BY <1>1 DEF HeapInv, Merged, FreeBlocksMerged
<1>4. LowestFree
  BY <1>1, LowestIsMin DEF HeapInv, LowestFree
<1>5. AllocationsIntact
  BY <1>1 DEF HeapInv, AllocationsIntact, UsedIn, Words
<1> QED
  BY <1>2, <1>3, <1>4, <1>5 DEF HeapWellFormed

\* However rt_malloc, rt_free and the sections of rt_realloc of several threads
\* follow each other, the blocks tile the heap, the links agree in both directions,
\* no two free blocks lie side by side, and lfree is the lowest free block as long
\* as rt_realloc has cut none.
THEOREM HeapStaysWellFormed == Spec => []HeapWellFormed
<1>1. Init => HpInv /\ sys \in Systems
  BY HpInitInv DEF Init
<1>2. HpInv /\ sys \in Systems /\ [Next]_vars => (HpInv /\ sys \in Systems)'
  BY HpNextInv
<1>3. HpInv /\ sys \in Systems => HeapWellFormed
  BY HpSafe
<1> QED
  BY <1>1, <1>2, <1>3, PTL DEF Spec

\* The used blocks are exactly those the application has, each has the room that was
\* asked for, and used_mem is the sum of their sizes, for every size of the heap.
THEOREM AllocationsStayIntact == Spec => []AllocationsIntact
<1>1. Init => HpInv /\ sys \in Systems
  BY HpInitInv DEF Init
<1>2. HpInv /\ sys \in Systems /\ [Next]_vars => (HpInv /\ sys \in Systems)'
  BY HpNextInv
<1>3. HpInv /\ sys \in Systems => AllocationsIntact
  BY HpSafe
<1> QED
  BY <1>1, <1>2, <1>3, PTL DEF Spec

-----------------------------------------------------------------------------
(* The walks along a suspend list *)

\* One turn of the walk of rt_event_send, of that of the worker that announces the
\* end of a work, and of that of rt_event_control
Turn(kind, r, t) ==
    IF kind = "offer" THEN EvOffer(r, t)
    ELSE IF kind = "signal" THEN rt_ipc_list_resume(r, WqSem)
    ELSE ResumeOneWithError(r, Ev)

TurnBody(kind, base, seq, S, g) ==
    [s \in SUBSET S |-> IF s = {} THEN base
                        ELSE Turn(kind, g[s \ {Max(s)}], seq[Max(s)])]

\* The recursion of the walk defines a function.
LEMMA WalkExists ==
    ASSUME NEW kind, NEW base, NEW seq, NEW n \in Nat
    PROVE  \E f : f = TurnBody(kind, base, seq, 1 .. n, f)
<1> DEFINE S == 1 .. n
           Small(m) == {s \in SUBSET S : Cardinality(s) <= m}
           Body(m, f) == [s \in Small(m) |-> IF s = {} THEN base
                                ELSE Turn(kind, f[s \ {Max(s)}], seq[Max(s)])]
           I == {m \in Nat : \E f : f = Body(m, f)}
<1>1. \A s \in SUBSET S : IsFiniteSet(s) /\ Cardinality(s) \in Nat /\ Cardinality(s) <= n
                           /\ (Cardinality(s) = 0 <=> s = {})
  <2>1. IsFiniteSet(S) /\ Cardinality(S) = n
    <3>1. IsFiniteSet(1 .. n) /\ Cardinality(1 .. n) = IF 1 > n THEN 0 ELSE n - 1 + 1
      BY FS_Interval
    <3> QED
      BY <3>1
  <2> HIDE DEF S
  <2> QED
    BY <2>1, FS_Subset, FS_CardinalityType, FS_EmptySet
<1>2. \A s \in SUBSET S : s # {} => /\ s \ {Max(s)} \in SUBSET S
                                    /\ Cardinality(s \ {Max(s)}) = Cardinality(s) - 1
  <2> SUFFICES ASSUME NEW s \in SUBSET S, s # {}
               PROVE  /\ s \ {Max(s)} \in SUBSET S
                      /\ Cardinality(s \ {Max(s)}) = Cardinality(s) - 1
    OBVIOUS
  <2>1. Max(s) \in s
    BY MaxSpec
  <2> QED
    BY <1>1, <2>1, FS_RemoveElement
<1>3. 0 \in I
  <2> DEFINE f == [s \in Small(0) |-> base]
  <2>1. \A s \in Small(0) : s = {}
    BY <1>1
  <2>2. f = Body(0, f)
    BY <2>1
  <2> QED
    BY <2>2
<1>4. ASSUME NEW m \in Nat, m \in I PROVE m + 1 \in I
  <2>1. PICK f : f = Body(m, f)
    BY <1>4
  <2> DEFINE g == Body(m + 1, f)
  <2>2. \A s \in Small(m + 1) : s # {} => s \ {Max(s)} \in Small(m)
    BY <1>1, <1>2
  <2>3. \A s \in Small(m) : s \in Small(m + 1) /\ f[s] = g[s]
    <3> SUFFICES ASSUME NEW s \in Small(m) PROVE s \in Small(m + 1) /\ f[s] = g[s]
      OBVIOUS
    <3>1. s \in Small(m + 1)
      BY <1>1
    <3>2. f[s] = Body(m, f)[s]
      BY <2>1
    <3> QED
      BY <3>1, <3>2
  <2>4. g = Body(m + 1, g)
    <3>1. \A s \in Small(m + 1) : Body(m + 1, f)[s] = Body(m + 1, g)[s]
      <4> SUFFICES ASSUME NEW s \in Small(m + 1), s # {}
                   PROVE  f[s \ {Max(s)}] = g[s \ {Max(s)}]
        BY Zenon
      <4> HIDE DEF g, Small
      <4> QED
        BY <2>2, <2>3
    <3> QED
      BY <3>1
  <2> HIDE DEF g, Body
  <2> QED
    BY <2>4
<1>5. \A m \in Nat : m \in I
  <2> HIDE DEF I
  <2> QED
    BY <1>3, <1>4, AllNumbers
<1>6. Small(n) = SUBSET S
  BY <1>1
<1>7. PICK f : f = Body(n, f)
  BY <1>5
<1>8. Body(n, f) = TurnBody(kind, base, seq, S, f)
  BY <1>6 DEF TurnBody
<1> QED
  BY <1>7, <1>8

\* A walk along n threads, turn by turn
Walk(kind, base, seq, n, c) ==
    /\ c[0] = base
    /\ \A i \in 1 .. n : c[i] = Turn(kind, c[i - 1], seq[i])

\* Its values on the first elements are the states of the walk.
LEMMA WalkChain ==
    ASSUME NEW kind, NEW base, NEW seq, NEW n \in Nat,
           NEW f, f = TurnBody(kind, base, seq, 1 .. n, f)
    PROVE  \E c : Walk(kind, base, seq, n, c) /\ c[n] = f[1 .. n]
<1> DEFINE c == [i \in 0 .. n |-> f[1 .. i]]
<1>1. \A s \in SUBSET (1 .. n) : f[s] = IF s = {} THEN base
                                         ELSE Turn(kind, f[s \ {Max(s)}], seq[Max(s)])
  <2> DEFINE b == TurnBody(kind, base, seq, 1 .. n, f)
  <2>1. \A s \in SUBSET (1 .. n) : b[s] = IF s = {} THEN base
                                         ELSE Turn(kind, f[s \ {Max(s)}], seq[Max(s)])
    BY DEF TurnBody
  <2> QED
    BY <2>1
<1>2. \A i \in 1 .. n : Max(1 .. i) = i /\ (1 .. i) \ {i} = 1 .. (i - 1)
  <2> SUFFICES ASSUME NEW i \in 1 .. n
               PROVE  Max(1 .. i) = i /\ (1 .. i) \ {i} = 1 .. (i - 1)
    OBVIOUS
  <2>1. Max(1 .. i) \in 1 .. i /\ \A y \in 1 .. i : Max(1 .. i) >= y
    <3>1. i \in Nat /\ 1 .. i \subseteq 1 .. i /\ i \in 1 .. i
      OBVIOUS
    <3>2. 1 .. i # {}
      BY <3>1
    <3> QED
      BY ONLY <3>1, <3>2, MaxSpec
  <2> QED
    BY <2>1
<1>3. c[0] = base
  <2>1. 1 .. 0 = {} /\ 0 \in 0 .. n
    OBVIOUS
  <2> QED
    BY <1>1, <2>1
<1>4. c[n] = f[1 .. n]
  OBVIOUS
<1>5. ASSUME NEW i \in 1 .. n PROVE c[i] = Turn(kind, c[i - 1], seq[i])
  <2>1. /\ 1 .. i \in SUBSET (1 .. n) /\ 1 .. i # {}
        /\ i \in 0 .. n /\ i - 1 \in 0 .. n
    <3>1. i \in 1 .. i /\ i \in 0 .. n /\ i - 1 \in 0 .. n
      OBVIOUS
    <3>2. \A j \in 1 .. i : j \in 1 .. n
      OBVIOUS
    <3> QED
      BY <3>1, <3>2
  <2>2. f[1 .. i] = Turn(kind, f[(1 .. i) \ {i}], seq[i])
    BY <1>1, <1>2, <2>1
  <2>3. c[i] = f[1 .. i] /\ c[i - 1] = f[1 .. (i - 1)]
    BY <2>1
  <2> HIDE DEF c
  <2> QED
    BY <1>2, <2>2, <2>3
<1> HIDE DEF c
<1>6. Walk(kind, base, seq, n, c)
  BY <1>3, <1>5 DEF Walk
<1> QED
  BY <1>4, <1>6

\* rt_event_send
LEMMA OfferWalk ==
    ASSUME NEW base, NEW T, NEW seq \in Seq(T), NEW r, r = FoldLeft(EvOffer, base, seq)
    PROVE  \E c : Walk("offer", base, seq, Len(seq), c) /\ r = c[Len(seq)]
<1>1. PICK D : D = DOMAIN seq
  OBVIOUS
<1>2. PICK n \in Nat : n = Len(seq) /\ D = 1 .. n
  BY ONLY <1>1, seq \in Seq(T)
<1> DEFINE Body(g) == [s \in SUBSET D |-> IF s = {} THEN base
                                          ELSE EvOffer(g[s \ {Max(s)}], seq[Max(s)])]
           iter == CHOOSE g : g = Body(g)
<1>3. r = iter[D]
  BY <1>1 DEF FoldLeft, MapThenFoldSet
<1>4. ASSUME NEW g PROVE Body(g) = TurnBody("offer", base, seq, D, g)
  BY DEF TurnBody, Turn
<1>5. \E g : g = Body(g)
  <2>1. PICK g : g = TurnBody("offer", base, seq, 1 .. n, g)
    BY WalkExists
  <2>2. TurnBody("offer", base, seq, 1 .. n, g) = TurnBody("offer", base, seq, D, g)
    BY <1>2
  <2> HIDE DEF Body
  <2>3. Body(g) = TurnBody("offer", base, seq, D, g)
    BY <1>4
  <2> QED
    BY <2>1, <2>2, <2>3
<1>6. iter = Body(iter)
  BY <1>5
<1> HIDE DEF iter, Body
<1>7. iter = TurnBody("offer", base, seq, 1 .. n, iter)
  <2>1. TurnBody("offer", base, seq, 1 .. n, iter) = TurnBody("offer", base, seq, D, iter)
    BY <1>2
  <2>2. Body(iter) = TurnBody("offer", base, seq, D, iter)
    BY <1>4
  <2> QED
    BY <1>6, <2>1, <2>2
<1>8. \E c : Walk("offer", base, seq, n, c) /\ c[n] = iter[1 .. n]
  <2>1. PICK f : f = iter
    OBVIOUS
  <2>2. f = TurnBody("offer", base, seq, 1 .. n, f)
    BY ONLY <1>7, <2>1
  <2>3. \E c : Walk("offer", base, seq, n, c) /\ c[n] = f[1 .. n]
    BY ONLY <2>2, n \in Nat, WalkChain
  <2> QED
    BY <2>1, <2>3
<1> QED
  BY <1>2, <1>3, <1>8

\* What _workqueue_work_completion does to the threads
SignalAll(base, seq) == FoldLeft(LAMBDA s, t : rt_ipc_list_resume(s, WqSem), base, seq)

\* It is a walk along the list.
LEMMA SignalWalk ==
    ASSUME NEW base, NEW T, NEW seq \in Seq(T), NEW r, r = SignalAll(base, seq)
    PROVE  \E c : Walk("signal", base, seq, Len(seq), c) /\ r = c[Len(seq)]
<1>1. PICK D : D = DOMAIN seq
  OBVIOUS
<1>2. PICK n \in Nat : n = Len(seq) /\ D = 1 .. n
  BY ONLY <1>1, seq \in Seq(T)
<1> DEFINE Body(g) == [s \in SUBSET D |-> IF s = {} THEN base
                                          ELSE rt_ipc_list_resume(g[s \ {Max(s)}], WqSem)]
           iter == CHOOSE g : g = Body(g)
<1>3. r = iter[D]
  BY <1>1 DEF SignalAll, FoldLeft, MapThenFoldSet
<1>4. ASSUME NEW g PROVE Body(g) = TurnBody("signal", base, seq, D, g)
  BY DEF TurnBody, Turn
<1>5. \E g : g = Body(g)
  <2>1. PICK g : g = TurnBody("signal", base, seq, 1 .. n, g)
    BY WalkExists
  <2>2. TurnBody("signal", base, seq, 1 .. n, g) = TurnBody("signal", base, seq, D, g)
    BY <1>2
  <2> HIDE DEF Body
  <2>3. Body(g) = TurnBody("signal", base, seq, D, g)
    BY <1>4
  <2> QED
    BY <2>1, <2>2, <2>3
<1>6. iter = Body(iter)
  BY <1>5
<1> HIDE DEF iter, Body
<1>7. iter = TurnBody("signal", base, seq, 1 .. n, iter)
  <2>1. TurnBody("signal", base, seq, 1 .. n, iter) = TurnBody("signal", base, seq, D, iter)
    BY <1>2
  <2>2. Body(iter) = TurnBody("signal", base, seq, D, iter)
    BY <1>4
  <2> QED
    BY <1>6, <2>1, <2>2
<1>8. \E c : Walk("signal", base, seq, n, c) /\ c[n] = iter[1 .. n]
  <2>1. PICK f : f = iter
    OBVIOUS
  <2>2. f = TurnBody("signal", base, seq, 1 .. n, f)
    BY ONLY <1>7, <2>1
  <2>3. \E c : Walk("signal", base, seq, n, c) /\ c[n] = f[1 .. n]
    BY ONLY <2>2, n \in Nat, WalkChain
  <2> QED
    BY <2>1, <2>3
<1> QED
  BY <1>2, <1>3, <1>8

\* rt_ipc_list_resume_all, called with interrupts disabled
LEMMA ResetWalk ==
    ASSUME NEW base, NEW T, base.q[Ev] \in Seq(T), NEW r, r = ResumeAll(base, Ev)
    PROVE  \E c : Walk("error", base, base.q[Ev], Len(base.q[Ev]), c) /\ r = c[Len(base.q[Ev])]
<1>0. PICK seq \in Seq(T) : seq = base.q[Ev]
  OBVIOUS
<1>1. PICK D : D = DOMAIN seq
  OBVIOUS
<1>2. PICK n \in Nat : n = Len(seq) /\ D = 1 .. n
  BY ONLY <1>1, seq \in Seq(T)
<1> DEFINE Body(g) == [s \in SUBSET D |-> IF s = {} THEN base
                                          ELSE ResumeOneWithError(g[s \ {Max(s)}], Ev)]
           iter == CHOOSE g : g = Body(g)
<1>3. r = iter[D]
  BY <1>0, <1>1 DEF ResumeAll, FoldLeft, MapThenFoldSet
<1>4. ASSUME NEW g PROVE Body(g) = TurnBody("error", base, seq, D, g)
  BY DEF TurnBody, Turn
<1>5. \E g : g = Body(g)
  <2>1. PICK g : g = TurnBody("error", base, seq, 1 .. n, g)
    BY WalkExists
  <2>2. TurnBody("error", base, seq, 1 .. n, g) = TurnBody("error", base, seq, D, g)
    BY <1>2
  <2> HIDE DEF Body
  <2>3. Body(g) = TurnBody("error", base, seq, D, g)
    BY <1>4
  <2> QED
    BY <2>1, <2>2, <2>3
<1>6. iter = Body(iter)
  BY <1>5
<1> HIDE DEF iter, Body
<1>7. iter = TurnBody("error", base, seq, 1 .. n, iter)
  <2>1. TurnBody("error", base, seq, 1 .. n, iter) = TurnBody("error", base, seq, D, iter)
    BY <1>2
  <2>2. Body(iter) = TurnBody("error", base, seq, D, iter)
    BY <1>4
  <2> QED
    BY <1>6, <2>1, <2>2
<1>8. \E c : Walk("error", base, seq, n, c) /\ c[n] = iter[1 .. n]
  <2>1. PICK f : f = iter
    OBVIOUS
  <2>2. f = TurnBody("error", base, seq, 1 .. n, f)
    BY ONLY <1>7, <2>1
  <2>3. \E c : Walk("error", base, seq, n, c) /\ c[n] = f[1 .. n]
    BY ONLY <2>2, n \in Nat, WalkChain
  <2> QED
    BY <2>1, <2>3
<1> QED
  BY <1>0, <1>2, <1>3, <1>8

\* The threads of a suspend list are as many as it is long.
LEMMA LinkedCardinality ==
    ASSUME NEW x, Good(x, {}), NEW o \in Obj
    PROVE  /\ IsFiniteSet({u \in Thread : Linked(x, u, o)})
           /\ Cardinality({u \in Thread : Linked(x, u, o)}) = Len(x.q[o])
           /\ x.q[o] \in Seq(Thread) /\ IsInjective(x.q[o])
<1>1. x.q[o] \in Seq(Thread) /\ IsInjective(x.q[o])
  BY DEF Good, Flat, Kstate, Lists
<1>2. {u \in Thread : Linked(x, u, o)} = ToSet(x.q[o])
  <2>1. ToSet(x.q[o]) \subseteq Thread
    BY <1>1 DEF ToSet
  <2> QED
    BY <2>1 DEF Linked
<1> QED
  BY <1>1, <1>2, SeqCardinality

\* The walks that resume one thread in each turn
Resuming(kind, o, e) ==
    \/ kind = "signal" /\ o = WqSem /\ e = "EOK"
    \/ kind = "error" /\ o = Ev /\ e = "ERROR"

\* One turn of them
LEMMA TurnReleases ==
    ASSUME NEW kind, NEW o \in Obj, NEW e, Resuming(kind, o, e),
           NEW x, Good(x, {}), x.q[o] # << >>, NEW t, NEW y, y = Turn(kind, x, t)
    PROVE  \E h \in Thread : Linked(x, h, o) /\ Releases(x, y, {h}, e)
<1>1. PICK h : h = Head(x.q[o])
  OBVIOUS
<1>2. h \in Thread /\ Linked(x, h, o) /\ x.stat[h] = "SUSPEND"
  BY <1>1, HeadSuspended
<1>3. CASE kind = "signal"
  <2>1. y = rt_thread_resume(x, h) /\ e = "EOK"
    BY <1>1, <1>3 DEF Turn, Resuming, rt_ipc_list_resume
  <2> QED
    BY <1>2, <2>1, ReleasesOne
<1>4. CASE kind = "error"
  <2>1. y = ResumeOneWithError(x, o) /\ e = "ERROR"
    BY <1>4 DEF Turn, Resuming
  <2> QED
    BY <1>1, <2>1, ReleasesError
<1> QED
  BY <1>3, <1>4 DEF Resuming

\* A walk of as many turns as there are threads on the list resumes all of them.
LEMMA WalkEmpties ==
    ASSUME NEW kind, NEW o \in Obj, NEW e, Resuming(kind, o, e),
           NEW x, Good(x, {}), NEW seq, NEW c, Walk(kind, x, seq, Len(x.q[o]), c)
    PROVE  Releases(x, c[Len(x.q[o])], {u \in Thread : Linked(x, u, o)}, e)
<1>1. PICK n : n = Len(x.q[o])
  OBVIOUS
<1>2. PICK L : L = {u \in Thread : Linked(x, u, o)}
  OBVIOUS
<1>3. n \in Nat /\ IsFiniteSet(L) /\ Cardinality(L) = n
  BY <1>1, <1>2, LinkedCardinality
<1> DEFINE Part(i, V) == V \subseteq L /\ Cardinality(V) = i /\ Releases(x, c[i], V, e)
           I == {i \in Nat : i <= n => \E V \in SUBSET L : Part(i, V)}
<1>4. \A V \in SUBSET L : IsFiniteSet(V) /\ Cardinality(V) \in Nat /\ (Cardinality(V) = n => V = L)
  BY <1>3, FS_Subset, FS_CardinalityType
<1>5. 0 \in I
  <2>1. c[0] = x
    BY DEF Walk
  <2>2. Part(0, {})
    BY <2>1, ReleasesNone, FS_EmptySet
  <2> QED
    BY <2>2
<1>6. ASSUME NEW i \in Nat, i \in I PROVE i + 1 \in I
  <2> SUFFICES ASSUME i + 1 <= n PROVE \E V \in SUBSET L : Part(i + 1, V)
    OBVIOUS
  <2>1. PICK V \in SUBSET L : Part(i, V)
    BY <1>3, <1>6
  <2>2. PICK y : y = c[i]
    OBVIOUS
  <2>3. Good(y, {}) /\ \A u \in Thread : Linked(y, u, o) <=> Linked(x, u, o) /\ u \notin V
    BY <2>1, <2>2 DEF Releases, LosesAll
  <2>4. y.q[o] # << >>
    <3>1. V # L
      BY <1>3, <2>1
    <3>2. PICK u \in L : u \notin V
      BY <2>1, <3>1
    <3>3. u \in Thread /\ Linked(y, u, o)
      BY <1>2, <2>3, <3>2
    <3> QED
      BY <2>3, <3>3, NonEmpty DEF Good, Lists
  <2>5. c[i + 1] = Turn(kind, y, seq[i + 1])
    <3>1. i + 1 \in 1 .. n /\ (i + 1) - 1 = i
      BY <1>3
    <3> QED
      BY <1>1, <2>2, <3>1 DEF Walk
  <2>6. PICK h \in Thread : Linked(y, h, o) /\ Releases(y, c[i + 1], {h}, e)
    BY <2>3, <2>4, <2>5, TurnReleases
  <2>7. h \in L /\ h \notin V
    BY <1>2, <2>3, <2>6
  <2>8. Cardinality(V \cup {h}) = i + 1
    BY <1>4, <2>1, <2>7, FS_AddElement
  <2>9. Releases(x, c[i + 1], V \cup {h}, e)
    <3>1. V \subseteq Thread /\ {h} \subseteq Thread
      BY <1>2, <2>1
    <3>2. Releases(x, y, V, e)
      BY <2>1, <2>2
    <3> QED
      BY <2>6, <3>1, <3>2, ReleasesTrans
  <2>10. V \cup {h} \in SUBSET L
    BY <2>1, <2>7
  <2> QED
    BY <2>8, <2>9, <2>10
<1>7. n \in I
  <2> HIDE DEF I
  <2> QED
    BY <1>3, <1>5, <1>6, AllNumbers
<1>8. PICK V \in SUBSET L : Part(n, V)
  BY <1>3, <1>7
<1>9. V = L
  BY <1>4, <1>8
<1> QED
  BY <1>1, <1>2, <1>8, <1>9

\* What rt_event_send knows of the waiters
WantType == [set : SUBSET Bit, all : BOOLEAN, clear : BOOLEAN]

\* One if the bit is in the set
One(b, set) == IF b \in set THEN 1 ELSE 0

\* The threads of W that have received bit b and clear it
Cleared(W, wants, b) == {u \in W : wants[u].clear /\ b \in wants[u].set}

\* A set of bits without some of them satisfies nobody whom it did not satisfy.
LEMMA SatisfiesMonotone ==
    ASSUME NEW set, NEW less, less \subseteq set, NEW w, Satisfies(less, w)
    PROVE  Satisfies(set, w)
BY DEF Satisfies

\* The walk of rt_event_send with set0 raised, on its way from kernel state x, has
\* looked at the first i waiters and satisfied those of W.
Offered(x, set0, seq, i, r, W) ==
    /\ r = [k |-> r.k, set |-> r.set, want |-> r.want]
    /\ \A u \in W : u \in Thread /\ \E j \in 1 .. i : u = seq[j]
    /\ Releases(x, r.k, W, "EOK")
    /\ r.set \subseteq set0 /\ r.want \in [Thread -> WantType]
    /\ \A u \in Thread : u \notin W => r.want[u] = want[u]
    /\ \A j \in 1 .. i : seq[j] \in W \/ ~Satisfies(r.set, want[seq[j]])
    /\ \A b \in Bit : One(b, set0) = One(b, r.set) + Cardinality(Cleared(W, r.want, b))

\* Waiter t has been told which of the bits in set it has received; rest is left.
Told(old, set, t, got, new, rest) ==
    /\ got = old[t].set \cap set
    /\ new = [old EXCEPT ![t].set = got]
    /\ rest = IF old[t].clear THEN set \ got ELSE set

\* One more waiter is satisfied.
LEMMA OfferCounts ==
    ASSUME NEW W, IsFiniteSet(W), NEW old \in [Thread -> WantType], NEW t \in Thread,
           W \subseteq Thread, t \notin W, NEW set, NEW got, NEW new, NEW rest,
           Told(old, set, t, got, new, rest), NEW b
    PROVE  One(b, set) + Cardinality(Cleared(W, old, b))
                = One(b, rest) + Cardinality(Cleared(W \cup {t}, new, b))
<1>1. /\ \A u \in W : new[u] = old[u]
      /\ new[t].clear = old[t].clear /\ new[t].set = got /\ old[t].clear \in BOOLEAN
  BY DEF WantType, Told
<1>2. PICK C : C = Cleared(W, old, b)
  OBVIOUS
<1>3. IsFiniteSet(C) /\ Cardinality(C) \in Nat /\ t \notin C
  BY <1>2, FS_Subset, FS_CardinalityType DEF Cleared
<1>4. CASE old[t].clear /\ b \in got
  <2>1. Cleared(W \cup {t}, new, b) = C \cup {t}
    BY <1>1, <1>2, <1>4 DEF Cleared
  <2>2. Cardinality(C \cup {t}) = Cardinality(C) + 1
    BY <1>3, FS_AddElement
  <2>3. One(b, set) = 1 /\ One(b, rest) = 0
    BY <1>4 DEF One, Told
  <2>4. /\ Cardinality(Cleared(W \cup {t}, new, b)) = Cardinality(C) + 1
        /\ Cardinality(Cleared(W, old, b)) = Cardinality(C)
    BY <1>2, <2>1, <2>2
  <2> QED
    BY <1>3, <2>3, <2>4
<1>5. CASE ~(old[t].clear /\ b \in got)
  <2>1. Cleared(W \cup {t}, new, b) = C
    BY <1>1, <1>2, <1>5 DEF Cleared
  <2>2. b \in set <=> b \in rest
    BY <1>1, <1>5 DEF Told
  <2>3. One(b, set) = One(b, rest)
    BY <2>2 DEF One
  <2> QED
    BY <1>2, <2>1, <2>3
<1> QED
  BY <1>4, <1>5

\* One turn
LEMMA OfferTurn ==
    ASSUME NEW x, Good(x, {}), NEW set0, NEW seq, seq = x.q[Ev], Ev \in Obj,
           NEW i \in Nat, i + 1 <= Len(seq), NEW r, NEW W, IsFiniteSet(W),
           Offered(x, set0, seq, i, r, W), NEW s, s = EvOffer(r, seq[i + 1])
    PROVE  Offered(x, set0, seq, i + 1, s, W) \/ Offered(x, set0, seq, i + 1, s, W \cup {seq[i + 1]})
<1>1. seq \in Seq(Thread) /\ IsInjective(seq)
  BY LinkedCardinality
<1>2. i + 1 \in 1 .. Len(seq) /\ DOMAIN seq = 1 .. Len(seq) /\ Len(seq) \in Nat
  BY <1>1
<1>3. PICK t : t = seq[i + 1]
  OBVIOUS
<1>4. t \in Thread /\ Linked(x, t, Ev) /\ x.stat[t] = "SUSPEND"
  <2>1. t \in Thread /\ Linked(x, t, Ev)
    BY <1>1, <1>2, <1>3 DEF Linked, ToSet
  <2> QED
    BY <2>1 DEF Good, Flat
<1>5. t \notin W
  <2>1. \A j \in 1 .. i : j \in 1 .. Len(seq) /\ j # i + 1
    BY <1>2
  <2>2. \A j \in DOMAIN seq : seq[j] = seq[i + 1] => j = i + 1
    BY <1>1, <1>2 DEF IsInjective
  <2>3. \A j \in 1 .. i : seq[j] # t
    BY <1>2, <1>3, <2>1, <2>2
  <2> QED
    BY <2>3 DEF Offered
<1>6. r.want[t] = want[t] /\ r.k.stat[t] = "SUSPEND" /\ Good(r.k, {})
  BY <1>4, <1>5 DEF Offered, Releases, LosesAll
<1>7. \A j \in 1 .. i + 1 : j \in 1 .. i \/ j = i + 1
  OBVIOUS
<1>8. CASE ~Satisfies(r.set, r.want[t])
  <2>1. s = r
    BY <1>3, <1>8 DEF EvOffer
  <2>2. \A j \in 1 .. i + 1 : seq[j] \in W \/ ~Satisfies(r.set, want[seq[j]])
    BY <1>3, <1>6, <1>7, <1>8 DEF Offered
  <2>3. \A u \in W : u \in Thread /\ \E j \in 1 .. i + 1 : u = seq[j]
    BY DEF Offered
  <2>4. Offered(x, set0, seq, i + 1, s, W)
    BY <2>1, <2>2, <2>3 DEF Offered
  <2> QED
    BY <2>4
<1>9. CASE Satisfies(r.set, r.want[t])
  <2>1. PICK got : got = r.want[t].set \cap r.set
    OBVIOUS
  <2>2. PICK rest : rest = IF r.want[t].clear THEN r.set \ got ELSE r.set
    OBVIOUS
  <2>3. PICK new : new = [r.want EXCEPT ![t].set = got]
    OBVIOUS
  <2>4. PICK y : y = rt_thread_resume(r.k, t)
    OBVIOUS
  <2>5. s = [k |-> y, set |-> rest, want |-> new]
    BY <1>3, <1>9, <2>1, <2>2, <2>3, <2>4 DEF EvOffer
  <2>6. s.k = y /\ s.set = rest /\ s.want = new
    BY <2>5
  <2>7. /\ rest \subseteq r.set /\ rest \subseteq set0 /\ new \in [Thread -> WantType]
        /\ \A u \in Thread : u # t => new[u] = r.want[u]
    BY <1>4, <2>1, <2>2, <2>3 DEF Offered, WantType
  <2>8. Releases(x, y, W \cup {t}, "EOK")
    <3>1. Releases(r.k, y, {t}, "EOK")
      BY <1>4, <1>6, <2>4, ReleasesOne
    <3>2. W \subseteq Thread /\ {t} \subseteq Thread /\ Releases(x, r.k, W, "EOK")
      BY <1>4 DEF Offered
    <3> QED
      BY <3>1, <3>2, ReleasesTrans
  <2>9. \A u \in W \cup {t} : u \in Thread /\ \E j \in 1 .. i + 1 : u = seq[j]
    <3>1. i + 1 \in 1 .. i + 1 /\ \A j \in 1 .. i : j \in 1 .. i + 1
      OBVIOUS
    <3> QED
      BY <1>3, <1>4, <3>1 DEF Offered
  <2>10. \A j \in 1 .. i + 1 : seq[j] \in W \cup {t} \/ ~Satisfies(rest, want[seq[j]])
    BY <1>3, <1>7, <2>7, SatisfiesMonotone DEF Offered
  <2>11. ASSUME NEW b \in Bit
         PROVE  One(b, set0) = One(b, rest) + Cardinality(Cleared(W \cup {t}, new, b))
    <3>1. W \subseteq Thread /\ r.want \in [Thread -> WantType]
      BY DEF Offered
    <3>2. One(b, r.set) + Cardinality(Cleared(W, r.want, b))
            = One(b, rest) + Cardinality(Cleared(W \cup {t}, new, b))
      <4>1. Told(r.want, r.set, t, got, new, rest)
        BY <2>1, <2>2, <2>3 DEF Told
      <4> QED
        BY ONLY <1>4, <1>5, <3>1, <4>1, IsFiniteSet(W), OfferCounts
    <3> QED
      BY <3>2 DEF Offered
  <2>12. Offered(x, set0, seq, i + 1, s, W \cup {t})
    <3>1. \A u \in Thread : u \notin W \cup {t} => new[u] = want[u]
      BY <2>7 DEF Offered
    <3> QED
      BY <2>5, <2>6, <2>7, <2>8, <2>9, <2>10, <2>11, <3>1 DEF Offered
  <2> QED
    BY <1>3, <2>12
<1> QED
  BY <1>8, <1>9

\* Those that are satisfied by a send of bits set are the threads of W: r is what the
\* walk of rt_event_send leaves, with nobody waiting for the bits in r.set.
Answered(set, r, W) ==
    /\ \A u \in W : Linked(k, u, Ev)
    /\ Releases(k, r.k, W, "EOK")
    /\ r.set \subseteq ev.set \cup set /\ r.want \in [Thread -> WantType]
    /\ \A u \in Thread : u \notin W => r.want[u] = want[u]
    /\ \A u \in Thread : Linked(k, u, Ev) /\ u \notin W => ~Satisfies(r.set, want[u])
    /\ \A b \in Bit : One(b, ev.set \cup set)
                        = One(b, r.set) + Cardinality(Cleared(W, r.want, b))

\* rt_event_send satisfies some waiters, tells each what it has received, takes away
\* what they clear, and leaves nobody behind that the rest satisfies.
LEMMA OfferAll ==
    ASSUME Good(k, {}), Ev \in Obj, want \in [Thread -> WantType], NEW set, NEW r, r = EvWalk(set)
    PROVE  \E W \in SUBSET Thread : Answered(set, r, W)
<1>1. PICK seq : seq = k.q[Ev]
  OBVIOUS
<1>2. seq \in Seq(Thread) /\ IsInjective(seq)
  BY <1>1, LinkedCardinality
<1>3. PICK n \in Nat : n = Len(seq) /\ DOMAIN seq = 1 .. n
  BY <1>2
<1>4. PICK set0 : set0 = ev.set \cup set
  OBVIOUS
<1>5. PICK base : base = [k |-> k, set |-> set0, want |-> want]
  OBVIOUS
<1>6. r = FoldLeft(EvOffer, base, seq)
  BY <1>1, <1>4, <1>5 DEF EvWalk
<1>7. PICK c : Walk("offer", base, seq, n, c) /\ r = c[n]
  BY <1>2, <1>3, <1>6, OfferWalk
<1> DEFINE I == {i \in Nat : i <= n => \E W \in SUBSET Thread : Offered(k, set0, seq, i, c[i], W)}
<1>8. \A W \in SUBSET Thread : IsFiniteSet(W)
  BY KernelAssumption, FS_Subset
<1>9. 0 \in I
  <2>1. c[0] = base
    BY <1>7 DEF Walk
  <2>2. /\ base = [k |-> base.k, set |-> base.set, want |-> base.want]
        /\ base.k = k /\ base.set = set0 /\ base.want = want
    BY <1>5
  <2>3. \A b : Cleared({}, want, b) = {}
    BY DEF Cleared
  <2>4. \A b : One(b, set0) = One(b, set0) + Cardinality(Cleared({}, want, b))
    BY <2>3, FS_EmptySet DEF One
  <2>5. Offered(k, set0, seq, 0, base, {})
    BY <2>2, <2>4, ReleasesNone DEF Offered
  <2> QED
    BY <2>1, <2>5
<1>10. ASSUME NEW i \in Nat, i \in I PROVE i + 1 \in I
  <2> SUFFICES ASSUME i + 1 <= n
               PROVE  \E W \in SUBSET Thread : Offered(k, set0, seq, i + 1, c[i + 1], W)
    OBVIOUS
  <2>1. PICK W \in SUBSET Thread : Offered(k, set0, seq, i, c[i], W)
    BY <1>3, <1>10
  <2>2. c[i + 1] = EvOffer(c[i], seq[i + 1]) /\ seq[i + 1] \in Thread
    <3>1. i + 1 \in 1 .. n /\ (i + 1) - 1 = i
      BY <1>3
    <3> QED
      BY <1>2, <1>3, <1>7, <3>1 DEF Walk, Turn
  <2>3. \/ Offered(k, set0, seq, i + 1, c[i + 1], W)
        \/ Offered(k, set0, seq, i + 1, c[i + 1], W \cup {seq[i + 1]})
    BY <1>1, <1>3, <1>8, <2>1, <2>2, OfferTurn
  <2>4. W \cup {seq[i + 1]} \in SUBSET Thread
    BY <2>2
  <2> QED
    BY <2>3, <2>4
<1>11. n \in I
  <2> HIDE DEF I
  <2> QED
    BY <1>3, <1>9, <1>10, AllNumbers
<1>12. PICK W \in SUBSET Thread : Offered(k, set0, seq, n, r, W)
  BY <1>3, <1>7, <1>11
<1>13. \A u \in W : Linked(k, u, Ev)
  BY <1>1, <1>3, <1>12 DEF Offered, Linked, ToSet
<1>14. \A u \in Thread : Linked(k, u, Ev) /\ u \notin W => ~Satisfies(r.set, want[u])
  BY <1>1, <1>3, <1>12 DEF Offered, Linked, ToSet
<1> QED
  BY <1>4, <1>12, <1>13, <1>14 DEF Offered, Answered

-----------------------------------------------------------------------------
(* The suspension of rt_mp_alloc *)

\* In front of a list
LEMMA FrontIsInsert ==
    ASSUME NEW S, NEW s \in Seq(S), NEW e \in S
    PROVE  <<e>> \o s = InsertAt(s, 1, e) /\ 1 \in 1 .. Len(s) + 1
<1>1. SubSeq(s, 1, 0) = << >> /\ SubSeq(s, 1, Len(s)) = s /\ Len(s) \in Nat
  BY SubSeqFull, SubSeqEmpty
<1>2. << >> \o <<e>> = <<e>>
  OBVIOUS
<1>3. InsertAt(s, 1, e) = << >> \o <<e>> \o s
  BY <1>1 DEF InsertAt
<1> QED
  BY <1>1, <1>2, <1>3

\* The waiting thread goes to the front of the list of the pool.
LEMMA MpSuspendBlocks ==
    ASSUME Good(k, {}), NEW t \in Thread, t # Idle, k.cur = t, k.stat[t] = "RUNNING",
           Mp \in Obj, NEW time \in Int, NEW m, m = MpSuspend(time)
    PROVE  Suspends(k, m, t, Mp)
<1>1. PICK e : e = SetErr(k, t, "EOK")
  OBVIOUS
<1>2. /\ Good(e, {}) /\ e.cur = k.cur /\ e.stat = k.stat /\ e.prio = k.prio /\ e.q = k.q
      /\ e.tlist = k.tlist /\ e.lock = k.lock /\ e.err = [k.err EXCEPT ![t] = "EOK"]
  <2>1. "EOK" \in Error
    BY DEF Error
  <2>2. k \in Kstate
    BY DEF Good
  <2> QED
    BY <1>1, <2>1, <2>2, SetErrGood DEF SetErr, Kstate
<1>3. PICK s : s = rt_thread_suspend(e, t)
  OBVIOUS
<1>4. /\ Good(s, {})
      /\ \A l \in Lists : ~Linked(s, t, l)
      /\ \A u \in Thread : \A l \in Obj : Linked(s, u, l) <=> Linked(e, u, l)
      /\ \A u \in Thread : s.stat[u] = IF u = t THEN "SUSPEND" ELSE e.stat[u]
      /\ s.cur = e.cur /\ s.lock = e.lock /\ s.prio = e.prio
      /\ Undisturbed(e, s)
  <2>1. PICK v : v = rt_schedule_remove_thread(e, t)
    OBVIOUS
  <2>2. PICK w : w = SetStat(v, t, "SUSPEND")
    OBVIOUS
  <2>3. e.stat[t] \in {"READY", "RUNNING"}
    BY <1>2
  <2> QED
    BY <1>2, <1>3, <2>1, <2>2, <2>3, SuspendGood, SuspendQuiet
<1>5. /\ s \in Kstate /\ s.q[Mp] \in Seq(Thread) /\ s.stat[t] = "SUSPEND"
  BY <1>4 DEF Good, Kstate, Lists
<1>6. /\ << t >> \o s.q[Mp] = InsertAt(s.q[Mp], 1, t) /\ 1 \in 1 .. Len(s.q[Mp]) + 1
  BY <1>5, FrontIsInsert
<1>7. PICK w : w = Link(s, Mp, 1, t)
  OBVIOUS
<1>8. /\ Good(w, {})
      /\ \A u \in Thread : \A l \in Lists : Linked(w, u, l) <=> Linked(s, u, l) \/ (u = t /\ l = Mp)
      /\ w.cur = s.cur /\ w.stat = s.stat /\ w.prio = s.prio
      /\ w.tlist = s.tlist /\ w.lock = s.lock /\ w.err = s.err
  <2>1. w.err = s.err
    BY <1>5, <1>7 DEF Link, Kstate
  <2>2. PICK i : i = 1
    OBVIOUS
  <2>3. i \in 1 .. Len(s.q[Mp]) + 1 /\ w = Link(s, Mp, i, t)
    BY <1>6, <1>7, <2>2
  <2> QED
    BY <1>4, <1>5, <2>1, <2>3, LinkGood
<1>9. w = [s EXCEPT !.q[Mp] = << t >> \o @]
  BY <1>6, <1>7 DEF Link
<1>10. m = IF time > 0 THEN TimerStart(w, t, time) ELSE w
  BY <1>1, <1>3, <1>9 DEF MpSuspend, SetErr
<1>11. /\ Good(m, {}) /\ m.q = w.q /\ m.cur = w.cur /\ m.stat = w.stat /\ m.lock = w.lock
       /\ m.prio = w.prio /\ m.err = w.err
       /\ \A u \in Thread : Armed(m, u) => Armed(w, u) \/ u = t
  <2>1. CASE time > 0
    <3>1. time \in Nat /\ m = TimerStart(w, t, time) /\ w.stat[t] = "SUSPEND" /\ w \in Kstate
      BY <1>5, <1>8, <1>10, <2>1 DEF Good
    <3>2. m.err = w.err
      BY <3>1 DEF TimerStart, TimerStop, Kstate
    <3> QED
      BY <1>8, <3>1, <3>2, TimerStartGood
  <2>2. CASE ~(time > 0)
    BY <1>8, <1>10, <2>2
  <2> QED
    BY <2>1, <2>2
<1>12. \A u \in Thread : \A o \in Obj : Linked(m, u, o) <=> Linked(k, u, o) \/ (u = t /\ o = Mp)
  <2>1. \A u \in Thread : \A o \in Obj : Linked(m, u, o) <=> Linked(w, u, o)
    BY <1>11 DEF Linked
  <2>2. \A u \in Thread : \A o \in Obj : Linked(e, u, o) <=> Linked(k, u, o)
    BY <1>2 DEF Linked
  <2>3. Obj \subseteq Lists
    BY DEF Lists
  <2> QED
    BY <1>4, <1>8, <2>1, <2>2, <2>3
<1>13. \A u \in Thread : m.err[u] = IF u = t /\ Mp \in Obj THEN "EOK" ELSE k.err[u]
  <2>1. m.err = [k.err EXCEPT ![t] = "EOK"] /\ k.err \in [Thread -> Error]
    BY <1>2, <1>4, <1>8, <1>11 DEF Undisturbed, Good, Kstate
  <2> QED
    BY <2>1
<1>14. \A u \in Thread : Armed(m, u) => Armed(k, u) \/ u = t
  <2>1. \A u \in Thread : Armed(w, u) <=> Armed(s, u)
    BY <1>8 DEF Armed
  <2>2. \A u \in Thread : Armed(e, u) <=> Armed(k, u)
    BY <1>2 DEF Armed
  <2> QED
    BY <1>4, <1>11, <2>1, <2>2 DEF Undisturbed
<1> QED
  BY <1>2, <1>4, <1>8, <1>11, <1>12, <1>13, <1>14 DEF Suspends

-----------------------------------------------------------------------------
(* What every step of the system keeps, and what it leaves alone            *)

\* The points at which a thread may be: those of module System, and those of each
\* object
PlainPoint == {"run", "sched", "sleep_sched", "slept", "take_sched", "take_ret"}
EvPoint == {"wake_check", "wake_one"}
MpPoint == {"mp_loop", "mp_check", "mp_wake"}
CpPoint == {"cp_done"}
WqPoint == {"wq_check", "wq_suspend", "wq_do", "wq_ack", "wq_resume", "dw_stop"}
ObjPoint == PlainPoint \cup EvPoint \cup MpPoint \cup CpPoint \cup WqPoint \cup HpPoint

\* Those of the worker's loop
WorkerPoint == {"wq_check", "wq_suspend", "take_sched", "take_ret", "wq_do", "wq_ack"}

\* The idle thread makes no calls, and the worker only those of its loop.
ObjPc ==
    /\ \A t \in Thread : pc[t].at \in ObjPoint
    /\ pc[Idle].at = "run"
    /\ pc[Worker].at \in WorkerPoint /\ pc[Worker].arg = Worker

\* The invariant of all objects
Base == IpcInv /\ WaitersClean /\ ObjPc

\* No thread goes to a point of P, and those there stay.
Still(P) == \A u \in Thread : pc[u].at \in P \/ pc'[u].at \in P => pc'[u] = pc[u]

\* A step keeps the invariant, and leaves the waiters of the objects outside S and the
\* points of the objects that are not in P alone.
Keeps(S, P) ==
    /\ Base'
    /\ \A o \in Obj \ S : Untouched(o)
    /\ Still(ObjPoint \ (PlainPoint \cup P))
    /\ Sleepers({"run", "mp_loop"})

\* What the constants are
LEMMA ObjectsConstants ==
    /\ Ev \in Obj /\ Mp \in Obj /\ Cp \in Obj /\ WqSem \in Obj
    /\ Ev # Mp /\ Ev # Cp /\ Ev # WqSem /\ Mp # Cp /\ Mp # WqSem /\ Cp # WqSem
    /\ Second[Ev] = Ev /\ Second[Mp] = Mp
    /\ Worker \in Thread /\ Worker # Idle /\ Worker \notin Obj /\ User \subseteq Thread
    /\ Idle \in Thread /\ IsFiniteSet(Thread)
<1>1. /\ {Ev, Mp, Cp, WqSem} \subseteq Obj /\ Cardinality({Ev, Mp, Cp, WqSem}) = 4
      /\ Second[Ev] = Ev /\ Second[Mp] = Mp
      /\ Thread \cap Obj = {} /\ Worker \in User
  BY ObjectsAssumption
<1>2. ASSUME NEW x, NEW y, NEW z PROVE Cardinality({x, y, z}) # 4
  <2>1. IsFiniteSet({x}) /\ Cardinality({x}) = 1
    BY FS_Singleton
  <2>2. {x, y} = {x} \cup {y} /\ {x, y, z} = {x, y} \cup {z}
    OBVIOUS
  <2>3. IsFiniteSet({x, y}) /\ Cardinality({x, y}) \in {1, 2}
    BY <2>1, <2>2, FS_AddElement
  <2>4. Cardinality({x, y, z}) \in {1, 2, 3}
    BY <2>2, <2>3, FS_AddElement
  <2> QED
    BY <2>4
<1>3. /\ Ev = Mp \/ Ev = Cp \/ Ev = WqSem => {Ev, Mp, Cp, WqSem} = {Mp, Cp, WqSem}
      /\ Mp = Cp \/ Mp = WqSem => {Ev, Mp, Cp, WqSem} = {Ev, Cp, WqSem}
      /\ Cp = WqSem => {Ev, Mp, Cp, WqSem} = {Ev, Mp, WqSem}
  OBVIOUS
<1>4. Ev # Mp /\ Ev # Cp /\ Ev # WqSem /\ Mp # Cp /\ Mp # WqSem /\ Cp # WqSem
  BY <1>1, <1>2, <1>3
<1> QED
  BY <1>1, <1>4, KernelAssumption DEF User

\* The threads that use the objects
LEMMA SystemUsers ==
    ASSUME sys \in Systems
    PROVE  sys.producer \subseteq User \ {Worker} /\ sys.consumer \subseteq User \ {Worker}
BY ObjectsAssumption

\* The state of the processor, as the steps need it
LEMMA BaseSpec ==
    ASSUME Base
    PROVE  /\ Good(k, {}) /\ k.cur \in Thread /\ k.lock = 0
           /\ isr \in Isr /\ dead \subseteq Obj /\ fault \in BOOLEAN
           /\ \A u \in Thread : \A o \in Obj : Linked(k, u, o) =>
                k.stat[u] = "SUSPEND" /\ k.err[u] = "EOK" /\ Taking(u, o)
<1>1. pc[k.cur].at \in ObjPoint
  BY IpcInvGood DEF Base, ObjPc
<1>2. pc[k.cur].at \notin {"dq_check", "dq_wake"}
  BY <1>1 DEF ObjPoint, PlainPoint, EvPoint, MpPoint, CpPoint, WqPoint, HpPoint
<1> QED
  BY <1>2, IpcInvGood, Unlocked DEF Base, WaitersClean

\* A thread goes on to another point.
LEMMA MoveStill ==
    ASSUME Base, NEW P, NEW t \in Thread, t # Idle, NEW at \in ObjPoint, NEW arg,
           t = Worker => at \in WorkerPoint /\ arg = Worker,
           pc[t].at \in PlainPoint \cup P, at \in PlainPoint \cup P, Goto(t, at, arg)
    PROVE  ObjPc' /\ Still(ObjPoint \ (PlainPoint \cup P))
<1>1. /\ pc'[t].at = at /\ pc'[t].arg = arg
      /\ \A u \in Thread \ {t} : pc'[u] = pc[u]
  BY GotoPc DEF Base
<1>2. ObjPc'
  BY <1>1, ObjectsConstants DEF Base, ObjPc
<1>3. Still(ObjPoint \ (PlainPoint \cup P))
  BY <1>1 DEF Still
<1> QED
  BY <1>2, <1>3

\* No thread goes on.
LEMMA SameStill ==
    ASSUME Base, NEW P, pc' = pc
    PROVE  ObjPc' /\ Still(P)
BY DEF Base, ObjPc, Still

\* Steps that resume threads touch the object these wait for, at most.
LEMMA ShiftOthers ==
    ASSUME Base, NEW W \in SUBSET Thread, NEW e, Shift(W, e, {}), NEW S,
           \A u \in W : k.stat[u] = "SUSPEND" /\ \A o \in Obj \ S : ~Linked(k, u, o)
    PROVE  \A o \in Obj \ S : Untouched(o)
BY ShiftUntouched DEF Base

\* A handler, or a thread that stays where it is, resumes threads.
LEMMA HandlerKeeps ==
    ASSUME Base, NEW S, NEW P, NEW W \in SUBSET Thread, NEW e, NEW m, Releases(k, m, W, e),
           \A u \in W : \A o \in Obj \ S : ~Linked(k, u, o),
           k' = m \/ k' = rt_schedule(m), pc' = pc,
           isr' \in Isr, dead' \subseteq Obj, fault' \in BOOLEAN
    PROVE  Keeps(S, P) /\ Shift(W, e, {}) /\ Sleepers({})
<1>1. IpcInv' /\ WaitersClean' /\ Shift(W, e, {}) /\ Sleepers({})
  BY BaseSpec, HandlerReleases DEF Base
<1>2. \A o \in Obj \ S : Untouched(o)
  BY <1>1, ShiftOthers DEF Releases
<1>3. ObjPc' /\ Still(ObjPoint \ (PlainPoint \cup P))
  BY SameStill
<1> QED
  BY <1>1, <1>2, <1>3 DEF Keeps, Base, Sleepers

\* A thread resumes others and goes on.
LEMMA ThreadKeeps ==
    ASSUME Base, NEW S, NEW P, NEW W \in SUBSET Thread, NEW e, NEW m, Releases(k, m, W, e),
           \A u \in W : \A o \in Obj \ S : ~Linked(k, u, o),
           k' = m \/ k' = rt_schedule(m),
           isr' \in Isr, dead' \subseteq Obj, fault' \in BOOLEAN,
           NEW t \in Thread, t # Idle, k.cur = t,
           pc[t].at \in PlainPoint \cup P, pc[t].at \notin TakePoint \cup {"sleep_sched"},
           NEW at \in ObjPoint, at \in PlainPoint \cup P, at \notin TakePoint,
           NEW arg, ArgIsObject([at |-> at, arg |-> arg]),
           t = Worker => at \in WorkerPoint /\ arg = Worker, Goto(t, at, arg)
    PROVE  Keeps(S, P) /\ Shift(W, e, {}) /\ Sleepers({})
<1>1. IpcInv' /\ WaitersClean' /\ Shift(W, e, {}) /\ Sleepers({})
  BY ThreadReleases DEF Base
<1>2. \A o \in Obj \ S : Untouched(o)
  BY <1>1, ShiftOthers DEF Releases
<1>3. ObjPc' /\ Still(ObjPoint \ (PlainPoint \cup P))
  BY MoveStill
<1> QED
  BY <1>1, <1>2, <1>3 DEF Keeps, Base, Sleepers

\* A thread goes on, and that is all.
LEMMA MoveKeeps ==
    ASSUME Base, NEW S, NEW P, k' = k,
           isr' \in Isr, dead' \subseteq Obj, fault' \in BOOLEAN,
           NEW t \in Thread, t # Idle, k.cur = t,
           pc[t].at \in PlainPoint \cup P, pc[t].at \notin TakePoint \cup {"sleep_sched"},
           NEW at \in ObjPoint, at \in PlainPoint \cup P, at \notin TakePoint,
           NEW arg, ArgIsObject([at |-> at, arg |-> arg]),
           t = Worker => at \in WorkerPoint /\ arg = Worker, Goto(t, at, arg)
    PROVE  Keeps(S, P) /\ Shift({}, "EOK", {}) /\ Sleepers({})
<1>1. Releases(k, k, {}, "EOK")
  BY BaseSpec, ReleasesNone
<1> QED
  BY <1>1, ThreadKeeps

\* Nothing happens to the threads.
LEMMA StayKeeps ==
    ASSUME Base, NEW S, NEW P, k' = k, pc' = pc,
           isr' \in Isr, dead' \subseteq Obj, fault' \in BOOLEAN
    PROVE  Keeps(S, P) /\ Shift({}, "EOK", {}) /\ Sleepers({})
<1>1. Releases(k, k, {}, "EOK")
  BY BaseSpec, ReleasesNone
<1> QED
  BY <1>1, HandlerKeeps

\* A thread suspends itself.
LEMMA BlockKeeps ==
    ASSUME Base, NEW S, NEW P, NEW t \in Thread, t # Idle, t # Worker, NEW r \in S,
           NEW m, Suspends(k, m, t, r), k.cur = t,
           pc[t].at \in {"run", "mp_loop"}, pc[t].at \in PlainPoint \cup P,
           \/ k' = m /\ Goto(t, "take_sched", r)
           \/ k' = rt_schedule(m) /\ Goto(t, "take_ret", r),
           isr' \in Isr, dead' \subseteq Obj, fault' \in BOOLEAN
    PROVE  Keeps(S, P) /\ Joins(t, r)
<1>1. IpcInv' /\ WaitersClean' /\ Joins(t, r) /\ Sleepers({pc[t].at})
  BY BlocksJoins DEF Base, TakePoint
<1>2. \A o \in Obj \ S : Untouched(o)
  BY <1>1, JoinsUntouched
<1>3. ObjPc' /\ Still(ObjPoint \ (PlainPoint \cup P))
  BY MoveStill DEF ObjPoint, PlainPoint
<1> QED
  BY <1>1, <1>2, <1>3 DEF Keeps, Base, Sleepers

\* A thread comes back from its wait.
LEMMA ReturnKeeps ==
    ASSUME Base, NEW S, NEW P, NEW t \in Thread, t # Idle, pc[t].at = "take_ret", k.cur = t,
           \A o \in Obj \ S : pc[t].arg # o,
           k' = k \/ k' = SetErr(k, t, "EOK"),
           isr' \in Isr, dead' \subseteq Obj, fault' \in BOOLEAN,
           NEW at \in ObjPoint, at \in PlainPoint \cup P, at \notin TakePoint,
           NEW arg, ArgIsObject([at |-> at, arg |-> arg]),
           t = Worker => at \in WorkerPoint /\ arg = Worker, Goto(t, at, arg)
    PROVE  Keeps(S, P) /\ Shift({}, "EOK", {t}) /\ Sleepers({})
<1>1. IpcInv' /\ WaitersClean' /\ Shift({}, "EOK", {t}) /\ Sleepers({})
  BY WaitReturns DEF Base
<1>2. \A o \in Obj \ S : Untouched(o)
  <2>1. \A o \in Obj \ S : ~Taking(t, o)
    BY DEF Taking
  <2> QED
    BY <1>1, <2>1, ShiftUntouched DEF Base
<1>3. ObjPc' /\ Still(ObjPoint \ (PlainPoint \cup P))
  BY MoveStill DEF PlainPoint
<1> QED
  BY <1>1, <1>2, <1>3 DEF Keeps, Base, Sleepers

-----------------------------------------------------------------------------
(* The inductive invariants of the objects                                  *)

\* The receivers that were told of bit b and take it away when they return
Receiving(b) == {u \in Thread : HandedOver(u, Ev) /\ want[u].clear /\ b \in want[u].set}

\* The event: nobody waits for what is there, and the bits owed are those in the set
\* and those that receivers are about to return with.
EvInv ==
    /\ ev = [set |-> ev.set, owed |-> ev.owed]
    /\ ev.set \subseteq Bit /\ ev.owed \in [Bit -> Int]
    /\ want \in [Thread -> WantType]
    /\ \A u \in Thread : Linked(k, u, Ev) => ~Satisfies(ev.set, want[u])
    /\ \A b \in Bit : ev.owed[b] = One(b, ev.set) + Cardinality(Receiving(b))

\* The threads that the pool's counter counts, and those on their way to a block
Counted == {u \in Thread : Unanswered(u, Mp)}
Coming == {u \in Thread : HandedOver(u, Mp) \/ pc[u].at = "mp_loop"}

MpType == [list : Seq(Block), free : Nat, count : Nat, used : SUBSET Block, late : Nat]

\* The pool: the blocks and the counters are exact, each free block that somebody
\* waits for has a thread coming for it, and nobody comes for a block of a deleted pool.
MpInv ==
    /\ mp \in MpType /\ BlocksConserved
    /\ mp.count = mp.late + Cardinality(Counted)
    /\ (\E u \in Thread : Linked(k, u, Mp)) => mp.free <= Cardinality(Coming)
    /\ Mp \in dead => Coming = {}

\* The completion: the one thread that waits for it waits only while it is not done.
CpInv ==
    /\ completed \in BOOLEAN
    /\ \A u \in Thread :
        /\ completed => ~Linked(k, u, Cp)
        /\ HandedOver(u, Cp) => completed
        /\ Taking(u, Cp) => "completion" \in sys.has /\ u \in sys.consumer

WqType ==
    [list : Seq(Work), cur : Work \cup {Null}, pending : SUBSET Work,
     armed : SUBSET Delayed, attached : SUBSET Delayed,
     stray : BOOLEAN, cancelled : SUBSET Work]

\* A delayed work is in the list only while it is pending, and not while its timer is
\* being stopped.
DelayedExact ==
    /\ ToSet(wq.list) \cap Delayed \subseteq wq.pending
    /\ \A t \in Thread : pc[t].at = "dw_stop" =>
        \E w \in Delayed \ ToSet(wq.list) : pc[t] = [at |-> "dw_stop", arg |-> w]

\* Where the worker is while it executes a work, while it is about to suspend itself,
\* and while it is suspended
WorkerInStep ==
    /\ wq.cur # Null => pc[Worker].at = "wq_do"
    /\ pc[Worker].at = "wq_suspend" => wq.list = << >>
    /\ k.stat[Worker] = "SUSPEND" => pc[Worker].at \in {"take_sched", "take_ret"}

\* The work queue
WqInv ==
    /\ wq \in WqType /\ WorkListExact /\ DelayedExact /\ WorkerInStep
    /\ WorkerAwake /\ SyncServed

\* The delete of object o, which is at point C or W, leaves nobody behind.
Emptied(o, C, W) ==
    /\ \A t \in Thread : pc[t].at \in {C, W} => pc[t].arg = o /\ o \in dead
    /\ \A t, u \in Thread : pc[t].at \in {C, W} /\ pc[u].at \in {C, W} => t = u
    /\ o \in dead => \A u \in Thread : Linked(k, u, o) => ~Armed(k, u)
    /\ \A t \in Thread : pc[t].at = W => \E u \in Thread : Linked(k, u, o)
    /\ o \in dead /\ (\E u \in Thread : Linked(k, u, o)) => \E t \in Thread : pc[t].at \in {C, W}

\* The deletes of the event and of the pool
DeletesInv ==
    /\ Emptied(Ev, "wake_check", "wake_one") /\ Emptied(Mp, "mp_check", "mp_wake")
    /\ dead \subseteq {Ev, Mp} /\ ~fault

\* The types of what the threads know of the time
TimesInv ==
    left \in [Thread -> Int] /\ spent \in [Thread -> Nat] /\ limit \in [Thread -> Nat]

ObjInv ==
    /\ Base /\ EvInv /\ MpInv /\ CpInv /\ WqInv /\ DeletesInv /\ TimesInv
    /\ sys \in Systems

-----------------------------------------------------------------------------
(* The steps of the event                                                   *)

\* A thread waits for one object only.
LEMMA OneObject ==
    ASSUME Base, NEW u \in Thread, NEW o \in Obj, Linked(k, u, o)
    PROVE  /\ \A p \in Obj : p # o => ~Linked(k, u, p)
           /\ k.stat[u] = "SUSPEND" /\ k.err[u] = "EOK" /\ Taking(u, o) /\ ~HandedOver(u, o)
BY BaseSpec DEF Taking, HandedOver

\* A thread that makes a call, or that is at a point outside the worker's loop, is one
\* of the application's threads.
LEMMA CallerIsUser ==
    ASSUME Base, NEW t \in Thread, pc[t].at \notin WorkerPoint
    PROVE  t # Worker /\ (pc[t].at # "run" => t # Idle)
BY DEF Base, ObjPc

\* Sets of threads are finite, and disjoint ones add up.
LEMMA ThreadSets ==
    ASSUME NEW A \in SUBSET Thread
    PROVE  /\ IsFiniteSet(A) /\ Cardinality(A) \in Nat
           /\ \A B \in SUBSET Thread : A \cap B = {} =>
                Cardinality(A \cup B) = Cardinality(A) + Cardinality(B)
<1>1. \A B \in SUBSET Thread : IsFiniteSet(B) /\ Cardinality(B) \in Nat
  BY KernelAssumption, FS_Subset, FS_CardinalityType
<1>2. ASSUME NEW B \in SUBSET Thread, A \cap B = {}
      PROVE  Cardinality(A \cup B) = Cardinality(A) + Cardinality(B)
  <2>1. Cardinality(A \cup B) = Cardinality(A) + Cardinality(B) - Cardinality(A \cap B)
    BY <1>1, FS_Union
  <2> QED
    BY <1>1, <1>2, <2>1, FS_EmptySet
<1> QED
  BY <1>1, <1>2

\* One thread more or less
LEMMA ThreadAdded ==
    ASSUME NEW A \in SUBSET Thread, NEW t \in Thread
    PROVE  /\ t \notin A => Cardinality(A \cup {t}) = Cardinality(A) + 1
           /\ t \in A => Cardinality(A) = Cardinality(A \ {t}) + 1
<1>1. IsFiniteSet({t}) /\ Cardinality({t}) = 1
  BY FS_Singleton
<1>2. A \ {t} \in SUBSET Thread /\ {t} \in SUBSET Thread
  OBVIOUS
<1>3. CASE t \notin A
  <2>1. A \cap {t} = {}
    BY <1>3
  <2> QED
    BY <1>1, <1>2, <1>3, <2>1, ThreadSets
<1>4. CASE t \in A
  <2>1. (A \ {t}) \cap {t} = {} /\ A = (A \ {t}) \cup {t}
    BY <1>4
  <2>2. Cardinality((A \ {t}) \cup {t}) = Cardinality(A \ {t}) + Cardinality({t})
    BY <1>2, <2>1, ThreadSets
  <2> QED
    BY <1>1, <1>4, <2>1, <2>2
<1> QED
  BY <1>3, <1>4

\* The counts of the bits
LEMMA EvCountSpec ==
    ASSUME NEW owed \in [Bit -> Int], NEW D, NEW n \in Int, NEW new, new = EvCount(owed, D, n)
    PROVE  /\ new \in [Bit -> Int]
           /\ \A x \in Bit : new[x] = owed[x] + IF x \in D THEN n ELSE 0
BY DEF EvCount

\* rt_event_send keeps the invariant.
LEMMA RaisedInv ==
    ASSUME Base, EvInv, NEW set \in SUBSET Bit, NEW r, EvRaise(set, r), NEW W \in SUBSET Thread,
           Answered(set, r, W), Shift(W, "EOK", {})
    PROVE  EvInv'
<1>1. /\ ev' = [set |-> ev'.set, owed |-> ev'.owed] /\ ev'.set = r.set /\ want' = r.want
      /\ ev'.owed = EvCount(ev.owed, set \ ev.set, 1)
  BY DEF EvRaise
<1>2. ev.owed \in [Bit -> Int] /\ ev.set \subseteq Bit
  BY DEF EvInv
<1>3. /\ ev'.owed \in [Bit -> Int]
      /\ \A b \in Bit : ev'.owed[b] = ev.owed[b] + IF b \in set \ ev.set THEN 1 ELSE 0
  BY <1>1, <1>2, EvCountSpec
<1>4. \A u \in Thread : /\ Linked(k', u, Ev) <=> Linked(k, u, Ev) /\ u \notin W
                        /\ HandedOver(u, Ev)' <=> HandedOver(u, Ev) \/ u \in W
                        /\ u \in W => ~HandedOver(u, Ev)
  BY ObjectsConstants, OneObject DEF Shift, Answered
<1>5. \A u \in Thread : Linked(k', u, Ev) => ~Satisfies(ev'.set, want'[u])
  BY <1>1, <1>4 DEF Answered
<1>6. ASSUME NEW b \in Bit
      PROVE  ev'.owed[b] = One(b, ev'.set) + Cardinality(Receiving(b)')
  <2>1. PICK R : R = Receiving(b)
    OBVIOUS
  <2>2. PICK C : C = Cleared(W, r.want, b)
    OBVIOUS
  <2>3. PICK N : N = Receiving(b)'
    OBVIOUS
  <2>4. R \in SUBSET Thread /\ C \in SUBSET Thread /\ R \cap C = {}
    BY <1>4, <2>1, <2>2 DEF Receiving, Cleared
  <2>5. N = R \cup C
    <3>1. \A u \in Thread : u \notin W => want'[u] = want[u]
      BY <1>1 DEF Answered
    <3> QED
      BY <1>1, <1>4, <2>1, <2>2, <2>3, <3>1 DEF Receiving, Cleared
  <2>6. Cardinality(N) = Cardinality(R) + Cardinality(C)
    BY <2>4, <2>5, ThreadSets
  <2>7. Cardinality(R) \in Nat /\ Cardinality(C) \in Nat
    BY <2>4, ThreadSets
  <2>8. ev.owed[b] = One(b, ev.set) + Cardinality(R)
    BY <2>1 DEF EvInv
  <2>9. One(b, ev.set \cup set) = One(b, r.set) + Cardinality(C)
    BY <2>2 DEF Answered
  <2>10. One(b, ev.set \cup set) = One(b, ev.set) + (IF b \in set \ ev.set THEN 1 ELSE 0)
    BY DEF One
  <2>11. One(b, r.set) \in Int /\ One(b, ev.set) \in Int
    BY DEF One
  <2>12. ev'.owed[b] = One(b, r.set) + Cardinality(N)
    BY <1>3, <2>6, <2>7, <2>8, <2>9, <2>10, <2>11
  <2> QED
    BY <1>1, <2>3, <2>12
<1>7. ev'.set \subseteq Bit /\ want' \in [Thread -> WantType]
  BY <1>1, <1>2 DEF Answered
<1> QED
  BY <1>1, <1>3, <1>5, <1>6, <1>7 DEF EvInv

\* The waiters of an object that is being deleted stay as they are, or leave.
Rests(o) == \A u \in Thread :
    /\ Linked(k', u, o) => Linked(k, u, o)
    /\ Linked(k, u, o) /\ ~Armed(k, u) => Linked(k', u, o)
    /\ Linked(k', u, o) /\ Armed(k', u) => Armed(k, u)

\* What each step of the event keeps
EvKept ==
    /\ Keeps({Ev}, {}) /\ EvInv' /\ (Ev \notin dead \/ Rests(Ev))
    /\ UNCHANGED <<dead, fault, waiting>>

\* rt_event_send of a thread
LEMMA EvSendKept ==
    ASSUME Base, EvInv, NEW t \in User, NEW set \in SUBSET Bit, EvSend(t, set)
    PROVE  EvKept
<1>1. /\ k.cur = t /\ pc[t].at = "run" /\ Ev \notin dead
      /\ t \in Thread /\ t # Idle /\ t # Worker
  BY ObjectsConstants DEF EvSend, CallsOn, Calls, Is, User, Base, ObjPc, WorkerPoint
<1>2. PICK r : r = EvWalk(set)
  OBVIOUS
<1>3. /\ EvRaise(set, r) /\ k' = r.k /\ (r.k # k => Goto(t, "sched", t))
      /\ (r.k = k => pc' = pc) /\ UNCHANGED <<isr, dead, fault, waiting>>
  <2>1. /\ EvRaise(set, EvWalk(set)) /\ k' = EvWalk(set).k
        /\ IF EvWalk(set).k # k THEN Goto(t, "sched", t) ELSE UNCHANGED pc
        /\ UNCHANGED <<isr, dead, fault, waiting>>
    BY DEF EvSend
  <2>2. EvRaise(set, r)
    BY <1>2, <2>1 DEF EvRaise
  <2> QED
    BY <1>2, <2>1, <2>2
<1>4. /\ Good(k, {}) /\ isr' \in Isr /\ dead' \subseteq Obj /\ fault' \in BOOLEAN
      /\ want \in [Thread -> WantType] /\ Ev \in Obj
  BY <1>3, BaseSpec, ObjectsConstants DEF EvInv
<1>5. PICK W \in SUBSET Thread : Answered(set, r, W)
  BY <1>2, <1>4, OfferAll
<1>6. Releases(k, r.k, W, "EOK")
  BY <1>5 DEF Answered
<1>7. \A u \in W : \A o \in Obj \ {Ev} : ~Linked(k, u, o)
  BY <1>4, <1>5, OneObject DEF Answered
<1>8. Keeps({Ev}, {}) /\ Shift(W, "EOK", {})
  <2>1. CASE r.k # k
    <3>1. /\ "sched" \in ObjPoint /\ "sched" \in PlainPoint \cup {} /\ "sched" \notin TakePoint
          /\ "run" \in PlainPoint \cup {} /\ "run" \notin TakePoint \cup {"sleep_sched"}
          /\ ArgIsObject([at |-> "sched", arg |-> t])
      BY DEF ObjPoint, PlainPoint, TakePoint, ArgIsObject
    <3> QED
      BY <1>1, <1>3, <1>4, <1>6, <1>7, <2>1, <3>1, ThreadKeeps
  <2>2. CASE r.k = k
    BY <1>3, <1>4, <1>6, <1>7, <2>2, HandlerKeeps
  <2> QED
    BY <2>1, <2>2
<1>9. EvInv'
  BY <1>3, <1>5, <1>8, RaisedInv
<1> QED
  BY <1>1, <1>3, <1>8, <1>9 DEF EvKept

\* and of a handler
LEMMA EvIsrSendKept ==
    ASSUME Base, EvInv, NEW set \in SUBSET Bit, EvIsrSend(set)
    PROVE  EvKept
<1>1. Ev \notin dead
  BY DEF EvIsrSend, IsrCalls
<1>2. PICK r : r = EvWalk(set)
  OBVIOUS
<1>3. /\ EvRaise(set, r) /\ (k' = r.k \/ k' = rt_schedule(r.k))
      /\ pc' = pc /\ UNCHANGED <<isr, dead, fault, waiting>>
  <2>1. /\ EvRaise(set, EvWalk(set))
        /\ k' = IF EvWalk(set).k # k THEN rt_schedule(EvWalk(set).k) ELSE k
        /\ UNCHANGED <<isr, pc, dead, fault, waiting>>
    BY DEF EvIsrSend
  <2>2. EvRaise(set, r)
    BY <1>2, <2>1 DEF EvRaise
  <2> QED
    BY <1>2, <2>1, <2>2
<1>4. /\ Good(k, {}) /\ isr' \in Isr /\ dead' \subseteq Obj /\ fault' \in BOOLEAN
      /\ want \in [Thread -> WantType] /\ Ev \in Obj
  BY <1>3, BaseSpec, ObjectsConstants DEF EvInv
<1>5. PICK W \in SUBSET Thread : Answered(set, r, W)
  BY <1>2, <1>4, OfferAll
<1>6. Releases(k, r.k, W, "EOK")
  BY <1>5 DEF Answered
<1>7. \A u \in W : \A o \in Obj \ {Ev} : ~Linked(k, u, o)
  BY <1>4, <1>5, OneObject DEF Answered
<1>8. Keeps({Ev}, {}) /\ Shift(W, "EOK", {})
  BY <1>3, <1>4, <1>6, <1>7, HandlerKeeps
<1>9. EvInv'
  BY <1>3, <1>5, <1>8, RaisedInv
<1> QED
  BY <1>1, <1>3, <1>8, <1>9 DEF EvKept

\* The receivers of a bit, when one returns or when none does.
LEMMA ReceivingWithout ==
    ASSUME NEW T, NEW b, \A u \in Thread : HandedOver(u, Ev)' <=> HandedOver(u, Ev) /\ u \notin T,
           \A u \in Thread : u \notin T => (HandedOver(u, Ev) => want'[u] = want[u])
    PROVE  Receiving(b)' = Receiving(b) \ T
BY DEF Receiving

\* rt_event_recv of bits that are there
LEMMA EvRecvKept ==
    ASSUME Base, EvInv, NEW t, NEW w, EvRecv(t, w)
    PROVE  EvKept
<1>1. /\ Ev \notin dead /\ UNCHANGED <<k, isr, pc, dead, fault, waiting, want>>
      /\ ev' = IF w.clear
               THEN [set |-> ev.set \ w.set, owed |-> EvCount(ev.owed, ev.set \cap w.set, -1)]
               ELSE ev
  BY DEF EvRecv, CallsOn, kernel
<1>2. Keeps({Ev}, {}) /\ Shift({}, "EOK", {})
  BY <1>1, BaseSpec, StayKeeps
<1>3. EvInv'
  <2>1. CASE ev' = ev
    <3>1. \A b : Receiving(b)' = Receiving(b)
      BY <1>1 DEF Receiving, HandedOver, Taking
    <3> QED
      BY <1>1, <2>1, <3>1 DEF EvInv
  <2>2. CASE ev' = [set |-> ev.set \ w.set, owed |-> EvCount(ev.owed, ev.set \cap w.set, -1)]
    <3>1. /\ ev' = [set |-> ev'.set, owed |-> ev'.owed] /\ ev'.set = ev.set \ w.set
          /\ ev'.owed = EvCount(ev.owed, ev.set \cap w.set, -1)
      BY <2>2
    <3>2. ev.owed \in [Bit -> Int] /\ ev.set \subseteq Bit /\ want \in [Thread -> WantType]
      BY DEF EvInv
    <3>3. /\ ev'.owed \in [Bit -> Int]
          /\ \A b \in Bit : ev'.owed[b] = ev.owed[b] + IF b \in ev.set \cap w.set THEN -1 ELSE 0
      BY <3>1, <3>2, EvCountSpec
    <3>4. \A u \in Thread : Linked(k', u, Ev) => ~Satisfies(ev'.set, want'[u])
      <4>1. ev'.set \subseteq ev.set
        BY <3>1
      <4> QED
        BY <1>1, <4>1, SatisfiesMonotone DEF EvInv
    <3>5. ASSUME NEW b \in Bit
          PROVE  ev'.owed[b] = One(b, ev'.set) + Cardinality(Receiving(b)')
      <4>1. PICK R : R = Receiving(b)
        OBVIOUS
      <4>2. PICK N : N = Receiving(b)'
        OBVIOUS
      <4>3. N = R
        BY <1>1, <4>1, <4>2 DEF Receiving, HandedOver, Taking
      <4>4. ev.owed[b] = One(b, ev.set) + Cardinality(R)
        BY <4>1 DEF EvInv
      <4>5. Cardinality(R) \in Nat
        <5>1. R \in SUBSET Thread
          BY <4>1 DEF Receiving
        <5> QED
          BY <5>1, ThreadSets
      <4>6. ev'.owed[b] = One(b, ev'.set) + Cardinality(N)
        BY <3>1, <3>3, <4>3, <4>4, <4>5 DEF One
      <4> QED
        BY <4>2, <4>6
    <3> QED
      BY <1>1, <3>1, <3>2, <3>3, <3>4, <3>5 DEF EvInv
  <2> QED
    BY <1>1, <2>1, <2>2
<1> QED
  BY <1>1, <1>2, <1>3 DEF EvKept

\* A thread that is at "run" has been told of nothing.
LEMMA NotTaking ==
    ASSUME NEW t, pc[t].at \notin {"take_sched", "take_ret"}, NEW o
    PROVE  ~Taking(t, o) /\ ~HandedOver(t, o) /\ ~Unanswered(t, o)
BY DEF Taking, HandedOver, Unanswered

\* The waiting times are integers.
LEMMA TimesInteger ==
    ASSUME NEW t, NEW time \in TimesOf(t)
    PROVE  time \in Int
BY IpcAssumption DEF TimesOf

\* A step in which nobody is resumed
LEMMA ShiftRests ==
    ASSUME NEW T, NEW e, Shift({}, e, T), NEW o \in Obj
    PROVE  Rests(o)
BY DEF Shift, Rests

\* rt_event_recv of bits that are not there
LEMMA EvRecvBlocksKept ==
    ASSUME Base, EvInv, NEW t \in User \ {Worker}, NEW w \in Request, NEW time \in TimesOf(t),
           EvRecvBlocks(t, w, time)
    PROVE  EvKept
<1>1. /\ k.cur = t /\ pc[t].at = "run" /\ Ev \notin dead /\ t \in Thread /\ t # Idle
      /\ ~Satisfies(ev.set, w) /\ want' = [want EXCEPT ![t] = w] /\ ev' = ev
      /\ k' = SuspendSelfOn(k, Ev, Flag[Ev], time) /\ Goto(t, "take_sched", Ev)
      /\ UNCHANGED <<isr, dead, fault, waiting>>
  BY DEF EvRecvBlocks, CallsOn, Calls, Is, User
<1>2. /\ Good(k, {}) /\ k.stat[t] = "RUNNING" /\ time \in Int /\ Ev \in Obj
      /\ isr' \in Isr /\ dead' \subseteq Obj /\ fault' \in BOOLEAN
  BY <1>1, BaseSpec, ObjectsConstants, TimesInteger, Runs DEF Base
<1>3. PICK flag : flag = Flag[Ev]
  OBVIOUS
<1>4. PICK m : m = SuspendSelfOn(k, Ev, flag, time)
  OBVIOUS
<1>5. Suspends(k, m, t, Ev)
  BY <1>1, <1>2, <1>4, SuspendSelfBlocks
<1>6. Keeps({Ev}, {}) /\ Joins(t, Ev)
  <2>1. pc[t].at \in {"run", "mp_loop"} /\ pc[t].at \in PlainPoint \cup {} /\ Ev \in {Ev}
    BY <1>1 DEF PlainPoint
  <2>2. k' = m /\ Goto(t, "take_sched", Ev)
    BY <1>1, <1>3, <1>4
  <2> QED
    BY <1>1, <1>2, <1>5, <2>1, <2>2, BlockKeeps
<1>7. EvInv'
  <2>1. /\ want \in [Thread -> WantType] /\ w \in WantType
        /\ \A u \in Thread : Linked(k, u, Ev) => ~Satisfies(ev.set, want[u])
    BY EventAssumption DEF EvInv, WantType
  <2>2. /\ want' \in [Thread -> WantType]
        /\ \A u \in Thread : want'[u] = IF u = t THEN w ELSE want[u]
    BY <1>1, <2>1
  <2>3. \A u \in Thread : /\ Linked(k', u, Ev) <=> Linked(k, u, Ev) \/ u = t
                          /\ HandedOver(u, Ev)' <=> HandedOver(u, Ev)
    BY <1>2, <1>6 DEF Joins
  <2>4. ~HandedOver(t, Ev)
    BY <1>1, NotTaking
  <2>5. ASSUME NEW b PROVE Receiving(b)' = Receiving(b)
    BY <2>2, <2>3, <2>4 DEF Receiving
  <2>6. \A u \in Thread : Linked(k', u, Ev) => ~Satisfies(ev'.set, want'[u])
    BY <1>1, <2>1, <2>2, <2>3
  <2> QED
    BY <1>1, <2>2, <2>5, <2>6 DEF EvInv
<1> QED
  BY <1>1, <1>6, <1>7 DEF EvKept

\* A receiver returns, with the bits or with an error.
LEMMA EvRecvReturnsKept ==
    ASSUME Base, EvInv, NEW t \in User \ {Worker}, EvRecvReturns(t)
    PROVE  EvKept
<1>1. /\ k.cur = t /\ pc[t].at = "take_ret" /\ pc[t].arg = Ev /\ t \in Thread /\ t # Idle
      /\ ev' = IF k.err[t] = "EOK" /\ want[t].clear
               THEN [ev EXCEPT !.owed = EvCount(@, want[t].set, -1)] ELSE ev
      /\ k' = SetErr(k, t, "EOK") /\ want' = [want EXCEPT ![t] = NoWant] /\ Goto(t, "run", t)
      /\ UNCHANGED <<isr, dead, fault, waiting>>
  BY DEF EvRecvReturns, Is, User, SetErr
<1>2. /\ k.stat[t] = "RUNNING" /\ Ev \in Obj
      /\ isr' \in Isr /\ dead' \subseteq Obj /\ fault' \in BOOLEAN
  BY <1>1, BaseSpec, ObjectsConstants, Runs DEF Base
<1>3. Keeps({Ev}, {}) /\ Shift({}, "EOK", {t})
  <2>1. /\ "run" \in ObjPoint /\ "run" \in PlainPoint \cup {} /\ "run" \notin TakePoint
        /\ ArgIsObject([at |-> "run", arg |-> t]) /\ \A o \in Obj \ {Ev} : pc[t].arg # o
    BY <1>1 DEF ObjPoint, PlainPoint, TakePoint, ArgIsObject
  <2> QED
    BY <1>1, <1>2, <2>1, ReturnKeeps
<1>4. EvInv'
  <2>1. /\ want \in [Thread -> WantType] /\ NoWant \in WantType
        /\ ev = [set |-> ev.set, owed |-> ev.owed]
        /\ ev.owed \in [Bit -> Int] /\ ev.set \subseteq Bit
    BY DEF EvInv, WantType, NoWant
  <2>2. /\ want' \in [Thread -> WantType]
        /\ \A u \in Thread : want'[u] = IF u = t THEN NoWant ELSE want[u]
    BY <1>1, <2>1
  <2>3. \A u \in Thread : /\ Linked(k', u, Ev) <=> Linked(k, u, Ev)
                          /\ HandedOver(u, Ev)' <=> HandedOver(u, Ev) /\ u # t
                          /\ Linked(k, t, Ev) => FALSE
    BY <1>1, <1>2, <1>3, OneObject DEF Shift
  <2>4. HandedOver(t, Ev) <=> k.err[t] = "EOK"
    BY <1>1, <1>2 DEF HandedOver, Taking
  <2>5. PICK D : D = IF k.err[t] = "EOK" /\ want[t].clear THEN want[t].set ELSE {}
    OBVIOUS
  <2>6. /\ ev' = [set |-> ev'.set, owed |-> ev'.owed] /\ ev'.set = ev.set
        /\ ev'.owed \in [Bit -> Int]
        /\ \A b \in Bit : ev'.owed[b] = ev.owed[b] + IF b \in D THEN -1 ELSE 0
    <3>1. CASE k.err[t] = "EOK" /\ want[t].clear
      <4>1. PICK new : new = EvCount(ev.owed, D, -1)
        OBVIOUS
      <4>2. ev' = [set |-> ev.set, owed |-> new]
        BY <1>1, <2>1, <2>5, <3>1, <4>1
      <4>3. /\ new \in [Bit -> Int]
            /\ \A b \in Bit : new[b] = ev.owed[b] + IF b \in D THEN -1 ELSE 0
        BY <2>1, <4>1, EvCountSpec
      <4> QED
        BY <4>2, <4>3
    <3>2. CASE ~(k.err[t] = "EOK" /\ want[t].clear)
      <4>1. ev' = ev /\ D = {}
        BY <1>1, <2>5, <3>2
      <4> QED
        BY <2>1, <4>1
    <3> QED
      BY <3>1, <3>2
  <2>7. ASSUME NEW b \in Bit
        PROVE  ev'.owed[b] = One(b, ev'.set) + Cardinality(Receiving(b)')
    <3>1. PICK R : R = Receiving(b)
      OBVIOUS
    <3>2. PICK N : N = Receiving(b)'
      OBVIOUS
    <3>3. R \in SUBSET Thread /\ N = R \ {t}
      BY <2>2, <2>3, <3>1, <3>2 DEF Receiving
    <3>4. t \in R <=> b \in D
      BY <1>1, <2>4, <2>5, <3>1 DEF Receiving
    <3>5. Cardinality(N) \in Nat /\ Cardinality(R) = Cardinality(N) + (IF b \in D THEN 1 ELSE 0)
      <4>1. N \in SUBSET Thread /\ Cardinality(N) \in Nat
        BY <3>3, ThreadSets
      <4>2. CASE b \in D
        BY <1>1, <3>3, <3>4, <4>1, <4>2, ThreadAdded
      <4>3. CASE b \notin D
        <5>1. N = R
          BY <3>3, <3>4, <4>3
        <5> QED
          BY <4>1, <4>3, <5>1
      <4> QED
        BY <4>2, <4>3
    <3>6. ev.owed[b] = One(b, ev.set) + Cardinality(R)
      BY <3>1 DEF EvInv
    <3>7. ev'.owed[b] = One(b, ev'.set) + Cardinality(N)
      BY <2>6, <3>5, <3>6 DEF One
    <3> QED
      BY <3>2, <3>7
  <2>8. \A u \in Thread : Linked(k', u, Ev) => ~Satisfies(ev'.set, want'[u])
    BY <2>2, <2>3, <2>6 DEF EvInv
  <2> QED
    BY <2>1, <2>2, <2>6, <2>7, <2>8 DEF EvInv
<1>5. Rests(Ev)
  BY <1>2, <1>3, ShiftRests
<1> QED
  BY <1>1, <1>3, <1>4, <1>5 DEF EvKept

\* rt_event_control(RT_IPC_CMD_RESET)
LEMMA EvResetKept ==
    ASSUME Base, EvInv, NEW t \in User, EvReset(t)
    PROVE  EvKept
<1>1. /\ k.cur = t /\ pc[t].at = "run" /\ Ev \notin dead
      /\ t \in Thread /\ t # Idle /\ t # Worker
      /\ k' = ResumeAll(k, Ev) /\ Goto(t, "sched", t) /\ want' = want
      /\ ev' = [set |-> {}, owed |-> EvCount(ev.owed, ev.set, -1)]
      /\ UNCHANGED <<isr, dead, fault, waiting>>
  BY ObjectsConstants DEF EvReset, CallsOn, Calls, Is, User, Base, ObjPc, WorkerPoint
<1>2. /\ Good(k, {}) /\ Ev \in Obj /\ isr' \in Isr /\ dead' \subseteq Obj /\ fault' \in BOOLEAN
  BY <1>1, BaseSpec, ObjectsConstants
<1>3. PICK W \in SUBSET Thread : W = {u \in Thread : Linked(k, u, Ev)}
  OBVIOUS
<1>4. PICK m : m = ResumeAll(k, Ev)
  OBVIOUS
<1>5. Releases(k, m, W, "ERROR")
  <2>1. k.q[Ev] \in Seq(Thread)
    BY <1>2, LinkedCardinality
  <2>2. PICK c : Walk("error", k, k.q[Ev], Len(k.q[Ev]), c) /\ m = c[Len(k.q[Ev])]
    BY <1>4, <2>1, ResetWalk
  <2>3. Resuming("error", Ev, "ERROR")
    BY DEF Resuming
  <2> QED
    BY <1>2, <1>3, <2>2, <2>3, WalkEmpties
<1>6. \A u \in W : \A o \in Obj \ {Ev} : ~Linked(k, u, o)
  BY <1>2, <1>3, OneObject
<1>7. Keeps({Ev}, {}) /\ Shift(W, "ERROR", {})
  <2>1. /\ "sched" \in ObjPoint /\ "sched" \in PlainPoint \cup {} /\ "sched" \notin TakePoint
        /\ "run" \in PlainPoint \cup {} /\ "run" \notin TakePoint \cup {"sleep_sched"}
        /\ ArgIsObject([at |-> "sched", arg |-> t])
    BY DEF ObjPoint, PlainPoint, TakePoint, ArgIsObject
  <2> QED
    BY <1>1, <1>2, <1>4, <1>5, <1>6, <2>1, ThreadKeeps
<1>8. EvInv'
  <2>1. /\ want \in [Thread -> WantType]
        /\ ev' = [set |-> ev'.set, owed |-> ev'.owed] /\ ev'.set = {}
        /\ ev'.owed = EvCount(ev.owed, ev.set, -1)
        /\ ev.owed \in [Bit -> Int] /\ ev.set \subseteq Bit
    BY <1>1 DEF EvInv
  <2>2. /\ ev'.owed \in [Bit -> Int]
        /\ \A b \in Bit : ev'.owed[b] = ev.owed[b] + IF b \in ev.set THEN -1 ELSE 0
    BY <2>1, EvCountSpec
  <2>3. \A u \in Thread : /\ ~Linked(k', u, Ev)
                          /\ HandedOver(u, Ev)' <=> HandedOver(u, Ev)
    BY <1>2, <1>3, <1>7 DEF Shift
  <2>4. ASSUME NEW b \in Bit
        PROVE  ev'.owed[b] = One(b, ev'.set) + Cardinality(Receiving(b)')
    <3>1. PICK R : R = Receiving(b)
      OBVIOUS
    <3>2. PICK N : N = Receiving(b)'
      OBVIOUS
    <3>3. R \in SUBSET Thread /\ N = R
      BY <1>1, <2>3, <3>1, <3>2 DEF Receiving
    <3>4. Cardinality(R) \in Nat
      BY <3>3, ThreadSets
    <3>5. ev.owed[b] = One(b, ev.set) + Cardinality(R)
      BY <3>1 DEF EvInv
    <3>6. ev'.owed[b] = One(b, ev'.set) + Cardinality(N)
      BY <2>1, <2>2, <3>3, <3>4, <3>5 DEF One
    <3> QED
      BY <3>2, <3>6
  <2> QED
    BY <1>1, <2>1, <2>2, <2>3, <2>4 DEF EvInv
<1> QED
  BY <1>1, <1>7, <1>8 DEF EvKept

\* Every step of the event
LEMMA EvStepKept ==
    ASSUME Base, EvInv, sys \in Systems, EvStep(sys.producer, sys.consumer)
    PROVE  EvKept
<1>1. sys.producer \subseteq User /\ sys.consumer \subseteq User \ {Worker}
  BY SystemUsers
<1> QED
  BY <1>1, EvSendKept, EvIsrSendKept, EvRecvKept, EvRecvBlocksKept, EvRecvReturnsKept,
     EvResetKept DEF EvStep

-----------------------------------------------------------------------------
(* The steps of a delete                                                    *)

\* The object is alive, and nobody begins to delete it.
LEMMA EmptiedAlive ==
    ASSUME NEW o, NEW C, NEW W, Emptied(o, C, W), o \notin dead, o \notin dead',
           \A u \in Thread : pc'[u].at \in {C, W} => pc[u].at \in {C, W}
    PROVE  Emptied(o, C, W)'
<1>1. \A u \in Thread : pc[u].at \notin {C, W}
  BY DEF Emptied
<1>2. \A u \in Thread : pc'[u].at \notin {C, W}
  BY <1>1
<1> QED
  BY <1>2 DEF Emptied

\* A step that has nothing to do with the delete
LEMMA EmptiedRests ==
    ASSUME NEW o, NEW C, NEW W, Emptied(o, C, W), Rests(o), o \in dead' <=> o \in dead,
           Still({C, W})
    PROVE  Emptied(o, C, W)'
<1>1. \A u \in Thread : /\ pc'[u].at \in {C, W} <=> pc[u].at \in {C, W}
                        /\ pc[u].at \in {C, W} => pc'[u] = pc[u]
                        /\ pc'[u].at = W <=> pc[u].at = W
  BY DEF Still
<1>2. \A u \in Thread : pc[u].at = W =>
        /\ o \in dead /\ \E v \in Thread : Linked(k, v, o)
        /\ \A v \in Thread : Linked(k, v, o) => ~Armed(k, v)
  BY DEF Emptied
<1>3. \A u \in Thread : pc[u].at = W => \E v \in Thread : Linked(k', v, o)
  BY <1>2 DEF Rests
<1>4. (\E u \in Thread : Linked(k', u, o)) => \E u \in Thread : Linked(k, u, o)
  BY DEF Rests
<1>5. \A t \in Thread : pc'[t].at \in {C, W} => pc'[t].arg = o /\ o \in dead'
  BY <1>1 DEF Emptied
<1>6. \A t, u \in Thread : pc'[t].at \in {C, W} /\ pc'[u].at \in {C, W} => t = u
  BY <1>1 DEF Emptied
<1>7. o \in dead' => \A u \in Thread : Linked(k', u, o) => ~Armed(k', u)
  BY DEF Emptied, Rests
<1>8. \A t \in Thread : pc'[t].at = W => \E u \in Thread : Linked(k', u, o)
  BY <1>1, <1>3
<1>9. o \in dead' /\ (\E u \in Thread : Linked(k', u, o)) => \E t \in Thread : pc'[t].at \in {C, W}
  BY <1>1, <1>4 DEF Emptied
<1> QED
  BY <1>5, <1>6, <1>7, <1>8, <1>9 DEF Emptied

\* The delete begins: none of the waiters can time out.
LEMMA EmptiedStarts ==
    ASSUME Base, NEW o, NEW C, NEW W, Emptied(o, C, W), o \notin dead, o \in dead', C # W,
           "delete_timed" \notin Ops, MayWakeAll(o), k' = k, NEW t \in Thread, Goto(t, C, o)
    PROVE  Emptied(o, C, W)'
<1>1. /\ pc'[t].at = C /\ pc'[t].arg = o
      /\ \A u \in Thread \ {t} : pc'[u] = pc[u]
  BY GotoPc DEF Base
<1>2. \A u \in Thread : pc'[u].at \in {C, W} <=> u = t
  BY <1>1 DEF Emptied
<1>3. \A u \in Thread : Linked(k', u, o) => ~Armed(k', u)
  BY DEF MayWakeAll
<1>4. \A u \in Thread : pc'[u].at # W
  BY <1>1, <1>2
<1> QED
  BY <1>1, <1>2, <1>3, <1>4 DEF Emptied

\* The loop finds somebody in the list, or ends.
LEMMA EmptiedChecks ==
    ASSUME Base, NEW o \in Obj, NEW C, NEW W, Emptied(o, C, W), dead' = dead, C # W,
           "run" \notin {C, W}, k' = k, NEW t \in Thread, pc[t].at = C,
           \/ k.q[o] # << >> /\ Goto(t, W, o)
           \/ k.q[o] = << >> /\ Goto(t, "run", t)
    PROVE  Emptied(o, C, W)'
<1>1. \A u \in Thread : pc[u].at \in {C, W} <=> u = t
  BY DEF Emptied
<1>2. o \in dead /\ \A u \in Thread : Linked(k', u, o) => ~Armed(k', u)
  BY DEF Emptied
<1>3. k.q[o] = << >> <=> \A u \in Thread : ~Linked(k, u, o)
  BY BaseSpec, EmptyIff
<1>4. CASE k.q[o] # << >> /\ Goto(t, W, o)
  <2>1. /\ pc'[t].at = W /\ pc'[t].arg = o
        /\ \A u \in Thread \ {t} : pc'[u] = pc[u]
    BY <1>4, GotoPc DEF Base
  <2>2. \E u \in Thread : Linked(k', u, o)
    BY <1>3, <1>4
  <2>3. \A u \in Thread : pc'[u].at \in {C, W} <=> u = t
    BY <1>1, <2>1
  <2> QED
    BY <1>2, <2>1, <2>2, <2>3 DEF Emptied
<1>5. CASE k.q[o] = << >> /\ Goto(t, "run", t)
  <2>1. /\ pc'[t].at = "run"
        /\ \A u \in Thread \ {t} : pc'[u] = pc[u]
    BY <1>5, GotoPc DEF Base
  <2>2. \A u \in Thread : ~Linked(k', u, o)
    BY <1>3, <1>5
  <2>3. \A u \in Thread : pc'[u].at \notin {C, W}
    BY <1>1, <2>1
  <2> QED
    BY <2>2, <2>3 DEF Emptied
<1> QED
  BY <1>4, <1>5

\* One thread is resumed with an error.
LEMMA EmptiedWakes ==
    ASSUME Base, NEW o \in Obj, NEW C, NEW W, Emptied(o, C, W), dead' = dead, C # W,
           NEW t \in Thread, pc[t].at = W, Goto(t, C, o),
           \A u \in Thread : /\ Linked(k', u, o) => Linked(k, u, o)
                             /\ Linked(k', u, o) /\ Armed(k', u) => Armed(k, u)
    PROVE  Emptied(o, C, W)'
<1>1. /\ \A u \in Thread : pc[u].at \in {C, W} <=> u = t
      /\ o \in dead
  BY DEF Emptied
<1>2. /\ pc'[t].at = C /\ pc'[t].arg = o
      /\ \A u \in Thread \ {t} : pc'[u] = pc[u]
  BY GotoPc DEF Base
<1>3. \A u \in Thread : pc'[u].at \in {C, W} <=> u = t
  BY <1>1, <1>2
<1>4. \A u \in Thread : Linked(k', u, o) => ~Armed(k', u)
  BY <1>1 DEF Emptied
<1> QED
  BY <1>1, <1>2, <1>3, <1>4 DEF Emptied

\* What is untouched rests.
LEMMA UntouchedRests ==
    ASSUME NEW o, Untouched(o)
    PROVE  Rests(o)
BY DEF Untouched, Calm, Rests

-----------------------------------------------------------------------------
(* The blocks of the memory pool                                            *)

\* The blocks of pool m are in its list or with the application.
BlocksExact(m) ==
    /\ IsInjective(m.list) /\ m.free = Len(m.list)
    /\ ToSet(m.list) \cap m.used = {} /\ ToSet(m.list) \cup m.used = Block

\* The first element of a list without repetitions
LEMMA TailRemoves ==
    ASSUME NEW S, NEW s \in Seq(S), s # << >>, IsInjective(s)
    PROVE  /\ Head(s) \in S /\ Head(s) \in ToSet(s)
           /\ Tail(s) \in Seq(S) /\ IsInjective(Tail(s)) /\ Len(Tail(s)) = Len(s) - 1
           /\ ToSet(Tail(s)) = ToSet(s) \ {Head(s)}
<1>1. PICK n \in Nat : n = Len(s) /\ DOMAIN s = 1 .. n /\ n > 0
  OBVIOUS
<1>2. /\ Tail(s) \in Seq(S) /\ Len(Tail(s)) = n - 1 /\ DOMAIN Tail(s) = 1 .. n - 1
      /\ \A i \in 1 .. n - 1 : Tail(s)[i] = s[i + 1]
      /\ Head(s) = s[1] /\ s[1] \in S
  BY <1>1
<1>3. \A i, j \in 1 .. n : s[i] = s[j] => i = j
  BY <1>1 DEF IsInjective
<1>4. IsInjective(Tail(s))
  BY <1>1, <1>2, <1>3 DEF IsInjective
<1>5. ToSet(s) = {s[i] : i \in 1 .. n} /\ ToSet(Tail(s)) = {s[i + 1] : i \in 1 .. n - 1}
  BY <1>1, <1>2 DEF ToSet
<1>6. Head(s) \in ToSet(s)
  BY <1>1, <1>2, <1>5
<1>7. ASSUME NEW x \in ToSet(Tail(s)) PROVE x \in ToSet(s) \ {Head(s)}
  <2>1. PICK i \in 1 .. n - 1 : x = s[i + 1]
    BY <1>5
  <2>2. i + 1 \in 1 .. n /\ 1 \in 1 .. n /\ i + 1 # 1
    BY <1>1, <2>1
  <2> QED
    BY <1>2, <1>3, <1>5, <2>1, <2>2
<1>8. ASSUME NEW x \in ToSet(s) \ {Head(s)} PROVE x \in ToSet(Tail(s))
  <2>1. PICK i \in 1 .. n : x = s[i]
    BY <1>5
  <2>2. i # 1
    BY <1>2, <1>8, <2>1
  <2>3. i - 1 \in 1 .. n - 1 /\ (i - 1) + 1 = i
    BY <1>1, <2>1, <2>2
  <2> QED
    BY <1>5, <2>1, <2>3
<1> QED
  BY <1>1, <1>2, <1>4, <1>6, <1>7, <1>8

\* One more in front of it
InFront(x, s) == <<x>> \o s

\* It is the first, and the others stay.
LEMMA FrontAdds ==
    ASSUME NEW S, NEW s \in Seq(S), IsInjective(s), NEW x \in S, x \notin ToSet(s),
           NEW r, r = InFront(x, s)
    PROVE  /\ r \in Seq(S) /\ IsInjective(r) /\ Len(r) = Len(s) + 1
           /\ ToSet(r) = ToSet(s) \cup {x}
<1>1. PICK n \in Nat : n = Len(s) /\ DOMAIN s = 1 .. n
  OBVIOUS
<1>2. /\ r \in Seq(S) /\ Len(r) = n + 1 /\ DOMAIN r = 1 .. n + 1
      /\ \A i \in 1 .. n + 1 : r[i] = IF i = 1 THEN x ELSE s[i - 1]
  BY <1>1 DEF InFront
<1>3. \A i \in 1 .. n + 1 : i # 1 => i - 1 \in 1 .. n
  BY <1>1
<1>4. /\ \A i \in 1 .. n : s[i] \in ToSet(s)
      /\ \A i, j \in 1 .. n : s[i] = s[j] => i = j
  BY <1>1 DEF ToSet, IsInjective
<1>5. IsInjective(r)
  <2>1. ASSUME NEW i \in 1 .. n + 1, NEW j \in 1 .. n + 1, r[i] = r[j] PROVE i = j
    BY <1>2, <1>3, <1>4, <2>1
  <2> QED
    BY <1>2, <2>1 DEF IsInjective
<1>6. ASSUME NEW y \in ToSet(r) PROVE y \in ToSet(s) \cup {x}
  BY <1>2, <1>3, <1>4, <1>6 DEF ToSet
<1>7. ASSUME NEW y \in ToSet(s) PROVE y \in ToSet(r)
  <2>1. PICK i \in 1 .. n : y = s[i]
    BY <1>1, <1>7 DEF ToSet
  <2>2. i + 1 \in 1 .. n + 1 /\ i + 1 # 1 /\ (i + 1) - 1 = i
    BY <1>1, <2>1
  <2>3. r[i + 1] = y
    BY <1>2, <2>1, <2>2
  <2> QED
    BY <1>2, <2>2, <2>3 DEF ToSet
<1>8. x \in ToSet(r)
  <2>1. 1 \in 1 .. n + 1 /\ r[1] = x
    BY <1>1, <1>2
  <2> QED
    BY <1>2, <2>1 DEF ToSet
<1> QED
  BY <1>1, <1>2, <1>5, <1>6, <1>7, <1>8

\* An allocation
LEMMA MpTakeExact ==
    ASSUME mp \in MpType, BlocksExact(mp), mp.free > 0, MpTake
    PROVE  /\ mp' \in MpType /\ BlocksExact(mp')
           /\ mp'.free = mp.free - 1 /\ mp'.count = mp.count /\ mp'.late = mp.late
<1>1. /\ mp = [list |-> mp.list, free |-> mp.free, count |-> mp.count, used |-> mp.used,
               late |-> mp.late]
      /\ mp.list \in Seq(Block) /\ mp.free \in Nat /\ mp.count \in Nat
      /\ mp.used \subseteq Block /\ mp.late \in Nat
  BY DEF MpType
<1>2. PICK s \in Seq(Block) : s = mp.list
  BY <1>1
<1>3. IsInjective(s) /\ mp.free = Len(s) /\ s # << >>
      /\ ToSet(s) \cap mp.used = {} /\ ToSet(s) \cup mp.used = Block
  BY <1>1, <1>2 DEF BlocksExact
<1>4. PICK h : h = Head(s)
  OBVIOUS
<1>5. PICK r : r = Tail(s)
  OBVIOUS
<1>6. /\ h \in Block /\ h \in ToSet(s) /\ r \in Seq(Block) /\ IsInjective(r)
      /\ Len(r) = Len(s) - 1 /\ ToSet(r) = ToSet(s) \ {h}
  BY <1>3, <1>4, <1>5, TailRemoves
<1>7. mp' = [list |-> r, free |-> mp.free - 1, count |-> mp.count, used |-> mp.used \cup {h},
             late |-> mp.late]
  BY <1>1, <1>2, <1>4, <1>5 DEF MpTake
<1>8. mp' \in MpType
  BY <1>1, <1>6, <1>7 DEF MpType
<1>9. BlocksExact(mp')
  BY <1>3, <1>6, <1>7 DEF BlocksExact
<1> QED
  BY <1>7, <1>8, <1>9

\* Pool m, but for the counter of the waiters
Numbered(m, n) == [m EXCEPT !.count = n]

\* A free, as far as the blocks are concerned
LEMMA MpGiveExact ==
    ASSUME mp \in MpType, BlocksExact(mp), NEW x \in mp.used, NEW n \in Nat,
           NEW g, g = MpGive(x), NEW m, m = Numbered(g, n)
    PROVE  /\ m \in MpType /\ BlocksExact(m)
           /\ m.free = mp.free + 1 /\ m.count = n /\ m.late = mp.late
<1>1. /\ mp = [list |-> mp.list, free |-> mp.free, count |-> mp.count, used |-> mp.used,
               late |-> mp.late]
      /\ mp.list \in Seq(Block) /\ mp.free \in Nat /\ mp.count \in Nat
      /\ mp.used \subseteq Block /\ mp.late \in Nat
  BY DEF MpType
<1>2. PICK s \in Seq(Block) : s = mp.list
  BY <1>1
<1>3. IsInjective(s) /\ mp.free = Len(s)
      /\ ToSet(s) \cap mp.used = {} /\ ToSet(s) \cup mp.used = Block
  BY <1>1, <1>2 DEF BlocksExact
<1>4. PICK r : r = InFront(x, s)
  OBVIOUS
<1>5. x \in Block /\ x \notin ToSet(s)
  BY <1>1, <1>3
<1>6. /\ r \in Seq(Block) /\ IsInjective(r)
      /\ Len(r) = Len(s) + 1 /\ ToSet(r) = ToSet(s) \cup {x}
  BY <1>3, <1>4, <1>5, FrontAdds
<1>7. m = [list |-> r, free |-> mp.free + 1, count |-> n, used |-> mp.used \ {x},
           late |-> mp.late]
  BY <1>1, <1>2, <1>4 DEF MpGive, InFront, Numbered
<1>8. m \in MpType
  BY ONLY <1>1, <1>6, <1>7, n \in Nat DEF MpType
<1>9. BlocksExact(m)
  BY <1>3, <1>5, <1>6, <1>7 DEF BlocksExact
<1> QED
  BY <1>7, <1>8, <1>9

\* The other counters
Recounted(x, m, n, l) ==
    m = [list |-> x.list, free |-> x.free, count |-> n, used |-> x.used, late |-> l]

\* They are apart from the blocks.
LEMMA MpCountExact ==
    ASSUME mp \in MpType, BlocksExact(mp), NEW n \in Nat, NEW l \in Nat,
           NEW m, Recounted(mp, m, n, l)
    PROVE  /\ m \in MpType /\ BlocksExact(m)
           /\ m.free = mp.free /\ m.count = n /\ m.late = l
<1>1. mp.list \in Seq(Block) /\ mp.free \in Nat /\ mp.used \subseteq Block
  BY DEF MpType
<1>2. m = [list |-> mp.list, free |-> mp.free, count |-> n, used |-> mp.used, late |-> l]
  BY DEF Recounted
<1>3. m \in MpType
  BY <1>1, <1>2 DEF MpType
<1> QED
  BY <1>2, <1>3 DEF BlocksExact

-----------------------------------------------------------------------------
(* The steps of the memory pool                                             *)

\* What the waiting loop keeps of the time
LEMMA WaitTimes ==
    ASSUME TimesInv, NEW t \in Thread, NEW time \in Int,
           \/ EndWait(t)
           \/ left' = [left EXCEPT ![t] = time] /\ UNCHANGED <<spent, limit>>
           \/ \E o, s : WaitFirst(t, o, s, time)
           \/ \E o, s : WaitAgain(t, o, s, time)
    PROVE  TimesInv'
<1>1. CASE EndWait(t)
  BY <1>1 DEF EndWait, TimesInv
<1>2. CASE left' = [left EXCEPT ![t] = time] /\ UNCHANGED <<spent, limit>>
  BY <1>2 DEF TimesInv
<1>3. CASE \E o, s : WaitFirst(t, o, s, time)
  <2>1. /\ left' = [left EXCEPT ![t] = time] /\ spent' = [spent EXCEPT ![t] = 0]
        /\ limit' = [limit EXCEPT ![t] = IF time > 0 THEN time ELSE 0]
    BY <1>3 DEF WaitFirst, Wait
  <2>2. (IF time > 0 THEN time ELSE 0) \in Nat
    OBVIOUS
  <2> QED
    BY <2>1, <2>2 DEF TimesInv
<1>4. CASE \E o, s : WaitAgain(t, o, s, time)
  <2>1. /\ left' = [left EXCEPT ![t] = time] /\ spent' = [spent EXCEPT ![t] = 0]
        /\ limit' = limit
    BY <1>4 DEF WaitAgain, Wait
  <2> QED
    BY <2>1 DEF TimesInv
<1> QED
  BY <1>1, <1>2, <1>3, <1>4

\* What is left of a time limit is an integer.
LEMMA RemainingInteger ==
    ASSUME TimesInv, NEW t \in Thread
    PROVE  left[t] \in Int /\ Remaining(t) \in Int
BY DEF TimesInv, Remaining

\* And the background
LEMMA ElapseTimes ==
    ASSUME TimesInv, Elapse \/ UNCHANGED waiting
    PROVE  TimesInv'
<1>1. CASE UNCHANGED waiting
  BY <1>1 DEF waiting, TimesInv
<1>2. CASE Elapse /\ ~UNCHANGED waiting
  <2>1. /\ spent' = [t \in Thread |-> spent[t] + (IF spent[t] < left[t] THEN 1 ELSE 0)]
        /\ limit' = [t \in Thread |-> limit[t] - (IF limit[t] > 0 THEN 1 ELSE 0)]
        /\ left' = left
    BY <1>2 DEF Elapse
  <2>2. \A t \in Thread : /\ spent[t] + (IF spent[t] < left[t] THEN 1 ELSE 0) \in Nat
                          /\ limit[t] - (IF limit[t] > 0 THEN 1 ELSE 0) \in Nat
    BY DEF TimesInv
  <2> QED
    BY <2>1, <2>2 DEF TimesInv
<1> QED
  BY <1>1, <1>2

\* The invariant of the pool, with its sets of threads named
LEMMA MpInvSpec ==
    ASSUME MpInv
    PROVE  /\ mp \in MpType /\ BlocksExact(mp)
           /\ mp.free \in Nat /\ mp.count \in Nat /\ mp.late \in Nat /\ mp.used \subseteq Block
           /\ mp = [list |-> mp.list, free |-> mp.free, count |-> mp.count, used |-> mp.used,
                    late |-> mp.late]
           /\ Counted \in SUBSET Thread /\ Coming \in SUBSET Thread
           /\ mp.count = mp.late + Cardinality(Counted)
           /\ (\E u \in Thread : Linked(k, u, Mp)) => mp.free <= Cardinality(Coming)
           /\ Mp \in dead => Coming = {}
<1>1. Counted \in SUBSET Thread /\ Coming \in SUBSET Thread
  BY DEF Counted, Coming
<1> QED
  BY <1>1 DEF MpInv, MpType, BlocksExact, BlocksConserved

\* The same for the next state
LEMMA MpInvNext ==
    ASSUME mp' \in MpType, BlocksExact(mp'), NEW C, C = Counted', NEW A, A = Coming',
           mp'.count = mp'.late + Cardinality(C),
           (\E u \in Thread : Linked(k', u, Mp)) => mp'.free <= Cardinality(A),
           Mp \in dead' => A = {}
    PROVE  MpInv'
BY DEF MpInv, BlocksExact, BlocksConserved

\* What each step of the pool keeps
MpKept ==
    /\ Keeps({Mp}, MpPoint) /\ MpInv' /\ Emptied(Mp, "mp_check", "mp_wake")' /\ TimesInv'
    /\ dead' \in {dead, dead \cup {Mp}} /\ fault' = fault

\* The invariants a step of the pool needs
MpBase ==
    /\ Base /\ MpInv /\ Emptied(Mp, "mp_check", "mp_wake") /\ TimesInv /\ fault = FALSE

\* Two of the points are those of the delete.
LEMMA MpStill ==
    ASSUME MpBase, NEW t \in Thread, NEW at, NEW arg, Goto(t, at, arg),
           pc[t].at \notin {"mp_check", "mp_wake"}, at \notin {"mp_check", "mp_wake"}
    PROVE  Still({"mp_check", "mp_wake"})
<1>1. /\ pc'[t].at = at /\ \A u \in Thread \ {t} : pc'[u] = pc[u]
  BY GotoPc DEF MpBase, Base
<1> QED
  BY <1>1 DEF Still

\* An allocation that finds a block
LEMMA MpTakeKept ==
    ASSUME MpBase, mp.free > 0, MpTake, UNCHANGED <<kernel, waiting>>
    PROVE  MpKept
<1>1. Base /\ MpInv /\ TimesInv /\ UNCHANGED <<k, isr, pc, dead, fault, waiting>>
  BY DEF MpBase, kernel
<1>2. Keeps({Mp}, MpPoint) /\ Shift({}, "EOK", {})
  BY <1>1, BaseSpec, StayKeeps
<1>3. PICK C : C = Counted
  OBVIOUS
<1>4. PICK A : A = Coming
  OBVIOUS
<1>5. C = Counted' /\ A = Coming'
  BY <1>1, <1>3, <1>4 DEF Counted, Coming, Unanswered, HandedOver, Taking
<1>6. /\ mp \in MpType /\ BlocksExact(mp) /\ mp.free \in Nat
      /\ mp.count = mp.late + Cardinality(C) /\ A \in SUBSET Thread
      /\ (\E u \in Thread : Linked(k, u, Mp)) => mp.free <= Cardinality(A)
      /\ Mp \in dead => A = {}
  BY <1>1, <1>3, <1>4, MpInvSpec
<1>7. /\ mp' \in MpType /\ BlocksExact(mp')
      /\ mp'.free = mp.free - 1 /\ mp'.count = mp.count /\ mp'.late = mp.late
  BY <1>6, MpTakeExact
<1>8. MpInv'
  <2>1. Cardinality(A) \in Nat
    BY <1>6, ThreadSets
  <2>2. (\E u \in Thread : Linked(k', u, Mp)) => mp'.free <= Cardinality(A)
    BY <1>1, <1>6, <1>7, <2>1
  <2> QED
    BY <1>1, <1>5, <1>6, <1>7, <2>2, MpInvNext
<1>9. Emptied(Mp, "mp_check", "mp_wake")'
  BY <1>1 DEF MpBase, Emptied
<1> QED
  BY <1>1, <1>2, <1>8, <1>9, ElapseTimes DEF MpKept

\* A thread finds no block and suspends itself.
LEMMA MpWaitsKept ==
    ASSUME MpBase, NEW t \in User \ {Worker}, k.cur = t, pc[t].at \in {"run", "mp_loop"},
           Mp \notin dead, mp.free = 0, NEW time \in Int,
           \/ WaitFirst(t, Mp, MpSuspend(time), time)
           \/ WaitAgain(t, Mp, MpSuspend(time), time),
           mp' = [mp EXCEPT !.count = @ + 1], UNCHANGED <<isr, dead, fault>>
    PROVE  MpKept
<1>1. /\ Base /\ MpInv /\ TimesInv /\ t \in Thread /\ t # Idle /\ t # Worker
      /\ k' = MpSuspend(time) /\ Goto(t, "take_sched", Mp)
      /\ Emptied(Mp, "mp_check", "mp_wake")
  BY DEF MpBase, WaitFirst, WaitAgain, Wait, User
<1>2. /\ Good(k, {}) /\ k.stat[t] = "RUNNING" /\ Mp \in Obj
      /\ isr' \in Isr /\ dead' \subseteq Obj /\ fault' \in BOOLEAN
  BY <1>1, BaseSpec, ObjectsConstants, Runs DEF Base
<1>3. PICK m : m = MpSuspend(time)
  OBVIOUS
<1>4. Suspends(k, m, t, Mp)
  BY <1>1, <1>2, <1>3, MpSuspendBlocks
<1>5. Keeps({Mp}, MpPoint) /\ Joins(t, Mp)
  <2>1. pc[t].at \in PlainPoint \cup MpPoint /\ Mp \in {Mp}
    BY DEF PlainPoint, MpPoint
  <2>2. k' = m /\ Goto(t, "take_sched", Mp)
    BY <1>1, <1>3
  <2> QED
    BY <1>1, <1>2, <1>4, <2>1, <2>2, BlockKeeps
<1>6. PICK C : C = Counted
  OBVIOUS
<1>7. PICK D : D = Counted'
  OBVIOUS
<1>8. PICK A : A = Coming'
  OBVIOUS
<1>9. /\ mp \in MpType /\ BlocksExact(mp) /\ mp.free \in Nat /\ mp.count \in Nat /\ mp.late \in Nat
      /\ mp = [list |-> mp.list, free |-> mp.free, count |-> mp.count, used |-> mp.used,
               late |-> mp.late]
      /\ mp.count = mp.late + Cardinality(C) /\ C \in SUBSET Thread
  BY <1>1, <1>6, MpInvSpec
<1>10. D = C \cup {t} /\ t \notin C
  <2>1. ~Unanswered(t, Mp)
    BY NotTaking
  <2>2. \A u \in Thread : Unanswered(u, Mp)' <=> Unanswered(u, Mp) \/ u = t
    BY <1>2, <1>5 DEF Joins
  <2> QED
    BY <1>1, <1>6, <1>7, <2>1, <2>2 DEF Counted
<1>11. /\ mp' \in MpType /\ BlocksExact(mp') /\ mp'.free = mp.free
       /\ mp'.count = mp.count + 1 /\ mp'.late = mp.late
  <2>1. PICK n \in Nat : n = mp.count + 1
    BY <1>9
  <2>2. Recounted(mp, mp', n, mp.late)
    BY <1>9, <2>1 DEF Recounted
  <2> QED
    BY <1>9, <2>1, <2>2, MpCountExact
<1>12. MpInv'
  <2>1. Cardinality(D) = Cardinality(C) + 1 /\ Cardinality(C) \in Nat
    BY <1>1, <1>9, <1>10, ThreadAdded, ThreadSets
  <2>2. A \in SUBSET Thread /\ Cardinality(A) \in Nat
    <3>1. A \in SUBSET Thread
      BY <1>8 DEF Coming
    <3> QED
      BY <3>1, ThreadSets
  <2>3. mp'.free <= Cardinality(A)
    BY <1>11, <2>2
  <2>4. mp'.count = mp'.late + Cardinality(D)
    BY <1>9, <1>11, <2>1
  <2>5. Mp \notin dead'
    OBVIOUS
  <2> QED
    BY <1>7, <1>8, <1>11, <2>3, <2>4, <2>5, MpInvNext
<1>13. Emptied(Mp, "mp_check", "mp_wake")'
  <2>1. \A u \in Thread : pc'[u].at \in {"mp_check", "mp_wake"}
                            => pc[u].at \in {"mp_check", "mp_wake"}
    <3>1. Still({"mp_check", "mp_wake"})
      BY <1>1, MpStill
    <3> QED
      BY <3>1 DEF Still
  <2> QED
    BY <1>1, <2>1, EmptiedAlive
<1>14. TimesInv'
  BY <1>1, WaitTimes
<1> QED
  BY <1>5, <1>12, <1>13, <1>14 DEF MpKept

\* The first time, and when another thread was faster
LEMMA MpBlocksKept ==
    ASSUME MpBase, NEW t \in User \ {Worker}, NEW time \in TimesOf(t), MpBlocks(t, time)
    PROVE  MpKept
<1>1. /\ k.cur = t /\ pc[t].at \in {"run", "mp_loop"} /\ Mp \notin dead /\ mp.free = 0
      /\ WaitFirst(t, Mp, MpSuspend(time), time)
      /\ mp' = [mp EXCEPT !.count = @ + 1] /\ UNCHANGED <<isr, dead, fault>>
  BY DEF MpBlocks, CallsOn, Calls, Is
<1>2. time \in Int
  BY TimesInteger
<1> QED
  BY <1>1, <1>2, MpWaitsKept

\* or once more, the block being gone when it came back
LEMMA MpAgainKept ==
    ASSUME MpBase, NEW t \in User \ {Worker}, MpAgain(t)
    PROVE  MpKept
<1>1. /\ k.cur = t /\ pc[t].at = "mp_loop" /\ mp.free = 0
      /\ WaitAgain(t, Mp, MpSuspend(left[t]), left[t])
      /\ mp' = [mp EXCEPT !.count = @ + 1] /\ UNCHANGED <<isr, dead, fault>>
  BY DEF MpAgain, Is
<1>2. t \in Coming /\ MpInv /\ TimesInv
  BY <1>1 DEF Coming, User, MpBase
<1>3. Mp \notin dead
  BY <1>2 DEF MpInv
<1>4. PICK time \in Int : time = left[t]
  BY <1>2, RemainingInteger DEF User
<1>5. WaitAgain(t, Mp, MpSuspend(time), time)
  BY <1>1, <1>4
<1> QED
  BY <1>1, <1>3, <1>5, MpWaitsKept

\* A thread comes back from a wait, with an error or on its way to a block.
LEMMA MpReturnsKept ==
    ASSUME MpBase, NEW t \in User \ {Worker}, k.cur = t, pc[t].at = "take_ret", pc[t].arg = Mp,
           NEW at \in {"run", "mp_loop"}, NEW arg, ArgIsObject([at |-> at, arg |-> arg]),
           Goto(t, at, arg), at = "mp_loop" <=> k.err[t] = "EOK",
           k' = k \/ k' = SetErr(k, t, "EOK"),
           mp' = [mp EXCEPT !.late = IF k.err[t] = "ETIMEOUT" THEN @ + 1 ELSE @],
           UNCHANGED <<isr, dead, fault>>, TimesInv'
    PROVE  MpKept
<1>1. Base /\ MpInv /\ t \in Thread /\ t # Idle /\ t # Worker /\ Emptied(Mp, "mp_check", "mp_wake")
  BY DEF MpBase, User
<1>2. /\ k.stat[t] = "RUNNING" /\ Mp \in Obj
      /\ isr' \in Isr /\ dead' \subseteq Obj /\ fault' \in BOOLEAN
  BY <1>1, BaseSpec, ObjectsConstants, Runs DEF Base
<1>3. Keeps({Mp}, MpPoint) /\ Shift({}, "EOK", {t})
  <2>1. /\ at \in ObjPoint /\ at \in PlainPoint \cup MpPoint /\ at \notin TakePoint
        /\ \A o \in Obj \ {Mp} : pc[t].arg # o
    BY DEF ObjPoint, PlainPoint, MpPoint, TakePoint
  <2> QED
    BY <1>1, <1>2, <2>1, ReturnKeeps
<1>4. PICK C : C = Counted
  OBVIOUS
<1>5. PICK D : D = Counted'
  OBVIOUS
<1>6. PICK A : A = Coming
  OBVIOUS
<1>7. PICK B : B = Coming'
  OBVIOUS
<1>8. /\ mp \in MpType /\ BlocksExact(mp) /\ mp.free \in Nat /\ mp.count \in Nat /\ mp.late \in Nat
      /\ mp = [list |-> mp.list, free |-> mp.free, count |-> mp.count, used |-> mp.used,
               late |-> mp.late]
      /\ mp.count = mp.late + Cardinality(C) /\ C \in SUBSET Thread
      /\ (\E u \in Thread : Linked(k, u, Mp)) => mp.free <= Cardinality(A)
      /\ Mp \in dead => A = {}
  BY <1>1, <1>4, <1>6, MpInvSpec
<1>9. /\ pc'[t].at = at /\ \A u \in Thread \ {t} : pc'[u] = pc[u]
  BY <1>1, GotoPc DEF Base
<1>10. D = C \ {t} /\ (t \in C <=> k.err[t] = "ETIMEOUT")
  <2>1. \A u \in Thread : Unanswered(u, Mp)' <=> u # t /\ Unanswered(u, Mp)
    BY <1>2, <1>3 DEF Shift
  <2>2. Unanswered(t, Mp) <=> k.err[t] = "ETIMEOUT"
    BY <1>2 DEF Unanswered, Taking
  <2> QED
    BY <1>1, <1>4, <1>5, <2>1, <2>2 DEF Counted
<1>11. B = A
  <2>1. \A u \in Thread : HandedOver(u, Mp)' <=> u # t /\ HandedOver(u, Mp)
    BY <1>2, <1>3 DEF Shift
  <2>2. HandedOver(t, Mp) <=> k.err[t] = "EOK"
    BY <1>2 DEF HandedOver, Taking
  <2>3. \A u \in Thread : HandedOver(u, Mp)' \/ pc'[u].at = "mp_loop"
                            <=> HandedOver(u, Mp) \/ pc[u].at = "mp_loop"
    BY <1>9, <2>1, <2>2
  <2> QED
    BY <1>6, <1>7, <2>3 DEF Coming
<1>12. PICK l \in Nat : l = IF k.err[t] = "ETIMEOUT" THEN mp.late + 1 ELSE mp.late
  BY <1>8
<1>13. /\ mp' \in MpType /\ BlocksExact(mp') /\ mp'.free = mp.free
       /\ mp'.count = mp.count /\ mp'.late = l
  <2>1. Recounted(mp, mp', mp.count, l)
    <3>1. mp' = [mp EXCEPT !.late = l]
      BY <1>12
    <3> QED
      BY <1>8, <3>1 DEF Recounted
  <2> QED
    BY <1>8, <2>1, MpCountExact
<1>14. MpInv'
  <2>1. Cardinality(D) \in Nat /\ mp.count = l + Cardinality(D)
    <3>1. D \in SUBSET Thread /\ Cardinality(D) \in Nat
      BY <1>8, <1>10, ThreadSets
    <3>2. CASE t \in C
      BY <1>1, <1>8, <1>10, <1>12, <3>1, <3>2, ThreadAdded
    <3>3. CASE t \notin C
      <4>1. D = C
        BY <1>10, <3>3
      <4> QED
        BY <1>8, <1>10, <1>12, <3>1, <3>3, <4>1
    <3> QED
      BY <3>2, <3>3
  <2>2. (\E u \in Thread : Linked(k', u, Mp)) => mp'.free <= Cardinality(B)
    <3>1. (\E u \in Thread : Linked(k', u, Mp)) => \E u \in Thread : Linked(k, u, Mp)
      BY <1>2, <1>3 DEF Shift
    <3> QED
      BY <1>8, <1>11, <1>13, <3>1
  <2>3. mp'.count = mp'.late + Cardinality(D)
    BY <1>13, <2>1
  <2> QED
    BY <1>5, <1>7, <1>8, <1>11, <1>13, <2>2, <2>3, MpInvNext
<1>15. Emptied(Mp, "mp_check", "mp_wake")'
  <2>1. Still({"mp_check", "mp_wake"})
    BY <1>1, MpStill
  <2>2. Rests(Mp)
    BY <1>2, <1>3, ShiftRests
  <2> QED
    BY <1>1, <2>1, <2>2, EmptiedRests
<1> QED
  BY <1>3, <1>14, <1>15 DEF MpKept

\* The wait fails: its time is up, or the pool was deleted.
LEMMA MpFailsKept ==
    ASSUME MpBase, NEW t \in User \ {Worker}, MpFails(t)
    PROVE  MpKept
<1>1. /\ k.cur = t /\ pc[t].at = "take_ret" /\ pc[t].arg = Mp /\ k.err[t] # "EOK"
      /\ k' = SetErr(k, t, "EOK") /\ EndWait(t) /\ Goto(t, "run", t)
      /\ UNCHANGED <<isr, dead, fault>>
      /\ mp' = [mp EXCEPT !.late = IF k.err[t] = "ETIMEOUT" THEN @ + 1 ELSE @]
  BY DEF MpFails, WaitFails, Is, SetErr
<1>2. TimesInv'
  <2>1. TimesInv /\ t \in Thread
    BY DEF MpBase, User
  <2>2. PICK n \in Int : n = 0
    OBVIOUS
  <2> QED
    BY <1>1, <2>1, <2>2, WaitTimes
<1>3. ArgIsObject([at |-> "run", arg |-> t])
  BY DEF ArgIsObject
<1>4. PICK at \in {"run", "mp_loop"} : at = "run"
  OBVIOUS
<1> QED
  BY <1>1, <1>2, <1>3, <1>4, MpReturnsKept

\* The thread was resumed, and goes back to the loop.
LEMMA MpResumedKept ==
    ASSUME MpBase, NEW t \in User \ {Worker}, MpResumed(t)
    PROVE  MpKept
<1>1. /\ k.cur = t /\ pc[t].at = "take_ret" /\ pc[t].arg = Mp /\ k.err[t] = "EOK"
      /\ left' = [left EXCEPT ![t] = Remaining(t)] /\ UNCHANGED <<spent, limit>>
      /\ k' = k /\ Goto(t, "mp_loop", Mp) /\ UNCHANGED <<isr, dead, fault>> /\ mp' = mp
  BY DEF MpResumed, Resumed, Is
<1>2. TimesInv'
  <2>1. TimesInv /\ t \in Thread
    BY DEF MpBase, User
  <2>2. PICK n \in Int : n = Remaining(t)
    BY <2>1, RemainingInteger
  <2> QED
    BY <1>1, <2>1, <2>2, WaitTimes
<1>3. ArgIsObject([at |-> "mp_loop", arg |-> Mp])
  BY ObjectsConstants DEF ArgIsObject
<1>4. PICK at \in {"run", "mp_loop"} : at = "mp_loop"
  OBVIOUS
<1>5. mp' = [mp EXCEPT !.late = IF k.err[t] = "ETIMEOUT" THEN @ + 1 ELSE @]
  <2>1. mp = [list |-> mp.list, free |-> mp.free, count |-> mp.count, used |-> mp.used,
               late |-> mp.late]
    BY MpInvSpec DEF MpBase
  <2> QED
    BY <1>1, <2>1
<1> QED
  BY <1>1, <1>2, <1>3, <1>4, <1>5, MpReturnsKept

\* A thread leaves the loop, with a block or without one.
LEMMA MpLeavesKept ==
    ASSUME MpBase, NEW t \in User \ {Worker}, k.cur = t, pc[t].at = "mp_loop",
           Goto(t, "run", t), k' = k, EndWait(t), UNCHANGED <<isr, dead, fault>>,
           \/ mp.free > 0 /\ MpTake
           \/ mp.free = 0 /\ mp' = mp
    PROVE  MpKept
<1>1. Base /\ MpInv /\ TimesInv /\ t \in Thread /\ t # Idle /\ t # Worker
      /\ Emptied(Mp, "mp_check", "mp_wake")
  BY DEF MpBase, User
<1>2. isr' \in Isr /\ dead' \subseteq Obj /\ fault' \in BOOLEAN /\ Mp \in Obj
  BY <1>1, BaseSpec, ObjectsConstants
<1>3. Keeps({Mp}, MpPoint) /\ Shift({}, "EOK", {})
  <2>1. /\ "run" \in ObjPoint /\ "run" \in PlainPoint \cup MpPoint /\ "run" \notin TakePoint
        /\ pc[t].at \in PlainPoint \cup MpPoint /\ pc[t].at \notin TakePoint \cup {"sleep_sched"}
        /\ ArgIsObject([at |-> "run", arg |-> t])
    BY DEF ObjPoint, PlainPoint, MpPoint, TakePoint, ArgIsObject
  <2> QED
    BY <1>1, <1>2, <2>1, MoveKeeps
<1>4. PICK C : C = Counted
  OBVIOUS
<1>5. PICK A : A = Coming
  OBVIOUS
<1>6. PICK B : B = Coming'
  OBVIOUS
<1>7. /\ mp \in MpType /\ BlocksExact(mp) /\ mp.free \in Nat /\ mp.count \in Nat /\ mp.late \in Nat
      /\ mp.count = mp.late + Cardinality(C) /\ A \in SUBSET Thread
      /\ (\E u \in Thread : Linked(k, u, Mp)) => mp.free <= Cardinality(A)
      /\ Mp \in dead => A = {}
  BY <1>1, <1>4, <1>5, MpInvSpec
<1>8. /\ pc'[t].at = "run" /\ \A u \in Thread \ {t} : pc'[u] = pc[u]
  BY <1>1, GotoPc DEF Base
<1>9. C = Counted'
  BY <1>2, <1>3, <1>4 DEF Counted, Shift
<1>10. B = A \ {t} /\ t \in A
  <2>1. \A u \in Thread : HandedOver(u, Mp)' <=> HandedOver(u, Mp)
    BY <1>2, <1>3 DEF Shift
  <2>2. ~HandedOver(t, Mp)
    BY NotTaking
  <2> QED
    BY <1>1, <1>5, <1>6, <1>8, <2>1, <2>2 DEF Coming
<1>11. /\ mp' \in MpType /\ BlocksExact(mp') /\ mp'.count = mp.count /\ mp'.late = mp.late
       /\ mp'.free = IF mp.free = 0 THEN 0 ELSE mp.free - 1
  <2>1. CASE mp.free > 0 /\ MpTake
    BY <1>7, <2>1, MpTakeExact
  <2>2. CASE mp.free = 0 /\ mp' = mp
    BY <1>7, <2>2
  <2> QED
    BY <2>1, <2>2
<1>12. MpInv'
  <2>1. /\ Cardinality(A) = Cardinality(B) + 1 /\ Cardinality(B) \in Nat
    <3>1. Cardinality(A) = Cardinality(B) + 1
      BY <1>1, <1>7, <1>10, ThreadAdded
    <3>2. B \in SUBSET Thread
      BY <1>7, <1>10
    <3> QED
      BY <3>1, <3>2, ThreadSets
  <2>2. (\E u \in Thread : Linked(k', u, Mp)) => mp'.free <= Cardinality(B)
    BY <1>7, <1>11, <2>1
  <2> QED
    BY <1>6, <1>7, <1>9, <1>10, <1>11, <2>2, MpInvNext
<1>13. Emptied(Mp, "mp_check", "mp_wake")'
  <2>1. Still({"mp_check", "mp_wake"})
    BY <1>1, MpStill
  <2>2. Rests(Mp)
    BY <1>2, <1>3, ShiftRests
  <2> QED
    BY <1>1, <2>1, <2>2, EmptiedRests
<1>14. TimesInv'
  <2>1. PICK n \in Int : n = 0
    OBVIOUS
  <2> QED
    BY <1>1, <2>1, WaitTimes
<1> QED
  BY <1>3, <1>12, <1>13, <1>14 DEF MpKept

\* In the loop it takes a block, or finds none and has no time left.
LEMMA MpAllocResumedKept ==
    ASSUME MpBase, NEW t \in User \ {Worker}, MpAllocResumed(t) \/ MpGivesUp(t)
    PROVE  MpKept
<1>1. /\ k.cur = t /\ pc[t].at = "mp_loop" /\ Goto(t, "run", t) /\ k' = k /\ EndWait(t)
      /\ UNCHANGED <<isr, dead, fault>>
      /\ \/ mp.free > 0 /\ MpTake
         \/ mp.free = 0 /\ mp' = mp
  BY DEF MpAllocResumed, MpGivesUp, Is
<1> QED
  BY <1>1, MpLeavesKept

\* The first thread of a list is resumed.
LEMMA FirstReleases ==
    ASSUME Base, NEW o \in Obj, k.q[o] # << >>, NEW m, m = rt_ipc_list_resume(k, o)
    PROVE  \E h \in Thread : Linked(k, h, o) /\ Releases(k, m, {h}, "EOK")
<1>1. PICK h : h = Head(k.q[o])
  OBVIOUS
<1>2. Good(k, {}) /\ h \in Thread /\ Linked(k, h, o) /\ k.stat[h] = "SUSPEND"
  BY <1>1, BaseSpec, HeadSuspended
<1>3. m = rt_thread_resume(k, h)
  BY <1>1 DEF rt_ipc_list_resume
<1> QED
  BY <1>2, <1>3, ReleasesOne

\* While the counter of the pool is positive, somebody waits.
LEMMA MpFindsThread ==
    ASSUME MpBase, OnTime, "mp_late" \notin Ops, mp.count > 0
    PROVE  k.q[Mp] # << >>
<1>1. Base /\ MpInv /\ Mp \in Obj
  BY ObjectsConstants DEF MpBase
<1>2. PICK T : T = {t \in User : Taking(t, Mp) /\ k.err[t] = "ETIMEOUT"}
  OBVIOUS
<1>3. T \in SUBSET Thread
  BY <1>2 DEF User
<1>4. /\ mp.count \in Nat /\ mp.late \in Nat /\ Counted \in SUBSET Thread
      /\ mp.count = mp.late + Cardinality(Counted)
  BY <1>1, MpInvSpec
<1>5. mp.late + Cardinality(T) = 0 /\ Cardinality(T) \in Nat /\ IsFiniteSet(T)
  <2>1. TimedOut = mp.late + Cardinality(T)
    BY <1>2 DEF TimedOut
  <2>2. TimedOut = 0
    BY DEF OnTime
  <2> QED
    BY <1>3, <2>1, <2>2, ThreadSets
<1>6. T = {} /\ Cardinality(Counted) > 0
  <2>1. mp.late = 0 /\ Cardinality(T) = 0
    BY <1>4, <1>5
  <2>2. Cardinality(Counted) \in Nat
    BY <1>4, ThreadSets
  <2>3. Cardinality(Counted) > 0
    BY <1>4, <2>1, <2>2
  <2> QED
    BY <1>5, <2>1, <2>3, FS_EmptySet
<1>7. PICK u \in Counted : TRUE
  BY <1>6, FS_EmptySet
<1>8. u \in User /\ Unanswered(u, Mp)
  BY <1>1, <1>7 DEF Counted, User, Base, ObjPc, Unanswered, Taking
<1>9. Linked(k, u, Mp)
  BY <1>1, <1>2, <1>6, <1>8, IpcInvGood DEF Unanswered, Base, User
<1> QED
  BY <1>1, <1>8, <1>9, BaseSpec, EmptyIff DEF User

\* A block is given back and the first waiter is on its way to it.
LEMMA MpWokenInv ==
    ASSUME Base, MpInv, Mp \notin dead', NEW h \in Thread, Linked(k, h, Mp), Shift({h}, "EOK", {}),
           NEW x \in mp.used, mp.count > 0, mp' = [MpGive(x) EXCEPT !.count = @ - 1],
           \A u \in Thread : pc'[u].at = "mp_loop" <=> pc[u].at = "mp_loop"
    PROVE  MpInv'
<1>1. PICK C : C = Counted
  OBVIOUS
<1>2. PICK D : D = Counted'
  OBVIOUS
<1>3. PICK A : A = Coming
  OBVIOUS
<1>4. PICK B : B = Coming'
  OBVIOUS
<1>5. /\ mp \in MpType /\ BlocksExact(mp) /\ mp.free \in Nat /\ mp.count \in Nat /\ mp.late \in Nat
      /\ mp = [list |-> mp.list, free |-> mp.free, count |-> mp.count, used |-> mp.used,
               late |-> mp.late]
      /\ mp.count = mp.late + Cardinality(C) /\ C \in SUBSET Thread /\ A \in SUBSET Thread
      /\ mp.free <= Cardinality(A)
  BY <1>1, <1>3, MpInvSpec
<1>6. PICK n \in Nat : n = mp.count - 1
  BY <1>5
<1>7. mp' \in MpType /\ BlocksExact(mp') /\ mp'.free = mp.free + 1 /\ mp'.count = n
      /\ mp'.late = mp.late
  <2>1. PICK g : g = MpGive(x)
    OBVIOUS
  <2>2. g.count = mp.count
    BY <1>5, <2>1 DEF MpGive
  <2>3. mp' = Numbered(g, n)
    BY <1>6, <2>1, <2>2 DEF Numbered
  <2> QED
    BY ONLY <1>5, <2>1, <2>3, x \in mp.used, n \in Nat, MpGiveExact
<1>8. /\ Mp \in Obj /\ ~HandedOver(h, Mp) /\ Taking(h, Mp) /\ Unanswered(h, Mp)
  BY ObjectsConstants, OneObject DEF Unanswered
<1>9. D = C \ {h} /\ h \in C
  <2>1. \A u \in Thread : Unanswered(u, Mp)' <=> Unanswered(u, Mp) /\ u # h
    BY <1>8 DEF Shift
  <2> QED
    BY <1>1, <1>2, <1>8, <2>1 DEF Counted
<1>10. B = A \cup {h} /\ h \notin A
  <2>1. \A u \in Thread : HandedOver(u, Mp)' <=> HandedOver(u, Mp) \/ u = h
    BY <1>8 DEF Shift
  <2>2. pc[h].at # "mp_loop"
    BY <1>8 DEF Taking
  <2> QED
    BY <1>3, <1>4, <1>8, <2>1, <2>2 DEF Coming
<1>11. /\ Cardinality(C) = Cardinality(D) + 1 /\ Cardinality(D) \in Nat
       /\ Cardinality(B) = Cardinality(A) + 1 /\ Cardinality(A) \in Nat
  <2>1. D \in SUBSET Thread
    BY <1>5, <1>9
  <2> QED
    BY <1>5, <1>9, <1>10, <2>1, ThreadAdded, ThreadSets
<1>12. mp'.count = mp'.late + Cardinality(D) /\ mp'.free <= Cardinality(B)
  BY <1>5, <1>6, <1>7, <1>11
<1> QED
  BY <1>2, <1>4, <1>7, <1>12, MpInvNext

\* Nobody waits, and a block is given back.
LEMMA MpGivenInv ==
    ASSUME Base, MpInv, dead' = dead, k' = k, pc' = pc, NEW x \in mp.used, ~(mp.count > 0),
           mp' = MpGive(x)
    PROVE  MpInv'
<1>1. PICK C : C = Counted
  OBVIOUS
<1>2. PICK A : A = Coming
  OBVIOUS
<1>3. /\ mp \in MpType /\ BlocksExact(mp) /\ mp.free \in Nat /\ mp.count \in Nat /\ mp.late \in Nat
      /\ mp = [list |-> mp.list, free |-> mp.free, count |-> mp.count, used |-> mp.used,
               late |-> mp.late]
      /\ mp.count = mp.late + Cardinality(C) /\ C \in SUBSET Thread
      /\ Mp \in dead => A = {}
  BY <1>1, <1>2, MpInvSpec
<1>4. C = Counted' /\ A = Coming'
  BY <1>1, <1>2 DEF Counted, Coming, Unanswered, HandedOver, Taking
<1>5. PICK n \in Nat : n = mp.count
  BY <1>3
<1>6. mp' \in MpType /\ BlocksExact(mp') /\ mp'.count = mp.count /\ mp'.late = mp.late
  <2>1. PICK g : g = MpGive(x)
    OBVIOUS
  <2>2. mp' = Numbered(g, n)
    BY <1>3, <1>5, <2>1 DEF MpGive, Numbered
  <2> QED
    BY <1>3, <1>5, <2>1, <2>2, MpGiveExact
<1>7. \A u \in Thread : ~Linked(k', u, Mp)
  <2>1. Cardinality(C) = 0 /\ IsFiniteSet(C)
    BY <1>3, ThreadSets
  <2>2. C = {}
    BY <2>1, FS_EmptySet
  <2>3. \A u \in Thread : Linked(k, u, Mp) => Unanswered(u, Mp)
    BY ObjectsConstants, OneObject DEF Unanswered
  <2> QED
    BY <1>1, <2>2, <2>3 DEF Counted
<1> QED
  BY <1>3, <1>4, <1>6, <1>7, MpInvNext

\* rt_mp_free of a thread
LEMMA MpFreeKept ==
    ASSUME MpBase, "mp_late" \notin Ops, NEW t \in User, NEW x \in Block, MpFree(t, x)
    PROVE  MpKept
<1>1. /\ k.cur = t /\ pc[t].at = "run" /\ Mp \notin dead /\ x \in mp.used /\ OnTime
      /\ UNCHANGED <<isr, dead, waiting>>
  BY DEF MpFree, CallsOn, Calls, Is
<1>2. /\ Base /\ MpInv /\ TimesInv /\ Emptied(Mp, "mp_check", "mp_wake")
      /\ t \in Thread /\ t # Idle /\ t # Worker
  BY <1>1, ObjectsConstants DEF MpBase, User, Base, ObjPc, WorkerPoint
<1>3. isr' \in Isr /\ dead' \subseteq Obj /\ Mp \in Obj
  BY <1>1, <1>2, BaseSpec, ObjectsConstants
<1>4. TimesInv'
  BY <1>1, <1>2, ElapseTimes
<1>5. CASE mp.count > 0
  <2>1. k.q[Mp] # << >>
    BY <1>1, <1>5, MpFindsThread
  <2>2. PICK m : m = rt_ipc_list_resume(k, Mp)
    OBVIOUS
  <2>3. /\ mp' = [MpGive(x) EXCEPT !.count = @ - 1] /\ k' = m /\ fault' = fault
        /\ Goto(t, "sched", t)
    BY <1>5, <2>1, <2>2 DEF MpFree, MpWakes, MpResumeFirst
  <2>4. PICK h \in Thread : Linked(k, h, Mp) /\ Releases(k, m, {h}, "EOK")
    BY <1>2, <1>3, <2>1, <2>2, FirstReleases
  <2>5. Keeps({Mp}, MpPoint) /\ Shift({h}, "EOK", {})
    <3>1. /\ "sched" \in ObjPoint /\ "sched" \in PlainPoint \cup MpPoint /\ "sched" \notin TakePoint
          /\ "run" \in PlainPoint \cup MpPoint /\ "run" \notin TakePoint \cup {"sleep_sched"}
          /\ ArgIsObject([at |-> "sched", arg |-> t])
      BY DEF ObjPoint, PlainPoint, TakePoint, ArgIsObject
    <3>2. \A u \in {h} : \A o \in Obj \ {Mp} : ~Linked(k, u, o)
      BY <1>2, <1>3, <2>4, OneObject
    <3>3. fault' \in BOOLEAN /\ {h} \in SUBSET Thread
      BY <2>3 DEF MpBase
    <3> QED
      BY <1>1, <1>2, <1>3, <2>3, <2>4, <3>1, <3>2, <3>3, ThreadKeeps
  <2>6. /\ pc'[t].at = "sched" /\ \A u \in Thread \ {t} : pc'[u] = pc[u]
    BY <1>2, <2>3, GotoPc DEF Base
  <2>7. MpInv'
    <3>1. \A u \in Thread : pc'[u].at = "mp_loop" <=> pc[u].at = "mp_loop"
      BY <1>1, <2>6
    <3>2. Mp \notin dead'
      BY <1>1
    <3> QED
      BY <1>1, <1>2, <1>5, <2>3, <2>4, <2>5, <3>1, <3>2, MpWokenInv
  <2>8. Emptied(Mp, "mp_check", "mp_wake")'
    <3>1. \A u \in Thread : pc'[u].at \in {"mp_check", "mp_wake"}
                              => pc[u].at \in {"mp_check", "mp_wake"}
      BY <1>1, <2>6
    <3> QED
      BY <1>1, <1>2, <3>1, EmptiedAlive
  <2> QED
    BY <1>1, <1>4, <2>3, <2>5, <2>7, <2>8 DEF MpKept
<1>6. CASE ~(mp.count > 0)
  <2>1. mp' = MpGive(x) /\ k' = k /\ pc' = pc /\ fault' = fault
    BY <1>6 DEF MpFree, MpWakes
  <2>2. Keeps({Mp}, MpPoint)
    BY <1>1, <1>2, <1>3, <2>1, StayKeeps DEF MpBase
  <2>3. MpInv'
    BY <1>1, <1>2, <1>6, <2>1, MpGivenInv
  <2>4. Emptied(Mp, "mp_check", "mp_wake")'
    BY <1>1, <1>2, <2>1, EmptiedAlive
  <2> QED
    BY <1>1, <1>4, <2>1, <2>2, <2>3, <2>4 DEF MpKept
<1> QED
  BY <1>5, <1>6

\* and of a handler
LEMMA MpIsrFreeKept ==
    ASSUME MpBase, "mp_late" \notin Ops, NEW x \in Block, MpIsrFree(x)
    PROVE  MpKept
<1>1. /\ Mp \notin dead /\ x \in mp.used /\ OnTime
      /\ UNCHANGED <<isr, pc, dead, waiting>>
  BY DEF MpIsrFree, IsrCalls
<1>2. Base /\ MpInv /\ TimesInv /\ Emptied(Mp, "mp_check", "mp_wake")
  BY DEF MpBase
<1>3. isr' \in Isr /\ dead' \subseteq Obj /\ Mp \in Obj
  BY <1>1, <1>2, BaseSpec, ObjectsConstants
<1>4. TimesInv' /\ Emptied(Mp, "mp_check", "mp_wake")'
  BY <1>1, <1>2, ElapseTimes, EmptiedAlive
<1>5. CASE mp.count > 0
  <2>1. k.q[Mp] # << >>
    BY <1>1, <1>5, MpFindsThread
  <2>2. PICK m : m = rt_ipc_list_resume(k, Mp)
    OBVIOUS
  <2>3. /\ mp' = [MpGive(x) EXCEPT !.count = @ - 1] /\ k' = rt_schedule(m) /\ fault' = fault
    BY <1>5, <2>1, <2>2 DEF MpIsrFree, MpWakes, MpResumeFirst
  <2>4. PICK h \in Thread : Linked(k, h, Mp) /\ Releases(k, m, {h}, "EOK")
    BY <1>2, <1>3, <2>1, <2>2, FirstReleases
  <2>5. Keeps({Mp}, MpPoint) /\ Shift({h}, "EOK", {})
    <3>1. \A u \in {h} : \A o \in Obj \ {Mp} : ~Linked(k, u, o)
      BY <1>2, <1>3, <2>4, OneObject
    <3>2. fault' \in BOOLEAN /\ {h} \in SUBSET Thread
      BY <2>3 DEF MpBase
    <3> QED
      BY <1>1, <1>2, <1>3, <2>3, <2>4, <3>1, <3>2, HandlerKeeps
  <2>6. MpInv'
    BY <1>1, <1>2, <1>5, <2>3, <2>4, <2>5, MpWokenInv
  <2> QED
    BY <1>1, <1>4, <2>3, <2>5, <2>6 DEF MpKept
<1>6. CASE ~(mp.count > 0)
  <2>1. mp' = MpGive(x) /\ k' = k /\ pc' = pc /\ fault' = fault
    BY <1>1, <1>6 DEF MpIsrFree, MpWakes
  <2>2. Keeps({Mp}, MpPoint)
    BY <1>1, <1>2, <1>3, <2>1, StayKeeps DEF MpBase
  <2>3. MpInv'
    BY <1>1, <1>2, <1>6, <2>1, MpGivenInv
  <2> QED
    BY <1>1, <1>4, <2>1, <2>2, <2>3 DEF MpKept
<1> QED
  BY <1>5, <1>6

\* The kernel and the pool's counters stay, and a thread goes from one point to the next.
LEMMA MpMovesKept ==
    ASSUME MpBase, NEW t \in Thread, t # Idle, k.cur = t, k' = k, mp' = mp,
           UNCHANGED <<isr, fault, waiting>>, dead' \in {dead, dead \cup {Mp}},
           pc[t].at \in {"run", "mp_check"}, NEW at \in {"run", "mp_check", "mp_wake"}, NEW arg,
           ArgIsObject([at |-> at, arg |-> arg]), Goto(t, at, arg),
           Mp \in dead' => Coming = {}
    PROVE  Keeps({Mp}, MpPoint) /\ MpInv' /\ TimesInv'
<1>1. Base /\ MpInv /\ TimesInv /\ t # Worker
  BY ObjectsConstants DEF MpBase, Base, ObjPc, WorkerPoint
<1>2. isr' \in Isr /\ dead' \subseteq Obj /\ fault' \in BOOLEAN /\ Mp \in Obj
  BY <1>1, BaseSpec, ObjectsConstants
<1>3. Keeps({Mp}, MpPoint)
  <2>1. /\ at \in ObjPoint /\ at \in PlainPoint \cup MpPoint /\ at \notin TakePoint
        /\ pc[t].at \in PlainPoint \cup MpPoint /\ pc[t].at \notin TakePoint \cup {"sleep_sched"}
    BY DEF ObjPoint, PlainPoint, MpPoint, TakePoint
  <2> QED
    BY <1>1, <1>2, <2>1, MoveKeeps
<1>4. PICK C : C = Counted
  OBVIOUS
<1>5. PICK A : A = Coming
  OBVIOUS
<1>6. /\ pc'[t].at = at /\ \A u \in Thread \ {t} : pc'[u] = pc[u]
  BY <1>1, GotoPc DEF Base
<1>7. \A u \in Thread : Taking(u, Mp)' <=> Taking(u, Mp)
  BY <1>6 DEF Taking
<1>8. C = Counted' /\ A = Coming'
  BY <1>4, <1>5, <1>6, <1>7 DEF Counted, Coming, Unanswered, HandedOver
<1>9. /\ mp \in MpType /\ BlocksExact(mp)
      /\ mp.count = mp.late + Cardinality(C)
      /\ (\E u \in Thread : Linked(k, u, Mp)) => mp.free <= Cardinality(A)
  BY <1>1, <1>4, <1>5, MpInvSpec
<1>10. Mp \in dead' => A = {}
  BY <1>5
<1>11. MpInv'
  BY <1>8, <1>9, <1>10, MpInvNext
<1> QED
  BY <1>1, <1>3, <1>11, ElapseTimes

\* rt_mp_delete
LEMMA MpDeleteKept ==
    ASSUME MpBase, "delete_timed" \notin Ops, NEW t \in User, MpDelete(t)
    PROVE  MpKept
<1>1. /\ k.cur = t /\ pc[t].at = "run" /\ Mp \notin dead /\ t \in Thread /\ t # Idle
      /\ MayWakeAll(Mp) /\ NoneWoken(Mp) /\ \A u \in User : pc[u].at # "mp_loop"
      /\ dead' = dead \cup {Mp} /\ Goto(t, "mp_check", Mp) /\ k' = k /\ mp' = mp
      /\ UNCHANGED <<isr, fault, waiting>>
  BY DEF MpDelete, CallsOn, Calls, Is, User
<1>2. Base /\ Emptied(Mp, "mp_check", "mp_wake") /\ Mp \in Obj
  BY ObjectsConstants DEF MpBase
<1>3. Coming = {}
  <2>1. \A u \in Thread : ~HandedOver(u, Mp)
    BY <1>1 DEF NoneWoken, Woken, HandedOver
  <2>2. \A u \in Thread : pc[u].at # "mp_loop"
    BY <1>1, <1>2 DEF User, Base, ObjPc
  <2> QED
    BY <2>1, <2>2 DEF Coming
<1>4. Keeps({Mp}, MpPoint) /\ MpInv' /\ TimesInv'
  <2>1. /\ pc[t].at \in {"run", "mp_check"} /\ "mp_check" \in {"run", "mp_check", "mp_wake"}
        /\ ArgIsObject([at |-> "mp_check", arg |-> Mp])
        /\ dead' \in {dead, dead \cup {Mp}}
    BY <1>1, <1>2 DEF ArgIsObject
  <2> QED
    BY <1>1, <1>3, <2>1, MpMovesKept
<1>5. Emptied(Mp, "mp_check", "mp_wake")'
  <2>1. Mp \in dead'
    BY <1>1
  <2> QED
    BY <1>1, <1>2, <2>1, EmptiedStarts
<1> QED
  BY <1>1, <1>4, <1>5 DEF MpKept

\* The loop of rt_mp_delete looks at the list with interrupts enabled.
LEMMA MpWakeCheckKept ==
    ASSUME MpBase, NEW t \in User, MpWakeCheck(t)
    PROVE  MpKept
<1>1. /\ k.cur = t /\ pc[t].at = "mp_check" /\ t \in Thread /\ t # Idle
      /\ \/ k.q[Mp] # << >> /\ Goto(t, "mp_wake", Mp)
         \/ k.q[Mp] = << >> /\ Goto(t, "run", t)
      /\ k' = k /\ mp' = mp /\ dead' = dead /\ UNCHANGED <<isr, fault, waiting>>
  BY DEF MpWakeCheck, Is, User
<1>2. Base /\ MpInv /\ Emptied(Mp, "mp_check", "mp_wake") /\ Mp \in Obj
  BY ObjectsConstants DEF MpBase
<1>3. Mp \in dead' => Coming = {}
  BY <1>1, <1>2 DEF MpInv
<1>4. PICK at \in {"run", "mp_check", "mp_wake"} : \E arg :
        /\ ArgIsObject([at |-> at, arg |-> arg]) /\ Goto(t, at, arg)
  <2>1. ArgIsObject([at |-> "mp_wake", arg |-> Mp]) /\ ArgIsObject([at |-> "run", arg |-> t])
    BY <1>2 DEF ArgIsObject
  <2> QED
    BY <1>1, <2>1
<1>5. Keeps({Mp}, MpPoint) /\ MpInv' /\ TimesInv'
  BY <1>1, <1>3, <1>4, MpMovesKept
<1>6. Emptied(Mp, "mp_check", "mp_wake")'
  BY <1>1, <1>2, EmptiedChecks
<1> QED
  BY <1>1, <1>5, <1>6 DEF MpKept

\* One waiter of the deleted pool is resumed with an error.
LEMMA MpWakeOneKept ==
    ASSUME MpBase, NEW t \in User, MpWakeOne(t)
    PROVE  MpKept
<1>1. /\ k.cur = t /\ pc[t].at = "mp_wake" /\ t \in Thread /\ t # Idle
      /\ mp' = [mp EXCEPT !.count = @ - 1] /\ Goto(t, "mp_check", Mp)
      /\ dead' = dead /\ UNCHANGED <<isr, waiting>>
  BY DEF MpWakeOne, Is, User
<1>2. /\ Base /\ MpInv /\ TimesInv /\ Emptied(Mp, "mp_check", "mp_wake") /\ Mp \in Obj
      /\ t # Worker
  BY <1>1, ObjectsConstants DEF MpBase, Base, ObjPc, WorkerPoint
<1>3. k.q[Mp] # << >> /\ Mp \in dead
  <2>1. \E u \in Thread : Linked(k, u, Mp)
    BY <1>1, <1>2 DEF Emptied
  <2>2. Mp \in dead
    BY <1>1, <1>2 DEF Emptied
  <2> QED
    BY <1>2, <2>1, <2>2, BaseSpec, EmptyIff
<1>4. PICK m : m = ResumeOneWithError(k, Mp)
  OBVIOUS
<1>5. k' = m /\ fault' = fault
  BY <1>3, <1>4 DEF MpWakeOne
<1>6. PICK h : h = Head(k.q[Mp])
  OBVIOUS
<1>7. h \in Thread /\ Linked(k, h, Mp) /\ Releases(k, m, {h}, "ERROR")
  BY <1>2, <1>3, <1>4, <1>6, BaseSpec, ReleasesError
<1>8. Keeps({Mp}, MpPoint) /\ Shift({h}, "ERROR", {})
  <2>1. /\ "mp_check" \in ObjPoint /\ "mp_check" \in PlainPoint \cup MpPoint
        /\ "mp_check" \notin TakePoint /\ pc[t].at \in PlainPoint \cup MpPoint
        /\ pc[t].at \notin TakePoint \cup {"sleep_sched"}
        /\ ArgIsObject([at |-> "mp_check", arg |-> Mp])
    BY <1>1, <1>2 DEF ObjPoint, PlainPoint, MpPoint, TakePoint, ArgIsObject
  <2>2. \A u \in {h} : \A o \in Obj \ {Mp} : ~Linked(k, u, o)
    BY <1>2, <1>7, OneObject
  <2>3. isr' \in Isr /\ dead' \subseteq Obj /\ fault' \in BOOLEAN /\ {h} \in SUBSET Thread
    BY <1>1, <1>2, <1>5, <1>7, BaseSpec
  <2> QED
    BY <1>1, <1>2, <1>5, <1>7, <2>1, <2>2, <2>3, ThreadKeeps
<1>9. PICK C : C = Counted
  OBVIOUS
<1>10. PICK D : D = Counted'
  OBVIOUS
<1>11. PICK A : A = Coming
  OBVIOUS
<1>12. /\ mp \in MpType /\ BlocksExact(mp) /\ mp.free \in Nat /\ mp.count \in Nat /\ mp.late \in Nat
       /\ mp = [list |-> mp.list, free |-> mp.free, count |-> mp.count, used |-> mp.used,
                late |-> mp.late]
       /\ mp.count = mp.late + Cardinality(C) /\ C \in SUBSET Thread
       /\ (\E u \in Thread : Linked(k, u, Mp)) => mp.free <= Cardinality(A)
       /\ Mp \in dead => A = {}
  BY <1>2, <1>9, <1>11, MpInvSpec
<1>13. /\ pc'[t].at = "mp_check" /\ \A u \in Thread \ {t} : pc'[u] = pc[u]
  BY <1>1, <1>2, GotoPc DEF Base
<1>14. D = C \ {h} /\ h \in C
  <2>1. \A u \in Thread : Unanswered(u, Mp)' <=> Unanswered(u, Mp) /\ u # h
    BY <1>2, <1>8 DEF Shift
  <2>2. Unanswered(h, Mp)
    BY <1>2, <1>7, OneObject DEF Unanswered
  <2> QED
    BY <1>7, <1>9, <1>10, <2>1, <2>2 DEF Counted
<1>15. A = Coming'
  <2>1. \A u \in Thread : HandedOver(u, Mp)' <=> HandedOver(u, Mp)
    BY <1>2, <1>8 DEF Shift
  <2>2. \A u \in Thread : pc'[u].at = "mp_loop" <=> pc[u].at = "mp_loop"
    BY <1>1, <1>13
  <2> QED
    BY <1>11, <2>1, <2>2 DEF Coming
<1>16. /\ Cardinality(C) = Cardinality(D) + 1 /\ Cardinality(D) \in Nat
  <2>1. D \in SUBSET Thread
    BY <1>12, <1>14
  <2> QED
    BY <1>7, <1>12, <1>14, <2>1, ThreadAdded, ThreadSets
<1>17. /\ mp' \in MpType /\ BlocksExact(mp') /\ mp'.free = mp.free
       /\ mp'.count = mp.count - 1 /\ mp'.late = mp.late
  <2>1. PICK n \in Nat : n = mp.count - 1
    BY <1>12, <1>16
  <2>2. Recounted(mp, mp', n, mp.late)
    BY <1>1, <1>12, <2>1 DEF Recounted
  <2> QED
    BY <1>12, <2>1, <2>2, MpCountExact
<1>18. MpInv'
  <2>1. mp'.count = mp'.late + Cardinality(D)
    BY <1>12, <1>16, <1>17
  <2>2. (\E u \in Thread : Linked(k', u, Mp)) => mp'.free <= Cardinality(A)
    <3>1. (\E u \in Thread : Linked(k', u, Mp)) => \E u \in Thread : Linked(k, u, Mp)
      BY <1>2, <1>8 DEF Shift
    <3> QED
      BY <1>12, <1>17, <3>1
  <2> QED
    BY <1>1, <1>10, <1>12, <1>15, <1>17, <2>1, <2>2, MpInvNext
<1>19. Emptied(Mp, "mp_check", "mp_wake")'
  <2>1. \A u \in Thread : /\ Linked(k', u, Mp) => Linked(k, u, Mp)
                          /\ Linked(k', u, Mp) /\ Armed(k', u) => Armed(k, u)
    BY <1>2, <1>8 DEF Shift
  <2> QED
    BY <1>1, <1>2, <2>1, EmptiedWakes
<1> QED
  BY <1>1, <1>2, <1>5, <1>8, <1>18, <1>19, ElapseTimes DEF MpKept

\* Every step of the pool
LEMMA MpStepKept ==
    ASSUME MpBase, "mp_late" \notin Ops, "delete_timed" \notin Ops, sys \in Systems,
           MpStep(sys.consumer)
    PROVE  MpKept
<1>1. sys.consumer \subseteq User \ {Worker}
  BY SystemUsers
<1>2. ASSUME NEW t, MpIsrAlloc \/ MpAlloc(t) PROVE MpKept
  BY <1>2, MpTakeKept DEF MpIsrAlloc, MpAlloc
<1> QED
  BY <1>1, <1>2, MpIsrFreeKept, MpBlocksKept, MpFailsKept, MpResumedKept, MpAllocResumedKept,
     MpAgainKept, MpFreeKept, MpDeleteKept, MpWakeCheckKept, MpWakeOneKept DEF MpStep

-----------------------------------------------------------------------------
(* The completion                                                           *)

\* One thread waits for the completion: "only one thread can suspend on complete", says
\* rt_completion_wait where it asserts it.
OneWaiter ==
    \A s \in Systems : "completion" \in s.has => \A t, u \in s.consumer : t = u

\* What each step of the completion keeps
CpKept ==
    Keeps({Cp}, CpPoint) /\ CpInv' /\ UNCHANGED <<dead, fault, waiting>>

\* What the steps start from
CpBase == Base /\ CpInv /\ sys \in Systems /\ "completion" \in sys.has /\ OneWaiter /\ sys' = sys

\* The waiter is the only one.
LEMMA OnlyWaiter ==
    ASSUME CpBase, NEW t \in sys.consumer
    PROVE  \A u \in Thread : Taking(u, Cp) \/ Linked(k, u, Cp) \/ HandedOver(u, Cp) => u = t
<1>1. \A u \in Thread : Taking(u, Cp) => u = t
  BY DEF CpBase, CpInv, OneWaiter
<1>2. \A u \in Thread : Linked(k, u, Cp) => Taking(u, Cp)
  BY BaseSpec, ObjectsConstants DEF CpBase
<1> QED
  BY <1>1, <1>2 DEF HandedOver

\* rt_completion_wait for what is done
LEMMA CpWaitKept ==
    ASSUME CpBase, NEW t \in User \ {Worker}, t \in sys.consumer, CpWait(t)
    PROVE  CpKept
<1>1. /\ k.cur = t /\ pc[t].at = "run" /\ t \in Thread /\ completed' = FALSE
      /\ UNCHANGED <<k, isr, pc, dead, fault, waiting>>
  BY DEF CpWait, CallsOn, Calls, Is, kernel, User
<1>2. Base /\ CpInv /\ Cp \in Obj /\ isr' \in Isr /\ dead' \subseteq Obj /\ fault' \in BOOLEAN
  BY <1>1, BaseSpec, ObjectsConstants DEF CpBase
<1>3. Keeps({Cp}, CpPoint) /\ Shift({}, "EOK", {})
  BY <1>1, <1>2, StayKeeps
<1>4. \A u \in Thread : /\ Linked(k', u, Cp) <=> Linked(k, u, Cp)
                        /\ HandedOver(u, Cp)' <=> HandedOver(u, Cp)
                        /\ Taking(u, Cp)' <=> Taking(u, Cp)
  BY <1>2, <1>3 DEF Shift
<1>5. \A u \in Thread : ~HandedOver(u, Cp)
  <2>1. ~HandedOver(t, Cp)
    BY <1>1 DEF HandedOver, Taking
  <2> QED
    BY <2>1, OnlyWaiter
<1>6. CpInv'
  BY <1>1, <1>2, <1>4, <1>5 DEF CpInv, CpBase
<1> QED
  BY <1>1, <1>2, <1>3, <1>6 DEF CpKept

\* and for what is not
LEMMA CpWaitBlocksKept ==
    ASSUME CpBase, NEW t \in User \ {Worker}, t \in sys.consumer, NEW time \in TimesOf(t),
           CpWaitBlocks(t, time)
    PROVE  CpKept
<1>1. /\ k.cur = t /\ pc[t].at = "run" /\ t \in Thread /\ t # Idle /\ Cp \notin dead
      /\ ~completed /\ completed' = completed
      /\ k' = SuspendSelfOn(k, Cp, "FIFO", time) /\ Goto(t, "take_sched", Cp)
      /\ UNCHANGED <<isr, dead, fault, waiting>>
  BY DEF CpWaitBlocks, CpSuspend, CallsOn, Calls, Is, User
<1>2. /\ Base /\ CpInv /\ Good(k, {}) /\ k.stat[t] = "RUNNING" /\ time \in Int /\ Cp \in Obj
      /\ isr' \in Isr /\ dead' \subseteq Obj /\ fault' \in BOOLEAN
  BY <1>1, BaseSpec, ObjectsConstants, TimesInteger, Runs DEF Base, CpBase
<1>3. PICK flag : flag = "FIFO"
  OBVIOUS
<1>4. PICK m : m = SuspendSelfOn(k, Cp, flag, time)
  OBVIOUS
<1>5. Suspends(k, m, t, Cp)
  BY <1>1, <1>2, <1>4, SuspendSelfBlocks
<1>6. Keeps({Cp}, CpPoint) /\ Joins(t, Cp)
  <2>1. pc[t].at \in {"run", "mp_loop"} /\ pc[t].at \in PlainPoint \cup CpPoint /\ Cp \in {Cp}
    BY <1>1 DEF PlainPoint
  <2>2. k' = m /\ Goto(t, "take_sched", Cp)
    BY <1>1, <1>3, <1>4
  <2> QED
    BY <1>1, <1>2, <1>5, <2>1, <2>2, BlockKeeps
<1>7. CpInv'
  <2>1. \A u \in Thread : /\ HandedOver(u, Cp)' <=> HandedOver(u, Cp)
                          /\ Taking(u, Cp)' <=> Taking(u, Cp) \/ u = t
    BY <1>2, <1>6 DEF Joins
  <2> QED
    BY <1>1, <1>2, <2>1 DEF CpInv, CpBase
<1> QED
  BY <1>1, <1>6, <1>7 DEF CpKept

\* The waiter returns.
LEMMA CpWaitReturnsKept ==
    ASSUME CpBase, NEW t \in User \ {Worker}, t \in sys.consumer, CpWaitReturns(t)
    PROVE  CpKept
<1>1. /\ k.cur = t /\ pc[t].at = "take_ret" /\ pc[t].arg = Cp /\ t \in Thread /\ t # Idle
      /\ completed' = FALSE /\ k' = SetErr(k, t, "EOK") /\ Goto(t, "run", t)
      /\ UNCHANGED <<isr, dead, fault, waiting>>
  BY DEF CpWaitReturns, Is, User, SetErr
<1>2. /\ Base /\ CpInv /\ Cp \in Obj
      /\ isr' \in Isr /\ dead' \subseteq Obj /\ fault' \in BOOLEAN
  BY <1>1, BaseSpec, ObjectsConstants DEF CpBase
<1>3. Keeps({Cp}, CpPoint) /\ Shift({}, "EOK", {t})
  <2>1. /\ "run" \in ObjPoint /\ "run" \in PlainPoint \cup CpPoint /\ "run" \notin TakePoint
        /\ ArgIsObject([at |-> "run", arg |-> t]) /\ \A o \in Obj \ {Cp} : pc[t].arg # o
    BY <1>1 DEF ObjPoint, PlainPoint, TakePoint, ArgIsObject
  <2> QED
    BY <1>1, <1>2, <2>1, ReturnKeeps
<1>4. \A u \in Thread : ~Taking(u, Cp)' /\ ~HandedOver(u, Cp)'
  <2>1. \A u \in Thread : /\ Taking(u, Cp)' <=> Taking(u, Cp) /\ u # t
                          /\ HandedOver(u, Cp)' <=> HandedOver(u, Cp) /\ u # t
    BY <1>2, <1>3 DEF Shift
  <2> QED
    BY <2>1, OnlyWaiter
<1>5. CpInv'
  BY <1>1, <1>4 DEF CpInv
<1> QED
  BY <1>1, <1>2, <1>3, <1>5 DEF CpKept

\* rt_completion_done looks at the flag,
LEMMA CpDoneKept ==
    ASSUME CpBase, NEW t \in User \ {Worker}, CpDone(t)
    PROVE  CpKept
<1>1. /\ k.cur = t /\ pc[t].at = "run" /\ t \in Thread /\ t # Idle
      /\ k' = k /\ completed' = completed /\ Goto(t, "cp_done", Cp)
      /\ UNCHANGED <<isr, dead, fault, waiting>>
  BY DEF CpDone, CallsOn, Calls, Is, User
<1>2. /\ Base /\ CpInv /\ Cp \in Obj
      /\ isr' \in Isr /\ dead' \subseteq Obj /\ fault' \in BOOLEAN
  BY <1>1, BaseSpec, ObjectsConstants DEF CpBase
<1>3. Keeps({Cp}, CpPoint) /\ Shift({}, "EOK", {})
  <2>1. /\ pc[t].at \in PlainPoint \cup CpPoint /\ pc[t].at \notin TakePoint \cup {"sleep_sched"}
        /\ "cp_done" \in ObjPoint /\ "cp_done" \in PlainPoint \cup CpPoint
        /\ "cp_done" \notin TakePoint /\ ArgIsObject([at |-> "cp_done", arg |-> Cp])
    BY <1>1 DEF ObjPoint, PlainPoint, CpPoint, TakePoint, ArgIsObject
  <2> QED
    BY <1>1, <1>2, <2>1, MoveKeeps
<1>4. \A u \in Thread : /\ Linked(k', u, Cp) <=> Linked(k, u, Cp)
                        /\ HandedOver(u, Cp)' <=> HandedOver(u, Cp)
                        /\ Taking(u, Cp)' <=> Taking(u, Cp)
  BY <1>2, <1>3 DEF Shift
<1>5. CpInv'
  BY <1>1, <1>2, <1>4 DEF CpInv, CpBase
<1> QED
  BY <1>1, <1>2, <1>3, <1>5 DEF CpKept

\* Nobody is left in the list once the flag is set and the first waiter resumed.
LEMMA CpDoneInv ==
    ASSUME CpBase, completed' = TRUE, NEW W \in SUBSET Thread, Shift(W, "EOK", {}),
           \A u \in Thread : Linked(k, u, Cp) => \E w \in W : Linked(k, w, Cp)
    PROVE  CpInv'
<1>1. CpInv /\ Cp \in Obj
  BY ObjectsConstants DEF CpBase
<1>2. \A u \in Thread : /\ Linked(k', u, Cp) <=> Linked(k, u, Cp) /\ u \notin W
                        /\ Taking(u, Cp)' <=> Taking(u, Cp)
  BY <1>1 DEF Shift
<1>3. ASSUME NEW u \in Thread PROVE ~Linked(k', u, Cp)
  <2>1. SUFFICES ASSUME Linked(k, u, Cp) PROVE u \in W
    BY <1>2
  <2>2. PICK w \in W : Linked(k, w, Cp)
    BY <2>1
  <2>3. u \in sys.consumer
    BY <1>1, <2>1, OneObject DEF CpBase, CpInv
  <2> QED
    BY <2>2, <2>3, OnlyWaiter
<1> QED
  BY <1>1, <1>2, <1>3 DEF CpInv, CpBase

\* and then, with interrupts disabled, sets it.
LEMMA CpDoneSetsKept ==
    ASSUME CpBase, NEW t \in User \ {Worker}, CpDoneSets(t)
    PROVE  CpKept
<1>1. /\ k.cur = t /\ pc[t].at = "cp_done" /\ t \in Thread /\ t # Idle
      /\ completed' = TRUE /\ UNCHANGED <<isr, dead, fault, waiting>>
  BY DEF CpDoneSets, Is, User
<1>2. /\ Base /\ CpInv /\ Cp \in Obj /\ Good(k, {})
      /\ isr' \in Isr /\ dead' \subseteq Obj /\ fault' \in BOOLEAN
  BY <1>1, BaseSpec, ObjectsConstants DEF CpBase
<1>3. /\ pc[t].at \in PlainPoint \cup CpPoint /\ pc[t].at \notin TakePoint \cup {"sleep_sched"}
      /\ "sched" \in ObjPoint /\ "sched" \in PlainPoint \cup CpPoint /\ "sched" \notin TakePoint
      /\ "run" \in ObjPoint /\ "run" \in PlainPoint \cup CpPoint /\ "run" \notin TakePoint
      /\ ArgIsObject([at |-> "sched", arg |-> t]) /\ ArgIsObject([at |-> "run", arg |-> t])
  BY <1>1 DEF ObjPoint, PlainPoint, CpPoint, TakePoint, ArgIsObject
<1>4. CASE k.q[Cp] # << >>
  <2>1. PICK m : m = rt_ipc_list_resume(k, Cp)
    OBVIOUS
  <2>2. k' = m /\ Goto(t, "sched", t)
    BY <1>4, <2>1 DEF CpDoneSets, ResumeFirst
  <2>3. PICK h \in Thread : Linked(k, h, Cp) /\ Releases(k, m, {h}, "EOK")
    BY <1>2, <1>4, <2>1, FirstReleases
  <2>4. \A u \in {h} : \A o \in Obj \ {Cp} : ~Linked(k, u, o)
    BY <1>2, <2>3, OneObject
  <2>5. {h} \in SUBSET Thread
    OBVIOUS
  <2>6. Keeps({Cp}, CpPoint) /\ Shift({h}, "EOK", {})
    BY <1>1, <1>2, <1>3, <2>2, <2>3, <2>4, <2>5, ThreadKeeps
  <2>7. CpInv'
    BY <1>1, <2>3, <2>5, <2>6, CpDoneInv
  <2> QED
    BY <1>1, <1>2, <2>5, <2>6, <2>7 DEF CpKept
<1>5. CASE k.q[Cp] = << >>
  <2>1. k' = k /\ Goto(t, "run", t)
    BY <1>5 DEF CpDoneSets, ResumeFirst
  <2>2. Keeps({Cp}, CpPoint) /\ Shift({}, "EOK", {})
    BY <1>1, <1>2, <1>3, <2>1, MoveKeeps
  <2>3. CpInv'
    BY <1>1, <1>2, <1>5, <2>2, EmptyIff, CpDoneInv
  <2> QED
    BY <1>1, <1>2, <2>2, <2>3 DEF CpKept
<1> QED
  BY <1>4, <1>5

\* A handler does both at once.
LEMMA CpIsrDoneKept ==
    ASSUME CpBase, CpIsrDone
    PROVE  CpKept
<1>1. completed' = TRUE /\ UNCHANGED <<isr, pc, dead, fault, waiting>>
  BY DEF CpIsrDone, IsrResumeFirst
<1>2. /\ Base /\ CpInv /\ Cp \in Obj /\ Good(k, {})
      /\ isr' \in Isr /\ dead' \subseteq Obj /\ fault' \in BOOLEAN
  BY <1>1, BaseSpec, ObjectsConstants DEF CpBase
<1>3. CASE k.q[Cp] # << >>
  <2>1. PICK m : m = rt_ipc_list_resume(k, Cp)
    OBVIOUS
  <2>2. k' = rt_schedule(m)
    BY <1>3, <2>1 DEF CpIsrDone, IsrResumeFirst
  <2>3. PICK h \in Thread : Linked(k, h, Cp) /\ Releases(k, m, {h}, "EOK")
    BY <1>2, <1>3, <2>1, FirstReleases
  <2>4. \A u \in {h} : \A o \in Obj \ {Cp} : ~Linked(k, u, o)
    BY <1>2, <2>3, OneObject
  <2>5. {h} \in SUBSET Thread
    OBVIOUS
  <2>6. Keeps({Cp}, CpPoint) /\ Shift({h}, "EOK", {})
    BY <1>1, <1>2, <2>2, <2>3, <2>4, <2>5, HandlerKeeps
  <2>7. CpInv'
    BY <1>1, <2>3, <2>5, <2>6, CpDoneInv
  <2> QED
    BY <1>1, <1>2, <2>5, <2>6, <2>7 DEF CpKept
<1>4. CASE k.q[Cp] = << >>
  <2>1. k' = k
    BY <1>4 DEF CpIsrDone, IsrResumeFirst
  <2>2. Keeps({Cp}, CpPoint) /\ Shift({}, "EOK", {})
    BY <1>1, <1>2, <2>1, StayKeeps
  <2>3. CpInv'
    BY <1>1, <1>2, <1>4, <2>2, EmptyIff, CpDoneInv
  <2> QED
    BY <1>1, <1>2, <2>2, <2>3 DEF CpKept
<1> QED
  BY <1>3, <1>4

\* Every step of the completion
LEMMA CpStepKept ==
    ASSUME CpBase, CpStep(sys.producer, sys.consumer)
    PROVE  CpKept
<1>1. sys.producer \subseteq User \ {Worker} /\ sys.consumer \subseteq User \ {Worker}
  BY SystemUsers DEF CpBase
<1> QED
  BY <1>1, CpWaitKept, CpWaitBlocksKept, CpWaitReturnsKept, CpDoneKept, CpDoneSetsKept,
     CpIsrDoneKept DEF CpStep

-----------------------------------------------------------------------------
(* The work queue                                                           *)

\* Work x goes to the end of list s.
AtEnd(s, x) == Append(s, x)

\* There are no repetitions if it was not there.
LEMMA AppendAdds ==
    ASSUME NEW S, NEW s \in Seq(S), IsInjective(s), NEW x \in S, x \notin ToSet(s),
           NEW r, r = AtEnd(s, x)
    PROVE  /\ r \in Seq(S) /\ IsInjective(r) /\ r # << >>
           /\ ToSet(r) = ToSet(s) \cup {x}
<1>1. PICK n \in Nat : n = Len(s) /\ DOMAIN s = 1 .. n
  OBVIOUS
<1>2. /\ r \in Seq(S) /\ Len(r) = n + 1 /\ DOMAIN r = 1 .. n + 1 /\ r # << >>
      /\ \A i \in 1 .. n + 1 : r[i] = IF i = n + 1 THEN x ELSE s[i]
  BY <1>1 DEF AtEnd
<1>3. /\ \A i \in 1 .. n : s[i] \in ToSet(s)
      /\ \A i, j \in 1 .. n : s[i] = s[j] => i = j
  BY <1>1 DEF ToSet, IsInjective
<1>4. IsInjective(r)
  <2>1. ASSUME NEW i \in 1 .. n + 1, NEW j \in 1 .. n + 1, r[i] = r[j] PROVE i = j
    BY <1>2, <1>3, <2>1
  <2> QED
    BY <1>2, <2>1 DEF IsInjective
<1>5. ASSUME NEW y \in ToSet(r) PROVE y \in ToSet(s) \cup {x}
  BY <1>2, <1>3, <1>5 DEF ToSet
<1>6. ASSUME NEW y \in ToSet(s) PROVE y \in ToSet(r)
  <2>1. PICK i \in 1 .. n : y = s[i]
    BY <1>1, <1>6 DEF ToSet
  <2> QED
    BY <1>1, <1>2, <2>1 DEF ToSet
<1>7. x \in ToSet(r)
  BY <1>1, <1>2 DEF ToSet
<1> QED
  BY <1>2, <1>4, <1>5, <1>6, <1>7

\* A work queue with these fields
Queue(list, cur, pending, armed, attached, stray, cancelled) ==
    [list |-> list, cur |-> cur, pending |-> pending, armed |-> armed,
     attached |-> attached, stray |-> stray, cancelled |-> cancelled]

\* The part of the invariant that is about the queue alone
WqExact(q) ==
    /\ q \in WqType
    /\ IsInjective(q.list)
    /\ q.cur \notin ToSet(q.list) /\ q.pending \subseteq ToSet(q.list)
    /\ q.cancelled \cap (ToSet(q.list) \cup q.armed) = {}
    /\ ToSet(q.list) \cap Delayed \subseteq q.pending

\* The same field by field
Exact(list, cur, pending, armed, attached, stray, cancelled) ==
    /\ list \in Seq(Work) /\ cur \in Work \cup {Null} /\ pending \subseteq Work
    /\ armed \subseteq Delayed /\ attached \subseteq Delayed
    /\ stray \in BOOLEAN /\ cancelled \subseteq Work
    /\ IsInjective(list)
    /\ cur \notin ToSet(list) /\ pending \subseteq ToSet(list)
    /\ cancelled \cap (ToSet(list) \cup armed) = {}
    /\ ToSet(list) \cap Delayed \subseteq pending

\* A work queue is made of its fields.
LEMMA WqFields ==
    ASSUME NEW q, q \in WqType
    PROVE  /\ q = Queue(q.list, q.cur, q.pending, q.armed, q.attached, q.stray, q.cancelled)
           /\ WqExact(q) <=>
                Exact(q.list, q.cur, q.pending, q.armed, q.attached, q.stray, q.cancelled)
<1>1. /\ q.list \in Seq(Work) /\ q.cur \in Work \cup {Null} /\ q.pending \subseteq Work
      /\ q.armed \subseteq Delayed /\ q.attached \subseteq Delayed
      /\ q.stray \in BOOLEAN /\ q.cancelled \subseteq Work
  BY DEF WqType
<1>2. q = Queue(q.list, q.cur, q.pending, q.armed, q.attached, q.stray, q.cancelled)
  BY DEF WqType, Queue
<1>3. PICK l, c, p, a, b, s, x :
        /\ l = q.list /\ c = q.cur /\ p = q.pending /\ a = q.armed /\ b = q.attached
        /\ s = q.stray /\ x = q.cancelled
  OBVIOUS
<1>4. WqExact(q) <=> Exact(l, c, p, a, b, s, x)
  BY <1>1, <1>3 DEF WqExact, Exact
<1> QED
  BY <1>2, <1>3, <1>4

\* Fields that are exact make an exact work queue.
LEMMA QueueExact ==
    ASSUME NEW list, NEW cur, NEW pending, NEW armed, NEW attached, NEW stray, NEW cancelled,
           Exact(list, cur, pending, armed, attached, stray, cancelled),
           NEW q, q = Queue(list, cur, pending, armed, attached, stray, cancelled)
    PROVE  /\ WqExact(q) /\ q.list = list /\ q.cur = cur /\ q.pending = pending
           /\ q.armed = armed /\ q.attached = attached
<1>1. /\ q.list = list /\ q.cur = cur /\ q.pending = pending
      /\ q.armed = armed /\ q.attached = attached /\ q.stray = stray /\ q.cancelled = cancelled
  BY DEF Queue
<1>2. q \in WqType
  BY DEF Queue, Exact, WqType
<1> QED
  BY <1>1, <1>2, WqFields

\* Queue q with work w at the end of the list, and then p, a and b as its other sets
Enqueued(q, w, p, a, b) ==
    [q EXCEPT !.list = Append(RemoveFirst(@, w), w), !.pending = p,
              !.armed = a, !.attached = b, !.cancelled = @ \ {w}]

\* They are such that a pending work is in the list.
Fit(q, w, p, a, b) ==
    /\ w \in Work /\ w # q.cur
    /\ p \in {q.pending, q.pending \cup {w}} /\ (w \in Delayed => w \in p)
    /\ a \subseteq q.armed /\ b \subseteq Delayed

\* The queue stays exact.
LEMMA QueuesExact ==
    ASSUME NEW q, WqExact(q), NEW w, NEW p, NEW a, NEW b, Fit(q, w, p, a, b),
           NEW r, r = Enqueued(q, w, p, a, b)
    PROVE  WqExact(r) /\ ToSet(r.list) = ToSet(q.list) \cup {w} /\ r.cur = q.cur
<1>0. /\ w \in Work /\ w # q.cur
      /\ p \in {q.pending, q.pending \cup {w}} /\ (w \in Delayed => w \in p)
      /\ a \subseteq q.armed /\ b \subseteq Delayed
  BY DEF Fit
<1>1. /\ q = Queue(q.list, q.cur, q.pending, q.armed, q.attached, q.stray, q.cancelled)
      /\ Exact(q.list, q.cur, q.pending, q.armed, q.attached, q.stray, q.cancelled)
  BY WqFields DEF WqExact
<1>2. PICK f : f = RemoveFirst(q.list, w)
  OBVIOUS
<1>3. f \in Seq(Work) /\ IsInjective(f) /\ ToSet(f) = ToSet(q.list) \ {w}
  <2>1. q.list \in Seq(Work) /\ IsInjective(q.list)
    BY <1>1 DEF Exact
  <2> QED
    BY <1>2, <2>1, RemoveFirstList
<1>4. PICK l : l = AtEnd(f, w)
  OBVIOUS
<1>5. l \in Seq(Work) /\ IsInjective(l) /\ l # << >> /\ ToSet(l) = ToSet(f) \cup {w}
  <2>1. w \notin ToSet(f)
    BY <1>3
  <2> QED
    BY ONLY <1>0, <1>3, <1>4, <2>1, AppendAdds
<1>6. PICK x : x = q.cancelled \ {w}
  OBVIOUS
<1>7. r = Queue(l, q.cur, p, a, b, q.stray, x)
  <2>1. Append(RemoveFirst(q.list, w), w) = l
    BY <1>2, <1>4 DEF AtEnd
  <2> QED
    BY ONLY <1>1, <1>6, <2>1, r = Enqueued(q, w, p, a, b)
       DEF Enqueued, Queue
<1>8. Exact(l, q.cur, p, a, b, q.stray, x)
  BY <1>0, <1>1, <1>3, <1>5, <1>6 DEF Exact
<1>9. PICK c, s : c = q.cur /\ s = q.stray
  OBVIOUS
<1>10. WqExact(r) /\ r.list = l /\ r.cur = c
  BY ONLY <1>7, <1>8, <1>9, QueueExact
<1> QED
  BY <1>3, <1>5, <1>9, <1>10

\* Work w leaves the list.
LEMMA RemovesExact ==
    ASSUME NEW q, WqExact(q), NEW w \in Work, w \notin q.armed,
           NEW r, r = [q EXCEPT !.list = RemoveFirst(@, w), !.pending = @ \ {w},
                                !.cancelled = @ \cup {w}]
    PROVE  WqExact(r) /\ ToSet(r.list) = ToSet(q.list) \ {w} /\ r.cur = q.cur
<1>1. /\ q = Queue(q.list, q.cur, q.pending, q.armed, q.attached, q.stray, q.cancelled)
      /\ Exact(q.list, q.cur, q.pending, q.armed, q.attached, q.stray, q.cancelled)
  BY WqFields DEF WqExact
<1>2. PICK f : f = RemoveFirst(q.list, w)
  OBVIOUS
<1>3. f \in Seq(Work) /\ IsInjective(f) /\ ToSet(f) = ToSet(q.list) \ {w}
  <2>1. q.list \in Seq(Work) /\ IsInjective(q.list)
    BY <1>1 DEF Exact
  <2> QED
    BY <1>2, <2>1, RemoveFirstList
<1>4. PICK p, x : p = q.pending \ {w} /\ x = q.cancelled \cup {w}
  OBVIOUS
<1>5. r = Queue(f, q.cur, p, q.armed, q.attached, q.stray, x)
  <2>1. RemoveFirst(q.list, w) = f
    BY <1>2
  <2> QED
    BY ONLY <1>1, <1>4, <2>1, r = [q EXCEPT !.list = RemoveFirst(@, w), !.pending = @ \ {w},
                                !.cancelled = @ \cup {w}] DEF Queue
<1>6. Exact(f, q.cur, p, q.armed, q.attached, q.stray, x)
  BY <1>1, <1>3, <1>4 DEF Exact
<1>7. PICK c, a, b, s :
        c = q.cur /\ a = q.armed /\ b = q.attached /\ s = q.stray
  OBVIOUS
<1>8. WqExact(r) /\ r.list = f /\ r.cur = c
  BY ONLY <1>5, <1>6, <1>7, QueueExact
<1> QED
  BY <1>3, <1>7, <1>8

\* The first work is taken.
LEMMA TakesExact ==
    ASSUME NEW q, WqExact(q), q.list # << >>,
           NEW r, r = [q EXCEPT !.list = Tail(@), !.cur = Head(q.list),
                                !.pending = @ \ {Head(q.list)}]
    PROVE  WqExact(r) /\ ToSet(r.list) \subseteq ToSet(q.list)
<1>1. /\ q = Queue(q.list, q.cur, q.pending, q.armed, q.attached, q.stray, q.cancelled)
      /\ Exact(q.list, q.cur, q.pending, q.armed, q.attached, q.stray, q.cancelled)
  BY WqFields DEF WqExact
<1>2. PICK s : s = q.list
  OBVIOUS
<1>3. s \in Seq(Work) /\ IsInjective(s) /\ s # << >>
  BY <1>1, <1>2 DEF Exact
<1>4. PICK f, h : f = Tail(s) /\ h = Head(s)
  OBVIOUS
<1>5. /\ h \in Work /\ f \in Seq(Work) /\ IsInjective(f) /\ ToSet(f) = ToSet(s) \ {h}
  BY <1>3, <1>4, TailRemoves
<1>6. PICK p : p = q.pending \ {h}
  OBVIOUS
<1>7. r = Queue(f, h, p, q.armed, q.attached, q.stray, q.cancelled)
  <2>1. Tail(q.list) = f /\ Head(q.list) = h
    BY <1>2, <1>4
  <2> QED
    BY ONLY <1>1, <1>6, <2>1, r = [q EXCEPT !.list = Tail(@), !.cur = Head(q.list),
                                !.pending = @ \ {Head(q.list)}] DEF Queue
<1>8. Exact(f, h, p, q.armed, q.attached, q.stray, q.cancelled)
  BY <1>1, <1>2, <1>5, <1>6 DEF Exact
<1>9. PICK a, b, c, x :
        a = q.armed /\ b = q.attached /\ c = q.stray /\ x = q.cancelled
  OBVIOUS
<1>10. WqExact(r) /\ r.list = f
  BY ONLY <1>7, <1>8, <1>9, QueueExact
<1> QED
  BY <1>2, <1>5, <1>10

\* RT_NULL is not a work.
LEMMA NullApart ==
    ASSUME NEW list \in Seq(Work)
    PROVE  Null \notin ToSet(list)
<1>1. \A y \in ToSet(list) : y \in Work
  BY ToSetType
<1> QED
  BY <1>1, WorkQueueAssumption

\* What the steps of the work queue start from
WqBase == Base /\ WqInv /\ "wq_race" \notin Ops

\* What each of them keeps
WqKept ==
    /\ Base' /\ (\A o \in Obj \ {WqSem} : Untouched(o))
    /\ Still(ObjPoint \ (PlainPoint \cup WqPoint))
    /\ WqInv' /\ UNCHANGED <<dead, fault, waiting>>

\* Thread t is about to stop the timer of a work that is not in list l.
Stopping(t, l) == \E w \in Delayed \ ToSet(l) : pc[t] = [at |-> "dw_stop", arg |-> w]

\* The kernel is good after a step that keeps the base invariant.
LEMMA GoodNext ==
    ASSUME Base'
    PROVE  Good(k', {}) /\ k'.cur \in Thread
<1>1. k' \in Kstate /\ KernelOK(k', {})
  BY DEF Base, IpcInv
<1> QED
  BY <1>1, FlatIff DEF Good, Kstate

\* The invariant, and the parts it is made of
LEMMA WqParts ==
    ASSUME WqBase
    PROVE  /\ WqExact(wq) /\ WorkerInStep /\ WorkerAwake
           /\ \A t \in Thread : pc[t].at = "dw_stop" => Stopping(t, wq.list)
           /\ \A u \in Thread : Linked(k, u, WqSem) =>
                wq.cur # Null \/ pc[Worker].at = "wq_ack"
           /\ wq.list \in Seq(Work) /\ wq.cur \in Work \cup {Null}
<1>1. Good(k, {}) /\ WqSem \in Obj
  BY BaseSpec, ObjectsConstants DEF WqBase
<1>2. /\ wq \in WqType /\ WorkListExact /\ DelayedExact /\ WorkerInStep
      /\ WorkerAwake /\ SyncServed
  BY DEF WqBase, WqInv
<1>3. WqExact(wq)
  BY <1>2 DEF WqExact, WorkListExact, DelayedExact
<1>4. \A u \in Thread : Linked(k, u, WqSem) => wq.cur # Null \/ pc[Worker].at = "wq_ack"
  BY <1>1, <1>2, EmptyIff DEF SyncServed
<1>5. wq.list \in Seq(Work) /\ wq.cur \in Work \cup {Null}
  BY <1>2 DEF WqType
<1> QED
  BY <1>2, <1>3, <1>4, <1>5 DEF DelayedExact, Stopping

\* The parts, put together again
LEMMA WqNext ==
    ASSUME Base', WqExact(wq'), WorkerInStep', WorkerAwake',
           \A t \in Thread : pc'[t].at = "dw_stop" => Stopping(t, wq.list)',
           \A u \in Thread : Linked(k', u, WqSem) => wq'.cur # Null \/ pc'[Worker].at = "wq_ack"
    PROVE  WqInv'
<1>1. PICK x : x = k'
  OBVIOUS
<1>2. Good(x, {}) /\ WqSem \in Obj
  BY <1>1, GoodNext, ObjectsConstants
<1>3. x.q[WqSem] = << >> <=> \A u \in Thread : ~Linked(x, u, WqSem)
  BY ONLY <1>2, EmptyIff
<1>4. SyncServed'
  BY <1>1, <1>3 DEF SyncServed
<1>5. wq' \in WqType /\ WorkListExact' /\ DelayedExact'
  BY DEF WqExact, WorkListExact, DelayedExact, Stopping
<1> QED
  BY <1>4, <1>5 DEF WqInv

\* A step of the application, or of a timer of a delayed work, leaves the worker where
\* it is.
LEMMA WqApplication ==
    ASSUME WqBase, Base', WqExact(wq'), wq'.cur = wq.cur, pc'[Worker] = pc[Worker],
           k'.stat[Worker] = "SUSPEND" => k.stat[Worker] = "SUSPEND",
           \A u \in Thread : Linked(k', u, WqSem) => Linked(k, u, WqSem) \/ wq.cur # Null,
           \A t \in Thread : pc'[t].at = "dw_stop" => Stopping(t, wq.list)',
           pc[Worker].at = "wq_suspend" => ToSet(wq'.list) \subseteq ToSet(wq.list),
           \/ k'.stat[Worker] # "SUSPEND"
           \/ wq.cur # Null
           \/ \E t \in User : pc'[t].at = "wq_resume"
           \/ /\ ToSet(wq'.list) \subseteq ToSet(wq.list)
              /\ \A t \in User : pc[t].at = "wq_resume" => pc'[t].at = "wq_resume"
    PROVE  WqInv'
<1>1. /\ WorkerInStep /\ WorkerAwake
      /\ \A u \in Thread : Linked(k, u, WqSem) => wq.cur # Null \/ pc[Worker].at = "wq_ack"
      /\ wq.list \in Seq(Work) /\ wq'.list \in Seq(Work)
  BY WqParts DEF WqExact, WqType
<1>2. ToSet(wq'.list) \subseteq ToSet(wq.list) => (wq.list = << >> => wq'.list = << >>)
  BY <1>1, EmptyList
<1>3. WorkerInStep'
  BY <1>1, <1>2 DEF WorkerInStep
<1>4. WorkerAwake'
  BY <1>1, <1>2 DEF WorkerAwake, WorkerInStep
<1> QED
  BY <1>1, <1>3, <1>4, WqNext

\* The loop of the worker: it looks at the list,
LEMMA WorkerCheckKept ==
    ASSUME WqBase, WorkerCheck
    PROVE  WqKept
<1>1. /\ k.cur = Worker /\ pc[Worker].at = "wq_check" /\ k' = k /\ wq' = wq
      /\ UNCHANGED <<isr, dead, fault, waiting>>
  BY DEF WorkerCheck, Is
<1>2. PICK at \in {"wq_suspend", "take_ret"} :
        Goto(Worker, at, Worker) /\ (at = "wq_suspend" => wq.list = << >>)
  BY DEF WorkerCheck
<1>3. /\ Base /\ Worker \in Thread /\ Worker # Idle /\ Worker \notin Obj
      /\ Good(k, {}) /\ isr' \in Isr /\ dead' \subseteq Obj /\ fault' \in BOOLEAN
  BY <1>1, BaseSpec, ObjectsConstants DEF WqBase
<1>4. /\ pc'[Worker].at = at /\ pc'[Worker].arg = Worker
      /\ \A u \in Thread \ {Worker} : pc'[u] = pc[u]
  BY <1>2, <1>3, GotoPc DEF Base
<1>5. SameTaking
  BY <1>1, <1>3, <1>4 DEF SameTaking, Taking
<1>6. /\ Shift({}, "EOK", {}) /\ WaitersClean'
      /\ \A u \in Thread : \A o \in Obj : Linked(k', u, o) <=> Linked(k, u, o)
  BY <1>1, <1>3, <1>5, ReleasesNone, ReleasesShift DEF Base
<1>7. k.stat[Worker] = "RUNNING"
  BY <1>1, <1>3, Runs DEF Base
<1>8. IpcInv'
  <2>1. /\ at \notin {"dq_check", "dq_wake"} /\ ArgIsObject([at |-> at, arg |-> Worker])
        /\ pc[Worker].at \notin {"dq_check", "dq_wake"}
    BY <1>1 DEF ArgIsObject
  <2>2. SameWaiters(k, k') /\ k'.lock = k.lock /\ Good(k', {})
    BY <1>1, <1>3, SameKernel DEF Base
  <2>3. k'.stat[Worker] # "SUSPEND" /\ k'.stat[k'.cur] = "RUNNING"
    BY <1>1, <1>7
  <2> QED
    BY <1>1, <1>2, <1>3, <2>1, <2>2, <2>3, MovesPc DEF Base
<1>9. ObjPc' /\ Still(ObjPoint \ (PlainPoint \cup WqPoint))
  BY <1>1, <1>2, <1>3, MoveStill DEF ObjPoint, PlainPoint, WqPoint, WorkerPoint
<1>10. Base'
  BY <1>6, <1>8, <1>9 DEF Base
<1>11. \A o \in Obj : Untouched(o)
  BY <1>3, <1>6, ShiftUntouched DEF Base
<1>12. WqInv'
  <2>1. /\ WqExact(wq) /\ WorkerInStep
        /\ \A t \in Thread : pc[t].at = "dw_stop" => Stopping(t, wq.list)
        /\ \A u \in Thread : Linked(k, u, WqSem) => wq.cur # Null \/ pc[Worker].at = "wq_ack"
    BY WqParts
  <2>2. WorkerInStep'
    BY <1>1, <1>2, <1>4, <1>7, <2>1 DEF WorkerInStep
  <2>3. WorkerAwake'
    BY <1>1, <1>7 DEF WorkerAwake
  <2>4. \A t \in Thread : pc'[t].at = "dw_stop" => Stopping(t, wq.list)'
    BY <1>1, <1>2, <1>4, <2>1 DEF Stopping
  <2>5. \A u \in Thread : Linked(k', u, WqSem) => wq'.cur # Null \/ pc'[Worker].at = "wq_ack"
    BY <1>1, <2>1 DEF WorkerInStep
  <2> QED
    BY <1>1, <1>10, <2>1, <2>2, <2>3, <2>4, <2>5, WqNext
<1> QED
  BY <1>1, <1>9, <1>10, <1>11, <1>12 DEF WqKept

\* suspends itself when it is empty,
LEMMA WorkerSuspendKept ==
    ASSUME WqBase, WorkerSuspend
    PROVE  WqKept
<1>1. /\ k.cur = Worker /\ pc[Worker].at = "wq_suspend" /\ wq' = wq
      /\ k' = rt_thread_suspend(k, Worker) /\ Goto(Worker, "take_sched", Worker)
      /\ UNCHANGED <<isr, dead, fault, waiting>>
  BY DEF WorkerSuspend, Is
<1>2. /\ Base /\ Worker \in Thread /\ Worker # Idle /\ Worker \notin Obj
      /\ Good(k, {}) /\ isr' \in Isr /\ dead' \subseteq Obj /\ fault' \in BOOLEAN
  BY <1>1, BaseSpec, ObjectsConstants DEF WqBase
<1>3. k.stat[Worker] = "RUNNING"
  BY <1>1, <1>2, Runs DEF Base
<1>4. PICK m : m = rt_thread_suspend(k, Worker)
  OBVIOUS
<1>5. Suspends(k, m, Worker, Worker)
  BY <1>1, <1>2, <1>3, <1>4, SuspendBlocks
<1>6. IpcInv' /\ WaitersClean' /\ Joins(Worker, Worker)
  <2>1. pc[Worker].at \notin TakePoint \cup {"sleep_sched"} /\ k' = m
    BY <1>1, <1>4 DEF TakePoint
  <2> QED
    BY <1>1, <1>2, <1>5, <2>1, BlocksJoins DEF Base
<1>7. ObjPc' /\ Still(ObjPoint \ (PlainPoint \cup WqPoint))
  BY <1>1, <1>2, MoveStill DEF ObjPoint, PlainPoint, WqPoint, WorkerPoint
<1>8. \A o \in Obj : Untouched(o)
  BY <1>2, <1>6, JoinsUntouched
<1>9. /\ pc'[Worker].at = "take_sched" /\ pc'[Worker].arg = Worker
      /\ \A u \in Thread \ {Worker} : pc'[u] = pc[u]
  BY <1>1, <1>2, GotoPc DEF Base
<1>10. Base'
  BY <1>6, <1>7 DEF Base
<1>11. WqInv'
  <2>1. /\ WqExact(wq) /\ WorkerInStep
        /\ \A t \in Thread : pc[t].at = "dw_stop" => Stopping(t, wq.list)
        /\ \A u \in Thread : Linked(k, u, WqSem) => wq.cur # Null \/ pc[Worker].at = "wq_ack"
    BY WqParts
  <2>2. WorkerInStep' /\ WorkerAwake'
    BY <1>1, <1>9, <2>1 DEF WorkerInStep, WorkerAwake
  <2>3. \A t \in Thread : pc'[t].at = "dw_stop" => Stopping(t, wq.list)'
    BY <1>1, <1>9, <2>1 DEF Stopping
  <2>4. \A u \in Thread : Linked(k', u, WqSem) => Linked(k, u, WqSem)
    BY <1>2, <1>6, ObjectsConstants DEF Joins
  <2>5. \A u \in Thread : Linked(k', u, WqSem) => wq'.cur # Null \/ pc'[Worker].at = "wq_ack"
    BY <1>1, <2>1, <2>4 DEF WorkerInStep
  <2> QED
    BY <1>1, <1>10, <2>1, <2>2, <2>3, <2>5, WqNext
<1> QED
  BY <1>1, <1>7, <1>8, <1>10, <1>11 DEF WqKept

\* takes a work,
LEMMA WorkerTakeKept ==
    ASSUME WqBase, WorkerTake
    PROVE  WqKept
<1>1. /\ k.cur = Worker /\ pc[Worker].at = "take_ret" /\ k' = k
      /\ Goto(Worker, "wq_do", Worker) /\ UNCHANGED <<isr, dead, fault, waiting>>
  BY DEF WorkerTake, Is
<1>2. /\ Base /\ Worker \in Thread /\ Worker # Idle /\ Worker \notin Obj /\ WqSem \in Obj
      /\ pc[Worker].arg = Worker
      /\ isr' \in Isr /\ dead' \subseteq Obj /\ fault' \in BOOLEAN
  BY <1>1, BaseSpec, ObjectsConstants DEF WqBase, Base, ObjPc
<1>3. k.stat[Worker] = "RUNNING"
  BY <1>1, <1>2, Runs DEF Base
<1>4. Keeps({WqSem}, WqPoint) /\ Shift({}, "EOK", {Worker})
  <2>1. /\ "wq_do" \in ObjPoint /\ "wq_do" \in PlainPoint \cup WqPoint /\ "wq_do" \notin TakePoint
        /\ ArgIsObject([at |-> "wq_do", arg |-> Worker])
        /\ \A o \in Obj \ {WqSem} : pc[Worker].arg # o
        /\ "wq_do" \in WorkerPoint
    BY <1>2 DEF ObjPoint, PlainPoint, WqPoint, TakePoint, ArgIsObject, WorkerPoint
  <2> QED
    BY <1>1, <1>2, <2>1, ReturnKeeps
<1>5. /\ pc'[Worker].at = "wq_do" /\ \A u \in Thread \ {Worker} : pc'[u] = pc[u]
  BY <1>1, <1>2, GotoPc DEF Base
<1>6. /\ WqExact(wq) /\ WorkerInStep
      /\ \A t \in Thread : pc[t].at = "dw_stop" => Stopping(t, wq.list)
      /\ \A u \in Thread : Linked(k, u, WqSem) => wq.cur # Null \/ pc[Worker].at = "wq_ack"
  BY WqParts
<1>7. WqExact(wq') /\ ToSet(wq'.list) \subseteq ToSet(wq.list)
  <2>1. CASE wq.list # << >>
    <3>1. wq' = [wq EXCEPT !.list = Tail(@), !.cur = Head(wq.list),
                           !.pending = @ \ {Head(wq.list)}]
      BY <2>1 DEF WorkerTake
    <3> QED
      BY <1>6, <2>1, <3>1, TakesExact
  <2>2. CASE wq.list = << >>
    <3>1. PICK s : s = TRUE
      OBVIOUS
    <3>2. wq' = [wq EXCEPT !.stray = s]
      BY <2>2, <3>1 DEF WorkerTake
    <3>3. PICK l, c, p, a, b, x :
            /\ l = wq.list /\ c = wq.cur /\ p = wq.pending /\ a = wq.armed
            /\ b = wq.attached /\ x = wq.cancelled
      OBVIOUS
    <3>4. wq' = Queue(wq.list, c, p, a, b, s, x)
      BY <1>6, <3>2, <3>3 DEF WqExact, WqType, Queue
    <3>5. WqExact(wq') /\ wq'.list = wq.list
      <4>1. Exact(wq.list, c, p, a, b, wq.stray, x)
        BY <1>6, <3>3, WqFields DEF WqExact
      <4>2. Exact(wq.list, c, p, a, b, s, x)
        BY <3>1, <4>1 DEF Exact
      <4> QED
        BY <3>4, <4>2, QueueExact
    <3> QED
      BY <3>5
  <2> QED
    BY <2>1, <2>2
<1>8. WqInv'
  <2>1. WorkerInStep' /\ WorkerAwake'
    BY <1>1, <1>3, <1>5 DEF WorkerInStep, WorkerAwake
  <2>2. \A t \in Thread : pc'[t].at = "dw_stop" => Stopping(t, wq.list)'
    BY <1>5, <1>6, <1>7 DEF Stopping
  <2>3. \A u \in Thread : ~Linked(k', u, WqSem)
    BY <1>1, <1>6 DEF WorkerInStep
  <2> QED
    BY <1>4, <1>7, <2>1, <2>2, <2>3, WqNext DEF Keeps
<1> QED
  BY <1>1, <1>4, <1>8 DEF WqKept, Keeps

\* executes it,
LEMMA WorkerDoneKept ==
    ASSUME WqBase, WorkerDone
    PROVE  WqKept
<1>1. /\ k.cur = Worker /\ pc[Worker].at = "wq_do" /\ k' = k /\ wq' = [wq EXCEPT !.cur = Null]
      /\ Goto(Worker, "wq_ack", Worker) /\ UNCHANGED <<isr, dead, fault, waiting>>
  BY DEF WorkerDone, Is
<1>2. /\ Base /\ Worker \in Thread /\ Worker # Idle
      /\ isr' \in Isr /\ dead' \subseteq Obj /\ fault' \in BOOLEAN
  BY <1>1, BaseSpec, ObjectsConstants DEF WqBase
<1>3. k.stat[Worker] = "RUNNING"
  BY <1>1, <1>2, Runs DEF Base
<1>4. Keeps({WqSem}, WqPoint)
  <2>1. /\ pc[Worker].at \in PlainPoint \cup WqPoint
        /\ pc[Worker].at \notin TakePoint \cup {"sleep_sched"}
        /\ "wq_ack" \in ObjPoint /\ "wq_ack" \in PlainPoint \cup WqPoint
        /\ "wq_ack" \notin TakePoint /\ "wq_ack" \in WorkerPoint
        /\ ArgIsObject([at |-> "wq_ack", arg |-> Worker])
    BY <1>1 DEF ObjPoint, PlainPoint, WqPoint, TakePoint, ArgIsObject, WorkerPoint
  <2> QED
    BY <1>1, <1>2, <2>1, MoveKeeps
<1>5. /\ pc'[Worker].at = "wq_ack" /\ \A u \in Thread \ {Worker} : pc'[u] = pc[u]
  BY <1>1, <1>2, GotoPc DEF Base
<1>6. /\ WqExact(wq) /\ WorkerInStep
      /\ \A t \in Thread : pc[t].at = "dw_stop" => Stopping(t, wq.list)
  BY WqParts
<1>7. WqExact(wq') /\ wq'.list = wq.list /\ wq'.cur = Null
  <2>1. PICK c : c = Null
    OBVIOUS
  <2>2. PICK p, a, b, s, x :
          p = wq.pending /\ a = wq.armed /\ b = wq.attached /\ s = wq.stray /\ x = wq.cancelled
    OBVIOUS
  <2>3. wq' = Queue(wq.list, c, p, a, b, s, x)
    BY <1>1, <1>6, <2>1, <2>2 DEF WqExact, WqType, Queue
  <2>4. Exact(wq.list, wq.cur, p, a, b, s, x)
    BY <1>6, <2>2, WqFields DEF WqExact
  <2>5. Exact(wq.list, c, p, a, b, s, x)
    BY <2>1, <2>4, NullApart DEF Exact
  <2> QED
    BY <2>1, <2>3, <2>5, QueueExact
<1>8. WqInv'
  <2>1. WorkerInStep' /\ WorkerAwake'
    BY <1>1, <1>3, <1>5, <1>7 DEF WorkerInStep, WorkerAwake
  <2>2. \A t \in Thread : pc'[t].at = "dw_stop" => Stopping(t, wq.list)'
    BY <1>5, <1>6, <1>7 DEF Stopping
  <2> QED
    BY <1>4, <1>5, <1>7, <2>1, <2>2, WqNext DEF Keeps
<1> QED
  BY <1>1, <1>4, <1>8 DEF WqKept, Keeps

\* and tells those that wait for its end.
LEMMA WorkerAckKept ==
    ASSUME WqBase, WorkerAck
    PROVE  WqKept
<1>1. /\ k.cur = Worker /\ pc[Worker].at = "wq_ack" /\ wq' = wq
      /\ Goto(Worker, "wq_check", Worker) /\ UNCHANGED <<isr, dead, fault, waiting>>
  BY DEF WorkerAck, Is
<1>2. /\ Base /\ Worker \in Thread /\ Worker # Idle /\ Good(k, {}) /\ WqSem \in Obj
      /\ isr' \in Isr /\ dead' \subseteq Obj /\ fault' \in BOOLEAN
  BY <1>1, BaseSpec, ObjectsConstants DEF WqBase
<1>3. k.stat[Worker] = "RUNNING"
  BY <1>1, <1>2, Runs DEF Base
<1>4. PICK W \in SUBSET Thread : W = {u \in Thread : Linked(k, u, WqSem)}
  OBVIOUS
<1>5. PICK m : m = SignalAll(k, k.q[WqSem])
  OBVIOUS
<1>6. k' = rt_schedule(m)
  BY <1>5 DEF WorkerAck, SignalAll
<1>7. Releases(k, m, W, "EOK")
  <2>1. k.q[WqSem] \in Seq(Thread)
    BY <1>2, LinkedCardinality
  <2>2. PICK c : Walk("signal", k, k.q[WqSem], Len(k.q[WqSem]), c) /\ m = c[Len(k.q[WqSem])]
    BY <1>5, <2>1, SignalWalk
  <2>3. Resuming("signal", WqSem, "EOK")
    BY DEF Resuming
  <2> QED
    BY <1>2, <1>4, <2>2, <2>3, WalkEmpties
<1>8. Keeps({WqSem}, WqPoint) /\ Shift(W, "EOK", {}) /\ Sleepers({})
  <2>1. /\ pc[Worker].at \in PlainPoint \cup WqPoint
        /\ pc[Worker].at \notin TakePoint \cup {"sleep_sched"}
        /\ "wq_check" \in ObjPoint /\ "wq_check" \in PlainPoint \cup WqPoint
        /\ "wq_check" \notin TakePoint /\ "wq_check" \in WorkerPoint
        /\ ArgIsObject([at |-> "wq_check", arg |-> Worker])
    BY <1>1 DEF ObjPoint, PlainPoint, WqPoint, TakePoint, ArgIsObject, WorkerPoint
  <2>2. \A u \in W : \A o \in Obj \ {WqSem} : ~Linked(k, u, o)
    BY <1>2, <1>4, OneObject
  <2> QED
    BY <1>1, <1>2, <1>6, <1>7, <2>1, <2>2, ThreadKeeps
<1>9. /\ pc'[Worker].at = "wq_check" /\ \A u \in Thread \ {Worker} : pc'[u] = pc[u]
  BY <1>1, <1>2, GotoPc DEF Base
<1>10. WqInv'
  <2>1. /\ WqExact(wq) /\ WorkerInStep
        /\ \A t \in Thread : pc[t].at = "dw_stop" => Stopping(t, wq.list)
    BY WqParts
  <2>2. k'.stat[Worker] # "SUSPEND"
    BY <1>2, <1>3, <1>8 DEF Sleepers
  <2>3. WorkerInStep' /\ WorkerAwake'
    BY <1>1, <1>9, <2>1, <2>2 DEF WorkerInStep, WorkerAwake
  <2>4. \A t \in Thread : pc'[t].at = "dw_stop" => Stopping(t, wq.list)'
    BY <1>1, <1>9, <2>1 DEF Stopping
  <2>5. \A u \in Thread : ~Linked(k', u, WqSem)
    BY <1>2, <1>4, <1>8 DEF Shift
  <2> QED
    BY <1>1, <1>8, <2>1, <2>3, <2>4, <2>5, WqNext DEF Keeps
<1> QED
  BY <1>1, <1>8, <1>10 DEF WqKept, Keeps

\* A call that only changes the queue and goes on
LEMMA WqCallKept ==
    ASSUME WqBase, NEW t \in User \ {Worker}, k.cur = t, k' = k,
           UNCHANGED <<isr, dead, fault, waiting>>,
           pc[t].at \in {"run", "dw_stop"},
           NEW at \in {"run", "wq_resume", "dw_stop"}, NEW arg, Goto(t, at, arg),
           at = "dw_stop" => \E w \in Delayed \ ToSet(wq'.list) : arg = w,
           WqExact(wq'), wq'.cur = wq.cur,
           \A u \in Thread : pc[u].at = "dw_stop" /\ u # t => Stopping(u, wq'.list),
           pc[Worker].at = "wq_suspend" => ToSet(wq'.list) \subseteq ToSet(wq.list),
           wq.cur # Null \/ at = "wq_resume" \/ ToSet(wq'.list) \subseteq ToSet(wq.list)
    PROVE  WqKept
<1>1. /\ Base /\ t \in Thread /\ t # Idle /\ t # Worker /\ Worker \in Thread /\ WqSem \in Obj
      /\ isr' \in Isr /\ dead' \subseteq Obj /\ fault' \in BOOLEAN
  BY BaseSpec, ObjectsConstants DEF WqBase, User
<1>2. Keeps({WqSem}, WqPoint) /\ Shift({}, "EOK", {})
  <2>1. /\ pc[t].at \in PlainPoint \cup WqPoint /\ pc[t].at \notin TakePoint \cup {"sleep_sched"}
        /\ at \in ObjPoint /\ at \in PlainPoint \cup WqPoint /\ at \notin TakePoint
        /\ ArgIsObject([at |-> at, arg |-> arg])
    BY DEF ObjPoint, PlainPoint, WqPoint, TakePoint, ArgIsObject
  <2> QED
    BY <1>1, <2>1, MoveKeeps
<1>3. /\ pc'[t].at = at /\ pc'[t].arg = arg /\ pc'[t] = [at |-> at, arg |-> arg]
      /\ \A u \in Thread \ {t} : pc'[u] = pc[u]
  BY <1>1, GotoPc, GotoAll DEF Base
<1>4. \A u \in Thread : pc'[u].at = "dw_stop" => Stopping(u, wq.list)'
  <2>1. ASSUME NEW u \in Thread \ {t}, pc'[u].at = "dw_stop" PROVE Stopping(u, wq.list)'
    BY <1>3, <2>1 DEF Stopping
  <2>2. ASSUME pc'[t].at = "dw_stop" PROVE Stopping(t, wq.list)'
    BY <1>3, <2>2 DEF Stopping
  <2> QED
    BY <2>1, <2>2
<1>5. \A u \in Thread : Linked(k', u, WqSem) => Linked(k, u, WqSem)
  BY <1>1, <1>2 DEF Shift
<1>6. \A u \in User : pc[u].at = "wq_resume" => pc'[u].at = "wq_resume"
  BY <1>3 DEF User
<1>7. wq.cur # Null \/ (\E u \in User : pc'[u].at = "wq_resume")
        \/ ToSet(wq'.list) \subseteq ToSet(wq.list)
  BY <1>3
<1>8. pc'[Worker] = pc[Worker] /\ Base'
  BY <1>1, <1>2, <1>3 DEF Keeps
<1>9. WqInv'
  BY <1>4, <1>5, <1>6, <1>7, <1>8, WqApplication
<1> QED
  BY <1>2, <1>9 DEF WqKept, Keeps

\* rt_workqueue_submit_work, rt_workqueue_critical_work and what submits a delayed work
LEMMA SubmitKept ==
    ASSUME WqBase, NEW t \in User \ {Worker}, k.cur = t, pc[t].at = "run", Quiet, k' = k,
           UNCHANGED <<isr, dead, fault, waiting>>,
           WqExact(wq'), wq'.cur = wq.cur,
           NEW w \in Work, ToSet(wq'.list) = ToSet(wq.list) \cup {w},
           \A u \in Thread : pc[u] # [at |-> "dw_stop", arg |-> w],
           Goto(t, IF wq.cur = Null THEN "wq_resume" ELSE "run", t)
    PROVE  WqKept
<1>1. PICK at \in {"run", "wq_resume", "dw_stop"} :
        at = IF wq.cur = Null THEN "wq_resume" ELSE "run"
  OBVIOUS
<1>2. Goto(t, at, t) /\ at # "dw_stop"
  BY <1>1
<1>3. pc[Worker].at # "wq_suspend"
  BY DEF WqBase, Quiet
<1>4. wq.cur # Null \/ at = "wq_resume"
  BY <1>1
<1>5. \A u \in Thread : pc[u].at = "dw_stop" /\ u # t => Stopping(u, wq'.list)
  <2>1. ASSUME NEW u \in Thread, pc[u].at = "dw_stop" PROVE Stopping(u, wq'.list)
    <3>1. PICK v \in Delayed \ ToSet(wq.list) : pc[u] = [at |-> "dw_stop", arg |-> v]
      BY <2>1, WqParts DEF Stopping
    <3>2. v # w
      BY <3>1
    <3> QED
      BY <3>1, <3>2 DEF Stopping
  <2> QED
    BY <2>1
<1> QED
  BY <1>2, <1>3, <1>4, <1>5, WqCallKept

\* Nobody stops the timer of a work that no delayed work is, or that is not shared.
LEMMA NotStopping ==
    ASSUME WqBase, NEW w, w \notin Delayed \/ Unshared(w)
    PROVE  \A u \in Thread : pc[u] # [at |-> "dw_stop", arg |-> w]
<1>1. ASSUME NEW u \in Thread, pc[u] = [at |-> "dw_stop", arg |-> w] PROVE FALSE
  <2>1. pc[u].at = "dw_stop" /\ pc[u].arg = w
    BY <1>1
  <2>2. PICK v \in Delayed : pc[u] = [at |-> "dw_stop", arg |-> v]
    BY <2>1, WqParts DEF Stopping
  <2>3. v = w
    BY <2>1, <2>2
  <2>4. u \in User
    BY <2>1 DEF WqBase, Base, ObjPc, User
  <2> QED
    BY <1>1, <2>2, <2>3, <2>4 DEF Unshared, WqBase
<1> QED
  BY <1>1

\* rt_workqueue_submit_work and rt_workqueue_critical_work
LEMMA SubmitWorkKept ==
    ASSUME WqBase, NEW t \in User \ {Worker}, NEW w \in Work \ Delayed,
           SubmitWork(t, w) \/ CriticalWork(t, w)
    PROVE  WqKept
<1>1. /\ k.cur = t /\ pc[t].at = "run" /\ Quiet /\ k' = k /\ wq.cur # w
      /\ UNCHANGED <<isr, dead, fault, waiting>>
      /\ Goto(t, IF wq.cur = Null THEN "wq_resume" ELSE "run", t)
  BY DEF SubmitWork, Submit, CriticalWork, Calls, Is, Submittable
<1>2. WqExact(wq)
  BY WqParts
<1>3. PICK p \in {wq.pending, wq.pending \cup {w}} :
        wq' = [wq EXCEPT !.list = Append(RemoveFirst(@, w), w), !.pending = p,
                         !.cancelled = @ \ {w}]
  <2>1. CASE SubmitWork(t, w)
    BY <2>1 DEF SubmitWork, Submit, Queued
  <2>2. CASE CriticalWork(t, w)
    <3>1. wq' = [wq EXCEPT !.list = Append(RemoveFirst(@, w), w), !.cancelled = @ \ {w}]
      BY <2>2 DEF CriticalWork
    <3>2. wq.pending = wq.pending /\ wq = [wq EXCEPT !.pending = wq.pending]
      BY <1>2 DEF WqExact, WqType
    <3> QED
      BY <1>2, <3>1 DEF WqExact, WqType
  <2> QED
    BY <2>1, <2>2
<1>4. PICK a, b : a = wq.armed /\ b = wq.attached
  OBVIOUS
<1>5. /\ wq' = Enqueued(wq, w, p, a, b)
      /\ a \subseteq wq.armed /\ b \subseteq Delayed
  BY <1>2, <1>3, <1>4 DEF WqExact, WqType, Enqueued
<1>6. WqExact(wq') /\ ToSet(wq'.list) = ToSet(wq.list) \cup {w} /\ wq'.cur = wq.cur
  <2>1. Fit(wq, w, p, a, b)
    BY <1>1, <1>5 DEF Fit
  <2> QED
    BY <1>2, <1>5, <2>1, QueuesExact
<1>7. w \in Work /\ \A u \in Thread : pc[u] # [at |-> "dw_stop", arg |-> w]
  BY NotStopping
<1> QED
  BY <1>1, <1>6, <1>7, SubmitKept

\* _workqueue_submit_delayed_work without a delay
LEMMA DelayedNowKept ==
    ASSUME WqBase, NEW t \in User \ {Worker}, NEW w \in Delayed, DelayedNow(t, w)
    PROVE  WqKept
<1>1. /\ k.cur = t /\ pc[t].at = "run" /\ Quiet /\ k' = k /\ Unshared(w)
      /\ UNCHANGED <<isr, dead, fault, waiting>>
  BY DEF DelayedNow, Calls, Is
<1>2. WqExact(wq) /\ w \in Work
  BY WqParts, WorkQueueAssumption
<1>3. PICK a, b : a = wq.armed /\ b = wq.attached \cup {w}
  OBVIOUS
<1>4. CASE Submittable(w)
  <2>1. PICK p : p = wq.pending \cup {w}
    OBVIOUS
  <2>2. /\ wq' = Enqueued(wq, w, p, a, b)
        /\ a \subseteq wq.armed /\ b \subseteq Delayed
    <3>1. wq' = [Queued(w) EXCEPT !.attached = @ \cup {w}]
      BY <1>4 DEF DelayedNow
    <3>2. PICK l : l = Append(RemoveFirst(wq.list, w), w)
      OBVIOUS
    <3>3. Queued(w) = [wq EXCEPT !.list = l, !.pending = p, !.cancelled = @ \ {w}]
      BY <2>1, <3>2 DEF Queued
    <3>4. wq' = [wq EXCEPT !.list = l, !.pending = p, !.armed = a, !.attached = b,
                           !.cancelled = @ \ {w}]
      BY <1>2, <1>3, <3>1, <3>3 DEF WqExact, WqType
    <3>5. a \subseteq wq.armed /\ b \subseteq Delayed
      BY <1>2, <1>3 DEF WqExact, WqType
    <3> QED
      BY <3>2, <3>4, <3>5 DEF Enqueued
  <2>3. Fit(wq, w, p, a, b)
    BY <1>2, <1>4, <2>1, <2>2 DEF Submittable, Fit
  <2>4. WqExact(wq') /\ ToSet(wq'.list) = ToSet(wq.list) \cup {w} /\ wq'.cur = wq.cur
    BY <1>2, <2>2, <2>3, QueuesExact
  <2>5. \A u \in Thread : pc[u] # [at |-> "dw_stop", arg |-> w]
    BY <1>1, NotStopping
  <2>6. Goto(t, IF wq.cur = Null THEN "wq_resume" ELSE "run", t)
    BY <1>4 DEF DelayedNow
  <2> QED
    BY <1>1, <1>2, <2>4, <2>5, <2>6, SubmitKept
<1>5. CASE ~Submittable(w)
  <2>1. wq' = [wq EXCEPT !.attached = b] /\ Goto(t, "run", t)
    BY <1>3, <1>5 DEF DelayedNow
  <2>2. PICK l, c, p, s, x :
          l = wq.list /\ c = wq.cur /\ p = wq.pending /\ s = wq.stray /\ x = wq.cancelled
    OBVIOUS
  <2>3. wq' = Queue(l, c, p, a, b, s, x)
    BY <1>2, <1>3, <2>1, <2>2 DEF WqExact, WqType, Queue
  <2>4. Exact(l, c, p, a, wq.attached, s, x)
    BY <1>2, <1>3, <2>2, WqFields DEF WqExact
  <2>5. Exact(l, c, p, a, b, s, x)
    BY <1>3, <2>4 DEF Exact
  <2>6. WqExact(wq') /\ wq'.list = wq.list /\ wq'.cur = wq.cur
    BY <2>2, <2>3, <2>5, QueueExact
  <2>7. \A u \in Thread : pc[u].at = "dw_stop" => Stopping(u, wq'.list)
    BY <2>6, WqParts
  <2> QED
    BY <1>1, <2>1, <2>6, <2>7, WqCallKept
<1> QED
  BY <1>4, <1>5

\* A submitter resumes the worker, which is then no longer suspended.
LEMMA ResumesWorker ==
    ASSUME Base, NEW m, m = rt_thread_resume(k, Worker)
    PROVE  \E W \in SUBSET {Worker} :
             /\ Releases(k, m, W, "EOK") /\ (k.stat[Worker] = "SUSPEND" => Worker \in W)
             /\ \A u \in W : \A o \in Obj : ~Linked(k, u, o)
<1>1. Good(k, {}) /\ Worker \in Thread /\ Worker \notin Obj /\ pc[Worker].arg = Worker
  BY BaseSpec, ObjectsConstants DEF Base, ObjPc
<1>2. \A o \in Obj : ~Linked(k, Worker, o)
  BY <1>1, OneObject DEF Taking
<1>3. CASE k.stat[Worker] = "SUSPEND"
  <2>1. Releases(k, m, {Worker}, "EOK")
    BY <1>1, <1>3, ReleasesOne
  <2> QED
    BY <1>2, <2>1
<1>4. CASE k.stat[Worker] # "SUSPEND"
  <2>1. m = k
    BY <1>4 DEF rt_thread_resume
  <2>2. Releases(k, m, {}, "EOK")
    BY <1>1, <2>1, ReleasesNone
  <2> QED
    BY <1>4, <2>2
<1> QED
  BY <1>3, <1>4

\* The submitter resumes the worker if it is suspended.
LEMMA ResumeWorkerKept ==
    ASSUME WqBase, NEW t \in User \ {Worker}, ResumeWorker(t)
    PROVE  WqKept
<1>1. /\ k.cur = t /\ pc[t].at = "wq_resume" /\ wq' = wq /\ t \in Thread /\ t # Idle
      /\ Goto(t, "sched", t) /\ UNCHANGED <<isr, dead, fault, waiting>>
  BY DEF ResumeWorker, Is, User
<1>2. /\ Base /\ Worker \in Thread /\ WqSem \in Obj
      /\ isr' \in Isr /\ dead' \subseteq Obj /\ fault' \in BOOLEAN
  BY <1>1, BaseSpec, ObjectsConstants DEF WqBase
<1>3. PICK m : m = rt_thread_resume(k, Worker)
  OBVIOUS
<1>4. k' = m
  BY <1>3 DEF ResumeWorker
<1>5. PICK W \in SUBSET {Worker} :
        /\ Releases(k, m, W, "EOK") /\ (k.stat[Worker] = "SUSPEND" => Worker \in W)
        /\ \A u \in W : \A o \in Obj : ~Linked(k, u, o)
  BY <1>2, <1>3, ResumesWorker
<1>6. Keeps({WqSem}, WqPoint) /\ Shift(W, "EOK", {})
  <2>1. /\ pc[t].at \in PlainPoint \cup WqPoint /\ pc[t].at \notin TakePoint \cup {"sleep_sched"}
        /\ "sched" \in ObjPoint /\ "sched" \in PlainPoint \cup WqPoint /\ "sched" \notin TakePoint
        /\ ArgIsObject([at |-> "sched", arg |-> t])
    BY <1>1 DEF ObjPoint, PlainPoint, WqPoint, TakePoint, ArgIsObject
  <2>2. W \in SUBSET Thread
    BY <1>2, <1>5
  <2> QED
    BY <1>1, <1>2, <1>4, <1>5, <2>1, <2>2, ThreadKeeps
<1>7. k'.stat[Worker] # "SUSPEND"
  BY <1>2, <1>4, <1>5 DEF Releases, LosesAll
<1>8. /\ pc'[t].at = "sched" /\ \A u \in Thread \ {t} : pc'[u] = pc[u]
  BY <1>1, <1>2, GotoPc DEF Base
<1>9. WqInv'
  <2>1. /\ WqExact(wq) /\ \A u \in Thread : pc[u].at = "dw_stop" => Stopping(u, wq.list)
    BY WqParts
  <2>2. \A u \in Thread : pc'[u].at = "dw_stop" => Stopping(u, wq.list)'
    BY <1>1, <1>8, <2>1 DEF Stopping
  <2>3. \A u \in Thread : Linked(k', u, WqSem) => Linked(k, u, WqSem)
    BY <1>2, <1>6 DEF Shift
  <2>4. pc'[Worker] = pc[Worker] /\ Base'
    BY <1>2, <1>6, <1>8 DEF Keeps
  <2> QED
    BY <1>1, <1>7, <2>1, <2>2, <2>3, <2>4, WqApplication
<1> QED
  BY <1>1, <1>6, <1>9 DEF WqKept, Keeps

\* A call that only takes something out of the queue, or only concerns the timers
LEMMA WqStayKept ==
    ASSUME WqBase, UNCHANGED <<kernel, waiting>>, WqExact(wq'), wq'.cur = wq.cur,
           ToSet(wq'.list) \subseteq ToSet(wq.list)
    PROVE  WqKept
<1>1. /\ Base /\ UNCHANGED <<k, isr, pc, dead, fault, waiting>> /\ WqSem \in Obj
      /\ isr' \in Isr /\ dead' \subseteq Obj /\ fault' \in BOOLEAN
  BY BaseSpec, ObjectsConstants DEF WqBase, kernel
<1>2. Keeps({WqSem}, WqPoint)
  BY <1>1, StayKeeps
<1>3. \A u \in Thread : pc'[u].at = "dw_stop" => Stopping(u, wq.list)'
  BY <1>1, WqParts DEF Stopping
<1>4. WqInv'
  BY <1>1, <1>2, <1>3, WqApplication DEF Keeps
<1> QED
  BY <1>1, <1>2, <1>4 DEF WqKept, Keeps

\* The cancels of a work that is not being executed
LEMMA CancelKept ==
    ASSUME WqBase, NEW t \in User \ {Worker}, NEW w \in Work \ Delayed,
           CancelWork(t, w) \/ CancelSync(t, w)
    PROVE  WqKept
<1>1. UNCHANGED <<kernel, waiting>> /\ wq' = Removed(w)
  BY DEF CancelWork, CancelSync
<1>2. WqExact(wq) /\ w \in Work /\ w \notin wq.armed
  BY WqParts DEF WqExact, WqType
<1>3. wq' = [wq EXCEPT !.list = RemoveFirst(@, w), !.pending = @ \ {w},
                       !.cancelled = @ \cup {w}]
  BY <1>1 DEF Removed
<1>4. WqExact(wq') /\ ToSet(wq'.list) = ToSet(wq.list) \ {w} /\ wq'.cur = wq.cur
  BY <1>2, <1>3, RemovesExact
<1> QED
  BY <1>1, <1>4, WqStayKept

\* The start of the timer of a delayed work
LEMMA DelayedStartKept ==
    ASSUME WqBase, NEW t \in User \ {Worker}, NEW w \in Delayed, DelayedStart(t, w)
    PROVE  WqKept
<1>1. /\ UNCHANGED <<kernel, waiting>>
      /\ wq' = [wq EXCEPT !.attached = @ \cup {w}, !.armed = @ \cup {w}, !.cancelled = @ \ {w}]
  BY DEF DelayedStart
<1>2. WqExact(wq)
  BY WqParts
<1>3. PICK l, c, p, a, b, s, x :
        /\ l = wq.list /\ c = wq.cur /\ p = wq.pending /\ a = wq.armed \cup {w}
        /\ b = wq.attached \cup {w} /\ s = wq.stray /\ x = wq.cancelled \ {w}
  OBVIOUS
<1>4. wq' = Queue(l, c, p, a, b, s, x)
  BY <1>1, <1>2, <1>3 DEF WqExact, WqType, Queue
<1>5. Exact(l, c, p, wq.armed, wq.attached, s, wq.cancelled)
  BY <1>2, <1>3, WqFields DEF WqExact
<1>6. Exact(l, c, p, a, b, s, x)
  BY <1>3, <1>5 DEF Exact
<1>7. WqExact(wq') /\ wq'.list = wq.list /\ wq'.cur = wq.cur
  BY <1>3, <1>4, <1>6, QueueExact
<1> QED
  BY <1>1, <1>7, WqStayKept

\* The cancel of a delayed work, up to the stop of the timer
LEMMA DelayedCancelKept ==
    ASSUME WqBase, NEW t \in User \ {Worker}, NEW w \in Delayed, DelayedCancel(t, w)
    PROVE  WqKept
<1>1. /\ k.cur = t /\ pc[t].at = "run" /\ k' = k /\ wq' = wq /\ w \notin wq.pending
      /\ Goto(t, "dw_stop", w) /\ UNCHANGED <<isr, dead, fault, waiting>>
  BY DEF DelayedCancel, Calls, Is
<1>2. WqExact(wq) /\ \A u \in Thread : pc[u].at = "dw_stop" => Stopping(u, wq.list)
  BY WqParts
<1>3. w \in Delayed \ ToSet(wq'.list)
  BY <1>1, <1>2 DEF WqExact
<1>4. PICK at \in {"run", "wq_resume", "dw_stop"} : at = "dw_stop"
  OBVIOUS
<1>5. /\ Goto(t, at, w) /\ pc[t].at \in {"run", "wq_resume", "dw_stop"}
      /\ WqExact(wq') /\ wq'.cur = wq.cur /\ ToSet(wq'.list) \subseteq ToSet(wq.list)
      /\ \A u \in Thread : pc[u].at = "dw_stop" /\ u # t => Stopping(u, wq'.list)
  BY <1>1, <1>2, <1>4
<1> QED
  BY <1>1, <1>3, <1>5, WqCallKept

\* and from there on
LEMMA DelayedStopKept ==
    ASSUME WqBase, NEW t \in User \ {Worker}, DelayedStop(t)
    PROVE  WqKept
<1>1. PICK w : w = pc[t].arg
  OBVIOUS
<1>2. /\ k.cur = t /\ pc[t].at = "dw_stop" /\ k' = k /\ t \in Thread
      /\ wq' = [wq EXCEPT !.armed = @ \ {w}, !.attached = @ \ {w}, !.pending = @ \ {w},
                          !.cancelled = @ \cup {w}]
      /\ Goto(t, "run", t) /\ UNCHANGED <<isr, dead, fault, waiting>>
  BY <1>1 DEF DelayedStop, Is, User
<1>3. WqExact(wq) /\ \A u \in Thread : pc[u].at = "dw_stop" => Stopping(u, wq.list)
  BY WqParts
<1>4. w \in Delayed \ ToSet(wq.list) /\ w \in Work
  <2>1. PICK v \in Delayed \ ToSet(wq.list) : pc[t] = [at |-> "dw_stop", arg |-> v]
    BY <1>2, <1>3 DEF Stopping
  <2> QED
    BY <1>1, <2>1, WorkQueueAssumption
<1>5. PICK l, c, p, a, b, s, x :
        /\ l = wq.list /\ c = wq.cur /\ p = wq.pending \ {w} /\ a = wq.armed \ {w}
        /\ b = wq.attached \ {w} /\ s = wq.stray /\ x = wq.cancelled \cup {w}
  OBVIOUS
<1>6. wq' = Queue(l, c, p, a, b, s, x)
  BY <1>2, <1>3, <1>5 DEF WqExact, WqType, Queue
<1>7. Exact(l, c, wq.pending, wq.armed, wq.attached, s, wq.cancelled)
  BY <1>3, <1>5, WqFields DEF WqExact
<1>8. Exact(l, c, p, a, b, s, x)
  BY <1>4, <1>5, <1>7 DEF Exact
<1>9. WqExact(wq') /\ wq'.list = wq.list /\ wq'.cur = wq.cur
  BY <1>5, <1>6, <1>8, QueueExact
<1>10. \A u \in Thread : pc[u].at = "dw_stop" /\ u # t => Stopping(u, wq'.list)
  BY <1>3, <1>9
<1> QED
  BY <1>2, <1>9, <1>10, WqCallKept

\* The timer of a delayed work expires.
LEMMA DelayedTimeoutKept ==
    ASSUME WqBase, NEW w \in Delayed, DelayedTimeout(w)
    PROVE  WqKept
<1>1. /\ Unshared(w) /\ Quiet /\ w \in wq.armed
      /\ UNCHANGED <<isr, pc, dead, fault, waiting>>
  BY DEF DelayedTimeout
<1>2. /\ Base /\ Worker \in Thread /\ WqSem \in Obj /\ w \in Work
      /\ isr' \in Isr /\ dead' \subseteq Obj /\ fault' \in BOOLEAN
  BY <1>1, BaseSpec, ObjectsConstants, WorkQueueAssumption DEF WqBase
<1>3. /\ WqExact(wq) /\ \A u \in Thread : pc[u].at = "dw_stop" => Stopping(u, wq.list)
  BY WqParts
<1>4. PICK a, b : a = wq.armed \ {w} /\ b = wq.attached
  OBVIOUS
<1>5. pc[Worker].at # "wq_suspend" /\ pc'[Worker] = pc[Worker]
  BY <1>1 DEF WqBase, Quiet
<1>6. CASE Submittable(w)
  <2>1. PICK p : p = wq.pending \cup {w}
    OBVIOUS
  <2>2. wq' = Enqueued(wq, w, p, a, b) /\ Fit(wq, w, p, a, b)
    <3>1. wq' = [Queued(w) EXCEPT !.armed = @ \ {w}]
      BY <1>6 DEF DelayedTimeout
    <3>2. PICK l : l = Append(RemoveFirst(wq.list, w), w)
      OBVIOUS
    <3>3. Queued(w) = [wq EXCEPT !.list = l, !.pending = p, !.cancelled = @ \ {w}]
      BY <2>1, <3>2 DEF Queued
    <3>4. wq' = [wq EXCEPT !.list = l, !.pending = p, !.armed = a, !.attached = b,
                           !.cancelled = @ \ {w}]
      BY <1>3, <1>4, <3>1, <3>3 DEF WqExact, WqType
    <3>5. a \subseteq wq.armed /\ b \subseteq Delayed
      BY <1>3, <1>4 DEF WqExact, WqType
    <3> QED
      BY <1>2, <1>6, <2>1, <3>2, <3>4, <3>5 DEF Enqueued, Fit, Submittable
  <2>3. WqExact(wq') /\ ToSet(wq'.list) = ToSet(wq.list) \cup {w} /\ wq'.cur = wq.cur
    BY <1>3, <2>2, QueuesExact
  <2>4. \A u \in Thread : pc'[u].at = "dw_stop" => Stopping(u, wq.list)'
    <3>1. ASSUME NEW u \in Thread, pc[u].at = "dw_stop" PROVE Stopping(u, wq'.list)
      <4>1. PICK v \in Delayed \ ToSet(wq.list) : pc[u] = [at |-> "dw_stop", arg |-> v]
        BY <1>3, <3>1 DEF Stopping
      <4>2. v # w
        BY <1>1, <4>1, NotStopping
      <4> QED
        BY <2>3, <4>1, <4>2 DEF Stopping
    <3> QED
      BY <1>1, <3>1 DEF Stopping
  <2>5. CASE wq.cur = Null
    <3>1. PICK m : m = rt_thread_resume(k, Worker)
      OBVIOUS
    <3>2. k' = rt_schedule(m)
      BY <1>6, <2>5, <3>1 DEF DelayedTimeout
    <3>3. PICK W \in SUBSET {Worker} :
            /\ Releases(k, m, W, "EOK") /\ (k.stat[Worker] = "SUSPEND" => Worker \in W)
            /\ \A u \in W : \A o \in Obj : ~Linked(k, u, o)
      BY <1>2, <3>1, ResumesWorker
    <3>4. W \in SUBSET Thread
      BY <1>2
    <3>5. Keeps({WqSem}, WqPoint) /\ Shift(W, "EOK", {})
      BY <1>1, <1>2, <3>2, <3>3, <3>4, HandlerKeeps
    <3>6. k'.stat[Worker] # "SUSPEND"
      <4>1. SameTaking
        BY <1>1 DEF SameTaking, Taking
      <4>2. LosesAll(k, k', W)
        BY <1>2, <3>2, <3>3, <4>1, ReleasesShift DEF Base
      <4> QED
        BY <1>2, <3>3, <4>2 DEF LosesAll
    <3>7. \A u \in Thread : Linked(k', u, WqSem) => Linked(k, u, WqSem)
      BY <1>2, <3>5 DEF Shift
    <3>8. WqInv'
      BY <1>5, <2>3, <2>4, <3>5, <3>6, <3>7, WqApplication DEF Keeps
    <3> QED
      BY <1>1, <3>5, <3>8 DEF WqKept, Keeps
  <2>6. CASE wq.cur # Null
    <3>1. k' = k
      BY <1>6, <2>6 DEF DelayedTimeout
    <3>2. Keeps({WqSem}, WqPoint)
      BY <1>1, <1>2, <3>1, StayKeeps
    <3>3. WqInv'
      BY <1>5, <2>3, <2>4, <2>6, <3>1, <3>2, WqApplication DEF Keeps
    <3> QED
      BY <1>1, <3>2, <3>3 DEF WqKept, Keeps
  <2> QED
    BY <2>5, <2>6
<1>7. CASE ~Submittable(w)
  <2>1. wq' = [wq EXCEPT !.armed = a] /\ k' = k
    BY <1>4, <1>7 DEF DelayedTimeout
  <2>2. PICK l, c, p, s, x :
          l = wq.list /\ c = wq.cur /\ p = wq.pending /\ s = wq.stray /\ x = wq.cancelled
    OBVIOUS
  <2>3. wq' = Queue(l, c, p, a, b, s, x)
    BY <1>3, <1>4, <2>1, <2>2 DEF WqExact, WqType, Queue
  <2>4. Exact(l, c, p, wq.armed, b, s, x)
    BY <1>3, <1>4, <2>2, WqFields DEF WqExact
  <2>5. Exact(l, c, p, a, b, s, x)
    BY <1>4, <2>4 DEF Exact
  <2>6. WqExact(wq') /\ wq'.list = wq.list /\ wq'.cur = wq.cur
    BY <2>2, <2>3, <2>5, QueueExact
  <2>7. UNCHANGED <<kernel, waiting>>
    BY <1>1, <2>1 DEF kernel
  <2> QED
    BY <2>6, <2>7, WqStayKept
<1> QED
  BY <1>6, <1>7

\* rt_workqueue_cancel_work_sync of the work that is being executed waits
LEMMA CancelSyncBlocksKept ==
    ASSUME WqBase, NEW t \in User \ {Worker}, NEW w \in Work, CancelSyncBlocks(t, w)
    PROVE  WqKept
<1>1. /\ k.cur = t /\ pc[t].at = "run" /\ t \in Thread /\ t # Idle /\ t # Worker
      /\ wq.cur = w /\ wq' = [wq EXCEPT !.pending = @ \ {w}]
      /\ k' = rt_schedule(SuspendSelfOn(k, WqSem, "FIFO", -1)) /\ Goto(t, "take_ret", WqSem)
      /\ UNCHANGED <<isr, dead, fault, waiting>>
  BY DEF CancelSyncBlocks, Calls, Is, User
<1>2. /\ Base /\ Good(k, {}) /\ WqSem \in Obj /\ Worker \in Thread
      /\ isr' \in Isr /\ dead' \subseteq Obj /\ fault' \in BOOLEAN
  BY <1>1, BaseSpec, ObjectsConstants DEF WqBase
<1>3. k.stat[t] = "RUNNING"
  BY <1>1, <1>2, Runs DEF Base
<1>4. PICK flag, time : flag = "FIFO" /\ time = -1
  OBVIOUS
<1>5. PICK m : m = SuspendSelfOn(k, WqSem, flag, time)
  OBVIOUS
<1>6. Suspends(k, m, t, WqSem)
  <2>1. time \in Int
    BY <1>4
  <2> QED
    BY <1>1, <1>2, <1>3, <1>5, <2>1, SuspendSelfBlocks
<1>7. Keeps({WqSem}, WqPoint) /\ Joins(t, WqSem)
  <2>1. pc[t].at \in {"run", "mp_loop"} /\ pc[t].at \in PlainPoint \cup WqPoint
        /\ WqSem \in {WqSem}
    BY <1>1 DEF PlainPoint
  <2>2. k' = rt_schedule(m) /\ Goto(t, "take_ret", WqSem)
    BY <1>1, <1>4, <1>5
  <2> QED
    BY <1>1, <1>2, <1>6, <2>1, <2>2, BlockKeeps
<1>8. /\ pc'[t].at = "take_ret" /\ \A u \in Thread \ {t} : pc'[u] = pc[u]
  BY <1>1, <1>2, GotoPc DEF Base
<1>9. /\ WqExact(wq) /\ \A u \in Thread : pc[u].at = "dw_stop" => Stopping(u, wq.list)
  BY WqParts
<1>10. WqExact(wq') /\ wq'.list = wq.list /\ wq'.cur = wq.cur
  <2>1. PICK l, c, p, a, b, s, x :
          /\ l = wq.list /\ c = wq.cur /\ p = wq.pending \ {w} /\ a = wq.armed
          /\ b = wq.attached /\ s = wq.stray /\ x = wq.cancelled
    OBVIOUS
  <2>2. wq' = Queue(l, c, p, a, b, s, x)
    BY <1>1, <1>9, <2>1 DEF WqExact, WqType, Queue
  <2>3. Exact(l, c, wq.pending, a, b, s, x)
    BY <1>9, <2>1, WqFields DEF WqExact
  <2>4. Exact(l, c, p, a, b, s, x)
    BY <1>1, <2>1, <2>3 DEF Exact
  <2> QED
    BY <2>1, <2>2, <2>4, QueueExact
<1>11. WqInv'
  <2>1. wq.cur # Null
    BY <1>1, WorkQueueAssumption
  <2>2. k'.stat[Worker] = "SUSPEND" => k.stat[Worker] = "SUSPEND"
    <3>1. pc[Worker].at \notin {"run", "mp_loop"}
      BY <1>2 DEF Base, ObjPc, WorkerPoint
    <3> QED
      BY <1>2, <1>7, <3>1 DEF Keeps, Sleepers
  <2>3. \A u \in Thread : pc'[u].at = "dw_stop" => Stopping(u, wq.list)'
    BY <1>8, <1>9, <1>10 DEF Stopping
  <2>4. pc'[Worker] = pc[Worker] /\ Base'
    BY <1>1, <1>2, <1>7, <1>8 DEF Keeps
  <2> QED
    BY <1>10, <2>1, <2>2, <2>3, <2>4, WqApplication
<1> QED
  BY <1>1, <1>7, <1>11 DEF WqKept, Keeps

\* and returns.
LEMMA CancelSyncReturnsKept ==
    ASSUME WqBase, NEW t \in User \ {Worker}, CancelSyncReturns(t)
    PROVE  WqKept
<1>1. /\ k.cur = t /\ pc[t].at = "take_ret" /\ pc[t].arg = WqSem /\ wq' = wq /\ k' = k
      /\ t \in Thread /\ t # Idle /\ t # Worker
      /\ Goto(t, "run", t) /\ UNCHANGED <<isr, dead, fault, waiting>>
  BY DEF CancelSyncReturns, Is, User
<1>2. /\ Base /\ WqSem \in Obj /\ Worker \in Thread
      /\ isr' \in Isr /\ dead' \subseteq Obj /\ fault' \in BOOLEAN
  BY <1>1, BaseSpec, ObjectsConstants DEF WqBase
<1>3. Keeps({WqSem}, WqPoint) /\ Shift({}, "EOK", {t})
  <2>1. /\ "run" \in ObjPoint /\ "run" \in PlainPoint \cup WqPoint /\ "run" \notin TakePoint
        /\ ArgIsObject([at |-> "run", arg |-> t]) /\ \A o \in Obj \ {WqSem} : pc[t].arg # o
    BY <1>1 DEF ObjPoint, PlainPoint, TakePoint, ArgIsObject
  <2> QED
    BY <1>1, <1>2, <2>1, ReturnKeeps
<1>4. /\ pc'[t].at = "run" /\ \A u \in Thread \ {t} : pc'[u] = pc[u]
  BY <1>1, <1>2, GotoPc DEF Base
<1>5. WqInv'
  <2>1. /\ WqExact(wq) /\ \A u \in Thread : pc[u].at = "dw_stop" => Stopping(u, wq.list)
    BY WqParts
  <2>2. \A u \in Thread : pc'[u].at = "dw_stop" => Stopping(u, wq.list)'
    BY <1>1, <1>4, <2>1 DEF Stopping
  <2>3. \A u \in User : pc[u].at = "wq_resume" => pc'[u].at = "wq_resume"
    BY <1>1, <1>4 DEF User
  <2>4. pc'[Worker] = pc[Worker] /\ Base'
    BY <1>1, <1>2, <1>3, <1>4 DEF Keeps
  <2> QED
    BY <1>1, <2>1, <2>2, <2>3, <2>4, WqApplication
<1> QED
  BY <1>1, <1>3, <1>5 DEF WqKept, Keeps

\* Every step of the work queue
LEMMA WqStepKept ==
    ASSUME WqBase, sys \in Systems, WqStep(sys.producer)
    PROVE  WqKept
<1>1. sys.producer \subseteq User \ {Worker}
  BY SystemUsers
<1>2. CASE WorkerCheck \/ WorkerSuspend \/ WorkerTake \/ WorkerDone \/ WorkerAck
  BY <1>2, WorkerCheckKept, WorkerSuspendKept, WorkerTakeKept, WorkerDoneKept, WorkerAckKept
<1>3. CASE \E t \in sys.producer, w \in Work \ Delayed :
              \/ SubmitWork(t, w) \/ CriticalWork(t, w) \/ CancelWork(t, w)
              \/ CancelSyncBlocks(t, w) \/ CancelSync(t, w)
  BY <1>1, <1>3, SubmitWorkKept, CancelKept, CancelSyncBlocksKept
<1>4. CASE \E t \in sys.producer, w \in Delayed :
              DelayedNow(t, w) \/ DelayedStart(t, w) \/ DelayedCancel(t, w)
  BY <1>1, <1>4, DelayedNowKept, DelayedStartKept, DelayedCancelKept
<1>5. CASE \E t \in sys.producer : ResumeWorker(t) \/ CancelSyncReturns(t) \/ DelayedStop(t)
  BY <1>1, <1>5, ResumeWorkerKept, CancelSyncReturnsKept, DelayedStopKept
<1>6. CASE \E w \in Delayed : DelayedTimeout(w)
  BY <1>6, DelayedTimeoutKept
<1> QED
  BY <1>2, <1>3, <1>4, <1>5, <1>6 DEF WqStep

-----------------------------------------------------------------------------
(* The steps of the heap, and those that do not depend on the objects       *)

\* A call of the heap moves nothing but the thread that makes it.
LEMMA HpStepKept ==
    ASSUME Base, sys \in Systems, HpStep(sys.consumer)
    PROVE  Keeps({}, HpPoint) /\ UNCHANGED <<dead, fault, waiting>>
<1>1. PICK t \in sys.consumer :
        \/ \E size \in Sizes :
            \/ HpMalloc(t, size)
            \/ \E p \in Mine : HpReallocInPlace(t, p, size) \/ HpReallocMoves(t, p, size)
        \/ \E p \in Mine : HpFree(t, p)
        \/ HpReallocMalloc(t) \/ HpReallocFree(t)
  BY DEF HpStep
<1>2. t \in Thread /\ t # Idle /\ t # Worker
  BY SystemUsers DEF User
<1>3. /\ Base /\ isr \in Isr /\ dead \subseteq Obj /\ fault \in BOOLEAN
      /\ {} \in SUBSET Obj
  BY BaseSpec
<1>4. CASE UNCHANGED <<kernel, waiting>>
  <2>1. k' = k /\ pc' = pc /\ UNCHANGED <<isr, dead, fault, waiting>>
    BY <1>4 DEF kernel
  <2> QED
    BY <1>3, <2>1, StayKeeps
<1>5. ASSUME NEW at \in HpPoint \cup {"run"}, NEW arg, Goto(t, at, arg),
             k.cur = t, pc[t].at \in HpPoint \cup {"run"},
             UNCHANGED <<k, isr, dead, fault, waiting>>
      PROVE  Keeps({}, HpPoint) /\ UNCHANGED <<dead, fault, waiting>>
  <2>1. /\ at \in ObjPoint /\ at \in PlainPoint \cup HpPoint /\ at \notin TakePoint
        /\ pc[t].at \in PlainPoint \cup HpPoint /\ pc[t].at \notin TakePoint \cup {"sleep_sched"}
        /\ ArgIsObject([at |-> at, arg |-> arg])
    BY <1>5 DEF ObjPoint, PlainPoint, HpPoint, TakePoint, ArgIsObject
  <2>2. Keeps({}, HpPoint)
    BY <1>2, <1>3, <1>5, <2>1, MoveKeeps
  <2> QED
    BY <1>5, <2>2
<1>6. CASE \/ \E size \in Sizes : \/ HpMalloc(t, size)
                                  \/ \E p \in Mine : HpReallocInPlace(t, p, size)
           \/ \E p \in Mine : HpFree(t, p)
  BY <1>4, <1>6 DEF HpMalloc, HpReallocInPlace, HpFree
<1>7. CASE \E size \in Sizes : \E p \in Mine : HpReallocMoves(t, p, size)
  <2>1. PICK size \in Sizes, p \in Mine : HpReallocMoves(t, p, size)
    BY <1>7
  <2> QED
    BY <1>5, <2>1 DEF HpReallocMoves, Calls, Is, HpPoint
<1>8. CASE HpReallocMalloc(t)
  BY <1>5, <1>8 DEF HpReallocMalloc, Is, HpPoint
<1>9. CASE HpReallocFree(t)
  BY <1>5, <1>9 DEF HpReallocFree, Is, HpPoint
<1> QED
  BY <1>1, <1>6, <1>7, <1>8, <1>9

\* The steps of module Ipc move threads within the plain points; those of a delete of
\* the event are named.
LEMMA IpcStepMoves ==
    ASSUME Base, IpcStep(Deletable)
    PROVE  \/ ObjPc' /\ Still(ObjPoint \ PlainPoint) /\ UNCHANGED <<dead, fault>>
           \/ \E t \in User : \/ Delete(t, Ev)
                              \/ WakeCheck(t)
                              \/ WakeOne(t)
<1>1. Deletable \subseteq {Ev}
  BY DEF Deletable
<1>2. CASE TickInterrupt /\ UNCHANGED <<dead, fault>>
  <2>1. pc' = pc
    BY <1>2 DEF TickInterrupt
  <2> QED
    BY <1>2, <2>1, SameStill
<1>3. ASSUME NEW t \in User, CallSchedule(t), UNCHANGED <<dead, fault>>
      PROVE  ObjPc' /\ Still(ObjPoint \ PlainPoint)
  <2>1. PICK at : at = After[pc[t].at]
    OBVIOUS
  <2>2. PICK arg : arg = pc[t].arg
    OBVIOUS
  <2>3. /\ pc[t].at \in {"sched", "sleep_sched", "take_sched", "exit_sched"}
        /\ Goto(t, at, arg) /\ t \in Thread /\ t # Idle
    BY <1>3, <2>1, <2>2 DEF CallSchedule, After, User
  <2>4. /\ pc[t].at \in ObjPoint
        /\ t = Worker => pc[t].at \in WorkerPoint /\ arg = Worker
    BY <2>2, <2>3 DEF Base, ObjPc
  <2>5. /\ pc[t].at \in {"sched", "sleep_sched", "take_sched"}
        /\ at \in {"run", "slept", "take_ret"}
        /\ t = Worker => at = "take_ret"
    BY <2>1, <2>3, <2>4
       DEF After, ObjPoint, PlainPoint, EvPoint, MpPoint, CpPoint, WqPoint, HpPoint, WorkerPoint
  <2>6. /\ at \in ObjPoint /\ pc[t].at \in PlainPoint \cup {} /\ at \in PlainPoint \cup {}
        /\ t = Worker => at \in WorkerPoint /\ arg = Worker
    BY <2>4, <2>5 DEF ObjPoint, PlainPoint, WorkerPoint
  <2>7. ObjPc' /\ Still(ObjPoint \ (PlainPoint \cup {}))
    BY ONLY Base, <2>3, <2>6, MoveStill
  <2> QED
    BY <2>7
<1>4. ASSUME NEW t \in User, Slept(t) \/ \E d \in Delays : Sleep(t, d)
      PROVE  ObjPc' /\ Still(ObjPoint \ PlainPoint)
  <2>1. PICK at \in {"run", "sleep_sched"} : Goto(t, at, t) /\ pc[t].at \in {"run", "slept"}
    BY <1>4 DEF Slept, Sleep, Calls, Is
  <2>2. t \in Thread /\ t # Idle /\ t # Worker
    BY <2>1 DEF User, Base, ObjPc, WorkerPoint
  <2>3. at \in ObjPoint /\ pc[t].at \in PlainPoint \cup {} /\ at \in PlainPoint \cup {}
    BY <2>1 DEF ObjPoint, PlainPoint
  <2>4. ObjPc' /\ Still(ObjPoint \ (PlainPoint \cup {}))
    BY <2>1, <2>2, <2>3, MoveStill
  <2> QED
    BY <2>4
<1>5. ASSUME NEW t \in User, NEW u \in User, NEW p \in Prio, Control(t, u, p)
      PROVE  ObjPc' /\ Still(ObjPoint \ PlainPoint) /\ UNCHANGED <<dead, fault>>
  BY <1>5, SameStill DEF Control
<1> QED
  BY <1>1, <1>2, <1>3, <1>4, <1>5 DEF IpcStep, SystemStep

\* What the steps of module Ipc keep
IpcKept ==
    /\ Base' /\ Calm(Ev) /\ (\A o \in Obj \ {Ev} : Untouched(o))
    /\ Still(ObjPoint \ (PlainPoint \cup EvPoint)) /\ Sleepers({"run"})
    /\ Emptied(Ev, "wake_check", "wake_one")'
    /\ dead' \in {dead, dead \cup {Ev}} /\ fault' = fault

\* They do: of the objects they touch the event only, in its delete.
LEMMA IpcStepKept ==
    ASSUME Base, DeletesInv, "delete_timed" \notin Ops, IpcStep(Deletable)
    PROVE  IpcKept
<1>1. /\ Ev \in Obj /\ Second[Ev] = Ev /\ IpcInv /\ WaitersClean /\ ObjPc
      /\ Deletable \in SUBSET Obj /\ User \subseteq Thread
  BY ObjectsConstants DEF Base, Deletable, User
<1>2. /\ Emptied(Ev, "wake_check", "wake_one") /\ ~fault
      /\ \A t \in Thread : pc[t].at \in {"wake_check", "wake_one"} => pc[t].arg = Ev
  BY DEF DeletesInv, Emptied
<1>3. IpcInv' /\ NoNewWaiter(k, k') /\ Steady /\ WaitersClean' /\ Sleepers({"run"})
  BY <1>1, IpcStepInv, IpcStepSteady, IpcStepAffects DEF Steady, IpcAffects
<1>4. Calm(Ev)
  BY <1>1, <1>3 DEF Calm, NoNewWaiter, Steady, SameTaking
<1>5. \A o \in Obj \ {Ev} : Untouched(o)
  BY <1>1, <1>2, IpcStepUntouched
<1>6. ASSUME NEW t \in User, NEW at \in {"wake_check", "wake_one", "run"}, NEW arg,
             Goto(t, at, arg), pc[t].at \in {"run", "wake_check", "wake_one"}
      PROVE  ObjPc' /\ Still(ObjPoint \ (PlainPoint \cup EvPoint))
  <2>1. t \in Thread /\ t # Idle /\ t # Worker
    BY <1>1, <1>6 DEF User, ObjPc, WorkerPoint
  <2>2. /\ at \in ObjPoint /\ at \in PlainPoint \cup EvPoint
        /\ pc[t].at \in PlainPoint \cup EvPoint
    BY <1>6 DEF ObjPoint, PlainPoint, EvPoint
  <2> QED
    BY <1>6, <2>1, <2>2, MoveStill
<1>7. CASE ObjPc' /\ Still(ObjPoint \ PlainPoint) /\ UNCHANGED <<dead, fault>>
  <2>1. Still({"wake_check", "wake_one"}) /\ Still(ObjPoint \ (PlainPoint \cup EvPoint))
    BY <1>7 DEF Still, ObjPoint, PlainPoint, EvPoint
  <2>2. Untouched(Ev)
    BY <1>1, <2>1, IpcStepUntouched DEF Still
  <2>3. Emptied(Ev, "wake_check", "wake_one")'
    BY <1>2, <1>7, <2>1, <2>2, UntouchedRests, EmptiedRests
  <2> QED
    BY <1>3, <1>4, <1>5, <1>7, <2>1, <2>3 DEF IpcKept, Base
<1>8. ASSUME NEW t \in User, Delete(t, Ev) PROVE IpcKept
  <2>1. /\ Ev \notin dead /\ dead' = dead \cup {Ev} /\ MayWakeAll(Ev) /\ pc[t].at = "run"
        /\ Goto(t, "wake_check", Ev) /\ k' = k /\ fault' = fault
    BY <1>1, <1>8 DEF Delete, CallsOn, Calls, Is
  <2>2. Emptied(Ev, "wake_check", "wake_one")'
    BY <1>1, <1>2, <2>1, EmptiedStarts
  <2>3. ObjPc' /\ Still(ObjPoint \ (PlainPoint \cup EvPoint))
    BY <1>6, <2>1
  <2> QED
    BY <1>3, <1>4, <1>5, <2>1, <2>2, <2>3 DEF IpcKept, Base
<1>9. ASSUME NEW t \in User, WakeCheck(t) PROVE IpcKept
  <2>1. pc[t].at = "wake_check" /\ pc[t].arg = Ev
    BY <1>1, <1>2, <1>9 DEF WakeCheck, Is
  <2>2. /\ \/ k.q[Ev] # << >> /\ Goto(t, "wake_one", Ev)
           \/ k.q[Ev] = << >> /\ Goto(t, "run", t)
        /\ UNCHANGED <<k, isr, dead, fault>>
    BY <1>1, <1>9, <2>1 DEF WakeCheck
  <2>3. Emptied(Ev, "wake_check", "wake_one")'
    BY <1>1, <1>2, <2>1, <2>2, EmptiedChecks
  <2>4. ObjPc' /\ Still(ObjPoint \ (PlainPoint \cup EvPoint))
    BY <1>6, <2>1, <2>2
  <2> QED
    BY <1>3, <1>4, <1>5, <2>2, <2>3, <2>4 DEF IpcKept, Base
<1>10. ASSUME NEW t \in User, WakeOne(t) PROVE IpcKept
  <2>1. pc[t].at = "wake_one" /\ pc[t].arg = Ev
    BY <1>1, <1>2, <1>10 DEF WakeOne, Is
  <2>2. k.q[Ev] # << >>
    <3>1. \E u \in Thread : Linked(k, u, Ev)
      BY <1>1, <1>2, <2>1 DEF Emptied
    <3> QED
      BY <1>1, <3>1, BaseSpec, EmptyIff
  <2>3. Goto(t, "wake_check", Ev) /\ UNCHANGED <<isr, dead, fault>>
    BY <1>10, <2>1, <2>2 DEF WakeOne
  <2>4. Emptied(Ev, "wake_check", "wake_one")'
    BY <1>1, <1>2, <1>4, <2>1, <2>3, EmptiedWakes DEF Calm
  <2>5. ObjPc' /\ Still(ObjPoint \ (PlainPoint \cup EvPoint))
    BY <1>6, <2>1, <2>3
  <2> QED
    BY <1>3, <1>4, <1>5, <2>3, <2>4, <2>5 DEF IpcKept, Base
<1> QED
  BY <1>7, <1>8, <1>9, <1>10, IpcStepMoves

-----------------------------------------------------------------------------
(* What a step that has nothing to do with an object leaves of its invariant *)

\* The event
LEMMA EvForeign ==
    ASSUME EvInv, Calm(Ev), UNCHANGED event
    PROVE  EvInv'
<1>1. ev' = ev /\ want' = want
  BY DEF event
<1>2. \A u \in Thread : /\ Linked(k', u, Ev) => Linked(k, u, Ev)
                        /\ HandedOver(u, Ev)' <=> HandedOver(u, Ev)
  BY DEF Calm
<1>3. ASSUME NEW b PROVE Receiving(b)' = Receiving(b)
  BY <1>1, <1>2 DEF Receiving
<1> QED
  BY <1>1, <1>2, <1>3 DEF EvInv

\* The pool
LEMMA MpForeign ==
    ASSUME MpInv, Untouched(Mp), Still({"mp_loop"}), mp' = mp, Mp \in dead' => Mp \in dead
    PROVE  MpInv'
<1>1. \A u \in Thread : /\ Linked(k', u, Mp) => Linked(k, u, Mp)
                        /\ HandedOver(u, Mp)' <=> HandedOver(u, Mp)
                        /\ Unanswered(u, Mp)' <=> Unanswered(u, Mp)
                        /\ pc'[u].at = "mp_loop" <=> pc[u].at = "mp_loop"
  BY DEF Untouched, Calm, Still
<1>2. Counted' = Counted
  BY <1>1 DEF Counted
<1>3. Coming' = Coming
  BY <1>1 DEF Coming
<1>4. BlocksConserved'
  BY DEF BlocksConserved, MpInv
<1> QED
  BY <1>1, <1>2, <1>3, <1>4 DEF MpInv

\* The completion
LEMMA CpForeign ==
    ASSUME CpInv, Calm(Cp), completed' = completed, sys' = sys
    PROVE  CpInv'
BY DEF CpInv, Calm

\* The work queue: the worker may come back from rt_schedule.
LEMMA WqForeign ==
    ASSUME WqBase, Base', wq' = wq, Calm(WqSem), Still(WqPoint), Sleepers({"run", "mp_loop"})
    PROVE  WqInv'
<1>1. /\ WqExact(wq) /\ WorkerInStep /\ WorkerAwake
      /\ \A t \in Thread : pc[t].at = "dw_stop" => Stopping(t, wq.list)
      /\ \A u \in Thread : Linked(k, u, WqSem) => wq.cur # Null \/ pc[Worker].at = "wq_ack"
  BY WqParts
<1>2. /\ pc[Worker].at \in WorkerPoint /\ pc'[Worker].at \in WorkerPoint
      /\ Worker \in Thread /\ User \subseteq Thread
  BY ObjectsConstants DEF WqBase, Base, ObjPc
<1>3. \A t \in Thread : pc[t].at \in WqPoint \/ pc'[t].at \in WqPoint => pc'[t] = pc[t]
  BY DEF Still
<1>4. k'.stat[Worker] = "SUSPEND" => k.stat[Worker] = "SUSPEND"
  BY <1>2 DEF Sleepers, WorkerPoint
<1>5. WorkerInStep'
  <2>1. wq'.cur # Null => pc'[Worker].at = "wq_do"
    BY <1>1, <1>2, <1>3 DEF WorkerInStep, WqPoint
  <2>2. pc'[Worker].at = "wq_suspend" => wq'.list = << >>
    BY <1>1, <1>2, <1>3 DEF WorkerInStep, WqPoint
  <2>3. k'.stat[Worker] = "SUSPEND" => pc'[Worker].at \in {"take_sched", "take_ret"}
    <3>1. CASE pc'[Worker].at \in WqPoint
      BY <1>1, <1>2, <1>3, <1>4, <3>1 DEF WorkerInStep, WqPoint
    <3>2. CASE pc'[Worker].at \notin WqPoint
      BY <1>2, <3>2 DEF WorkerPoint, WqPoint
    <3> QED
      BY <3>1, <3>2
  <2> QED
    BY <2>1, <2>2, <2>3 DEF WorkerInStep
<1>6. WorkerAwake'
  BY <1>1, <1>2, <1>3, <1>4 DEF WorkerAwake, WqPoint
<1>7. \A t \in Thread : pc'[t].at = "dw_stop" => Stopping(t, wq.list)'
  BY <1>1, <1>3 DEF Stopping, WqPoint
<1>8. \A u \in Thread : Linked(k', u, WqSem) => wq'.cur # Null \/ pc'[Worker].at = "wq_ack"
  BY <1>1, <1>2, <1>3 DEF Calm, WqPoint
<1>9. WqExact(wq')
  BY <1>1
<1> QED
  BY <1>5, <1>6, <1>7, <1>8, <1>9, WqNext

\* The delete of another object
LEMMA EmptiedForeign ==
    ASSUME NEW o, NEW C, NEW W, Emptied(o, C, W), Untouched(o), o \in dead' <=> o \in dead,
           Still({C, W})
    PROVE  Emptied(o, C, W)'
BY UntouchedRests, EmptiedRests

-----------------------------------------------------------------------------
(* The invariant of the whole system                                        *)

\* What is left alone is left alone in parts.
LEMMA StillWithin ==
    ASSUME NEW S, NEW P \in SUBSET S, Still(S)
    PROVE  Still(P)
BY DEF Still

\* The points of an object are none of the others'.
LEMMA KeepsStill ==
    /\ EvPoint \in SUBSET (ObjPoint \ (PlainPoint \cup MpPoint))
    /\ EvPoint \in SUBSET (ObjPoint \ (PlainPoint \cup CpPoint))
    /\ EvPoint \in SUBSET (ObjPoint \ (PlainPoint \cup WqPoint))
    /\ EvPoint \in SUBSET (ObjPoint \ (PlainPoint \cup HpPoint))
    /\ MpPoint \in SUBSET (ObjPoint \ (PlainPoint \cup EvPoint))
    /\ MpPoint \in SUBSET (ObjPoint \ (PlainPoint \cup {}))
    /\ MpPoint \in SUBSET (ObjPoint \ (PlainPoint \cup CpPoint))
    /\ MpPoint \in SUBSET (ObjPoint \ (PlainPoint \cup WqPoint))
    /\ MpPoint \in SUBSET (ObjPoint \ (PlainPoint \cup HpPoint))
    /\ WqPoint \in SUBSET (ObjPoint \ (PlainPoint \cup EvPoint))
    /\ WqPoint \in SUBSET (ObjPoint \ (PlainPoint \cup {}))
    /\ WqPoint \in SUBSET (ObjPoint \ (PlainPoint \cup MpPoint))
    /\ WqPoint \in SUBSET (ObjPoint \ (PlainPoint \cup CpPoint))
    /\ WqPoint \in SUBSET (ObjPoint \ (PlainPoint \cup HpPoint))
    /\ EvPoint = {"wake_check", "wake_one"}
    /\ {"mp_loop"} \in SUBSET MpPoint /\ {"mp_check", "mp_wake"} \in SUBSET MpPoint
BY DEF ObjPoint, PlainPoint, EvPoint, MpPoint, CpPoint, WqPoint, HpPoint

\* What the invariant says of the parts
LEMMA ObjParts ==
    ASSUME ObjInv
    PROVE  /\ Base /\ EvInv /\ MpInv /\ CpInv /\ WqInv /\ TimesInv /\ DeletesInv
           /\ Emptied(Ev, "wake_check", "wake_one") /\ Emptied(Mp, "mp_check", "mp_wake")
           /\ dead \subseteq {Ev, Mp} /\ fault = FALSE /\ sys \in Systems
           /\ Ev \in Obj /\ Mp \in Obj /\ Cp \in Obj /\ WqSem \in Obj
           /\ Ev # Mp /\ Ev # Cp /\ Ev # WqSem /\ Mp # Cp /\ Mp # WqSem /\ Cp # WqSem
<1>1. Base /\ DeletesInv
  BY DEF ObjInv
<1>2. fault \in BOOLEAN
  BY <1>1, BaseSpec
<1> QED
  BY <1>1, <1>2, ObjectsConstants DEF ObjInv, DeletesInv

\* A step of module Ipc
LEMMA IpcStepObj ==
    ASSUME ObjInv, "delete_timed" \notin Ops, "wq_race" \notin Ops,
           IpcStep(Deletable), Elapse, UNCHANGED <<event, mp, completed, wq, sys>>
    PROVE  ObjInv'
<1>1. IpcKept
  BY ObjParts, IpcStepKept
<1>2. Still(MpPoint) /\ Still(WqPoint)
  BY <1>1, KeepsStill, StillWithin DEF IpcKept
<1>3. Still({"mp_loop"}) /\ Still({"mp_check", "mp_wake"})
  BY <1>2, KeepsStill, StillWithin
<1>4. Untouched(Mp) /\ Calm(Ev) /\ Calm(Cp) /\ Calm(WqSem)
  BY <1>1, ObjParts DEF IpcKept, Untouched
<1>5. Base' /\ Sleepers({"run", "mp_loop"})
  BY <1>1 DEF IpcKept, Sleepers
<1>6. EvInv'
  BY <1>4, ObjParts, EvForeign
<1>7. (Mp \in dead' <=> Mp \in dead) /\ dead' \subseteq {Ev, Mp} /\ ~fault'
  BY <1>1, ObjParts DEF IpcKept
<1>8. MpInv'
  BY <1>3, <1>4, <1>7, ObjParts, MpForeign
<1>9. CpInv'
  BY <1>4, ObjParts, CpForeign
<1>10. WqInv'
  BY <1>2, <1>4, <1>5, ObjParts, WqForeign DEF WqBase
<1>11. Emptied(Mp, "mp_check", "mp_wake")'
  BY <1>3, <1>4, <1>7, ObjParts, EmptiedForeign
<1>12. TimesInv'
  BY ObjParts, ElapseTimes
<1> QED
  BY <1>1, <1>5, <1>6, <1>7, <1>8, <1>9, <1>10, <1>11, <1>12, ObjParts
     DEF ObjInv, DeletesInv, IpcKept

\* A step of the event
LEMMA EvStepObj ==
    ASSUME ObjInv, "wq_race" \notin Ops,
           EvStep(sys.producer, sys.consumer), UNCHANGED <<mp, completed, wq, sys>>
    PROVE  ObjInv'
<1>1. EvKept
  BY ObjParts, EvStepKept
<1>2. Still(ObjPoint \ (PlainPoint \cup {})) /\ Base' /\ Sleepers({"run", "mp_loop"})
  BY <1>1 DEF EvKept, Keeps
<1>3. Still(MpPoint) /\ Still(WqPoint) /\ Still({"wake_check", "wake_one"})
  <2>1. EvPoint \in SUBSET (ObjPoint \ (PlainPoint \cup {}))
    BY DEF ObjPoint, PlainPoint, EvPoint
  <2> QED
    BY <1>2, <2>1, KeepsStill, StillWithin
<1>4. Still({"mp_loop"}) /\ Still({"mp_check", "mp_wake"})
  BY <1>3, KeepsStill, StillWithin
<1>5. Untouched(Mp) /\ Calm(Cp) /\ Calm(WqSem)
  BY <1>1, ObjParts DEF EvKept, Keeps, Untouched
<1>6. dead' = dead /\ fault' = fault /\ UNCHANGED waiting /\ EvInv'
  BY <1>1 DEF EvKept
<1>7. MpInv'
  BY <1>4, <1>5, <1>6, ObjParts, MpForeign
<1>8. CpInv'
  BY <1>5, ObjParts, CpForeign
<1>9. WqInv'
  BY <1>2, <1>3, <1>5, ObjParts, WqForeign DEF WqBase
<1>10. Emptied(Mp, "mp_check", "mp_wake")'
  BY <1>4, <1>5, <1>6, ObjParts, EmptiedForeign
<1>11. Emptied(Ev, "wake_check", "wake_one")'
  <2>1. CASE Ev \notin dead
    <3>1. \A u \in Thread : pc'[u].at \in {"wake_check", "wake_one"}
                              => pc[u].at \in {"wake_check", "wake_one"}
      BY <1>3 DEF Still
    <3> QED
      BY <1>6, <2>1, <3>1, ObjParts, EmptiedAlive
  <2>2. CASE Rests(Ev)
    BY <1>3, <1>6, <2>2, ObjParts, EmptiedRests
  <2> QED
    BY <1>1, <2>1, <2>2 DEF EvKept
<1>12. TimesInv'
  BY <1>6, ObjParts, ElapseTimes
<1> QED
  BY <1>2, <1>6, <1>7, <1>8, <1>9, <1>10, <1>11, <1>12, ObjParts DEF ObjInv, DeletesInv

\* A step of the pool
LEMMA MpStepObj ==
    ASSUME ObjInv, "mp_late" \notin Ops, "delete_timed" \notin Ops, "wq_race" \notin Ops,
           MpStep(sys.consumer), UNCHANGED <<event, completed, wq, sys>>
    PROVE  ObjInv'
<1>1. MpKept
  <2>1. MpBase
    BY ObjParts DEF MpBase
  <2> QED
    BY <2>1, ObjParts, MpStepKept
<1>2. Base' /\ Sleepers({"run", "mp_loop"}) /\ Still(ObjPoint \ (PlainPoint \cup MpPoint))
  BY <1>1 DEF MpKept, Keeps
<1>3. Still({"wake_check", "wake_one"}) /\ Still(WqPoint)
  BY <1>2, KeepsStill, StillWithin
<1>4. Untouched(Ev) /\ Calm(Ev) /\ Calm(Cp) /\ Calm(WqSem)
  BY <1>1, ObjParts DEF MpKept, Keeps, Untouched
<1>5. /\ MpInv' /\ TimesInv' /\ Emptied(Mp, "mp_check", "mp_wake")'
      /\ (Ev \in dead' <=> Ev \in dead) /\ dead' \subseteq {Ev, Mp} /\ ~fault'
  BY <1>1, ObjParts DEF MpKept
<1>6. EvInv'
  BY <1>4, ObjParts, EvForeign
<1>7. CpInv'
  BY <1>4, ObjParts, CpForeign
<1>8. WqInv'
  BY <1>2, <1>3, <1>4, ObjParts, WqForeign DEF WqBase
<1>9. Emptied(Ev, "wake_check", "wake_one")'
  BY <1>3, <1>4, <1>5, ObjParts, EmptiedForeign
<1> QED
  BY <1>2, <1>5, <1>6, <1>7, <1>8, <1>9, ObjParts DEF ObjInv, DeletesInv

\* A step that touches neither the event nor the pool
LEMMA OthersObj ==
    ASSUME ObjInv, Base', Untouched(Ev), Untouched(Mp), Still(EvPoint), Still(MpPoint),
           UNCHANGED <<event, mp, dead, fault, waiting>>
    PROVE  EvInv' /\ MpInv' /\ DeletesInv' /\ TimesInv'
<1>1. Still({"wake_check", "wake_one"}) /\ Still({"mp_loop"}) /\ Still({"mp_check", "mp_wake"})
  BY KeepsStill, StillWithin
<1>2. EvInv' /\ MpInv'
  BY <1>1, ObjParts, EvForeign, MpForeign DEF Untouched
<1>3. Emptied(Ev, "wake_check", "wake_one")' /\ Emptied(Mp, "mp_check", "mp_wake")'
  BY <1>1, ObjParts, EmptiedForeign
<1> QED
  BY <1>2, <1>3, ObjParts, ElapseTimes DEF DeletesInv

\* A step of the completion
LEMMA CpStepObj ==
    ASSUME ObjInv, OneWaiter, "wq_race" \notin Ops, "completion" \in sys.has,
           CpStep(sys.producer, sys.consumer), UNCHANGED <<event, mp, wq, sys>>
    PROVE  ObjInv'
<1>1. CpKept
  <2>1. CpBase
    BY ObjParts DEF CpBase
  <2> QED
    BY <2>1, CpStepKept
<1>2. /\ Base' /\ Sleepers({"run", "mp_loop"}) /\ Still(ObjPoint \ (PlainPoint \cup CpPoint))
      /\ CpInv' /\ UNCHANGED <<dead, fault, waiting>>
  BY <1>1 DEF CpKept, Keeps
<1>3. Still(EvPoint) /\ Still(MpPoint) /\ Still(WqPoint)
  BY <1>2, KeepsStill, StillWithin
<1>4. Untouched(Ev) /\ Untouched(Mp) /\ Calm(WqSem)
  BY <1>1, ObjParts DEF CpKept, Keeps, Untouched
<1>5. WqInv'
  BY <1>2, <1>3, <1>4, ObjParts, WqForeign DEF WqBase
<1>6. EvInv' /\ MpInv' /\ DeletesInv' /\ TimesInv'
  BY <1>2, <1>3, <1>4, OthersObj
<1> QED
  BY <1>2, <1>5, <1>6, ObjParts DEF ObjInv

\* A step of the work queue
LEMMA WqStepObj ==
    ASSUME ObjInv, "wq_race" \notin Ops,
           WqStep(sys.producer), UNCHANGED <<event, mp, completed, sys>>
    PROVE  ObjInv'
<1>1. WqKept
  <2>1. WqBase
    BY ObjParts DEF WqBase
  <2> QED
    BY <2>1, ObjParts, WqStepKept
<1>2. /\ Base' /\ Still(ObjPoint \ (PlainPoint \cup WqPoint))
      /\ WqInv' /\ UNCHANGED <<dead, fault, waiting>>
  BY <1>1 DEF WqKept
<1>3. Still(EvPoint) /\ Still(MpPoint)
  BY <1>2, KeepsStill, StillWithin
<1>4. Untouched(Ev) /\ Untouched(Mp) /\ Calm(Cp)
  BY <1>1, ObjParts DEF WqKept, Untouched
<1>5. CpInv'
  BY <1>4, ObjParts, CpForeign
<1>6. EvInv' /\ MpInv' /\ DeletesInv' /\ TimesInv'
  BY <1>2, <1>3, <1>4, OthersObj
<1> QED
  BY <1>2, <1>5, <1>6, ObjParts DEF ObjInv

\* A step that touches no object: one of the heap
LEMMA HpStepObj ==
    ASSUME ObjInv, "wq_race" \notin Ops,
           HpStep(sys.consumer), UNCHANGED <<event, mp, completed, wq, sys>>
    PROVE  ObjInv'
<1>1. Keeps({}, HpPoint) /\ UNCHANGED <<dead, fault, waiting>>
  BY ObjParts, HpStepKept
<1>2. Base' /\ Sleepers({"run", "mp_loop"}) /\ Still(ObjPoint \ (PlainPoint \cup HpPoint))
  BY <1>1 DEF Keeps
<1>3. Still(EvPoint) /\ Still(MpPoint) /\ Still(WqPoint)
  BY <1>2, KeepsStill, StillWithin
<1>4. Untouched(Ev) /\ Untouched(Mp) /\ Calm(Cp) /\ Calm(WqSem)
  BY <1>1, ObjParts DEF Keeps, Untouched
<1>5. WqInv' /\ CpInv'
  BY <1>2, <1>3, <1>4, ObjParts, WqForeign, CpForeign DEF WqBase
<1>6. EvInv' /\ MpInv' /\ DeletesInv' /\ TimesInv'
  BY <1>1, <1>2, <1>3, <1>4, OthersObj
<1> QED
  BY <1>2, <1>5, <1>6, ObjParts DEF ObjInv

\* and none at all
LEMMA StutterObj ==
    ASSUME ObjInv, UNCHANGED vars
    PROVE  ObjInv'
<1>1. /\ k' = k /\ isr' = isr /\ pc' = pc /\ dead' = dead /\ fault' = fault
      /\ left' = left /\ spent' = spent /\ limit' = limit
      /\ ev' = ev /\ want' = want /\ mp' = mp /\ completed' = completed /\ wq' = wq /\ sys' = sys
  BY DEF vars, kernel, waiting, event
<1>2. IpcInv'
  BY <1>1 DEF ObjInv, Base, IpcInv, LockHeld, InReset, WaitersListed, Taking
<1>3. Base'
  BY <1>1, <1>2 DEF ObjInv, Base, WaitersClean, ObjPc
<1>4. EvInv'
  BY <1>1 DEF ObjInv, EvInv, Receiving, HandedOver, Taking
<1>5. MpInv'
  BY <1>1 DEF ObjInv, MpInv, BlocksConserved, Counted, Coming, HandedOver, Unanswered, Taking
<1>6. CpInv'
  BY <1>1 DEF ObjInv, CpInv, HandedOver, Taking
<1>7. WqInv'
  BY <1>1 DEF ObjInv, WqInv, WorkListExact, DelayedExact, WorkerInStep, WorkerAwake, SyncServed
<1>8. DeletesInv' /\ TimesInv'
  BY <1>1 DEF ObjInv, DeletesInv, TimesInv, Emptied
<1> QED
  BY <1>1, <1>3, <1>4, <1>5, <1>6, <1>7, <1>8 DEF ObjInv

\* Every step keeps the invariant.
LEMMA NextObj ==
    ASSUME ObjInv, "mp_late" \notin Ops, "delete_timed" \notin Ops, "wq_race" \notin Ops,
           OneWaiter, [Next]_vars
    PROVE  ObjInv'
<1>1. CASE Next
  BY <1>1, IpcStepObj, EvStepObj, MpStepObj, CpStepObj, WqStepObj, HpStepObj DEF Next
<1> QED
  BY <1>1, StutterObj

\* SetToSeq lists each element once.
LEMMA SetToSeqLength ==
    ASSUME NEW S, IsFiniteSet(S)
    PROVE  Len(SetToSeq(S)) = Cardinality(S)
<1> DEFINE n == Cardinality(S)
           f == SetToSeq(S)
<1>1. n \in Nat /\ ExistsBijection(1 .. n, S)
  BY FS_CardinalityType
<1>2. \E g \in [1 .. n -> S] : IsInjective(g)
  BY <1>1 DEF ExistsBijection, Bijection, Injection
<1>3. f \in [1 .. n -> S]
  BY <1>2 DEF SetToSeq
<1> HIDE DEF f
<1>4. Len(f) = n
  BY <1>1, <1>3
<1> QED
  BY <1>4 DEF f

\* What holds when the kernel has booted
LEMMA InitBase ==
    ASSUME Init
    PROVE  /\ Base /\ isr = "none" /\ dead = {} /\ ~fault
           /\ \A u \in Thread : /\ k.stat[u] # "SUSPEND"
                                /\ pc[u].at = IF u = Worker THEN "wq_check" ELSE "run"
           /\ \A u \in Thread : \A o \in Obj : ~Linked(k, u, o)
<1>1. /\ sys \in Systems /\ k = Booted(sys.live, InitPrio) /\ isr = "none"
      /\ pc = [t \in Thread |-> [at |-> IF t = Worker THEN "wq_check" ELSE "run", arg |-> t]]
      /\ dead = {} /\ fault = FALSE
  BY DEF Init, WaitingInit
<1>2. MayBoot(sys.live, InitPrio) /\ Idle \in sys.live
  <2>1. sys.live \subseteq Thread /\ Idle \in sys.live
    BY <1>1, ObjectsAssumption
  <2> QED
    BY <2>1, SystemAssumption DEF MayBoot
<1>3. /\ Good(k, {})
      /\ k.stat[k.cur] = "RUNNING" /\ k.lock = 0
      /\ \A u \in Thread : k.stat[u] # "SUSPEND"
      /\ \A u \in Thread : \A o \in Obj : ~Linked(k, u, o)
  BY <1>1, <1>2, BootGood
<1>4. /\ k \in Kstate /\ isr \in Isr /\ KernelOK(k, {}) /\ k.cur \in Thread
      /\ DOMAIN pc = Thread
      /\ \A u \in Thread : /\ pc[u].at = IF u = Worker THEN "wq_check" ELSE "run"
                           /\ pc[u].arg = u
  BY <1>1, <1>3, FlatIff DEF Isr, Good, Kstate
<1>5. LockHeld
  BY <1>3, <1>4 DEF LockHeld, InReset
<1>6. \A t \in Thread : ArgIsObject(pc[t])
  BY <1>4 DEF ArgIsObject
<1>7. WaitersListed
  BY <1>3 DEF WaitersListed
<1>8. IpcInv
  BY <1>1, <1>3, <1>4, <1>5, <1>6, <1>7 DEF IpcInv, CurrentRuns
<1>9. WaitersClean
  BY <1>3 DEF WaitersClean
<1>10. ObjPc
  <2>1. "wq_check" \in ObjPoint /\ "run" \in ObjPoint /\ "wq_check" \in WorkerPoint
    BY DEF ObjPoint, PlainPoint, WqPoint, WorkerPoint
  <2> QED
    BY <1>4, <2>1, ObjectsConstants DEF ObjPc
<1> QED
  BY <1>1, <1>3, <1>4, <1>8, <1>9, <1>10 DEF Base

\* The invariant holds initially.
LEMMA InitObj ==
    ASSUME Init
    PROVE  ObjInv
<1>1. /\ Base /\ dead = {} /\ ~fault
      /\ \A u \in Thread : /\ k.stat[u] # "SUSPEND"
                           /\ pc[u].at = IF u = Worker THEN "wq_check" ELSE "run"
      /\ \A u \in Thread : \A o \in Obj : ~Linked(k, u, o)
  BY InitBase
<1>2. /\ Ev \in Obj /\ Mp \in Obj /\ Cp \in Obj /\ WqSem \in Obj /\ Worker \in Thread
  BY ObjectsConstants
<1>3. \A u \in Thread : \A o : ~Taking(u, o) /\ ~HandedOver(u, o) /\ ~Unanswered(u, o)
  BY <1>1 DEF Taking, HandedOver, Unanswered
<1>4. Cardinality({}) = 0
  BY FS_EmptySet
<1>5. EvInv
  <2>1. /\ ev = [set |-> {}, owed |-> [b \in Bit |-> 0]]
        /\ want = [t \in Thread |-> NoWant]
    BY DEF Init, EvInit
  <2>2. NoWant \in WantType
    BY DEF NoWant, WantType
  <2>3. \A b : Receiving(b) = {}
    BY <1>3 DEF Receiving
  <2>4. \A b \in Bit : ev.owed[b] = One(b, ev.set) + Cardinality(Receiving(b))
    BY <1>4, <2>1, <2>3 DEF One
  <2> QED
    BY <1>1, <1>2, <2>1, <2>2, <2>4 DEF EvInv
<1>6. MpInv
  <2>1. PICK list : list = SetToSeq(Block)
    OBVIOUS
  <2>2. mp = [list |-> list, free |-> Cardinality(Block), count |-> 0, used |-> {}, late |-> 0]
    BY <2>1 DEF Init, MpInit
  <2>3. /\ list \in Seq(Block) /\ IsInjective(list) /\ ToSet(list) = Block
        /\ Len(list) = Cardinality(Block) /\ Cardinality(Block) \in Nat
    BY <2>1, MemPoolAssumption, SetToSeqList, SetToSeqLength, FS_CardinalityType
  <2>4. mp \in MpType /\ BlocksConserved
    BY <2>2, <2>3 DEF MpType, BlocksConserved
  <2>5. Counted = {} /\ Coming = {}
    BY <1>1, <1>3 DEF Counted, Coming
  <2> QED
    BY <1>1, <1>2, <1>4, <2>2, <2>4, <2>5 DEF MpInv
<1>7. CpInv
  BY <1>1, <1>2, <1>3 DEF CpInv, Init, CpInit
<1>8. WqInv
  <2>1. wq = [list |-> << >>, cur |-> Null, pending |-> {}, armed |-> {}, attached |-> {},
              stray |-> FALSE, cancelled |-> {}]
    BY DEF Init, WqInit
  <2>2. ToSet(<< >>) = {} /\ IsInjective(<< >>) /\ << >> \in Seq(Work)
    <3>1. PICK s \in Seq(Work) : s = << >>
      BY EmptySeq
    <3>2. ToSet(s) = {}
      BY <3>1, EmptyList
    <3>3. IsInjective(s)
      BY <3>1 DEF IsInjective
    <3> QED
      BY <3>1, <3>2, <3>3
  <2>3. wq \in WqType
    BY <2>1, <2>2 DEF WqType
  <2>4. WorkListExact /\ DelayedExact
    BY <1>1, <2>1, <2>2 DEF WorkListExact, DelayedExact
  <2>5. WorkerInStep /\ WorkerAwake
    BY <1>1, <1>2, <2>1 DEF WorkerInStep, WorkerAwake
  <2>6. SyncServed
    BY <1>1, <1>2, BaseSpec, EmptyIff DEF SyncServed
  <2> QED
    BY <2>3, <2>4, <2>5, <2>6 DEF WqInv
<1>9. DeletesInv
  BY <1>1 DEF DeletesInv, Emptied
<1>10. TimesInv
  BY DEF Init, WaitingInit, TimesInv
<1> QED
  BY <1>1, <1>5, <1>6, <1>7, <1>8, <1>9, <1>10 DEF ObjInv, Init

\* It holds always.
THEOREM ObjectsInvariance ==
    ASSUME "mp_late" \notin Ops, "delete_timed" \notin Ops, "wq_race" \notin Ops, OneWaiter
    PROVE  Spec => []ObjInv
<1>1. ObjInv /\ [Next]_vars => ObjInv'
  BY NextObj
<1> QED
  BY <1>1, InitObj, PTL DEF Spec

-----------------------------------------------------------------------------
(* What the invariant says                                                  *)

\* The threads that were resumed and have not looked yet
LEMMA WokenHandedOver ==
    ASSUME NEW o
    PROVE  Woken(o) = {u \in Thread : HandedOver(u, o)}
BY DEF Woken, HandedOver

\* Nobody waits in vain.
LEMMA ObjServed ==
    ASSUME ObjInv
    PROVE  ObjectsServed
<1>1. Good(k, {}) /\ pc[Idle].at = "run" /\ User = Thread \ {Idle}
  BY ObjParts, BaseSpec DEF Base, ObjPc, User
<1>2. NoSatisfiedWaiter
  <2>1. ASSUME NEW t \in ToSet(k.q[Ev]) PROVE t \in Thread /\ Linked(k, t, Ev)
    <3>1. k.q[Ev] \in Seq(Thread)
      BY <1>1, ObjParts, LinkedCardinality
    <3> QED
      BY <3>1 DEF Linked, ToSet
  <2> QED
    BY <2>1, ObjParts DEF NoSatisfiedWaiter, EvInv
<1>3. PoolServed
  <2>1. Coming = Woken(Mp) \cup {t \in User : pc[t].at = "mp_loop"}
    BY <1>1, WokenHandedOver DEF Coming
  <2>2. k.q[Mp] # << >> => \E u \in Thread : Linked(k, u, Mp)
    BY <1>1, ObjParts, EmptyIff
  <2> QED
    BY <2>1, <2>2, ObjParts DEF PoolServed, MpInv
<1>4. WorkerAwake /\ SyncServed
  BY ObjParts DEF WqInv
<1>5. ASSUME NEW o, NEW C, NEW W, o \in dead, o \in Obj, Emptied(o, C, W),
             \A t \in User : ~(pc[t].at \in {C, W} /\ o \in {pc[t].arg, Second[pc[t].arg]}),
             C # "run", W # "run"
      PROVE  k.q[o] = << >>
  <2>1. SUFFICES ASSUME NEW u \in Thread, Linked(k, u, o) PROVE FALSE
    BY <1>1, <1>5, EmptyIff
  <2>2. PICK t \in Thread : pc[t].at \in {C, W}
    BY <1>5, <2>1 DEF Emptied
  <2>3. pc[t].arg = o /\ t \in User
    BY <1>1, <1>5, <2>2 DEF Emptied
  <2> QED
    BY <1>5, <2>2, <2>3
<1>6. DeleteWakesAll
  <2>1. ASSUME NEW o \in dead,
               \A t \in User : ~(/\ pc[t].at \in {"wake_check", "wake_one", "mp_check", "mp_wake"}
                                 /\ o \in {pc[t].arg, Second[pc[t].arg]})
        PROVE  k.q[o] = << >>
    <3>1. CASE o = Ev
      BY <1>5, <2>1, <3>1, ObjParts
    <3>2. CASE o = Mp
      BY <1>5, <2>1, <3>2, ObjParts
    <3> QED
      BY <3>1, <3>2, ObjParts
  <2> QED
    BY <2>1, ObjParts DEF DeleteWakesAll, ResumeAllResumesThreads, DeletedHasNoWaiters
<1> QED
  BY <1>2, <1>3, <1>4, <1>6 DEF ObjectsServed

\* Nothing is lost or made up.
LEMMA ObjNothingLost ==
    ASSUME ObjInv
    PROVE  NothingLost
<1>1. Good(k, {}) /\ pc[Idle].at = "run" /\ User = Thread \ {Idle}
  BY ObjParts, BaseSpec DEF Base, ObjPc, User
<1>2. BitsConserved
  <2>1. ASSUME NEW b \in Bit
        PROVE  ev.owed[b] = (IF b \in ev.set THEN 1 ELSE 0)
                 + Cardinality({t \in Woken(Ev) : want[t].clear /\ b \in want[t].set})
    <3>1. Receiving(b) = {t \in Woken(Ev) : want[t].clear /\ b \in want[t].set}
      BY WokenHandedOver DEF Receiving
    <3> QED
      BY <3>1, ObjParts DEF EvInv, One
  <2> QED
    BY <2>1 DEF BitsConserved
<1>3. CountIsWaiters
  <2> DEFINE L == {u \in Thread : Linked(k, u, Mp)}
             T == {t \in User : Taking(t, Mp) /\ k.err[t] = "ETIMEOUT"}
  <2>1. \A u \in Thread : Linked(k, u, Mp) <=> Taking(u, Mp) /\ k.stat[u] = "SUSPEND"
    BY ObjParts, IpcInvGood DEF Base
  <2>2. \A u \in Thread : Linked(k, u, Mp) => k.err[u] = "EOK"
    BY ObjParts, BaseSpec
  <2>3. ~Taking(Idle, Mp)
    BY <1>1 DEF Taking
  <2>4. Counted = L \cup T
    BY <1>1, <2>1, <2>3 DEF Counted, Unanswered
  <2>5. L \cap T = {}
    BY <2>2
  <2>6. L \in SUBSET Thread /\ T \in SUBSET Thread
    BY <1>1
  <2>7. Cardinality(L) = Len(k.q[Mp])
    BY <1>1, ObjParts, LinkedCardinality
  <2>8. TimedOut = mp.late + Cardinality(T)
    BY DEF TimedOut
  <2>9. mp.count = mp.late + Cardinality(Counted) /\ mp.late \in Nat
    BY ObjParts DEF MpInv, MpType
  <2> HIDE DEF L, T
  <2>10. /\ Cardinality(Counted) = Cardinality(L) + Cardinality(T)
         /\ Cardinality(L) \in Nat /\ Cardinality(T) \in Nat
    BY <2>4, <2>5, <2>6, ThreadSets
  <2> QED
    BY <2>7, <2>8, <2>9, <2>10 DEF CountIsWaiters
<1>4. CompletionExact
  <2>1. completed => k.q[Cp] = << >>
    BY <1>1, ObjParts, EmptyIff DEF CpInv
  <2>2. Woken(Cp) # {} => completed
    BY ObjParts, WokenHandedOver DEF CpInv
  <2> QED
    BY <2>1, <2>2 DEF CompletionExact
<1> QED
  BY <1>2, <1>3, <1>4, ObjParts DEF NothingLost, MpInv

\* Nobody waits for event bits that are there, for a block that is free, for a work that
\* is done or on an object that was deleted, and the worker sleeps only while there is
\* no work, whatever threads and handlers do.
THEOREM NobodyWaitsInVain ==
    ASSUME "mp_late" \notin Ops, "delete_timed" \notin Ops, "wq_race" \notin Ops, OneWaiter
    PROVE  Spec => []ObjectsServed
BY ObjectsInvariance, ObjServed, PTL

\* Event bits, blocks, the pool's waiters and completions are neither lost nor made up.
THEOREM NothingIsLost ==
    ASSUME "mp_late" \notin Ops, "delete_timed" \notin Ops, "wq_race" \notin Ops, OneWaiter
    PROVE  Spec => []NothingLost
BY ObjectsInvariance, ObjNothingLost, PTL

\* A work is in the list once and not while it is executed, a pending work is in the
\* list, and a work that was cancelled is neither queued nor going to be.
THEOREM WorkListStaysExact ==
    ASSUME "mp_late" \notin Ops, "delete_timed" \notin Ops, "wq_race" \notin Ops, OneWaiter
    PROVE  Spec => []WorkListExact
<1>1. ObjInv => WorkListExact
  BY ObjParts DEF WqInv
<1> QED
  BY <1>1, ObjectsInvariance, PTL

-----------------------------------------------------------------------------
(* The types                                                                *)

\* The blocks in use that end at q or before
EndingBy(hdr, q) == {p \in UsedIn(hdr) : hdr[p].next <= q}

\* The block that ends at q and those that end where it begins, or before
LEMMA EndingBySplits ==
    ASSUME NEW hdr, Tiled(hdr), NEW q \in Nat, NEW p \in UsedIn(hdr), hdr[p].next = q
    PROVE  /\ p \in EndingBy(hdr, q) /\ EndingBy(hdr, q) \ {p} = EndingBy(hdr, p)
           /\ p \in Nat /\ p < q
<1>1. \A o \in UsedIn(hdr) :
        /\ o \in Nat /\ hdr[o].next \in Nat /\ o < hdr[o].next
        /\ \A r \in UsedIn(hdr) : r <= o \/ hdr[o].next <= r
  BY TiledBlock DEF UsedIn
<1>2. ASSUME NEW o \in UsedIn(hdr) PROVE (hdr[o].next <= q /\ o # p) <=> hdr[o].next <= p
  BY <1>1
<1>3. \A o \in EndingBy(hdr, q) \ {p} : o \in EndingBy(hdr, p)
  BY <1>2 DEF EndingBy
<1>4. \A o \in EndingBy(hdr, p) : o \in EndingBy(hdr, q) \ {p}
  BY <1>2 DEF EndingBy
<1> QED
  BY <1>1, <1>3, <1>4 DEF EndingBy

\* They have no more words than there are in front of q.
LEMMA WordsFit ==
    ASSUME NEW hdr, Tiled(hdr)
    PROVE  Words(hdr, UsedIn(hdr)) \in 0 .. End
<1>1. /\ IsFiniteSet(UsedIn(hdr)) /\ UsedIn(hdr) \subseteq Int /\ End \in Nat
      /\ \A p \in UsedIn(hdr) : hdr[p].next \in Nat /\ hdr[p].next <= End /\ p < hdr[p].next
      /\ \A p \in UsedIn(hdr) : p \in Nat
  BY UsedFinite, HeapConstants, TiledBlock DEF UsedIn
<1> DEFINE W(q) == Words(hdr, EndingBy(hdr, q))
           I == {n \in Nat : \A q \in 0 .. n : W(q) \in 0 .. q}
<1>2. \A q : /\ IsFiniteSet(EndingBy(hdr, q)) /\ EndingBy(hdr, q) \subseteq Int
             /\ \A x \in EndingBy(hdr, q) : hdr[x].next \in Int
  BY <1>1, FS_Subset DEF EndingBy
<1>3. 0 \in I
  <2>1. EndingBy(hdr, 0) = {}
    BY <1>1 DEF EndingBy
  <2>2. W(0) = 0
    BY <2>1, WordsNone
  <2>3. \A q \in 0 .. 0 : q = 0
    OBVIOUS
  <2> QED
    BY <2>2, <2>3
<1>4. ASSUME NEW n \in Nat, n \in I PROVE n + 1 \in I
  <2>1. W(n) \in 0 .. n
    BY <1>4
  <2>2. W(n + 1) \in 0 .. n + 1
    <3>1. CASE \A p \in UsedIn(hdr) : hdr[p].next # n + 1
      <4>1. EndingBy(hdr, n + 1) = EndingBy(hdr, n)
        BY <1>1, <3>1 DEF EndingBy
      <4> QED
        BY <2>1, <4>1
    <3>2. ASSUME NEW p \in UsedIn(hdr), hdr[p].next = n + 1 PROVE W(n + 1) \in 0 .. n + 1
      <4>1. PICK q \in Nat : q = n + 1
        OBVIOUS
      <4>2. /\ p \in EndingBy(hdr, q) /\ EndingBy(hdr, q) \ {p} = EndingBy(hdr, p)
            /\ p \in Nat /\ p < q
        BY <3>2, <4>1, EndingBySplits
      <4>3. Words(hdr, EndingBy(hdr, q)) = (hdr[p].next - p) + Words(hdr, EndingBy(hdr, p))
        BY <1>2, <4>2, WordsOne
      <4>4. W(p) \in 0 .. p
        BY <1>4, <4>1, <4>2
      <4>5. W(q) = (q - p) + W(p)
        BY <3>2, <4>1, <4>3
      <4> HIDE DEF W
      <4> QED
        BY <4>1, <4>2, <4>4, <4>5
    <3> QED
      BY <3>1, <3>2
  <2>3. \A q \in 0 .. n + 1 : q \in 0 .. n \/ q = n + 1
    OBVIOUS
  <2> HIDE DEF W
  <2> QED
    BY <1>4, <2>2, <2>3
<1>5. End \in I
  <2> HIDE DEF I
  <2> QED
    BY <1>1, <1>3, <1>4, AllNumbers
<1>6. W(End) \in 0 .. End
  <2> HIDE DEF W
  <2> QED
    BY <1>1, <1>5
<1>7. EndingBy(hdr, End) = UsedIn(hdr)
  BY <1>1 DEF EndingBy
<1> QED
  BY <1>6, <1>7

\* The invariants of the objects and of the heap give the types.
LEMMA ObjTypes ==
    ASSUME ObjInv, HpInv
    PROVE  ObjectsConsistent
<1>1. /\ k \in Kstate /\ isr \in Isr /\ dead \subseteq Obj /\ fault \in BOOLEAN
      /\ KernelConsistent /\ WaitersListed
  BY ObjParts DEF Base, IpcInv, KernelConsistent
<1>2. WaitingTypeOK
  BY <1>1, ObjParts DEF WaitingTypeOK, TimesInv
<1>3. ev \in [set : SUBSET Bit, owed : [Bit -> Nat]] /\ want \in [Thread -> WantType]
  <2>1. /\ ev = [set |-> ev.set, owed |-> ev.owed] /\ ev.set \subseteq Bit
        /\ ev.owed \in [Bit -> Int] /\ want \in [Thread -> WantType]
    BY ObjParts DEF EvInv
  <2>2. ASSUME NEW b \in Bit PROVE ev.owed[b] \in Nat
    <3>1. Receiving(b) \in SUBSET Thread
      BY DEF Receiving
    <3>2. Cardinality(Receiving(b)) \in Nat
      BY <3>1, ThreadSets
    <3>3. ev.owed[b] = One(b, ev.set) + Cardinality(Receiving(b))
      BY ObjParts DEF EvInv
    <3> QED
      BY <3>2, <3>3 DEF One
  <2>3. ev.owed \in [Bit -> Nat]
    BY <2>1, <2>2
  <2>4. [set |-> ev.set, owed |-> ev.owed] \in [set : SUBSET Bit, owed : [Bit -> Nat]]
    BY <2>1, <2>3
  <2> QED
    BY <2>1, <2>4
<1>4. mp \in MpType /\ completed \in BOOLEAN /\ wq \in WqType
  BY ObjParts DEF MpInv, CpInv, WqInv
<1>5. /\ heap.lfree \in 0 .. End /\ heap.used_mem \in 0 .. End /\ heap.trimmed \in BOOLEAN
      /\ \A p \in DOMAIN heap.hdr : heap.hdr[p] \in Header
  <2>1. /\ Tiled(heap.hdr) /\ heap.lfree \in DOMAIN heap.hdr /\ heap.trimmed \in BOOLEAN
        /\ heap.used_mem = Words(heap.hdr, UsedIn(heap.hdr))
    BY DEF HpInv, HeapInv
  <2>2. heap.used_mem \in 0 .. End
    BY <2>1, WordsFit
  <2>3. heap.hdr \in [DOMAIN heap.hdr -> Header] /\ DOMAIN heap.hdr \subseteq 0 .. End
    BY <2>1 DEF Tiled
  <2> QED
    BY <2>1, <2>2, <2>3
<1>6. ObjectsTypeOK
  BY <1>2, <1>3, <1>4, <1>5 DEF ObjectsTypeOK, WantType, MpType, WqType, Header
<1> QED
  BY <1>1, <1>6 DEF ObjectsConsistent

\* Every variable keeps to its type, no counter becomes negative, the heap never counts
\* more words than it has, the kernel's lists, states and bitmap agree, and the suspend
\* lists hold exactly the threads that wait.
THEOREM ObjectsStayConsistent ==
    ASSUME "mp_late" \notin Ops, "delete_timed" \notin Ops, "wq_race" \notin Ops, OneWaiter
    PROVE  Spec => []ObjectsConsistent
<1>1. Init => HpInv /\ sys \in Systems
  BY HpInitInv DEF Init
<1>2. HpInv /\ sys \in Systems /\ [Next]_vars => (HpInv /\ sys \in Systems)'
  BY HpNextInv
<1>3. ObjInv /\ HpInv => ObjectsConsistent
  BY ObjTypes
<1>4. Spec => []HpInv
  BY <1>1, <1>2, PTL DEF Spec
<1> QED
  BY <1>3, <1>4, ObjectsInvariance, PTL
================================================================================
