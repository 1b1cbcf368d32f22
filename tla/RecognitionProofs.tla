-------------------------- MODULE RecognitionProofs --------------------------
(***************************************************************************)
(* Proofs about the four modules of speech recognition, one part for each: *)
(* WhisperBeam for any tokens and any sizes of a call; WhisperFull for     *)
(* every length of the audio, every context size, budget, temperature list *)
(* and number of decoders; StreamSession for every step, length and        *)
(* overlap; RealtimeSession for any words, sizes and limit.                *)
(*                                                                         *)
(* The loops over the decoders and the joining of the deltas are recursive *)
(* functions.  What they compute is proved by induction over the set of    *)
(* the numbers that have the property (SetInduction).                      *)
(***************************************************************************)
EXTENDS WhisperBeam, WhisperFull, StreamSession, RealtimeSession,
        FiniteSetTheorems, SequenceTheorems, WellFoundedInduction, TLAPS

\* Every nonempty set of natural numbers has a least member.
LEMMA LeastNatural ==
    ASSUME NEW T, T \subseteq Nat, T # {}
    PROVE  Min(T) \in T /\ \A y \in T : Min(T) <= y
<1>1. PICK x \in T : \A y \in T : <<y, x>> \notin OpToRel(<, Nat)
  BY NatLessThanWellFounded, WFMin
<1>2. \A y \in T : ~ (y < x)
  BY <1>1 DEF OpToRel
<1>3. \A y \in T : x <= y
  BY <1>2
<1> QED BY <1>3 DEF Min

\* Induction, over the set of the numbers that have the property.
LEMMA SetInduction ==
    ASSUME NEW T, 0 \in T, \A n \in Nat : n \in T => n + 1 \in T
    PROVE  \A n \in Nat : n \in T
<1> SUFFICES ASSUME Nat \ T # {} PROVE FALSE
  OBVIOUS
<1>1. PICK x \in Nat \ T : \A y \in Nat \ T : x <= y
  BY LeastNatural
<1>2. x - 1 \in Nat /\ x - 1 \in T
  BY <1>1
<1> QED BY <1>2

\* The smaller and the larger of two numbers.
LEMMA MinMax ==
    ASSUME NEW a \in Int, NEW b \in Int
    PROVE  /\ Min({a, b}) = IF a <= b THEN a ELSE b
           /\ Max({a, b}) = IF a >= b THEN a ELSE b
BY DEF Min, Max

----------------------------------------------------------------------------
(* WhisperBeam *)

\* How many members of S are related to x: its place if R orders S.
Place(S, R, x) == Cardinality({y \in S : <<y, x>> \in R})

\* In a finite set with a strict total order every member has its place, and
\* every place its member.
LEMMA Places ==
    ASSUME NEW S, IsFiniteSet(S), NEW R,
           \A x \in S : <<x, x>> \notin R,
           \A x, y \in S : x # y => <<x, y>> \in R \/ <<y, x>> \in R,
           \A x, y, z \in S : <<x, y>> \in R /\ <<y, z>> \in R => <<x, z>> \in R
    PROVE  /\ Cardinality(S) \in Nat
           /\ \A x \in S : Place(S, R, x) \in 0 .. Cardinality(S) - 1
           /\ \A x, y \in S : Place(S, R, x) = Place(S, R, y) => x = y
           /\ \A n \in 0 .. Cardinality(S) - 1 : \E x \in S : Place(S, R, x) = n
<1> DEFINE below(x) == {y \in S : <<y, x>> \in R}
           place == [x \in S |-> Place(S, R, x)]
<1>1. PICK k \in Nat : k = Cardinality(S)
  BY FS_CardinalityType
<1>2. \A x \in S : /\ Place(S, R, x) \in Nat
                   /\ Cardinality(below(x) \cup {x}) = Place(S, R, x) + 1
  <2> SUFFICES ASSUME NEW x \in S
               PROVE  /\ Place(S, R, x) \in Nat
                      /\ Cardinality(below(x) \cup {x}) = Place(S, R, x) + 1
    OBVIOUS
  <2>1. below(x) \in SUBSET S /\ x \notin below(x) /\ Place(S, R, x) = Cardinality(below(x))
    BY DEF Place
  <2> HIDE DEF below
  <2>2. IsFiniteSet(below(x))
    BY <2>1, FS_Subset
  <2> QED BY <2>1, <2>2, FS_AddElement, FS_CardinalityType
<1>3. \A x, y \in S : <<x, y>> \in R => Place(S, R, x) < Place(S, R, y)
  <2> SUFFICES ASSUME NEW x \in S, NEW y \in S, <<x, y>> \in R
               PROVE  Place(S, R, x) < Place(S, R, y)
    OBVIOUS
  <2>1. below(x) \cup {x} \in SUBSET below(y) /\ below(y) \in SUBSET S
    OBVIOUS
  <2>2. Place(S, R, y) = Cardinality(below(y))
    BY DEF Place
  <2> HIDE DEF below
  <2>3. Cardinality(below(x) \cup {x}) <= Place(S, R, y)
    BY <2>1, <2>2, FS_Subset
  <2>4. /\ Place(S, R, x) \in Nat /\ Place(S, R, y) \in Nat
        /\ Cardinality(below(x) \cup {x}) = Place(S, R, x) + 1
    BY <1>2
  <2> QED BY <2>3, <2>4
<1>4. \A x \in S : Place(S, R, x) \in 0 .. k - 1
  <2> SUFFICES ASSUME NEW x \in S PROVE Place(S, R, x) \in 0 .. k - 1
    OBVIOUS
  <2>1. below(x) \cup {x} \in SUBSET S
    OBVIOUS
  <2> HIDE DEF below
  <2>2. Cardinality(below(x) \cup {x}) <= k
    BY <1>1, <2>1, FS_Subset
  <2>3. /\ Place(S, R, x) \in Nat
        /\ Cardinality(below(x) \cup {x}) = Place(S, R, x) + 1
    BY <1>2
  <2> QED BY <1>1, <2>2, <2>3
<1>5. \A x, y \in S : Place(S, R, x) = Place(S, R, y) => x = y
  <2> SUFFICES ASSUME NEW x \in S, NEW y \in S, Place(S, R, x) = Place(S, R, y), x # y
               PROVE  FALSE
    OBVIOUS
  <2>1. Place(S, R, x) < Place(S, R, y) \/ Place(S, R, y) < Place(S, R, x)
    BY <1>3
  <2>2. Place(S, R, x) \in Nat /\ Place(S, R, y) \in Nat
    BY <1>2
  <2> QED BY <2>1, <2>2
<1>6. IsFiniteSet(0 .. k - 1) /\ Cardinality(0 .. k - 1) = k
  <2>1. 0 \in Int /\ k - 1 \in Int /\ k - 1 - 0 + 1 = k /\ (0 > k - 1 => k = 0)
    BY <1>1
  <2> QED BY <2>1, FS_Interval
<1>7. place \in [S -> 0 .. k - 1]
  BY <1>4
<1>8. place \in Injection(S, 0 .. k - 1)
  BY <1>5, <1>7 DEF Injection, IsInjective
<1>9. place \in Surjection(S, 0 .. k - 1)
  <2> HIDE DEF place
  <2> QED BY <1>1, <1>6, <1>8, FS_Injection
<1>10. \A n \in 0 .. k - 1 : \E x \in S : Place(S, R, x) = n
  BY <1>9 DEF Surjection
<1> QED BY <1>1, <1>4, <1>5, <1>10

\* Ranks number a finite set of integers from zero on.
LEMMA Ranks ==
    ASSUME NEW S, IsFiniteSet(S), S \subseteq Int
    PROVE  /\ Cardinality(S) \in Nat
           /\ \A x \in S : Rank(S, x) \in 0 .. Cardinality(S) - 1
           /\ \A x, y \in S : Rank(S, x) = Rank(S, y) => x = y
           /\ \A n \in 0 .. Cardinality(S) - 1 : \E x \in S : Rank(S, x) = n
<1> DEFINE R == {p \in S \X S : p[1] < p[2]}
<1>1. /\ \A x \in S : <<x, x>> \notin R
      /\ \A x, y \in S : x # y => <<x, y>> \in R \/ <<y, x>> \in R
      /\ \A x, y, z \in S : <<x, y>> \in R /\ <<y, z>> \in R => <<x, z>> \in R
  OBVIOUS
<1>2. \A x \in S : Place(S, R, x) = Rank(S, x)
  <2> SUFFICES ASSUME NEW x \in S PROVE Place(S, R, x) = Rank(S, x)
    OBVIOUS
  <2>1. {y \in S : <<y, x>> \in R} = {l \in S : l < x}
    OBVIOUS
  <2> QED BY <2>1 DEF Rank, Place
<1> HIDE DEF R
<1>3. /\ Cardinality(S) \in Nat
      /\ \A x \in S : Place(S, R, x) \in 0 .. Cardinality(S) - 1
      /\ \A x, y \in S : Place(S, R, x) = Place(S, R, y) => x = y
      /\ \A n \in 0 .. Cardinality(S) - 1 : \E x \in S : Place(S, R, x) = n
  <2>1. \A x \in S : <<x, x>> \notin R
    BY <1>1
  <2>2. \A x, y \in S : x # y => <<x, y>> \in R \/ <<y, x>> \in R
    BY <1>1
  <2>3. \A x, y, z \in S : <<x, y>> \in R /\ <<y, z>> \in R => <<x, z>> \in R
    BY <1>1
  <2> QED BY ONLY IsFiniteSet(S), <2>1, <2>2, <2>3, Places
<1> QED BY <1>2, <1>3
----------------------------------------------------------------------------

\* The tags of a cell; a free one has none.
Tag(k, c) == IF c \in DOMAIN k.cells THEN k.cells[c].tags ELSE {}

\* All cells in use, and the head, are below the mark h.
Sound(k, h) ==
    /\ DOMAIN k.cells \subseteq 0 .. h - 1
    /\ k.head \in 0 .. h
    /\ \A c \in DOMAIN k.cells : k.cells[c] \in Cells /\ k.cells[c].tags # {}

\* What is left of k in l: its cells hold what they held.
Within(k, l) ==
    /\ DOMAIN l.cells \subseteq DOMAIN k.cells
    /\ \A c \in DOMAIN l.cells : /\ l.cells[c].pos = k.cells[c].pos
                                /\ l.cells[c].path = k.cells[c].path

\* A cache is within itself.
LEMMA WithinItself == ASSUME NEW k PROVE Within(k, k)
BY DEF Within

\* What is left of what is left of k is left of k.
LEMMA WithinTransitive ==
    ASSUME NEW k, NEW l, NEW m, Within(k, l), Within(l, m)
    PROVE  Within(k, m)
BY DEF Within

\* Removing a sequence takes one tag from every cell.
LEMMA RmEffect ==
    ASSUME NEW k, NEW h \in Nat, Sound(k, h), NEW s \in Nat
    PROVE  /\ Sound(SeqRm(k, s), h) /\ Within(k, SeqRm(k, s))
           /\ \A c : Tag(SeqRm(k, s), c) = Tag(k, c) \ {s}
<1> DEFINE freed == {c \in DOMAIN k.cells : k.cells[c].tags = {s}}
           l == SeqRm(k, s)
<1>1. /\ DOMAIN l.cells = (DOMAIN k.cells) \ freed
      /\ \A c \in (DOMAIN k.cells) \ freed : l.cells[c] = [k.cells[c] EXCEPT !.tags = @ \ {s}]
      /\ l.head = IF freed = {} THEN k.head ELSE Min(freed)
  BY DEF SeqRm
<1>2. /\ DOMAIN k.cells \subseteq 0 .. h - 1 /\ k.head \in 0 .. h
      /\ \A c \in DOMAIN k.cells : k.cells[c] \in Cells /\ k.cells[c].tags # {}
  BY DEF Sound
<1>3. freed \subseteq Nat /\ freed \subseteq 0 .. h - 1 /\ freed \subseteq DOMAIN k.cells
  BY <1>2
<1>4. l.head \in 0 .. h
  <2>1. CASE freed = {}
    BY <1>1, <1>2, <2>1
  <2>2. CASE freed # {}
    <3>1. Min(freed) \in freed
      BY <1>3, <2>2, LeastNatural
    <3>2. Min(freed) \in 0 .. h - 1 /\ l.head = Min(freed)
      BY <1>1, <1>3, <2>2, <3>1
    <3> HIDE DEF freed, l
    <3> QED BY <3>2
  <2> QED BY <2>1, <2>2
<1>5. ASSUME NEW c \in (DOMAIN k.cells) \ freed
      PROVE  /\ l.cells[c] \in Cells
             /\ l.cells[c].tags = k.cells[c].tags \ {s} /\ l.cells[c].tags # {}
             /\ l.cells[c].pos = k.cells[c].pos /\ l.cells[c].path = k.cells[c].path
  <2>1. k.cells[c] \in Cells /\ k.cells[c].tags # {} /\ k.cells[c].tags # {s}
    BY <1>2, <1>5
  <2>2. l.cells[c] = [k.cells[c] EXCEPT !.tags = @ \ {s}]
    BY <1>1, <1>5
  <2> HIDE DEF l
  <2> QED BY <2>1, <2>2 DEF Cells
<1> HIDE DEF l
<1>6. Sound(l, h)
  <2>1. DOMAIN l.cells \subseteq 0 .. h - 1
    BY <1>1, <1>2
  <2> HIDE DEF freed
  <2> QED BY <1>1, <1>4, <1>5, <2>1 DEF Sound
<1>7. Within(k, l)
  <2> HIDE DEF freed
  <2> QED BY <1>1, <1>5 DEF Within
<1>8. ASSUME NEW c PROVE Tag(l, c) = Tag(k, c) \ {s}
  <2>1. CASE c \in (DOMAIN k.cells) \ freed
    BY <1>1, <1>5, <2>1 DEF Tag
  <2>2. CASE c \in freed
    BY <1>1, <2>2 DEF Tag
  <2>3. CASE c \notin DOMAIN k.cells
    BY <1>1, <2>3 DEF Tag
  <2> QED BY <2>1, <2>2, <2>3
<1> QED BY <1>6, <1>7, <1>8 DEF l

\* Copying a sequence adds a tag to the cells that have the other.
LEMMA CpEffect ==
    ASSUME NEW k, NEW h \in Nat, Sound(k, h), NEW from, NEW to \in Nat
    PROVE  /\ Sound(SeqCp(k, from, to), h) /\ Within(k, SeqCp(k, from, to))
           /\ DOMAIN SeqCp(k, from, to).cells = DOMAIN k.cells
           /\ \A c : Tag(SeqCp(k, from, to), c) =
                       IF from \in Tag(k, c) THEN Tag(k, c) \cup {to} ELSE Tag(k, c)
<1> DEFINE l == SeqCp(k, from, to)
           new(c) == IF from \in k.cells[c].tags THEN k.cells[c].tags \cup {to}
                     ELSE k.cells[c].tags
<1>1. /\ DOMAIN l.cells = DOMAIN k.cells /\ l.head = 0
      /\ \A c \in DOMAIN k.cells : l.cells[c] = [k.cells[c] EXCEPT !.tags = new(c)]
  BY DEF SeqCp
<1>2. /\ DOMAIN k.cells \subseteq 0 .. h - 1
      /\ \A c \in DOMAIN k.cells : k.cells[c] \in Cells /\ k.cells[c].tags # {}
  BY DEF Sound
<1> HIDE DEF l
<1>3. ASSUME NEW c \in DOMAIN k.cells
      PROVE  /\ l.cells[c] \in Cells
             /\ l.cells[c].tags = new(c) /\ l.cells[c].tags # {}
             /\ l.cells[c].pos = k.cells[c].pos /\ l.cells[c].path = k.cells[c].path
  <2>1. k.cells[c] \in Cells /\ k.cells[c].tags # {}
    BY <1>2
  <2>2. new(c) \in SUBSET Nat /\ new(c) # {}
    BY <2>1 DEF Cells
  <2>3. l.cells[c] = [k.cells[c] EXCEPT !.tags = new(c)]
    BY <1>1
  <2> HIDE DEF new
  <2> QED BY <2>1, <2>2, <2>3 DEF Cells
<1>4. Sound(l, h)
  <2>1. DOMAIN l.cells \subseteq 0 .. h - 1 /\ l.head \in 0 .. h
    BY <1>1, <1>2
  <2>2. \A c \in DOMAIN l.cells : l.cells[c] \in Cells /\ l.cells[c].tags # {}
    BY <1>1, <1>3
  <2> QED BY <2>1, <2>2 DEF Sound
<1>5. Within(k, l)
  BY <1>1, <1>3 DEF Within
<1>6. ASSUME NEW c
      PROVE  Tag(l, c) = IF from \in Tag(k, c) THEN Tag(k, c) \cup {to} ELSE Tag(k, c)
  BY <1>1, <1>3 DEF Tag
<1> QED BY <1>1, <1>4, <1>5, <1>6 DEF l

\* The first loop over the decoders runs.
LEMMA SaveLoop ==
    ASSUME NEW src, call.dec \in Nat
    PROVE  \E f : /\ f[0] = kv
                  /\ \A i \in 1 .. call.dec : f[i] = Save(f[i - 1], i - 1, src)
                  /\ SaveHistories(src) = f[call.dec]
<1> DEFINE Runs(f, n) ==
             f = [i \in 0 .. n |-> IF i = 0 THEN kv ELSE Save(f[i - 1], i - 1, src)]
           T == {n \in Nat : \E f : Runs(f, n)}
<1>1. 0 \in T
  <2> DEFINE g == [i \in 0 .. 0 |-> kv]
  <2>1. Runs(g, 0)
    OBVIOUS
  <2> QED BY <2>1
<1>2. ASSUME NEW n \in Nat, n \in T PROVE n + 1 \in T
  <2>1. PICK f : Runs(f, n)
    BY <1>2
  <2> DEFINE g == [i \in 0 .. n + 1 |-> IF i <= n THEN f[i] ELSE Save(f[n], n, src)]
  <2>2. ASSUME NEW i \in 0 .. n + 1
        PROVE  g[i] = IF i = 0 THEN kv ELSE Save(g[i - 1], i - 1, src)
    <3>1. CASE i = 0
      BY <2>1, <3>1
    <3>2. CASE i \in 1 .. n
      <4>1. f[i] = Save(f[i - 1], i - 1, src)
        BY <2>1, <3>2
      <4>2. g[i] = f[i] /\ g[i - 1] = f[i - 1] /\ i # 0
        BY <3>2
      <4> HIDE DEF g
      <4> QED BY <4>1, <4>2
    <3>3. CASE i = n + 1
      <4>1. g[i] = Save(f[n], n, src) /\ g[n] = f[n] /\ i - 1 = n /\ i # 0
        BY <3>3
      <4> HIDE DEF g
      <4> QED BY <4>1
    <3> QED BY <3>1, <3>2, <3>3
  <2>3. g = [i \in 0 .. n + 1 |-> g[i]]
    OBVIOUS
  <2> HIDE DEF g
  <2>4. g = [i \in 0 .. n + 1 |-> IF i = 0 THEN kv ELSE Save(g[i - 1], i - 1, src)]
    BY <2>2, <2>3
  <2> QED BY <2>4
<1>3. \A n \in Nat : n \in T
  <2> HIDE DEF T
  <2> QED BY <1>1, <1>2, SetInduction
<1> DEFINE f == CHOOSE f : Runs(f, call.dec)
<1>4. Runs(f, call.dec)
  BY <1>3
<1>5. SaveHistories(src) = f[call.dec]
  BY DEF SaveHistories
<1> HIDE DEF f
<1>6. f[0] = kv /\ \A i \in 1 .. call.dec : f[i] = Save(f[i - 1], i - 1, src)
  BY <1>4
<1> QED BY <1>5, <1>6

\* The second loop over the decoders runs.
LEMMA MoveLoop ==
    ASSUME NEW src, call.dec \in Nat
    PROVE  \E f : /\ f[0] = SaveHistories(src)
                  /\ \A i \in 1 .. call.dec : f[i] = Move(f[i - 1], i - 1)
                  /\ MoveHistories(src) = f[call.dec]
<1> DEFINE Runs(f, n) ==
             f = [i \in 0 .. n |-> IF i = 0 THEN SaveHistories(src) ELSE Move(f[i - 1], i - 1)]
           T == {n \in Nat : \E f : Runs(f, n)}
<1>1. 0 \in T
  <2> DEFINE g == [i \in 0 .. 0 |-> SaveHistories(src)]
  <2>1. Runs(g, 0)
    OBVIOUS
  <2> QED BY <2>1
<1>2. ASSUME NEW n \in Nat, n \in T PROVE n + 1 \in T
  <2>1. PICK f : Runs(f, n)
    BY <1>2
  <2> DEFINE g == [i \in 0 .. n + 1 |-> IF i <= n THEN f[i] ELSE Move(f[n], n)]
  <2>2. ASSUME NEW i \in 0 .. n + 1
        PROVE  g[i] = IF i = 0 THEN SaveHistories(src) ELSE Move(g[i - 1], i - 1)
    <3>1. CASE i = 0
      BY <2>1, <3>1
    <3>2. CASE i \in 1 .. n
      <4>1. f[i] = Move(f[i - 1], i - 1)
        BY <2>1, <3>2
      <4>2. g[i] = f[i] /\ g[i - 1] = f[i - 1] /\ i # 0
        BY <3>2
      <4> HIDE DEF g
      <4> QED BY <4>1, <4>2
    <3>3. CASE i = n + 1
      <4>1. g[i] = Move(f[n], n) /\ g[n] = f[n] /\ i - 1 = n /\ i # 0
        BY <3>3
      <4> HIDE DEF g
      <4> QED BY <4>1
    <3> QED BY <3>1, <3>2, <3>3
  <2>3. g = [i \in 0 .. n + 1 |-> g[i]]
    OBVIOUS
  <2> HIDE DEF g
  <2>4. g = [i \in 0 .. n + 1 |-> IF i = 0 THEN SaveHistories(src) ELSE Move(g[i - 1], i - 1)]
    BY <2>2, <2>3
  <2> QED BY <2>4
<1>3. \A n \in Nat : n \in T
  <2> HIDE DEF T
  <2> QED BY <1>1, <1>2, SetInduction
<1> DEFINE f == CHOOSE f : Runs(f, call.dec)
<1>4. Runs(f, call.dec)
  BY <1>3
<1>5. MoveHistories(src) = f[call.dec]
  BY DEF MoveHistories
<1> HIDE DEF f
<1>6. f[0] = SaveHistories(src) /\ \A i \in 1 .. call.dec : f[i] = Move(f[i - 1], i - 1)
  BY <1>4
<1> QED BY <1>5, <1>6

\* k is the cache with the sources of the first n decoders saved.
Saved(src, k, n) ==
    /\ Within(kv, k)
    /\ \A c : /\ \A s \in Tag(k, c) : s \in Dec \/ \E j \in live : s = Scratch(j)
              /\ \A s \in Dec : s \in Tag(k, c) <=> s \in Tag(kv, c)
              /\ \A j \in live : Scratch(j) \in Tag(k, c) <=> j < n /\ src[j] \in Tag(kv, c)

\* k is the cache once the first n decoders have moved to their sources.
Moved(src, k, n) ==
    /\ Within(kv, k)
    /\ \A c : /\ \A s \in Tag(k, c) : s \in Dec \/ \E j \in live : s = Scratch(j)
              /\ \A s \in Dec : s \in Tag(k, c) <=>
                    (IF s \in live /\ s < n THEN src[s] ELSE s) \in Tag(kv, c)
              /\ \A j \in live : Scratch(j) \in Tag(k, c) <=> j >= n /\ src[j] \in Tag(kv, c)

\* What the loops start from.
LoopsStart(src, h) ==
    /\ call.dec \in Nat /\ live \subseteq Dec /\ src \in [live -> live]
    /\ Sound(kv, h) /\ \A c : Tag(kv, c) \subseteq Dec

\* Scratch ids are no decoders' and differ.
LEMMA ScratchIds ==
    ASSUME call.dec \in Nat
    PROVE  /\ \A j \in Dec : j \in Nat /\ Scratch(j) \in Nat /\ Scratch(j) \notin Dec
           /\ \A i, j \in Dec : Scratch(i) = Scratch(j) => i = j
BY DEF Dec, Scratch

\* One turn of the first loop.
LEMMA SaveStep ==
    ASSUME NEW src, NEW h \in Nat, LoopsStart(src, h), NEW k, Sound(k, h),
           NEW n \in Dec, Saved(src, k, n)
    PROVE  Sound(Save(k, n, src), h) /\ Saved(src, Save(k, n, src), n + 1)
<1>1. n \in Nat /\ \A j \in live : j \in Nat /\ j \in Dec
  BY ScratchIds DEF LoopsStart
<1>2. CASE n \in live
  <2>0. PICK from \in live : from = src[n]
    BY <1>2 DEF LoopsStart
  <2> DEFINE l == SeqCp(k, from, Scratch(n))
  <2>1. l = Save(k, n, src)
    BY <1>2, <2>0 DEF Save
  <2>2. src[n] \in live /\ src[n] \in Dec /\ Scratch(n) \in Nat /\ Scratch(n) \notin Dec
    BY <1>2, ScratchIds DEF LoopsStart
  <2>3. /\ Sound(l, h) /\ Within(k, l)
        /\ \A c : Tag(l, c) = IF src[n] \in Tag(k, c) THEN Tag(k, c) \cup {Scratch(n)} ELSE Tag(k, c)
    <3>1. /\ Sound(l, h) /\ Within(k, l)
          /\ \A c : Tag(l, c) = IF from \in Tag(k, c) THEN Tag(k, c) \cup {Scratch(n)} ELSE Tag(k, c)
      BY <2>2, CpEffect
    <3> QED BY <2>0, <3>1
  <2> HIDE DEF l
  <2>4. Within(kv, l)
    BY <2>3, WithinTransitive DEF Saved
  <2>5. ASSUME NEW c
        PROVE  /\ \A s \in Tag(l, c) : s \in Dec \/ \E j \in live : s = Scratch(j)
               /\ \A s \in Dec : s \in Tag(l, c) <=> s \in Tag(kv, c)
               /\ \A j \in live : Scratch(j) \in Tag(l, c) <=> j < n + 1 /\ src[j] \in Tag(kv, c)
    <3>1. /\ \A s \in Tag(k, c) : s \in Dec \/ \E j \in live : s = Scratch(j)
          /\ \A s \in Dec : s \in Tag(k, c) <=> s \in Tag(kv, c)
          /\ \A j \in live : Scratch(j) \in Tag(k, c) <=> j < n /\ src[j] \in Tag(kv, c)
      BY DEF Saved
    <3>2. Tag(l, c) = IF src[n] \in Tag(kv, c) THEN Tag(k, c) \cup {Scratch(n)} ELSE Tag(k, c)
      BY <2>2, <2>3, <3>1
    <3>3. \A s \in Tag(l, c) : s \in Dec \/ \E j \in live : s = Scratch(j)
      BY <1>2, <3>1, <3>2
    <3>4. \A s \in Dec : s \in Tag(l, c) <=> s \in Tag(kv, c)
      BY <2>2, <3>1, <3>2
    <3>5. ASSUME NEW j \in live
          PROVE  Scratch(j) \in Tag(l, c) <=> j < n + 1 /\ src[j] \in Tag(kv, c)
      <4>1. CASE j = n
        <5>1. Scratch(j) \notin Tag(k, c) /\ j < n + 1
          BY <1>1, <3>1, <4>1
        <5> QED BY <3>2, <4>1, <5>1
      <4>2. CASE j # n
        <5>1. Scratch(j) # Scratch(n)
          BY <1>1, <4>2, ScratchIds DEF LoopsStart
        <5>2. j < n + 1 <=> j < n
          BY <1>1, <4>2
        <5>3. Scratch(j) \in Tag(l, c) <=> Scratch(j) \in Tag(k, c)
          BY <3>2, <5>1
        <5> QED BY <3>1, <5>2, <5>3
      <4> QED BY <4>1, <4>2
    <3> QED BY <3>3, <3>4, <3>5
  <2> QED BY <2>1, <2>3, <2>4, <2>5 DEF Saved
<1>3. CASE n \notin live
  <2>1. Save(k, n, src) = k
    BY <1>3 DEF Save
  <2>2. \A j \in live : j < n + 1 <=> j < n
    BY <1>1, <1>3
  <2> QED BY <2>1, <2>2 DEF Saved
<1> QED BY <1>2, <1>3

\* One turn of the second loop: n drops its tags for those saved for it.
LEMMA MoveStep ==
    ASSUME NEW src, NEW h \in Nat, LoopsStart(src, h), NEW k, Sound(k, h),
           NEW n \in Dec, Moved(src, k, n)
    PROVE  Sound(Move(k, n), h) /\ Moved(src, Move(k, n), n + 1)
<1>1. n \in Nat /\ \A j \in live : j \in Nat /\ j \in Dec
  BY ScratchIds DEF LoopsStart
<1>2. CASE n \in live
  <2> DEFINE k1 == SeqRm(k, n)
             k2 == SeqCp(k1, Scratch(n), n)
             l == SeqRm(k2, Scratch(n))
  <2>1. l = Move(k, n)
    BY <1>2 DEF Move
  <2>2. src[n] \in live /\ src[n] \in Dec /\ Scratch(n) \in Nat /\ Scratch(n) \notin Dec
    BY <1>2, ScratchIds DEF LoopsStart
  <2>3. Sound(k1, h) /\ Within(k, k1) /\ \A c : Tag(k1, c) = Tag(k, c) \ {n}
    BY <1>1, RmEffect
  <2> HIDE DEF k1
  <2>4. /\ Sound(k2, h) /\ Within(k1, k2)
        /\ \A c : Tag(k2, c) = IF Scratch(n) \in Tag(k1, c) THEN Tag(k1, c) \cup {n} ELSE Tag(k1, c)
    BY <1>1, <2>3, CpEffect
  <2> HIDE DEF k2
  <2>5. Sound(l, h) /\ Within(k2, l) /\ \A c : Tag(l, c) = Tag(k2, c) \ {Scratch(n)}
    BY <2>2, <2>4, RmEffect
  <2> HIDE DEF l
  <2>6. Within(kv, l)
    <3>1. Within(kv, k1)
      BY <2>3, WithinTransitive DEF Moved
    <3>2. Within(kv, k2)
      BY <2>4, <3>1, WithinTransitive
    <3> QED BY <2>5, <3>2, WithinTransitive
  <2>7. ASSUME NEW c
        PROVE  /\ \A s \in Tag(l, c) : s \in Dec \/ \E j \in live : s = Scratch(j)
               /\ \A s \in Dec : s \in Tag(l, c) <=>
                     (IF s \in live /\ s < n + 1 THEN src[s] ELSE s) \in Tag(kv, c)
               /\ \A j \in live : Scratch(j) \in Tag(l, c) <=> j >= n + 1 /\ src[j] \in Tag(kv, c)
    <3>1. /\ \A s \in Tag(k, c) : s \in Dec \/ \E j \in live : s = Scratch(j)
          /\ \A s \in Dec : s \in Tag(k, c) <=>
                (IF s \in live /\ s < n THEN src[s] ELSE s) \in Tag(kv, c)
          /\ \A j \in live : Scratch(j) \in Tag(k, c) <=> j >= n /\ src[j] \in Tag(kv, c)
      BY DEF Moved
    <3>2. Scratch(n) \in Tag(k, c) <=> src[n] \in Tag(kv, c)
      BY <1>1, <1>2, <3>1
    <3>3. n # Scratch(n)
      BY <2>2
    <3>4. \A s : s \in Tag(l, c) <=>
             /\ s # Scratch(n)
             /\ IF s = n THEN src[n] \in Tag(kv, c) ELSE s \in Tag(k, c)
      BY <2>3, <2>4, <2>5, <3>2, <3>3
    <3>5. \A s \in Tag(l, c) : s \in Dec \/ \E j \in live : s = Scratch(j)
      BY <3>1, <3>4
    <3>6. ASSUME NEW s \in Dec
          PROVE  s \in Tag(l, c) <=>
                    (IF s \in live /\ s < n + 1 THEN src[s] ELSE s) \in Tag(kv, c)
      <4>1. s # Scratch(n)
        BY <2>2
      <4>2. CASE s = n
        <5>1. s < n + 1
          BY <1>1, <4>2
        <5> QED BY <1>2, <3>4, <4>1, <4>2, <5>1
      <4>3. CASE s # n
        <5>1. s \in live => (s < n + 1 <=> s < n)
          BY <1>1, <4>3
        <5>2. s \in Tag(l, c) <=> s \in Tag(k, c)
          BY <3>4, <4>1, <4>3
        <5> QED BY <3>1, <5>1, <5>2
      <4> QED BY <4>2, <4>3
    <3>7. ASSUME NEW j \in live
          PROVE  Scratch(j) \in Tag(l, c) <=> j >= n + 1 /\ src[j] \in Tag(kv, c)
      <4>1. CASE j = n
        <5>1. ~(j >= n + 1)
          BY <1>1, <4>1
        <5> QED BY <3>4, <4>1, <5>1
      <4>2. CASE j # n
        <5>1. Scratch(j) # Scratch(n) /\ Scratch(j) # n
          BY <1>1, <4>2, ScratchIds DEF LoopsStart
        <5>2. j >= n + 1 <=> j >= n
          BY <1>1, <4>2
        <5>3. Scratch(j) \in Tag(l, c) <=> Scratch(j) \in Tag(k, c)
          BY <3>4, <5>1
        <5> QED BY <3>1, <5>2, <5>3
      <4> QED BY <4>1, <4>2
    <3> QED BY <3>5, <3>6, <3>7
  <2> QED BY <2>1, <2>5, <2>6, <2>7 DEF Moved
<1>3. CASE n \notin live
  <2>1. Move(k, n) = k
    BY <1>3 DEF Move
  <2>2. \A j \in live : (j < n + 1 <=> j < n) /\ (j >= n + 1 <=> j >= n)
    BY <1>1, <1>3
  <2> QED BY <2>1, <2>2 DEF Moved
<1> QED BY <1>2, <1>3

\* The moves of the code amount to one simultaneous move: afterwards every
\* live decoder has the tags its source had, and no scratch id is left.
LEMMA MoveEffect ==
    ASSUME NEW src, NEW h \in Nat, LoopsStart(src, h)
    PROVE  /\ Sound(MoveHistories(src), h) /\ Within(kv, MoveHistories(src))
           /\ \A c : /\ Tag(MoveHistories(src), c) \subseteq Dec
                     /\ \A s \in Dec : s \in Tag(MoveHistories(src), c) <=>
                           (IF s \in live THEN src[s] ELSE s) \in Tag(kv, c)
<1>1. call.dec \in Nat /\ Sound(kv, h)
  BY DEF LoopsStart
<1>2. \A j \in live : j \in Nat /\ j \in Dec /\ j < call.dec /\ j >= 0 /\ Scratch(j) \notin Dec
  BY ScratchIds DEF LoopsStart, Dec
<1>3. PICK f : /\ f[0] = kv
               /\ \A i \in 1 .. call.dec : f[i] = Save(f[i - 1], i - 1, src)
               /\ SaveHistories(src) = f[call.dec]
  BY <1>1, SaveLoop
<1>4. Sound(f[call.dec], h) /\ Saved(src, f[call.dec], call.dec)
  <2> DEFINE T == {n \in Nat : n <= call.dec => Sound(f[n], h) /\ Saved(src, f[n], n)}
  <2>1. 0 \in T
    <3>1. Saved(src, kv, 0)
      BY <1>2, WithinItself DEF Saved, LoopsStart
    <3> QED BY <1>1, <1>3, <3>1
  <2>2. ASSUME NEW n \in Nat, n \in T PROVE n + 1 \in T
    <3> SUFFICES ASSUME n + 1 <= call.dec
                 PROVE  Sound(f[n + 1], h) /\ Saved(src, f[n + 1], n + 1)
      OBVIOUS
    <3>1. n \in Dec /\ n + 1 \in 1 .. call.dec /\ n + 1 - 1 = n
      BY <1>1 DEF Dec
    <3>2. PICK k : k = f[n]
      OBVIOUS
    <3>3. Sound(k, h) /\ Saved(src, k, n)
      BY <1>1, <2>2, <3>2
    <3>4. f[n + 1] = Save(k, n, src)
      BY <1>3, <3>1, <3>2
    <3>5. Sound(Save(k, n, src), h) /\ Saved(src, Save(k, n, src), n + 1)
      BY <3>1, <3>3, SaveStep
    <3> QED BY <3>4, <3>5
  <2>3. \A n \in Nat : n \in T
    <3> HIDE DEF T
    <3> QED BY <2>1, <2>2, SetInduction
  <2> QED BY <1>1, <2>3
<1>5. PICK g : /\ g[0] = SaveHistories(src)
               /\ \A i \in 1 .. call.dec : g[i] = Move(g[i - 1], i - 1)
               /\ MoveHistories(src) = g[call.dec]
  BY <1>1, MoveLoop
<1>6. Sound(g[call.dec], h) /\ Moved(src, g[call.dec], call.dec)
  <2> DEFINE T == {n \in Nat : n <= call.dec => Sound(g[n], h) /\ Moved(src, g[n], n)}
  <2>1. 0 \in T
    <3>1. PICK k : k = f[call.dec]
      OBVIOUS
    <3>2. Saved(src, k, call.dec) /\ Sound(k, h) /\ g[0] = k
      BY <1>3, <1>4, <1>5, <3>1
    <3>3. Moved(src, k, 0)
      BY <1>2, <3>2 DEF Saved, Moved
    <3> QED BY <3>2, <3>3
  <2>2. ASSUME NEW n \in Nat, n \in T PROVE n + 1 \in T
    <3> SUFFICES ASSUME n + 1 <= call.dec
                 PROVE  Sound(g[n + 1], h) /\ Moved(src, g[n + 1], n + 1)
      OBVIOUS
    <3>1. n \in Dec /\ n + 1 \in 1 .. call.dec /\ n + 1 - 1 = n
      BY <1>1 DEF Dec
    <3>2. PICK k : k = g[n]
      OBVIOUS
    <3>3. Sound(k, h) /\ Moved(src, k, n)
      BY <1>1, <2>2, <3>2
    <3>4. g[n + 1] = Move(k, n)
      BY <1>5, <3>1, <3>2
    <3>5. Sound(Move(k, n), h) /\ Moved(src, Move(k, n), n + 1)
      BY <3>1, <3>3, MoveStep
    <3> QED BY <3>4, <3>5
  <2>3. \A n \in Nat : n \in T
    <3> HIDE DEF T
    <3> QED BY <2>1, <2>2, SetInduction
  <2> QED BY <1>1, <2>3
<1>7. PICK k : k = MoveHistories(src)
  OBVIOUS
<1>8. Sound(k, h) /\ Moved(src, k, call.dec)
  BY <1>5, <1>6, <1>7
<1>9. ASSUME NEW c
      PROVE  /\ Tag(k, c) \subseteq Dec
             /\ \A s \in Dec : s \in Tag(k, c) <=>
                   (IF s \in live THEN src[s] ELSE s) \in Tag(kv, c)
  <2>1. /\ \A s \in Tag(k, c) : s \in Dec \/ \E j \in live : s = Scratch(j)
        /\ \A s \in Dec : s \in Tag(k, c) <=>
              (IF s \in live /\ s < call.dec THEN src[s] ELSE s) \in Tag(kv, c)
        /\ \A j \in live : Scratch(j) \in Tag(k, c) <=> j >= call.dec /\ src[j] \in Tag(kv, c)
    BY <1>8 DEF Moved
  <2>2. \A j \in live : ~(j >= call.dec)
    BY <1>1, <1>2
  <2> QED BY <1>2, <2>1, <2>2
<1> QED BY <1>7, <1>8, <1>9 DEF Moved

----------------------------------------------------------------------------

\* What is dealt: every decoder gets a candidate, and when there are no more
\* candidates than decoders, every candidate is dealt.
LEMMA DealEffect ==
    ASSUME NEW cands, IsFiniteSet(cands), cands # {}, cands \subseteq Nat \X Nat,
           IsFiniteSet(live), live \subseteq Nat
    PROVE  /\ Cardinality(cands) \in Nat
           /\ \A j \in live : Deal(cands)[j] \in cands
           /\ Cardinality(cands) <= Cardinality(live) =>
                 \A x \in cands : \E j \in live : Deal(cands)[j] = x
<1> DEFINE R == {p \in cands \X cands : Before(p[1], p[2])}
           m == Cardinality(cands)
<1>1. \A x \in cands : Place(cands, R, x) = Turn(cands, x)
  <2> SUFFICES ASSUME NEW x \in cands PROVE Place(cands, R, x) = Turn(cands, x)
    OBVIOUS
  <2>1. {y \in cands : <<y, x>> \in R} = {y \in cands : Before(y, x)}
    OBVIOUS
  <2> QED BY <2>1 DEF Place, Turn
<1>2. \A x \in cands : x[1] \in Nat /\ x[2] \in Nat /\ x = <<x[1], x[2]>>
  OBVIOUS
<1>3. \A x \in cands : <<x, x>> \notin R
  BY <1>2 DEF Before
<1>4. \A x, y \in cands : x # y => <<x, y>> \in R \/ <<y, x>> \in R
  <2> SUFFICES ASSUME NEW x \in cands, NEW y \in cands, x # y
               PROVE  Before(x, y) \/ Before(y, x)
    OBVIOUS
  <2>1. x[1] # y[1] \/ x[2] # y[2]
    BY <1>2
  <2> QED BY <1>2, <2>1 DEF Before
<1>5. \A x, y, z \in cands : <<x, y>> \in R /\ <<y, z>> \in R => <<x, z>> \in R
  BY <1>2 DEF Before
<1> HIDE DEF R
<1>6. /\ m \in Nat
      /\ \A x \in cands : Turn(cands, x) \in 0 .. m - 1
      /\ \A x, y \in cands : Turn(cands, x) = Turn(cands, y) => x = y
      /\ \A n \in 0 .. m - 1 : \E x \in cands : Turn(cands, x) = n
  <2>1. /\ m \in Nat
        /\ \A x \in cands : Place(cands, R, x) \in 0 .. m - 1
        /\ \A x, y \in cands : Place(cands, R, x) = Place(cands, R, y) => x = y
        /\ \A n \in 0 .. m - 1 : \E x \in cands : Place(cands, R, x) = n
    BY ONLY IsFiniteSet(cands), <1>3, <1>4, <1>5, Places
  <2> QED BY <1>1, <2>1
<1>7. /\ Cardinality(live) \in Nat
      /\ \A j \in live : Rank(live, j) \in 0 .. Cardinality(live) - 1
      /\ \A n \in 0 .. Cardinality(live) - 1 : \E j \in live : Rank(live, j) = n
  <2>1. live \subseteq Int
    OBVIOUS
  <2> QED BY ONLY IsFiniteSet(live), <2>1, Ranks
<1>8. m # 0
  BY FS_EmptySet
<1> HIDE DEF m
<1>9. ASSUME NEW j \in live
      PROVE  /\ Deal(cands)[j] \in cands
             /\ Turn(cands, Deal(cands)[j]) = Rank(live, j) % m
  <2>1. Rank(live, j) % m \in 0 .. m - 1
    BY <1>6, <1>7, <1>8
  <2>2. \E x \in cands : Turn(cands, x) = Rank(live, j) % m
    BY <1>6, <2>1
  <2> QED BY <2>2 DEF Deal, m
<1>10. ASSUME m <= Cardinality(live), NEW x \in cands
       PROVE  \E j \in live : Deal(cands)[j] = x
  <2>1. Turn(cands, x) \in 0 .. m - 1
    BY <1>6
  <2>2. PICK j \in live : Rank(live, j) = Turn(cands, x)
    BY <1>6, <1>7, <1>10, <2>1
  <2>3. Rank(live, j) % m = Rank(live, j)
    BY <1>6, <1>8, <2>1, <2>2
  <2>4. Turn(cands, Deal(cands)[j]) = Turn(cands, x)
    BY <1>9, <2>2, <2>3
  <2> QED BY <1>6, <1>9, <2>4
<1> QED BY <1>6, <1>9, <1>10 DEF m

\* What the decoders propose: finitely many sequences, each with its origin.
LEMMA Proposals ==
    ASSUME NEW offer \in [live -> (SUBSET Tokens) \ {{}}],
           IsFiniteSet(Tokens), IsFiniteSet(live), live # {}
    PROVE  /\ IsFiniteSet(Proposed(offer)) /\ Proposed(offer) # {}
           /\ \A w \in Proposed(offer) : \E j \in live : \E t \in offer[j] : w = Append(seq[j], t)
<1> DEFINE S == live \X Tokens
           f == [x \in S |-> Append(seq[x[1]], x[2])]
           img == {f[x] : x \in S}
<1>1. IsFiniteSet(S)
  BY FS_Product
<1>2. f \in Surjection(S, img)
  BY DEF Surjection
<1>3. \A w \in Proposed(offer) : \E j \in live : \E t \in offer[j] : w = Append(seq[j], t)
  BY DEF Proposed
<1>4. Proposed(offer) \in SUBSET img
  <2>1. ASSUME NEW j \in live, NEW t \in offer[j] PROVE Append(seq[j], t) \in img
    <3>1. <<j, t>> \in S
      OBVIOUS
    <3>2. f[<<j, t>>] = Append(seq[j], t)
      BY <3>1
    <3> HIDE DEF S, f
    <3> QED BY <3>1, <3>2
  <2> HIDE DEF S, f, img
  <2>2. ASSUME NEW w \in Proposed(offer) PROVE w \in img
    <3>1. PICK j \in live : \E t \in offer[j] : w = Append(seq[j], t)
      BY <1>3
    <3>2. PICK t \in offer[j] : w = Append(seq[j], t)
      BY <3>1
    <3> QED BY <2>1, <3>2
  <2> QED BY <2>2
<1>5. Proposed(offer) # {}
  <2>1. PICK j \in live : TRUE
    OBVIOUS
  <2>2. PICK t \in offer[j] : TRUE
    OBVIOUS
  <2>3. Append(seq[j], t) \in Proposed(offer)
    BY DEF Proposed
  <2> QED BY <2>3
<1> HIDE DEF S, f, img
<1>6. IsFiniteSet(img)
  BY <1>1, <1>2, FS_Surjection
<1> QED BY <1>3, <1>4, <1>5, <1>6, FS_Subset

\* What the candidates dealt are: for every one of the best sequences at
\* least one, after the first step exactly one.
LEMMA CandidatesEffect ==
    ASSUME NEW offer \in [live -> (SUBSET Tokens) \ {{}}], IsFiniteSet(live), live \subseteq Nat,
           NEW m \in Nat \ {0}, NEW order \in [1 .. m -> Proposed(offer)]
    PROVE  /\ IsFiniteSet(Dealt(Candidates(offer, order)))
           /\ Dealt(Candidates(offer, order)) # {}
           /\ \A x \in Dealt(Candidates(offer, order)) :
                 /\ x[1] \in 1 .. m /\ x[2] \in live /\ x \in Nat \X Nat
                 /\ \E t \in offer[x[2]] : order[x[1]] = Append(seq[x[2]], t)
           /\ \A n \in 1 .. m : \E x \in Dealt(Candidates(offer, order)) : x[1] = n
           /\ step # 0 => \A x, y \in Dealt(Candidates(offer, order)) : x[1] = y[1] => x = y
<1> DEFINE C == Candidates(offer, order)
           D == Dealt(C)
<1>1. C = {x \in (1 .. m) \X live : \E t \in offer[x[2]] : Append(seq[x[2]], t) = order[x[1]]}
  BY DEF Candidates
<1>2. \A x \in C : /\ x[1] \in 1 .. m /\ x[2] \in live /\ x \in Nat \X Nat /\ x = <<x[1], x[2]>>
                  /\ \E t \in offer[x[2]] : order[x[1]] = Append(seq[x[2]], t)
  BY <1>1
<1>3. IsFiniteSet(C)
  <2>1. IsFiniteSet(1 .. m)
    BY FS_Interval
  <2>2. IsFiniteSet((1 .. m) \X live)
    BY <2>1, FS_Product
  <2>3. C \in SUBSET ((1 .. m) \X live)
    BY <1>1
  <2> HIDE DEF C
  <2> QED BY <2>2, <2>3, FS_Subset
<1>4. ASSUME NEW n \in 1 .. m PROVE \E j \in live : <<n, j>> \in C
  <2>1. order[n] \in Proposed(offer)
    OBVIOUS
  <2>2. PICK j \in live : \E t \in offer[j] : order[n] = Append(seq[j], t)
    BY <2>1 DEF Proposed
  <2>3. <<n, j>> \in (1 .. m) \X live
    OBVIOUS
  <2> QED BY <1>1, <2>2, <2>3
<1> HIDE DEF C
<1>5. D \in SUBSET C
  BY DEF Dealt
<1>6. ASSUME NEW n \in 1 .. m PROVE \E x \in D : x[1] = n
  <2> DEFINE J == {j \in live : <<n, j>> \in C}
  <2>1. J \subseteq Nat /\ J # {}
    BY <1>4
  <2>2. Min(J) \in J /\ \A j \in J : Min(J) <= j
    BY <2>1, LeastNatural
  <2>3. PICK j \in J : \A i \in J : j <= i
    BY <2>2
  <2>4. <<n, j>> \in C
    OBVIOUS
  <2>5. \A y \in C : y[1] = n => j <= y[2]
    BY <1>2, <2>3
  <2>6. <<n, j>> \in D
    BY <2>4, <2>5 DEF Dealt
  <2> QED BY <2>6
<1>7. ASSUME step # 0, NEW x \in D, NEW y \in D, x[1] = y[1] PROVE x = y
  <2>1. x \in C /\ y \in C /\ x[2] <= y[2] /\ y[2] <= x[2]
    BY <1>5, <1>7 DEF Dealt
  <2>2. x[2] \in Nat /\ y[2] \in Nat /\ x = <<x[1], x[2]>> /\ y = <<y[1], y[2]>>
    BY <1>2, <2>1
  <2>3. x[2] = y[2]
    BY <2>1, <2>2
  <2> QED BY <1>7, <2>2, <2>3
<1>8. IsFiniteSet(D)
  BY <1>3, <1>5, FS_Subset
<1>9. D # {}
  <2>1. 1 \in 1 .. m
    OBVIOUS
  <2> QED BY <1>6, <2>1
<1> QED BY <1>2, <1>5, <1>6, <1>7, <1>8, <1>9 DEF C

----------------------------------------------------------------------------

\* Sequence j of k holds the positions below n, each once, with what is
\* computed from the tokens w.
Holds(k, j, n, w) ==
    /\ \A c \in DOMAIN k.cells : j \in Tag(k, c) =>
          /\ k.cells[c].pos \in 0 .. n - 1
          /\ k.cells[c].path = SubSeq(w, 1, k.cells[c].pos - call.prompt + 1)
    /\ \A p \in 0 .. n - 1 : \E c \in DOMAIN k.cells : j \in Tag(k, c) /\ k.cells[c].pos = p
    /\ \A c, d \in DOMAIN k.cells :
          j \in Tag(k, c) /\ j \in Tag(k, d) /\ k.cells[c].pos = k.cells[d].pos => c = d

\* Every step so far filled at most one cell per decoder after the prompt.
Mark == call.prompt + call.dec * step

\* What a live decoder attends to is what its tokens make it.
HistoriesKept ==
    /\ \A c \in DOMAIN kv.cells : Tag(kv, c) \subseteq Dec
    /\ \A j \in live :
          /\ Len(seq[j]) = step + (IF stage = "decode" THEN 1 ELSE 0)
          /\ Holds(kv, j, call.prompt + step, seq[j])

\* The inductive invariant.
BeamIInv ==
    /\ BeamTypeOK
    /\ Sound(kv, Mark)
    /\ HistoriesKept
    /\ stage # "done" => step < call.steps /\ live # {}
    /\ NoneDealtTwice

\* Products of natural numbers.
LEMMA Products == \A a, b, c \in Nat : a * b \in Nat /\ (b <= c => a * b <= a * c)
OBVIOUS

\* A call of p tokens and n steps on d decoders: s steps before its end there
\* is room for one more cell of each decoder.
LEMMA Room ==
    ASSUME NEW d \in Nat, d > 0, NEW p \in Nat, NEW n \in Nat, NEW s \in Nat, s < n
    PROVE  /\ p + d * s \in Nat
           /\ p + d * s + d <= (p + n) * (IF d > 1 THEN d + 2 ELSE 1)
           /\ p + d * (s + 1) = p + d * s + d
<1>1. d * s \in Nat /\ d * n \in Nat /\ p * d \in Nat /\ d * (s + 1) = d * s + d
  OBVIOUS
<1>2. d * (s + 1) <= d * n
  BY Products
<1>3. CASE d = 1
  BY <1>1, <1>3
<1>4. CASE d > 1
  <2>1. /\ p * (d + 2) = p * d + p * 2 /\ n * (d + 2) = d * n + n * 2
        /\ (p + n) * (d + 2) = p * (d + 2) + n * (d + 2)
    OBVIOUS
  <2> QED BY <1>1, <1>2, <1>4, <2>1
<1> QED BY <1>3, <1>4

\* Sizes of a call.
LEMMA CallSizes ==
    ASSUME BeamTypeOK
    PROVE  /\ call.dec \in Nat \ {0} /\ call.prompt \in Nat \ {0} /\ call.steps \in Nat \ {0}
           /\ step \in Nat /\ step <= call.steps
           /\ Dec \subseteq Nat /\ live \subseteq Nat /\ live \subseteq Int
           /\ IsFiniteSet(live) /\ Cardinality(live) \in Nat /\ Cardinality(live) <= call.dec
<1>1. call.dec \in Nat \ {0} /\ call.prompt \in Nat \ {0} /\ call.steps \in Nat \ {0}
  BY BeamAssumption DEF BeamTypeOK
<1>2. step \in Nat /\ step <= call.steps /\ Dec \subseteq Nat /\ live \subseteq Dec
  BY <1>1 DEF BeamTypeOK, Dec
<1>3. IsFiniteSet(Dec) /\ Cardinality(Dec) = call.dec
  <2>1. 0 \in Int /\ call.dec - 1 \in Int /\ ~(0 > call.dec - 1) /\ call.dec - 1 - 0 + 1 = call.dec
    BY <1>1
  <2> QED BY <2>1, FS_Interval DEF Dec
<1>4. live \in SUBSET Dec
  BY <1>2
<1>5. IsFiniteSet(live) /\ Cardinality(live) <= Cardinality(Dec)
  BY <1>3, <1>4, FS_Subset
<1> QED BY <1>1, <1>2, <1>3, <1>5, FS_CardinalityType

\* The cells below the mark, and one more for each decoder, fit in the cache.
LEMMA MarkFits ==
    ASSUME BeamTypeOK
    PROVE  /\ Mark \in Nat
           /\ step < call.steps => /\ Mark + call.dec <= CellCount
                                  /\ call.prompt + call.dec * (step + 1) = Mark + call.dec
<1>1. PICK d \in Nat, p \in Nat, n \in Nat, s \in Nat :
         d = call.dec /\ p = call.prompt /\ n = call.steps /\ s = step /\ d > 0
  BY CallSizes
<1>2. d * s \in Nat
  BY Products
<1>3. Mark = p + d * s /\ CellCount = (p + n) * (IF d > 1 THEN d + 2 ELSE 1)
  BY <1>1 DEF Mark, CellCount
<1>4. s < n => /\ p + d * s + d <= (p + n) * (IF d > 1 THEN d + 2 ELSE 1)
               /\ p + d * (s + 1) = p + d * s + d
  BY <1>1, Room
<1> QED BY <1>1, <1>2, <1>3, <1>4

\* A token more does not change what comes before it.
LEMMA SubSeqAppend ==
    ASSUME NEW S, NEW w \in Seq(S), NEW t \in S, NEW m \in Int, m <= Len(w)
    PROVE  SubSeq(Append(w, t), 1, m) = SubSeq(w, 1, m)
<1>1. CASE m < 1
  BY <1>1, SubSeqEmpty
<1>2. CASE m >= 1
  <2>1. Append(w, t) = w \o <<t>> /\ <<t>> \in Seq(S)
    OBVIOUS
  <2>2. 1 \in 1 .. Len(w) /\ m \in 1 .. Len(w)
    BY <1>2
  <2> QED BY <2>1, <2>2, SubSeqOfConcat1
<1> QED BY <1>1, <1>2

\* A sequence of the cache that another took over holds for it what it held.
LEMMA HoldsMoved ==
    ASSUME NEW k, NEW l, Within(k, l), NEW s, NEW j, NEW n \in Nat, NEW w \in Seq(Tokens),
           NEW t \in Tokens, call.prompt \in Nat, n - call.prompt <= Len(w),
           \A c : j \in Tag(l, c) <=> s \in Tag(k, c), Holds(k, s, n, w)
    PROVE  Holds(l, j, n, Append(w, t))
<1>1. \A c : j \in Tag(l, c) => /\ c \in DOMAIN l.cells /\ c \in DOMAIN k.cells /\ s \in Tag(k, c)
                              /\ l.cells[c].pos = k.cells[c].pos
                              /\ l.cells[c].path = k.cells[c].path
  BY DEF Tag, Within
<1>2. ASSUME NEW c \in DOMAIN l.cells, j \in Tag(l, c)
      PROVE  /\ l.cells[c].pos \in 0 .. n - 1
             /\ l.cells[c].path = SubSeq(Append(w, t), 1, l.cells[c].pos - call.prompt + 1)
  <2>1. /\ k.cells[c].pos \in 0 .. n - 1
        /\ k.cells[c].path = SubSeq(w, 1, k.cells[c].pos - call.prompt + 1)
    BY <1>1, <1>2 DEF Holds
  <2>2. PICK m \in Int : m = k.cells[c].pos - call.prompt + 1 /\ m <= Len(w)
    BY <2>1
  <2>3. SubSeq(Append(w, t), 1, m) = SubSeq(w, 1, m)
    BY <2>2, SubSeqAppend
  <2> QED BY <1>1, <1>2, <2>1, <2>2, <2>3
<1>3. \A p \in 0 .. n - 1 : \E c \in DOMAIN l.cells : j \in Tag(l, c) /\ l.cells[c].pos = p
  BY <1>1 DEF Holds
<1>4. \A c, d \in DOMAIN l.cells :
         j \in Tag(l, c) /\ j \in Tag(l, d) /\ l.cells[c].pos = l.cells[d].pos => c = d
  BY <1>1 DEF Holds
<1> QED BY <1>2, <1>3, <1>4 DEF Holds

\* What a Sample step does: every live decoder goes on, by one token, from
\* the history of some live decoder, and after the first step as many
\* different sequences are dealt as there are to deal.
LEMMA SampleEffect ==
    ASSUME BeamIInv, Sample
    PROVE  /\ \E src \in [live -> live] :
                 /\ kv' = MoveHistories(src)
                 /\ \A j \in live : \E t \in Tokens : seq'[j] = Append(seq[src[j]], t)
           /\ seq' \in [Dec -> Seq(Tokens)]
           /\ offered' \in Nat
           /\ step > 0 => Cardinality({seq'[j] : j \in live}) = Min({Cardinality(live), offered'})
           /\ stage = "sample" /\ stage' = "decode" /\ UNCHANGED <<call, live, step>>
<1>1. PICK offer \in [live -> (SUBSET Tokens) \ {{}}] :
         \E order \in {o \in [1 .. Min({Cardinality(live), Cardinality(Proposed(offer))}) -> Proposed(offer)] :
                         IsInjective(o)} :
            /\ stage = "sample"
            /\ SampleAndDeal(offer, order)
            /\ offered' = Cardinality(Proposed(offer))
            /\ stage' = "decode"
            /\ UNCHANGED <<call, live, step>>
  BY DEF Sample
<1> DEFINE seqs == Proposed(offer)
           m == Min({Cardinality(live), Cardinality(seqs)})
<1>2. PICK order \in [1 .. m -> seqs] :
            /\ IsInjective(order)
            /\ stage = "sample"
            /\ SampleAndDeal(offer, order)
            /\ offered' = Cardinality(seqs)
            /\ stage' = "decode"
            /\ UNCHANGED <<call, live, step>>
  BY <1>1
<1>3. BeamTypeOK /\ live # {} /\ live \subseteq Dec /\ seq \in [Dec -> Seq(Tokens)]
  BY <1>2 DEF BeamIInv, BeamTypeOK
<1>4. IsFiniteSet(live) /\ Cardinality(live) \in Nat \ {0} /\ live \subseteq Nat /\ step \in Nat
  BY <1>3, CallSizes, FS_EmptySet
<1>5. /\ IsFiniteSet(seqs) /\ Cardinality(seqs) \in Nat \ {0}
      /\ \A w \in seqs : \E j \in live : \E t \in offer[j] : w = Append(seq[j], t)
  <2>1. /\ IsFiniteSet(seqs) /\ seqs # {}
        /\ \A w \in seqs : \E j \in live : \E t \in offer[j] : w = Append(seq[j], t)
    BY <1>3, <1>4, Proposals, BeamAssumption
  <2> HIDE DEF seqs
  <2> QED BY <2>1, FS_EmptySet, FS_CardinalityType
<1> HIDE DEF seqs
<1>6. m \in Nat \ {0} /\ m <= Cardinality(live)
  BY <1>4, <1>5, MinMax
<1> HIDE DEF m
<1> DEFINE D == Dealt(Candidates(offer, order))
           deal == Deal(D)
           src == [j \in live |-> deal[j][2]]
<1>7. /\ IsFiniteSet(D) /\ D # {}
      /\ \A x \in D : /\ x[1] \in 1 .. m /\ x[2] \in live /\ x \in Nat \X Nat
                      /\ \E t \in offer[x[2]] : order[x[1]] = Append(seq[x[2]], t)
      /\ \A n \in 1 .. m : \E x \in D : x[1] = n
      /\ step # 0 => \A x, y \in D : x[1] = y[1] => x = y
  BY <1>4, <1>6, CandidatesEffect DEF seqs
<1>8. /\ seq' = [j \in Dec |-> IF j \in live THEN order[deal[j][1]] ELSE seq[j]]
      /\ kv' = MoveHistories(src)
  BY <1>2 DEF SampleAndDeal
<1> HIDE DEF D
<1>9. /\ Cardinality(D) \in Nat
      /\ \A j \in live : deal[j] \in D
      /\ Cardinality(D) <= Cardinality(live) => \A x \in D : \E j \in live : deal[j] = x
  <2>1. D \subseteq Nat \X Nat
    BY <1>7
  <2> QED BY <1>4, <1>7, <2>1, DealEffect
<1> HIDE DEF deal
<1>10. src \in [live -> live]
  BY <1>7, <1>9
<1>11. ASSUME NEW j \in live
       PROVE  /\ \E t \in Tokens : seq'[j] = Append(seq[src[j]], t)
              /\ seq'[j] \in Seq(Tokens)
  <2>1. PICK x \in D : x = deal[j]
    BY <1>9
  <2>2. x[2] \in live /\ src[j] = x[2]
    BY <1>7, <2>1
  <2>3. PICK t \in offer[x[2]] : order[x[1]] = Append(seq[x[2]], t)
    BY <1>7
  <2>4. t \in Tokens /\ seq[x[2]] \in Seq(Tokens)
    BY <1>3, <2>2, <2>3
  <2>5. seq'[j] = Append(seq[src[j]], t)
    BY <1>3, <1>8, <2>1, <2>2, <2>3
  <2> QED BY <2>2, <2>4, <2>5
<1>12. seq' \in [Dec -> Seq(Tokens)]
  BY <1>3, <1>8, <1>11
<1>13. ASSUME step > 0
       PROVE  Cardinality({seq'[j] : j \in live}) = m
  <2>1. IsFiniteSet(1 .. m) /\ Cardinality(1 .. m) = m
    BY <1>6, FS_Interval
  <2>2. Cardinality(D) <= m
    <3> DEFINE first == [x \in D |-> x[1]]
    <3>1. first \in Injection(D, 1 .. m)
      BY <1>4, <1>7, <1>13 DEF Injection, IsInjective
    <3> HIDE DEF first
    <3> QED BY <2>1, <3>1, FS_Injection
  <2>3. \A x \in D : \E j \in live : deal[j] = x
    BY <1>4, <1>6, <1>9, <2>2
  <2> DEFINE dealt == {seq'[j] : j \in live}
  <2>4. dealt = {order[n] : n \in 1 .. m}
    <3>1. ASSUME NEW j \in live PROVE seq'[j] \in {order[n] : n \in 1 .. m}
      BY <1>3, <1>7, <1>8, <1>9
    <3>2. ASSUME NEW n \in 1 .. m PROVE order[n] \in dealt
      <4>1. PICK x \in D : x[1] = n
        BY <1>7
      <4>2. PICK j \in live : deal[j] = x
        BY <2>3
      <4>3. seq'[j] = order[n]
        BY <1>3, <1>8, <4>1, <4>2
      <4> QED BY <4>3
    <3> QED BY <3>1, <3>2
  <2>5. order \in Bijection(1 .. m, dealt)
    BY <1>2, <2>4 DEF Bijection, Injection, Surjection
  <2> HIDE DEF dealt
  <2>6. Cardinality(dealt) = m
    BY <2>1, <2>5, FS_Bijection DEF ExistsBijection
  <2> QED BY <2>6 DEF dealt
<1>14. step > 0 => Cardinality({seq'[j] : j \in live}) = Min({Cardinality(live), offered'})
  BY <1>2, <1>13 DEF m
<1> QED BY <1>2, <1>5, <1>8, <1>10, <1>11, <1>12, <1>14

\* A Sample step keeps the inductive invariant.
LEMMA SampleKeeps ==
    ASSUME BeamIInv, Sample
    PROVE  BeamIInv'
<1>1. PICK src \in [live -> live] :
         /\ kv' = MoveHistories(src)
         /\ \A j \in live : \E t \in Tokens : seq'[j] = Append(seq[src[j]], t)
  BY SampleEffect
<1>2. /\ seq' \in [Dec -> Seq(Tokens)] /\ offered' \in Nat
      /\ step > 0 => Cardinality({seq'[j] : j \in live}) = Min({Cardinality(live), offered'})
      /\ stage = "sample" /\ stage' = "decode" /\ UNCHANGED <<call, live, step>>
  BY SampleEffect
<1>3. BeamTypeOK /\ Sound(kv, Mark) /\ HistoriesKept /\ step < call.steps /\ live # {}
  BY <1>2 DEF BeamIInv
<1>4. /\ call.dec \in Nat \ {0} /\ call.prompt \in Nat \ {0} /\ step \in Nat
      /\ live \subseteq Dec /\ seq \in [Dec -> Seq(Tokens)]
  BY <1>3, CallSizes DEF BeamTypeOK
<1>5. Mark \in Nat
  BY <1>3, MarkFits
<1>6. LoopsStart(src, Mark)
  <2>1. \A c : Tag(kv, c) \subseteq Dec
    BY <1>3 DEF HistoriesKept, Tag
  <2> QED BY <1>3, <1>4, <2>1 DEF LoopsStart
<1>7. PICK k : k = kv'
  OBVIOUS
<1>8. /\ Sound(k, Mark) /\ Within(kv, k)
      /\ \A c : /\ Tag(k, c) \subseteq Dec
                /\ \A s \in Dec : s \in Tag(k, c) <=>
                      (IF s \in live THEN src[s] ELSE s) \in Tag(kv, c)
  BY <1>1, <1>5, <1>6, <1>7, MoveEffect
<1>9. ASSUME NEW j \in live
      PROVE  Len(seq'[j]) = step + 1 /\ Holds(k, j, call.prompt + step, seq'[j])
  <2>1. PICK s \in live : s = src[j]
    OBVIOUS
  <2>2. PICK t \in Tokens : seq'[j] = Append(seq[s], t)
    BY <1>1, <2>1
  <2>3. /\ seq[s] \in Seq(Tokens) /\ Len(seq[s]) = step
        /\ Holds(kv, s, call.prompt + step, seq[s])
    BY <1>2, <1>3, <1>4 DEF HistoriesKept
  <2>4. \A c : j \in Tag(k, c) <=> s \in Tag(kv, c)
    BY <1>4, <1>8, <2>1
  <2>5. Holds(k, j, call.prompt + step, Append(seq[s], t))
    BY <1>4, <1>8, <2>3, <2>4, HoldsMoved
  <2> QED BY <1>4, <2>2, <2>3, <2>5
<1>10. BeamTypeOK'
  BY <1>2, <1>3, <1>7, <1>8, <1>5 DEF BeamTypeOK, Sound, Dec
<1>11. Sound(kv, Mark)'
  BY <1>2, <1>7, <1>8 DEF Mark, Sound
<1>12. HistoriesKept'
  BY <1>2, <1>4, <1>7, <1>8, <1>9 DEF HistoriesKept, Tag, Holds, Dec
<1>13. NoneDealtTwice'
  BY <1>2 DEF NoneDealtTwice
<1> QED BY <1>2, <1>3, <1>10, <1>11, <1>12, <1>13 DEF BeamIInv

\* There is a place for a batch of the live decoders, and none above the mark
\* is chosen.
LEMMA SlotFound ==
    ASSUME BeamTypeOK, Sound(kv, Mark), step < call.steps, NEW n \in Nat, n <= call.dec
    PROVE  /\ Mark \in Slots(kv, n)
           /\ FindSlot(kv, n) \in Slots(kv, n) /\ FindSlot(kv, n) \in 0 .. Mark
<1>1. /\ Mark \in Nat /\ Mark + call.dec <= CellCount /\ call.dec \in Nat
      /\ Mark - 1 < Mark
  BY CallSizes, MarkFits
<1>2. DOMAIN kv.cells \subseteq 0 .. Mark - 1 /\ kv.head \in 0 .. Mark
  BY DEF Sound
<1>3. PICK size \in Int : size = CellCount
  BY CallSizes DEF CellCount
<1>4. Mark \in Slots(kv, n)
  BY <1>1, <1>2, <1>3 DEF Slots
<1>5. Slots(kv, n) \subseteq Nat
  BY <1>3 DEF Slots
<1> DEFINE ahead == {at \in Slots(kv, n) : at >= kv.head}
<1>6. Mark \in ahead /\ ahead \subseteq Nat /\ ahead \subseteq Slots(kv, n)
  BY <1>1, <1>2, <1>4, <1>5
<1>7. FindSlot(kv, n) = Min(ahead)
  BY <1>6 DEF FindSlot
<1> HIDE DEF ahead
<1>8. Min(ahead) \in ahead /\ Min(ahead) <= Mark
  BY <1>6, LeastNatural
<1>9. Min(ahead) \in Slots(kv, n) /\ Min(ahead) \in Nat
  BY <1>6, <1>8
<1>10. Min(ahead) \in 0 .. Mark
  BY <1>1, <1>8, <1>9
<1> QED BY <1>4, <1>7, <1>9, <1>10

\* The cells that k has and the cache has not.
Fresh(k) == (DOMAIN k.cells) \ DOMAIN kv.cells

\* Every fresh cell of k is what one decoder of the batch wrote at position p,
\* and every decoder of the batch wrote one.
Owned(k, batch, p, owner) ==
    /\ \A c \in Fresh(k) :
          /\ owner[c] \in batch
          /\ k.cells[c] = [pos |-> p, tags |-> {owner[c]}, path |-> seq[owner[c]]]
    /\ \A j \in batch : \E c \in Fresh(k) : owner[c] = j
    /\ \A c, d \in Fresh(k) : owner[c] = owner[d] => c = d

\* What decoding a batch does: the cells in use stay, and every decoder of
\* the batch gets exactly one new cell.
LEMMA DecodedEffect ==
    ASSUME BeamTypeOK, Sound(kv, Mark), step < call.steps,
           NEW batch, batch \subseteq live, NEW p \in Nat,
           NEW k, k = Decoded(kv, batch, p)
    PROVE  /\ Sound(k, Mark + call.dec)
           /\ \A c \in DOMAIN kv.cells : c \in DOMAIN k.cells /\ k.cells[c] = kv.cells[c]
           /\ \E owner : Owned(k, batch, p, owner)
<1> DEFINE n == Cardinality(batch)
           at == FindSlot(kv, n)
           fresh == at .. at + n - 1
           who(c) == CHOOSE j \in batch : at + Rank(batch, j) = c
           owner == [c \in fresh |-> who(c)]
<1>1. /\ call.dec \in Nat /\ Mark \in Nat /\ live \subseteq Nat /\ live \subseteq Dec
      /\ IsFiniteSet(live) /\ Cardinality(live) <= call.dec /\ Cardinality(live) \in Nat
      /\ seq \in [Dec -> Seq(Tokens)]
  BY CallSizes, MarkFits DEF BeamTypeOK
<1>2. IsFiniteSet(batch) /\ n \in Nat /\ n <= call.dec
  <2>1. batch \in SUBSET live
    OBVIOUS
  <2>2. IsFiniteSet(batch) /\ Cardinality(batch) <= Cardinality(live)
    BY <1>1, <2>1, FS_Subset
  <2>3. Cardinality(batch) \in Nat
    BY <2>2, FS_CardinalityType
  <2> QED BY <1>1, <2>2, <2>3
<1>3. /\ \A j \in batch : Rank(batch, j) \in 0 .. n - 1
      /\ \A i, j \in batch : Rank(batch, i) = Rank(batch, j) => i = j
      /\ \A r \in 0 .. n - 1 : \E j \in batch : Rank(batch, j) = r
  <2>1. batch \subseteq Int
    BY <1>1
  <2> QED BY ONLY <1>2, <2>1, Ranks
<1>4. /\ k.cells = [c \in DOMAIN kv.cells \cup fresh |->
                     IF c \in DOMAIN kv.cells THEN kv.cells[c]
                     ELSE [pos |-> p, tags |-> {who(c)}, path |-> seq[who(c)]]]
      /\ k.head = at
  BY DEF Decoded
<1> HIDE DEF n
<1>5. at \in Slots(kv, n) /\ at \in 0 .. Mark
  BY <1>2, SlotFound
<1> HIDE DEF at
<1>6. fresh \cap DOMAIN kv.cells = {}
  BY <1>5 DEF Slots
<1>7. at \in Nat /\ at + n - 1 <= Mark + call.dec - 1
  BY <1>1, <1>2, <1>5
<1>8. \A c \in fresh : who(c) \in batch /\ at + Rank(batch, who(c)) = c
  <2> SUFFICES ASSUME NEW c \in fresh PROVE \E j \in batch : at + Rank(batch, j) = c
    OBVIOUS
  <2>1. c - at \in 0 .. n - 1
    BY <1>2, <1>7
  <2>2. PICK j \in batch : Rank(batch, j) = c - at
    BY <1>3, <2>1
  <2> QED BY <1>7, <2>2
<1> HIDE DEF who
<1>9. \A j \in batch : \E c \in fresh : owner[c] = j
  <2> SUFFICES ASSUME NEW j \in batch PROVE \E c \in fresh : owner[c] = j
    OBVIOUS
  <2>1. PICK r \in 0 .. n - 1 : r = Rank(batch, j)
    BY <1>3
  <2>2. PICK c \in fresh : c = at + r
    BY <1>2, <1>7
  <2>3. PICK i \in batch : i = owner[c] /\ at + Rank(batch, i) = at + r
    BY <1>8, <2>2
  <2>4. Rank(batch, i) = Rank(batch, j)
    BY <1>3, <1>7, <2>1, <2>3
  <2> QED BY <1>3, <2>3, <2>4
<1>10. \A c, d \in fresh : owner[c] = owner[d] => c = d
  <2> SUFFICES ASSUME NEW c \in fresh, NEW d \in fresh, owner[c] = owner[d] PROVE c = d
    OBVIOUS
  <2>1. who(c) = who(d)
    OBVIOUS
  <2> QED BY <1>8, <2>1
<1>11. Fresh(k) = fresh
  BY <1>4, <1>6 DEF Fresh
<1>12. \A c \in fresh : /\ owner[c] \in batch
                       /\ k.cells[c] = [pos |-> p, tags |-> {owner[c]}, path |-> seq[owner[c]]]
  BY <1>4, <1>6, <1>8
<1>13. \A c \in DOMAIN kv.cells : c \in DOMAIN k.cells /\ k.cells[c] = kv.cells[c]
  BY <1>4
<1>14. Sound(k, Mark + call.dec)
  <2>1. /\ DOMAIN kv.cells \subseteq 0 .. Mark - 1
        /\ \A c \in DOMAIN kv.cells : kv.cells[c] \in Cells /\ kv.cells[c].tags # {}
    BY DEF Sound
  <2>2. fresh \subseteq 0 .. Mark + call.dec - 1
    BY <1>1, <1>2, <1>7
  <2>3. DOMAIN k.cells \subseteq 0 .. Mark + call.dec - 1
    BY <1>1, <1>4, <2>1, <2>2
  <2>4. k.head \in 0 .. Mark + call.dec
    BY <1>1, <1>4, <1>5
  <2>5. \A c \in fresh : k.cells[c] \in Cells /\ k.cells[c].tags # {}
    <3> SUFFICES ASSUME NEW c \in fresh PROVE k.cells[c] \in Cells /\ k.cells[c].tags # {}
      OBVIOUS
    <3>1. PICK j \in batch : k.cells[c] = [pos |-> p, tags |-> {j}, path |-> seq[j]]
      BY <1>12
    <3>2. j \in Nat /\ seq[j] \in Seq(Tokens)
      BY <1>1
    <3> QED BY <3>1, <3>2 DEF Cells
  <2>6. \A c \in DOMAIN k.cells : k.cells[c] \in Cells /\ k.cells[c].tags # {}
    BY <1>11, <1>13, <2>1, <2>5 DEF Fresh
  <2>7. PICK h \in Nat : h = Mark + call.dec
    BY <1>1
  <2>8. DOMAIN k.cells \subseteq 0 .. h - 1 /\ k.head \in 0 .. h
    BY <1>1, <2>3, <2>4, <2>7
  <2>9. Sound(k, h)
    BY <2>6, <2>8 DEF Sound
  <2> QED BY <2>7, <2>9
<1> HIDE DEF fresh, owner
<1>15. Owned(k, batch, p, owner)
  BY <1>9, <1>10, <1>11, <1>12 DEF Owned
<1> QED BY <1>13, <1>14, <1>15

\* A DecodeNext step keeps the inductive invariant.
LEMMA DecodeNextKeeps ==
    ASSUME BeamIInv, NEW going \in SUBSET live, DecodeNext(going)
    PROVE  BeamIInv'
<1>1. /\ BeamTypeOK /\ Sound(kv, Mark) /\ HistoriesKept /\ stage = "decode"
      /\ step < call.steps /\ live' = going /\ UNCHANGED <<call, seq, offered>>
  BY DEF BeamIInv, DecodeNext
<1>2. /\ call.dec \in Nat \ {0} /\ call.prompt \in Nat \ {0} /\ call.steps \in Nat \ {0}
      /\ step \in Nat /\ going \subseteq Dec /\ seq \in [Dec -> Seq(Tokens)] /\ Mark \in Nat
  BY <1>1, CallSizes, MarkFits DEF BeamTypeOK
<1>3. CASE going = {}
  <2>1. live' = {} /\ stage' = "done" /\ UNCHANGED <<kv, step>>
    BY <1>1, <1>3 DEF DecodeNext
  <2>2. BeamTypeOK'
    BY <1>1, <2>1 DEF BeamTypeOK, Dec
  <2>3. Sound(kv, Mark)'
    BY <1>1, <2>1 DEF Mark, Sound
  <2>4. HistoriesKept'
    BY <1>1, <2>1 DEF HistoriesKept, Tag, Dec
  <2>5. NoneDealtTwice'
    BY <2>1 DEF NoneDealtTwice
  <2> QED BY <2>1, <2>2, <2>3, <2>4, <2>5 DEF BeamIInv
<1>4. CASE going # {}
  <2> DEFINE pos == call.prompt + step
  <2>1. /\ kv' = Decoded(kv, going, pos) /\ step' = step + 1
        /\ stage' = IF step + 1 = call.steps THEN "done" ELSE "sample"
    BY <1>4 DEF DecodeNext
  <2>2. pos \in Nat
    BY <1>2
  <2>3. PICK k : k = kv'
    OBVIOUS
  <2> DEFINE fresh == Fresh(k)
  <2> HIDE DEF pos
  <2>4. /\ Sound(k, Mark + call.dec)
        /\ \A c \in DOMAIN kv.cells : c \in DOMAIN k.cells /\ k.cells[c] = kv.cells[c]
        /\ \E owner : Owned(k, going, pos, owner)
    <3>1. going \subseteq live
      OBVIOUS
    <3>2. k = Decoded(kv, going, pos)
      BY <2>1, <2>3
    <3> QED BY <1>1, <2>2, <3>1, <3>2, DecodedEffect
  <2>5. PICK owner :
           /\ \A c \in fresh :
                 /\ owner[c] \in going
                 /\ k.cells[c] = [pos |-> pos, tags |-> {owner[c]}, path |-> seq[owner[c]]]
           /\ \A j \in going : \E c \in fresh : owner[c] = j
           /\ \A c, d \in fresh : owner[c] = owner[d] => c = d
    BY <2>4 DEF Owned
  <2>6. \A c \in fresh : c \in DOMAIN k.cells /\ c \notin DOMAIN kv.cells
    BY DEF Fresh
  <2>7. \A c \in DOMAIN k.cells : c \in fresh \/ c \in DOMAIN kv.cells
    BY DEF Fresh
  <2> HIDE DEF fresh
  <2>8. \A c \in fresh : /\ Tag(k, c) = {owner[c]} /\ k.cells[c].pos = pos
                        /\ k.cells[c].path = seq[owner[c]]
    <3> SUFFICES ASSUME NEW c \in fresh
                 PROVE  /\ Tag(k, c) = {owner[c]} /\ k.cells[c].pos = pos
                        /\ k.cells[c].path = seq[owner[c]]
      OBVIOUS
    <3>1. k.cells[c] = [pos |-> pos, tags |-> {owner[c]}, path |-> seq[owner[c]]]
      BY <2>5
    <3> QED BY <2>6, <3>1 DEF Tag
  <2>9. \A c \in DOMAIN kv.cells : /\ Tag(k, c) = Tag(kv, c) /\ k.cells[c].pos = kv.cells[c].pos
                                 /\ k.cells[c].path = kv.cells[c].path
    BY <2>4 DEF Tag
  <2>10. ASSUME NEW j \in going
         PROVE  Len(seq[j]) = step + 1 /\ Holds(k, j, pos + 1, seq[j])
    <3>1. /\ Len(seq[j]) = step + 1 /\ Holds(kv, j, pos, seq[j]) /\ seq[j] \in Seq(Tokens)
      BY <1>1, <1>2 DEF HistoriesKept, pos
    <3>2. ASSUME NEW c \in DOMAIN k.cells, j \in Tag(k, c)
          PROVE  /\ k.cells[c].pos \in 0 .. pos
                 /\ k.cells[c].path = SubSeq(seq[j], 1, k.cells[c].pos - call.prompt + 1)
                 /\ c \in DOMAIN kv.cells <=> k.cells[c].pos # pos
                 /\ c \in DOMAIN kv.cells => j \in Tag(kv, c)
      <4>1. CASE c \in fresh
        <5>1. owner[c] = j /\ k.cells[c].pos = pos /\ k.cells[c].path = seq[j]
          BY <2>8, <3>2, <4>1
        <5>2. pos - call.prompt + 1 = Len(seq[j])
          BY <1>2, <3>1 DEF pos
        <5>3. SubSeq(seq[j], 1, Len(seq[j])) = seq[j]
          BY <3>1, SubSeqFull
        <5>4. c \notin DOMAIN kv.cells
          BY <2>6, <4>1
        <5> QED BY <2>2, <5>1, <5>2, <5>3, <5>4
      <4>2. CASE c \in DOMAIN kv.cells
        <5>1. /\ j \in Tag(kv, c) /\ k.cells[c].pos = kv.cells[c].pos
              /\ k.cells[c].path = kv.cells[c].path
          BY <2>9, <3>2, <4>2
        <5>2. /\ kv.cells[c].pos \in 0 .. pos - 1
              /\ kv.cells[c].path = SubSeq(seq[j], 1, kv.cells[c].pos - call.prompt + 1)
          BY <3>1, <4>2, <5>1 DEF Holds
        <5> QED BY <2>2, <4>2, <5>1, <5>2
      <4> QED BY <2>7, <4>1, <4>2
    <3>3. ASSUME NEW q \in 0 .. pos
          PROVE  \E c \in DOMAIN k.cells : j \in Tag(k, c) /\ k.cells[c].pos = q
      <4>1. CASE q = pos
        <5>1. PICK c \in fresh : owner[c] = j
          BY <2>5
        <5> QED BY <2>6, <2>8, <4>1, <5>1
      <4>2. CASE q # pos
        <5>1. q \in 0 .. pos - 1
          BY <2>2, <4>2
        <5>2. PICK c \in DOMAIN kv.cells : j \in Tag(kv, c) /\ kv.cells[c].pos = q
          BY <3>1, <5>1 DEF Holds
        <5> QED BY <2>4, <2>9, <5>2
      <4> QED BY <4>1, <4>2
    <3>4. ASSUME NEW c \in DOMAIN k.cells, NEW d \in DOMAIN k.cells,
                 j \in Tag(k, c), j \in Tag(k, d), k.cells[c].pos = k.cells[d].pos
          PROVE  c = d
      <4>1. CASE k.cells[c].pos = pos
        <5>1. c \in fresh /\ d \in fresh
          BY <2>7, <3>2, <3>4, <4>1
        <5>2. owner[c] = j /\ owner[d] = j
          BY <2>8, <3>4, <5>1
        <5> QED BY <2>5, <5>1, <5>2
      <4>2. CASE k.cells[c].pos # pos
        <5>1. c \in DOMAIN kv.cells /\ d \in DOMAIN kv.cells /\ j \in Tag(kv, c) /\ j \in Tag(kv, d)
          BY <3>2, <3>4, <4>2
        <5>2. kv.cells[c].pos = kv.cells[d].pos
          BY <2>9, <3>4, <5>1
        <5> QED BY <3>1, <5>1, <5>2 DEF Holds
      <4> QED BY <4>1, <4>2
    <3>5. PICK n \in Nat : n = pos + 1 /\ n - 1 = pos
      BY <2>2
    <3>6. Holds(k, j, n, seq[j])
      BY <3>2, <3>3, <3>4, <3>5 DEF Holds
    <3> QED BY <3>1, <3>5, <3>6
  <2>11. \A c \in DOMAIN k.cells : Tag(k, c) \subseteq Dec
    <3>1. ASSUME NEW c \in fresh PROVE Tag(k, c) \subseteq Dec
      <4>1. PICK j \in going : Tag(k, c) = {j}
        BY <2>5, <2>8
      <4> QED BY <1>2, <4>1
    <3>2. ASSUME NEW c \in DOMAIN kv.cells PROVE Tag(k, c) \subseteq Dec
      BY <1>1, <2>9 DEF HistoriesKept
    <3> QED BY <2>7, <3>1, <3>2
  <2>12. /\ step' \in 0 .. call.steps /\ Mark' = Mark + call.dec
         /\ stage' # "done" => step' < call.steps
    BY <1>1, <1>2, <2>1, MarkFits DEF Mark
  <2>13. Sound(kv, Mark)'
    BY <1>2, <2>3, <2>4, <2>12 DEF Sound
  <2>14. BeamTypeOK'
    <3>1. PICK h \in Nat : Sound(k, h)
      BY <1>2, <2>4
    <3>2. DOMAIN k.cells \subseteq Nat /\ k.head \in Nat /\ \A c \in DOMAIN k.cells : k.cells[c] \in Cells
      BY <3>1 DEF Sound
    <3> QED BY <1>1, <1>2, <2>1, <2>3, <2>12, <3>2 DEF BeamTypeOK, Dec
  <2>15. HistoriesKept'
    <3>1. \A j \in going : /\ Len(seq'[j]) = step' + (IF stage' = "decode" THEN 1 ELSE 0)
                          /\ Holds(k, j, call.prompt + step', seq'[j])
      <4>1. stage' # "decode" /\ step' + 0 = step + 1 /\ call.prompt + step' = pos + 1
        BY <1>2, <2>1 DEF pos
      <4> QED BY <1>1, <2>10, <4>1
    <3> QED BY <1>1, <2>3, <2>11, <3>1 DEF HistoriesKept, Tag, Holds, Dec
  <2>16. NoneDealtTwice'
    BY <2>1 DEF NoneDealtTwice
  <2> QED BY <1>1, <1>4, <2>12, <2>13, <2>14, <2>15, <2>16 DEF BeamIInv
<1> QED BY <1>3, <1>4

\* The prompt alone: every decoder holds its positions once.
LEMMA BeamInitKeeps ==
    ASSUME BeamInit
    PROVE  BeamIInv
<1>1. /\ call \in Calls /\ call.dec \in Nat \ {0} /\ call.prompt \in Nat \ {0}
      /\ call.steps \in Nat \ {0} /\ live = Dec /\ step = 0 /\ stage = "sample" /\ offered = 1
      /\ seq = [j \in Dec |-> <<>>]
  BY BeamAssumption DEF BeamInit
<1>2. /\ DOMAIN kv.cells = 0 .. call.prompt - 1 /\ kv.head = 0
      /\ \A c \in 0 .. call.prompt - 1 :
            /\ kv.cells[c] = [pos |-> c, tags |-> Dec, path |-> <<>>]
            /\ kv.cells[c].pos = c /\ kv.cells[c].path = <<>> /\ Tag(kv, c) = Dec
  BY DEF BeamInit, Tag
<1>3. Dec \subseteq Nat /\ 0 \in Dec
  BY <1>1 DEF Dec
<1>4. \A c \in DOMAIN kv.cells : kv.cells[c] \in Cells /\ kv.cells[c].tags # {} /\ c \in Nat
  <2> SUFFICES ASSUME NEW c \in 0 .. call.prompt - 1
               PROVE  kv.cells[c] \in Cells /\ kv.cells[c].tags # {} /\ c \in Nat
    BY <1>2
  <2>1. c \in Nat /\ Dec \in SUBSET Nat /\ Dec # {} /\ <<>> \in Seq(Tokens)
    BY <1>1, <1>3
  <2>2. kv.cells[c] = [pos |-> c, tags |-> Dec, path |-> <<>>]
    BY <1>2
  <2> QED BY <2>1, <2>2 DEF Cells
<1>5. BeamTypeOK
  BY <1>1, <1>2, <1>4 DEF BeamTypeOK
<1>6. Sound(kv, Mark)
  <2>1. Mark = call.prompt
    <3>1. PICK d \in Nat : d = call.dec
      BY <1>1
    <3>2. d * 0 = 0
      OBVIOUS
    <3> QED BY <1>1, <3>1, <3>2 DEF Mark
  <2> QED BY <1>1, <1>2, <1>4, <2>1 DEF Sound
<1>7. HistoriesKept
  <2>1. ASSUME NEW j \in live
        PROVE  Len(seq[j]) = 0 /\ Holds(kv, j, call.prompt, seq[j])
    <3>1. seq[j] = <<>>
      BY <1>1
    <3>2. \A c \in 0 .. call.prompt - 1 : SubSeq(seq[j], 1, c - call.prompt + 1) = <<>>
      BY <1>1, SubSeqEmpty
    <3>3. \A c \in DOMAIN kv.cells : /\ c \in 0 .. call.prompt - 1 /\ j \in Tag(kv, c)
                                   /\ kv.cells[c].pos = c /\ kv.cells[c].path = <<>>
      BY <1>1, <1>2
    <3>4. \A c \in 0 .. call.prompt - 1 : c \in DOMAIN kv.cells
      BY <1>2
    <3>5. Holds(kv, j, call.prompt, seq[j])
      BY <3>2, <3>3, <3>4 DEF Holds
    <3> QED BY <3>1, <3>5
  <2>2. call.prompt + step = call.prompt /\ step + 0 = 0 /\ stage # "decode"
    BY <1>1
  <2> QED BY <1>1, <1>2, <2>1, <2>2 DEF HistoriesKept
<1> QED BY <1>1, <1>3, <1>5, <1>6, <1>7 DEF BeamIInv, NoneDealtTwice

\* The inductive invariant holds in every reachable state, for any tokens and
\* any sizes of a call.
LEMMA BeamInvariance == BeamSpec => []BeamIInv
<1>1. BeamInit => BeamIInv
  BY BeamInitKeeps
<1>2. BeamIInv /\ [BeamNext]_beamVars => BeamIInv'
  <2> SUFFICES ASSUME BeamIInv, [BeamNext]_beamVars PROVE BeamIInv'
    OBVIOUS
  <2>1. CASE Sample
    BY <2>1, SampleKeeps
  <2>2. ASSUME NEW going \in SUBSET live, DecodeNext(going) PROVE BeamIInv'
    BY <2>2, DecodeNextKeeps
  <2>3. CASE UNCHANGED beamVars
    BY <2>3 DEF beamVars, BeamIInv, BeamTypeOK, Sound, Mark, HistoriesKept, Holds, Tag,
                Dec, NoneDealtTwice
  <2> QED BY <2>1, <2>2, <2>3 DEF BeamNext
<1> QED BY <1>1, <1>2, PTL DEF BeamSpec

\* The variables of the beam search keep their types, for any tokens and any
\* sizes of a call.
THEOREM BeamTypeCorrect == BeamSpec => []BeamTypeOK
<1>1. BeamIInv => BeamTypeOK
  BY DEF BeamIInv
<1> QED BY <1>1, BeamInvariance, PTL

\* What a live decoder attends to in whisper_decode_internal() is its own
\* history, each position exactly once and with the content its own tokens
\* make it, however often decoders went on from each other's histories; and no
\* scratch id survives the two loops of whisper_full.
THEOREM BeamOwnHistory == BeamSpec => []OwnHistory
<1>1. ASSUME BeamIInv PROVE OwnHistory
  <2>1. BeamTypeOK /\ HistoriesKept
    BY <1>1 DEF BeamIInv
  <2>2. call.prompt \in Nat \ {0} /\ step \in Nat
    BY <2>1, CallSizes
  <2>3. \A c \in DOMAIN kv.cells : Tag(kv, c) = kv.cells[c].tags
    BY DEF Tag
  <2>4. \A c \in DOMAIN kv.cells : kv.cells[c].tags \subseteq Dec
    BY <2>1, <2>3 DEF HistoriesKept
  <2>5. ASSUME NEW j \in live
        PROVE  /\ Cardinality(Attended(j)) = call.prompt + step
               /\ {[pos |-> kv.cells[c].pos, path |-> kv.cells[c].path] : c \in Attended(j)} =
                     {[pos |-> p, path |-> SubSeq(seq[j], 1, p - call.prompt + 1)] : p \in Positions}
    <3> DEFINE n == call.prompt + step
               at == [c \in Attended(j) |-> kv.cells[c].pos]
    <3>1. Holds(kv, j, n, seq[j])
      BY <2>1 DEF HistoriesKept
    <3>2. /\ \A c \in Attended(j) : /\ kv.cells[c].pos \in 0 .. n - 1
                             /\ kv.cells[c].path = SubSeq(seq[j], 1, kv.cells[c].pos - call.prompt + 1)
          /\ \A p \in 0 .. n - 1 : \E c \in Attended(j) : kv.cells[c].pos = p
          /\ \A c, d \in Attended(j) : kv.cells[c].pos = kv.cells[d].pos => c = d
      BY <2>3, <3>1 DEF Holds, Attended
    <3>3. Cardinality(Attended(j)) = call.prompt + step
      <4>1. n \in Nat /\ 0 \in Int /\ n - 1 \in Int /\ ~(0 > n - 1) /\ n - 1 - 0 + 1 = n
        BY <2>2
      <4>2. IsFiniteSet(0 .. n - 1) /\ Cardinality(0 .. n - 1) = n
        BY <4>1, FS_Interval
      <4>3. at \in Injection(Attended(j), 0 .. n - 1) /\ at \in Surjection(Attended(j), 0 .. n - 1)
        BY <3>2 DEF Injection, Surjection, IsInjective
      <4> HIDE DEF at, n
      <4>4. Cardinality(Attended(j)) = n
        BY <4>2, <4>3, FS_Injection
      <4> QED BY <4>4 DEF n
    <3>4. {[pos |-> kv.cells[c].pos, path |-> kv.cells[c].path] : c \in Attended(j)} =
             {[pos |-> p, path |-> SubSeq(seq[j], 1, p - call.prompt + 1)] : p \in Positions}
      <4> DEFINE got(c) == [pos |-> kv.cells[c].pos, path |-> kv.cells[c].path]
                 due(p) == [pos |-> p, path |-> SubSeq(seq[j], 1, p - call.prompt + 1)]
      <4>1. Positions = 0 .. n - 1
        BY <2>2 DEF Positions
      <4> HIDE DEF n
      <4>2. ASSUME NEW c \in Attended(j) PROVE \E p \in Positions : got(c) = due(p)
        BY <3>2, <4>1
      <4>3. ASSUME NEW p \in Positions PROVE \E c \in Attended(j) : got(c) = due(p)
        <5>1. PICK c \in Attended(j) : kv.cells[c].pos = p
          BY <3>2, <4>1
        <5>2. kv.cells[c].path = SubSeq(seq[j], 1, p - call.prompt + 1)
          BY <3>2, <5>1
        <5> QED BY <5>1, <5>2
      <4> HIDE DEF got, due
      <4>4. {got(c) : c \in Attended(j)} = {due(p) : p \in Positions}
        BY <4>2, <4>3
      <4> QED BY ONLY <4>4 DEF got, due
    <3> QED BY <3>3, <3>4
  <2> QED BY <2>4, <2>5 DEF OwnHistory
<1> QED BY <1>1, BeamInvariance, PTL

\* whisper_kv_cache_find_slot() always finds cells in a row for the batch of
\* the live decoders: no sequence of steps leaves the cache too fragmented.
THEOREM BeamSlotIsFound == BeamSpec => []SlotIsFound
<1>1. ASSUME BeamIInv PROVE SlotIsFound
  <2> SUFFICES ASSUME stage # "done", NEW n \in 1 .. Cardinality(live)
               PROVE  Slots(kv, n) # {}
    BY DEF SlotIsFound
  <2>1. BeamTypeOK /\ Sound(kv, Mark) /\ step < call.steps
    BY <1>1 DEF BeamIInv
  <2>2. n \in Nat /\ n <= call.dec
    BY <2>1, CallSizes
  <2>3. Mark \in Slots(kv, n)
    BY <2>1, <2>2, SlotFound
  <2> QED BY <2>3
<1> QED BY <1>1, BeamInvariance, PTL

\* After the first step no two live decoders are dealt the same tokens while
\* another candidate is there for one of them: passing over the candidates
\* equal to the one before is enough.
THEOREM BeamNoneDealtTwice == BeamSpec => []NoneDealtTwice
<1>1. BeamIInv => NoneDealtTwice
  BY DEF BeamIInv
<1> QED BY <1>1, BeamInvariance, PTL

----------------------------------------------------------------------------
(* WhisperFull *)

\* The carried prompt was cut to leave room for its marker in the budget of
\* the call that brought it; a prompt that was put together fits the budget
\* of its call.
ContextOK ==
    /\ past0 <= Higher(1, cutFor - 1)
    /\ phase = "emit" => prompt <= req.budget
    /\ phase = "undefined" /\ ~NoTemperature => req.budget = 1 \/ req.budget < cutFor
    /\ NoTemperature => prompt = 0

\* Decoder 0 runs at every temperature, so that after the first one the best
\* decoder's result is one of this window.
BestOK ==
    /\ phase = "decode" =>
          /\ ~NoTemperature
          /\ (temp = 1 /\ best = 0) \/ cand.of = <<calls, seek>>
    /\ phase = "emit" /\ ~NoTemperature => cand.of = <<calls, seek>>

\* The inductive invariant behind PromptFits and EmitsThisWindow.
FullIInv == FullTypeOK /\ ContextOK /\ BestOK

\* The budget is half of the text context at most, and a natural number.
LEMMA Sizes ==
    /\ TextCtx \in Nat /\ TextCtx \div 2 \in Nat
    /\ 2 * (TextCtx \div 2) <= TextCtx
    /\ SeekEnd \in Nat \ {0} /\ Chunk \in Nat \ {0}
    /\ DeltaMin \in Nat /\ ShortTail \in Nat /\ MaxCalls \in Nat
    /\ InitLen \in 0 .. 4
BY FullAssumption DEF FullAssumption

\* The invariant holds before the first call.
LEMMA FullInitial == FullInit => FullIInv
<1> SUFFICES ASSUME FullInit PROVE FullIInv
  OBVIOUS
<1>1. req \in [budget : 0 .. TextCtx \div 2, carry : BOOLEAN, shape : ShapeType]
  <2>1. [first |-> 1, later |-> 1, temps |-> 1, cold |-> 0] \in ShapeType
    BY DEF ShapeType
  <2>2. 0 \in 0 .. TextCtx \div 2
    BY Sizes
  <2> QED BY <2>1, <2>2 DEF FullInit
<1>2. calls \in 0 .. MaxCalls
  BY Sizes DEF FullInit
<1>3. cand \in [failed : BOOLEAN, delta : Nat, len : Nat, of : Nat \X Nat]
  <2>1. Chunk \in Nat /\ <<0, 0>> \in Nat \X Nat
    BY Sizes
  <2> QED BY <2>1 DEF FullInit, Elsewhere
<1>4. FullTypeOK
  <2>1. phase = "idle"
    BY DEF FullInit
  <2>2. ran \in BOOLEAN
    BY DEF FullInit
  <2>3. /\ past0 \in Nat /\ past1 \in Nat /\ cutFor \in Nat /\ seek \in Nat
        /\ prompt \in Nat /\ best \in Nat /\ made \in Nat /\ temp \in Nat \ {0}
    BY DEF FullInit
  <2> QED BY <1>1, <1>2, <1>3, <2>1, <2>2, <2>3 DEF FullTypeOK
<1>5. NoTemperature = FALSE
  BY DEF FullInit, NoTemperature
<1>6. ContextOK /\ BestOK
  BY <1>5 DEF FullInit, ContextOK, BestOK, Higher
<1> QED BY <1>4, <1>6 DEF FullIInv

\* Every step of a call, and the beginning of one, keeps the invariant.
LEMMA FullInductive == FullIInv /\ [FullNext]_fullVars => FullIInv'
<1> SUFFICES ASSUME FullIInv, [FullNext]_fullVars PROVE FullIInv'
  OBVIOUS
<1> USE DEF FullIInv
<1>1. ASSUME NEW budget \in Budgets, NEW carry \in BOOLEAN, NEW noContext \in BOOLEAN,
             NEW shape \in Shapes, NEW n \in Lengths,
             Begin(budget, carry, shape, noContext, n)
      PROVE  FullIInv'
  <2>1. budget \in 0 .. TextCtx \div 2 /\ n \in Nat /\ shape \in ShapeType
    BY FullAssumption DEF FullAssumption
  <2>2. cand' \in [failed : BOOLEAN, delta : Nat, len : Nat, of : Nat \X Nat]
    <3>1. CASE shape.temps = 0
      <4>1. cand' \in LeftBehind
        BY <1>1, <3>1 DEF Begin
      <4>2. Deltas \subseteq Nat /\ 0 .. Chunk \subseteq Nat /\ Lengths \subseteq Nat
        BY FullAssumption DEF FullAssumption, Deltas
      <4>3. <<0, 0>> \in Nat \X Nat /\ 0 \in Nat
        OBVIOUS
      <4>4. CASE ran
        <5>1. cand' \in [failed : {FALSE}, delta : Deltas, len : Lengths, of : {<<0, 0>>}]
          BY <4>1, <4>4 DEF LeftBehind, Elsewhere
        <5> QED BY <4>2, <4>3, <5>1
      <4>5. CASE ~ran
        <5>1. cand' \in [failed : {FALSE}, delta : 0 .. Chunk, len : {0}, of : {<<0, 0>>}]
          BY <4>1, <4>5 DEF LeftBehind, Elsewhere
        <5> QED BY <4>2, <4>3, <5>1
      <4> QED BY <4>4, <4>5
    <3>2. CASE shape.temps # 0
      BY <1>1, <3>2 DEF Begin, FullTypeOK
    <3> QED BY <3>1, <3>2
  <2>3. FullTypeOK'
    BY <1>1, <2>1, <2>2, Sizes DEF Begin, FullTypeOK, Lower, Higher
  <2>4. ContextOK'
    BY <1>1, <2>1 DEF Begin, FullTypeOK, ContextOK, NoTemperature, Lower, Higher
  <2>5. BestOK'
    BY <1>1 DEF Begin, BestOK
  <2> QED BY <2>3, <2>4, <2>5
<1>2. CASE Return
  BY <1>2 DEF Return, callVars, FullTypeOK, ContextOK, BestOK, NoTemperature
<1>3. CASE Window
  <2>1. /\ phase' \in {"emit", "decode"}
        /\ phase' = "decode" => ~NoTemperature
        /\ phase' = "emit" => NoTemperature
    BY <1>3 DEF Window
  <2>2. past0' \in {past0, 0} /\ past1' \in {past1, 0}
    BY <1>3 DEF Window, DropContextNearEnd
  <2>3. FullTypeOK' /\ BestOK'
    BY <1>3, <2>1, <2>2 DEF Window, FullTypeOK, BestOK, NoTemperature
  <2>4. ContextOK'
    BY <1>3, <2>1, <2>2 DEF Window, FullTypeOK, ContextOK, NoTemperature, Higher
  <2> QED BY <2>3, <2>4
<1>4. CASE SkipSilence
  BY <1>4, Sizes DEF SkipSilence, callVars, FullTypeOK, ContextOK, BestOK, NoTemperature, Lower
<1>5. phase = "decode" => /\ Running \subseteq Nat
                          /\ temp = 1 => 0 \in Running
                          /\ Cardinality(Running) \in Nat
  <2>1. req.shape.first \in Nat \ {0} /\ req.shape.later \in Nat \ {0}
    BY DEF FullTypeOK, ShapeType
  <2> DEFINE m == (IF temp = 1 THEN req.shape.first ELSE req.shape.later) - 1
  <2>2. m \in Nat /\ Running = 0 .. m
    BY <2>1 DEF Running
  <2> HIDE DEF m
  <2>3. IsFiniteSet(0 .. m) /\ Cardinality(0 .. m) \in Nat
    BY <2>2, FS_Interval, FS_CardinalityType
  <2> QED BY <2>2, <2>3
<1>6. Prepared => /\ phase = "decode" /\ ~Overdrawn
                  /\ ran' \in BOOLEAN /\ made' \in Nat
  BY <1>5 DEF Prepared, FullTypeOK, Higher
<1>7. CASE Attempt
  <2>1. PICK d \in Decodings :
          /\ best' = d.best /\ cand' = d.cand
          /\ \/ phase' = "emit" /\ temp' = temp
             \/ temp < req.shape.temps /\ temp' = temp + 1 /\ phase' = phase
    BY <1>7 DEF Attempt
  <2>2. /\ phase = "decode" /\ ~Overdrawn
        /\ ran' \in BOOLEAN /\ made' \in Nat
        /\ prompt' = IF HasContext THEN 1 + Take0 + Take1 ELSE 0
        /\ UNCHANGED <<calls, req, past0, past1, cutFor, seek>>
    BY <1>6, <1>7 DEF Attempt, callVars
  <2>3. /\ Running \subseteq Nat
        /\ temp = 1 => 0 \in Running
        /\ Deltas \subseteq Nat /\ Lengths \subseteq Nat
    <3>1. Deltas \subseteq Nat
      BY Sizes DEF Deltas
    <3>2. Lengths \subseteq Nat
      BY FullAssumption DEF FullAssumption
    <3>3. phase = "decode"
      BY <2>2
    <3> QED BY <1>5, <3>1, <3>2, <3>3
  <2>4. /\ d.best \in Nat
        /\ d.cand \in [failed : BOOLEAN, delta : Nat, len : Nat, of : Nat \X Nat]
        /\ d.cand.of = <<calls, seek>>
    <3>1. <<calls, seek>> \in Nat \X Nat /\ best \in Nat
      BY DEF FullTypeOK
    <3>2. CASE \E j \in Running, r \in [failed : BOOLEAN, delta : Deltas,
                                        len : Lengths, of : {<<calls, seek>>}] :
                  d = [best |-> j, cand |-> r]
      <4>1. PICK j \in Running, r \in [failed : BOOLEAN, delta : Deltas,
                                      len : Lengths, of : {<<calls, seek>>}] :
                   d = [best |-> j, cand |-> r]
        BY <3>2
      <4>2. /\ r \in [failed : BOOLEAN, delta : Nat, len : Nat, of : Nat \X Nat]
            /\ r.of = <<calls, seek>>
        BY <2>3, <3>1
      <4>3. d.best = j /\ d.cand = r
        BY <4>1
      <4> QED BY <2>3, <4>2, <4>3
    <3>3. CASE best \notin Running /\ d = [best |-> best, cand |-> cand]
      BY <2>2, <2>3, <3>1, <3>3 DEF FullTypeOK, BestOK
    <3>4. \/ \E j \in Running, r \in [failed : BOOLEAN, delta : Deltas,
                                      len : Lengths, of : {<<calls, seek>>}] :
                 d = [best |-> j, cand |-> r]
          \/ best \notin Running /\ d = [best |-> best, cand |-> cand]
      BY <2>1 DEF Decodings
    <3> QED BY <3>2, <3>3, <3>4
  <2>5. prompt' \in Nat /\ prompt' <= req.budget
    BY <2>2 DEF FullTypeOK, Overdrawn, HasContext, Take0, Take1, Lower
  <2>6. FullTypeOK'
    BY <2>1, <2>2, <2>4, <2>5 DEF FullTypeOK
  <2>7. ContextOK'
    <3>1. past0' <= Higher(1, cutFor' - 1) /\ ~NoTemperature'
      BY <2>2 DEF ContextOK, BestOK, NoTemperature
    <3>2. phase' \in {"emit", "decode"} /\ prompt' <= req'.budget
      BY <2>1, <2>2, <2>5
    <3> QED BY <3>1, <3>2 DEF ContextOK
  <2>8. BestOK'
    BY <2>1, <2>2, <2>4 DEF BestOK, NoTemperature
  <2> QED BY <2>6, <2>7, <2>8
<1>8. CASE AttemptFails
  BY <1>6, <1>8 DEF AttemptFails, callVars, FullTypeOK, ContextOK, BestOK, NoTemperature
<1>9. CASE AttemptFrees
  BY <1>9 DEF AttemptFrees, callVars, FullTypeOK, ContextOK, BestOK, NoTemperature
<1>10. CASE AttemptUndefined
  <2>1. req.budget = 1 \/ req.budget < cutFor
    BY <1>10 DEF AttemptUndefined, Overdrawn, FullTypeOK, ContextOK, HasContext, Take0,
                 Take1, Lower, Higher
  <2> QED
    BY <1>10, <2>1 DEF AttemptUndefined, callVars, FullTypeOK, ContextOK, BestOK,
                       NoTemperature
<1>11. CASE EmitUndefined
  BY <1>11 DEF EmitUndefined, callVars, FullTypeOK, ContextOK, BestOK, NoTemperature
<1>12. ASSUME NEW noSpeech \in BOOLEAN, NEW skips \in BOOLEAN, Emit(noSpeech, skips)
       PROVE  FullIInv'
  BY <1>12, Sizes DEF Emit, FullTypeOK, ContextOK, BestOK, NoTemperature, Lower
<1>13. CASE UNCHANGED fullVars
  BY <1>13 DEF fullVars, callVars, FullTypeOK, ContextOK, BestOK, NoTemperature
<1> QED
  BY <1>1, <1>2, <1>3, <1>4, <1>7, <1>8, <1>9, <1>10, <1>11, <1>12, <1>13
     DEF FullNext, FullStep

\* Every reachable state satisfies the invariant.
LEMMA FullInvariance == FullSpec => []FullIInv
BY FullInitial, FullInductive, PTL DEF FullSpec

-----------------------------------------------------------------------------

\* The state keeps its types across calls, windows and temperatures.
THEOREM FullTypeCorrect == FullSpec => []FullTypeOK
<1>1. FullIInv => FullTypeOK
  BY DEF FullIInv
<1> QED BY FullInvariance, <1>1, PTL

\* Marker, context, initial tokens and the longest decoding fit the text
\* context, for every context size and every sequence of calls; the range of
\* context tokens is undefined only for the two kinds of budget named.
THEOREM FullPromptFits == FullSpec => []PromptFits
<1>1. FullIInv => PromptFits
  BY Sizes DEF FullIInv, FullTypeOK, ContextOK, PromptFits, MaxSteps
<1> QED BY FullInvariance, <1>1, PTL

\* The text put out is decoded from the window it is put out for, whichever
\* decoders fail at which temperature, however many there are.
THEOREM FullEmitsThisWindow == FullSpec => []EmitsThisWindow
<1>1. FullIInv => EmitsThisWindow
  BY DEF FullIInv, BestOK, EmitsThisWindow
<1> QED BY FullInvariance, <1>1, PTL

----------------------------------------------------------------------------
(* StreamSession *)

\* s holds the samples of the stream after the first a, up to the first b.
Stretch(s, a, b) ==
    s \in Seq(Int) /\ Len(s) = b - a /\ \A i \in 1 .. Len(s) : s[i] = a + i

\* The samples that a successful decode has consumed.
Consumed == fed - Len(accum)

\* An output is the stretch of the stream that its times say.
Dated(o) == \A i \in 1 .. Len(o.window) : o.window[i] = o.start + i

\* What is buffered follows what is consumed, what is kept of the last window
\* ends there, and so does the output held; all of it has been heard.
StreamIInv ==
    /\ StreamTypeOK
    /\ Consumed \in Nat
    /\ Stretch(accum, Consumed, fed)
    /\ Len(history) <= Consumed
    /\ Stretch(history, Consumed - Len(history), Consumed)
    /\ Dated(out) /\ Dated(sent.out)
    /\ out.start + Len(out.window) = Consumed
    /\ heard = 1 .. Consumed

\* Everything is consumed when nothing is buffered.
LEMMA AllConsumed ==
    ASSUME NEW a \in Nat, NEW b, b = 0
    PROVE  a - b = a
OBVIOUS

\* So much of a sequence of length a may be kept.
LEMMA Kept ==
    ASSUME NEW a \in Nat, NEW b \in Int
    PROVE  Min({a, b}) \in Int /\ (b >= 0 => Min({a, b}) \in 0 .. a)
BY MinMax

\* The end of a stretch is a stretch with the same end.
LEMMA LastOfStretch ==
    ASSUME NEW a \in Int, NEW b \in Int, NEW s, Stretch(s, a, b), NEW n \in 0 .. Len(s)
    PROVE  Stretch(LastOf(s, n), b - n, b)
<1>1. s \in Seq(Int) /\ Len(s) = b - a /\ Len(s) \in Nat
  BY DEF Stretch
<1> DEFINE m == Len(s) - n + 1
<1>2. m \in Int /\ m >= 1
  BY <1>1
<1>3. \A i \in m .. Len(s) : s[i] \in Int
  BY <1>1, <1>2, ElementOfSeq
<1>4. /\ LastOf(s, n) \in Seq(Int)
      /\ Len(LastOf(s, n)) = n
      /\ \A i \in 1 .. n : LastOf(s, n)[i] = s[m + i - 1]
  <2> DEFINE k == Len(s)
  <2>1. k \in Nat /\ m \in 1 .. k + 1 /\ k - m + 1 = n
    BY <1>1
  <2>2. LastOf(s, n) = SubSeq(s, m, k)
    BY DEF LastOf
  <2> HIDE DEF m, k
  <2>3. /\ SubSeq(s, m, k) \in Seq(Int)
        /\ Len(SubSeq(s, m, k)) = IF m <= k THEN k - m + 1 ELSE 0
        /\ \A i \in 1 .. k - m + 1 : SubSeq(s, m, k)[i] = s[m + i - 1]
    BY <1>1, <1>2, <1>3, <2>1, SubSeqProperties DEF k
  <2>4. Len(SubSeq(s, m, k)) = n
    BY <2>1, <2>3
  <2> QED BY <2>1, <2>2, <2>3, <2>4
<1>5. \A i \in 1 .. n : m + i - 1 \in 1 .. Len(s) /\ a + (m + i - 1) = (b - n) + i
  BY <1>1
<1>6. \A i \in 1 .. n : s[m + i - 1] = (b - n) + i
  BY <1>5 DEF Stretch
<1> DEFINE t == LastOf(s, n)
<1>7. t \in Seq(Int) /\ Len(t) = n /\ \A i \in 1 .. n : t[i] = (b - n) + i
  BY <1>4, <1>6
<1> HIDE DEF m, t
<1>8. Len(t) = b - (b - n) /\ \A i \in 1 .. Len(t) : t[i] = (b - n) + i
  BY <1>1, <1>7
<1>9. Stretch(t, b - n, b)
  BY <1>7, <1>8 DEF Stretch
<1> QED BY <1>9 DEF t

\* Two stretches that meet are one.
LEMMA JoinedStretch ==
    ASSUME NEW a \in Int, NEW b \in Int, NEW c \in Int, NEW s, NEW t,
           Stretch(s, a, b), Stretch(t, b, c)
    PROVE  Stretch(s \o t, a, c)
<1>1. /\ s \in Seq(Int) /\ t \in Seq(Int)
      /\ Len(s) = b - a /\ Len(t) = c - b /\ Len(s) \in Nat /\ Len(t) \in Nat
  BY DEF Stretch
<1>2. /\ s \o t \in Seq(Int) /\ Len(s \o t) = Len(s) + Len(t)
      /\ \A i \in 1 .. Len(s) + Len(t) :
            (s \o t)[i] = IF i <= Len(s) THEN s[i] ELSE t[i - Len(s)]
  BY <1>1, ConcatProperties
<1>3. ASSUME NEW i \in 1 .. Len(s \o t) PROVE (s \o t)[i] = a + i
  <2>1. CASE i <= Len(s)
    BY <1>1, <1>2, <2>1 DEF Stretch
  <2>2. CASE i > Len(s)
    <3>1. i - Len(s) \in 1 .. Len(t) /\ b + (i - Len(s)) = a + i
      BY <1>1, <1>2, <2>2
    <3>2. (s \o t)[i] = t[i - Len(s)]
      BY <1>1, <1>2, <2>2
    <3>3. t[i - Len(s)] = b + (i - Len(s))
      BY <3>1 DEF Stretch
    <3> QED BY <3>1, <3>2, <3>3
  <2>3. i \in Int /\ Len(s) \in Int
    BY <1>1, <1>2
  <2>4. i <= Len(s) \/ i > Len(s)
    BY <2>3
  <2> QED BY <2>1, <2>2, <2>4
<1>4. Len(s \o t) = c - a
  BY <1>1, <1>2
<1> QED BY <1>2, <1>3, <1>4 DEF Stretch

\* The elements of a stretch.
LEMMA StretchElements ==
    ASSUME NEW a \in Int, NEW b \in Int, NEW s, Stretch(s, a, b)
    PROVE  ToSet(s) = a + 1 .. b
<1>1. s \in Seq(Int) /\ Len(s) = b - a /\ Len(s) \in Nat /\ DOMAIN s = 1 .. Len(s)
  BY LenProperties DEF Stretch
<1>2. \A i \in 1 .. Len(s) : s[i] \in a + 1 .. b
  BY <1>1 DEF Stretch
<1>3. \A x \in a + 1 .. b : x - a \in 1 .. Len(s) /\ s[x - a] = x
  BY <1>1 DEF Stretch
<1> QED BY <1>1, <1>2, <1>3 DEF ToSet

\* The window is the stretch that ends with the stream, and contains all that
\* is new in it.
LEMMA WindowIsStretch ==
    ASSUME StreamIInv, NEW now \in Nat, NEW new, Stretch(new, Consumed, now)
    PROVE  \E a \in 0 .. Consumed :
              /\ Stretch(WindowOf(history, new), a, now)
              /\ Len(WindowOf(history, new)) = now - a
<1> DEFINE n == Min({Len(history), Max({0, Keep + Length - Len(new)})})
<1>1. /\ Len(history) \in Nat /\ Len(new) \in Nat
      /\ Keep \in Nat /\ Length \in Nat /\ Consumed \in Nat
  BY StreamAssumption DEF StreamAssumption, StreamIInv, StreamTypeOK, Stretch
<1>2. n \in 0 .. Len(history)
  <2> DEFINE d == Keep + Length - Len(new)
             k == Max({0, d})
  <2>1. d \in Int
    BY <1>1
  <2> HIDE DEF d
  <2>2. k \in Int /\ k >= 0
    <3>1. 0 \in Int /\ k = IF 0 >= d THEN 0 ELSE d
      BY <2>1, MinMax
    <3> HIDE DEF k
    <3> QED BY <2>1, <3>1
  <2> HIDE DEF k
  <2>3. Min({Len(history), k}) \in 0 .. Len(history)
    BY <1>1, <2>2, Kept
  <2> QED BY <2>3 DEF k, d
<1> HIDE DEF n
<1>3. Stretch(LastOf(history, n), Consumed - n, Consumed)
  BY <1>1, <1>2, LastOfStretch DEF StreamIInv
<1>4. Stretch(LastOf(history, n) \o new, Consumed - n, now)
  BY <1>1, <1>2, <1>3, JoinedStretch
<1>5. Consumed - n \in 0 .. Consumed
  BY <1>1, <1>2 DEF StreamIInv
<1> QED BY <1>4, <1>5 DEF WindowOf, n, Stretch

\* A decode of what is buffered, successful or not.
LEMMA DecodePreserves ==
    ASSUME StreamIInv, NEW now \in Nat, NEW new, NEW ok \in BOOLEAN,
           Stretch(new, Consumed, now), RunDecode(new, now, ok), fed' = now,
           sent' \in {[out |-> out', kind |-> k] : k \in {"partial", "nothing", "decoded", "failed"}}
             \/ sent' = sent
    PROVE  StreamIInv'
<1>0. Consumed \in Nat /\ fed \in Nat /\ StreamTypeOK
  BY DEF StreamIInv, StreamTypeOK
<1>1. CASE ok
  <2> DEFINE w == WindowOf(history, new)
  <2>1. PICK a \in 0 .. Consumed : Stretch(w, a, now) /\ Len(w) = now - a
    BY WindowIsStretch
  <2> HIDE DEF w
  <2>2. /\ out' = [window |-> w, start |-> now - Len(w), counter |-> out.counter + 1]
        /\ history' = LastOf(w, Min({Len(w), Length + Keep}))
        /\ accum' = <<>>
        /\ heard' = heard \cup ToSet(w)
    BY <1>1 DEF RunDecode, w
  <2>3. Len(accum') = 0 /\ Consumed' = now /\ accum' \in Seq(Int)
    BY <1>0, <2>2, EmptySeq DEF Consumed
  <2>4. Stretch(accum', Consumed', fed')
    BY <2>3 DEF Stretch
  <2>5. w \in Seq(Int) /\ Len(w) \in Nat /\ a \in Nat
    BY <1>0, <2>1 DEF Stretch
  <2> DEFINE k == Length + Keep
             n == Min({Len(w), k})
  <2>6. n \in 0 .. Len(w)
    <3>1. k \in Int /\ k >= 0
      BY StreamAssumption DEF StreamAssumption
    <3> HIDE DEF k
    <3> QED BY <2>5, <3>1, Kept
  <2>7. history' = LastOf(w, n)
    BY <2>2
  <2> HIDE DEF n
  <2>12. Stretch(history', now - n, now)
    <3>1. a \in Int /\ now \in Int /\ Stretch(w, a, now) /\ n \in 0 .. Len(w)
      BY <2>1, <2>5, <2>6
    <3>2. Stretch(LastOf(w, n), now - n, now)
      BY ONLY <3>1, LastOfStretch
    <3> QED BY <2>7, <3>2
  <2>8. /\ history' \in Seq(Int) /\ Len(history') <= now
        /\ Stretch(history', Consumed' - Len(history'), Consumed')
    <3>1. history' \in Seq(Int) /\ Len(history') = now - (now - n)
      BY <2>12 DEF Stretch
    <3>2. n \in Nat /\ now - (now - n) = n /\ n <= now
      BY <2>1, <2>5, <2>6
    <3>3. Len(history') = n
      BY <3>1, <3>2
    <3> QED BY <2>3, <2>12, <3>1, <3>2, <3>3
  <2>9. out' \in Outputs /\ Dated(out') /\ out'.start + Len(out'.window) = Consumed'
    BY <1>0, <2>1, <2>2, <2>3, <2>5 DEF Outputs, Dated, Stretch, StreamTypeOK
  <2>10. heard' = 1 .. Consumed'
    <3>1. ToSet(w) = a + 1 .. now
      BY <2>1, <2>5, StretchElements
    <3>2. Consumed <= now
      BY <1>0 DEF Stretch
    <3> QED BY <1>0, <2>2, <2>3, <3>1, <3>2 DEF StreamIInv
  <2>11. Dated(sent'.out) /\ sent' \in [out : Outputs, kind : {"partial", "nothing", "decoded", "failed"}]
    BY <2>9 DEF StreamIInv, StreamTypeOK
  <2> QED
    BY <2>3, <2>4, <2>8, <2>9, <2>10, <2>11 DEF StreamIInv, StreamTypeOK
<1>2. CASE ~ok
  <2>1. accum' = new /\ UNCHANGED <<out, history, heard>>
    BY <1>2 DEF RunDecode
  <2>2. accum' \in Seq(Int) /\ Consumed' = Consumed
    <3>1. Consumed' = now - Len(new)
      BY <2>1 DEF Consumed
    <3>2. new \in Seq(Int) /\ Len(new) = now - Consumed
      BY DEF Stretch
    <3>3. now - (now - Consumed) = Consumed
      BY <1>0
    <3> QED BY <2>1, <3>1, <3>2, <3>3
  <2>3. Dated(sent'.out) /\ sent' \in [out : Outputs, kind : {"partial", "nothing", "decoded", "failed"}]
    BY <2>1 DEF StreamIInv, StreamTypeOK
  <2> QED BY <1>0, <2>1, <2>2, <2>3 DEF StreamIInv, StreamTypeOK, Stretch, Dated
<1> QED BY <1>1, <1>2

\* The invariant holds of a new session.
LEMMA StreamInitial == StreamInit => StreamIInv
<1> SUFFICES ASSUME StreamInit PROVE StreamIInv
  OBVIOUS
<1>1. /\ fed = 0 /\ accum = <<>> /\ history = <<>> /\ heard = {}
      /\ out = [window |-> <<>>, start |-> 0, counter |-> 0]
      /\ sent = [out |-> out, kind |-> "partial"]
  BY DEF StreamInit, NoOutput
<1>2. <<>> \in Seq(Int) /\ Len(<<>>) = 0
  BY EmptySeq
<1>3. out \in Outputs
  BY <1>1, <1>2 DEF Outputs
<1>4. Consumed = 0 /\ Consumed \in Nat
  <2>1. Consumed = fed - Len(accum) /\ Len(accum) = 0 /\ fed \in Nat
    BY <1>1, <1>2 DEF Consumed
  <2> QED BY <1>1, <2>1, AllConsumed
<1>5. Stretch(accum, Consumed, fed) /\ Stretch(history, Consumed - Len(history), Consumed)
  <2>1. Stretch(<<>>, 0, 0)
    BY <1>2 DEF Stretch
  <2>2. Consumed - Len(history) = 0
    BY <1>1, <1>2, <1>4, AllConsumed
  <2> QED BY <1>1, <1>4, <2>1, <2>2
<1>6. Dated(out) /\ Dated(sent.out) /\ out.start + Len(out.window) = Consumed
  BY <1>1, <1>2, <1>4 DEF Dated
<1>7. StreamTypeOK
  BY <1>1, <1>2, <1>3 DEF StreamTypeOK
<1>8. Len(history) <= Consumed /\ heard = 1 .. Consumed
  BY <1>1, <1>2, <1>4
<1> QED BY <1>4, <1>5, <1>6, <1>7, <1>8 DEF StreamIInv

\* Pieces of any size, flushes and decodes that fail keep the invariant.
LEMMA StreamInductive == StreamIInv /\ [StreamNext]_streamVars => StreamIInv'
<1> SUFFICES ASSUME StreamIInv, [StreamNext]_streamVars PROVE StreamIInv'
  OBVIOUS
<1>0. /\ fed \in Nat /\ Consumed \in Nat /\ accum \in Seq(Int) /\ Len(accum) \in Nat
      /\ Stretch(accum, Consumed, fed)
  BY DEF StreamIInv, StreamTypeOK
<1>1. ASSUME NEW ok \in BOOLEAN, Flush(ok) PROVE StreamIInv'
  <2>1. CASE accum = <<>>
    <3>1. /\ UNCHANGED <<fed, accum, out, history, heard>>
          /\ sent' = [out |-> out', kind |-> FlushCode(ok)]
      BY <1>1, <2>1 DEF Flush
    <3>2. FlushCode(ok) \in {"nothing", "decoded", "failed"}
      BY DEF FlushCode
    <3> QED BY <3>1, <3>2 DEF StreamIInv, StreamTypeOK, Consumed, Stretch, Dated
  <2>2. CASE accum # <<>>
    <3>1. /\ RunDecode(accum, fed, ok) /\ fed' = fed
          /\ sent' = [out |-> out', kind |-> FlushCode(ok)]
      BY <1>1, <2>2 DEF Flush
    <3>2. FlushCode(ok) \in {"nothing", "decoded", "failed"}
      BY DEF FlushCode
    <3> QED BY <1>0, <3>1, <3>2, DecodePreserves
  <2> QED BY <2>1, <2>2
<1>2. ASSUME NEW ok \in BOOLEAN, NEW n \in 1 .. MaxPiece, Feed(n, ok) PROVE StreamIInv'
  <2> DEFINE piece == [i \in 1 .. n |-> fed + i]
             new == accum \o piece
  <2>1. n \in Nat /\ fed + n \in Nat
    BY <1>0
  <2>2. Stretch(piece, fed, fed + n)
    BY <1>0, <2>1 DEF Stretch
  <2>3. Stretch(new, Consumed, fed + n)
    BY <1>0, <2>1, <2>2, JoinedStretch
  <2> HIDE DEF piece
  <2>4. CASE Len(new) < Step
    <3>1. accum' = new /\ fed' = fed + n /\ UNCHANGED <<history, out, sent, heard>>
      BY <1>2, <2>4 DEF Feed, piece
    <3> HIDE DEF new
    <3>2. accum' \in Seq(Int) /\ Len(accum') = fed' - Consumed
      BY <2>3, <3>1 DEF Stretch
    <3>4. Consumed' = Consumed
      BY <1>0, <2>1, <3>1, <3>2 DEF Consumed
    <3>5. Stretch(accum', Consumed', fed')
      BY <2>3, <3>1, <3>4
    <3> QED BY <2>1, <3>1, <3>2, <3>4, <3>5 DEF StreamIInv, StreamTypeOK, Stretch, Dated
  <2>5. CASE ~(Len(new) < Step)
    <3>1. /\ RunDecode(new, fed + n, ok) /\ fed' = fed + n
          /\ sent' = IF ok THEN [out |-> out', kind |-> "partial"] ELSE sent
      BY <1>2, <2>5 DEF Feed, piece
    <3> HIDE DEF new
    <3> QED BY <2>1, <2>3, <3>1, DecodePreserves
  <2> QED BY <2>4, <2>5
<1>3. CASE UNCHANGED streamVars
  BY <1>3 DEF streamVars, StreamIInv, StreamTypeOK, Consumed, Stretch, Dated
<1> QED BY <1>1, <1>2, <1>3 DEF StreamNext

\* The invariant always holds.
LEMMA StreamInvariance == StreamSpec => []StreamIInv
BY StreamInitial, StreamInductive, PTL DEF StreamSpec

\* Types hold, the buffers of any piece size included.
THEOREM StreamTypeCorrect == StreamSpec => []StreamTypeOK
<1>1. StreamIInv => StreamTypeOK
  BY DEF StreamIInv
<1> QED BY StreamInvariance, <1>1, PTL

\* Every message is dated by the stretch of the stream it was decoded from,
\* for every step, length and overlap and pieces of any size.
THEOREM StreamTimesAreTrue == StreamSpec => []TimesAreTrue
<1>1. StreamIInv => TimesAreTrue
  <2> SUFFICES ASSUME StreamIInv, NEW o \in {out, sent.out}, NEW i \in DOMAIN o.window
               PROVE  o.window[i] = o.start + i
    BY DEF TimesAreTrue
  <2>1. o \in Outputs /\ Dated(o)
    BY DEF StreamIInv, StreamTypeOK
  <2>2. DOMAIN o.window = 1 .. Len(o.window)
    BY <2>1, LenProperties DEF Outputs
  <2> QED BY <2>1, <2>2 DEF Dated
<1> QED BY StreamInvariance, <1>1, PTL

\* No sample is lost between two decodes, whichever of them fail.
THEOREM StreamNothingUnheard == StreamSpec => []NothingUnheard
<1>1. StreamIInv => NothingUnheard
  <2> SUFFICES ASSUME StreamIInv PROVE NothingUnheard
    OBVIOUS
  <2>1. Consumed \in Nat /\ fed \in Nat /\ Stretch(accum, Consumed, fed) /\ heard = 1 .. Consumed
    BY DEF StreamIInv, StreamTypeOK
  <2>2. ToSet(accum) = Consumed + 1 .. fed
    BY <2>1, StretchElements
  <2>3. Consumed <= fed
    BY <2>1 DEF Stretch
  <2> QED BY <2>1, <2>2, <2>3 DEF NothingUnheard
<1> QED BY StreamInvariance, <1>1, PTL

\* A final message that is not the answer to a failed decode has heard the
\* stream to its end.
THEOREM StreamFinalReachesEnd == StreamSpec => FinalReachesEnd
<1> DEFINE Final == sent' # sent /\ sent'.kind \in {"nothing", "decoded"}
                      => sent'.out.start + Len(sent'.out.window) = fed'
<1>1. StreamIInv /\ StreamIInv' /\ [StreamNext]_streamVars => [Final]_streamVars
  <2> SUFFICES ASSUME StreamIInv, StreamIInv', StreamNext, sent' # sent,
                      sent'.kind \in {"nothing", "decoded"}
               PROVE  sent'.out.start + Len(sent'.out.window) = fed'
    OBVIOUS
  <2>1. out'.start + Len(out'.window) = Consumed'
    BY DEF StreamIInv
  <2>2. PICK ok \in BOOLEAN : Flush(ok) \/ \E n \in 1 .. MaxPiece : Feed(n, ok)
    BY DEF StreamNext
  <2>3. ASSUME NEW n \in 1 .. MaxPiece, Feed(n, ok) PROVE FALSE
    <3>1. sent' = sent \/ sent' = [out |-> out', kind |-> "partial"]
      BY <2>3 DEF Feed
    <3> QED BY <3>1
  <2>4. sent' = [out |-> out', kind |-> FlushCode(ok)]
    BY <2>2, <2>3 DEF Flush
  <2>5. accum' = <<>>
    BY <2>2, <2>3, <2>4 DEF Flush, FlushCode, RunDecode
  <2>6. Len(accum') = 0 /\ fed' \in Nat
    BY <2>5, EmptySeq DEF StreamIInv, StreamTypeOK
  <2>7. Consumed' = fed'
    <3>1. Consumed' = fed' - Len(accum')
      BY DEF Consumed
    <3> QED BY <2>6, <3>1, AllConsumed
  <2> QED BY <2>1, <2>4, <2>7
<1> QED BY StreamInvariance, <1>1, PTL DEF StreamSpec, FinalReachesEnd

----------------------------------------------------------------------------
(* RealtimeSession *)

\* The sequence t ends in s.
EndsIn(t, s) == \E u \in Seq(Words) : t = u \o s

\* It is then a suffix in the sense of the community module.
LEMMA EndIsSuffix ==
    ASSUME NEW s \in Seq(Words), NEW t \in Seq(Words), EndsIn(t, s)
    PROVE  IsSuffix(s, t)
<1>1. PICK u \in Seq(Words) : t = u \o s
  BY DEF EndsIn
<1> DEFINE a == Reverse(s)
           b == Reverse(t)
<1>2. /\ Len(t) = Len(u) + Len(s) /\ Len(s) \in Nat /\ Len(u) \in Nat /\ Len(t) \in Nat
      /\ \A i \in 1 .. Len(s) : t[Len(u) + i] = s[i]
  BY <1>1
<1>3. /\ a \in Seq(Words) /\ Len(a) = Len(s) /\ \A i \in 1 .. Len(s) : a[i] = s[(Len(s) - i) + 1]
  BY <1>2 DEF Reverse
<1>4. /\ b \in Seq(Words) /\ Len(b) = Len(t) /\ \A i \in 1 .. Len(t) : b[i] = t[(Len(t) - i) + 1]
  BY <1>2 DEF Reverse
<1> HIDE DEF a, b
<1>5. \A i \in 1 .. Len(s) : a[i] = b[i]
  <2> SUFFICES ASSUME NEW i \in 1 .. Len(s) PROVE a[i] = b[i]
    OBVIOUS
  <2>1. (Len(s) - i) + 1 \in 1 .. Len(s) /\ (Len(t) - i) + 1 = Len(u) + ((Len(s) - i) + 1)
        /\ i \in 1 .. Len(t)
    BY <1>2
  <2> QED BY <1>2, <1>3, <1>4, <2>1
<1>6. SubSeq(a, 1, Len(a)) = SubSeq(b, 1, Len(a))
  BY <1>2, <1>3, <1>4, <1>5
<1>7. IsPrefix(a, b)
  BY <1>2, <1>3, <1>4, <1>6 DEF IsPrefix
<1> QED BY <1>7 DEF IsSuffix, a, b

\* FlattenSeq runs: f[i] is what it makes of the first i sequences.
LEMMA Flattening ==
    ASSUME NEW ds \in Seq(Seq(Words)), ds # <<>>
    PROVE  \E f : /\ f[1] = ds[1]
                  /\ \A i \in 2 .. Len(ds) : f[i] = f[i - 1] \o ds[i]
                  /\ FlattenSeq(ds) = f[Len(ds)]
<1> DEFINE Runs(f, n) ==
             f = [i \in 1 .. n |-> IF i = 1 THEN ds[i] ELSE f[i - 1] \o ds[i]]
           T == {n \in Nat : \E f : Runs(f, n + 1)}
<1>1. 0 \in T
  <2> DEFINE g == [i \in 1 .. 1 |-> ds[i]]
  <2>1. Runs(g, 1) /\ 0 + 1 = 1
    OBVIOUS
  <2> HIDE DEF g
  <2>2. Runs(g, 0 + 1)
    BY <2>1
  <2>3. \E f : Runs(f, 0 + 1)
    BY <2>2
  <2> QED BY <2>3
<1>2. ASSUME NEW n \in Nat, n \in T PROVE n + 1 \in T
  <2>1. PICK f : Runs(f, n + 1)
    BY <1>2
  <2>2. PICK m \in Nat : m = n + 1 /\ m # 0
    OBVIOUS
  <2>0. f = [i \in 1 .. m |-> IF i = 1 THEN ds[i] ELSE f[i - 1] \o ds[i]]
    BY <2>1, <2>2
  <2> DEFINE g == [i \in 1 .. m + 1 |-> IF i <= m THEN f[i] ELSE f[m] \o ds[m + 1]]
  <2>3. ASSUME NEW i \in 1 .. m + 1
        PROVE  g[i] = IF i = 1 THEN ds[i] ELSE g[i - 1] \o ds[i]
    <3>1. CASE i = 1
      <4>1. g[i] = f[i] /\ f[i] = ds[i]
        BY <2>0, <2>2, <3>1
      <4> QED BY <3>1, <4>1
    <3>2. CASE i \in 2 .. m
      <4>1. i \in 1 .. m /\ i # 1
        BY <3>2
      <4>3. f[i] = f[i - 1] \o ds[i]
        BY <2>0, <4>1
      <4>2. g[i] = f[i] /\ g[i - 1] = f[i - 1] /\ i # 1
        BY <3>2
      <4> HIDE DEF g
      <4> QED BY <4>2, <4>3
    <3>3. CASE i = m + 1
      <4>1. g[i] = f[m] \o ds[m + 1] /\ g[m] = f[m] /\ i - 1 = m /\ i # 1
        <5>1. m \in 1 .. m + 1 /\ i \in 1 .. m + 1 /\ ~(i <= m) /\ i - 1 = m /\ i # 1 /\ m <= m
          BY <2>2, <3>3
        <5> QED BY <5>1
      <4> HIDE DEF g
      <4> QED BY <3>3, <4>1
    <3> QED BY <2>2, <3>1, <3>2, <3>3
  <2>4. g = [i \in 1 .. m + 1 |-> g[i]]
    OBVIOUS
  <2> HIDE DEF g
  <2>5. g = [i \in 1 .. m + 1 |-> IF i = 1 THEN ds[i] ELSE g[i - 1] \o ds[i]]
    BY <2>3, <2>4
  <2> QED BY <2>2, <2>5
<1>3. \A n \in Nat : n \in T
  <2> HIDE DEF T
  <2> QED BY <1>1, <1>2, SetInduction
<1>4. Len(ds) - 1 \in Nat /\ (Len(ds) - 1) + 1 = Len(ds) /\ 1 \in 1 .. Len(ds)
  OBVIOUS
<1> DEFINE f == CHOOSE f : Runs(f, Len(ds))
<1>5. Runs(f, Len(ds))
  <2>1. Len(ds) - 1 \in T
    BY <1>3, <1>4
  <2>2. \E h : Runs(h, Len(ds))
    BY <1>4, <2>1
  <2> QED BY <2>2
<1>6. FlattenSeq(ds) = f[Len(ds)]
  BY <1>4 DEF FlattenSeq
<1> HIDE DEF f
<1>7. f[1] = ds[1]
  BY <1>4, <1>5
<1>8. ASSUME NEW i \in 2 .. Len(ds) PROVE f[i] = f[i - 1] \o ds[i]
  <2>1. i \in 1 .. Len(ds) /\ i # 1
    BY <1>4
  <2> QED BY <1>5, <2>1
<1> QED BY <1>6, <1>7, <1>8

\* Nothing flattens to nothing, which ends in nothing.
LEMMA FlattenEmpty == FlattenSeq(<<>>) = <<>>
<1>1. PICK e : e = <<>> /\ Len(e) = 0
  OBVIOUS
<1>2. FlattenSeq(e) = e
  BY <1>1 DEF FlattenSeq
<1> QED BY <1>1, <1>2

\* Before anything is sent the text is the end of the deltas.
LEMMA EmptyEnd == EndsIn(<<>>, <<>>)
<1>1. <<>> \in Seq(Words) /\ <<>> = <<>> \o <<>>
  OBVIOUS
<1> QED BY <1>1 DEF EndsIn

\* It flattens to a sequence, and one more sequence goes to the end.
LEMMA FlattenAppend ==
    ASSUME NEW ds \in Seq(Seq(Words)), NEW d \in Seq(Words)
    PROVE  /\ FlattenSeq(ds) \in Seq(Words)
           /\ FlattenSeq(Append(ds, d)) = FlattenSeq(ds) \o d
<1>1. PICK es \in Seq(Seq(Words)) : es = Append(ds, d)
  BY AppendProperties
<1>2. /\ es # <<>> /\ Len(es) = Len(ds) + 1 /\ Len(ds) \in Nat /\ es[Len(es)] = d
      /\ \A i \in 1 .. Len(ds) : es[i] = ds[i] /\ ds[i] \in Seq(Words)
  BY <1>1
<1>3. PICK g : /\ g[1] = es[1]
               /\ \A i \in 2 .. Len(es) : g[i] = g[i - 1] \o es[i]
               /\ FlattenSeq(es) = g[Len(es)]
  BY <1>2, Flattening
<1>4. CASE ds = <<>>
  <2>1. Len(es) = 1 /\ g[1] = d
    BY <1>2, <1>3, <1>4
  <2>2. FlattenSeq(ds) = <<>>
    BY <1>4, FlattenEmpty
  <2> QED BY <1>1, <1>3, <2>1, <2>2
<1>5. CASE ds # <<>>
  <2>1. PICK f : /\ f[1] = ds[1]
                 /\ \A i \in 2 .. Len(ds) : f[i] = f[i - 1] \o ds[i]
                 /\ FlattenSeq(ds) = f[Len(ds)]
    BY <1>5, Flattening
  <2> DEFINE T == {n \in Nat : n + 1 <= Len(ds) => f[n + 1] \in Seq(Words) /\ g[n + 1] = f[n + 1]}
  <2>2. 0 \in T
    BY <1>2, <1>3, <1>5, <2>1
  <2>3. ASSUME NEW n \in Nat, n \in T PROVE n + 1 \in T
    <3> SUFFICES ASSUME n + 1 + 1 <= Len(ds)
                 PROVE  f[n + 1 + 1] \in Seq(Words) /\ g[n + 1 + 1] = f[n + 1 + 1]
      OBVIOUS
    <3>1. PICK m \in Nat : m = n + 1 + 1 /\ m - 1 = n + 1
      OBVIOUS
    <3>2. m \in 2 .. Len(ds) /\ m \in 2 .. Len(es) /\ m \in 1 .. Len(ds)
      BY <1>2, <3>1
    <3>3. f[m - 1] \in Seq(Words) /\ g[m - 1] = f[m - 1]
      BY <1>2, <2>3, <3>1
    <3>4. f[m] = f[m - 1] \o ds[m] /\ g[m] = g[m - 1] \o es[m] /\ es[m] = ds[m]
          /\ ds[m] \in Seq(Words)
      BY <1>2, <1>3, <2>1, <3>2
    <3> QED BY <3>1, <3>3, <3>4
  <2>4. \A n \in Nat : n \in T
    <3> HIDE DEF T
    <3> QED BY <2>2, <2>3, SetInduction
  <2>5. Len(ds) - 1 \in Nat /\ (Len(ds) - 1) + 1 = Len(ds) /\ Len(es) - 1 = Len(ds)
        /\ Len(es) \in 2 .. Len(es)
    BY <1>2, <1>5
  <2>6. f[Len(ds)] \in Seq(Words) /\ g[Len(ds)] = f[Len(ds)]
    <3>1. Len(ds) - 1 \in T
      BY <2>4, <2>5
    <3> QED BY <1>2, <2>5, <3>1
  <2>7. g[Len(es)] = g[Len(ds)] \o d
    BY <1>2, <1>3, <2>5
  <2> QED BY <1>1, <1>3, <2>1, <2>6, <2>7
<1> QED BY <1>4, <1>5

----------------------------------------------------------------------------

\* The inductive invariant of RealtimeSession.
RtIInv ==
    /\ RtTypeOK
    /\ EndsIn(FlattenSeq(deltas), textSent)
    /\ EndsIn(FlattenSeq(completed.deltas), completed.transcript)

\* A pass over the buffer keeps the deltas ending in the text.
LEMMA ProcessedKeeps ==
    ASSUME RtIInv, NEW n \in Nat, NEW text \in Seq(Words), NEW p, p = Processed(n, text)
    PROVE  /\ p.text \in Seq(Words) /\ p.deltas \in Seq(Seq(Words))
           /\ EndsIn(FlattenSeq(p.deltas), p.text)
<1>1. /\ textSent \in Seq(Words) /\ deltas \in Seq(Seq(Words))
      /\ EndsIn(FlattenSeq(deltas), textSent)
  BY DEF RtIInv, RtTypeOK
<1>2. CASE n = 0 \/ Diff(text) = <<>>
  <2>1. Processed(n, text) = [text |-> textSent, deltas |-> deltas]
    BY <1>2 DEF Processed
  <2> QED BY <1>1, <2>1
<1>3. CASE ~(n = 0 \/ Diff(text) = <<>>)
  <2>1. Processed(n, text) = [text |-> text, deltas |-> Append(deltas, Diff(text))]
    BY <1>3 DEF Processed
  <2>2. FlattenSeq(deltas) \in Seq(Words)
    BY <1>1, FlattenAppend
  <2>3. Diff(text) \in Seq(Words) /\ EndsIn(FlattenSeq(deltas) \o Diff(text), text)
    <3>1. CASE IsStrictPrefix(textSent, text)
      <4>1. /\ Len(textSent) \in Nat /\ Len(text) \in Nat /\ Len(textSent) <= Len(text)
            /\ SubSeq(textSent, 1, Len(textSent)) = SubSeq(text, 1, Len(textSent))
        BY <1>1, <3>1 DEF IsStrictPrefix, IsPrefix
      <4> DEFINE more == SubSeq(text, Len(textSent) + 1, Len(text))
      <4>2. Diff(text) = more /\ more \in Seq(Words)
        BY <3>1, <4>1 DEF Diff
      <4>3. text = textSent \o more
        <5>1. SubSeq(textSent, 1, Len(textSent)) = textSent /\ SubSeq(text, 1, Len(text)) = text
          BY <1>1, SubSeqFull
        <5>2. /\ 1 \in 1 .. Len(text) + 1 /\ Len(textSent) \in 1 - 1 .. Len(text)
              /\ Len(text) \in Len(textSent) .. Len(text)
          BY <4>1
        <5>3. SubSeq(text, 1, Len(textSent)) \o more = SubSeq(text, 1, Len(text))
          BY <5>2, ConcatAdjacentSubSeq
        <5> QED BY <4>1, <5>1, <5>3
      <4> HIDE DEF more
      <4>4. PICK u \in Seq(Words) : FlattenSeq(deltas) = u \o textSent
        BY <1>1 DEF EndsIn
      <4>5. FlattenSeq(deltas) \o more = u \o text
        BY <1>1, <4>2, <4>3, <4>4
      <4> QED BY <4>2, <4>5 DEF EndsIn
    <3>2. CASE ~IsStrictPrefix(textSent, text)
      BY <2>2, <3>2 DEF Diff, EndsIn
    <3> QED BY <3>1, <3>2
  <2>4. /\ Append(deltas, Diff(text)) \in Seq(Seq(Words))
        /\ FlattenSeq(Append(deltas, Diff(text))) = FlattenSeq(deltas) \o Diff(text)
    BY <1>1, <2>3, FlattenAppend
  <2>5. p.text = text /\ p.deltas = Append(deltas, Diff(text))
    BY <2>1
  <2> QED BY <2>3, <2>4, <2>5
<1> QED BY <1>2, <1>3

\* A commit keeps the invariant.
LEMMA CommitKeeps ==
    ASSUME RtIInv, NEW n \in Nat, NEW text \in Seq(Words), HandleCommit(n, text), threw' = FALSE
    PROVE  RtIInv'
<1>0. PICK p : p = Processed(n, text)
  OBVIOUS
<1>1. p.text \in Seq(Words) /\ p.deltas \in Seq(Seq(Words)) /\ EndsIn(FlattenSeq(p.deltas), p.text)
  BY <1>0, ProcessedKeeps
<1>2. /\ completed' = [transcript |-> p.text, deltas |-> p.deltas]
      /\ buffer' = 0 /\ textSent' = <<>> /\ deltas' = <<>>
  BY <1>0 DEF HandleCommit
<1>3. FlattenSeq(<<>>) = <<>> /\ EndsIn(<<>>, <<>>)
  BY FlattenEmpty, EmptyEnd
<1>4. RtTypeOK'
  <2>1. <<>> \in Seq(Words) /\ <<>> \in Seq(Seq(Words)) /\ 0 \in Nat
    OBVIOUS
  <2>2. completed' \in [transcript : Seq(Words), deltas : Seq(Seq(Words))]
    BY <1>1, <1>2
  <2> QED BY <1>2, <2>1, <2>2 DEF RtTypeOK
<1>5. EndsIn(FlattenSeq(completed'.deltas), completed'.transcript)
  BY <1>1, <1>2
<1>6. EndsIn(FlattenSeq(deltas'), textSent')
  BY <1>2, <1>3
<1> QED BY <1>4, <1>5, <1>6 DEF RtIInv, EndsIn

\* So does an exception.
LEMMA ThrowKeeps ==
    ASSUME RtIInv, NEW n \in Nat, Throws(n)
    PROVE  RtIInv'
BY DEF RtIInv, RtTypeOK, Throws, EndsIn

\* And a pass over the buffer.
LEMMA PassKeeps ==
    ASSUME RtIInv, NEW n \in Nat, NEW text \in Seq(Words), ProcessAudio(n, text), threw' = FALSE
    PROVE  RtIInv'
<1>0. PICK p : p = Processed(n, text)
  OBVIOUS
<1>1. p.text \in Seq(Words) /\ p.deltas \in Seq(Seq(Words)) /\ EndsIn(FlattenSeq(p.deltas), p.text)
  BY <1>0, ProcessedKeeps
<1>2. buffer' = n /\ textSent' = p.text /\ deltas' = p.deltas /\ UNCHANGED completed
  BY <1>0 DEF ProcessAudio
<1>3. RtTypeOK'
  BY <1>1, <1>2 DEF RtIInv, RtTypeOK
<1>4. EndsIn(FlattenSeq(deltas'), textSent')
  BY <1>1, <1>2
<1> QED BY <1>2, <1>3, <1>4 DEF RtIInv, EndsIn

\* Every event keeps the invariant.
LEMMA RtInductive == RtIInv /\ [RtNext]_rtVars => RtIInv'
<1> SUFFICES ASSUME RtIInv, [RtNext]_rtVars PROVE RtIInv'
  OBVIOUS
<1>1. buffer \in Nat
  BY DEF RtIInv, RtTypeOK
<1>2. CASE RtNext
  <2>1. PICK text \in BoundedSeq(Words, MaxWords) :
           Commit(text) \/ \E n \in 0 .. MaxAppend : AppendAudio(n, text)
    BY <1>2 DEF RtNext
  <2>2. text \in Seq(Words)
    BY RealtimeAssumption DEF BoundedSeq, SeqOf
  <2>3. CASE Commit(text)
    BY <1>1, <2>2, <2>3, CommitKeeps, ThrowKeeps DEF Commit
  <2>4. ASSUME NEW n \in 0 .. MaxAppend, AppendAudio(n, text) PROVE RtIInv'
    <3>1. PICK size \in Nat : size = buffer + n
      BY <1>1, RealtimeAssumption
    <3>2. CASE HandleCommit(size, text) /\ threw' = FALSE
      BY <2>2, <3>2, CommitKeeps
    <3>3. CASE ProcessAudio(size, text) /\ threw' = FALSE
      BY <2>2, <3>3, PassKeeps
    <3>4. CASE Throws(size)
      BY <3>4, ThrowKeeps
    <3>5. CASE buffer' = size /\ threw' = FALSE /\ UNCHANGED <<textSent, deltas, completed>>
      BY <3>5 DEF RtIInv, RtTypeOK, EndsIn
    <3> QED BY <2>4, <3>1, <3>2, <3>3, <3>4, <3>5 DEF AppendAudio
  <2> QED BY <2>1, <2>3, <2>4
<1>3. CASE UNCHANGED rtVars
  BY <1>3 DEF rtVars, RtIInv, RtTypeOK, EndsIn
<1> QED BY <1>2, <1>3

\* It holds before the first event.
LEMMA RtInitial == RtInit => RtIInv
<1> SUFFICES ASSUME RtInit PROVE RtIInv
  OBVIOUS
<1>1. FlattenSeq(<<>>) = <<>> /\ EndsIn(<<>>, <<>>)
  BY FlattenEmpty, EmptyEnd
<1>2. <<>> \in Seq(Words) /\ <<>> \in Seq(Seq(Words))
  OBVIOUS
<1>3. /\ buffer = 0 /\ textSent = <<>> /\ deltas = <<>> /\ threw = FALSE
      /\ completed = [transcript |-> <<>>, deltas |-> <<>>]
      /\ completed.transcript = <<>> /\ completed.deltas = <<>>
  BY DEF RtInit
<1>4. RtTypeOK
  BY <1>2, <1>3 DEF RtTypeOK
<1> QED BY <1>1, <1>3, <1>4 DEF RtIInv

\* So it always holds.
LEMMA RtInvariance == RtSpec => []RtIInv
BY RtInitial, RtInductive, PTL DEF RtSpec

\* The variables of rt_session keep their types, for any words, sizes and
\* limit.
THEOREM RealtimeTypeCorrect == RtSpec => []RtTypeOK
<1>1. RtIInv => RtTypeOK
  BY DEF RtIInv
<1> QED BY <1>1, RtInvariance, PTL

\* The deltas that process_audio() sent of an utterance, joined, end in its
\* transcript, and so do those before a completed event in the transcript of
\* the event, whatever the passes yield and whichever of them throws.
THEOREM RealtimeDeltasEndInTranscript == RtSpec => []DeltasEndInTranscript
<1>1. ASSUME RtIInv PROVE DeltasEndInTranscript
  <2>1. /\ textSent \in Seq(Words) /\ completed.transcript \in Seq(Words)
        /\ deltas \in Seq(Seq(Words)) /\ completed.deltas \in Seq(Seq(Words))
        /\ EndsIn(FlattenSeq(deltas), textSent)
        /\ EndsIn(FlattenSeq(completed.deltas), completed.transcript)
    BY <1>1 DEF RtIInv, RtTypeOK
  <2>2. FlattenSeq(deltas) \in Seq(Words) /\ FlattenSeq(completed.deltas) \in Seq(Words)
    BY <2>1, FlattenAppend
  <2> QED BY <2>1, <2>2, EndIsSuffix DEF DeltasEndInTranscript
<1> QED BY <1>1, RtInvariance, PTL
=============================================================================
