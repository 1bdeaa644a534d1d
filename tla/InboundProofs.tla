--------------------------- MODULE InboundProofs ---------------------------
(***************************************************************************)
(* Proofs about messages and replies, as parts of Runtime: the chunker, for *)
(* any text, limits and configuration; the dispatcher, for any senders,     *)
(* chats and replies and any number of messages; and, with the invariants   *)
(* of the other components, that all of Runtime keeps its shape.            *)
(***************************************************************************)
EXTENDS RuntimeProofs, BackgroundProofs

(***************************************************************************)
(* Folds.  FoldLeft takes the elements of a set of indices, the largest     *)
(* last; what it computes is the end of a table with an entry per prefix.   *)
(***************************************************************************)

LEMMA LargestIs ==
  ASSUME NEW k \in Nat, NEW x \in SUBSET (1 .. k), k \in x
  PROVE  Inbound!Max(x) = k
<1>1. k \in x /\ \A y \in x : k >= y
  OBVIOUS
<1>2. \A z \in x : (\A y \in x : z >= y) => z = k
  OBVIOUS
<1> QED
  BY <1>1, <1>2 DEF Inbound!Max

LEMMA LargestIn ==
  ASSUME NEW n \in Nat, NEW x \in SUBSET (1 .. n), x # {}
  PROVE  Inbound!Max(x) \in x
<1> DEFINE Vacant == {k \in 0 .. n : \A y \in x : y <= n - k}
<1>1. ASSUME \A m \in x : \E y \in x : y > m PROVE FALSE
  <2>1. 0 \in Vacant
    OBVIOUS
  <2>2. ASSUME NEW k \in 1 .. n, k - 1 \in Vacant PROVE k \in Vacant
    <3>1. \A y \in x : y <= n - k + 1
      BY <2>2
    <3>2. n - k + 1 \notin x
      BY <1>1, <3>1
    <3> QED
      BY <3>1, <3>2
  <2> DEFINE Others == (0 .. n) \ Vacant
  <2>3. Others = {}
    <3>1. 0 \notin Others /\ Others \in SUBSET (0 .. n)
      BY <2>1
    <3>2. ASSUME NEW k \in Others, k # 0 PROVE k - 1 \in Others
      <4> HIDE DEF Vacant
      <4> QED
        BY <2>2, <3>2
    <3> HIDE DEF Others
    <3> QED
      BY <3>1, <3>2, NoCounterexample
  <2>4. n \in Vacant
    BY <2>3
  <2>5. PICK y \in x : TRUE
    OBVIOUS
  <2>6. y \in 1 .. n /\ y <= n - n
    BY <2>4
  <2> QED
    BY <2>6
<1>2. PICK m \in x : \A y \in x : m >= y
  <2>1. PICK m \in x : ~(\E y \in x : y > m)
    BY <1>1
  <2> QED
    BY <2>1
<1> QED
  BY <1>2 DEF Inbound!Max

Solves(g, n, base, step) ==
    \A x \in SUBSET (1 .. n) :
        g[x] = IF x = {} THEN base ELSE step[<<g[x \ {Inbound!Max(x)}], Inbound!Max(x)>>]

LEMMA SolutionExists ==
  ASSUME NEW n \in Nat, NEW S, NEW base \in S, NEW step \in [S \X (1 .. n) -> S]
  PROVE  \E g \in [SUBSET (1 .. n) -> S] : Solves(g, n, base, step)
<1> DEFINE Solved(k) == \E g \in [SUBSET (1 .. k) -> S] : Solves(g, k, base, step)
           Open == {k \in 0 .. n : ~Solved(k)}
<1>1. Solved(0)
  <2> DEFINE g == [x \in SUBSET (1 .. 0) |-> base]
  <2>1. g \in [SUBSET (1 .. 0) -> S]
    OBVIOUS
  <2>2. \A x \in SUBSET (1 .. 0) : x = {} /\ g[x] = base
    OBVIOUS
  <2> HIDE DEF g
  <2> QED
    BY <2>1, <2>2 DEF Solves
<1>2. ASSUME NEW k \in 1 .. n, Solved(k - 1) PROVE Solved(k)
  <2>1. PICK g \in [SUBSET (1 .. k - 1) -> S] : Solves(g, k - 1, base, step)
    BY <1>2
  <2> DEFINE h == [x \in SUBSET (1 .. k) |-> IF k \in x THEN step[<<g[x \ {k}], k>>] ELSE g[x]]
  <2>2. \A x \in SUBSET (1 .. k) : /\ x \ {k} \in SUBSET (1 .. k - 1)
                                   /\ k \notin x => x \in SUBSET (1 .. k - 1)
    OBVIOUS
  <2>3. \A x \in SUBSET (1 .. k) : h[x] = IF k \in x THEN step[<<g[x \ {k}], k>>] ELSE g[x]
    OBVIOUS
  <2>4. h \in [SUBSET (1 .. k) -> S]
    <3> SUFFICES ASSUME NEW x \in SUBSET (1 .. k)
                 PROVE  (IF k \in x THEN step[<<g[x \ {k}], k>>] ELSE g[x]) \in S
      OBVIOUS
    <3>1. g[x \ {k}] \in S /\ (k \notin x => g[x] \in S)
      BY <2>2
    <3>2. k \in 1 .. n
      OBVIOUS
    <3> QED
      BY <3>1, <3>2
  <2>5. Solves(h, k, base, step)
    <3> SUFFICES ASSUME NEW x \in SUBSET (1 .. k)
                 PROVE  h[x] = IF x = {} THEN base ELSE step[<<h[x \ {Inbound!Max(x)}], Inbound!Max(x)>>]
      BY DEF Solves
    <3>1. CASE k \in x
      <4>1. Inbound!Max(x) = k
        BY <3>1, LargestIs
      <4>2. x \ {k} \in SUBSET (1 .. k) /\ k \notin x \ {k}
        OBVIOUS
      <4>3. h[x \ {k}] = g[x \ {k}]
        BY <4>2, <2>3
      <4> HIDE DEF h
      <4> QED
        BY <3>1, <4>1, <4>3, <2>3
    <3>2. CASE k \notin x
      <4>1. x \in SUBSET (1 .. k - 1)
        BY <3>2, <2>2
      <4>2. \A m : x \ {m} \in SUBSET (1 .. k) /\ k \notin x \ {m}
        BY <3>2
      <4>3. \A m : h[x \ {m}] = g[x \ {m}]
        BY <4>2, <2>3
      <4>4. g[x] = IF x = {} THEN base ELSE step[<<g[x \ {Inbound!Max(x)}], Inbound!Max(x)>>]
        BY <2>1, <4>1 DEF Solves
      <4> HIDE DEF h
      <4> QED
        BY <3>2, <4>3, <4>4, <2>3
    <3> QED
      BY <3>1, <3>2
  <2> HIDE DEF h
  <2> QED
    BY <2>4, <2>5
<1> HIDE DEF Solved
<1>3. 0 \notin Open /\ \A k \in Open : k # 0 => k - 1 \in Open
  <2>1. 0 \notin Open
    BY <1>1
  <2>2. ASSUME NEW k \in Open, k # 0 PROVE k - 1 \in Open
    <3>1. k \in 1 .. n /\ k - 1 \in 0 .. n /\ ~Solved(k)
      BY <2>2
    <3>2. ~Solved(k - 1)
      BY <3>1, <1>2
    <3> QED
      BY <3>1, <3>2
  <2> HIDE DEF Open
  <2> QED
    BY <2>1, <2>2
<1>4. Open = {}
  <2>1. Open \in SUBSET (0 .. n)
    OBVIOUS
  <2> HIDE DEF Open
  <2> QED
    BY <1>3, <2>1, NoCounterexample
<1>5. n \in 0 .. n
  OBVIOUS
<1>6. Solved(n)
  BY <1>4, <1>5
<1> QED
  BY <1>6 DEF Solved

\* An entry for every prefix.
Tables(f, n, base, step) == f[0] = base /\ \A k \in 1 .. n : f[k] = step[<<f[k - 1], k>>]

Recurs(h, n, S, step) ==
    \A x \in SUBSET (1 .. n) :
        x # {} /\ h[x \ {Inbound!Max(x)}] \in S => h[x] = step[<<h[x \ {Inbound!Max(x)}], Inbound!Max(x)>>]

Tabled(h, n, S, base, step) == \E f \in [0 .. n -> S] : Tables(f, n, base, step) /\ h[1 .. n] = f[n]

LEMMA TableOf ==
  ASSUME NEW n \in Nat, NEW S, NEW base \in S, NEW step \in [S \X (1 .. n) -> S], NEW h, h[{}] = base,
         Recurs(h, n, S, step)
  PROVE  Tabled(h, n, S, base, step)
<1> DEFINE f == [k \in 0 .. n |-> h[1 .. k]]
           Bad == {k \in 0 .. n : h[1 .. k] \notin S}
<1>1. \A k \in 1 .. n : h[1 .. k - 1] \in S => h[1 .. k] = step[<<h[1 .. k - 1], k>>]
  <2> SUFFICES ASSUME NEW k \in 1 .. n, h[1 .. k - 1] \in S
               PROVE  h[1 .. k] = step[<<h[1 .. k - 1], k>>]
    OBVIOUS
  <2>1. (1 .. k) \in SUBSET (1 .. n) /\ (1 .. k) # {} /\ k \in 1 .. k /\ k \in Nat /\ (1 .. k) \in SUBSET (1 .. k)
    OBVIOUS
  <2>2. Inbound!Max(1 .. k) = k
    BY <2>1, LargestIs
  <2>3. (1 .. k) \ {k} = 1 .. k - 1
    OBVIOUS
  <2> QED
    BY <2>1, <2>2, <2>3 DEF Recurs
<1>2. (1 .. 0) = {}
  OBVIOUS
<1>3. Bad = {}
  <2>1. 0 \notin Bad
    BY <1>2
  <2>2. ASSUME NEW k \in Bad, k # 0 PROVE k - 1 \in Bad
    <3>1. k \in 1 .. n /\ k - 1 \in 0 .. n /\ h[1 .. k] \notin S
      BY <2>2
    <3>2. ASSUME h[1 .. k - 1] \in S PROVE FALSE
      <4>1. h[1 .. k] = step[<<h[1 .. k - 1], k>>]
        BY <3>1, <3>2, <1>1
      <4>2. <<h[1 .. k - 1], k>> \in S \X (1 .. n)
        BY <3>1, <3>2
      <4> QED
        BY <3>1, <4>1, <4>2
    <3> QED
      BY <3>1, <3>2
  <2>3. Bad \in SUBSET (0 .. n)
    OBVIOUS
  <2> HIDE DEF Bad
  <2> QED
    BY <2>1, <2>2, <2>3, NoCounterexample
<1>4. \A k \in 0 .. n : h[1 .. k] \in S
  BY <1>3
<1>5. f \in [0 .. n -> S]
  BY <1>4
<1>6. Tables(f, n, base, step)
  <2>1. f[0] = base
    BY <1>2
  <2>2. ASSUME NEW k \in 1 .. n PROVE f[k] = step[<<f[k - 1], k>>]
    <3>1. k \in 0 .. n /\ k - 1 \in 0 .. n
      OBVIOUS
    <3> QED
      BY <3>1, <1>4, <1>1
  <2> HIDE DEF f
  <2> QED
    BY <2>1, <2>2 DEF Tables
<1>7. h[1 .. n] = f[n]
  OBVIOUS
<1> HIDE DEF f
<1> QED
  BY <1>5, <1>6, <1>7 DEF Tabled

(***************************************************************************)
(* The chunker: what it packs, over the sentences' identities I.            *)
(***************************************************************************)

Said(I) == [id : I, len : Nat \ {0}]
Block(I) == [items : Seq(I), len : Nat \ {0}]
Piece(I) == {c \in [items : Seq(I), len : Nat] : c.len = 0 => c.items = <<>>}
Filling(I) == [done : Seq(Block(I)), cur : Piece(I)]

LEMMA BlocksArePieces == \A I : Block(I) \subseteq Piece(I)
BY DEF Block, Piece

LEMMA BlankFacts ==
  ASSUME NEW I
  PROVE  /\ Inbound!Blank \in Piece(I) /\ Inbound!Blank.len = 0 /\ Inbound!Blank.items = <<>>
         /\ Inbound!NoChunks \in Filling(I) /\ Inbound!NoChunks.done = <<>> /\ Inbound!NoChunks.cur = Inbound!Blank
<1>1. <<>> \in Seq(I) /\ <<>> \in Seq(Block(I))
  BY EmptySeq
<1>2. /\ Inbound!Blank \in Piece(I) /\ Inbound!Blank.len = 0 /\ Inbound!Blank.items = <<>>
  BY <1>1 DEF Inbound!Blank, Piece
<1> QED
  BY <1>1, <1>2 DEF Inbound!NoChunks, Filling

LEMMA SentenceFacts ==
  ASSUME NEW I, NEW s \in Said(I)
  PROVE  Inbound!Sentence(s) \in Block(I) /\ Inbound!Sentence(s).items = <<s.id>> /\ Inbound!Sentence(s).len = s.len
BY DEF Said, Inbound!Sentence, Block

LEMMA JoinedFacts ==
  ASSUME NEW I, NEW c \in Piece(I), NEW d \in Block(I), NEW gap \in Nat
  PROVE  /\ Inbound!Joined(c, d, gap) \in Block(I)
         /\ Inbound!Joined(c, d, gap).items = c.items \o d.items
         /\ Inbound!Joined(c, d, gap).len = IF c.len = 0 THEN d.len ELSE c.len + gap + d.len
<1>1. c.items \in Seq(I) /\ d.items \in Seq(I) /\ c.len \in Nat /\ d.len \in Nat \ {0}
  BY DEF Piece, Block
<1>2. c.items \o d.items \in Seq(I) /\ <<>> \o d.items = d.items
  BY <1>1, ConcatProperties, ConcatEmptySeq
<1>3. CASE c.len = 0
  <2>1. c.items = <<>> /\ Inbound!Joined(c, d, gap) = d
    BY <1>3 DEF Piece, Inbound!Joined
  <2> QED
    BY <1>2, <1>3, <2>1
<1>4. CASE c.len # 0
  <2>1. Inbound!Joined(c, d, gap) = [items |-> c.items \o d.items, len |-> c.len + gap + d.len]
    BY <1>4 DEF Inbound!Joined
  <2>2. c.len + gap + d.len \in Nat \ {0}
    BY <1>1
  <2> QED
    BY <1>2, <1>4, <2>1, <2>2 DEF Block
<1> QED
  BY <1>3, <1>4

LEMMA FilledFacts ==
  ASSUME NEW I, NEW st \in Filling(I), NEW c \in Block(I), NEW gap \in Nat
  PROVE  /\ Inbound!Filled(st, c, gap) \in Filling(I)
         /\ Inbound!Filled(st, c, gap).done = st.done
         /\ Inbound!Filled(st, c, gap).cur = Inbound!Joined(st.cur, c, gap)
<1>1. Inbound!Filled(st, c, gap) = [done |-> st.done, cur |-> Inbound!Joined(st.cur, c, gap)]
  BY DEF Inbound!Filled, Filling
<1>2. st.done \in Seq(Block(I)) /\ st.cur \in Piece(I)
  BY DEF Filling
<1>3. Inbound!Joined(st.cur, c, gap) \in Piece(I)
  BY <1>2, JoinedFacts, BlocksArePieces
<1> QED
  BY <1>1, <1>2, <1>3 DEF Filling

LEMMA BegunFacts ==
  ASSUME NEW I, NEW st \in Filling(I), NEW c \in Piece(I)
  PROVE  /\ Inbound!Begun(st, c) \in Filling(I)
         /\ Inbound!Begun(st, c).done = IF st.cur.len = 0 THEN st.done ELSE Append(st.done, st.cur)
         /\ Inbound!Begun(st, c).cur = c
<1>1. Inbound!Begun(st, c) = [done |-> IF st.cur.len = 0 THEN st.done ELSE Append(st.done, st.cur), cur |-> c]
  BY DEF Inbound!Begun
<1>2. st.done \in Seq(Block(I)) /\ st.cur \in Piece(I)
  BY DEF Filling
<1>3. st.cur.len # 0 => st.cur \in Block(I)
  BY <1>2 DEF Piece, Block
<1>4. (IF st.cur.len = 0 THEN st.done ELSE Append(st.done, st.cur)) \in Seq(Block(I))
  BY <1>2, <1>3, AppendProperties
<1> QED
  BY <1>1, <1>4 DEF Filling

LEMMA StepsFill ==
  ASSUME NEW I, NEW st \in Filling(I)
  PROVE  /\ \A s \in Said(I) : Inbound!SentenceStep(st, s) \in Filling(I)
         /\ \A c \in Block(I) : Inbound!Pack(st, c) \in Filling(I)
<1>1. ASSUME NEW s \in Said(I) PROVE Inbound!SentenceStep(st, s) \in Filling(I)
  <2>1. Inbound!Sentence(s) \in Block(I) /\ Inbound!Sentence(s) \in Piece(I) /\ 1 \in Nat
    BY SentenceFacts, BlocksArePieces
  <2>2. Inbound!Begun(st, Inbound!Sentence(s)) \in Filling(I) /\ Inbound!Filled(st, Inbound!Sentence(s), 1) \in Filling(I)
    BY <2>1, BegunFacts, FilledFacts
  <2> QED
    BY <2>2 DEF Inbound!SentenceStep
<1>2. ASSUME NEW c \in Block(I) PROVE Inbound!Pack(st, c) \in Filling(I)
  <2>1. c \in Piece(I) /\ 1 \in Nat
    BY BlocksArePieces
  <2>2. Inbound!Begun(st, c) \in Filling(I) /\ Inbound!Filled(st, c, 1) \in Filling(I)
    BY <2>1, BegunFacts, FilledFacts
  <2> QED
    BY <2>2 DEF Inbound!Pack
<1> QED
  BY <1>1, <1>2

(***************************************************************************)
(* Its folds.                                                               *)
(***************************************************************************)

LEMMA FlatTable ==
  ASSUME NEW X, NEW s \in Seq(Seq(X))
  PROVE  \E f \in [0 .. Len(s) -> Seq(X)] :
            f[0] = <<>> /\ (\A k \in 1 .. Len(s) : f[k] = f[k - 1] \o s[k]) /\ Inbound!Flat(s) = f[Len(s)]
<1> DEFINE n == Len(s)
           S == Seq(X)
           base == <<>>
           step == [p \in S \X (1 .. n) |-> p[1] \o s[p[2]]]
           Recursive(h) == h = [x \in SUBSET (DOMAIN s) |-> IF x = {} THEN base ELSE h[x \ {Inbound!Max(x)}] \o s[Inbound!Max(x)]]
<1>1. n \in Nat /\ DOMAIN s = 1 .. n /\ (\A k \in 1 .. n : s[k] \in Seq(X)) /\ base \in S
  BY LenProperties, EmptySeq
<1>2. \A a \in S, k \in 1 .. n : a \o s[k] \in S
  BY <1>1, ConcatProperties
<1>3. step \in [S \X (1 .. n) -> S] /\ \A a \in S, k \in 1 .. n : step[<<a, k>>] = a \o s[k]
  BY <1>2
<1>4. Inbound!Flat(s) = (CHOOSE h : Recursive(h))[DOMAIN s]
  BY DEF Inbound!Flat, Inbound!FoldLeft, Inbound!MapThenFoldSet
<1> HIDE DEF n, step, S, base
<1>5. PICK g \in [SUBSET (1 .. n) -> S] : Solves(g, n, base, step)
  BY <1>1, <1>3, SolutionExists
<1>6. Recursive(g)
  <2>1. ASSUME NEW x \in SUBSET (1 .. n), x # {} PROVE Inbound!Max(x) \in 1 .. n /\ g[x \ {Inbound!Max(x)}] \in S
    BY <1>1, <2>1, LargestIn
  <2>2. ASSUME NEW x \in SUBSET (1 .. n), x # {} PROVE g[x] = g[x \ {Inbound!Max(x)}] \o s[Inbound!Max(x)]
    BY <1>3, <1>5, <2>1, <2>2 DEF Solves
  <2> QED
    BY <1>1, <1>5, <2>2 DEF Solves
<1>7. PICK h : Recursive(h) /\ Inbound!Flat(s) = h[1 .. n]
  BY <1>1, <1>4, <1>6
<1>8. h[{}] = base /\ \A x \in SUBSET (1 .. n) : x # {} => h[x] = h[x \ {Inbound!Max(x)}] \o s[Inbound!Max(x)]
  BY <1>1, <1>7
<1>9. Recurs(h, n, S, step)
  BY <1>1, <1>3, <1>8, LargestIn DEF Recurs
<1> HIDE DEF Recursive
<1>10. PICK f \in [0 .. n -> S] : Tables(f, n, base, step) /\ h[1 .. n] = f[n]
  <2>1. n \in Nat /\ base \in S
    BY <1>1
  <2>2. step \in [S \X (1 .. n) -> S]
    BY <1>3
  <2>3. h[{}] = base
    BY <1>8
  <2>4. Tabled(h, n, S, base, step)
    BY <2>1, <2>2, <2>3, <1>9, TableOf, Zenon
  <2> QED
    BY <2>4 DEF Tabled
<1>11. \A k \in 1 .. n : f[k] = f[k - 1] \o s[k]
  <2> SUFFICES ASSUME NEW k \in 1 .. n PROVE f[k] = f[k - 1] \o s[k]
    OBVIOUS
  <2>1. f[k] = step[<<f[k - 1], k>>]
    BY <1>10 DEF Tables
  <2>2. f[k - 1] \in S
    BY <1>1, <1>10
  <2> QED
    BY <1>3, <2>1, <2>2
<1>12. f[0] = base /\ Inbound!Flat(s) = f[n]
  BY <1>7, <1>10 DEF Tables
<1> QED
  BY <1>10, <1>11, <1>12 DEF n, S, base

LEMMA ParagraphTable ==
  ASSUME NEW I, NEW s \in Seq(Said(I))
  PROVE  \E f \in [0 .. Len(s) -> Piece(I)] :
            f[0] = Inbound!Blank /\ (\A k \in 1 .. Len(s) : f[k] = Inbound!Joined(f[k - 1], Inbound!Sentence(s[k]), 1)) /\ Inbound!Paragraph(s) = f[Len(s)]
<1> DEFINE n == Len(s)
           S == Piece(I)
           base == Inbound!Blank
           step == [p \in S \X (1 .. n) |-> Inbound!Joined(p[1], Inbound!Sentence(s[p[2]]), 1)]
           Recursive(h) == h = [x \in SUBSET (DOMAIN s) |-> IF x = {} THEN base ELSE Inbound!Joined(h[x \ {Inbound!Max(x)}], Inbound!Sentence(s[Inbound!Max(x)]), 1)]
<1>1. n \in Nat /\ DOMAIN s = 1 .. n /\ (\A k \in 1 .. n : s[k] \in Said(I)) /\ base \in S
  BY LenProperties, BlankFacts
<1>2. \A a \in S, k \in 1 .. n : Inbound!Joined(a, Inbound!Sentence(s[k]), 1) \in S
  BY <1>1, SentenceFacts, JoinedFacts, BlocksArePieces
<1>3. step \in [S \X (1 .. n) -> S] /\ \A a \in S, k \in 1 .. n : step[<<a, k>>] = Inbound!Joined(a, Inbound!Sentence(s[k]), 1)
  BY <1>2
<1>4. Inbound!Paragraph(s) = (CHOOSE h : Recursive(h))[DOMAIN s]
  BY DEF Inbound!Paragraph, Inbound!FoldLeft, Inbound!MapThenFoldSet
<1> HIDE DEF n, step, S, base
<1>5. PICK g \in [SUBSET (1 .. n) -> S] : Solves(g, n, base, step)
  BY <1>1, <1>3, SolutionExists
<1>6. Recursive(g)
  <2>1. ASSUME NEW x \in SUBSET (1 .. n), x # {} PROVE Inbound!Max(x) \in 1 .. n /\ g[x \ {Inbound!Max(x)}] \in S
    BY <1>1, <2>1, LargestIn
  <2>2. ASSUME NEW x \in SUBSET (1 .. n), x # {} PROVE g[x] = Inbound!Joined(g[x \ {Inbound!Max(x)}], Inbound!Sentence(s[Inbound!Max(x)]), 1)
    BY <1>3, <1>5, <2>1, <2>2 DEF Solves
  <2> QED
    BY <1>1, <1>5, <2>2 DEF Solves
<1>7. PICK h : Recursive(h) /\ Inbound!Paragraph(s) = h[1 .. n]
  BY <1>1, <1>4, <1>6
<1>8. h[{}] = base /\ \A x \in SUBSET (1 .. n) : x # {} => h[x] = Inbound!Joined(h[x \ {Inbound!Max(x)}], Inbound!Sentence(s[Inbound!Max(x)]), 1)
  BY <1>1, <1>7
<1>9. Recurs(h, n, S, step)
  BY <1>1, <1>3, <1>8, LargestIn DEF Recurs
<1> HIDE DEF Recursive
<1>10. PICK f \in [0 .. n -> S] : Tables(f, n, base, step) /\ h[1 .. n] = f[n]
  <2>1. n \in Nat /\ base \in S
    BY <1>1
  <2>2. step \in [S \X (1 .. n) -> S]
    BY <1>3
  <2>3. h[{}] = base
    BY <1>8
  <2>4. Tabled(h, n, S, base, step)
    BY <2>1, <2>2, <2>3, <1>9, TableOf, Zenon
  <2> QED
    BY <2>4 DEF Tabled
<1>11. \A k \in 1 .. n : f[k] = Inbound!Joined(f[k - 1], Inbound!Sentence(s[k]), 1)
  <2> SUFFICES ASSUME NEW k \in 1 .. n PROVE f[k] = Inbound!Joined(f[k - 1], Inbound!Sentence(s[k]), 1)
    OBVIOUS
  <2>1. f[k] = step[<<f[k - 1], k>>]
    BY <1>10 DEF Tables
  <2>2. f[k - 1] \in S
    BY <1>1, <1>10
  <2> QED
    BY <1>3, <2>1, <2>2
<1>12. f[0] = base /\ Inbound!Paragraph(s) = f[n]
  BY <1>7, <1>10 DEF Tables
<1> QED
  BY <1>10, <1>11, <1>12 DEF n, S, base

LEMMA SentenceTable ==
  ASSUME NEW I, NEW s \in Seq(Said(I))
  PROVE  \E f \in [0 .. Len(s) -> Filling(I)] :
            f[0] = Inbound!NoChunks /\ (\A k \in 1 .. Len(s) : f[k] = Inbound!SentenceStep(f[k - 1], s[k])) /\ Inbound!FoldLeft(Inbound!SentenceStep, Inbound!NoChunks, s) = f[Len(s)]
<1> DEFINE n == Len(s)
           S == Filling(I)
           base == Inbound!NoChunks
           step == [p \in S \X (1 .. n) |-> Inbound!SentenceStep(p[1], s[p[2]])]
           Recursive(h) == h = [x \in SUBSET (DOMAIN s) |-> IF x = {} THEN base ELSE Inbound!SentenceStep(h[x \ {Inbound!Max(x)}], s[Inbound!Max(x)])]
<1>1. n \in Nat /\ DOMAIN s = 1 .. n /\ (\A k \in 1 .. n : s[k] \in Said(I)) /\ base \in S
  BY LenProperties, BlankFacts
<1>2. \A a \in S, k \in 1 .. n : Inbound!SentenceStep(a, s[k]) \in S
  BY <1>1, StepsFill
<1>3. step \in [S \X (1 .. n) -> S] /\ \A a \in S, k \in 1 .. n : step[<<a, k>>] = Inbound!SentenceStep(a, s[k])
  BY <1>2
<1>4. Inbound!FoldLeft(Inbound!SentenceStep, Inbound!NoChunks, s) = (CHOOSE h : Recursive(h))[DOMAIN s]
  BY DEF Inbound!FoldLeft, Inbound!MapThenFoldSet
<1> HIDE DEF n, step, S, base
<1>5. PICK g \in [SUBSET (1 .. n) -> S] : Solves(g, n, base, step)
  BY <1>1, <1>3, SolutionExists
<1>6. Recursive(g)
  <2>1. ASSUME NEW x \in SUBSET (1 .. n), x # {} PROVE Inbound!Max(x) \in 1 .. n /\ g[x \ {Inbound!Max(x)}] \in S
    BY <1>1, <2>1, LargestIn
  <2>2. ASSUME NEW x \in SUBSET (1 .. n), x # {} PROVE g[x] = Inbound!SentenceStep(g[x \ {Inbound!Max(x)}], s[Inbound!Max(x)])
    BY <1>3, <1>5, <2>1, <2>2 DEF Solves
  <2> QED
    BY <1>1, <1>5, <2>2 DEF Solves
<1>7. PICK h : Recursive(h) /\ Inbound!FoldLeft(Inbound!SentenceStep, Inbound!NoChunks, s) = h[1 .. n]
  BY <1>1, <1>4, <1>6
<1>8. h[{}] = base /\ \A x \in SUBSET (1 .. n) : x # {} => h[x] = Inbound!SentenceStep(h[x \ {Inbound!Max(x)}], s[Inbound!Max(x)])
  BY <1>1, <1>7
<1>9. Recurs(h, n, S, step)
  BY <1>1, <1>3, <1>8, LargestIn DEF Recurs
<1> HIDE DEF Recursive
<1>10. PICK f \in [0 .. n -> S] : Tables(f, n, base, step) /\ h[1 .. n] = f[n]
  <2>1. n \in Nat /\ base \in S
    BY <1>1
  <2>2. step \in [S \X (1 .. n) -> S]
    BY <1>3
  <2>3. h[{}] = base
    BY <1>8
  <2>4. Tabled(h, n, S, base, step)
    BY <2>1, <2>2, <2>3, <1>9, TableOf, Zenon
  <2> QED
    BY <2>4 DEF Tabled
<1>11. \A k \in 1 .. n : f[k] = Inbound!SentenceStep(f[k - 1], s[k])
  <2> SUFFICES ASSUME NEW k \in 1 .. n PROVE f[k] = Inbound!SentenceStep(f[k - 1], s[k])
    OBVIOUS
  <2>1. f[k] = step[<<f[k - 1], k>>]
    BY <1>10 DEF Tables
  <2>2. f[k - 1] \in S
    BY <1>1, <1>10
  <2> QED
    BY <1>3, <2>1, <2>2
<1>12. f[0] = base /\ Inbound!FoldLeft(Inbound!SentenceStep, Inbound!NoChunks, s) = f[n]
  BY <1>7, <1>10 DEF Tables
<1> QED
  BY <1>10, <1>11, <1>12 DEF n, S, base

Packed(st, chunks) == Inbound!FoldLeft(Inbound!Pack, st, chunks)

LEMMA PackTable ==
  ASSUME NEW I, NEW st \in Filling(I), NEW s \in Seq(Block(I))
  PROVE  \E f \in [0 .. Len(s) -> Filling(I)] :
            f[0] = st /\ (\A k \in 1 .. Len(s) : f[k] = Inbound!Pack(f[k - 1], s[k])) /\ Packed(st, s) = f[Len(s)]
<1> DEFINE n == Len(s)
           S == Filling(I)
           base == st
           step == [p \in S \X (1 .. n) |-> Inbound!Pack(p[1], s[p[2]])]
           Recursive(h) == h = [x \in SUBSET (DOMAIN s) |-> IF x = {} THEN base ELSE Inbound!Pack(h[x \ {Inbound!Max(x)}], s[Inbound!Max(x)])]
<1>1. n \in Nat /\ DOMAIN s = 1 .. n /\ (\A k \in 1 .. n : s[k] \in Block(I)) /\ base \in S
  BY LenProperties
<1>2. \A a \in S, k \in 1 .. n : Inbound!Pack(a, s[k]) \in S
  BY <1>1, StepsFill
<1>3. step \in [S \X (1 .. n) -> S] /\ \A a \in S, k \in 1 .. n : step[<<a, k>>] = Inbound!Pack(a, s[k])
  BY <1>2
<1>4. Packed(st, s) = (CHOOSE h : Recursive(h))[DOMAIN s]
  BY DEF Packed, Inbound!FoldLeft, Inbound!MapThenFoldSet
<1> HIDE DEF n, step, S, base
<1>5. PICK g \in [SUBSET (1 .. n) -> S] : Solves(g, n, base, step)
  BY <1>1, <1>3, SolutionExists
<1>6. Recursive(g)
  <2>1. ASSUME NEW x \in SUBSET (1 .. n), x # {} PROVE Inbound!Max(x) \in 1 .. n /\ g[x \ {Inbound!Max(x)}] \in S
    BY <1>1, <2>1, LargestIn
  <2>2. ASSUME NEW x \in SUBSET (1 .. n), x # {} PROVE g[x] = Inbound!Pack(g[x \ {Inbound!Max(x)}], s[Inbound!Max(x)])
    BY <1>3, <1>5, <2>1, <2>2 DEF Solves
  <2> QED
    BY <1>1, <1>5, <2>2 DEF Solves
<1>7. PICK h : Recursive(h) /\ Packed(st, s) = h[1 .. n]
  BY <1>1, <1>4, <1>6
<1>8. h[{}] = base /\ \A x \in SUBSET (1 .. n) : x # {} => h[x] = Inbound!Pack(h[x \ {Inbound!Max(x)}], s[Inbound!Max(x)])
  BY <1>1, <1>7
<1>9. Recurs(h, n, S, step)
  BY <1>1, <1>3, <1>8, LargestIn DEF Recurs
<1> HIDE DEF Recursive
<1>10. PICK f \in [0 .. n -> S] : Tables(f, n, base, step) /\ h[1 .. n] = f[n]
  <2>1. n \in Nat /\ base \in S
    BY <1>1
  <2>2. step \in [S \X (1 .. n) -> S]
    BY <1>3
  <2>3. h[{}] = base
    BY <1>8
  <2>4. Tabled(h, n, S, base, step)
    BY <2>1, <2>2, <2>3, <1>9, TableOf, Zenon
  <2> QED
    BY <2>4 DEF Tabled
<1>11. \A k \in 1 .. n : f[k] = Inbound!Pack(f[k - 1], s[k])
  <2> SUFFICES ASSUME NEW k \in 1 .. n PROVE f[k] = Inbound!Pack(f[k - 1], s[k])
    OBVIOUS
  <2>1. f[k] = step[<<f[k - 1], k>>]
    BY <1>10 DEF Tables
  <2>2. f[k - 1] \in S
    BY <1>1, <1>10
  <2> QED
    BY <1>3, <2>1, <2>2
<1>12. f[0] = base /\ Packed(st, s) = f[n]
  BY <1>7, <1>10 DEF Tables
<1> QED
  BY <1>10, <1>11, <1>12 DEF n, S, base

(***************************************************************************)
(* What chunks hold.                                                        *)
(***************************************************************************)

\* Facts on sequences, quantified.
LEMMA Associative == \A X : \A a, b, c \in Seq(X) : (a \o b) \o c = a \o (b \o c)
BY ConcatAssociative

LEMMA Appended ==
  \A X : \A a \in Seq(X), e \in X :
      /\ Append(a, e) \in Seq(X) /\ Append(a, e) # <<>> /\ Len(Append(a, e)) = Len(a) + 1
      /\ Append(a, e)[Len(a) + 1] = e /\ \A i \in 1 .. Len(a) : Append(a, e)[i] = a[i]
BY AppendProperties

LEMMA FlatOfNone == Inbound!Flat(<<>>) = <<>>
<1>1. <<>> \in Seq(Seq({})) /\ Len(<<>>) = 0
  BY EmptySeq
<1>2. \E f \in [0 .. Len(<<>>) -> Seq({})] :
         f[0] = <<>> /\ (\A k \in 1 .. Len(<<>>) : f[k] = f[k - 1] \o <<>>[k]) /\ Inbound!Flat(<<>>) = f[Len(<<>>)]
  BY <1>1, FlatTable, Zenon
<1>3. PICK f : f[0] = <<>> /\ Inbound!Flat(<<>>) = f[Len(<<>>)]
  BY <1>2, Zenon
<1> QED
  BY <1>1, <1>3

LEMMA FlatAppend ==
  ASSUME NEW X, NEW s \in Seq(Seq(X)), NEW e \in Seq(X)
  PROVE  /\ Inbound!Flat(s) \in Seq(X)
         /\ Inbound!Flat(Append(s, e)) = Inbound!Flat(s) \o e
<1> DEFINE n == Len(s)
           t == Append(s, e)
<1>1. /\ n \in Nat /\ t \in Seq(Seq(X)) /\ Len(t) = n + 1 /\ t[n + 1] = e
      /\ \A i \in 1 .. n : t[i] = s[i]
  BY LenProperties, AppendProperties
<1>2. PICK f \in [0 .. n -> Seq(X)] :
         f[0] = <<>> /\ (\A k \in 1 .. n : f[k] = f[k - 1] \o s[k]) /\ Inbound!Flat(s) = f[n]
  BY FlatTable
<1> HIDE DEF n, t
<1>3. PICK g \in [0 .. n + 1 -> Seq(X)] :
         g[0] = <<>> /\ (\A k \in 1 .. n + 1 : g[k] = g[k - 1] \o t[k]) /\ Inbound!Flat(t) = g[n + 1]
  <2>1. \E g \in [0 .. Len(t) -> Seq(X)] :
         g[0] = <<>> /\ (\A k \in 1 .. Len(t) : g[k] = g[k - 1] \o t[k]) /\ Inbound!Flat(t) = g[Len(t)]
    BY <1>1, FlatTable
  <2> QED
    BY <1>1, <2>1
<1> DEFINE Bad == {k \in 0 .. n : f[k] # g[k]}
<1>4. Bad = {}
  <2>1. 0 \notin Bad
    BY <1>2, <1>3
  <2>2. ASSUME NEW k \in Bad, k # 0 PROVE k - 1 \in Bad
    <3>1. k \in 1 .. n /\ k \in 1 .. n + 1 /\ k - 1 \in 0 .. n /\ f[k] # g[k]
      BY <1>1, <2>2
    <3>2. f[k] = f[k - 1] \o s[k] /\ g[k] = g[k - 1] \o s[k]
      BY <1>1, <1>2, <1>3, <3>1
    <3> QED
      BY <3>1, <3>2
  <2>3. Bad \in SUBSET (0 .. n)
    OBVIOUS
  <2> HIDE DEF Bad
  <2> QED
    BY <1>1, <2>1, <2>2, <2>3, NoCounterexample
<1>5. f[n] = g[n]
  BY <1>1, <1>4
<1>6. g[n + 1] = g[n] \o e
  <2>1. n + 1 \in 1 .. n + 1 /\ (n + 1) - 1 = n
    BY <1>1
  <2> QED
    BY <1>1, <1>3, <2>1
<1>7. f[n] \in Seq(X)
  BY <1>1
<1> QED
  BY <1>2, <1>3, <1>5, <1>6, <1>7 DEF t

LEMMA ItemsFacts ==
  ASSUME NEW I, NEW d \in Seq(Block(I))
  PROVE  /\ Inbound!Items(d) \in Seq(I)
         /\ \A c \in Block(I) : Inbound!Items(Append(d, c)) = Inbound!Items(d) \o c.items
         /\ [i \in DOMAIN d |-> d[i].items] \in Seq(Seq(I))
<1> DEFINE all == [i \in DOMAIN d |-> d[i].items]
<1>1. Len(d) \in Nat /\ DOMAIN d = 1 .. Len(d) /\ \A i \in 1 .. Len(d) : d[i] \in Block(I)
  BY LenProperties
<1>2. \A c \in Block(I) : c.items \in Seq(I)
  BY DEF Block
<1>3. all \in [1 .. Len(d) -> Seq(I)]
  BY <1>1, <1>2
<1>4. all \in Seq(Seq(I)) /\ Len(all) = Len(d)
  BY <1>1, <1>3
<1>5. Inbound!Flat(all) \in Seq(I) /\ Inbound!Items(d) = Inbound!Flat(all)
  <2>1. <<>> \in Seq(I)
    BY EmptySeq
  <2> HIDE DEF all
  <2>2. Inbound!Flat(all) \in Seq(I)
    BY <1>4, <2>1, FlatAppend
  <2> QED
    BY <2>2 DEF Inbound!Items, all
<1>6. ASSUME NEW c \in Block(I) PROVE Inbound!Items(Append(d, c)) = Inbound!Items(d) \o c.items
  <2> DEFINE e == Append(d, c)
             more == [i \in DOMAIN e |-> e[i].items]
  <2>1. e \in Seq(Block(I)) /\ Len(e) = Len(d) + 1 /\ e[Len(d) + 1] = c /\ \A i \in 1 .. Len(d) : e[i] = d[i]
    BY AppendProperties
  <2>2. DOMAIN e = 1 .. Len(d) + 1 /\ \A i \in 1 .. Len(d) + 1 : e[i] \in Block(I)
    BY <2>1, LenProperties
  <2> HIDE DEF e
  <2>3. more \in [1 .. Len(d) + 1 -> Seq(I)]
    BY <1>2, <2>2
  <2>4. more \in Seq(Seq(I)) /\ Len(more) = Len(d) + 1
    BY <1>1, <2>3
  <2>5. Append(all, c.items) \in Seq(Seq(I)) /\ Len(Append(all, c.items)) = Len(all) + 1
        /\ Append(all, c.items)[Len(all) + 1] = c.items
        /\ \A i \in 1 .. Len(all) : Append(all, c.items)[i] = all[i]
    <3>1. all \in Seq(Seq(I)) /\ c.items \in Seq(I)
      BY <1>2, <1>4
    <3> HIDE DEF all
    <3>2. PICK T, e1 : e1 \in T /\ T = Seq(I) /\ e1 = c.items
      BY <3>1, Zenon
    <3>3. all \in Seq(T)
      BY <3>1, <3>2
    <3>4. Append(all, e1) \in Seq(T) /\ Len(Append(all, e1)) = Len(all) + 1
          /\ Append(all, e1)[Len(all) + 1] = e1 /\ \A i \in 1 .. Len(all) : Append(all, e1)[i] = all[i]
      BY <3>2, <3>3, AppendProperties
    <3> QED
      BY <3>2, <3>4, Zenon
  <2>9. Append(all, c.items) \in Seq(Seq(I)) /\ Len(Append(all, c.items)) = Len(d) + 1
        /\ Append(all, c.items)[Len(d) + 1] = c.items /\ \A i \in 1 .. Len(d) : Append(all, c.items)[i] = all[i]
    <3> HIDE DEF all
    <3> QED
      BY <1>4, <2>5
  <2>6. \A i \in 1 .. Len(d) + 1 : more[i] = Append(all, c.items)[i]
    <3> SUFFICES ASSUME NEW i \in 1 .. Len(d) + 1 PROVE more[i] = Append(all, c.items)[i]
      OBVIOUS
    <3>1. more[i] = e[i].items
      BY <2>2
    <3>2. CASE i = Len(d) + 1
      <4> HIDE DEF more, all
      <4> QED
        BY <2>1, <2>9, <3>1, <3>2
    <3>3. CASE i \in 1 .. Len(d)
      <4>1. all[i] = d[i].items
        BY <1>1, <3>3
      <4> HIDE DEF more, all
      <4> QED
        BY <2>1, <2>9, <3>1, <3>3, <4>1
    <3> QED
      BY <1>1, <3>2, <3>3
  <2>7. more = Append(all, c.items)
    <3> HIDE DEF more, all
    <3> QED
      BY <2>4, <2>9, <2>6, SeqEqual
  <2>8. Inbound!Flat(Append(all, c.items)) = Inbound!Flat(all) \o c.items
    <3> HIDE DEF all
    <3> QED
      BY <1>2, <1>4, FlatAppend
  <2>10. Inbound!Items(e) = Inbound!Flat(more)
    BY DEF Inbound!Items
  <2> QED
    BY <1>5, <2>7, <2>8, <2>10 DEF e
<1> QED
  BY <1>4, <1>5, <1>6

LEMMA ItemsOfNone == Inbound!Items(<<>>) = <<>>
<1>1. [i \in DOMAIN <<>> |-> <<>>[i].items] = <<>>
  OBVIOUS
<1> QED
  BY <1>1, FlatOfNone DEF Inbound!Items

\* What the chunks begun and the one being filled are made of.
Content(st) == Inbound!Items(st.done) \o st.cur.items

LEMMA ContentFacts ==
  ASSUME NEW I, NEW st \in Filling(I)
  PROVE  /\ Content(st) \in Seq(I)
         /\ \A c \in Block(I), gap \in Nat : Content(Inbound!Filled(st, c, gap)) = Content(st) \o c.items
         /\ \A c \in Piece(I) : Content(Inbound!Begun(st, c)) = Content(st) \o c.items
<1>1. st.done \in Seq(Block(I)) /\ st.cur \in Piece(I) /\ st.cur.items \in Seq(I)
  BY DEF Filling, Piece
<1>2. Inbound!Items(st.done) \in Seq(I)
  BY <1>1, ItemsFacts
<1>3. Content(st) \in Seq(I)
  BY <1>1, <1>2, ConcatProperties DEF Content
<1>4. ASSUME NEW c \in Block(I), NEW gap \in Nat
      PROVE  Content(Inbound!Filled(st, c, gap)) = Content(st) \o c.items
  <2>1. c.items \in Seq(I)
    BY DEF Block
  <2>2. Inbound!Filled(st, c, gap).done = st.done /\ Inbound!Filled(st, c, gap).cur.items = st.cur.items \o c.items
    <3>1. Inbound!Filled(st, c, gap).done = st.done
          /\ Inbound!Filled(st, c, gap).cur = Inbound!Joined(st.cur, c, gap)
      BY FilledFacts
    <3>2. Inbound!Joined(st.cur, c, gap).items = st.cur.items \o c.items
      BY <1>1, JoinedFacts
    <3> QED
      BY <3>1, <3>2
  <2>3. (Inbound!Items(st.done) \o st.cur.items) \o c.items = Inbound!Items(st.done) \o (st.cur.items \o c.items)
    <3>1. PICK a \in Seq(I), b \in Seq(I), e \in Seq(I) :
             a = Inbound!Items(st.done) /\ b = st.cur.items /\ e = c.items
      BY <1>1, <1>2, <2>1
    <3>2. (a \o b) \o e = a \o (b \o e)
      BY ConcatAssociative
    <3> QED
      BY <3>1, <3>2
  <2> QED
    BY <2>2, <2>3 DEF Content
<1>5. ASSUME NEW c \in Piece(I) PROVE Content(Inbound!Begun(st, c)) = Content(st) \o c.items
  <2>1. Inbound!Begun(st, c).done = (IF st.cur.len = 0 THEN st.done ELSE Append(st.done, st.cur))
        /\ Inbound!Begun(st, c).cur = c
    BY BegunFacts
  <2>2. CASE st.cur.len = 0
    <3>1. st.cur.items = <<>>
      BY <1>1, <2>2 DEF Piece
    <3>2. Content(st) = Inbound!Items(st.done)
      BY <1>2, <3>1, ConcatEmptySeq DEF Content
    <3> QED
      BY <2>1, <2>2, <3>2 DEF Content
  <2>3. CASE st.cur.len # 0
    <3>1. st.cur \in Block(I)
      BY <1>1, <2>3 DEF Piece, Block
    <3>2. Inbound!Items(Append(st.done, st.cur)) = Content(st)
      BY <1>1, <3>1, ItemsFacts DEF Content
    <3> QED
      BY <2>1, <2>3, <3>2 DEF Content
  <2> QED
    BY <2>2, <2>3
<1> QED
  BY <1>3, <1>4, <1>5

LEMMA ClosedFacts ==
  ASSUME NEW I, NEW st \in Filling(I)
  PROVE  /\ Inbound!Closed(st) \in Seq(Block(I))
         /\ Inbound!Closed(st) = IF st.cur.len = 0 THEN st.done ELSE Append(st.done, st.cur)
         /\ Inbound!Items(Inbound!Closed(st)) = Content(st)
<1>1. Inbound!Blank \in Piece(I) /\ Inbound!Blank.items = <<>>
  BY BlankFacts
<1>2. /\ Inbound!Begun(st, Inbound!Blank) \in Filling(I) /\ Inbound!Begun(st, Inbound!Blank).cur = Inbound!Blank
      /\ Inbound!Begun(st, Inbound!Blank).done = IF st.cur.len = 0 THEN st.done ELSE Append(st.done, st.cur)
  BY <1>1, BegunFacts
<1>3. Inbound!Begun(st, Inbound!Blank).done \in Seq(Block(I))
  BY <1>2 DEF Filling
<1>4. Content(Inbound!Begun(st, Inbound!Blank)) = Content(st) \o <<>> /\ Content(st) \in Seq(I)
  BY <1>1, ContentFacts
<1>5. Inbound!Items(Inbound!Begun(st, Inbound!Blank).done) \in Seq(I)
  BY <1>3, ItemsFacts
<1>6. Inbound!Items(Inbound!Begun(st, Inbound!Blank).done) = Content(st)
  BY <1>1, <1>2, <1>4, <1>5, ConcatEmptySeq DEF Content
<1> QED
  BY <1>2, <1>3, <1>6 DEF Inbound!Closed

Spoken(I) == Seq(Said(I)) \ {<<>>}
NamesTo(p, k) == [i \in 1 .. k |-> p[i].id]
Names(p) == [i \in DOMAIN p |-> p[i].id]

LEMMA SentencesNamed == \A text : Inbound!Sentences(text) = Names(Inbound!Flat(text))
BY DEF Inbound!Sentences, Names

LEMMA NamesFacts ==
  ASSUME NEW I, NEW p \in Seq(Said(I))
  PROVE  /\ NamesTo(p, 0) = <<>> /\ Names(p) = NamesTo(p, Len(p))
         /\ \A k \in 0 .. Len(p) : NamesTo(p, k) \in Seq(I) /\ Len(NamesTo(p, k)) = k
         /\ \A k \in 1 .. Len(p) : NamesTo(p, k) = NamesTo(p, k - 1) \o <<p[k].id>>
<1>1. Len(p) \in Nat /\ DOMAIN p = 1 .. Len(p) /\ \A i \in 1 .. Len(p) : p[i].id \in I
  <2>1. Len(p) \in Nat /\ DOMAIN p = 1 .. Len(p) /\ \A i \in 1 .. Len(p) : p[i] \in Said(I)
    BY LenProperties
  <2>2. \A s \in Said(I) : s.id \in I
    BY DEF Said
  <2> QED
    BY <2>1, <2>2
<1>2. NamesTo(p, 0) = <<>>
  BY DEF NamesTo
<1>3. Names(p) = NamesTo(p, Len(p))
  BY <1>1 DEF Names, NamesTo
<1>4. ASSUME NEW k \in 0 .. Len(p) PROVE NamesTo(p, k) \in Seq(I) /\ Len(NamesTo(p, k)) = k
  <2>1. NamesTo(p, k) \in [1 .. k -> I] /\ k \in Nat
    BY <1>1 DEF NamesTo
  <2> QED
    BY <2>1
<1>5. ASSUME NEW k \in 1 .. Len(p) PROVE NamesTo(p, k) = NamesTo(p, k - 1) \o <<p[k].id>>
  <2>1. k - 1 \in 0 .. Len(p) /\ k \in 0 .. Len(p) /\ k \in 1 .. Len(p) /\ p[k].id \in I
    BY <1>1
  <2>2. PICK a \in Seq(I) : a = NamesTo(p, k - 1)
    BY <1>4, <2>1
  <2>3. PICK b \in Seq(I) : b = NamesTo(p, k)
    BY <1>4, <2>1
  <2>4. PICK e \in I : e = p[k].id
    BY <2>1
  <2>5. Len(a) = k - 1 /\ Len(b) = k
    BY <1>4, <2>1, <2>2, <2>3
  <2>6. (\A i \in 1 .. k - 1 : a[i] = p[i].id) /\ (\A i \in 1 .. k : b[i] = p[i].id)
    BY <2>2, <2>3 DEF NamesTo
  <2>7. <<e>> \in Seq(I) /\ Len(<<e>>) = 1 /\ <<e>>[1] = e
    OBVIOUS
  <2>8. /\ a \o <<e>> \in Seq(I) /\ Len(a \o <<e>>) = k
        /\ \A i \in 1 .. k : (a \o <<e>>)[i] = IF i <= k - 1 THEN a[i] ELSE e
    BY <2>5, <2>7, ConcatProperties
  <2>9. \A i \in 1 .. k : (a \o <<e>>)[i] = b[i]
    <3> SUFFICES ASSUME NEW i \in 1 .. k PROVE (a \o <<e>>)[i] = b[i]
      OBVIOUS
    <3>1. (a \o <<e>>)[i] = (IF i <= k - 1 THEN a[i] ELSE e) /\ b[i] = p[i].id
      BY <2>6, <2>8
    <3>2. i <= k - 1 => a[i] = p[i].id
      <4>1. i <= k - 1 => i \in 1 .. k - 1
        OBVIOUS
      <4> QED
        BY <2>6, <4>1
    <3>3. ~(i <= k - 1) => i = k
      OBVIOUS
    <3> QED
      BY <2>4, <3>1, <3>2, <3>3
  <2>10. a \o <<e>> = b
    BY <2>5, <2>8, <2>9, SeqEqual
  <2> QED
    BY <2>2, <2>3, <2>4, <2>10
<1> QED
  BY <1>2, <1>3, <1>4, <1>5

LEMMA NamesOfBoth ==
  ASSUME NEW I, NEW p \in Seq(Said(I)), NEW q \in Seq(Said(I))
  PROVE  Names(p \o q) = Names(p) \o Names(q)
<1>1. /\ p \o q \in Seq(Said(I)) /\ Len(p \o q) = Len(p) + Len(q) /\ Len(p) \in Nat /\ Len(q) \in Nat
      /\ \A i \in 1 .. Len(p) + Len(q) : (p \o q)[i] = IF i <= Len(p) THEN p[i] ELSE q[i - Len(p)]
  BY ConcatProperties, LenProperties
<1>2. \A r \in Seq(Said(I)) : Names(r) \in Seq(I) /\ Len(Names(r)) = Len(r) /\ \A i \in 1 .. Len(r) : Names(r)[i] = r[i].id
  <2> SUFFICES ASSUME NEW r \in Seq(Said(I))
               PROVE  Names(r) \in Seq(I) /\ Len(Names(r)) = Len(r) /\ \A i \in 1 .. Len(r) : Names(r)[i] = r[i].id
    OBVIOUS
  <2>1. Len(r) \in 0 .. Len(r) /\ DOMAIN r = 1 .. Len(r)
    BY LenProperties
  <2> QED
    <3>1. Names(r) = NamesTo(r, Len(r)) /\ NamesTo(r, Len(r)) \in Seq(I) /\ Len(NamesTo(r, Len(r))) = Len(r)
      BY <2>1, NamesFacts
    <3>2. \A i \in 1 .. Len(r) : Names(r)[i] = r[i].id
      BY <2>1 DEF Names
    <3> QED
      BY <3>1, <3>2
<1>3. PICK a \in Seq(I), b \in Seq(I), c \in Seq(I) : a = Names(p) /\ b = Names(q) /\ c = Names(p \o q)
  BY <1>1, <1>2
<1>4. /\ Len(a) = Len(p) /\ Len(b) = Len(q) /\ Len(c) = Len(p) + Len(q)
      /\ \A i \in 1 .. Len(p) : a[i] = p[i].id
      /\ \A i \in 1 .. Len(q) : b[i] = q[i].id
      /\ \A i \in 1 .. Len(p) + Len(q) : c[i] = (p \o q)[i].id
  BY <1>1, <1>2, <1>3
<1>5. /\ a \o b \in Seq(I) /\ Len(a \o b) = Len(a) + Len(b)
      /\ \A i \in 1 .. Len(a) + Len(b) : (a \o b)[i] = IF i <= Len(a) THEN a[i] ELSE b[i - Len(a)]
  BY ConcatProperties
<1>6. \A i \in 1 .. Len(p) + Len(q) : (a \o b)[i] = c[i]
  <2> SUFFICES ASSUME NEW i \in 1 .. Len(p) + Len(q) PROVE (a \o b)[i] = c[i]
    OBVIOUS
  <2>1. CASE i <= Len(p)
    <3>1. i \in 1 .. Len(p)
      BY <1>1, <2>1
    <3>2. (a \o b)[i] = a[i]
      BY <1>1, <1>4, <1>5, <2>1
    <3>3. a[i] = p[i].id /\ c[i] = (p \o q)[i].id /\ (p \o q)[i] = p[i]
      BY <1>1, <1>4, <2>1, <3>1
    <3> QED
      BY <3>2, <3>3
  <2>2. CASE ~(i <= Len(p))
    <3>1. i - Len(p) \in 1 .. Len(q)
      BY <1>1, <2>2
    <3> QED
      BY <1>1, <1>4, <1>5, <2>2, <3>1
  <2> QED
    BY <2>1, <2>2
<1>7. a \o b = c
  BY <1>4, <1>5, <1>6, SeqEqual
<1> QED
  BY <1>3, <1>7

(***************************************************************************)
(* How long the chunks get.  P holds the lengths there may be.  A chunk may *)
(* be short, but unless the limits are tight not two in a row.              *)
(***************************************************************************)

Short(c) == c.len < MinChars
Only(P, blocks) == \A i \in DOMAIN blocks : blocks[i].len \in P
Spaced(blocks) == Inbound!Tight \/ \A i \in 1 .. Len(blocks) - 1 : ~Short(blocks[i]) \/ ~Short(blocks[i + 1])
Good(P, st) ==
    /\ Only(P, st.done) /\ (st.cur.len # 0 => st.cur.len \in P)
    /\ Spaced(st.done)
    /\ \/ Inbound!Tight \/ st.done = <<>>
       \/ ~Short(st.done[Len(st.done)]) \/ ~Short(st.cur)

LEMMA Limits == MinChars \in Nat \ {0} /\ MaxChars \in Nat /\ MinChars < MaxChars
                /\ (~Inbound!Tight => 2 * MinChars <= MaxChars + 1)
BY InboundAssumption DEF Inbound!Tight

LEMMA AppendGood ==
  ASSUME NEW I, NEW blocks \in Seq(Block(I)), NEW c \in Block(I), NEW P,
         Only(P, blocks), Spaced(blocks), c.len \in P,
         Inbound!Tight \/ blocks = <<>> \/ ~Short(blocks[Len(blocks)]) \/ ~Short(c)
  PROVE  /\ Append(blocks, c) \in Seq(Block(I)) /\ Only(P, Append(blocks, c)) /\ Spaced(Append(blocks, c))
         /\ Append(blocks, c) # <<>> /\ Append(blocks, c)[Len(Append(blocks, c))] = c
<1>1. /\ Append(blocks, c) \in Seq(Block(I)) /\ Len(Append(blocks, c)) = Len(blocks) + 1
      /\ Append(blocks, c)[Len(blocks) + 1] = c /\ \A i \in 1 .. Len(blocks) : Append(blocks, c)[i] = blocks[i]
      /\ Append(blocks, c) # <<>>
  BY AppendProperties
<1>2. Len(blocks) \in Nat /\ DOMAIN blocks = 1 .. Len(blocks)
      /\ DOMAIN Append(blocks, c) = 1 .. Len(blocks) + 1 /\ (Len(blocks) = 0 => blocks = <<>>)
      /\ (blocks = <<>> => Len(blocks) = 0)
  BY <1>1, LenProperties, EmptySeq
<1>3. PICK new : new = Append(blocks, c)
  OBVIOUS
<1>4. Only(P, new)
  BY <1>1, <1>2, <1>3 DEF Only
<1>5. Spaced(new)
  <2> SUFFICES ASSUME ~Inbound!Tight, NEW i \in 1 .. Len(new) - 1 PROVE ~Short(new[i]) \/ ~Short(new[i + 1])
    BY DEF Spaced
  <2>1. i \in 1 .. Len(blocks)
    BY <1>1, <1>2, <1>3
  <2>2. CASE i = Len(blocks)
    <3>1. new[i] = blocks[Len(blocks)] /\ new[i + 1] = c /\ blocks # <<>>
      BY <1>1, <1>2, <1>3, <2>1, <2>2
    <3> QED
      BY <3>1
  <2>3. CASE i # Len(blocks)
    <3>1. i \in 1 .. Len(blocks) - 1 /\ new[i] = blocks[i] /\ new[i + 1] = blocks[i + 1]
      <4>1. i \in 1 .. Len(blocks) - 1 /\ i + 1 \in 1 .. Len(blocks)
        <5>1. PICK n \in Nat : n = Len(blocks)
          BY <1>2
        <5>2. i \in 1 .. n /\ i # n
          BY <2>1, <2>3, <5>1
        <5>3. i \in 1 .. n - 1 /\ i + 1 \in 1 .. n
          BY <5>2
        <5> QED
          BY <5>1, <5>3
      <4> QED
        BY <1>1, <1>3, <2>1, <4>1
    <3> QED
      BY <3>1 DEF Spaced
  <2> QED
    BY <2>2, <2>3
<1> QED
  BY <1>1, <1>3, <1>4, <1>5

LEMMA BegunGood ==
  ASSUME NEW I, NEW st \in Filling(I), NEW c \in Piece(I), NEW P, Good(P, st), c.len # 0 => c.len \in P,
         Inbound!Tight \/ st.cur.len = 0 \/ ~Short(st.cur) \/ ~Short(c)
  PROVE  Good(P, Inbound!Begun(st, c))
<1>1. /\ Inbound!Begun(st, c).done = IF st.cur.len = 0 THEN st.done ELSE Append(st.done, st.cur)
      /\ Inbound!Begun(st, c).cur = c
  BY BegunFacts
<1>2. st.done \in Seq(Block(I)) /\ st.cur \in Piece(I)
  BY DEF Filling
<1>3. CASE st.cur.len = 0
  <2>1. Short(st.cur)
    BY <1>3, Limits DEF Short
  <2>2. Inbound!Tight \/ st.done = <<>> \/ ~Short(st.done[Len(st.done)])
    BY <2>1 DEF Good
  <2> QED
    BY <1>1, <1>3, <2>2 DEF Good
<1>4. CASE st.cur.len # 0
  <2>1. st.cur \in Block(I)
    BY <1>2, <1>4 DEF Piece, Block
  <2>2. /\ Only(P, Append(st.done, st.cur)) /\ Spaced(Append(st.done, st.cur))
        /\ Append(st.done, st.cur)[Len(Append(st.done, st.cur))] = st.cur
    <3>1. Only(P, st.done) /\ Spaced(st.done) /\ st.cur.len \in P
          /\ (Inbound!Tight \/ st.done = <<>> \/ ~Short(st.done[Len(st.done)]) \/ ~Short(st.cur))
      BY <1>4 DEF Good
    <3> QED
      BY <1>2, <2>1, <3>1, AppendGood
  <2> QED
    BY <1>1, <1>4, <2>2 DEF Good
<1> QED
  BY <1>3, <1>4

LEMMA FilledGood ==
  ASSUME NEW I, NEW st \in Filling(I), NEW c \in Block(I), NEW gap \in Nat, NEW P, Good(P, st),
         (IF st.cur.len = 0 THEN c.len ELSE st.cur.len + gap + c.len) \in P
  PROVE  Good(P, Inbound!Filled(st, c, gap))
<1>1. st.cur \in Piece(I) /\ st.cur.len \in Nat /\ c.len \in Nat
  BY DEF Filling, Piece, Block
<1>2. /\ Inbound!Filled(st, c, gap).done = st.done
      /\ Inbound!Filled(st, c, gap).cur = Inbound!Joined(st.cur, c, gap)
  BY FilledFacts
<1>3. Inbound!Joined(st.cur, c, gap).len = IF st.cur.len = 0 THEN c.len ELSE st.cur.len + gap + c.len
  BY <1>1 DEF Inbound!Joined
<1>4. ~Short(st.cur) => ~Short(Inbound!Joined(st.cur, c, gap))
  BY <1>1, <1>3, Limits DEF Short
<1> QED
  BY <1>2, <1>3, <1>4 DEF Good

LEMMA ClosedGood ==
  ASSUME NEW I, NEW st \in Filling(I), NEW P, Good(P, st)
  PROVE  Only(P, Inbound!Closed(st)) /\ Spaced(Inbound!Closed(st))
<1>1. Inbound!Closed(st) = IF st.cur.len = 0 THEN st.done ELSE Append(st.done, st.cur)
  BY ClosedFacts
<1>2. st.done \in Seq(Block(I)) /\ st.cur \in Piece(I)
  BY DEF Filling
<1>3. Only(P, st.done) /\ Spaced(st.done) /\ (st.cur.len # 0 => st.cur.len \in P)
      /\ (Inbound!Tight \/ st.done = <<>> \/ ~Short(st.done[Len(st.done)]) \/ ~Short(st.cur))
  BY DEF Good
<1>4. CASE st.cur.len # 0
  <2>1. st.cur \in Block(I)
    BY <1>2, <1>4 DEF Piece, Block
  <2> QED
    BY <1>1, <1>2, <1>3, <1>4, <2>1, AppendGood
<1> QED
  BY <1>1, <1>3, <1>4

LEMMA NoChunksGood == \A P : Good(P, Inbound!NoChunks)
<1>1. Inbound!NoChunks.done = <<>> /\ Inbound!NoChunks.cur = Inbound!Blank /\ Inbound!Blank.len = 0
  BY BlankFacts
<1> QED
  BY <1>1 DEF Good, Only, Spaced

(***************************************************************************)
(* Chunks of sentences, and how long they get.                              *)
(***************************************************************************)

\* Lengths a chunk may have because of a sentence of length m.
UpTo(m) == {l \in Nat : l <= MaxChars \/ l <= MinChars + m}

LEMMA PackGood ==
  ASSUME NEW I, NEW st \in Filling(I), NEW c \in Block(I), NEW P, UpTo(0) \subseteq P, c.len \in P, Good(P, st)
  PROVE  Good(P, Inbound!Pack(st, c)) /\ Content(Inbound!Pack(st, c)) = Content(st) \o c.items
<1>1. c \in Piece(I) /\ c.len \in Nat \ {0} /\ st.cur.len \in Nat /\ 1 \in Nat
  BY BlocksArePieces DEF Block, Filling, Piece
<1>2. Inbound!Pack(st, c) = IF st.cur.len + c.len + 1 <= MaxChars THEN Inbound!Filled(st, c, 1) ELSE Inbound!Begun(st, c)
  BY DEF Inbound!Pack
<1>3. Content(Inbound!Pack(st, c)) = Content(st) \o c.items
  BY <1>1, <1>2, ContentFacts
<1>4. CASE st.cur.len + c.len + 1 <= MaxChars
  <2>1. (IF st.cur.len = 0 THEN c.len ELSE st.cur.len + 1 + c.len) \in UpTo(0)
    BY <1>1, <1>4, Limits DEF UpTo
  <2>2. (IF st.cur.len = 0 THEN c.len ELSE st.cur.len + 1 + c.len) \in P
    BY <2>1
  <2>3. Good(P, Inbound!Filled(st, c, 1))
    BY <1>1, <2>2, FilledGood
  <2> QED
    BY <1>2, <1>3, <1>4, <2>3
<1>5. CASE ~(st.cur.len + c.len + 1 <= MaxChars)
  <2>1. Inbound!Tight \/ ~Short(st.cur) \/ ~Short(c)
    BY <1>1, <1>5, Limits DEF Short
  <2>2. Good(P, Inbound!Begun(st, c))
    BY <1>1, <2>1, BegunGood
  <2> QED
    BY <1>2, <1>3, <1>5, <2>2
<1> QED
  BY <1>4, <1>5

LEMMA SentenceStepGood ==
  ASSUME NEW I, NEW st \in Filling(I), NEW s \in Said(I), NEW P, UpTo(s.len) \subseteq P, Good(P, st)
  PROVE  /\ Good(P, Inbound!SentenceStep(st, s))
         /\ Content(Inbound!SentenceStep(st, s)) = Content(st) \o <<s.id>>
<1> DEFINE c == Inbound!Sentence(s)
<1>1. c \in Block(I) /\ c.items = <<s.id>> /\ c.len = s.len
  BY SentenceFacts
<1> HIDE DEF c
<1>2. c \in Piece(I) /\ c.len \in Nat \ {0} /\ st.cur.len \in Nat /\ 1 \in Nat /\ s.len \in Nat
  BY <1>1, BlocksArePieces DEF Block, Filling, Piece
<1>3. Inbound!SentenceStep(st, s) =
         IF st.cur.len + s.len + 1 > MaxChars /\ st.cur.len >= MinChars
         THEN Inbound!Begun(st, c) ELSE Inbound!Filled(st, c, 1)
  BY DEF Inbound!SentenceStep, c
<1>4. Content(Inbound!SentenceStep(st, s)) = Content(st) \o <<s.id>>
  <2>1. Content(Inbound!Begun(st, c)) = Content(st) \o c.items
    BY <1>2, ContentFacts
  <2>2. Content(Inbound!Filled(st, c, 1)) = Content(st) \o c.items
    BY <1>1, <1>2, ContentFacts
  <2>3. CASE st.cur.len + s.len + 1 > MaxChars /\ st.cur.len >= MinChars
    BY <1>1, <1>3, <2>1, <2>3, Zenon
  <2>4. CASE ~(st.cur.len + s.len + 1 > MaxChars /\ st.cur.len >= MinChars)
    BY <1>1, <1>3, <2>2, <2>4, Zenon
  <2> QED
    BY <2>3, <2>4
<1>5. CASE st.cur.len + s.len + 1 > MaxChars /\ st.cur.len >= MinChars
  <2>1. ~Short(st.cur)
    BY <1>2, <1>5, Limits DEF Short
  <2>2. c.len \in UpTo(s.len)
    BY <1>1, <1>2, Limits DEF UpTo
  <2>3. Good(P, Inbound!Begun(st, c))
    BY <1>2, <2>1, <2>2, BegunGood
  <2> QED
    BY <1>3, <1>4, <1>5, <2>3
<1>6. CASE ~(st.cur.len + s.len + 1 > MaxChars /\ st.cur.len >= MinChars)
  <2>1. (IF st.cur.len = 0 THEN c.len ELSE st.cur.len + 1 + c.len) \in UpTo(s.len)
    BY <1>1, <1>2, <1>6, Limits DEF UpTo
  <2>2. (IF st.cur.len = 0 THEN c.len ELSE st.cur.len + 1 + c.len) \in P
    BY <2>1
  <2>3. Good(P, Inbound!Filled(st, c, 1))
    BY <1>1, <1>2, <2>2, FilledGood
  <2> QED
    BY <1>3, <1>4, <1>6, <2>3
<1> QED
  BY <1>5, <1>6

LEMMA FrontFacts ==
  ASSUME NEW X, NEW p \in Seq(X) \ {<<>>}
  PROVE  /\ Len(p) \in Nat \ {0} /\ Inbound!Last(p) \in X /\ Inbound!Last(p) = p[Len(p)]
         /\ Inbound!Front(p) \in Seq(X) /\ Len(Inbound!Front(p)) = Len(p) - 1
         /\ \A i \in 1 .. Len(p) - 1 : Inbound!Front(p)[i] = p[i]
<1>1. p \in Seq(X) /\ Len(p) \in Nat \ {0}
  BY EmptySeq, LenProperties
<1>2. Len(p) \in 1 .. Len(p) /\ 1 \in 1 .. Len(p) + 1 /\ Len(p) - 1 \in 0 .. Len(p) /\ Len(p) - 1 \in Nat
  BY <1>1
<1>3. p[Len(p)] \in X
  BY <1>1, <1>2, ElementOfSeq
<1>4. \A i \in 1 .. Len(p) : p[i] \in X
  BY <1>1, ElementOfSeq
<1>5. Inbound!Front(p) = [i \in 1 .. Len(p) - 1 |-> p[i]]
  <2>1. Inbound!Front(p) = SubSeq(p, 1, Len(p) - 1)
    BY DEF Inbound!Front
  <2> QED
    BY <1>1, <2>1
<1>6. [i \in 1 .. Len(p) - 1 |-> p[i]] \in [1 .. Len(p) - 1 -> X]
  BY <1>1, <1>4
<1> QED
  BY <1>1, <1>2, <1>3, <1>5, <1>6 DEF Inbound!Last

LEMMA ParagraphFacts ==
  ASSUME NEW I, NEW p \in Spoken(I)
  PROVE  /\ Inbound!Paragraph(p) \in Block(I) /\ Inbound!Paragraph(p).items = Names(p)
         /\ \A i \in 1 .. Len(p) : p[i].len <= Inbound!Paragraph(p).len
<1> DEFINE n == Len(p)
<1>1. p \in Seq(Said(I)) /\ n \in Nat \ {0} /\ \A i \in 1 .. n : p[i] \in Said(I)
  BY EmptySeq, LenProperties, ElementOfSeq DEF Spoken
<1>2. PICK f \in [0 .. n -> Piece(I)] :
         /\ f[0] = Inbound!Blank /\ Inbound!Paragraph(p) = f[n]
         /\ \A k \in 1 .. n : f[k] = Inbound!Joined(f[k - 1], Inbound!Sentence(p[k]), 1)
  BY <1>1, ParagraphTable
<1> DEFINE Good1(k) == /\ f[k].items = NamesTo(p, k) /\ (k # 0 => f[k] \in Block(I))
                       /\ \A i \in 1 .. k : p[i].len <= f[k].len
           Bad == {k \in 0 .. n : ~Good1(k)}
<1>3. Good1(0)
  <2>1. Inbound!Blank.items = <<>>
    BY BlankFacts
  <2>2. NamesTo(p, 0) = <<>>
    BY <1>1, NamesFacts
  <2>3. f[0].items = NamesTo(p, 0)
    BY <1>2, <2>1, <2>2, Zenon
  <2> QED
    BY <2>3
<1>4. ASSUME NEW k \in 1 .. n, Good1(k - 1) PROVE Good1(k)
  <2> DEFINE c == f[k - 1]
             d == Inbound!Sentence(p[k])
  <2>1. k - 1 \in 0 .. n /\ k \in 0 .. n /\ p[k] \in Said(I)
    BY <1>1
  <2>2. c \in Piece(I) /\ f[k] = Inbound!Joined(c, d, 1)
    BY <1>2, <2>1
  <2>3. d \in Block(I) /\ d.items = <<p[k].id>> /\ d.len = p[k].len
    BY <2>1, SentenceFacts
  <2>4. c.items = NamesTo(p, k - 1) /\ \A i \in 1 .. k - 1 : p[i].len <= c.len
    BY <1>4
  <2> HIDE DEF c, d
  <2>5. f[k] \in Block(I) /\ f[k].items = c.items \o d.items
        /\ f[k].len = IF c.len = 0 THEN d.len ELSE c.len + 1 + d.len
    BY <2>2, <2>3, JoinedFacts
  <2>6. f[k].items = NamesTo(p, k)
    <3>1. NamesTo(p, k) = NamesTo(p, k - 1) \o <<p[k].id>>
      BY <1>1, NamesFacts
    <3> QED
      BY <2>3, <2>4, <2>5, <3>1, Zenon
  <2>7. \A i \in 1 .. k : p[i].len <= f[k].len
    <3> SUFFICES ASSUME NEW i \in 1 .. k PROVE p[i].len <= f[k].len
      OBVIOUS
    <3>1. c.len \in Nat /\ d.len \in Nat
      BY <2>2, <2>3 DEF Piece, Block
    <3>2. CASE i = k
      BY <2>3, <2>5, <3>1, <3>2
    <3>3. CASE i # k
      <4>1. i \in 1 .. k - 1 /\ p[i] \in Said(I)
        BY <1>1, <3>3
      <4>2. p[i].len \in Nat /\ p[i].len <= c.len
        BY <2>4, <4>1 DEF Said
      <4> QED
        BY <2>5, <3>1, <4>2
    <3> QED
      BY <3>2, <3>3
  <2> QED
    BY <2>5, <2>6, <2>7
<1>5. Bad = {}
  <2>1. 0 \notin Bad /\ Bad \in SUBSET (0 .. n)
    BY <1>3
  <2>2. ASSUME NEW k \in Bad, k # 0 PROVE k - 1 \in Bad
    <3>1. k \in 1 .. n /\ k - 1 \in 0 .. n /\ ~Good1(k)
      BY <1>1, <2>2
    <3>2. ~Good1(k - 1)
      BY <1>4, <3>1
    <3> HIDE DEF Good1
    <3> QED
      BY <3>1, <3>2
  <2> HIDE DEF Bad
  <2> QED
    BY <1>1, <2>1, <2>2, NoCounterexample
<1>6. n \in 0 .. n /\ n # 0
  BY <1>1
<1>7. Good1(n)
  <2> HIDE DEF Good1
  <2> QED
    BY <1>5, <1>6
<1>8. Names(p) = NamesTo(p, n)
  BY <1>1, NamesFacts
<1> QED
  BY <1>2, <1>6, <1>7, <1>8

LEMMA BySentenceFacts ==
  ASSUME NEW I, NEW p \in Spoken(I), NEW P, \A i \in 1 .. Len(p) : UpTo(p[i].len) \subseteq P
  PROVE  /\ Inbound!BySentence(p) \in Seq(Block(I)) /\ Inbound!Items(Inbound!BySentence(p)) = Names(p)
         /\ Only(P, Inbound!BySentence(p)) /\ Spaced(Inbound!BySentence(p))
<1> DEFINE n == Len(p)
           q == Inbound!Front(p)
<1>1. p \in Seq(Said(I)) \ {<<>>} /\ p \in Seq(Said(I))
  BY DEF Spoken
<1>2. /\ n \in Nat \ {0} /\ Inbound!Last(p) = p[n]
      /\ q \in Seq(Said(I)) /\ Len(q) = n - 1 /\ \A i \in 1 .. n - 1 : q[i] = p[i]
  BY <1>1, FrontFacts
<1>3. \A i \in 1 .. n : p[i] \in Said(I)
  BY <1>1, ElementOfSeq
<1>4. PICK m \in Nat : m = n - 1
  BY <1>2
<1>5. PICK f \in [0 .. m -> Filling(I)] :
         /\ f[0] = Inbound!NoChunks /\ Inbound!FoldLeft(Inbound!SentenceStep, Inbound!NoChunks, q) = f[m]
         /\ \A k \in 1 .. m : f[k] = Inbound!SentenceStep(f[k - 1], q[k])
  <2>1. \E f \in [0 .. Len(q) -> Filling(I)] :
         /\ f[0] = Inbound!NoChunks /\ (\A k \in 1 .. Len(q) : f[k] = Inbound!SentenceStep(f[k - 1], q[k]))
         /\ Inbound!FoldLeft(Inbound!SentenceStep, Inbound!NoChunks, q) = f[Len(q)]
    BY <1>2, SentenceTable
  <2> QED
    BY <1>2, <1>4, <2>1
<1> DEFINE Right(k) == Good(P, f[k]) /\ Content(f[k]) = NamesTo(p, k)
           Bad == {k \in 0 .. m : ~Right(k)}
<1>6. Right(0)
  <2>1. Content(Inbound!NoChunks) = <<>>
    BY BlankFacts, ItemsOfNone DEF Content
  <2> QED
    BY <1>1, <1>5, <2>1, NoChunksGood, NamesFacts
<1>7. ASSUME NEW k \in 1 .. m, Right(k - 1) PROVE Right(k)
  <2>1. k \in 1 .. n /\ k - 1 \in 0 .. m /\ k \in 1 .. n - 1
    BY <1>2, <1>4
  <2>2. f[k - 1] \in Filling(I) /\ p[k] \in Said(I) /\ f[k] = Inbound!SentenceStep(f[k - 1], p[k])
    BY <1>2, <1>3, <1>5, <2>1
  <2>3. UpTo(p[k].len) \subseteq P
    BY <2>1
  <2>4. Good(P, f[k]) /\ Content(f[k]) = Content(f[k - 1]) \o <<p[k].id>>
    BY <1>7, <2>2, <2>3, SentenceStepGood
  <2>5. NamesTo(p, k) = NamesTo(p, k - 1) \o <<p[k].id>>
    BY <1>1, <2>1, NamesFacts
  <2> QED
    BY <1>7, <2>4, <2>5
<1>8. Bad = {}
  <2>1. 0 \notin Bad /\ Bad \in SUBSET (0 .. m)
    BY <1>6
  <2>2. ASSUME NEW k \in Bad, k # 0 PROVE k - 1 \in Bad
    <3>1. k \in 1 .. m /\ k - 1 \in 0 .. m /\ ~Right(k)
      BY <2>2
    <3>2. ~Right(k - 1)
      BY <1>7, <3>1
    <3> HIDE DEF Right
    <3> QED
      BY <3>1, <3>2
  <2> HIDE DEF Bad
  <2> QED
    BY <2>1, <2>2, NoCounterexample
<1>9. Right(m) /\ f[m] \in Filling(I)
  <2>1. m \in 0 .. m
    OBVIOUS
  <2> HIDE DEF Right
  <2> QED
    BY <1>8, <2>1
<1> DEFINE s == p[n]
           st == f[m]
           c == Inbound!Sentence(s)
<1>10. n \in 1 .. n /\ s \in Said(I) /\ UpTo(s.len) \subseteq P
  BY <1>2, <1>3
<1>11. Inbound!BySentence(p) = Inbound!Closed(Inbound!Pack(st, c))
  <2>1. c.len = s.len
    BY <1>10, SentenceFacts
  <2> HIDE DEF s
  <2> QED
    BY <1>2, <1>5, <2>1 DEF Inbound!BySentence, Inbound!Pack, s
<1>12. c \in Block(I) /\ c.items = <<s.id>> /\ c.len = s.len
  BY <1>10, SentenceFacts
<1>13. UpTo(0) \subseteq P /\ c.len \in P
  <2>1. s.len \in Nat
    BY <1>10 DEF Said
  <2> HIDE DEF s, c
  <2>2. UpTo(0) \subseteq UpTo(s.len) /\ s.len \in UpTo(s.len)
    BY <2>1, Limits DEF UpTo
  <2> QED
    BY <1>10, <1>12, <2>2
<1>14. Good(P, st) /\ Content(st) = NamesTo(p, m) /\ st \in Filling(I)
  BY <1>9
<1> HIDE DEF st, c
<1>15. Good(P, Inbound!Pack(st, c)) /\ Content(Inbound!Pack(st, c)) = NamesTo(p, m) \o <<s.id>>
       /\ Inbound!Pack(st, c) \in Filling(I)
  BY <1>12, <1>13, <1>14, PackGood, StepsFill
<1>16. NamesTo(p, m) \o <<s.id>> = Names(p)
  BY <1>1, <1>2, <1>4, <1>10, NamesFacts
<1> QED
  BY <1>11, <1>15, <1>16, ClosedFacts, ClosedGood

(***************************************************************************)
(* Chunks of paragraphs, and how long they get.                             *)
(***************************************************************************)

\* The sentences of a sequence of blocks, as they are gathered.
LEMMA ItemsTable ==
  ASSUME NEW I, NEW d \in Seq(Block(I))
  PROVE  \E g \in [0 .. Len(d) -> Seq(I)] :
            /\ g[0] = <<>> /\ Inbound!Items(d) = g[Len(d)]
            /\ \A k \in 1 .. Len(d) : g[k] = g[k - 1] \o d[k].items
<1> DEFINE all == [i \in DOMAIN d |-> d[i].items]
<1>1. Len(d) \in Nat /\ DOMAIN d = 1 .. Len(d)
  BY LenProperties
<1>2. all \in Seq(Seq(I))
  BY ItemsFacts
<1>3. Len(all) = Len(d) /\ \A k \in 1 .. Len(d) : all[k] = d[k].items
  BY <1>1
<1>4. Inbound!Items(d) = Inbound!Flat(all)
  BY DEF Inbound!Items
<1> HIDE DEF all
<1>5. \E g \in [0 .. Len(all) -> Seq(I)] :
         g[0] = <<>> /\ (\A k \in 1 .. Len(all) : g[k] = g[k - 1] \o all[k]) /\ Inbound!Flat(all) = g[Len(all)]
  BY <1>2, FlatTable
<1>6. PICK g \in [0 .. Len(d) -> Seq(I)] :
         g[0] = <<>> /\ (\A k \in 1 .. Len(d) : g[k] = g[k - 1] \o all[k]) /\ Inbound!Flat(all) = g[Len(d)]
  BY <1>3, <1>5
<1>7. \A k \in 1 .. Len(d) : g[k] = g[k - 1] \o d[k].items
  BY <1>3, <1>6
<1> QED
  BY <1>4, <1>6, <1>7

LEMMA PackAllFacts ==
  ASSUME NEW I, NEW st \in Filling(I), NEW d \in Seq(Block(I)), NEW P, UpTo(0) \subseteq P, Only(P, d), Good(P, st)
  PROVE  /\ Packed(st, d) \in Filling(I)
         /\ Good(P, Packed(st, d))
         /\ Content(Packed(st, d)) = Content(st) \o Inbound!Items(d)
<1>1. PICK n \in Nat : n = Len(d)
  BY LenProperties
<1>2. PICK f \in [0 .. n -> Filling(I)] :
         f[0] = st /\ (\A k \in 1 .. n : f[k] = Inbound!Pack(f[k - 1], d[k])) /\ Packed(st, d) = f[n]
  <2>1. \E f \in [0 .. Len(d) -> Filling(I)] :
         f[0] = st /\ (\A k \in 1 .. Len(d) : f[k] = Inbound!Pack(f[k - 1], d[k]))
         /\ Packed(st, d) = f[Len(d)]
    BY PackTable
  <2> QED
    BY <1>1, <2>1
<1>3. PICK g \in [0 .. n -> Seq(I)] :
         g[0] = <<>> /\ Inbound!Items(d) = g[n] /\ \A k \in 1 .. n : g[k] = g[k - 1] \o d[k].items
  BY <1>1, ItemsTable
<1>4. \A k \in 1 .. n : d[k] \in Block(I) /\ d[k].len \in P
  BY <1>1, LenProperties, ElementOfSeq DEF Only
<1>5. Content(st) \in Seq(I)
  BY ContentFacts
<1> DEFINE Right(k) == Good(P, f[k]) /\ Content(f[k]) = Content(st) \o g[k]
           Bad == {k \in 0 .. n : ~Right(k)}
<1>6. Right(0)
  BY <1>2, <1>3, <1>5, ConcatEmptySeq
<1>7. ASSUME NEW k \in 1 .. n, Right(k - 1) PROVE Right(k)
  <2>1. k - 1 \in 0 .. n
    BY <1>1
  <2>2. f[k - 1] \in Filling(I) /\ g[k - 1] \in Seq(I) /\ f[k] = Inbound!Pack(f[k - 1], d[k]) /\ g[k] = g[k - 1] \o d[k].items
    BY <1>2, <1>3, <2>1
  <2>3. Good(P, f[k]) /\ Content(f[k]) = Content(f[k - 1]) \o d[k].items
    BY <1>4, <1>7, <2>2, PackGood
  <2>4. PICK a \in Seq(I), b \in Seq(I), c \in Seq(I) : a = Content(st) /\ b = g[k - 1] /\ c = d[k].items
    BY <1>4, <1>5, <2>2 DEF Block
  <2>5. (a \o b) \o c = a \o (b \o c)
    BY ConcatAssociative, SMTT(30)
  <2>6. Content(f[k - 1]) = Content(st) \o g[k - 1]
    BY <1>7
  <2>7. Content(f[k]) = Content(st) \o g[k]
    <3>1. Content(f[k]) = (a \o b) \o c
      BY <2>3, <2>4, <2>6
    <3>2. Content(st) \o g[k] = a \o (b \o c)
      BY <2>2, <2>4
    <3> QED
      BY <2>5, <3>1, <3>2
  <2> QED
    BY <2>3, <2>7
<1>8. Bad = {}
  <2>1. 0 \notin Bad /\ Bad \in SUBSET (0 .. n)
    BY <1>6
  <2>2. ASSUME NEW k \in Bad, k # 0 PROVE k - 1 \in Bad
    <3>1. k \in 1 .. n /\ k - 1 \in 0 .. n /\ ~Right(k)
      BY <2>2
    <3>2. ~Right(k - 1)
      BY <1>7, <3>1
    <3> HIDE DEF Right
    <3> QED
      BY <3>1, <3>2
  <2> HIDE DEF Bad
  <2> QED
    BY <2>1, <2>2, NoCounterexample
<1>9. Right(n) /\ f[n] \in Filling(I)
  <2>1. n \in 0 .. n
    OBVIOUS
  <2> HIDE DEF Right
  <2> QED
    BY <1>8, <2>1
<1> QED
  BY <1>2, <1>3, <1>9

LEMMA ParagraphStepCases ==
  ASSUME NEW I, NEW st \in Filling(I), NEW p \in Spoken(I)
  PROVE  LET par == Inbound!Paragraph(p)
         IN  \/ /\ st.cur.len + par.len + 2 <= MaxChars \/ st.cur.len = 0
                /\ Inbound!ParagraphStep(st, p) = Inbound!Filled(st, par, 2)
             \/ st.cur.len >= MinChars /\ Inbound!ParagraphStep(st, p) = Inbound!Begun(st, par)
             \/ Inbound!ParagraphStep(st, p) = Packed(st, Inbound!BySentence(p))
<1>1. st.cur.len \in Nat /\ Inbound!Paragraph(p).len \in Nat
  BY ParagraphFacts DEF Filling, Piece, Block
<1> QED
  BY <1>1, Limits DEF Inbound!ParagraphStep, Packed

LEMMA ParagraphStepFills ==
  ASSUME NEW I, NEW st \in Filling(I), NEW p \in Spoken(I)
  PROVE  Inbound!ParagraphStep(st, p) \in Filling(I)
<1>1. Inbound!Paragraph(p) \in Block(I) /\ Inbound!Paragraph(p) \in Piece(I) /\ 2 \in Nat
  BY ParagraphFacts, BlocksArePieces
<1>2. Inbound!Filled(st, Inbound!Paragraph(p), 2) \in Filling(I) /\ Inbound!Begun(st, Inbound!Paragraph(p)) \in Filling(I)
  BY <1>1, FilledFacts, BegunFacts
<1>3. Packed(st, Inbound!BySentence(p)) \in Filling(I)
  <2>1. \A m : UpTo(m) \subseteq Nat
    BY DEF UpTo
  <2>2. Inbound!BySentence(p) \in Seq(Block(I))
    BY <2>1, BySentenceFacts
  <2>3. PICK d \in Seq(Block(I)) : d = Inbound!BySentence(p)
    BY <2>2
  <2>4. PICK f \in [0 .. Len(d) -> Filling(I)] : Packed(st, d) = f[Len(d)]
    BY PackTable
  <2>5. Len(d) \in 0 .. Len(d)
    BY LenProperties
  <2> QED
    BY <2>3, <2>4, <2>5
<1> QED
  BY <1>2, <1>3, ParagraphStepCases

LEMMA ParagraphStepGood ==
  ASSUME NEW I, NEW st \in Filling(I), NEW p \in Spoken(I), NEW P, UpTo(Inbound!Paragraph(p).len) \subseteq P, Good(P, st)
  PROVE  /\ Good(P, Inbound!ParagraphStep(st, p))
         /\ Content(Inbound!ParagraphStep(st, p)) = Content(st) \o Names(p)
<1> DEFINE par == Inbound!Paragraph(p)
<1>1. /\ par \in Block(I) /\ par \in Piece(I) /\ par.items = Names(p) /\ 2 \in Nat
      /\ \A i \in 1 .. Len(p) : p[i].len <= par.len
  BY ParagraphFacts, BlocksArePieces
<1> HIDE DEF par
<1>2. st.cur.len \in Nat /\ par.len \in Nat \ {0}
  BY <1>1 DEF Filling, Piece, Block
<1>3. UpTo(par.len) \subseteq P /\ UpTo(0) \subseteq P /\ par.len \in P
  <2>1. UpTo(par.len) \subseteq P
    BY DEF par
  <2>2. UpTo(0) \subseteq UpTo(par.len) /\ par.len \in UpTo(par.len)
    BY <1>2, Limits DEF UpTo
  <2> QED
    BY <2>1, <2>2
<1>4. CASE /\ st.cur.len + par.len + 2 <= MaxChars \/ st.cur.len = 0
           /\ Inbound!ParagraphStep(st, p) = Inbound!Filled(st, par, 2)
  <2>1. (IF st.cur.len = 0 THEN par.len ELSE st.cur.len + 2 + par.len) \in UpTo(par.len)
    BY <1>2, <1>4, Limits DEF UpTo
  <2>2. (IF st.cur.len = 0 THEN par.len ELSE st.cur.len + 2 + par.len) \in P
    BY <1>3, <2>1
  <2>3. Good(P, Inbound!Filled(st, par, 2))
    BY <1>1, <2>2, FilledGood
  <2>4. Content(Inbound!Filled(st, par, 2)) = Content(st) \o par.items
    BY <1>1, ContentFacts
  <2> QED
    BY <1>1, <1>4, <2>3, <2>4
<1>5. CASE st.cur.len >= MinChars /\ Inbound!ParagraphStep(st, p) = Inbound!Begun(st, par)
  <2>1. ~Short(st.cur)
    BY <1>2, <1>5, Limits DEF Short
  <2>2. Good(P, Inbound!Begun(st, par))
    BY <1>1, <1>3, <2>1, BegunGood
  <2>3. Content(Inbound!Begun(st, par)) = Content(st) \o par.items
    BY <1>1, ContentFacts
  <2> QED
    BY <1>1, <1>5, <2>2, <2>3
<1>6. CASE Inbound!ParagraphStep(st, p) = Packed(st, Inbound!BySentence(p))
  <2>1. \A i \in 1 .. Len(p) : UpTo(p[i].len) \subseteq P
    <3> SUFFICES ASSUME NEW i \in 1 .. Len(p) PROVE UpTo(p[i].len) \subseteq P
      OBVIOUS
    <3>1. p[i] \in Said(I)
      BY ElementOfSeq DEF Spoken
    <3>2. p[i].len \in Nat /\ p[i].len <= par.len
      BY <1>1, <3>1 DEF Said
    <3>3. UpTo(p[i].len) \subseteq UpTo(par.len)
      BY <1>2, <3>2, Limits DEF UpTo
    <3> QED
      BY <1>3, <3>3
  <2>2. /\ Inbound!BySentence(p) \in Seq(Block(I)) /\ Inbound!Items(Inbound!BySentence(p)) = Names(p)
        /\ Only(P, Inbound!BySentence(p))
    BY <2>1, BySentenceFacts
  <2> QED
    BY <1>3, <1>6, <2>2, PackAllFacts
<1> QED
  BY <1>4, <1>5, <1>6, ParagraphStepCases DEF par

LEMMA TextTable ==
  ASSUME NEW I, NEW s \in Seq(Spoken(I))
  PROVE  \E f \in [0 .. Len(s) -> Filling(I)] :
            f[0] = Inbound!NoChunks /\ (\A k \in 1 .. Len(s) : f[k] = Inbound!ParagraphStep(f[k - 1], s[k])) /\ Inbound!FoldLeft(Inbound!ParagraphStep, Inbound!NoChunks, s) = f[Len(s)]
<1> DEFINE n == Len(s)
           S == Filling(I)
           base == Inbound!NoChunks
           step == [p \in S \X (1 .. n) |-> Inbound!ParagraphStep(p[1], s[p[2]])]
           Recursive(h) == h = [x \in SUBSET (DOMAIN s) |-> IF x = {} THEN base ELSE Inbound!ParagraphStep(h[x \ {Inbound!Max(x)}], s[Inbound!Max(x)])]
<1>1. n \in Nat /\ DOMAIN s = 1 .. n /\ (\A k \in 1 .. n : s[k] \in Spoken(I)) /\ base \in S
  BY LenProperties, BlankFacts
<1>2. \A a \in S, k \in 1 .. n : Inbound!ParagraphStep(a, s[k]) \in S
  BY <1>1, ParagraphStepFills
<1>3. step \in [S \X (1 .. n) -> S] /\ \A a \in S, k \in 1 .. n : step[<<a, k>>] = Inbound!ParagraphStep(a, s[k])
  BY <1>2
<1>4. Inbound!FoldLeft(Inbound!ParagraphStep, Inbound!NoChunks, s) = (CHOOSE h : Recursive(h))[DOMAIN s]
  BY DEF Inbound!FoldLeft, Inbound!MapThenFoldSet
<1> HIDE DEF n, step, S, base
<1>5. PICK g \in [SUBSET (1 .. n) -> S] : Solves(g, n, base, step)
  BY <1>1, <1>3, SolutionExists
<1>6. Recursive(g)
  <2>1. ASSUME NEW x \in SUBSET (1 .. n), x # {} PROVE Inbound!Max(x) \in 1 .. n /\ g[x \ {Inbound!Max(x)}] \in S
    BY <1>1, <2>1, LargestIn
  <2>2. ASSUME NEW x \in SUBSET (1 .. n), x # {} PROVE g[x] = Inbound!ParagraphStep(g[x \ {Inbound!Max(x)}], s[Inbound!Max(x)])
    BY <1>3, <1>5, <2>1, <2>2 DEF Solves
  <2> QED
    BY <1>1, <1>5, <2>2 DEF Solves
<1>7. PICK h : Recursive(h) /\ Inbound!FoldLeft(Inbound!ParagraphStep, Inbound!NoChunks, s) = h[1 .. n]
  BY <1>1, <1>4, <1>6
<1>8. h[{}] = base /\ \A x \in SUBSET (1 .. n) : x # {} => h[x] = Inbound!ParagraphStep(h[x \ {Inbound!Max(x)}], s[Inbound!Max(x)])
  BY <1>1, <1>7
<1>9. Recurs(h, n, S, step)
  BY <1>1, <1>3, <1>8, LargestIn DEF Recurs
<1> HIDE DEF Recursive
<1>10. PICK f \in [0 .. n -> S] : Tables(f, n, base, step) /\ h[1 .. n] = f[n]
  <2>1. n \in Nat /\ base \in S
    BY <1>1
  <2>2. step \in [S \X (1 .. n) -> S]
    BY <1>3
  <2>3. h[{}] = base
    BY <1>8
  <2>4. Tabled(h, n, S, base, step)
    BY <2>1, <2>2, <2>3, <1>9, TableOf, Zenon
  <2> QED
    BY <2>4 DEF Tabled
<1>11. \A k \in 1 .. n : f[k] = Inbound!ParagraphStep(f[k - 1], s[k])
  <2> SUFFICES ASSUME NEW k \in 1 .. n PROVE f[k] = Inbound!ParagraphStep(f[k - 1], s[k])
    OBVIOUS
  <2>1. f[k] = step[<<f[k - 1], k>>]
    BY <1>10 DEF Tables
  <2>2. f[k - 1] \in S
    BY <1>1, <1>10
  <2> QED
    BY <1>3, <2>1, <2>2
<1>12. f[0] = base /\ Inbound!FoldLeft(Inbound!ParagraphStep, Inbound!NoChunks, s) = f[n]
  BY <1>7, <1>10 DEF Tables
<1> QED
  BY <1>10, <1>11, <1>12 DEF n, S, base

\* The lengths the paragraphs of a text may give a chunk.
Bounds(P, text) == UpTo(0) \subseteq P /\ \A i \in 1 .. Len(text) : UpTo(Inbound!Paragraph(text[i]).len) \subseteq P

LEMMA TextFacts ==
  ASSUME NEW I, NEW text \in Seq(Spoken(I))
  PROVE  /\ text \in Seq(Seq(Said(I))) /\ Len(text) \in Nat
         /\ \A i \in 1 .. Len(text) : text[i] \in Spoken(I) /\ text[i] \in Seq(Said(I))
<1>1. Spoken(I) \subseteq Seq(Said(I))
  BY DEF Spoken
<1>2. text \in Seq(Seq(Said(I)))
  <2>1. PICK T : T = Seq(Said(I))
    OBVIOUS
  <2>2. Spoken(I) \subseteq T
    BY <1>1, <2>1
  <2>3. text \in Seq(T)
    BY <2>2
  <2> QED
    BY <2>1, <2>3
<1>3. Len(text) \in Nat /\ \A i \in 1 .. Len(text) : text[i] \in Spoken(I)
  BY LenProperties, ElementOfSeq
<1> QED
  BY <1>1, <1>2, <1>3

LEMMA ByParagraphFacts ==
  ASSUME NEW I, NEW text \in Seq(Spoken(I)), NEW P, Bounds(P, text)
  PROVE  /\ Inbound!ByParagraph(text) \in Seq(Block(I))
         /\ Inbound!Items(Inbound!ByParagraph(text)) = Names(Inbound!Flat(text))
         /\ Only(P, Inbound!ByParagraph(text)) /\ Spaced(Inbound!ByParagraph(text))
<1>1. PICK n \in Nat : n = Len(text)
  BY TextFacts
<1>2. /\ text \in Seq(Seq(Said(I)))
      /\ \A i \in 1 .. n : text[i] \in Spoken(I) /\ text[i] \in Seq(Said(I)) /\ UpTo(Inbound!Paragraph(text[i]).len) \subseteq P
  BY <1>1, TextFacts DEF Bounds
<1>3. PICK f \in [0 .. n -> Filling(I)] :
         /\ f[0] = Inbound!NoChunks /\ Inbound!FoldLeft(Inbound!ParagraphStep, Inbound!NoChunks, text) = f[n]
         /\ \A k \in 1 .. n : f[k] = Inbound!ParagraphStep(f[k - 1], text[k])
  BY <1>1, TextTable
<1>4. PICK g \in [0 .. n -> Seq(Said(I))] :
         g[0] = <<>> /\ (\A k \in 1 .. n : g[k] = g[k - 1] \o text[k]) /\ Inbound!Flat(text) = g[n]
  BY <1>1, <1>2, FlatTable
<1> DEFINE Right(k) == Good(P, f[k]) /\ Content(f[k]) = Names(g[k])
           Bad == {k \in 0 .. n : ~Right(k)}
<1>5. Right(0)
  <2>1. Content(Inbound!NoChunks) = <<>>
    BY BlankFacts, ItemsOfNone DEF Content
  <2>2. Names(<<>>) = <<>>
    BY DEF Names
  <2> QED
    BY <1>3, <1>4, <2>1, <2>2, NoChunksGood
<1>6. ASSUME NEW k \in 1 .. n, Right(k - 1) PROVE Right(k)
  <2>1. k - 1 \in 0 .. n
    OBVIOUS
  <2>2. f[k - 1] \in Filling(I) /\ g[k - 1] \in Seq(Said(I)) /\ text[k] \in Spoken(I) /\ text[k] \in Seq(Said(I))
    BY <1>2, <2>1
  <2>3. f[k] = Inbound!ParagraphStep(f[k - 1], text[k]) /\ g[k] = g[k - 1] \o text[k]
    BY <1>3, <1>4
  <2>4. Good(P, f[k]) /\ Content(f[k]) = Content(f[k - 1]) \o Names(text[k])
    BY <1>2, <1>6, <2>2, <2>3, ParagraphStepGood
  <2>5. Names(g[k]) = Names(g[k - 1]) \o Names(text[k])
    BY <2>2, <2>3, NamesOfBoth
  <2> QED
    BY <1>6, <2>4, <2>5
<1>7. Bad = {}
  <2>1. 0 \notin Bad /\ Bad \in SUBSET (0 .. n)
    BY <1>5
  <2>2. ASSUME NEW k \in Bad, k # 0 PROVE k - 1 \in Bad
    <3>1. k \in 1 .. n /\ k - 1 \in 0 .. n /\ ~Right(k)
      BY <2>2
    <3>2. ~Right(k - 1)
      BY <1>6, <3>1
    <3> HIDE DEF Right
    <3> QED
      BY <3>1, <3>2
  <2> HIDE DEF Bad
  <2> QED
    BY <2>1, <2>2, NoCounterexample
<1>8. Right(n) /\ f[n] \in Filling(I)
  <2>1. n \in 0 .. n
    OBVIOUS
  <2> HIDE DEF Right
  <2> QED
    BY <1>7, <2>1
<1>9. Inbound!ByParagraph(text) = Inbound!Closed(f[n])
  BY <1>3 DEF Inbound!ByParagraph
<1> QED
  BY <1>4, <1>8, <1>9, ClosedFacts, ClosedGood

LEMMA FlatTextFacts ==
  ASSUME NEW I, NEW text \in Seq(Spoken(I)), text # <<>>, NEW P, Bounds(P, text)
  PROVE  /\ Inbound!Flat(text) \in Spoken(I)
         /\ \A i \in 1 .. Len(Inbound!Flat(text)) : UpTo(Inbound!Flat(text)[i].len) \subseteq P
<1>1. PICK n \in Nat : n = Len(text)
  BY TextFacts
<1>2. /\ text \in Seq(Seq(Said(I))) /\ n # 0
      /\ \A i \in 1 .. n : text[i] \in Spoken(I) /\ text[i] \in Seq(Said(I)) /\ UpTo(Inbound!Paragraph(text[i]).len) \subseteq P
  BY <1>1, TextFacts, EmptySeq DEF Bounds
<1>3. PICK g \in [0 .. n -> Seq(Said(I))] :
         g[0] = <<>> /\ (\A k \in 1 .. n : g[k] = g[k - 1] \o text[k]) /\ Inbound!Flat(text) = g[n]
  BY <1>1, <1>2, FlatTable
<1> DEFINE Fit(s) == \A i \in 1 .. Len(s) : UpTo(s[i].len) \subseteq P
           Right(k) == Fit(g[k]) /\ (k # 0 => Len(g[k]) # 0)
           Bad == {k \in 0 .. n : ~Right(k)}
<1>4. ASSUME NEW k \in 1 .. n PROVE Fit(text[k]) /\ Len(text[k]) \in Nat \ {0}
  <2>1. text[k] \in Spoken(I) /\ UpTo(Inbound!Paragraph(text[k]).len) \subseteq P
    BY <1>2
  <2>2. PICK t \in Seq(Said(I)) : t = text[k] /\ t # <<>>
    BY <2>1 DEF Spoken
  <2>3. Len(t) \in Nat \ {0} /\ \A i \in 1 .. Len(t) : t[i] \in Said(I)
    BY <2>2, EmptySeq, LenProperties, ElementOfSeq
  <2>4. Inbound!Paragraph(t).len \in Nat /\ \A i \in 1 .. Len(t) : t[i].len <= Inbound!Paragraph(t).len
    BY <2>1, <2>2, ParagraphFacts DEF Block
  <2>5. \A s \in Said(I) : s.len \in Nat
    BY DEF Said
  <2>6. \A i \in 1 .. Len(t) : UpTo(t[i].len) \subseteq UpTo(Inbound!Paragraph(t).len)
    <3> SUFFICES ASSUME NEW i \in 1 .. Len(t) PROVE UpTo(t[i].len) \subseteq UpTo(Inbound!Paragraph(t).len)
      OBVIOUS
    <3>1. t[i].len \in Nat /\ t[i].len <= Inbound!Paragraph(t).len
      BY <2>3, <2>4, <2>5
    <3> QED
      BY <2>4, <3>1, Limits DEF UpTo
  <2> QED
    BY <2>1, <2>2, <2>3, <2>6
<1> HIDE DEF Fit
<1>5. Right(0)
  <2>1. Len(g[0]) = 0
    BY <1>3, EmptySeq
  <2> QED
    BY <2>1 DEF Fit
<1>6. ASSUME NEW k \in 1 .. n, Right(k - 1) PROVE Right(k)
  <2>1. k - 1 \in 0 .. n
    OBVIOUS
  <2>2. PICK a \in Seq(Said(I)), b \in Seq(Said(I)) : a = g[k - 1] /\ b = text[k] /\ g[k] = a \o b
    BY <1>2, <1>3, <2>1
  <2>3. Fit(a) /\ Fit(b) /\ Len(b) \in Nat \ {0} /\ Len(a) \in Nat
    BY <1>4, <1>6, <2>2, LenProperties
  <2>4. /\ Len(a \o b) = Len(a) + Len(b)
        /\ \A i \in 1 .. Len(a) + Len(b) : (a \o b)[i] = IF i <= Len(a) THEN a[i] ELSE b[i - Len(a)]
    BY ConcatProperties
  <2>5. Fit(a \o b)
    <3> SUFFICES ASSUME NEW i \in 1 .. Len(a) + Len(b) PROVE UpTo((a \o b)[i].len) \subseteq P
      BY <2>4 DEF Fit
    <3>1. CASE i <= Len(a)
      <4>1. i \in 1 .. Len(a) /\ (a \o b)[i] = a[i]
        BY <2>3, <2>4, <3>1
      <4> QED
        BY <2>3, <4>1 DEF Fit
    <3>2. CASE ~(i <= Len(a))
      <4>1. i - Len(a) \in 1 .. Len(b) /\ (a \o b)[i] = b[i - Len(a)]
        BY <2>3, <2>4, <3>2
      <4> QED
        BY <2>3, <4>1 DEF Fit
    <3> QED
      BY <3>1, <3>2
  <2>6. Len(a \o b) # 0
    BY <2>3, <2>4
  <2> QED
    BY <2>2, <2>5, <2>6
<1>7. Bad = {}
  <2>1. 0 \notin Bad /\ Bad \in SUBSET (0 .. n)
    BY <1>5
  <2>2. ASSUME NEW k \in Bad, k # 0 PROVE k - 1 \in Bad
    <3>1. k \in 1 .. n /\ k - 1 \in 0 .. n /\ ~Right(k)
      BY <2>2
    <3>2. ~Right(k - 1)
      BY <1>6, <3>1
    <3> HIDE DEF Right
    <3> QED
      BY <3>1, <3>2
  <2> HIDE DEF Bad
  <2> QED
    BY <2>1, <2>2, NoCounterexample
<1>8. Right(n) /\ g[n] \in Seq(Said(I))
  <2>1. n \in 0 .. n
    OBVIOUS
  <2> HIDE DEF Right
  <2> QED
    BY <1>7, <2>1
<1>9. g[n] # <<>>
  BY <1>2, <1>8, EmptySeq
<1> QED
  BY <1>3, <1>8, <1>9 DEF Fit, Spoken

\* The chunks before they are coalesced.
LEMMA CutFacts ==
  ASSUME NEW I, NEW text \in Seq(Spoken(I)), NEW breakOn, NEW P, Bounds(P, text), NEW chunks,
         chunks = IF text = <<>> THEN <<>> ELSE IF breakOn = "paragraph" THEN Inbound!ByParagraph(text)
                  ELSE Inbound!BySentence(Inbound!Flat(text))
  PROVE  chunks \in Seq(Block(I)) /\ Inbound!Items(chunks) = Inbound!Sentences(text) /\ Only(P, chunks) /\ Spaced(chunks)
<1>1. CASE text = <<>>
  <2>1. Inbound!Sentences(text) = <<>>
    BY <1>1, FlatOfNone, SentencesNamed DEF Names
  <2>2. <<>> \in Seq(Block(I)) /\ Only(P, <<>>) /\ Spaced(<<>>)
    BY EmptySeq DEF Only, Spaced
  <2> QED
    BY <1>1, <2>1, <2>2, ItemsOfNone
<1>2. CASE text # <<>> /\ breakOn = "paragraph"
  BY <1>2, ByParagraphFacts, SentencesNamed
<1>3. CASE text # <<>> /\ breakOn # "paragraph"
  <2>1. chunks = Inbound!BySentence(Inbound!Flat(text))
    BY <1>3
  <2>2. Inbound!Flat(text) \in Spoken(I)
        /\ \A i \in 1 .. Len(Inbound!Flat(text)) : UpTo(Inbound!Flat(text)[i].len) \subseteq P
    BY <1>3, FlatTextFacts
  <2>3. Inbound!Sentences(text) = Names(Inbound!Flat(text))
    BY SentencesNamed
  <2> QED
    BY <2>1, <2>2, <2>3, BySentenceFacts
<1> QED
  BY <1>1, <1>2, <1>3

(***************************************************************************)
(* Coalescing.                                                              *)
(***************************************************************************)

LEMMA AppendedLast ==
  ASSUME NEW X, NEW s \in Seq(X), NEW e \in X
  PROVE  Append(s, e) \in Seq(X) /\ Append(s, e) # <<>> /\ Inbound!Last(Append(s, e)) = e
<1>1. Append(s, e) \in Seq(X) /\ Append(s, e) # <<>> /\ Len(Append(s, e)) = Len(s) + 1 /\ Append(s, e)[Len(s) + 1] = e
  BY AppendProperties
<1> QED
  BY <1>1 DEF Inbound!Last

LEMMA LastIsAppended ==
  ASSUME NEW X, NEW s \in Seq(X) \ {<<>>}
  PROVE  s = Append(Inbound!Front(s), Inbound!Last(s))
<1>1. PICK a \in Seq(X), e \in X, n \in Nat \ {0} :
         /\ a = Inbound!Front(s) /\ e = Inbound!Last(s) /\ n = Len(s)
         /\ e = s[n] /\ Len(a) = n - 1 /\ \A i \in 1 .. n - 1 : a[i] = s[i]
  <2>1. Len(s) \in Nat \ {0} /\ Inbound!Last(s) \in X /\ Inbound!Last(s) = s[Len(s)]
    BY FrontFacts
  <2>2. Inbound!Front(s) \in Seq(X) /\ Len(Inbound!Front(s)) = Len(s) - 1
    BY FrontFacts
  <2>3. \A i \in 1 .. Len(s) - 1 : Inbound!Front(s)[i] = s[i]
    BY FrontFacts
  <2> QED
    BY <2>1, <2>2, <2>3
<1>2. Append(a, e) \in Seq(X) /\ Len(Append(a, e)) = n /\ Append(a, e)[n] = e /\ \A i \in 1 .. n - 1 : Append(a, e)[i] = a[i]
  <2>1. Append(a, e) \in Seq(X) /\ Len(Append(a, e)) = Len(a) + 1 /\ Append(a, e)[Len(a) + 1] = e
        /\ \A i \in 1 .. Len(a) : Append(a, e)[i] = a[i]
    BY AppendProperties
  <2> QED
    BY <1>1, <2>1
<1>3. \A i \in 1 .. n : Append(a, e)[i] = s[i]
  <2> SUFFICES ASSUME NEW i \in 1 .. n PROVE Append(a, e)[i] = s[i]
    OBVIOUS
  <2>1. i = n \/ i \in 1 .. n - 1
    OBVIOUS
  <2> QED
    BY <1>1, <1>2, <2>1
<1>4. Append(a, e) = s
  BY <1>1, <1>2, <1>3, SeqEqual
<1> QED
  BY <1>1, <1>4

\* Which of the two coalescing does with a chunk, and what it holds then.
LEMMA CoalesceStepFacts ==
  ASSUME NEW I, NEW out \in Seq(Block(I)), NEW c \in Block(I)
  PROVE  /\ Inbound!CoalesceStep(out, c) \in Seq(Block(I)) \ {<<>>}
         /\ Inbound!Items(Inbound!CoalesceStep(out, c)) = Inbound!Items(out) \o c.items
         /\ \/ /\ out # <<>>
               /\ Short(c) \/ Inbound!Last(out).len + c.len + 1 <= MaxChars
               /\ Inbound!Last(out) \in Block(I)
               /\ \E d \in Block(I) : d.len = Inbound!Last(out).len + 1 + c.len
                                      /\ Inbound!CoalesceStep(out, c) = Append(Inbound!Front(out), d)
            \/ /\ out = <<>> \/ ~Short(c)
               /\ Inbound!CoalesceStep(out, c) = Append(out, c)
<1>1. CASE out # <<>> /\ (c.len < MinChars \/ (Inbound!Last(out).len < MinChars /\ Inbound!Last(out).len + c.len + 1 <= MaxChars))
  <2>1. PICK a \in Seq(Block(I)), e \in Block(I) : a = Inbound!Front(out) /\ e = Inbound!Last(out) /\ out = Append(a, e)
    <3>1. out \in Seq(Block(I)) \ {<<>>}
      BY <1>1
    <3> QED
      BY <3>1, FrontFacts, LastIsAppended
  <2>2. e \in Piece(I) /\ e.len \in Nat \ {0} /\ c.len \in Nat \ {0} /\ e.items \in Seq(I) /\ c.items \in Seq(I) /\ 1 \in Nat
    BY BlocksArePieces DEF Block
  <2>3. PICK d \in Block(I) : d = Inbound!Joined(e, c, 1) /\ d.items = e.items \o c.items /\ d.len = e.len + 1 + c.len
    <3>1. PICK piece \in Piece(I), gap \in Nat : piece = e /\ gap = 1
      BY <2>2
    <3>2. /\ Inbound!Joined(piece, c, gap) \in Block(I) /\ Inbound!Joined(piece, c, gap).items = piece.items \o c.items
          /\ Inbound!Joined(piece, c, gap).len = IF piece.len = 0 THEN c.len ELSE piece.len + gap + c.len
      BY JoinedFacts
    <3>3. e.len # 0
      BY <2>2
    <3> QED
      BY <3>1, <3>2, <3>3
  <2>4. Inbound!CoalesceStep(out, c) = Append(a, d)
    BY <1>1, <2>1, <2>3 DEF Inbound!CoalesceStep
  <2>5. Append(a, d) \in Seq(Block(I)) /\ Append(a, d) # <<>>
    BY AppendedLast
  <2>6. Inbound!Items(Append(a, d)) = Inbound!Items(out) \o c.items
    <3>1. Inbound!Items(Append(a, d)) = Inbound!Items(a) \o d.items
      BY ItemsFacts
    <3>2. Inbound!Items(out) = Inbound!Items(a) \o e.items
      BY <2>1, ItemsFacts
    <3>3. PICK x \in Seq(I), y \in Seq(I), z \in Seq(I) : x = Inbound!Items(a) /\ y = e.items /\ z = c.items
      BY <2>2, ItemsFacts
    <3>4. (x \o y) \o z = x \o (y \o z)
      BY ConcatAssociative
    <3> QED
      BY <2>3, <3>1, <3>2, <3>3, <3>4
  <2>7. Short(c) \/ Inbound!Last(out).len + c.len + 1 <= MaxChars
    BY <1>1 DEF Short
  <2> QED
    BY <1>1, <2>1, <2>3, <2>4, <2>5, <2>6, <2>7
<1>2. CASE ~(out # <<>> /\ (c.len < MinChars \/ (Inbound!Last(out).len < MinChars /\ Inbound!Last(out).len + c.len + 1 <= MaxChars)))
  <2>1. Inbound!CoalesceStep(out, c) = Append(out, c)
    BY <1>2 DEF Inbound!CoalesceStep
  <2>2. Append(out, c) \in Seq(Block(I)) /\ Append(out, c) # <<>> /\ Inbound!Items(Append(out, c)) = Inbound!Items(out) \o c.items
    BY AppendedLast, ItemsFacts
  <2>3. out = <<>> \/ ~Short(c)
    BY <1>2 DEF Short
  <2> QED
    BY <2>1, <2>2, <2>3
<1> QED
  BY <1>1, <1>2

LEMMA CoalesceStepBlocks ==
  ASSUME NEW I, NEW out \in Seq(Block(I)), NEW c \in Block(I)
  PROVE  Inbound!CoalesceStep(out, c) \in Seq(Block(I))
BY CoalesceStepFacts

Coalesced(chunks) == Inbound!FoldLeft(Inbound!CoalesceStep, <<>>, chunks)

LEMMA CoalesceTable ==
  ASSUME NEW I, NEW s \in Seq(Block(I))
  PROVE  \E f \in [0 .. Len(s) -> Seq(Block(I))] :
            f[0] = <<>> /\ (\A k \in 1 .. Len(s) : f[k] = Inbound!CoalesceStep(f[k - 1], s[k])) /\ Coalesced(s) = f[Len(s)]
<1> DEFINE n == Len(s)
           S == Seq(Block(I))
           base == <<>>
           step == [p \in S \X (1 .. n) |-> Inbound!CoalesceStep(p[1], s[p[2]])]
           Recursive(h) == h = [x \in SUBSET (DOMAIN s) |-> IF x = {} THEN base ELSE Inbound!CoalesceStep(h[x \ {Inbound!Max(x)}], s[Inbound!Max(x)])]
<1>1. n \in Nat /\ DOMAIN s = 1 .. n /\ (\A k \in 1 .. n : s[k] \in Block(I)) /\ base \in S
  BY LenProperties, EmptySeq
<1>2. \A a \in S, k \in 1 .. n : Inbound!CoalesceStep(a, s[k]) \in S
  BY <1>1, CoalesceStepBlocks
<1>3. step \in [S \X (1 .. n) -> S] /\ \A a \in S, k \in 1 .. n : step[<<a, k>>] = Inbound!CoalesceStep(a, s[k])
  BY <1>2
<1>4. Coalesced(s) = (CHOOSE h : Recursive(h))[DOMAIN s]
  BY DEF Coalesced, Inbound!FoldLeft, Inbound!MapThenFoldSet
<1> HIDE DEF n, step, S, base
<1>5. PICK g \in [SUBSET (1 .. n) -> S] : Solves(g, n, base, step)
  BY <1>1, <1>3, SolutionExists
<1>6. Recursive(g)
  <2>1. ASSUME NEW x \in SUBSET (1 .. n), x # {} PROVE Inbound!Max(x) \in 1 .. n /\ g[x \ {Inbound!Max(x)}] \in S
    BY <1>1, <2>1, LargestIn
  <2>2. ASSUME NEW x \in SUBSET (1 .. n), x # {} PROVE g[x] = Inbound!CoalesceStep(g[x \ {Inbound!Max(x)}], s[Inbound!Max(x)])
    BY <1>3, <1>5, <2>1, <2>2 DEF Solves
  <2> QED
    BY <1>1, <1>5, <2>2 DEF Solves
<1>7. PICK h : Recursive(h) /\ Coalesced(s) = h[1 .. n]
  BY <1>1, <1>4, <1>6
<1>8. h[{}] = base /\ \A x \in SUBSET (1 .. n) : x # {} => h[x] = Inbound!CoalesceStep(h[x \ {Inbound!Max(x)}], s[Inbound!Max(x)])
  BY <1>1, <1>7
<1>9. Recurs(h, n, S, step)
  BY <1>1, <1>3, <1>8, LargestIn DEF Recurs
<1> HIDE DEF Recursive
<1>10. PICK f \in [0 .. n -> S] : Tables(f, n, base, step) /\ h[1 .. n] = f[n]
  <2>1. n \in Nat /\ base \in S
    BY <1>1
  <2>2. step \in [S \X (1 .. n) -> S]
    BY <1>3
  <2>3. h[{}] = base
    BY <1>8
  <2>4. Tabled(h, n, S, base, step)
    BY <2>1, <2>2, <2>3, <1>9, TableOf, Zenon
  <2> QED
    BY <2>4 DEF Tabled
<1>11. \A k \in 1 .. n : f[k] = Inbound!CoalesceStep(f[k - 1], s[k])
  <2> SUFFICES ASSUME NEW k \in 1 .. n PROVE f[k] = Inbound!CoalesceStep(f[k - 1], s[k])
    OBVIOUS
  <2>1. f[k] = step[<<f[k - 1], k>>]
    BY <1>10 DEF Tables
  <2>2. f[k - 1] \in S
    BY <1>1, <1>10
  <2> QED
    BY <1>3, <2>1, <2>2
<1>12. f[0] = base /\ Coalesced(s) = f[n]
  BY <1>7, <1>10 DEF Tables
<1> QED
  BY <1>10, <1>11, <1>12 DEF n, S, base


\* Lengths after a short chunk has been joined to one that has its length in P.
Wider(P) == {l \in Nat : \E q \in P : l <= q + MinChars}

LEMMA OnlyAppended ==
  ASSUME NEW I, NEW blocks \in Seq(Block(I)), NEW c \in Block(I), NEW Q, Only(Q, blocks), c.len \in Q
  PROVE  Only(Q, Append(blocks, c))
<1>1. /\ Append(blocks, c) \in Seq(Block(I)) /\ Len(Append(blocks, c)) = Len(blocks) + 1
      /\ Append(blocks, c)[Len(blocks) + 1] = c /\ \A i \in 1 .. Len(blocks) : Append(blocks, c)[i] = blocks[i]
  BY AppendProperties
<1>2. DOMAIN Append(blocks, c) = 1 .. Len(blocks) + 1 /\ DOMAIN blocks = 1 .. Len(blocks) /\ Len(blocks) \in Nat
  BY <1>1, LenProperties
<1> SUFFICES ASSUME NEW i \in 1 .. Len(blocks) + 1 PROVE Append(blocks, c)[i].len \in Q
  BY <1>2 DEF Only
<1>3. i = Len(blocks) + 1 \/ i \in 1 .. Len(blocks)
  BY <1>2
<1> QED
  BY <1>1, <1>2, <1>3 DEF Only

LEMMA CoalesceStepGood ==
  ASSUME NEW I, NEW out \in Seq(Block(I)), NEW c \in Block(I), NEW P \in SUBSET Nat, UpTo(0) \subseteq P, c.len \in P,
         Only(Wider(P), out), Short(c) /\ out # <<>> => Inbound!Last(out).len \in P
  PROVE  /\ Only(Wider(P), Inbound!CoalesceStep(out, c))
         /\ ~Short(c) => Inbound!Last(Inbound!CoalesceStep(out, c)).len \in P
<1>1. P \subseteq Wider(P)
  BY Limits DEF Wider
<1>2. c.len \in Nat \ {0}
  BY DEF Block
<1>3. ASSUME out # <<>>, Short(c) \/ Inbound!Last(out).len + c.len + 1 <= MaxChars,
             Inbound!Last(out) \in Block(I), NEW d \in Block(I),
             d.len = Inbound!Last(out).len + 1 + c.len, Inbound!CoalesceStep(out, c) = Append(Inbound!Front(out), d)
      PROVE  /\ Only(Wider(P), Inbound!CoalesceStep(out, c))
             /\ ~Short(c) => Inbound!Last(Inbound!CoalesceStep(out, c)).len \in P
  <2>1. PICK a \in Seq(Block(I)), n \in Nat \ {0} : a = Inbound!Front(out) /\ n = Len(out) /\ Len(a) = n - 1
                                                    /\ \A i \in 1 .. n - 1 : a[i] = out[i]
    <3>1. out \in Seq(Block(I)) \ {<<>>}
      BY <1>3
    <3>2. Len(out) \in Nat \ {0} /\ Inbound!Front(out) \in Seq(Block(I)) /\ Len(Inbound!Front(out)) = Len(out) - 1
      BY <3>1, FrontFacts
    <3>3. \A i \in 1 .. Len(out) - 1 : Inbound!Front(out)[i] = out[i]
      BY <3>1, FrontFacts
    <3> QED
      BY <3>2, <3>3
  <2>2. Only(Wider(P), a)
    <3>1. DOMAIN a = 1 .. n - 1 /\ DOMAIN out = 1 .. n
      BY <2>1, LenProperties
    <3> SUFFICES ASSUME NEW i \in 1 .. n - 1 PROVE a[i].len \in Wider(P)
      BY <3>1 DEF Only
    <3>2. i \in 1 .. n
      OBVIOUS
    <3> QED
      BY <2>1, <3>1, <3>2 DEF Only
  <2>3. Inbound!Last(out).len \in Nat \ {0} /\ d.len \in Nat
    BY <1>3 DEF Block
  <2>4. Inbound!Last(out).len + c.len + 1 <= MaxChars => d.len \in P
    <3>1. Inbound!Last(out).len + c.len + 1 <= MaxChars => d.len \in UpTo(0)
      BY <1>2, <1>3, <2>3, Limits DEF UpTo
    <3> QED
      BY <3>1
  <2>5. Short(c) => d.len \in Wider(P)
    <3>1. Short(c) => Inbound!Last(out).len \in P
      BY <1>3
    <3>2. Short(c) => d.len <= Inbound!Last(out).len + MinChars
      BY <1>2, <1>3, <2>3, Limits DEF Short
    <3> QED
      BY <2>3, <3>1, <3>2 DEF Wider
  <2>6. d.len \in Wider(P) /\ (~Short(c) => d.len \in P)
    BY <1>1, <1>3, <2>4, <2>5
  <2>7. Inbound!Last(Append(a, d)) = d /\ Only(Wider(P), Append(a, d))
    BY <2>2, <2>6, AppendedLast, OnlyAppended
  <2> QED
    BY <1>3, <2>1, <2>6, <2>7
<1>4. ASSUME Inbound!CoalesceStep(out, c) = Append(out, c)
      PROVE  /\ Only(Wider(P), Inbound!CoalesceStep(out, c))
             /\ ~Short(c) => Inbound!Last(Inbound!CoalesceStep(out, c)).len \in P
  <2>1. c.len \in Wider(P)
    BY <1>1
  <2>2. Inbound!Last(Append(out, c)) = c /\ Only(Wider(P), Append(out, c))
    BY <2>1, AppendedLast, OnlyAppended
  <2> QED
    BY <1>4, <2>2
<1> QED
  BY <1>3, <1>4, CoalesceStepFacts

LEMMA CoalescedFacts ==
  ASSUME NEW I, NEW chunks \in Seq(Block(I)), NEW P \in SUBSET Nat, UpTo(0) \subseteq P, Only(P, chunks), Spaced(chunks)
  PROVE  /\ Coalesced(chunks) \in Seq(Block(I)) /\ Inbound!Items(Coalesced(chunks)) = Inbound!Items(chunks)
         /\ Inbound!Tight \/ Only(Wider(P), Coalesced(chunks))
<1>1. PICK n \in Nat : n = Len(chunks)
  BY LenProperties
<1>2. PICK f \in [0 .. n -> Seq(Block(I))] :
         /\ f[0] = <<>> /\ Coalesced(chunks) = f[n]
         /\ \A k \in 1 .. n : f[k] = Inbound!CoalesceStep(f[k - 1], chunks[k])
  BY <1>1, CoalesceTable
<1>3. PICK g \in [0 .. n -> Seq(I)] :
         g[0] = <<>> /\ Inbound!Items(chunks) = g[n] /\ \A k \in 1 .. n : g[k] = g[k - 1] \o chunks[k].items
  BY <1>1, ItemsTable
<1>4. \A k \in 1 .. n : chunks[k] \in Block(I) /\ chunks[k].len \in P
  BY <1>1, LenProperties, ElementOfSeq DEF Only
<1> DEFINE Held(k) == /\ Only(Wider(P), f[k])
                      /\ k # 0 /\ ~Short(chunks[k]) => Inbound!Last(f[k]).len \in P
           Right(k) == Inbound!Items(f[k]) = g[k] /\ (k = 0 <=> f[k] = <<>>) /\ (Inbound!Tight \/ Held(k))
           Bad == {k \in 0 .. n : ~Right(k)}
<1>5. Right(0)
  <2>1. Only(Wider(P), <<>>)
    BY DEF Only
  <2> QED
    BY <1>2, <1>3, <2>1, ItemsOfNone
<1>6. ASSUME NEW k \in 1 .. n, Right(k - 1) PROVE Right(k)
  <2>1. k - 1 \in 0 .. n /\ k # 0 /\ k \in Nat
    OBVIOUS
  <2>2. PICK out \in Seq(Block(I)), c \in Block(I) :
           /\ out = f[k - 1] /\ c = chunks[k] /\ c.len \in P
           /\ f[k] = Inbound!CoalesceStep(out, c) /\ g[k] = g[k - 1] \o c.items
    BY <1>2, <1>3, <1>4, <2>1
  <2>3. f[k] # <<>> /\ Inbound!Items(f[k]) = Inbound!Items(out) \o c.items
    <3>1. Inbound!CoalesceStep(out, c) \in Seq(Block(I)) \ {<<>>}
      BY CoalesceStepFacts
    <3>2. Inbound!Items(Inbound!CoalesceStep(out, c)) = Inbound!Items(out) \o c.items
      BY CoalesceStepFacts
    <3> QED
      BY <2>2, <3>1, <3>2
  <2>4. Inbound!Items(f[k]) = g[k]
    BY <1>6, <2>2, <2>3
  <2>5. ASSUME ~Inbound!Tight PROVE Held(k)
    <3>1. Only(Wider(P), out)
      BY <1>6, <2>2, <2>5
    <3>2. ASSUME Short(c), out # <<>> PROVE Inbound!Last(out).len \in P
      <4>1. k - 1 # 0 /\ k - 1 \in 1 .. n - 1 /\ (k - 1) + 1 = k
        BY <1>6, <2>2, <3>2
      <4>2. ~Short(chunks[k - 1])
        BY <1>1, <2>2, <2>5, <3>2, <4>1 DEF Spaced
      <4> QED
        BY <1>6, <2>2, <2>5, <4>1, <4>2
    <3>3. /\ Only(Wider(P), Inbound!CoalesceStep(out, c))
          /\ ~Short(c) => Inbound!Last(Inbound!CoalesceStep(out, c)).len \in P
      BY <2>2, <3>1, <3>2, CoalesceStepGood
    <3> QED
      BY <2>2, <3>3
  <2> QED
    BY <2>1, <2>3, <2>4, <2>5
<1>7. Bad = {}
  <2>1. 0 \notin Bad /\ Bad \in SUBSET (0 .. n)
    BY <1>5
  <2>2. ASSUME NEW k \in Bad, k # 0 PROVE k - 1 \in Bad
    <3>1. k \in 1 .. n /\ k - 1 \in 0 .. n /\ ~Right(k)
      BY <2>2
    <3>2. ~Right(k - 1)
      BY <1>6, <3>1
    <3> HIDE DEF Right
    <3> QED
      BY <3>1, <3>2
  <2> HIDE DEF Bad
  <2> QED
    BY <2>1, <2>2, NoCounterexample
<1>8. Right(n) /\ f[n] \in Seq(Block(I))
  <2>1. n \in 0 .. n
    OBVIOUS
  <2> HIDE DEF Right
  <2> QED
    BY <1>7, <2>1
<1> QED
  BY <1>2, <1>3, <1>8

LEMMA ChunkedFacts ==
  ASSUME NEW I, NEW text \in Seq(Spoken(I)), NEW breakOn, NEW coalesce \in BOOLEAN
  PROVE  /\ Inbound!Chunked(breakOn, coalesce, text) \in Seq(Block(I))
         /\ Inbound!Items(Inbound!Chunked(breakOn, coalesce, text)) = Inbound!Sentences(text)
         /\ \/ coalesce /\ Inbound!Tight
            \/ \A c \in Inbound!Range(Inbound!Chunked(breakOn, coalesce, text)) :
                  c.len <= MaxChars + MinChars \/ Inbound!LongerThan(text, c.len)
<1> DEFINE P == UpTo(0) \cup UNION {UpTo(Inbound!Paragraph(text[i]).len) : i \in 1 .. Len(text)}
<1>1. P \in SUBSET Nat /\ Bounds(P, text)
  BY DEF Bounds, UpTo
<1>2. \A i \in 1 .. Len(text) : Inbound!Paragraph(text[i]).len \in Nat
  <2> SUFFICES ASSUME NEW i \in 1 .. Len(text) PROVE Inbound!Paragraph(text[i]).len \in Nat
    OBVIOUS
  <2>1. Inbound!Paragraph(text[i]) \in Block(I)
    BY TextFacts, ParagraphFacts
  <2> QED
    BY <2>1 DEF Block
<1>3. ASSUME NEW l \in Wider(P) PROVE l <= MaxChars + MinChars \/ Inbound!LongerThan(text, l)
  <2>1. PICK q \in P : l <= q + MinChars /\ l \in Nat
    BY DEF Wider
  <2>2. CASE q \in UpTo(0)
    BY <2>1, <2>2, Limits DEF UpTo
  <2>3. CASE q \notin UpTo(0)
    <3>1. PICK i \in 1 .. Len(text) : q \in UpTo(Inbound!Paragraph(text[i]).len)
      BY <2>3
    <3>2. PICK m \in Nat : m = Inbound!Paragraph(text[i]).len
      BY <1>2
    <3>3. q \in Nat /\ (q <= MaxChars \/ q <= MinChars + m)
      BY <3>1, <3>2 DEF UpTo
    <3>4. l <= MaxChars + MinChars \/ m + 2 * MinChars >= l
      BY <2>1, <3>3, Limits
    <3>5. i \in DOMAIN text
      BY LenProperties
    <3> QED
      BY <3>2, <3>4, <3>5 DEF Inbound!LongerThan
  <2> QED
    BY <2>2, <2>3
<1> DEFINE chunks == IF text = <<>> THEN <<>> ELSE IF breakOn = "paragraph" THEN Inbound!ByParagraph(text)
                     ELSE Inbound!BySentence(Inbound!Flat(text))
<1>4. UpTo(0) \subseteq P
  OBVIOUS
<1> HIDE DEF P
<1>5. chunks \in Seq(Block(I)) /\ Inbound!Items(chunks) = Inbound!Sentences(text) /\ Only(P, chunks) /\ Spaced(chunks)
  BY <1>1, CutFacts
<1>6. Inbound!Chunked(breakOn, coalesce, text) = IF coalesce /\ Len(chunks) > 1 THEN Coalesced(chunks) ELSE chunks
  BY DEF Inbound!Chunked, Coalesced
<1> HIDE DEF chunks
<1>7. P \subseteq Wider(P)
  BY <1>1, Limits DEF Wider
<1>8. ASSUME NEW out \in Seq(Block(I)), Only(Wider(P), out)
      PROVE  \A c \in Inbound!Range(out) : c.len <= MaxChars + MinChars \/ Inbound!LongerThan(text, c.len)
  <2> SUFFICES ASSUME NEW c \in Inbound!Range(out)
               PROVE  c.len <= MaxChars + MinChars \/ Inbound!LongerThan(text, c.len)
    OBVIOUS
  <2>1. c.len \in Wider(P)
    BY <1>8 DEF Only, Inbound!Range
  <2> QED
    BY <1>3, <2>1
<1>9. CASE coalesce /\ Len(chunks) > 1
  BY <1>1, <1>4, <1>5, <1>6, <1>8, <1>9, CoalescedFacts
<1>10. CASE ~(coalesce /\ Len(chunks) > 1)
  <2>1. Only(Wider(P), chunks)
    BY <1>5, <1>7 DEF Only
  <2> QED
    BY <1>5, <1>6, <1>8, <1>10, <2>1
<1> QED
  BY <1>9, <1>10

LEMMA EveryTextIsWhole == \A I : \A text \in Seq(Spoken(I)) : Inbound!ChunksWhole(text)
BY ChunkedFacts DEF Inbound!ChunksWhole

(***************************************************************************)
(* What is gathered from a sequence.                                        *)
(***************************************************************************)

\* What all of one sequence's elements give, one more at a time.
Each(F, d) == [i \in DOMAIN d |-> F[d[i]]]

LEMMA FlatOfEach ==
  ASSUME NEW X, NEW I, NEW d \in Seq(X), NEW c \in X, NEW F \in [X -> Seq(I)]
  PROVE  /\ Inbound!Flat(Each(F, d)) \in Seq(I)
         /\ Inbound!Flat(Each(F, Append(d, c))) = Inbound!Flat(Each(F, d)) \o F[c]
<1> DEFINE n == Len(d)
           e == Append(d, c)
           all == [i \in DOMAIN d |-> F[d[i]]]
           more == [i \in DOMAIN e |-> F[e[i]]]
<1>1. /\ n \in Nat /\ DOMAIN d = 1 .. n /\ \A i \in 1 .. n : d[i] \in X
  BY LenProperties, ElementOfSeq
<1>2. /\ e \in Seq(X) /\ Len(e) = n + 1 /\ e[n + 1] = c /\ \A i \in 1 .. n : e[i] = d[i]
  BY AppendProperties
<1>3. DOMAIN e = 1 .. n + 1 /\ \A i \in 1 .. n + 1 : e[i] \in X
  BY <1>2, LenProperties, ElementOfSeq
<1> HIDE DEF e, n
<1>4. all \in [1 .. n -> Seq(I)] /\ more \in [1 .. n + 1 -> Seq(I)] /\ F[c] \in Seq(I)
  BY <1>1, <1>3
<1>5. (\A i \in 1 .. n : all[i] = F[d[i]]) /\ \A i \in 1 .. n + 1 : more[i] = F[e[i]]
  BY <1>1, <1>3
<1> HIDE DEF all, more
<1>6. PICK T, a, b, v : T = Seq(I) /\ a = all /\ b = more /\ v = F[c] /\ v \in T
  BY <1>4
<1>7. a \in Seq(T) /\ Len(a) = n /\ b \in Seq(T) /\ Len(b) = n + 1
  BY <1>1, <1>4, <1>6
<1>8. Append(a, v) \in Seq(T) /\ Len(Append(a, v)) = n + 1 /\ Append(a, v)[n + 1] = v
      /\ \A i \in 1 .. n : Append(a, v)[i] = a[i]
  <2>1. Append(a, v) \in Seq(T) /\ Len(Append(a, v)) = Len(a) + 1 /\ Append(a, v)[Len(a) + 1] = v
        /\ \A i \in 1 .. Len(a) : Append(a, v)[i] = a[i]
    BY <1>6, <1>7, AppendProperties
  <2> QED
    BY <1>7, <2>1
<1>9. \A i \in 1 .. n + 1 : b[i] = Append(a, v)[i]
  <2> SUFFICES ASSUME NEW i \in 1 .. n + 1 PROVE b[i] = Append(a, v)[i]
    OBVIOUS
  <2>1. CASE i = n + 1
    BY <1>2, <1>5, <1>6, <1>8, <2>1
  <2>2. CASE i # n + 1
    <3>1. i \in 1 .. n
      BY <1>1, <2>2
    <3> QED
      BY <1>2, <1>5, <1>6, <1>8, <3>1
  <2> QED
    BY <2>1, <2>2
<1>10. b = Append(a, v)
  BY <1>7, <1>8, <1>9, SeqEqual
<1>11. Inbound!Flat(a) \in Seq(I) /\ Inbound!Flat(Append(a, v)) = Inbound!Flat(a) \o v
  <2>1. a \in Seq(Seq(I)) /\ v \in Seq(I)
    BY <1>6, <1>7
  <2> QED
    BY <2>1, FlatAppend
<1> QED
  BY <1>6, <1>10, <1>11 DEF all, more, e, Each

AssociatesWith(h, X) == \A a, b \in Seq(X) : (h \o a) \o b = h \o (a \o b)
LEMMA EveryOneAssociates == \A X : \A h \in Seq(X) : AssociatesWith(h, X)
BY Associative DEF AssociatesWith

LEMMA FlatHead ==
  ASSUME NEW X, NEW s \in Seq(Seq(X)), NEW t \in Seq(Seq(X)), NEW n \in Nat, Len(s) = n + 1, Len(t) = n,
         \A i \in 1 .. n : t[i] = s[i + 1]
  PROVE  Inbound!Flat(s) = s[1] \o Inbound!Flat(t)
<1>1. PICK f \in [0 .. n + 1 -> Seq(X)] :
         f[0] = <<>> /\ (\A k \in 1 .. n + 1 : f[k] = f[k - 1] \o s[k]) /\ Inbound!Flat(s) = f[n + 1]
  <2>1. \E f \in [0 .. Len(s) -> Seq(X)] :
         f[0] = <<>> /\ (\A k \in 1 .. Len(s) : f[k] = f[k - 1] \o s[k]) /\ Inbound!Flat(s) = f[Len(s)]
    BY FlatTable
  <2> QED
    BY <2>1
<1>2. PICK g \in [0 .. n -> Seq(X)] :
         g[0] = <<>> /\ (\A k \in 1 .. n : g[k] = g[k - 1] \o t[k]) /\ Inbound!Flat(t) = g[n]
  <2>1. \E g \in [0 .. Len(t) -> Seq(X)] :
         g[0] = <<>> /\ (\A k \in 1 .. Len(t) : g[k] = g[k - 1] \o t[k]) /\ Inbound!Flat(t) = g[Len(t)]
    BY FlatTable
  <2> QED
    BY <2>1
<1>3. \A i \in 1 .. n + 1 : s[i] \in Seq(X)
  <2>1. PICK T : T = Seq(X)
    OBVIOUS
  <2>2. \A i \in 1 .. n + 1 : s[i] \in T
    BY <2>1, ElementOfSeq
  <2> QED
    BY <2>1, <2>2
<1>4. PICK h \in Seq(X) : h = s[1]
  <2>1. 1 \in 1 .. n + 1
    OBVIOUS
  <2> QED
    BY <1>3, <2>1
<1>7. \A a, b \in Seq(X) : (h \o a) \o b = h \o (a \o b)
  <2>1. AssociatesWith(h, X)
    BY EveryOneAssociates, Zenon
  <2> QED
    BY <2>1, Zenon DEF AssociatesWith
<1> DEFINE Bad == {k \in 0 .. n : f[k + 1] # h \o g[k]}
<1>5. Bad = {}
  <2>1. 0 \notin Bad
    <3>1. f[1] = <<>> \o h
      <4>1. 1 \in 1 .. n + 1 /\ 1 - 1 = 0
        OBVIOUS
      <4> QED
        BY <1>1, <1>4, <4>1
    <3>2. <<>> \o h = h /\ h \o <<>> = h
      BY ConcatEmptySeq
    <3> QED
      <4>1. f[0 + 1] = f[1] /\ 0 \in 0 .. n
        OBVIOUS
      <4>2. f[0 + 1] = h \o g[0]
        BY <1>2, <3>1, <3>2, <4>1
      <4> QED
        BY <4>2
  <2>2. ASSUME NEW k \in Bad, k # 0 PROVE k - 1 \in Bad
    <3>1. k \in 1 .. n /\ k - 1 \in 0 .. n /\ k + 1 \in 1 .. n + 1 /\ k \in 0 .. n + 1 /\ (k - 1) + 1 = k /\ (k + 1) - 1 = k
      <4>1. k \in 0 .. n /\ k # 0
        BY <2>2
      <4>2. n \in Nat
        BY <1>1
      <4> HIDE DEF Bad
      <4> QED
        BY <4>1, <4>2
    <3>2. f[k + 1] # h \o g[k]
      BY <2>2
    <3>3. ASSUME f[k] = h \o g[k - 1] PROVE FALSE
      <4>1. PICK a \in Seq(X), b \in Seq(X) : a = g[k - 1] /\ b = s[k + 1]
        BY <1>2, <1>3, <3>1
      <4>2. f[k + 1] = (h \o a) \o b
        BY <1>1, <3>1, <3>3, <4>1
      <4>3. g[k] = a \o b
        BY <1>2, <3>1, <4>1
      <4>4. (h \o a) \o b = h \o (a \o b)
        BY <1>7
      <4> QED
        BY <3>2, <4>2, <4>3, <4>4
    <3> QED
      BY <3>1, <3>3
  <2>3. Bad \in SUBSET (0 .. n)
    OBVIOUS
  <2> HIDE DEF Bad
  <2> QED
    BY <2>1, <2>2, <2>3, NoCounterexample
<1>6. f[n + 1] = h \o g[n]
  <2>1. n \in 0 .. n
    OBVIOUS
  <2> QED
    BY <1>5, <2>1
<1> QED
  BY <1>1, <1>2, <1>4, <1>6

\* A sequence of blocks from its first.
LEMMA ItemsHead ==
  ASSUME NEW I, NEW d \in Seq(Block(I)) \ {<<>>}
  PROVE  /\ d[1] \in Block(I) /\ Head(d) = d[1] /\ Tail(d) \in Seq(Block(I)) /\ Len(Tail(d)) = Len(d) - 1
         /\ Len(d) \in Nat \ {0}
         /\ Inbound!Items(d) = d[1].items \o Inbound!Items(Tail(d))
<1>1. Len(d) \in Nat \ {0} /\ d \in Seq(Block(I)) /\ DOMAIN d = 1 .. Len(d)
  BY EmptySeq, LenProperties
<1>2. PICK n \in Nat : Len(d) = n + 1
  <2>1. Len(d) - 1 \in Nat /\ Len(d) = (Len(d) - 1) + 1
    BY <1>1
  <2> QED
    BY <2>1
<1>3. Head(d) = d[1] /\ Tail(d) \in Seq(Block(I)) /\ Len(Tail(d)) = n /\ \A i \in 1 .. n : Tail(d)[i] = d[i + 1]
  BY <1>1, <1>2, HeadTailProperties
<1>4. \A i \in 1 .. n + 1 : d[i] \in Block(I)
  BY <1>1, <1>2, ElementOfSeq
<1>5. PICK u \in Seq(Block(I)) : u = Tail(d)
  BY <1>3
<1> DEFINE s == [i \in DOMAIN d |-> d[i].items]
           t == [i \in DOMAIN u |-> u[i].items]
<1>6. s \in Seq(Seq(I)) /\ t \in Seq(Seq(I))
  BY <1>1, ItemsFacts
<1>7. DOMAIN d = 1 .. n + 1 /\ DOMAIN u = 1 .. n
  BY <1>1, <1>2, <1>3, <1>5, LenProperties
<1>8. Len(s) = n + 1 /\ Len(t) = n
  BY <1>7
<1>9. s[1] = d[1].items /\ \A i \in 1 .. n : t[i] = s[i + 1]
  BY <1>3, <1>5, <1>7
<1>10. Inbound!Items(d) = Inbound!Flat(s) /\ Inbound!Items(u) = Inbound!Flat(t)
  BY DEF Inbound!Items
<1> HIDE DEF s, t
<1>11. Inbound!Flat(s) = s[1] \o Inbound!Flat(t)
  BY <1>6, <1>8, <1>9, FlatHead
<1>12. 1 \in 1 .. n + 1 /\ n + 1 - 1 = n
  OBVIOUS
<1> QED
  BY <1>1, <1>2, <1>3, <1>4, <1>5, <1>9, <1>10, <1>11, <1>12

(***************************************************************************)
(* The dispatcher.                                                          *)
(***************************************************************************)

\* What may be sent: the sentences of replies, and a challenge.
Ids == STRING \cup {"challenge"}
Outs == [chat : Inbound!Chats, call : 1 .. MaxMessages, items : Seq(Ids)]
Own == {[chat |-> c, sender |-> "none", text |-> FALSE, voice |-> FALSE] : c \in Inbound!Chats}
Windows == [base : 1 .. MaxMessages, texts : Seq(1 .. MaxMessages), owner : 1 .. MaxMessages]
Stages == {"none", "waiting", "refused", "transcribe", "gateway", "chunks", "replied", "failed"}
Handlers == [at : Stages, base : 0 .. MaxMessages, texts : Seq(1 .. MaxMessages), text : Seq(Spoken(Ids)),
             left : Seq(Block(Ids))]

InboundTypes ==
    /\ iDebounced \in BOOLEAN /\ iStopped \in BOOLEAN
    /\ iMessages \in Seq(Kinds \cup Own) /\ Len(iMessages) <= MaxMessages
    /\ iWindow \in [Inbound!Chats -> {<<>>} \cup {<<w>> : w \in Windows}]
    /\ iCall \in [1 .. MaxMessages -> Handlers]
    /\ iOutbox \in Seq(Outs)
    /\ iHeard \in Seq(1 .. MaxMessages)

\* A call is there when its message is; the window it is of was opened by then.
HandlerSound(m) ==
    IF m <= Len(iMessages) THEN iCall[m].at # "none" /\ iCall[m].base <= m
    ELSE iCall[m].at = "none" /\ iCall[m].base = 0

\* An open window: its texts are those that came since it was opened, and the last call waits for it.
WindowSound(c) ==
    iWindow[c] # <<>> =>
        LET w == iWindow[c][1]
        IN /\ w.base <= w.owner /\ w.owner <= Len(iMessages) /\ iMessages[w.base].chat = c
           /\ iCall[w.owner].at = "waiting" /\ iCall[w.owner].base = w.base /\ iCall[w.base].base = w.base
           /\ \A i \in 1 .. Len(w.texts) : /\ w.base <= w.texts[i] /\ w.texts[i] <= w.owner
                                           /\ iCall[w.texts[i]].base = w.base
           /\ \A i, j \in 1 .. Len(w.texts) : w.texts[i] = w.texts[j] => i = j

\* Who opened the window of a message may be heard.
Admitted(b) == b \in 1 .. Len(iMessages) /\ iMessages[b].sender \in Allowed

\* A window's texts are heard at once, or wait for a transcription instead of them, or are never.
HeardSound ==
    /\ \A i \in 1 .. Len(iHeard) : iHeard[i] <= Len(iMessages) /\ Admitted(iCall[iHeard[i]].base)
    /\ \A i, j \in 1 .. Len(iHeard) : iHeard[i] = iHeard[j] => i = j
    /\ \A c \in Inbound!Chats : iWindow[c] # <<>> =>
          /\ \A i \in 1 .. Len(iHeard) : iCall[iHeard[i]].base # iWindow[c][1].base
          /\ \A m \in 1 .. MaxMessages : iCall[m].at = "transcribe" => iCall[m].base # iWindow[c][1].base
    /\ \A m \in 1 .. MaxMessages : iCall[m].at = "transcribe" =>
          /\ Admitted(iCall[m].base) /\ iCall[iCall[m].base].base = iCall[m].base
          /\ \A i \in 1 .. Len(iHeard) : iCall[iHeard[i]].base # iCall[m].base
          /\ \A n \in 1 .. MaxMessages : iCall[n].at = "transcribe" /\ iCall[n].base = iCall[m].base => n = m

\* What was sent of a reply and what is left of it are the whole reply.
ReplySound(m) ==
    /\ iCall[m].left # <<>> <=> iCall[m].at = "chunks"
    /\ iCall[m].at \in {"none", "waiting", "transcribe", "gateway"} =>
          Inbound!ItemsSent(m) = <<>> /\ \A i \in 1 .. Len(iOutbox) : iOutbox[i].call # m
    /\ iCall[m].at = "chunks" => Inbound!ItemsSent(m) \o Inbound!Items(iCall[m].left) = Inbound!Sentences(iCall[m].text)
    /\ iCall[m].at = "replied" => Inbound!ItemsSent(m) = Inbound!Sentences(iCall[m].text)
    /\ iCall[m].at \in {"chunks", "replied"} =>
          m <= Len(iMessages) /\ \A i \in 1 .. Len(iOutbox) : iOutbox[i].call = m => iOutbox[i].chat = iMessages[m].chat

InboundInv ==
    /\ InboundTypes
    /\ \A m \in 1 .. MaxMessages : HandlerSound(m) /\ ReplySound(m)
    /\ \A c \in Inbound!Chats : WindowSound(c)
    /\ HeardSound

LEMMA InboundPart == [Next]_vars => [Inbound!Next]_InboundVars
BY DEF Next, Rest, vars

LEMMA TextsSpoken == Texts \subseteq Seq(Spoken(Ids)) /\ MaxMessages \in Nat
<1>1. Texts \subseteq Seq(Seq([id : STRING, len : Nat \ {0}]) \ {<<>>}) /\ MaxMessages \in Nat
  BY InboundAssumption
<1>2. \A A, B : A \subseteq B => Seq(A) \subseteq Seq(B)
  <2> SUFFICES ASSUME NEW A, NEW B, A \subseteq B, NEW s \in Seq(A) PROVE s \in Seq(B)
    OBVIOUS
  <2> QED
    OBVIOUS
<1>3. [id : STRING, len : Nat \ {0}] \subseteq Said(Ids)
  BY DEF Said, Ids
<1>4. Seq([id : STRING, len : Nat \ {0}]) \ {<<>>} \subseteq Spoken(Ids)
  <2>1. Seq([id : STRING, len : Nat \ {0}]) \subseteq Seq(Said(Ids))
    BY <1>2, <1>3, Zenon
  <2> QED
    BY <2>1, Zenon DEF Spoken
<1>5. Seq(Seq([id : STRING, len : Nat \ {0}]) \ {<<>>}) \subseteq Seq(Spoken(Ids))
  BY <1>2, <1>4, Zenon
<1> QED
  BY <1>1, <1>5, Zenon

OfCall(box, m) == [i \in DOMAIN box |-> IF box[i].call = m THEN box[i].items ELSE <<>>]

LEMMA SentFacts ==
  ASSUME NEW box \in Seq(Outs), NEW o \in Outs, NEW m
  PROVE  /\ Inbound!Flat(OfCall(box, m)) \in Seq(Ids)
         /\ Inbound!Flat(OfCall(Append(box, o), m)) = Inbound!Flat(OfCall(box, m)) \o (IF o.call = m THEN o.items ELSE <<>>)
<1> DEFINE F == [x \in Outs |-> IF x.call = m THEN x.items ELSE <<>>]
<1>1. F \in [Outs -> Seq(Ids)]
  <2>1. <<>> \in Seq(Ids)
    BY EmptySeq
  <2>2. \A x \in Outs : x.items \in Seq(Ids)
    BY DEF Outs
  <2> QED
    BY <2>1, <2>2
<1>2. ASSUME NEW d \in Seq(Outs) PROVE Each(F, d) = OfCall(d, m)
  <2>1. \A i \in DOMAIN d : d[i] \in Outs
    BY ElementOfSeq, LenProperties
  <2> QED
    BY <2>1 DEF Each, OfCall
<1>3. Append(box, o) \in Seq(Outs)
  BY AppendProperties
<1>4. F[o] = IF o.call = m THEN o.items ELSE <<>>
  OBVIOUS
<1>5. Each(F, box) = OfCall(box, m) /\ Each(F, Append(box, o)) = OfCall(Append(box, o), m)
  BY <1>2, <1>3, Zenon
<1> HIDE DEF F
<1>6. Inbound!Flat(Each(F, box)) \in Seq(Ids) /\ Inbound!Flat(Each(F, Append(box, o))) = Inbound!Flat(Each(F, box)) \o F[o]
  BY <1>1, FlatOfEach
<1> QED
  BY <1>4, <1>5, <1>6, Zenon

LEMMA SentAfter ==
  ASSUME iOutbox \in Seq(Outs), NEW o \in Outs, iOutbox' = Append(iOutbox, o), NEW m
  PROVE  /\ iOutbox' \in Seq(Outs) /\ Inbound!ItemsSent(m) \in Seq(Ids)
         /\ Len(iOutbox') = Len(iOutbox) + 1 /\ iOutbox'[Len(iOutbox) + 1] = o /\ Len(iOutbox) \in Nat
         /\ \A i \in 1 .. Len(iOutbox) : iOutbox'[i] = iOutbox[i]
         /\ Inbound!ItemsSent(m)' = Inbound!ItemsSent(m) \o (IF o.call = m THEN o.items ELSE <<>>)
<1>1. Inbound!ItemsSent(m) = Inbound!Flat(OfCall(iOutbox, m))
  BY DEF Inbound!ItemsSent, OfCall
<1>2. Inbound!ItemsSent(m)' = Inbound!Flat(OfCall(Append(iOutbox, o), m))
  BY Zenon DEF Inbound!ItemsSent, OfCall
<1>3. /\ Inbound!ItemsSent(m) \in Seq(Ids)
      /\ Inbound!ItemsSent(m)' = Inbound!ItemsSent(m) \o (IF o.call = m THEN o.items ELSE <<>>)
  <2>1. Inbound!Flat(OfCall(iOutbox, m)) \in Seq(Ids)
    BY SentFacts
  <2>2. Inbound!Flat(OfCall(Append(iOutbox, o), m)) = Inbound!Flat(OfCall(iOutbox, m)) \o (IF o.call = m THEN o.items ELSE <<>>)
    BY SentFacts
  <2> QED
    BY <1>1, <1>2, <2>1, <2>2, Zenon
<1>4. /\ iOutbox' \in Seq(Outs) /\ Len(iOutbox') = Len(iOutbox) + 1 /\ iOutbox'[Len(iOutbox) + 1] = o /\ Len(iOutbox) \in Nat
      /\ \A i \in 1 .. Len(iOutbox) : iOutbox'[i] = iOutbox[i]
  BY AppendProperties, LenProperties
<1> QED
  BY <1>3, <1>4

LEMMA InboundInitially == Init => InboundInv
<1> SUFFICES ASSUME Init PROVE InboundInv
  OBVIOUS
<1>1. /\ iDebounced \in BOOLEAN /\ iMessages = <<>> /\ iOutbox = <<>> /\ iHeard = <<>> /\ iStopped = FALSE
      /\ iWindow = [c \in Inbound!Chats |-> <<>>] /\ iCall = [m \in 1 .. MaxMessages |-> Inbound!NoCall]
  BY DEF Init, Inbound!Init, Inbound!Numbers
<1>2. MaxMessages \in Nat /\ Len(<<>>) = 0
  BY TextsSpoken, EmptySeq
<1>3. Inbound!NoCall \in Handlers
  <2>1. <<>> \in Seq(1 .. MaxMessages) /\ <<>> \in Seq(Spoken(Ids)) /\ <<>> \in Seq(Block(Ids))
    BY EmptySeq
  <2> QED
    BY <1>2, <2>1 DEF Inbound!NoCall, Handlers, Stages
<1>4. InboundTypes
  <2>1. <<>> \in Seq(Kinds \cup Own) /\ <<>> \in Seq(Outs) /\ <<>> \in Seq(1 .. MaxMessages)
    BY EmptySeq
  <2> QED
    <3>1. iDebounced \in BOOLEAN /\ iStopped \in BOOLEAN /\ iMessages \in Seq(Kinds \cup Own) /\ Len(iMessages) <= MaxMessages
          /\ iOutbox \in Seq(Outs) /\ iHeard \in Seq(1 .. MaxMessages)
      <4>1. FALSE \in BOOLEAN /\ 0 <= MaxMessages
        BY <1>2
      <4> QED
        BY <1>1, <1>2, <2>1, <4>1
    <3>2. iWindow \in [Inbound!Chats -> {<<>>} \cup {<<w>> : w \in Windows}]
      BY <1>1
    <3>3. iCall \in [1 .. MaxMessages -> Handlers]
      BY <1>1, <1>3
    <3> QED
      BY <3>1, <3>2, <3>3 DEF InboundTypes
<1>5. ASSUME NEW m \in 1 .. MaxMessages PROVE HandlerSound(m) /\ ReplySound(m)
  <2>1. iCall[m].at = "none" /\ iCall[m].base = 0 /\ iCall[m].left = <<>> /\ ~(m <= Len(iMessages))
    BY <1>1, <1>2 DEF Inbound!NoCall
  <2>2. Inbound!ItemsSent(m) = <<>>
    <3>1. [i \in DOMAIN iOutbox |-> IF iOutbox[i].call = m THEN iOutbox[i].items ELSE <<>>] = <<>>
      BY <1>1
    <3> QED
      BY <3>1, FlatOfNone DEF Inbound!ItemsSent
  <2> QED
    BY <1>1, <1>2, <2>1, <2>2 DEF HandlerSound, ReplySound
<1>6. \A c \in Inbound!Chats : WindowSound(c)
  BY <1>1 DEF WindowSound
<1>7. HeardSound
  <2>1. \A m \in 1 .. MaxMessages : iCall[m].at = "none"
    BY <1>1 DEF Inbound!NoCall
  <2>2. \A c \in Inbound!Chats : iWindow[c] = <<>>
    BY <1>1
  <2> QED
    BY <1>1, <1>2, <2>1, <2>2 DEF HeardSound
<1> QED
  BY <1>4, <1>5, <1>6, <1>7 DEF InboundInv

(***************************************************************************)
(* What the steps of the dispatcher have in common: at most one message     *)
(* comes, one handler moves on, and to what was sent and heard is added.    *)
(***************************************************************************)

Grown == iMessages' = iMessages \/ \E k \in Kinds \cup Own : iMessages' = Append(iMessages, k)

LEMMA GrownFacts ==
  ASSUME InboundTypes, Grown
  PROVE  /\ iMessages' \in Seq(Kinds \cup Own) /\ Len(iMessages) \in Nat /\ Len(iMessages') \in Nat
         /\ Len(iMessages) <= Len(iMessages') /\ Len(iMessages') <= Len(iMessages) + 1
         /\ \A i \in 1 .. Len(iMessages) : iMessages'[i] = iMessages[i]
<1>1. iMessages \in Seq(Kinds \cup Own)
  BY DEF InboundTypes
<1>2. CASE iMessages' = iMessages
  BY <1>1, <1>2, LenProperties
<1>3. CASE \E k \in Kinds \cup Own : iMessages' = Append(iMessages, k)
  <2>1. PICK k \in Kinds \cup Own : iMessages' = Append(iMessages, k)
    BY <1>3
  <2>2. Len(iMessages) \in Nat
    BY <1>1, LenProperties
  <2>3. /\ Append(iMessages, k) \in Seq(Kinds \cup Own) /\ Len(Append(iMessages, k)) = Len(iMessages) + 1
        /\ \A i \in 1 .. Len(iMessages) : Append(iMessages, k)[i] = iMessages[i]
    BY <1>1, AppendProperties
  <2> QED
    BY <2>1, <2>2, <2>3
<1> QED
  BY <1>2, <1>3 DEF Grown

\* The handler that moved on keeps its window.
Moved(m, h) == iCall' = [iCall EXCEPT ![m] = h] /\ (m <= Len(iMessages) => h.base = iCall[m].base)

LEMMA MovedFacts ==
  ASSUME InboundTypes, NEW m \in 1 .. MaxMessages, NEW h \in Handlers, Moved(m, h)
  PROVE  /\ iCall' \in [1 .. MaxMessages -> Handlers] /\ iCall'[m] = h
         /\ \A n \in 1 .. MaxMessages : n # m => iCall'[n] = iCall[n]
         /\ \A n \in 1 .. MaxMessages : n <= Len(iMessages) => iCall'[n].base = iCall[n].base
         /\ MaxMessages \in Nat
BY TextsSpoken DEF InboundTypes, Moved

LEMMA HandlersSound ==
  ASSUME InboundInv, Grown, NEW m \in 1 .. MaxMessages, NEW h \in Handlers, Moved(m, h),
         h.at # "none", h.base <= m, m <= Len(iMessages'), Len(iMessages') = Len(iMessages) \/ m = Len(iMessages')
  PROVE  \A n \in 1 .. MaxMessages : HandlerSound(n)'
<1> SUFFICES ASSUME NEW n \in 1 .. MaxMessages PROVE HandlerSound(n)'
  OBVIOUS
<1>1. InboundTypes /\ HandlerSound(n)
  BY DEF InboundInv
<1>2. /\ iCall'[m] = h /\ (n # m => iCall'[n] = iCall[n]) /\ n \in Nat /\ m \in Nat
      /\ Len(iMessages) \in Nat /\ Len(iMessages') \in Nat /\ Len(iMessages) <= Len(iMessages')
      /\ Len(iMessages') <= Len(iMessages) + 1
  BY <1>1, MovedFacts, GrownFacts
<1>3. CASE n = m
  BY <1>2, <1>3 DEF HandlerSound
<1>4. CASE n # m
  <2>1. n <= Len(iMessages) <=> n <= Len(iMessages')
    BY <1>2, <1>4
  <2> QED
    BY <1>1, <1>2, <1>4, <2>1 DEF HandlerSound
<1> QED
  BY <1>3, <1>4

LEMMA ReplyStays ==
  ASSUME InboundTypes, Grown, NEW n \in 1 .. MaxMessages, ReplySound(n), iCall'[n] = iCall[n],
         \/ iOutbox' = iOutbox
         \/ \E o \in Outs : o.call # n /\ iOutbox' = Append(iOutbox, o)
  PROVE  ReplySound(n)'
<1>1. /\ n \in Nat /\ Len(iMessages) \in Nat /\ Len(iMessages') \in Nat /\ Len(iMessages) <= Len(iMessages')
      /\ \A i \in 1 .. Len(iMessages) : iMessages'[i] = iMessages[i]
  BY GrownFacts
<1>2. n <= Len(iMessages) => n <= Len(iMessages') /\ iMessages'[n].chat = iMessages[n].chat
  BY <1>1
<1>3. Inbound!ItemsSent(n)' = Inbound!ItemsSent(n) /\ iOutbox' \in Seq(Outs) /\ Len(iOutbox) \in Nat
      /\ \/ iOutbox' = iOutbox
         \/ /\ Len(iOutbox') = Len(iOutbox) + 1 /\ iOutbox'[Len(iOutbox) + 1].call # n
            /\ \A i \in 1 .. Len(iOutbox) : iOutbox'[i] = iOutbox[i]
  <2>1. iOutbox \in Seq(Outs)
    BY DEF InboundTypes
  <2>2. CASE iOutbox' = iOutbox
    BY <2>1, <2>2, LenProperties DEF Inbound!ItemsSent
  <2>3. CASE \E o \in Outs : o.call # n /\ iOutbox' = Append(iOutbox, o)
    <3>1. PICK o \in Outs : o.call # n /\ iOutbox' = Append(iOutbox, o)
      BY <2>3
    <3>2. /\ iOutbox' \in Seq(Outs) /\ Inbound!ItemsSent(n) \in Seq(Ids)
          /\ Len(iOutbox') = Len(iOutbox) + 1 /\ iOutbox'[Len(iOutbox) + 1] = o /\ Len(iOutbox) \in Nat
          /\ \A i \in 1 .. Len(iOutbox) : iOutbox'[i] = iOutbox[i]
          /\ Inbound!ItemsSent(n)' = Inbound!ItemsSent(n) \o (IF o.call = n THEN o.items ELSE <<>>)
      BY <2>1, <3>1, SentAfter
    <3>3. Inbound!ItemsSent(n)' = Inbound!ItemsSent(n)
      BY <3>1, <3>2, ConcatEmptySeq
    <3> QED
      BY <3>1, <3>2, <3>3
  <2> QED
    BY <2>2, <2>3
<1>4. \A P : (\A i \in 1 .. Len(iOutbox) : iOutbox[i].call = n => iOutbox[i].chat = P)
             => \A i \in 1 .. Len(iOutbox') : iOutbox'[i].call = n => iOutbox'[i].chat = P
  <2> SUFFICES ASSUME NEW P, \A i \in 1 .. Len(iOutbox) : iOutbox[i].call = n => iOutbox[i].chat = P,
                      NEW i \in 1 .. Len(iOutbox'), iOutbox'[i].call = n
               PROVE  iOutbox'[i].chat = P
    OBVIOUS
  <2>1. CASE iOutbox' = iOutbox
    BY <2>1
  <2>2. CASE iOutbox' # iOutbox
    <3>1. i \in 1 .. Len(iOutbox)
      BY <1>3, <2>2
    <3> QED
      BY <1>3, <2>2, <3>1
  <2> QED
    BY <2>1, <2>2
<1>5. (\A i \in 1 .. Len(iOutbox) : iOutbox[i].call # n) => \A i \in 1 .. Len(iOutbox') : iOutbox'[i].call # n
  <2> SUFFICES ASSUME \A i \in 1 .. Len(iOutbox) : iOutbox[i].call # n, NEW i \in 1 .. Len(iOutbox')
               PROVE  iOutbox'[i].call # n
    OBVIOUS
  <2>1. CASE iOutbox' = iOutbox
    BY <2>1
  <2>2. CASE iOutbox' # iOutbox
    <3>1. i = Len(iOutbox) + 1 \/ i \in 1 .. Len(iOutbox)
      BY <1>3, <2>2
    <3> QED
      BY <1>3, <2>2, <3>1
  <2> QED
    BY <2>1, <2>2
<1>6. iCall[n].left # <<>> <=> iCall[n].at = "chunks"
  BY DEF ReplySound
<1>7. iCall[n].at \in {"none", "waiting", "transcribe", "gateway"} =>
          Inbound!ItemsSent(n)' = <<>> /\ \A i \in 1 .. Len(iOutbox') : iOutbox'[i].call # n
  BY <1>3, <1>5 DEF ReplySound
<1>8. iCall[n].at \in {"chunks", "replied"} =>
          n <= Len(iMessages') /\ \A i \in 1 .. Len(iOutbox') : iOutbox'[i].call = n => iOutbox'[i].chat = iMessages'[n].chat
  BY <1>2, <1>4 DEF ReplySound
<1>9. /\ iCall[n].at = "chunks" => Inbound!ItemsSent(n)' \o Inbound!Items(iCall[n].left) = Inbound!Sentences(iCall[n].text)
      /\ iCall[n].at = "replied" => Inbound!ItemsSent(n)' = Inbound!Sentences(iCall[n].text)
  BY <1>3 DEF ReplySound
<1>10. /\ iCall'[n].at = iCall[n].at /\ iCall'[n].left = iCall[n].left /\ iCall'[n].text = iCall[n].text
  OBVIOUS
<1> QED
  BY <1>6, <1>7, <1>8, <1>9, <1>10 DEF ReplySound

\* A handler that has not replied.
LEMMA ReplyWaits ==
  ASSUME InboundTypes, NEW m \in 1 .. MaxMessages, ReplySound(m), iCall[m].at \in {"none", "waiting", "transcribe", "gateway"},
         iCall'[m].left = iCall[m].left,
         \/ iCall'[m].at \in {"waiting", "transcribe", "gateway"} /\ iOutbox' = iOutbox
         \/ iCall'[m].at \in {"refused", "failed"}
  PROVE  ReplySound(m)'
<1>1. iCall[m].left = <<>>
  BY DEF ReplySound
<1>2. iOutbox' = iOutbox => Inbound!ItemsSent(m)' = Inbound!ItemsSent(m)
  BY DEF Inbound!ItemsSent
<1> QED
  BY <1>1, <1>2 DEF ReplySound

(***************************************************************************)
(* Replies, by what was sent and what is left of them.                      *)
(***************************************************************************)

Out(o, m, chat) == o.call = m /\ o.chat = chat

LEMMA SentencesFacts == \A text \in Texts : Inbound!Sentences(text) \in Seq(Ids) /\ Inbound!Chunks(text) \in Seq(Block(Ids))
                                            /\ Inbound!Items(Inbound!Chunks(text)) = Inbound!Sentences(text)
<1> SUFFICES ASSUME NEW text \in Texts
             PROVE  /\ Inbound!Sentences(text) \in Seq(Ids) /\ Inbound!Chunks(text) \in Seq(Block(Ids))
                    /\ Inbound!Items(Inbound!Chunks(text)) = Inbound!Sentences(text)
  OBVIOUS
<1>1. text \in Seq(Spoken(Ids)) /\ Coalesce \in BOOLEAN
  BY TextsSpoken, InboundAssumption
<1>2. Inbound!Chunks(text) = Inbound!Chunked(BreakOn, Coalesce, text)
  BY DEF Inbound!Chunks
<1>3. Inbound!Chunks(text) \in Seq(Block(Ids)) /\ Inbound!Items(Inbound!Chunks(text)) = Inbound!Sentences(text)
  BY <1>1, <1>2, ChunkedFacts
<1>4. Inbound!Items(Inbound!Chunks(text)) \in Seq(Ids)
  BY <1>3, ItemsFacts
<1> QED
  BY <1>3, <1>4

\* The handler of m has the first part of the reply sent, and keeps the rest.
Answered(m, text, chat) ==
    \E h \in Handlers, o \in Outs :
        /\ iCall' = [iCall EXCEPT ![m] = h] /\ iOutbox' = Append(iOutbox, o)
        /\ Out(o, m, chat) /\ h.base = iCall[m].base /\ h.text = text
        /\ \/ h.at = "chunks" /\ h.left # <<>> /\ o.items \o Inbound!Items(h.left) = Inbound!Sentences(text)
           \/ h.at = "replied" /\ h.left = iCall[m].left /\ o.items = Inbound!Sentences(text)

LEMMA DispatchedCases ==
  ASSUME InboundTypes, NEW m \in 1 .. MaxMessages, NEW text \in Texts, NEW chat \in Inbound!Chats,
         Inbound!Dispatched(iCall, m, text, chat)
  PROVE  Answered(m, text, chat)
<1> DEFINE chunks == Inbound!Chunks(text)
<1>1. /\ Inbound!Sentences(text) \in Seq(Ids) /\ chunks \in Seq(Block(Ids)) /\ Inbound!Items(chunks) = Inbound!Sentences(text)
      /\ text \in Seq(Spoken(Ids))
  BY SentencesFacts, TextsSpoken
<1>2. iCall \in [1 .. MaxMessages -> Handlers] /\ iCall[m] \in Handlers
  BY DEF InboundTypes
<1>3. Inbound!Dispatched(iCall, m, text, chat) <=>
         IF Len(chunks) <= 1
         THEN /\ iOutbox' = Append(iOutbox, [chat |-> chat, call |-> m, items |-> Inbound!Sentences(text)])
              /\ iCall' = [iCall EXCEPT ![m].at = "replied", ![m].text = text]
         ELSE /\ iOutbox' = Append(iOutbox, [chat |-> chat, call |-> m, items |-> chunks[1].items])
              /\ iCall' = [iCall EXCEPT ![m].at = "chunks", ![m].text = text, ![m].left = Tail(chunks)]
  BY DEF Inbound!Dispatched, Inbound!Out
<1> HIDE DEF chunks
<1>4. CASE Len(chunks) <= 1
  <2> DEFINE h == [iCall[m] EXCEPT !.at = "replied", !.text = text]
             o == [chat |-> chat, call |-> m, items |-> Inbound!Sentences(text)]
  <2>1. h \in Handlers /\ h.at = "replied" /\ h.text = text /\ h.base = iCall[m].base /\ h.left = iCall[m].left
    BY <1>1, <1>2 DEF Handlers, Stages
  <2>2. iCall' = [iCall EXCEPT ![m] = h] /\ iOutbox' = Append(iOutbox, o)
    BY <1>2, <1>3, <1>4
  <2>3. o \in Outs /\ Out(o, m, chat) /\ o.items = Inbound!Sentences(text)
    BY <1>1 DEF Outs, Out
  <2> HIDE DEF h, o
  <2> QED
    BY <2>1, <2>2, <2>3 DEF Answered
<1>5. CASE ~(Len(chunks) <= 1)
  <2>1. chunks # <<>>
    BY <1>1, <1>5, EmptySeq
  <2>2. /\ chunks[1] \in Block(Ids) /\ Tail(chunks) \in Seq(Block(Ids)) /\ Len(Tail(chunks)) = Len(chunks) - 1
        /\ Len(chunks) \in Nat \ {0}
        /\ Inbound!Items(chunks) = chunks[1].items \o Inbound!Items(Tail(chunks))
    BY <1>1, <2>1, ItemsHead
  <2>3. Tail(chunks) # <<>>
    <3>1. Len(chunks) - 1 # 0
      BY <1>5, <2>2
    <3> QED
      BY <2>2, <3>1, EmptySeq
  <2> DEFINE h == [iCall[m] EXCEPT !.at = "chunks", !.text = text, !.left = Tail(chunks)]
             o == [chat |-> chat, call |-> m, items |-> chunks[1].items]
  <2>4. h \in Handlers /\ h.at = "chunks" /\ h.text = text /\ h.base = iCall[m].base /\ h.left = Tail(chunks)
    BY <1>1, <1>2, <2>2 DEF Handlers, Stages
  <2>5. iCall' = [iCall EXCEPT ![m] = h] /\ iOutbox' = Append(iOutbox, o)
    BY <1>2, <1>3, <1>5
  <2>6. o \in Outs /\ Out(o, m, chat) /\ o.items = chunks[1].items
    BY <2>2 DEF Outs, Out, Block
  <2>7. o.items \o Inbound!Items(h.left) = Inbound!Sentences(text)
    BY <1>1, <2>2, <2>4, <2>6
  <2> HIDE DEF h, o
  <2> QED
    BY <2>3, <2>4, <2>5, <2>6, <2>7 DEF Answered
<1> QED
  BY <1>4, <1>5

LEMMA NextChunkCases ==
  ASSUME InboundTypes, NEW m \in 1 .. MaxMessages, ReplySound(m), Inbound!NextChunk(m)
  PROVE  \E h \in Handlers, o \in Outs :
            /\ iCall' = [iCall EXCEPT ![m] = h] /\ iOutbox' = Append(iOutbox, o)
            /\ Out(o, m, iMessages[m].chat) /\ h.base = iCall[m].base /\ h.text = iCall[m].text
            /\ h.at \in {"chunks", "replied"} /\ (h.left # <<>> <=> h.at = "chunks")
            /\ o.items \o Inbound!Items(h.left) = Inbound!Items(iCall[m].left)
<1> DEFINE left == iCall[m].left
<1>1. iCall \in [1 .. MaxMessages -> Handlers] /\ iCall[m] \in Handlers /\ iCall[m].at = "chunks" /\ left # <<>>
      /\ left \in Seq(Block(Ids))
  BY DEF InboundTypes, Inbound!NextChunk, ReplySound, Handlers
<1>2. /\ iOutbox' = Append(iOutbox, [chat |-> iMessages[m].chat, call |-> m, items |-> Head(left).items])
      /\ iCall' = [iCall EXCEPT ![m].left = Tail(left), ![m].at = IF Len(left) = 1 THEN "replied" ELSE "chunks"]
  BY DEF Inbound!NextChunk, Inbound!Out, Inbound!Chat
<1>3. /\ left[1] \in Block(Ids) /\ Head(left) = left[1] /\ Tail(left) \in Seq(Block(Ids)) /\ Len(Tail(left)) = Len(left) - 1
      /\ Len(left) \in Nat \ {0}
      /\ Inbound!Items(left) = left[1].items \o Inbound!Items(Tail(left))
  BY <1>1, ItemsHead
<1>4. Tail(left) # <<>> <=> Len(left) # 1
  <2>1. PICK u \in Seq(Block(Ids)), n \in Nat \ {0} : u = Tail(left) /\ n = Len(left)
    BY <1>3
  <2>2. Len(u) = 0 <=> u = <<>>
    BY EmptySeq
  <2> QED
    BY <1>3, <2>1, <2>2
<1>5. m <= Len(iMessages) /\ iMessages[m].chat \in Inbound!Chats
  <2>1. m <= Len(iMessages) /\ iMessages \in Seq(Kinds \cup Own)
    BY <1>1 DEF ReplySound, InboundTypes
  <2>2. iMessages[m] \in Kinds \cup Own
    BY <2>1, ElementOfSeq, LenProperties
  <2> QED
    BY <2>1, <2>2 DEF Own, Inbound!Chats
<1> DEFINE h == [iCall[m] EXCEPT !.left = Tail(left), !.at = IF Len(left) = 1 THEN "replied" ELSE "chunks"]
           o == [chat |-> iMessages[m].chat, call |-> m, items |-> Head(left).items]
<1>6. /\ h \in Handlers /\ h.base = iCall[m].base /\ h.text = iCall[m].text /\ h.left = Tail(left)
      /\ h.at = IF Len(left) = 1 THEN "replied" ELSE "chunks"
  BY <1>1, <1>3 DEF Handlers, Stages
<1>7. iCall' = [iCall EXCEPT ![m] = h] /\ iOutbox' = Append(iOutbox, o)
  BY <1>1, <1>2
<1>8. o \in Outs /\ Out(o, m, iMessages[m].chat) /\ o.items = left[1].items
  BY <1>3, <1>5 DEF Outs, Out, Block
<1> HIDE DEF h, o
<1> QED
  BY <1>3, <1>4, <1>6, <1>7, <1>8

\* Its first message, or its next.
LEMMA ReplyBegins ==
  ASSUME InboundTypes, NEW m \in 1 .. MaxMessages, ReplySound(m), iCall[m].at \in {"none", "gateway"},
         NEW h \in Handlers, NEW o \in Outs, iCall'[m] = h, iOutbox' = Append(iOutbox, o),
         m <= Len(iMessages'), Out(o, m, iMessages'[m].chat),
         \/ h.at = "chunks" /\ h.left # <<>> /\ o.items \o Inbound!Items(h.left) = Inbound!Sentences(h.text)
         \/ h.at = "replied" /\ h.left = iCall[m].left /\ o.items = Inbound!Sentences(h.text)
  PROVE  ReplySound(m)'
<1>1. /\ Inbound!ItemsSent(m) = <<>> /\ (\A i \in 1 .. Len(iOutbox) : iOutbox[i].call # m) /\ iCall[m].left = <<>>
  BY DEF ReplySound
<1>2. /\ iOutbox' \in Seq(Outs) /\ Len(iOutbox) \in Nat
      /\ Len(iOutbox') = Len(iOutbox) + 1 /\ iOutbox'[Len(iOutbox) + 1] = o
      /\ \A i \in 1 .. Len(iOutbox) : iOutbox'[i] = iOutbox[i]
      /\ Inbound!ItemsSent(m)' = Inbound!ItemsSent(m) \o (IF o.call = m THEN o.items ELSE <<>>)
  BY SentAfter DEF InboundTypes
<1>3. o.items \in Seq(Ids)
  BY DEF Outs
<1>4. Inbound!ItemsSent(m)' = o.items
  <2>1. Inbound!ItemsSent(m)' = <<>> \o o.items
    BY <1>1, <1>2 DEF Out
  <2> QED
    BY <1>3, <2>1, ConcatEmptySeq
<1>5. \A i \in 1 .. Len(iOutbox') : iOutbox'[i].call = m => iOutbox'[i].chat = iMessages'[m].chat
  <2> SUFFICES ASSUME NEW i \in 1 .. Len(iOutbox'), iOutbox'[i].call = m PROVE iOutbox'[i].chat = iMessages'[m].chat
    OBVIOUS
  <2>1. i = Len(iOutbox) + 1 \/ i \in 1 .. Len(iOutbox)
    BY <1>2
  <2> QED
    BY <1>1, <1>2, <2>1 DEF Out
<1>6. h.left # <<>> <=> h.at = "chunks"
  BY <1>1
<1> QED
  BY <1>4, <1>5, <1>6 DEF ReplySound

LEMMA ReplyGoesOn ==
  ASSUME InboundTypes, NEW m \in 1 .. MaxMessages, ReplySound(m), iCall[m].at = "chunks",
         NEW h \in Handlers, NEW o \in Outs, iCall'[m] = h, iOutbox' = Append(iOutbox, o), iMessages' = iMessages,
         Out(o, m, iMessages[m].chat), h.text = iCall[m].text,
         h.at \in {"chunks", "replied"}, h.left # <<>> <=> h.at = "chunks",
         o.items \o Inbound!Items(h.left) = Inbound!Items(iCall[m].left)
  PROVE  ReplySound(m)'
<1>1. /\ Inbound!ItemsSent(m) \o Inbound!Items(iCall[m].left) = Inbound!Sentences(iCall[m].text)
      /\ m <= Len(iMessages) /\ \A i \in 1 .. Len(iOutbox) : iOutbox[i].call = m => iOutbox[i].chat = iMessages[m].chat
  BY DEF ReplySound
<1>2. /\ iOutbox' \in Seq(Outs) /\ Len(iOutbox) \in Nat /\ Inbound!ItemsSent(m) \in Seq(Ids)
      /\ Len(iOutbox') = Len(iOutbox) + 1 /\ iOutbox'[Len(iOutbox) + 1] = o
      /\ \A i \in 1 .. Len(iOutbox) : iOutbox'[i] = iOutbox[i]
      /\ Inbound!ItemsSent(m)' = Inbound!ItemsSent(m) \o (IF o.call = m THEN o.items ELSE <<>>)
  BY SentAfter DEF InboundTypes
<1>3. o.items \in Seq(Ids) /\ Inbound!Items(h.left) \in Seq(Ids)
  BY ItemsFacts DEF Outs, Handlers
<1>4. PICK a \in Seq(Ids), b \in Seq(Ids), c \in Seq(Ids) : a = Inbound!ItemsSent(m) /\ b = o.items /\ c = Inbound!Items(h.left)
  BY <1>2, <1>3
<1>5. Inbound!ItemsSent(m)' = a \o b
  BY <1>2, <1>4 DEF Out
<1>6. Inbound!ItemsSent(m)' \o Inbound!Items(h.left) = Inbound!Sentences(h.text)
  <2>1. (a \o b) \o c = a \o (b \o c)
    BY ConcatAssociative, SMTT(30)
  <2> QED
    BY <1>1, <1>4, <1>5, <2>1
<1>7. h.at = "replied" => Inbound!ItemsSent(m)' = Inbound!Sentences(h.text)
  <2> SUFFICES ASSUME h.at = "replied" PROVE Inbound!ItemsSent(m)' = Inbound!Sentences(h.text)
    OBVIOUS
  <2>1. Inbound!Items(h.left) = <<>>
    BY ItemsOfNone
  <2>2. a \o b \in Seq(Ids)
    BY ConcatProperties
  <2> QED
    BY <1>5, <1>6, <2>1, <2>2, ConcatEmptySeq
<1>8. \A i \in 1 .. Len(iOutbox') : iOutbox'[i].call = m => iOutbox'[i].chat = iMessages[m].chat
  <2> SUFFICES ASSUME NEW i \in 1 .. Len(iOutbox'), iOutbox'[i].call = m PROVE iOutbox'[i].chat = iMessages[m].chat
    OBVIOUS
  <2>1. i = Len(iOutbox) + 1 \/ i \in 1 .. Len(iOutbox)
    BY <1>2
  <2> QED
    BY <1>1, <1>2, <2>1 DEF Out
<1> QED
  BY <1>1, <1>6, <1>7, <1>8 DEF ReplySound

LEMMA HandledCases ==
  ASSUME InboundTypes, NEW m \in 1 .. MaxMessages, NEW all \in Seq(Kinds \cup Own), NEW base \in 1 .. MaxMessages,
         base <= Len(all), NEW texts \in Seq(1 .. MaxMessages), Inbound!Handled(iCall, all, m, base, texts)
  PROVE  \E h \in Handlers :
            /\ iCall' = [iCall EXCEPT ![m] = h] /\ h.base = base /\ h.left = iCall[m].left
            /\ \/ /\ h.at = "refused" /\ iHeard' = iHeard
                  /\ iOutbox' = iOutbox \/ \E o \in Outs : o.call = m /\ iOutbox' = Append(iOutbox, o)
               \/ h.at = "transcribe" /\ all[base].sender \in Allowed /\ iHeard' = iHeard /\ iOutbox' = iOutbox
               \/ h.at = "gateway" /\ all[base].sender \in Allowed /\ iHeard' = iHeard \o texts /\ iOutbox' = iOutbox
<1>1. iCall \in [1 .. MaxMessages -> Handlers] /\ iCall[m] \in Handlers
  BY DEF InboundTypes
<1>2. all[base].chat \in Inbound!Chats
  <2>1. all[base] \in Kinds \cup Own
    BY ElementOfSeq, LenProperties
  <2> QED
    BY <2>1 DEF Own, Inbound!Chats
<1>3. <<"challenge">> \in Seq(Ids)
  <2>1. "challenge" \in Ids
    BY DEF Ids
  <2> HIDE DEF Ids
  <2> QED
    BY <2>1
<1> DEFINE d == [iCall EXCEPT ![m].base = base, ![m].texts = texts]
           H(at) == [iCall[m] EXCEPT !.at = at, !.base = base, !.texts = texts]
<1>4. ASSUME NEW at \in Stages
      PROVE  /\ H(at) \in Handlers /\ H(at).at = at /\ H(at).base = base /\ H(at).left = iCall[m].left
             /\ [d EXCEPT ![m].at = at] = [iCall EXCEPT ![m] = H(at)]
  <2>1. base \in 0 .. MaxMessages
    OBVIOUS
  <2>2. H(at) \in Handlers /\ H(at).at = at /\ H(at).base = base /\ H(at).left = iCall[m].left
    BY <1>1, <2>1 DEF Handlers
  <2>3. [d EXCEPT ![m].at = at] = [iCall EXCEPT ![m] = H(at)]
    BY <1>1 DEF Handlers
  <2> QED
    BY <2>2, <2>3
<1>5. CASE /\ iCall' = [d EXCEPT ![m].at = "refused"]
           /\ iOutbox' \in {iOutbox, Append(iOutbox, Inbound!Out(all[base].chat, m, <<"challenge">>))}
           /\ iHeard' = iHeard
  <2>1. "refused" \in Stages
    BY DEF Stages
  <2>2. Inbound!Out(all[base].chat, m, <<"challenge">>) \in Outs /\ Inbound!Out(all[base].chat, m, <<"challenge">>).call = m
    BY <1>2, <1>3 DEF Outs, Inbound!Out
  <2> HIDE DEF H, d
  <2> QED
    BY <1>4, <1>5, <2>1, <2>2
<1>6. CASE /\ iCall' = [d EXCEPT ![m].at = "transcribe"] /\ all[base].sender \in Allowed
           /\ iHeard' = iHeard /\ iOutbox' = iOutbox
  <2>1. "transcribe" \in Stages
    BY DEF Stages
  <2> HIDE DEF H, d
  <2> QED
    BY <1>4, <1>6, <2>1
<1>7. CASE /\ iCall' = [d EXCEPT ![m].at = "gateway"] /\ all[base].sender \in Allowed
           /\ iHeard' = iHeard \o texts /\ iOutbox' = iOutbox
  <2>1. "gateway" \in Stages
    BY DEF Stages
  <2> HIDE DEF H, d
  <2> QED
    BY <1>4, <1>7, <2>1
<1> QED
  BY <1>5, <1>6, <1>7 DEF Inbound!Handled, Inbound!HeardOf

(***************************************************************************)
(* Windows, and what was heard of them.                                     *)
(***************************************************************************)

\* Windows that were open already, or open with a message that was not there.
OldBase(c) ==
    iWindow'[c] # <<>> =>
        \/ iWindow[c] # <<>> /\ iWindow'[c][1].base = iWindow[c][1].base
        \/ iWindow'[c][1].base > Len(iMessages)

LEMMA BasesStay ==
  ASSUME InboundInv, Grown, NEW m \in 1 .. MaxMessages, NEW h \in Handlers, Moved(m, h)
  PROVE  /\ Len(iMessages) \in Nat /\ Len(iMessages) <= MaxMessages /\ MaxMessages \in Nat /\ Len(iMessages') \in Nat
         /\ Len(iMessages) <= Len(iMessages') /\ Len(iHeard) \in Nat
         /\ \A b : Admitted(b) => Admitted(b)' /\ b \in 1 .. Len(iMessages) /\ b \in 1 .. MaxMessages
         /\ \A i \in 1 .. Len(iHeard) : /\ iHeard[i] \in 1 .. Len(iMessages) /\ iHeard[i] \in 1 .. MaxMessages
                                        /\ iCall'[iHeard[i]].base = iCall[iHeard[i]].base
                                        /\ Admitted(iCall[iHeard[i]].base)
         /\ \A n \in 1 .. Len(iMessages) : n \in 1 .. MaxMessages /\ iCall'[n].base = iCall[n].base
<1>1. InboundTypes /\ HeardSound
  BY DEF InboundInv
<1>2. /\ Len(iMessages) \in Nat /\ Len(iMessages) <= MaxMessages /\ MaxMessages \in Nat /\ Len(iMessages') \in Nat
      /\ Len(iMessages) <= Len(iMessages') /\ \A i \in 1 .. Len(iMessages) : iMessages'[i] = iMessages[i]
  BY <1>1, GrownFacts, TextsSpoken DEF InboundTypes
<1>3. \A n \in 1 .. MaxMessages : n <= Len(iMessages) => iCall'[n].base = iCall[n].base
  BY <1>1, MovedFacts
<1>4. \A n \in 1 .. Len(iMessages) : n \in 1 .. MaxMessages /\ iCall'[n].base = iCall[n].base
  BY <1>2, <1>3
<1>5. \A b : Admitted(b) => Admitted(b)' /\ b \in 1 .. Len(iMessages) /\ b \in 1 .. MaxMessages
  BY <1>2 DEF Admitted
<1>6. Len(iHeard) \in Nat /\ \A i \in 1 .. Len(iHeard) : iHeard[i] \in 1 .. MaxMessages
  <2>1. iHeard \in Seq(1 .. MaxMessages)
    BY <1>1 DEF InboundTypes
  <2> QED
    BY <2>1, ElementOfSeq, LenProperties
<1>7. ASSUME NEW i \in 1 .. Len(iHeard)
      PROVE  /\ iHeard[i] \in 1 .. Len(iMessages) /\ iHeard[i] \in 1 .. MaxMessages
             /\ iCall'[iHeard[i]].base = iCall[iHeard[i]].base /\ Admitted(iCall[iHeard[i]].base)
  <2>1. iHeard[i] <= Len(iMessages) /\ Admitted(iCall[iHeard[i]].base)
    BY <1>1 DEF HeardSound
  <2>2. iHeard[i] \in 1 .. Len(iMessages)
    BY <1>2, <1>6, <2>1
  <2> QED
    BY <1>4, <2>1, <2>2
<1> QED
  BY <1>2, <1>4, <1>5, <1>6, <1>7

LEMMA WindowTypes ==
  ASSUME InboundTypes, NEW c \in Inbound!Chats, iWindow[c] # <<>>
  PROVE  /\ iWindow[c][1] \in Windows /\ iWindow[c] = <<iWindow[c][1]>>
         /\ iWindow[c][1].base \in 1 .. MaxMessages /\ iWindow[c][1].owner \in 1 .. MaxMessages
         /\ iWindow[c][1].texts \in Seq(1 .. MaxMessages) /\ Len(iWindow[c][1].texts) \in Nat
         /\ \A i \in 1 .. Len(iWindow[c][1].texts) : iWindow[c][1].texts[i] \in 1 .. MaxMessages
<1>1. PICK w \in Windows : iWindow[c] = <<w>>
  BY DEF InboundTypes
<1>2. iWindow[c][1] = w
  BY <1>1
<1>3. w.base \in 1 .. MaxMessages /\ w.owner \in 1 .. MaxMessages /\ w.texts \in Seq(1 .. MaxMessages)
  BY DEF Windows
<1>4. Len(w.texts) \in Nat /\ \A i \in 1 .. Len(w.texts) : w.texts[i] \in 1 .. MaxMessages
  BY <1>3, ElementOfSeq, LenProperties
<1> QED
  BY <1>1, <1>2, <1>3, <1>4

LEMMA WindowStays ==
  ASSUME InboundInv, Grown, NEW m \in 1 .. MaxMessages, NEW h \in Handlers, Moved(m, h), NEW c \in Inbound!Chats,
         iWindow'[c] # <<>> => iWindow'[c] = iWindow[c] /\ iWindow[c][1].owner # m
  PROVE  WindowSound(c)'
<1> SUFFICES ASSUME iWindow'[c] # <<>> PROVE WindowSound(c)'
  BY DEF WindowSound
<1> DEFINE w == iWindow[c][1]
<1>1. InboundTypes /\ WindowSound(c)
  BY DEF InboundInv
<1>2. iWindow'[c] = iWindow[c] /\ iWindow[c] # <<>> /\ w.owner # m
  OBVIOUS
<1>3. /\ w.base \in 1 .. MaxMessages /\ w.owner \in 1 .. MaxMessages
      /\ Len(w.texts) \in Nat /\ \A i \in 1 .. Len(w.texts) : w.texts[i] \in 1 .. MaxMessages
  BY <1>1, <1>2, WindowTypes
<1> HIDE DEF w
<1>4. /\ w.base <= w.owner /\ w.owner <= Len(iMessages) /\ iMessages[w.base].chat = c
      /\ iCall[w.owner].at = "waiting" /\ iCall[w.owner].base = w.base /\ iCall[w.base].base = w.base
      /\ \A i \in 1 .. Len(w.texts) : /\ w.base <= w.texts[i] /\ w.texts[i] <= w.owner
                                      /\ iCall[w.texts[i]].base = w.base
      /\ \A i, j \in 1 .. Len(w.texts) : w.texts[i] = w.texts[j] => i = j
  BY <1>1, <1>2 DEF WindowSound, w
<1>5. /\ Len(iMessages) \in Nat /\ Len(iMessages') \in Nat /\ Len(iMessages) <= Len(iMessages')
      /\ \A n \in 1 .. Len(iMessages) : iCall'[n].base = iCall[n].base
  BY BasesStay
<1>6. \A i \in 1 .. Len(iMessages) : iMessages'[i] = iMessages[i]
  BY <1>1, GrownFacts
<1>7. iCall'[w.owner] = iCall[w.owner]
  BY <1>1, <1>2, <1>3, MovedFacts
<1>8. w.base \in 1 .. Len(iMessages) /\ w.owner <= Len(iMessages')
  BY <1>3, <1>4, <1>5
<1>9. \A i \in 1 .. Len(w.texts) : iCall'[w.texts[i]].base = w.base
  <2> SUFFICES ASSUME NEW i \in 1 .. Len(w.texts) PROVE iCall'[w.texts[i]].base = w.base
    OBVIOUS
  <2>1. w.texts[i] \in 1 .. Len(iMessages)
    BY <1>3, <1>4, <1>5
  <2> QED
    BY <1>4, <1>5, <2>1
<1> QED
  BY <1>2, <1>4, <1>5, <1>6, <1>7, <1>8, <1>9 DEF WindowSound, w

LEMMA HeardAsBefore ==
  ASSUME InboundInv, Grown, NEW m \in 1 .. MaxMessages, NEW h \in Handlers, Moved(m, h), h.at # "transcribe",
         iHeard' = iHeard, \A c \in Inbound!Chats : OldBase(c)
  PROVE  HeardSound'
<1>1. InboundTypes /\ HeardSound
  BY DEF InboundInv
<1>2. /\ Len(iMessages) \in Nat /\ Len(iMessages) <= MaxMessages /\ MaxMessages \in Nat /\ Len(iMessages') \in Nat
      /\ Len(iMessages) <= Len(iMessages') /\ Len(iHeard) \in Nat
      /\ \A b : Admitted(b) => Admitted(b)' /\ b \in 1 .. Len(iMessages) /\ b \in 1 .. MaxMessages
      /\ \A i \in 1 .. Len(iHeard) : /\ iHeard[i] \in 1 .. Len(iMessages) /\ iHeard[i] \in 1 .. MaxMessages
                                     /\ iCall'[iHeard[i]].base = iCall[iHeard[i]].base
                                     /\ Admitted(iCall[iHeard[i]].base)
      /\ \A n \in 1 .. Len(iMessages) : n \in 1 .. MaxMessages /\ iCall'[n].base = iCall[n].base
  BY BasesStay
<1>3. ASSUME NEW n \in 1 .. MaxMessages, iCall'[n].at = "transcribe"
      PROVE  n # m /\ iCall'[n] = iCall[n] /\ iCall[n].at = "transcribe"
             /\ Admitted(iCall[n].base) /\ iCall'[iCall[n].base].base = iCall[n].base
  <2>1. n # m /\ iCall'[n] = iCall[n]
    BY <1>1, <1>3, MovedFacts
  <2>2. Admitted(iCall[n].base) /\ iCall[iCall[n].base].base = iCall[n].base
    BY <1>1, <1>3, <2>1 DEF HeardSound
  <2> QED
    BY <1>2, <1>3, <2>1, <2>2
<1>4. ASSUME NEW i \in 1 .. Len(iHeard')
      PROVE  iHeard'[i] <= Len(iMessages') /\ Admitted(iCall[iHeard[i]].base)'
  <2>1. i \in 1 .. Len(iHeard)
    OBVIOUS
  <2>2. iHeard[i] \in 1 .. Len(iMessages) /\ iCall'[iHeard[i]].base = iCall[iHeard[i]].base
        /\ Admitted(iCall[iHeard[i]].base)
    BY <1>2, <2>1
  <2>3. \A b : Admitted(b) => Admitted(b)'
    BY <1>2
  <2> QED
    BY <1>2, <2>2, <2>3 DEF Admitted
<1>5. \A i, j \in 1 .. Len(iHeard') : iHeard'[i] = iHeard'[j] => i = j
  BY <1>1 DEF HeardSound
<1>6. ASSUME NEW c \in Inbound!Chats, iWindow'[c] # <<>>
      PROVE  /\ \A i \in 1 .. Len(iHeard') : iCall'[iHeard'[i]].base # iWindow'[c][1].base
             /\ \A n \in 1 .. MaxMessages : iCall'[n].at = "transcribe" => iCall'[n].base # iWindow'[c][1].base
  <2>1. CASE iWindow[c] # <<>> /\ iWindow'[c][1].base = iWindow[c][1].base
    BY <1>1, <1>2, <1>3, <2>1 DEF HeardSound
  <2>2. CASE iWindow'[c][1].base > Len(iMessages)
    <3>1. \A b \in 1 .. Len(iMessages) : b # iWindow'[c][1].base
      BY <1>2, <2>2
    <3>2. \A i \in 1 .. Len(iHeard) : iCall'[iHeard[i]].base \in 1 .. Len(iMessages)
      BY <1>2
    <3>3. \A n \in 1 .. MaxMessages : iCall'[n].at = "transcribe" => iCall'[n].base \in 1 .. Len(iMessages)
      BY <1>2, <1>3
    <3> QED
      BY <3>1, <3>2, <3>3
  <2> QED
    BY <1>6, <2>1, <2>2 DEF OldBase
<1>7. ASSUME NEW n \in 1 .. MaxMessages, iCall'[n].at = "transcribe"
      PROVE  /\ Admitted(iCall[n].base)' /\ iCall'[iCall'[n].base].base = iCall'[n].base
             /\ \A i \in 1 .. Len(iHeard') : iCall'[iHeard'[i]].base # iCall'[n].base
             /\ \A k \in 1 .. MaxMessages : iCall'[k].at = "transcribe" /\ iCall'[k].base = iCall'[n].base => k = n
  <2>1. n # m /\ iCall'[n] = iCall[n] /\ iCall[n].at = "transcribe"
        /\ Admitted(iCall[n].base) /\ iCall'[iCall[n].base].base = iCall[n].base
    BY <1>3, <1>7
  <2>2. Admitted(iCall[n].base)'
    <3>1. \A b : Admitted(b) => Admitted(b)'
      BY <1>2
    <3> QED
      BY <2>1, <3>1 DEF Admitted
  <2>3. \A i \in 1 .. Len(iHeard') : iCall'[iHeard'[i]].base # iCall'[n].base
    BY <1>1, <1>2, <2>1 DEF HeardSound
  <2>4. \A k \in 1 .. MaxMessages : iCall'[k].at = "transcribe" /\ iCall'[k].base = iCall'[n].base => k = n
    BY <1>1, <1>3, <2>1 DEF HeardSound
  <2> QED
    BY <2>1, <2>2, <2>3, <2>4
<1> QED
  BY <1>4, <1>5, <1>6, <1>7 DEF HeardSound

\* No open window has it, nobody was heard or waits for a transcription with it.
Fresh(b) ==
    /\ \A i \in 1 .. Len(iHeard) : iCall[iHeard[i]].base # b
    /\ \A n \in 1 .. MaxMessages : iCall[n].at = "transcribe" => iCall[n].base # b
    /\ \A c \in Inbound!Chats : iWindow'[c] # <<>> => iWindow'[c][1].base # b

LEMMA OldOnes ==
  ASSUME InboundInv, Grown, NEW m \in 1 .. MaxMessages, NEW h \in Handlers, Moved(m, h),
         \A c \in Inbound!Chats : OldBase(c)
  PROVE  /\ \A n \in 1 .. MaxMessages : iCall'[n].at = "transcribe" /\ n # m =>
               /\ iCall'[n] = iCall[n] /\ iCall[n].at = "transcribe"
               /\ Admitted(iCall[n].base)' /\ iCall'[iCall'[n].base].base = iCall'[n].base
               /\ \A i \in 1 .. Len(iHeard) : iCall'[iHeard[i]].base # iCall'[n].base
               /\ \A k \in 1 .. MaxMessages : k # m /\ iCall'[k].at = "transcribe" /\ iCall'[k].base = iCall'[n].base => k = n
         /\ \A c \in Inbound!Chats : iWindow'[c] # <<>> =>
               /\ \A i \in 1 .. Len(iHeard) : iCall'[iHeard[i]].base # iWindow'[c][1].base
               /\ \A n \in 1 .. MaxMessages : n # m /\ iCall'[n].at = "transcribe" => iCall'[n].base # iWindow'[c][1].base
<1>1. InboundTypes /\ HeardSound
  BY DEF InboundInv
<1>2. /\ Len(iMessages) \in Nat /\ Len(iMessages) <= MaxMessages /\ MaxMessages \in Nat
      /\ \A b : Admitted(b) => Admitted(b)' /\ b \in 1 .. Len(iMessages) /\ b \in 1 .. MaxMessages
      /\ \A i \in 1 .. Len(iHeard) : iCall'[iHeard[i]].base = iCall[iHeard[i]].base /\ Admitted(iCall[iHeard[i]].base)
      /\ \A n \in 1 .. Len(iMessages) : n \in 1 .. MaxMessages /\ iCall'[n].base = iCall[n].base
  BY BasesStay
<1>3. ASSUME NEW n \in 1 .. MaxMessages, iCall'[n].at = "transcribe", n # m
      PROVE  /\ iCall'[n] = iCall[n] /\ iCall[n].at = "transcribe" /\ Admitted(iCall[n].base)
             /\ Admitted(iCall[n].base)' /\ iCall'[iCall'[n].base].base = iCall'[n].base
  <2>1. iCall'[n] = iCall[n]
    BY <1>1, <1>3, MovedFacts
  <2>2. Admitted(iCall[n].base) /\ iCall[iCall[n].base].base = iCall[n].base
    BY <1>1, <1>3, <2>1 DEF HeardSound
  <2>3. Admitted(iCall[n].base)' /\ iCall[n].base \in 1 .. Len(iMessages)
    <3>1. PICK b : b = iCall[n].base /\ Admitted(b)
      BY <2>2
    <3>2. Admitted(b)' /\ b \in 1 .. Len(iMessages)
      BY <1>2, <3>1
    <3> QED
      BY <2>1, <3>1, <3>2 DEF Admitted
  <2> QED
    BY <1>2, <1>3, <2>1, <2>2, <2>3 DEF Admitted
<1>4. ASSUME NEW n \in 1 .. MaxMessages, iCall'[n].at = "transcribe", n # m
      PROVE  /\ \A i \in 1 .. Len(iHeard) : iCall'[iHeard[i]].base # iCall'[n].base
             /\ \A k \in 1 .. MaxMessages : k # m /\ iCall'[k].at = "transcribe" /\ iCall'[k].base = iCall'[n].base => k = n
  <2>1. iCall'[n] = iCall[n] /\ iCall[n].at = "transcribe"
    BY <1>3, <1>4
  <2>2. \A i \in 1 .. Len(iHeard) : iCall'[iHeard[i]].base # iCall'[n].base
    BY <1>1, <1>2, <2>1 DEF HeardSound
  <2>3. ASSUME NEW k \in 1 .. MaxMessages, k # m, iCall'[k].at = "transcribe", iCall'[k].base = iCall'[n].base PROVE k = n
    <3>1. iCall'[k] = iCall[k] /\ iCall[k].at = "transcribe" /\ iCall[k].base = iCall[n].base
      BY <1>3, <2>1, <2>3
    <3> QED
      BY <1>1, <2>1, <3>1 DEF HeardSound
  <2> QED
    BY <2>2, <2>3
<1>5. ASSUME NEW c \in Inbound!Chats, iWindow'[c] # <<>>
      PROVE  /\ \A i \in 1 .. Len(iHeard) : iCall'[iHeard[i]].base # iWindow'[c][1].base
             /\ \A n \in 1 .. MaxMessages : n # m /\ iCall'[n].at = "transcribe" => iCall'[n].base # iWindow'[c][1].base
  <2>1. CASE iWindow[c] # <<>> /\ iWindow'[c][1].base = iWindow[c][1].base
    BY <1>1, <1>2, <1>3, <2>1 DEF HeardSound
  <2>2. CASE iWindow'[c][1].base > Len(iMessages)
    <3>1. \A b \in 1 .. Len(iMessages) : b # iWindow'[c][1].base
      BY <1>2, <2>2
    <3>2. \A i \in 1 .. Len(iHeard) : iCall'[iHeard[i]].base \in 1 .. Len(iMessages)
      BY <1>2
    <3>3. \A n \in 1 .. MaxMessages : n # m /\ iCall'[n].at = "transcribe" => iCall'[n].base \in 1 .. Len(iMessages)
      BY <1>2, <1>3
    <3> QED
      BY <3>1, <3>2, <3>3
  <2> QED
    BY <1>5, <2>1, <2>2 DEF OldBase
<1> QED
  BY <1>3, <1>4, <1>5

\* A handler begins to wait for a transcription.
LEMMA HeardWaits ==
  ASSUME InboundInv, Grown, NEW m \in 1 .. MaxMessages, NEW h \in Handlers, Moved(m, h), h.at = "transcribe",
         iHeard' = iHeard, \A c \in Inbound!Chats : OldBase(c),
         Fresh(h.base), Admitted(h.base)', iCall'[h.base].base = h.base
  PROVE  HeardSound'
<1>1. InboundTypes /\ HeardSound
  BY DEF InboundInv
<1>2. /\ Len(iMessages) \in Nat /\ Len(iMessages') \in Nat /\ Len(iMessages) <= Len(iMessages') /\ Len(iHeard) \in Nat
      /\ \A b : Admitted(b) => Admitted(b)' /\ b \in 1 .. Len(iMessages)
      /\ \A i \in 1 .. Len(iHeard) : /\ iHeard[i] \in 1 .. Len(iMessages)
                                     /\ iCall'[iHeard[i]].base = iCall[iHeard[i]].base
                                     /\ Admitted(iCall[iHeard[i]].base)
  BY BasesStay
<1>3. iCall'[m] = h
  BY <1>1, MovedFacts
<1>4. \A i \in 1 .. Len(iHeard) : Admitted(iCall[iHeard[i]].base)'
  <2> SUFFICES ASSUME NEW i \in 1 .. Len(iHeard) PROVE Admitted(iCall[iHeard[i]].base)'
    OBVIOUS
  <2>1. PICK b : b = iCall[iHeard[i]].base /\ Admitted(b)
    BY <1>2
  <2>2. Admitted(b)' /\ b = iCall'[iHeard'[i]].base
    BY <1>2, <2>1
  <2> QED
    BY <2>2 DEF Admitted
<1>5. /\ \A n \in 1 .. MaxMessages : iCall'[n].at = "transcribe" /\ n # m =>
            /\ iCall'[n] = iCall[n] /\ iCall[n].at = "transcribe"
            /\ Admitted(iCall[n].base)' /\ iCall'[iCall'[n].base].base = iCall'[n].base
            /\ \A i \in 1 .. Len(iHeard) : iCall'[iHeard[i]].base # iCall'[n].base
            /\ \A k \in 1 .. MaxMessages : k # m /\ iCall'[k].at = "transcribe" /\ iCall'[k].base = iCall'[n].base => k = n
      /\ \A c \in Inbound!Chats : iWindow'[c] # <<>> =>
            /\ \A i \in 1 .. Len(iHeard) : iCall'[iHeard[i]].base # iWindow'[c][1].base
            /\ \A n \in 1 .. MaxMessages : n # m /\ iCall'[n].at = "transcribe" => iCall'[n].base # iWindow'[c][1].base
  BY OldOnes
<1>6. /\ \A i \in 1 .. Len(iHeard) : iCall'[iHeard[i]].base # h.base
      /\ \A n \in 1 .. MaxMessages : n # m /\ iCall'[n].at = "transcribe" => iCall'[n].base # h.base
      /\ \A c \in Inbound!Chats : iWindow'[c] # <<>> => iWindow'[c][1].base # h.base
  <2>1. \A i \in 1 .. Len(iHeard) : iCall'[iHeard[i]].base # h.base
    BY <1>2 DEF Fresh
  <2>2. \A n \in 1 .. MaxMessages : n # m /\ iCall'[n].at = "transcribe" => iCall'[n].base # h.base
    BY <1>5, Zenon DEF Fresh
  <2>3. \A c \in Inbound!Chats : iWindow'[c] # <<>> => iWindow'[c][1].base # h.base
    BY Zenon DEF Fresh
  <2> QED
    BY <2>1, <2>2, <2>3
<1>7. /\ \A i \in 1 .. Len(iHeard') : iHeard'[i] <= Len(iMessages') /\ Admitted(iCall[iHeard[i]].base)'
      /\ \A i, j \in 1 .. Len(iHeard') : iHeard'[i] = iHeard'[j] => i = j
  BY <1>1, <1>2, <1>4 DEF HeardSound
<1>8. \A c \in Inbound!Chats : iWindow'[c] # <<>> =>
          /\ \A i \in 1 .. Len(iHeard') : iCall'[iHeard'[i]].base # iWindow'[c][1].base
          /\ \A n \in 1 .. MaxMessages : iCall'[n].at = "transcribe" => iCall'[n].base # iWindow'[c][1].base
  BY <1>3, <1>5, <1>6
<1>9. ASSUME NEW n \in 1 .. MaxMessages, iCall'[n].at = "transcribe"
      PROVE  /\ Admitted(iCall[n].base)' /\ iCall'[iCall'[n].base].base = iCall'[n].base
             /\ \A i \in 1 .. Len(iHeard') : iCall'[iHeard'[i]].base # iCall'[n].base
             /\ \A k \in 1 .. MaxMessages : iCall'[k].at = "transcribe" /\ iCall'[k].base = iCall'[n].base => k = n
  <2>1. CASE n = m
    <3>1. Admitted(iCall[n].base)'
      BY <1>3, <2>1 DEF Admitted
    <3> QED
      BY <1>3, <1>6, <2>1, <3>1
  <2>2. CASE n # m
    <3>1. Admitted(iCall[n].base)'
      BY <1>5, <1>9, <2>2 DEF Admitted
    <3> QED
      BY <1>3, <1>5, <1>6, <1>9, <2>2, <3>1
  <2> QED
    BY <2>1, <2>2
<1> QED
  BY <1>7, <1>8, <1>9 DEF HeardSound

\* A handler goes to the gateway with texts of its window.
LEMMA HeardGrows ==
  ASSUME InboundInv, Grown, NEW m \in 1 .. MaxMessages, NEW h \in Handlers, Moved(m, h), h.at = "gateway",
         NEW texts \in Seq(1 .. MaxMessages), iHeard' = iHeard \o texts, \A c \in Inbound!Chats : OldBase(c),
         \A i \in 1 .. Len(iHeard) : iCall[iHeard[i]].base # h.base,
         \A n \in 1 .. MaxMessages : n # m /\ iCall[n].at = "transcribe" => iCall[n].base # h.base,
         \A c \in Inbound!Chats : iWindow'[c] # <<>> => iWindow'[c][1].base # h.base,
         Admitted(h.base)',
         \A i \in 1 .. Len(texts) : texts[i] <= Len(iMessages') /\ iCall'[texts[i]].base = h.base,
         \A i, j \in 1 .. Len(texts) : texts[i] = texts[j] => i = j
  PROVE  HeardSound' /\ iHeard' \in Seq(1 .. MaxMessages)
<1>1. InboundTypes /\ HeardSound
  BY DEF InboundInv
<1>2. /\ Len(iMessages) \in Nat /\ Len(iMessages') \in Nat /\ Len(iMessages) <= Len(iMessages') /\ Len(iHeard) \in Nat
      /\ \A b : Admitted(b) => Admitted(b)' /\ b \in 1 .. Len(iMessages)
      /\ \A i \in 1 .. Len(iHeard) : /\ iHeard[i] \in 1 .. Len(iMessages)
                                     /\ iCall'[iHeard[i]].base = iCall[iHeard[i]].base
                                     /\ Admitted(iCall[iHeard[i]].base)
  BY BasesStay
<1>3. iCall'[m] = h
  BY <1>1, MovedFacts
<1>4. /\ iHeard' \in Seq(1 .. MaxMessages) /\ Len(iHeard') = Len(iHeard) + Len(texts) /\ Len(texts) \in Nat
      /\ \A i \in 1 .. Len(iHeard) : iHeard'[i] = iHeard[i]
      /\ \A i \in 1 .. Len(iHeard') : i \notin 1 .. Len(iHeard) =>
            i - Len(iHeard) \in 1 .. Len(texts) /\ iHeard'[i] = texts[i - Len(iHeard)]
  <2>1. iHeard \in Seq(1 .. MaxMessages)
    BY <1>1 DEF InboundTypes
  <2>2. /\ iHeard' \in Seq(1 .. MaxMessages) /\ Len(iHeard') = Len(iHeard) + Len(texts) /\ Len(texts) \in Nat
        /\ \A i \in 1 .. Len(iHeard) + Len(texts) :
              iHeard'[i] = IF i <= Len(iHeard) THEN iHeard[i] ELSE texts[i - Len(iHeard)]
    BY <2>1, ConcatProperties, LenProperties
  <2> QED
    BY <1>2, <2>2
<1>5. /\ \A n \in 1 .. MaxMessages : iCall'[n].at = "transcribe" /\ n # m =>
            /\ iCall'[n] = iCall[n] /\ iCall[n].at = "transcribe"
            /\ Admitted(iCall[n].base)' /\ iCall'[iCall'[n].base].base = iCall'[n].base
            /\ \A i \in 1 .. Len(iHeard) : iCall'[iHeard[i]].base # iCall'[n].base
            /\ \A k \in 1 .. MaxMessages : k # m /\ iCall'[k].at = "transcribe" /\ iCall'[k].base = iCall'[n].base => k = n
      /\ \A c \in Inbound!Chats : iWindow'[c] # <<>> =>
            /\ \A i \in 1 .. Len(iHeard) : iCall'[iHeard[i]].base # iWindow'[c][1].base
            /\ \A n \in 1 .. MaxMessages : n # m /\ iCall'[n].at = "transcribe" => iCall'[n].base # iWindow'[c][1].base
  BY OldOnes
\* What was heard before, and what is heard now.
<1>6. ASSUME NEW i \in 1 .. Len(iHeard')
      PROVE  \/ i \in 1 .. Len(iHeard) /\ iHeard'[i] = iHeard[i] /\ iCall'[iHeard'[i]].base = iCall[iHeard[i]].base
             \/ i - Len(iHeard) \in 1 .. Len(texts) /\ iHeard'[i] = texts[i - Len(iHeard)] /\ iCall'[iHeard'[i]].base = h.base
  BY <1>2, <1>4
<1>7. ASSUME NEW i \in 1 .. Len(iHeard')
      PROVE  iHeard'[i] <= Len(iMessages') /\ Admitted(iCall[iHeard[i]].base)'
  <2>1. CASE i \in 1 .. Len(iHeard) /\ iHeard'[i] = iHeard[i] /\ iCall'[iHeard'[i]].base = iCall[iHeard[i]].base
    <3>1. PICK b : b = iCall[iHeard[i]].base /\ Admitted(b)
      BY <1>2, <2>1
    <3>2. Admitted(b)' /\ b = iCall'[iHeard'[i]].base
      BY <1>2, <2>1, <3>1
    <3> QED
      BY <1>2, <2>1, <3>2 DEF Admitted
  <2>2. CASE i - Len(iHeard) \in 1 .. Len(texts) /\ iHeard'[i] = texts[i - Len(iHeard)] /\ iCall'[iHeard'[i]].base = h.base
    BY <2>2 DEF Admitted
  <2> QED
    BY <1>6, <2>1, <2>2
<1>8. ASSUME NEW i \in 1 .. Len(iHeard'), NEW j \in 1 .. Len(iHeard'), iHeard'[i] = iHeard'[j] PROVE i = j
  <2>1. (i \in 1 .. Len(iHeard)) <=> (j \in 1 .. Len(iHeard))
    <3>1. \/ i \in 1 .. Len(iHeard) /\ iCall'[iHeard'[i]].base # h.base
          \/ i \notin 1 .. Len(iHeard) /\ iCall'[iHeard'[i]].base = h.base
      BY <1>2, <1>4, <1>6
    <3>2. \/ j \in 1 .. Len(iHeard) /\ iCall'[iHeard'[j]].base # h.base
          \/ j \notin 1 .. Len(iHeard) /\ iCall'[iHeard'[j]].base = h.base
      BY <1>2, <1>4, <1>6
    <3> QED
      BY <1>8, <3>1, <3>2
  <2>2. CASE i \in 1 .. Len(iHeard)
    BY <1>1, <1>4, <1>8, <2>1, <2>2 DEF HeardSound
  <2>3. CASE i \notin 1 .. Len(iHeard)
    <3> DEFINE k == i - Len(iHeard)
               l == j - Len(iHeard)
    <3>0. k \in 1 .. Len(texts) /\ l \in 1 .. Len(texts) /\ texts[k] = texts[l]
      BY <1>4, <1>8, <2>1, <2>3
    <3>1. k = l
      <4> HIDE DEF k, l
      <4> QED
        BY <3>0
    <3> QED
      BY <1>2, <1>4, <3>1
  <2> QED
    BY <2>2, <2>3
<1>9. \A c \in Inbound!Chats : iWindow'[c] # <<>> =>
          /\ \A i \in 1 .. Len(iHeard') : iCall'[iHeard'[i]].base # iWindow'[c][1].base
          /\ \A n \in 1 .. MaxMessages : iCall'[n].at = "transcribe" => iCall'[n].base # iWindow'[c][1].base
  <2> SUFFICES ASSUME NEW c \in Inbound!Chats, iWindow'[c] # <<>>
               PROVE  /\ \A i \in 1 .. Len(iHeard') : iCall'[iHeard'[i]].base # iWindow'[c][1].base
                      /\ \A n \in 1 .. MaxMessages : iCall'[n].at = "transcribe" => iCall'[n].base # iWindow'[c][1].base
    OBVIOUS
  <2>1. iWindow'[c][1].base # h.base
    OBVIOUS
  <2>2. \A i \in 1 .. Len(iHeard') : iCall'[iHeard'[i]].base # iWindow'[c][1].base
    <3> TAKE i \in 1 .. Len(iHeard')
    <3>1. CASE i \in 1 .. Len(iHeard)
      BY <1>4, <1>5, <3>1
    <3>2. CASE i \notin 1 .. Len(iHeard)
      BY <1>4, <2>1, <3>2
    <3> QED
      BY <3>1, <3>2
  <2> QED
    BY <1>3, <1>5, <2>2
<1>10. ASSUME NEW n \in 1 .. MaxMessages, iCall'[n].at = "transcribe"
      PROVE  /\ Admitted(iCall[n].base)' /\ iCall'[iCall'[n].base].base = iCall'[n].base
             /\ \A i \in 1 .. Len(iHeard') : iCall'[iHeard'[i]].base # iCall'[n].base
             /\ \A k \in 1 .. MaxMessages : iCall'[k].at = "transcribe" /\ iCall'[k].base = iCall'[n].base => k = n
  <2>1. n # m
    BY <1>3, <1>10
  <2>2. Admitted(iCall[n].base)' /\ iCall'[iCall'[n].base].base = iCall'[n].base /\ iCall'[n] = iCall[n] /\ iCall[n].at = "transcribe"
    BY <1>5, <1>10, <2>1 DEF Admitted
  <2>3. \A i \in 1 .. Len(iHeard') : iCall'[iHeard'[i]].base # iCall'[n].base
    <3> TAKE i \in 1 .. Len(iHeard')
    <3>1. CASE i \in 1 .. Len(iHeard)
      BY <1>4, <1>5, <1>10, <2>1, <3>1
    <3>2. CASE i \notin 1 .. Len(iHeard)
      BY <1>4, <2>1, <2>2, <3>2
    <3> QED
      BY <3>1, <3>2
  <2>4. \A k \in 1 .. MaxMessages : iCall'[k].at = "transcribe" /\ iCall'[k].base = iCall'[n].base => k = n
    BY <1>3, <1>5, <1>10, <2>1
  <2> QED
    BY <2>2, <2>3, <2>4
<1> QED
  BY <1>4, <1>7, <1>8, <1>9, <1>10 DEF HeardSound

WindowsTyped == iWindow' \in [Inbound!Chats -> {<<>>} \cup {<<w>> : w \in Windows}]
Sent(m) == iOutbox' = iOutbox \/ \E o \in Outs : o.call = m /\ iOutbox' = Append(iOutbox, o)

LEMMA TypesAfter ==
  ASSUME InboundTypes, Grown, NEW m \in 1 .. MaxMessages, NEW h \in Handlers, Moved(m, h),
         Len(iMessages') = Len(iMessages) \/ m = Len(iMessages'),
         iDebounced' = iDebounced, iStopped' = iStopped, WindowsTyped, Sent(m), iHeard' \in Seq(1 .. MaxMessages)
  PROVE  InboundTypes'
<1>1. iMessages' \in Seq(Kinds \cup Own) /\ Len(iMessages') <= MaxMessages
  <2>1. Len(iMessages) <= MaxMessages /\ m <= MaxMessages
    BY TextsSpoken DEF InboundTypes
  <2> QED
    BY <2>1, GrownFacts
<1>2. iCall' \in [1 .. MaxMessages -> Handlers]
  BY MovedFacts
<1>3. iOutbox' \in Seq(Outs)
  <2>1. iOutbox \in Seq(Outs)
    BY DEF InboundTypes
  <2> QED
    BY <2>1, AppendProperties DEF Sent
<1>4. iDebounced' \in BOOLEAN /\ iStopped' \in BOOLEAN
  BY DEF InboundTypes
<1> QED
  BY <1>1, <1>2, <1>3, <1>4 DEF InboundTypes, WindowsTyped

\* The other handlers' replies go on as they were.
LEMMA OtherReplies ==
  ASSUME InboundInv, Grown, NEW m \in 1 .. MaxMessages, NEW h \in Handlers, Moved(m, h), Sent(m), ReplySound(m)'
  PROVE  \A n \in 1 .. MaxMessages : ReplySound(n)'
<1> SUFFICES ASSUME NEW n \in 1 .. MaxMessages, n # m PROVE ReplySound(n)'
  OBVIOUS
<1>1. InboundTypes /\ ReplySound(n)
  BY DEF InboundInv
<1>2. iCall'[n] = iCall[n]
  BY <1>1, MovedFacts
<1>3. \/ iOutbox' = iOutbox
      \/ \E o \in Outs : o.call # n /\ iOutbox' = Append(iOutbox, o)
  BY DEF Sent
<1> QED
  BY <1>1, <1>2, <1>3, ReplyStays

\* A window is handled, or a message without one.
LEMMA HandledInv ==
  ASSUME InboundInv, Grown, NEW m \in 1 .. MaxMessages, NEW base \in 1 .. MaxMessages, base <= m, m <= Len(iMessages'),
         Len(iMessages') = Len(iMessages) \/ m = Len(iMessages'), NEW texts \in Seq(1 .. MaxMessages),
         Inbound!Handled(iCall, iMessages', m, base, texts), iCall[m].at \in {"none", "waiting"},
         m <= Len(iMessages) => iCall[m].base = base,
         iDebounced' = iDebounced, iStopped' = iStopped, WindowsTyped,
         \A c \in Inbound!Chats : iWindow'[c] # <<>> => iWindow'[c] = iWindow[c] /\ iWindow[c][1].owner # m,
         Fresh(base), base = m \/ iCall[base].base = base,
         \A i \in 1 .. Len(texts) : \/ texts[i] = m
                                    \/ texts[i] <= Len(iMessages) /\ iCall[texts[i]].base = base,
         \A i, j \in 1 .. Len(texts) : texts[i] = texts[j] => i = j
  PROVE  InboundInv'
<1>1. InboundTypes /\ HeardSound /\ ReplySound(m)
  BY DEF InboundInv
<1>2. /\ iMessages' \in Seq(Kinds \cup Own) /\ Len(iMessages) \in Nat /\ Len(iMessages') \in Nat
      /\ Len(iMessages) <= Len(iMessages') /\ Len(iMessages') <= Len(iMessages) + 1
  BY <1>1, GrownFacts
<1>3. base <= Len(iMessages') /\ base \in 1 .. Len(iMessages')
  BY <1>2
<1>4. PICK h \in Handlers :
            /\ iCall' = [iCall EXCEPT ![m] = h] /\ h.base = base /\ h.left = iCall[m].left
            /\ \/ /\ h.at = "refused" /\ iHeard' = iHeard
                  /\ iOutbox' = iOutbox \/ \E o \in Outs : o.call = m /\ iOutbox' = Append(iOutbox, o)
               \/ h.at = "transcribe" /\ iMessages'[base].sender \in Allowed /\ iHeard' = iHeard /\ iOutbox' = iOutbox
               \/ h.at = "gateway" /\ iMessages'[base].sender \in Allowed /\ iHeard' = iHeard \o texts /\ iOutbox' = iOutbox
  <2>1. PICK all \in Seq(Kinds \cup Own) : all = iMessages'
    BY <1>2
  <2>2. \E h \in Handlers :
            /\ iCall' = [iCall EXCEPT ![m] = h] /\ h.base = base /\ h.left = iCall[m].left
            /\ \/ /\ h.at = "refused" /\ iHeard' = iHeard
                  /\ iOutbox' = iOutbox \/ \E o \in Outs : o.call = m /\ iOutbox' = Append(iOutbox, o)
               \/ h.at = "transcribe" /\ all[base].sender \in Allowed /\ iHeard' = iHeard /\ iOutbox' = iOutbox
               \/ h.at = "gateway" /\ all[base].sender \in Allowed /\ iHeard' = iHeard \o texts /\ iOutbox' = iOutbox
    <3>1. Inbound!Handled(iCall, all, m, base, texts) /\ base <= Len(all)
      BY <1>3, <2>1
    <3> QED
      BY <1>1, <3>1, HandledCases
  <2> QED
    BY <2>1, <2>2
<1>5. Moved(m, h) /\ Sent(m)
  BY <1>4 DEF Moved, Sent
<1>6. /\ iCall' \in [1 .. MaxMessages -> Handlers] /\ iCall'[m] = h
      /\ \A n \in 1 .. MaxMessages : n <= Len(iMessages) => iCall'[n].base = iCall[n].base
  BY <1>1, <1>5, MovedFacts
<1>7. \A n \in 1 .. MaxMessages : HandlerSound(n)'
  <2>1. h.at # "none" /\ h.base <= m
    BY <1>4
  <2> QED
    BY <1>5, <2>1, HandlersSound
<1>8. \A n \in 1 .. MaxMessages : ReplySound(n)'
  <2>1. ReplySound(m)'
    <3>1. iCall'[m].left = iCall[m].left
      BY <1>4, <1>6
    <3>2. iCall[m].at \in {"none", "waiting", "transcribe", "gateway"}
      OBVIOUS
    <3>3. \/ iCall'[m].at \in {"waiting", "transcribe", "gateway"} /\ iOutbox' = iOutbox
          \/ iCall'[m].at \in {"refused", "failed"}
      BY <1>4, <1>6
    <3> QED
      BY <1>1, <3>1, <3>2, <3>3, ReplyWaits
  <2> QED
    BY <1>5, <2>1, OtherReplies
<1>9. \A c \in Inbound!Chats : WindowSound(c)'
  BY <1>5, WindowStays
<1>10. \A c \in Inbound!Chats : OldBase(c)
  BY DEF OldBase
<1>11. iCall'[base].base = base
  <2>1. CASE base = m
    BY <1>4, <1>6, <2>1
  <2>2. CASE base # m
    <3>1. base <= Len(iMessages)
      BY <1>2, <2>2
    <3> QED
      BY <1>6, <2>2, <3>1
  <2> QED
    BY <2>1, <2>2
<1>12. HeardSound' /\ iHeard' \in Seq(1 .. MaxMessages)
  <2>1. CASE h.at = "refused"
    <3>1. iHeard' = iHeard /\ h.at # "transcribe"
      BY <1>4, <2>1
    <3> QED
      BY <1>1, <1>5, <1>10, <3>1, HeardAsBefore DEF InboundTypes
  <2>2. CASE h.at = "transcribe"
    <3>1. iHeard' = iHeard /\ iMessages'[base].sender \in Allowed
      BY <1>4, <2>2
    <3>2. h.base = base
      BY <1>4
    <3>3. Admitted(h.base)' /\ Fresh(h.base) /\ iCall'[h.base].base = h.base
      BY <1>3, <1>11, <3>1, <3>2 DEF Admitted
    <3> QED
      BY <1>1, <1>5, <1>10, <2>2, <3>1, <3>3, HeardWaits DEF InboundTypes
  <2>3. CASE h.at = "gateway"
    <3>1. iHeard' = iHeard \o texts /\ iMessages'[base].sender \in Allowed /\ h.base = base
      BY <1>4, <2>3
    <3>2. Admitted(h.base)'
      BY <1>3, <3>1 DEF Admitted
    <3>3. /\ \A i \in 1 .. Len(iHeard) : iCall[iHeard[i]].base # h.base
          /\ \A n \in 1 .. MaxMessages : n # m /\ iCall[n].at = "transcribe" => iCall[n].base # h.base
          /\ \A c \in Inbound!Chats : iWindow'[c] # <<>> => iWindow'[c][1].base # h.base
      BY <3>1 DEF Fresh
    <3>4. ASSUME NEW i \in 1 .. Len(texts) PROVE texts[i] <= Len(iMessages') /\ iCall'[texts[i]].base = h.base
      <4>1. texts[i] \in 1 .. MaxMessages
        BY ElementOfSeq, LenProperties
      <4>2. CASE texts[i] = m
        BY <1>4, <1>6, <4>2
      <4>3. CASE texts[i] <= Len(iMessages) /\ iCall[texts[i]].base = base
        BY <1>2, <1>6, <3>1, <4>1, <4>3
      <4> QED
        BY <4>2, <4>3
    <3> QED
      BY <1>5, <1>10, <2>3, <3>1, <3>2, <3>3, <3>4, HeardGrows
  <2> QED
    BY <1>4, <2>1, <2>2, <2>3
<1>13. InboundTypes'
  BY <1>1, <1>5, <1>12, TypesAfter
<1> QED
  BY <1>7, <1>8, <1>9, <1>12, <1>13 DEF InboundInv

(***************************************************************************)
(* The steps of the dispatcher.                                             *)
(***************************************************************************)

\* A handler moves on after its window.
LEMMA PlainInv ==
  ASSUME InboundInv, Grown, NEW m \in 1 .. MaxMessages, NEW h \in Handlers, Moved(m, h), iCall[m].at # "waiting",
         h.at # "transcribe", h.at # "none", h.base <= m, m <= Len(iMessages'),
         Len(iMessages') = Len(iMessages) \/ m = Len(iMessages'),
         iDebounced' = iDebounced, iStopped' = iStopped, iWindow' = iWindow, iHeard' = iHeard, Sent(m), ReplySound(m)'
  PROVE  InboundInv'
<1>1. InboundTypes
  BY DEF InboundInv
<1>2. ASSUME NEW c \in Inbound!Chats, iWindow'[c] # <<>> PROVE iWindow'[c] = iWindow[c] /\ iWindow[c][1].owner # m
  <2>1. WindowSound(c)
    BY DEF InboundInv
  <2> QED
    BY <1>2, <2>1 DEF WindowSound
<1>3. \A c \in Inbound!Chats : WindowSound(c)'
  BY <1>2, WindowStays
<1>4. \A c \in Inbound!Chats : OldBase(c)
  BY DEF OldBase
<1>5. HeardSound'
  BY <1>4, HeardAsBefore
<1>6. \A n \in 1 .. MaxMessages : HandlerSound(n)'
  BY HandlersSound
<1>7. \A n \in 1 .. MaxMessages : ReplySound(n)'
  BY OtherReplies
<1>8. InboundTypes'
  <2>1. WindowsTyped /\ iHeard' \in Seq(1 .. MaxMessages)
    BY <1>1 DEF InboundTypes, WindowsTyped
  <2> QED
    BY <1>1, <2>1, TypesAfter
<1> QED
  BY <1>3, <1>5, <1>6, <1>7, <1>8 DEF InboundInv

LEMMA HandlerFacts ==
  ASSUME InboundInv, NEW m \in 1 .. MaxMessages
  PROVE  /\ iCall \in [1 .. MaxMessages -> Handlers] /\ iCall[m] \in Handlers /\ Len(iMessages) \in Nat
         /\ iCall[m].at # "none" => m <= Len(iMessages) /\ iCall[m].base <= m /\ iMessages[m].chat \in Inbound!Chats
         /\ m > Len(iMessages) => iCall[m].at = "none" /\ iCall[m].base = 0
         /\ ReplySound(m)
<1>1. InboundTypes /\ HandlerSound(m) /\ ReplySound(m)
  BY DEF InboundInv
<1>2. iMessages \in Seq(Kinds \cup Own) /\ Len(iMessages) \in Nat
  BY <1>1, LenProperties DEF InboundTypes
<1>3. m <= Len(iMessages) => iMessages[m].chat \in Inbound!Chats
  <2> SUFFICES ASSUME m <= Len(iMessages) PROVE iMessages[m].chat \in Inbound!Chats
    OBVIOUS
  <2>1. iMessages[m] \in Kinds \cup Own
    BY <1>2, ElementOfSeq
  <2> QED
    BY <2>1 DEF Own, Inbound!Chats
<1> QED
  BY <1>1, <1>2, <1>3 DEF InboundTypes, HandlerSound

LEMMA FailInv ==
  ASSUME InboundInv, NEW m \in 1 .. MaxMessages, Inbound!Fail(m)
  PROVE  InboundInv'
<1>1. /\ iCall \in [1 .. MaxMessages -> Handlers] /\ iCall[m] \in Handlers
      /\ iCall[m].at \in {"transcribe", "gateway"} /\ iCall' = [iCall EXCEPT ![m].at = "failed"]
      /\ m <= Len(iMessages) /\ iCall[m].base <= m
      /\ iMessages' = iMessages /\ iDebounced' = iDebounced /\ iStopped' = iStopped /\ iWindow' = iWindow
      /\ iHeard' = iHeard /\ iOutbox' = iOutbox /\ InboundTypes /\ ReplySound(m)
  BY HandlerFacts DEF Inbound!Fail, InboundInv
<1> DEFINE h == [iCall[m] EXCEPT !.at = "failed"]
<1>2. h \in Handlers /\ h.at = "failed" /\ h.base = iCall[m].base /\ h.left = iCall[m].left
  BY <1>1 DEF Handlers, Stages
<1>3. iCall' = [iCall EXCEPT ![m] = h] /\ iCall'[m] = h
  BY <1>1
<1> HIDE DEF h
<1>4. Moved(m, h) /\ Sent(m) /\ Grown
  BY <1>1, <1>2, <1>3 DEF Moved, Sent, Grown
<1>5. ReplySound(m)'
  <2>1. iCall'[m].left = iCall[m].left /\ iCall'[m].at \in {"refused", "failed"}
    BY <1>2, <1>3
  <2>2. iCall[m].at \in {"none", "waiting", "transcribe", "gateway"}
    BY <1>1
  <2> QED
    BY <1>1, <2>1, <2>2, ReplyWaits
<1>6. iCall[m].at # "waiting" /\ h.at # "transcribe" /\ h.at # "none" /\ h.base <= m /\ m <= Len(iMessages')
  BY <1>1, <1>2
<1>7. Len(iMessages') = Len(iMessages)
  BY <1>1
<1>8. iDebounced' = iDebounced /\ iStopped' = iStopped /\ iWindow' = iWindow /\ iHeard' = iHeard
  BY <1>1
<1> QED
  BY <1>2, <1>4, <1>5, <1>6, <1>7, <1>8, PlainInv

LEMMA ReplyInv ==
  ASSUME InboundInv, NEW m \in 1 .. MaxMessages, NEW text \in Texts, Inbound!Reply(m, text)
  PROVE  InboundInv'
<1>1. /\ iCall \in [1 .. MaxMessages -> Handlers] /\ iCall[m].at = "gateway"
      /\ Inbound!Dispatched(iCall, m, text, iMessages[m].chat)
      /\ m <= Len(iMessages) /\ iCall[m].base <= m /\ iMessages[m].chat \in Inbound!Chats
      /\ iMessages' = iMessages /\ iDebounced' = iDebounced /\ iStopped' = iStopped /\ iWindow' = iWindow
      /\ iHeard' = iHeard /\ InboundTypes /\ ReplySound(m)
  BY HandlerFacts DEF Inbound!Reply, Inbound!Chat, InboundInv
<1>2. PICK h \in Handlers, o \in Outs :
            /\ iCall' = [iCall EXCEPT ![m] = h] /\ iOutbox' = Append(iOutbox, o)
            /\ Out(o, m, iMessages[m].chat) /\ h.base = iCall[m].base /\ h.text = text
            /\ \/ h.at = "chunks" /\ h.left # <<>> /\ o.items \o Inbound!Items(h.left) = Inbound!Sentences(text)
               \/ h.at = "replied" /\ h.left = iCall[m].left /\ o.items = Inbound!Sentences(text)
  <2>1. PICK chat \in Inbound!Chats : chat = iMessages[m].chat
    BY <1>1
  <2>2. Inbound!Dispatched(iCall, m, text, chat)
    BY <1>1, <2>1
  <2>3. Answered(m, text, chat)
    BY <1>1, <2>2, DispatchedCases
  <2> QED
    BY <2>1, <2>3 DEF Answered
<1>3. Moved(m, h) /\ Sent(m) /\ Grown /\ iCall'[m] = h
  BY <1>1, <1>2 DEF Moved, Sent, Grown, Out
<1>4. ReplySound(m)'
  <2>1. m <= Len(iMessages') /\ Out(o, m, iMessages'[m].chat) /\ iCall[m].at \in {"none", "gateway"}
    BY <1>1, <1>2
  <2>2. \/ h.at = "chunks" /\ h.left # <<>> /\ o.items \o Inbound!Items(h.left) = Inbound!Sentences(h.text)
        \/ h.at = "replied" /\ h.left = iCall[m].left /\ o.items = Inbound!Sentences(h.text)
    BY <1>2
  <2> QED
    BY <1>1, <1>2, <1>3, <2>1, <2>2, ReplyBegins
<1>5. iCall[m].at # "waiting" /\ h.at # "transcribe" /\ h.at # "none" /\ h.base <= m /\ m <= Len(iMessages')
  BY <1>1, <1>2
<1>6. Len(iMessages') = Len(iMessages)
  BY <1>1
<1> QED
  BY <1>1, <1>3, <1>4, <1>5, <1>6, PlainInv

LEMMA NextChunkInv ==
  ASSUME InboundInv, NEW m \in 1 .. MaxMessages, Inbound!NextChunk(m)
  PROVE  InboundInv'
<1>1. /\ iCall \in [1 .. MaxMessages -> Handlers] /\ iCall[m].at = "chunks"
      /\ m <= Len(iMessages) /\ iCall[m].base <= m
      /\ iMessages' = iMessages /\ iDebounced' = iDebounced /\ iStopped' = iStopped /\ iWindow' = iWindow
      /\ iHeard' = iHeard /\ InboundTypes /\ ReplySound(m)
  BY HandlerFacts DEF Inbound!NextChunk, InboundInv
<1>2. PICK h \in Handlers, o \in Outs :
            /\ iCall' = [iCall EXCEPT ![m] = h] /\ iOutbox' = Append(iOutbox, o)
            /\ Out(o, m, iMessages[m].chat) /\ h.base = iCall[m].base /\ h.text = iCall[m].text
            /\ h.at \in {"chunks", "replied"} /\ (h.left # <<>> <=> h.at = "chunks")
            /\ o.items \o Inbound!Items(h.left) = Inbound!Items(iCall[m].left)
  BY <1>1, NextChunkCases
<1>3. Moved(m, h) /\ Sent(m) /\ Grown /\ iCall'[m] = h
  BY <1>1, <1>2 DEF Moved, Sent, Grown, Out
<1>4. ReplySound(m)'
  BY <1>1, <1>2, <1>3, ReplyGoesOn
<1>5. iCall[m].at # "waiting" /\ h.at # "transcribe" /\ h.at # "none" /\ h.base <= m /\ m <= Len(iMessages')
  BY <1>1, <1>2
<1>6. Len(iMessages') = Len(iMessages)
  BY <1>1
<1> QED
  BY <1>1, <1>3, <1>4, <1>5, <1>6, PlainInv

\* A message comes, from a user or of the program's own.
LEMMA Comes ==
  ASSUME InboundInv, NEW k \in Kinds \cup Own, iMessages' = Append(iMessages, k), Len(iMessages) + 1 <= MaxMessages
  PROVE  /\ Grown /\ Len(iMessages) \in Nat /\ Len(iMessages) + 1 \in 1 .. MaxMessages /\ k.chat \in Inbound!Chats
         /\ Len(iMessages') = Len(iMessages) + 1 /\ iMessages'[Len(iMessages) + 1] = k
         /\ iCall[Len(iMessages) + 1].at = "none" /\ iCall[Len(iMessages) + 1].base = 0
<1>1. InboundTypes
  BY DEF InboundInv
<1>2. iMessages \in Seq(Kinds \cup Own) /\ Len(iMessages) \in Nat /\ MaxMessages \in Nat
  BY <1>1, LenProperties, TextsSpoken DEF InboundTypes
<1>3. Len(iMessages') = Len(iMessages) + 1 /\ iMessages'[Len(iMessages) + 1] = k
  BY <1>2, AppendProperties
<1>4. PICK m \in 1 .. MaxMessages : m = Len(iMessages) + 1
  BY <1>2
<1>5. iCall[m].at = "none" /\ iCall[m].base = 0
  <2>1. m > Len(iMessages)
    BY <1>2, <1>4
  <2> QED
    BY <2>1, HandlerFacts
<1>6. k.chat \in Inbound!Chats
  BY DEF Own, Inbound!Chats
<1> QED
  BY <1>2, <1>3, <1>4, <1>5, <1>6 DEF Grown

LEMMA SendProactiveInv ==
  ASSUME InboundInv, NEW chat \in Inbound!Chats, NEW text \in Texts, Inbound!SendProactive(chat, text)
  PROVE  InboundInv'
<1> DEFINE k == [chat |-> chat, sender |-> "none", text |-> FALSE, voice |-> FALSE]
<1>1. k \in Kinds \cup Own /\ k.chat = chat
  BY DEF Own
<1>2. /\ iMessages' = Append(iMessages, k) /\ Len(iMessages) + 1 <= MaxMessages
      /\ Inbound!Dispatched(iCall, Len(iMessages) + 1, text, chat)
      /\ iDebounced' = iDebounced /\ iStopped' = iStopped /\ iWindow' = iWindow /\ iHeard' = iHeard
  BY DEF Inbound!SendProactive
<1> HIDE DEF k
<1>3. /\ Grown /\ Len(iMessages) \in Nat /\ Len(iMessages) + 1 \in 1 .. MaxMessages
      /\ Len(iMessages') = Len(iMessages) + 1 /\ iMessages'[Len(iMessages) + 1] = k
      /\ iCall[Len(iMessages) + 1].at = "none" /\ iCall[Len(iMessages) + 1].base = 0
  BY <1>1, <1>2, Comes
<1>4. PICK m \in 1 .. MaxMessages : m = Len(iMessages) + 1
  BY <1>3
<1>5. InboundTypes /\ ReplySound(m) /\ iCall \in [1 .. MaxMessages -> Handlers]
  BY DEF InboundInv, InboundTypes
<1>6. PICK h \in Handlers, o \in Outs :
            /\ iCall' = [iCall EXCEPT ![m] = h] /\ iOutbox' = Append(iOutbox, o)
            /\ Out(o, m, chat) /\ h.base = iCall[m].base /\ h.text = text
            /\ \/ h.at = "chunks" /\ h.left # <<>> /\ o.items \o Inbound!Items(h.left) = Inbound!Sentences(text)
               \/ h.at = "replied" /\ h.left = iCall[m].left /\ o.items = Inbound!Sentences(text)
  <2>1. Inbound!Dispatched(iCall, m, text, chat)
    BY <1>2, <1>4
  <2> QED
    <3>1. Answered(m, text, chat)
      BY <1>5, <2>1, DispatchedCases
    <3> QED
      BY <3>1 DEF Answered
<1>7. Moved(m, h) /\ Sent(m) /\ iCall'[m] = h
  BY <1>4, <1>5, <1>6 DEF Moved, Sent, Out
<1>8. ReplySound(m)'
  <2>1. m <= Len(iMessages') /\ Out(o, m, iMessages'[m].chat) /\ iCall[m].at \in {"none", "gateway"}
    BY <1>1, <1>3, <1>4, <1>6
  <2>2. \/ h.at = "chunks" /\ h.left # <<>> /\ o.items \o Inbound!Items(h.left) = Inbound!Sentences(h.text)
        \/ h.at = "replied" /\ h.left = iCall[m].left /\ o.items = Inbound!Sentences(h.text)
    BY <1>6
  <2> QED
    BY <1>5, <1>6, <1>7, <2>1, <2>2, ReplyBegins
<1>9. iCall[m].at # "waiting" /\ h.at # "transcribe" /\ h.at # "none" /\ h.base <= m /\ m <= Len(iMessages')
  <2>1. iCall[m].at = "none" /\ iCall[m].base = 0 /\ 0 <= m /\ m <= Len(iMessages')
    BY <1>3, <1>4
  <2> QED
    BY <1>6, <2>1
<1> QED
  BY <1>2, <1>3, <1>4, <1>7, <1>8, <1>9, PlainInv

LEMMA TranscribeInv ==
  ASSUME InboundInv, NEW m \in 1 .. MaxMessages, Inbound!Transcribe(m)
  PROVE  InboundInv'
<1>1. /\ iCall \in [1 .. MaxMessages -> Handlers] /\ iCall[m] \in Handlers /\ iCall[m].at = "transcribe"
      /\ iCall' = [iCall EXCEPT ![m].at = "gateway", ![m].texts = <<iCall[m].base>>]
      /\ m <= Len(iMessages) /\ iCall[m].base <= m /\ ReplySound(m) /\ Len(iMessages) \in Nat
  BY HandlerFacts DEF Inbound!Transcribe
<1>2. /\ iMessages' = iMessages /\ iDebounced' = iDebounced /\ iStopped' = iStopped /\ iWindow' = iWindow
      /\ iOutbox' = iOutbox /\ iHeard' = iHeard \o <<iCall[m].base>>
  BY DEF Inbound!Transcribe, Inbound!HeardOf
<1>3. InboundTypes /\ HeardSound
  BY DEF InboundInv
<1>4. PICK b \in 1 .. MaxMessages : b = iCall[m].base /\ b <= Len(iMessages) /\ iMessages[b].sender \in Allowed
  <2>1. Admitted(iCall[m].base)
    BY <1>1, <1>3 DEF HeardSound
  <2>2. iCall[m].base \in 1 .. MaxMessages
    BY <1>3, <2>1, TextsSpoken DEF Admitted, InboundTypes
  <2> QED
    BY <2>1, <2>2 DEF Admitted
<1> DEFINE texts == <<b>>
<1>5. texts \in Seq(1 .. MaxMessages) /\ Len(texts) = 1 /\ texts[1] = b
  OBVIOUS
<1> HIDE DEF texts
<1>6. PICK h \in Handlers : /\ h = [iCall[m] EXCEPT !.at = "gateway", !.texts = texts]
                           /\ h.at = "gateway" /\ h.base = b /\ h.left = iCall[m].left
  <2>1. [iCall[m] EXCEPT !.at = "gateway", !.texts = texts] \in Handlers
    BY <1>1, <1>5 DEF Handlers, Stages
  <2> QED
    BY <1>1, <1>4, <2>1 DEF Handlers
<1>7. iCall' = [iCall EXCEPT ![m] = h] /\ iCall'[m] = h /\ iHeard' = iHeard \o texts
  BY <1>1, <1>2, <1>4, <1>6 DEF texts
<1>8. Moved(m, h) /\ Sent(m) /\ Grown /\ Len(iMessages') = Len(iMessages)
  BY <1>2, <1>4, <1>6, <1>7 DEF Moved, Sent, Grown
<1>9. ASSUME NEW c \in Inbound!Chats, iWindow'[c] # <<>> PROVE iWindow'[c] = iWindow[c] /\ iWindow[c][1].owner # m
  <2>1. WindowSound(c)
    BY DEF InboundInv
  <2> QED
    BY <1>1, <1>2, <1>9, <2>1 DEF WindowSound
<1>10. \A c \in Inbound!Chats : WindowSound(c)'
  BY <1>6, <1>8, <1>9, WindowStays
<1>11. \A c \in Inbound!Chats : OldBase(c)
  BY <1>2 DEF OldBase
<1>12. \A n \in 1 .. MaxMessages : n <= Len(iMessages) => iCall'[n].base = iCall[n].base
  BY <1>3, <1>6, <1>8, MovedFacts
<1>13. HeardSound' /\ iHeard' \in Seq(1 .. MaxMessages)
  <2>1. /\ iCall[b].base = b
        /\ \A i \in 1 .. Len(iHeard) : iCall[iHeard[i]].base # b
        /\ \A n \in 1 .. MaxMessages : iCall[n].at = "transcribe" /\ iCall[n].base = b => n = m
    BY <1>1, <1>3, <1>4 DEF HeardSound
  <2>2. \A c \in Inbound!Chats : iWindow'[c] # <<>> => iWindow'[c][1].base # b
    BY <1>1, <1>2, <1>3, <1>4 DEF HeardSound
  <2>3. Admitted(b)'
    BY <1>1, <1>2, <1>4 DEF Admitted
  <2>4. iCall'[b].base = b
    BY <1>4, <1>12, <2>1
  <2>5. /\ \A i \in 1 .. Len(iHeard) : iCall[iHeard[i]].base # h.base
        /\ \A n \in 1 .. MaxMessages : n # m /\ iCall[n].at = "transcribe" => iCall[n].base # h.base
        /\ \A c \in Inbound!Chats : iWindow'[c] # <<>> => iWindow'[c][1].base # h.base
    BY <1>6, <2>1, <2>2
  <2>6. Admitted(h.base)'
    BY <1>6, <2>3 DEF Admitted
  <2>7. \A i \in 1 .. Len(texts) : texts[i] <= Len(iMessages') /\ iCall'[texts[i]].base = h.base
    BY <1>4, <1>5, <1>6, <1>8, <2>4
  <2>8. \A i, j \in 1 .. Len(texts) : texts[i] = texts[j] => i = j
    BY <1>5
  <2> QED
    BY <1>5, <1>6, <1>7, <1>8, <1>11, <2>5, <2>6, <2>7, <2>8, HeardGrows
<1>14. \A n \in 1 .. MaxMessages : HandlerSound(n)'
  <2>1. h.at # "none" /\ h.base <= m /\ m <= Len(iMessages')
    BY <1>1, <1>4, <1>6, <1>8
  <2> QED
    BY <1>6, <1>8, <2>1, HandlersSound
<1>15. \A n \in 1 .. MaxMessages : ReplySound(n)'
  <2>1. iCall'[m].left = iCall[m].left /\ iCall'[m].at = "gateway"
    BY <1>6, <1>7
  <2>2. ReplySound(m)'
    BY <1>1, <1>2, <1>3, <2>1, ReplyWaits
  <2> QED
    BY <1>6, <1>8, <2>2, OtherReplies
<1>16. InboundTypes'
  <2>1. WindowsTyped
    BY <1>2, <1>3 DEF InboundTypes, WindowsTyped
  <2> QED
    BY <1>2, <1>3, <1>6, <1>8, <1>13, <2>1, TypesAfter
<1> QED
  BY <1>10, <1>13, <1>14, <1>15, <1>16 DEF InboundInv

\* A window's timer.
LEMMA FlushInv ==
  ASSUME InboundInv, NEW c \in Inbound!Chats, Inbound!Flush(c)
  PROVE  InboundInv'
<1> DEFINE w == iWindow[c][1]
<1>1. /\ iWindow[c] # <<>> /\ Inbound!Handled(iCall, iMessages, w.owner, w.base, w.texts)
      /\ iWindow' = [iWindow EXCEPT ![c] = <<>>]
      /\ iMessages' = iMessages /\ iDebounced' = iDebounced /\ iStopped' = iStopped
  BY DEF Inbound!Flush
<1>2. InboundTypes /\ HeardSound /\ WindowSound(c) /\ iWindow \in [Inbound!Chats -> {<<>>} \cup {<<v>> : v \in Windows}]
  BY DEF InboundInv, InboundTypes
<1>3. /\ w.base \in 1 .. MaxMessages /\ w.owner \in 1 .. MaxMessages /\ w.texts \in Seq(1 .. MaxMessages)
      /\ \A i \in 1 .. Len(w.texts) : w.texts[i] \in 1 .. MaxMessages
  BY <1>1, <1>2, WindowTypes
<1>4. /\ w.base <= w.owner /\ w.owner <= Len(iMessages) /\ iMessages[w.base].chat = c
      /\ iCall[w.owner].at = "waiting" /\ iCall[w.owner].base = w.base /\ iCall[w.base].base = w.base
      /\ \A i \in 1 .. Len(w.texts) : /\ w.base <= w.texts[i] /\ w.texts[i] <= w.owner
                                      /\ iCall[w.texts[i]].base = w.base
      /\ \A i, j \in 1 .. Len(w.texts) : w.texts[i] = w.texts[j] => i = j
  BY <1>1, <1>2 DEF WindowSound
<1>5. Len(iMessages) \in Nat
  BY <1>2, LenProperties DEF InboundTypes
<1>6. ASSUME NEW d \in Inbound!Chats, iWindow'[d] # <<>>
      PROVE  /\ d # c /\ iWindow'[d] = iWindow[d] /\ iWindow[d][1].base # w.base /\ iWindow[d][1].owner # w.owner
  <2>1. d # c /\ iWindow'[d] = iWindow[d] /\ iWindow[d] # <<>>
    BY <1>1, <1>2, <1>6
  <2>2. WindowSound(d)
    BY DEF InboundInv
  <2>3. iMessages[iWindow[d][1].base].chat = d /\ iCall[iWindow[d][1].owner].base = iWindow[d][1].base
    BY <2>1, <2>2 DEF WindowSound
  <2> QED
    BY <1>4, <2>1, <2>3
<1>7. /\ \A i \in 1 .. Len(iHeard) : iCall[iHeard[i]].base # w.base
      /\ \A n \in 1 .. MaxMessages : iCall[n].at = "transcribe" => iCall[n].base # w.base
  BY <1>1, <1>2 DEF HeardSound
<1>8. WindowsTyped
  BY <1>1, <1>2 DEF WindowsTyped
<1> HIDE DEF w
<1>9. Fresh(w.base)
  BY <1>6, <1>7 DEF Fresh
<1>10. PICK m \in 1 .. MaxMessages, base \in 1 .. MaxMessages, texts \in Seq(1 .. MaxMessages) :
          m = w.owner /\ base = w.base /\ texts = w.texts
  BY <1>3
<1>11. Inbound!Handled(iCall, iMessages', m, base, texts) /\ iCall[m].at \in {"none", "waiting"}
  BY <1>1, <1>4, <1>10
<1>12. /\ base <= m /\ m <= Len(iMessages') /\ Len(iMessages') = Len(iMessages) /\ (m <= Len(iMessages) => iCall[m].base = base)
       /\ Grown /\ Fresh(base) /\ iCall[base].base = base
  BY <1>1, <1>4, <1>9, <1>10 DEF Grown
<1>13. \A i \in 1 .. Len(texts) : texts[i] <= Len(iMessages) /\ iCall[texts[i]].base = base
  BY <1>3, <1>4, <1>5, <1>10
<1>14. \A i, j \in 1 .. Len(texts) : texts[i] = texts[j] => i = j
  BY <1>4, <1>10
<1>15. \A d \in Inbound!Chats : iWindow'[d] # <<>> => iWindow'[d] = iWindow[d] /\ iWindow[d][1].owner # m
  BY <1>6, <1>10
<1>16. iDebounced' = iDebounced /\ iStopped' = iStopped
  BY <1>1
<1> QED
  BY <1>8, <1>11, <1>12, <1>13, <1>14, <1>15, <1>16, HandledInv

LEMMA ShutdownInv == InboundInv /\ Inbound!Shutdown => InboundInv'
<1> SUFFICES ASSUME InboundInv, Inbound!Shutdown PROVE InboundInv'
  OBVIOUS
<1>1. /\ iStopped' = TRUE /\ iWindow' = [c \in Inbound!Chats |-> <<>>] /\ iDebounced' = iDebounced
      /\ iMessages' = iMessages /\ iCall' = iCall /\ iOutbox' = iOutbox /\ iHeard' = iHeard
  BY DEF Inbound!Shutdown
<1>2. InboundTypes'
  <2>1. iWindow' \in [Inbound!Chats -> {<<>>} \cup {<<w>> : w \in Windows}]
    BY <1>1
  <2> QED
    BY <1>1, <2>1 DEF InboundInv, InboundTypes
<1>3. \A m \in 1 .. MaxMessages : HandlerSound(m)'
  BY <1>1 DEF InboundInv, HandlerSound
<1>4. \A m \in 1 .. MaxMessages : ReplySound(m)'
  <2>1. \A m \in 1 .. MaxMessages : Inbound!ItemsSent(m)' = Inbound!ItemsSent(m)
    BY <1>1 DEF Inbound!ItemsSent
  <2> QED
    BY <1>1, <2>1 DEF InboundInv, ReplySound
<1>5. \A c \in Inbound!Chats : iWindow'[c] = <<>>
  BY <1>1
<1>6. \A c \in Inbound!Chats : WindowSound(c)'
  BY <1>5 DEF WindowSound
<1>7. HeardSound'
  <2>1. HeardSound
    BY DEF InboundInv
  <2> QED
    BY <1>1, <1>5, <2>1 DEF HeardSound, Admitted
<1> QED
  BY <1>2, <1>3, <1>4, <1>6, <1>7 DEF InboundInv

LEMMA InboundStays == InboundInv /\ UNCHANGED InboundVars => InboundInv'
<1> SUFFICES ASSUME InboundInv, UNCHANGED InboundVars PROVE InboundInv'
  OBVIOUS
<1>1. /\ iStopped' = iStopped /\ iWindow' = iWindow /\ iDebounced' = iDebounced
      /\ iMessages' = iMessages /\ iCall' = iCall /\ iOutbox' = iOutbox /\ iHeard' = iHeard
  BY DEF InboundVars
<1>2. InboundTypes'
  BY <1>1 DEF InboundInv, InboundTypes
<1>3. \A m \in 1 .. MaxMessages : HandlerSound(m)'
  BY <1>1 DEF InboundInv, HandlerSound
<1>4. \A m \in 1 .. MaxMessages : ReplySound(m)'
  <2>1. \A m \in 1 .. MaxMessages : Inbound!ItemsSent(m)' = Inbound!ItemsSent(m)
    BY <1>1 DEF Inbound!ItemsSent
  <2> QED
    BY <1>1, <2>1 DEF InboundInv, ReplySound
<1>5. \A c \in Inbound!Chats : WindowSound(c)'
  BY <1>1 DEF InboundInv, WindowSound
<1>6. HeardSound'
  <2>1. HeardSound
    BY DEF InboundInv
  <2> QED
    BY <1>1, <2>1 DEF HeardSound, Admitted
<1> QED
  BY <1>2, <1>3, <1>4, <1>5, <1>6 DEF InboundInv

LEMMA WindowPut ==
  ASSUME InboundTypes, NEW c \in Inbound!Chats, NEW x \in Windows, iWindow' = [iWindow EXCEPT ![c] = <<x>>]
  PROVE  WindowsTyped /\ iWindow'[c] = <<x>> /\ iWindow'[c][1] = x /\ \A d \in Inbound!Chats : d # c => iWindow'[d] = iWindow[d]
<1>1. iWindow \in [Inbound!Chats -> {<<>>} \cup {<<v>> : v \in Windows}]
  BY DEF InboundTypes
<1>2. iWindow'[c] = <<x>> /\ \A d \in Inbound!Chats : d # c => iWindow'[d] = iWindow[d]
  BY <1>1
<1>3. WindowsTyped
  BY <1>1 DEF WindowsTyped
<1> QED
  BY <1>2, <1>3

LEMMA WindowKept ==
  ASSUME NEW c, NEW x, iWindow'[c][1] = x,
         x.base <= x.owner, x.owner <= Len(iMessages'), iMessages'[x.base].chat = c,
         iCall'[x.owner].at = "waiting", iCall'[x.owner].base = x.base, iCall'[x.base].base = x.base,
         \A i \in 1 .. Len(x.texts) : x.base <= x.texts[i] /\ x.texts[i] <= x.owner /\ iCall'[x.texts[i]].base = x.base,
         \A i, j \in 1 .. Len(x.texts) : x.texts[i] = x.texts[j] => i = j
  PROVE  WindowSound(c)'
BY Zenon DEF WindowSound

\* A later message's text is added to its window.
LEMMA JoinInv ==
  ASSUME InboundInv, NEW k \in Kinds, iMessages' = Append(iMessages, k), NEW m \in 1 .. MaxMessages, m = Len(iMessages) + 1,
         iWindow[k.chat] # <<>>, NEW mine \in {<<>>, <<m>>},
         iWindow' = [iWindow EXCEPT ![k.chat] =
                        <<[iWindow[k.chat][1] EXCEPT !.texts = iWindow[k.chat][1].texts \o mine, !.owner = m]>>],
         iCall' = [iCall EXCEPT ![m].at = "waiting", ![m].base = iWindow[k.chat][1].base],
         iDebounced' = iDebounced, iStopped' = iStopped, iOutbox' = iOutbox, iHeard' = iHeard
  PROVE  InboundInv'
<1>1. InboundTypes /\ HeardSound
  BY DEF InboundInv
<1>2. /\ Grown /\ Len(iMessages) \in Nat /\ k.chat \in Inbound!Chats
      /\ Len(iMessages') = m /\ iMessages'[m] = k /\ iCall[m].at = "none" /\ iCall[m].base = 0
  BY Comes
<1>3. PICK c \in Inbound!Chats : c = k.chat
  BY <1>2
<1>4. PICK w \in Windows : iWindow[c] = <<w>>
  BY <1>1, <1>3 DEF InboundTypes
<1>5. /\ w.base \in 1 .. MaxMessages /\ w.owner \in 1 .. MaxMessages /\ w.texts \in Seq(1 .. MaxMessages)
  BY DEF Windows
<1>6. /\ w.base <= w.owner /\ w.owner <= Len(iMessages) /\ iMessages[w.base].chat = c
      /\ iCall[w.owner].at = "waiting" /\ iCall[w.owner].base = w.base /\ iCall[w.base].base = w.base
      /\ \A i \in 1 .. Len(w.texts) : /\ w.base <= w.texts[i] /\ w.texts[i] <= w.owner
                                      /\ iCall[w.texts[i]].base = w.base
      /\ \A i, j \in 1 .. Len(w.texts) : w.texts[i] = w.texts[j] => i = j
  <2>1. iWindow[c] # <<>> /\ iWindow[c][1] = w /\ WindowSound(c)
    BY <1>4 DEF InboundInv
  <2> QED
    BY <2>1 DEF WindowSound
<1>7. mine \in Seq(1 .. MaxMessages) /\ Len(mine) \in 0 .. 1 /\ \A i \in 1 .. Len(mine) : i = 1 /\ mine[i] = m
  <2>1. CASE mine = <<>>
    BY <2>1
  <2>2. CASE mine = <<m>>
    BY <2>2
  <2> QED
    BY <2>1, <2>2
<1>8. PICK texts \in Seq(1 .. MaxMessages) :
         /\ texts = w.texts \o mine /\ Len(texts) = Len(w.texts) + Len(mine) /\ Len(w.texts) \in Nat
         /\ \A i \in 1 .. Len(texts) : \/ i \in 1 .. Len(w.texts) /\ texts[i] = w.texts[i]
                                       \/ i = Len(w.texts) + 1 /\ texts[i] = m
  <2>1. PICK u \in Seq(1 .. MaxMessages), v \in Seq(1 .. MaxMessages) : u = w.texts /\ v = mine
    BY <1>5, <1>7
  <2>2. /\ u \o v \in Seq(1 .. MaxMessages) /\ Len(u \o v) = Len(u) + Len(v) /\ Len(u) \in Nat /\ Len(v) \in Nat
        /\ \A i \in 1 .. Len(u) + Len(v) : (u \o v)[i] = IF i <= Len(u) THEN u[i] ELSE v[i - Len(u)]
    BY ConcatProperties, LenProperties
  <2>3. ASSUME NEW i \in 1 .. Len(u \o v)
        PROVE  \/ i \in 1 .. Len(u) /\ (u \o v)[i] = u[i]
               \/ i = Len(u) + 1 /\ (u \o v)[i] = m
    <3>1. CASE i <= Len(u)
      BY <2>2, <3>1
    <3>2. CASE ~(i <= Len(u))
      <4>1. i - Len(u) \in 1 .. Len(v)
        BY <2>2, <3>2
      <4>2. i - Len(u) = 1 /\ v[i - Len(u)] = m
        BY <1>7, <2>1, <4>1
      <4> QED
        BY <2>2, <3>2, <4>2
    <3> QED
      BY <3>1, <3>2
  <2> QED
    BY <2>1, <2>2, <2>3
<1>9. PICK x \in Windows : x = [w EXCEPT !.texts = texts, !.owner = m] /\ x.texts = texts /\ x.owner = m /\ x.base = w.base
  <2>1. [w EXCEPT !.texts = texts, !.owner = m] \in Windows
    BY DEF Windows
  <2> QED
    BY <2>1 DEF Windows
<1>10. PICK h \in Handlers : /\ iCall' = [iCall EXCEPT ![m] = h]
                             /\ h.at = "waiting" /\ h.base = w.base /\ h.left = iCall[m].left
  <2>1. iCall \in [1 .. MaxMessages -> Handlers] /\ iCall[m] \in Handlers /\ iWindow[k.chat][1] = w
    BY <1>1, <1>3, <1>4 DEF InboundTypes
  <2>2. w.base \in 0 .. MaxMessages
    BY <1>5
  <2>3. [iCall[m] EXCEPT !.at = "waiting", !.base = w.base] \in Handlers
    BY <2>1, <2>2 DEF Handlers, Stages
  <2>4. iCall' = [iCall EXCEPT ![m] = [iCall[m] EXCEPT !.at = "waiting", !.base = w.base]]
    BY <2>1
  <2> QED
    BY <2>1, <2>3, <2>4 DEF Handlers
<1>11. iWindow' = [iWindow EXCEPT ![c] = <<x>>]
  <2>1. iWindow[k.chat][1] = w
    BY <1>3, <1>4
  <2> QED
    BY <1>3, <1>8, <1>9, <2>1
<1>12. /\ WindowsTyped /\ iWindow'[c] = <<x>> /\ iWindow'[c][1] = x
       /\ \A d \in Inbound!Chats : d # c => iWindow'[d] = iWindow[d]
  BY <1>1, <1>11, WindowPut
<1>13. Moved(m, h) /\ Sent(m)
  <2>1. ~(m <= Len(iMessages))
    BY <1>2
  <2>2. Moved(m, h)
    BY <1>10, <2>1 DEF Moved
  <2>3. Sent(m)
    BY DEF Sent
  <2> QED
    BY <2>2, <2>3
<1>14. /\ iCall'[m] = h /\ \A n \in 1 .. MaxMessages : n <= Len(iMessages) => iCall'[n].base = iCall[n].base
  BY <1>1, <1>13, MovedFacts
<1>15. \A d \in Inbound!Chats : OldBase(d)
  <2> SUFFICES ASSUME NEW d \in Inbound!Chats PROVE OldBase(d)
    OBVIOUS
  <2>1. CASE d = c
    <3>1. iWindow[d][1] = w /\ iWindow[d] # <<>>
      BY <1>3, <2>1, <1>4
    <3>2. iWindow'[d][1] = x
      BY <1>12, <2>1
    <3> QED
      BY <1>9, <3>1, <3>2 DEF OldBase
  <2>2. CASE d # c
    BY <1>12, <2>2 DEF OldBase
  <2> QED
    BY <2>1, <2>2
<1>16. HeardSound'
  <2>1. h.at # "transcribe"
    BY <1>10
  <2> QED
    BY <1>2, <1>13, <1>15, <2>1, HeardAsBefore
<1>17. ASSUME NEW d \in Inbound!Chats PROVE WindowSound(d)'
  <2>1. CASE d # c
    <3>1. iWindow'[d] # <<>> => iWindow'[d] = iWindow[d] /\ iWindow[d][1].owner # m
      <4>1. WindowSound(d)
        BY DEF InboundInv
      <4> QED
        BY <1>2, <1>12, <2>1, <4>1 DEF WindowSound
    <3> QED
      BY <1>2, <1>13, <3>1, WindowStays
  <2>2. CASE d = c
    <3>1. iWindow'[d][1] = x /\ x.base = w.base /\ x.owner = m /\ x.texts = texts
      BY <1>9, <1>12, <2>2
    <3>2. x.base <= x.owner /\ x.owner <= Len(iMessages') /\ iMessages'[x.base].chat = d
      <4>1. iMessages'[w.base] = iMessages[w.base]
        BY <1>1, <1>2, <1>5, <1>6, GrownFacts
      <4> QED
        BY <1>2, <1>5, <1>6, <2>2, <3>1, <4>1
    <3>3. iCall'[x.owner].at = "waiting" /\ iCall'[x.owner].base = x.base /\ iCall'[x.base].base = x.base
      <4>1. w.base <= Len(iMessages)
        BY <1>2, <1>5, <1>6
      <4> QED
        BY <1>5, <1>6, <1>10, <1>14, <3>1, <4>1
    <3>4. ASSUME NEW i \in 1 .. Len(texts)
          PROVE  x.base <= texts[i] /\ texts[i] <= x.owner /\ iCall'[texts[i]].base = x.base
      <4>1. CASE i \in 1 .. Len(w.texts) /\ texts[i] = w.texts[i]
        <5>1. w.texts[i] \in 1 .. MaxMessages
          BY <1>5, <4>1, ElementOfSeq
        <5>2. w.base <= w.texts[i] /\ w.texts[i] <= w.owner /\ iCall[w.texts[i]].base = w.base
          BY <1>6, <4>1
        <5>3. w.texts[i] <= Len(iMessages) /\ w.texts[i] <= m
          BY <1>2, <1>5, <1>6, <5>1, <5>2
        <5> QED
          BY <1>14, <3>1, <4>1, <5>1, <5>2, <5>3
      <4>2. CASE i = Len(w.texts) + 1 /\ texts[i] = m
        <5>1. w.base <= m /\ m <= m
          BY <1>2, <1>5, <1>6
        <5>2. iCall'[m].base = w.base
          BY <1>10, <1>14
        <5> QED
          BY <3>1, <4>2, <5>1, <5>2
      <4> QED
        BY <1>8, <4>1, <4>2
    <3>5. ASSUME NEW i \in 1 .. Len(texts), NEW j \in 1 .. Len(texts), texts[i] = texts[j] PROVE i = j
      <4>1. \A n \in 1 .. Len(w.texts) : w.texts[n] \in 1 .. MaxMessages /\ w.texts[n] # m
        <5> SUFFICES ASSUME NEW n \in 1 .. Len(w.texts) PROVE w.texts[n] \in 1 .. MaxMessages /\ w.texts[n] # m
          OBVIOUS
        <5>1. w.texts[n] \in 1 .. MaxMessages
          BY <1>5, ElementOfSeq
        <5> QED
          BY <1>2, <1>5, <1>6, <5>1
      <4>2. \/ i \in 1 .. Len(w.texts) /\ texts[i] = w.texts[i]
            \/ i = Len(w.texts) + 1 /\ texts[i] = m
        BY <1>8
      <4>3. \/ j \in 1 .. Len(w.texts) /\ texts[j] = w.texts[j]
            \/ j = Len(w.texts) + 1 /\ texts[j] = m
        BY <1>8
      <4> QED
        BY <1>6, <3>5, <4>1, <4>2, <4>3
    <3> QED
      <4>1. /\ \A i \in 1 .. Len(x.texts) : x.base <= x.texts[i] /\ x.texts[i] <= x.owner /\ iCall'[x.texts[i]].base = x.base
            /\ \A i, j \in 1 .. Len(x.texts) : x.texts[i] = x.texts[j] => i = j
        <5>1. /\ \A i \in 1 .. Len(texts) : x.base <= texts[i] /\ texts[i] <= x.owner /\ iCall'[texts[i]].base = x.base
              /\ \A i, j \in 1 .. Len(texts) : texts[i] = texts[j] => i = j
          BY <3>4, <3>5
        <5>2. x.texts = texts
          BY <3>1
        <5> QED
          BY <5>1, <5>2, ZenonT(30)
      <4>2. iWindow'[d][1] = x
        BY <3>1
      <4> QED
        BY <3>2, <3>3, <4>1, <4>2, WindowKept
  <2> QED
    BY <2>1, <2>2
<1>18. \A n \in 1 .. MaxMessages : HandlerSound(n)'
  <2>1. h.at # "none" /\ h.base <= m /\ m <= Len(iMessages')
    BY <1>2, <1>5, <1>6, <1>10
  <2> QED
    BY <1>2, <1>13, <2>1, HandlersSound
<1>19. \A n \in 1 .. MaxMessages : ReplySound(n)'
  <2>1. iCall'[m].left = iCall[m].left /\ iCall'[m].at = "waiting" /\ ReplySound(m)
    BY <1>10, <1>14 DEF InboundInv
  <2>2. ReplySound(m)'
    BY <1>1, <1>2, <2>1, ReplyWaits
  <2> QED
    BY <1>2, <1>13, <2>2, OtherReplies
<1>20. InboundTypes'
  <2>1. iHeard' \in Seq(1 .. MaxMessages)
    BY <1>1 DEF InboundTypes
  <2> QED
    BY <1>1, <1>2, <1>12, <1>13, <2>1, TypesAfter
<1> QED
  BY <1>16, <1>17, <1>18, <1>19, <1>20 DEF InboundInv

\* A message opens a window.
LEMMA OpenInv ==
  ASSUME InboundInv, NEW k \in Kinds, iMessages' = Append(iMessages, k), NEW m \in 1 .. MaxMessages, m = Len(iMessages) + 1,
         iWindow[k.chat] = <<>>, NEW mine \in {<<>>, <<m>>},
         iWindow' = [iWindow EXCEPT ![k.chat] = <<[base |-> m, texts |-> mine, owner |-> m]>>],
         iCall' = [iCall EXCEPT ![m].at = "waiting", ![m].base = m],
         iDebounced' = iDebounced, iStopped' = iStopped, iOutbox' = iOutbox, iHeard' = iHeard
  PROVE  InboundInv'
<1>1. InboundTypes /\ HeardSound
  BY DEF InboundInv
<1>2. /\ Grown /\ Len(iMessages) \in Nat /\ k.chat \in Inbound!Chats
      /\ Len(iMessages') = m /\ iMessages'[m] = k /\ iCall[m].at = "none" /\ iCall[m].base = 0
  BY Comes
<1>3. PICK c \in Inbound!Chats : c = k.chat
  BY <1>2
<1>4. mine \in Seq(1 .. MaxMessages) /\ Len(mine) \in 0 .. 1 /\ \A i \in 1 .. Len(mine) : i = 1 /\ mine[i] = m
  <2>1. CASE mine = <<>>
    BY <2>1
  <2>2. CASE mine = <<m>>
    BY <2>2
  <2> QED
    BY <2>1, <2>2
<1>5. PICK x \in Windows : x = [base |-> m, texts |-> mine, owner |-> m] /\ x.texts = mine /\ x.owner = m /\ x.base = m
  BY <1>4 DEF Windows
<1>6. PICK h \in Handlers : /\ iCall' = [iCall EXCEPT ![m] = h]
                            /\ h.at = "waiting" /\ h.base = m /\ h.left = iCall[m].left
  <2>1. iCall \in [1 .. MaxMessages -> Handlers] /\ iCall[m] \in Handlers
    BY <1>1 DEF InboundTypes
  <2>2. m \in 0 .. MaxMessages
    OBVIOUS
  <2>3. [iCall[m] EXCEPT !.at = "waiting", !.base = m] \in Handlers
    BY <2>1, <2>2 DEF Handlers, Stages
  <2>4. iCall' = [iCall EXCEPT ![m] = [iCall[m] EXCEPT !.at = "waiting", !.base = m]]
    BY <2>1
  <2> QED
    BY <2>1, <2>3, <2>4 DEF Handlers
<1>7. /\ WindowsTyped /\ iWindow'[c] = <<x>> /\ iWindow'[c][1] = x
      /\ \A d \in Inbound!Chats : d # c => iWindow'[d] = iWindow[d]
  <2>1. iWindow' = [iWindow EXCEPT ![c] = <<x>>]
    BY <1>3, <1>5
  <2> QED
    BY <1>1, <2>1, WindowPut
<1>8. Moved(m, h) /\ Sent(m)
  <2>1. ~(m <= Len(iMessages))
    BY <1>2
  <2>2. Moved(m, h)
    BY <1>6, <2>1 DEF Moved
  <2>3. Sent(m)
    BY DEF Sent
  <2> QED
    BY <2>2, <2>3
<1>9. iCall'[m] = h
  BY <1>1, <1>8, MovedFacts
<1>10. \A d \in Inbound!Chats : OldBase(d)
  <2> SUFFICES ASSUME NEW d \in Inbound!Chats PROVE OldBase(d)
    OBVIOUS
  <2>1. CASE d = c
    <3>1. iWindow'[d][1] = x
      BY <1>7, <2>1
    <3>2. iWindow'[d][1].base > Len(iMessages)
      BY <1>2, <1>5, <3>1
    <3> QED
      BY <3>2 DEF OldBase
  <2>2. CASE d # c
    BY <1>7, <2>2 DEF OldBase
  <2> QED
    BY <2>1, <2>2
<1>11. HeardSound'
  <2>1. h.at # "transcribe"
    BY <1>6
  <2> QED
    BY <1>2, <1>8, <1>10, <2>1, HeardAsBefore
<1>12. ASSUME NEW d \in Inbound!Chats PROVE WindowSound(d)'
  <2>1. CASE d # c
    <3>1. iWindow'[d] # <<>> => iWindow'[d] = iWindow[d] /\ iWindow[d][1].owner # m
      <4>1. WindowSound(d)
        BY DEF InboundInv
      <4> QED
        BY <1>2, <1>7, <2>1, <4>1 DEF WindowSound
    <3> QED
      BY <1>2, <1>8, <3>1, WindowStays
  <2>2. CASE d = c
    <3>1. iWindow'[d][1] = x /\ x.base = m /\ x.owner = m /\ x.texts = mine
      BY <1>5, <1>7, <2>2
    <3>2. x.base <= x.owner /\ x.owner <= Len(iMessages') /\ iMessages'[x.base].chat = d
      BY <1>2, <1>3, <2>2, <3>1
    <3>3. iCall'[x.owner].at = "waiting" /\ iCall'[x.owner].base = x.base /\ iCall'[x.base].base = x.base
      BY <1>6, <1>9, <3>1
    <3>4. \A i \in 1 .. Len(mine) : x.base <= mine[i] /\ mine[i] <= x.owner /\ iCall'[mine[i]].base = x.base
      <4>1. x.base <= m /\ m <= x.owner /\ iCall'[m].base = x.base
        BY <1>6, <1>9, <3>1
      <4> QED
        BY <1>4, <4>1
    <3>5. \A i, j \in 1 .. Len(mine) : mine[i] = mine[j] => i = j
      BY <1>4
    <3> QED
      <4>1. /\ \A i \in 1 .. Len(x.texts) : x.base <= x.texts[i] /\ x.texts[i] <= x.owner /\ iCall'[x.texts[i]].base = x.base
            /\ \A i, j \in 1 .. Len(x.texts) : x.texts[i] = x.texts[j] => i = j
        <5>1. /\ \A i \in 1 .. Len(mine) : x.base <= mine[i] /\ mine[i] <= x.owner /\ iCall'[mine[i]].base = x.base
              /\ \A i, j \in 1 .. Len(mine) : mine[i] = mine[j] => i = j
          BY <3>4, <3>5
        <5>2. x.texts = mine
          BY <3>1
        <5> QED
          BY <5>1, <5>2, ZenonT(30)
      <4>2. iWindow'[d][1] = x
        BY <3>1
      <4> QED
        BY <3>2, <3>3, <4>1, <4>2, WindowKept
  <2> QED
    BY <2>1, <2>2
<1>13. \A n \in 1 .. MaxMessages : HandlerSound(n)'
  <2>1. h.at # "none" /\ h.base <= m /\ m <= Len(iMessages')
    BY <1>2, <1>6
  <2> QED
    BY <1>2, <1>8, <2>1, HandlersSound
<1>14. \A n \in 1 .. MaxMessages : ReplySound(n)'
  <2>1. iCall'[m].left = iCall[m].left /\ iCall'[m].at = "waiting" /\ ReplySound(m)
    BY <1>6, <1>9 DEF InboundInv
  <2>2. ReplySound(m)'
    BY <1>1, <1>2, <2>1, ReplyWaits
  <2> QED
    BY <1>2, <1>8, <2>2, OtherReplies
<1>15. InboundTypes'
  <2>1. iHeard' \in Seq(1 .. MaxMessages)
    BY <1>1 DEF InboundTypes
  <2> QED
    BY <1>1, <1>2, <1>7, <1>8, <2>1, TypesAfter
<1> QED
  BY <1>11, <1>12, <1>13, <1>14, <1>15 DEF InboundInv

LEMMA ArriveInv ==
  ASSUME InboundInv, NEW k \in Kinds, Inbound!Arrive(k)
  PROVE  InboundInv'
<1>1. /\ iMessages' = Append(iMessages, k) /\ Len(iMessages) + 1 <= MaxMessages
      /\ iDebounced' = iDebounced /\ iStopped' = iStopped
  BY DEF Inbound!Arrive
<1>2. /\ Grown /\ Len(iMessages) \in Nat /\ Len(iMessages) + 1 \in 1 .. MaxMessages /\ k.chat \in Inbound!Chats
      /\ Len(iMessages') = Len(iMessages) + 1 /\ iMessages'[Len(iMessages) + 1] = k
      /\ iCall[Len(iMessages) + 1].at = "none" /\ iCall[Len(iMessages) + 1].base = 0
  BY <1>1, Comes
<1>3. PICK m \in 1 .. MaxMessages : m = Len(iMessages) + 1
  BY <1>2
<1>4. PICK mine \in {<<>>, <<m>>} : mine = Inbound!TextOf(Append(iMessages, k), m)
  BY DEF Inbound!TextOf
<1>5. CASE iDebounced /\ iWindow[k.chat] # <<>>
  <2>1. /\ iWindow' = [iWindow EXCEPT ![k.chat] =
                          <<[iWindow[k.chat][1] EXCEPT !.texts = iWindow[k.chat][1].texts \o mine, !.owner = m]>>]
        /\ iCall' = [iCall EXCEPT ![m].at = "waiting", ![m].base = iWindow[k.chat][1].base]
        /\ iOutbox' = iOutbox /\ iHeard' = iHeard
    BY <1>2, <1>3, <1>4, <1>5 DEF Inbound!Arrive, Inbound!Joins
  <2> QED
    BY <1>1, <1>3, <1>5, <2>1, JoinInv
<1>6. CASE iDebounced /\ iWindow[k.chat] = <<>>
  <2>1. /\ iWindow' = [iWindow EXCEPT ![k.chat] = <<[base |-> m, texts |-> mine, owner |-> m]>>]
        /\ iCall' = [iCall EXCEPT ![m].at = "waiting", ![m].base = m]
        /\ iOutbox' = iOutbox /\ iHeard' = iHeard
    BY <1>3, <1>4, <1>6 DEF Inbound!Arrive
  <2> QED
    BY <1>1, <1>3, <1>6, <2>1, OpenInv
<1>7. CASE ~iDebounced
  <2>1. Inbound!Handled(iCall, iMessages', m, m, mine) /\ iWindow' = iWindow
    BY <1>1, <1>3, <1>4, <1>7 DEF Inbound!Arrive
  <2>2. mine \in Seq(1 .. MaxMessages) /\ \A i \in 1 .. Len(mine) : i = 1 /\ mine[i] = m
    <3>1. CASE mine = <<>>
      BY <3>1
    <3>2. CASE mine = <<m>>
      BY <3>2
    <3> QED
      BY <3>1, <3>2
  <2>3. InboundTypes /\ HeardSound
    BY DEF InboundInv
  <2>4. WindowsTyped
    BY <2>1, <2>3 DEF InboundTypes, WindowsTyped
  <2>5. ASSUME NEW c \in Inbound!Chats, iWindow'[c] # <<>>
        PROVE  iWindow'[c] = iWindow[c] /\ iWindow[c][1].owner # m /\ iWindow[c][1].base # m
    <3>1. WindowSound(c) /\ iWindow[c] # <<>>
      BY <2>1, <2>5 DEF InboundInv
    <3>2. iWindow[c][1].base \in 1 .. MaxMessages /\ iWindow[c][1].owner \in 1 .. MaxMessages
      BY <2>3, <3>1, WindowTypes
    <3>3. iWindow[c][1].base <= iWindow[c][1].owner /\ iWindow[c][1].owner <= Len(iMessages)
      BY <3>1 DEF WindowSound
    <3> QED
      BY <1>2, <1>3, <2>1, <3>2, <3>3
  <2>6. Fresh(m)
    <3>1. \A b : Admitted(b) => b # m
      BY <1>2, <1>3 DEF Admitted
    <3>2. \A i \in 1 .. Len(iHeard) : iCall[iHeard[i]].base # m
      BY <2>3, <3>1 DEF HeardSound
    <3>3. \A n \in 1 .. MaxMessages : iCall[n].at = "transcribe" => iCall[n].base # m
      BY <2>3, <3>1 DEF HeardSound
    <3> QED
      BY <2>5, <3>2, <3>3 DEF Fresh
  <2>7. m <= m /\ m <= Len(iMessages') /\ m = Len(iMessages') /\ iCall[m].at \in {"none", "waiting"} /\ ~(m <= Len(iMessages))
    BY <1>2, <1>3
  <2>8. \A i, j \in 1 .. Len(mine) : mine[i] = mine[j] => i = j
    BY <2>2
  <2> QED
    BY <1>1, <1>2, <2>1, <2>2, <2>4, <2>5, <2>6, <2>7, <2>8, HandledInv
<1> QED
  BY <1>5, <1>6, <1>7

LEMMA InboundStep == InboundInv /\ [Inbound!Next]_InboundVars => InboundInv'
<1> SUFFICES ASSUME InboundInv, [Inbound!Next]_InboundVars PROVE InboundInv'
  OBVIOUS
<1>1. CASE Inbound!Next
  <2>1. \/ \E k \in Kinds : Inbound!Arrive(k)
        \/ \E c \in Inbound!Chats : Inbound!Flush(c) \/ \E text \in Texts : Inbound!SendProactive(c, text)
        \/ \E m \in 1 .. MaxMessages : \/ Inbound!Transcribe(m) \/ Inbound!Fail(m) \/ Inbound!NextChunk(m)
                                       \/ \E text \in Texts : Inbound!Reply(m, text)
        \/ Inbound!Shutdown
    BY <1>1 DEF Inbound!Next, Inbound!Numbers
  <2> QED
    BY <2>1, ArriveInv, FlushInv, SendProactiveInv, TranscribeInv, FailInv, NextChunkInv, ReplyInv, ShutdownInv
<1>2. CASE UNCHANGED InboundVars
  BY <1>2, InboundStays
<1> QED
  BY <1>1, <1>2

LEMMA InboundHolds == Spec => []InboundInv
<1>1. InboundInv /\ [Next]_vars => InboundInv'
  BY InboundPart, InboundStep
<1> QED
  BY <1>1, InboundInitially, PTL DEF Spec

(***************************************************************************)
(* The components together.                                                 *)
(***************************************************************************)

LEMMA WebhooksTyped == WebhookInv => Webhook!TypeOK
<1> SUFFICES ASSUME WebhookInv PROVE Webhook!TypeOK
  OBVIOUS
<1>1. ASSUME NEW k \in Keys PROVE wTurns[k] <= Cardinality(Deliveries)
  <2>1. IsFiniteSet(Deliveries) /\ Past(k) \subseteq Deliveries
    BY RuntimeAssumption DEF Past
  <2>2. Cardinality(Past(k)) <= Cardinality(Deliveries) /\ Cardinality(Past(k)) \in Nat /\ Cardinality(Deliveries) \in Nat
    BY <2>1, FS_Subset, FS_CardinalityType
  <2>3. wTurns[k] <= Cardinality(Past(k)) /\ wTurns[k] \in Nat
    BY DEF WebhookInv, Counts, WebhookTypes
  <2> QED
    BY <2>2, <2>3
<1>2. Webhook!Cardinality(Deliveries) = Cardinality(Deliveries)
  BY DEF Webhook!Cardinality, Cardinality
<1>3. \A k \in Keys : wReceipt[k] \in {"none", "accepted", "rejected"}
  BY DEF WebhookInv, WebhookTypes
<1>4. \A d \in Deliveries : wDelivery[d].at \in {"new", "over", "lost"} \cup Webhook!Under
  BY DEF WebhookInv, WebhookTypes, Requests, Places
<1>5. wFaults \in 0 .. Faults + 1
  BY DEF WebhookInv, WebhookTypes
<1> QED
  BY <1>1, <1>2, <1>3, <1>4, <1>5 DEF Webhook!TypeOK

LEMMA ServersTyped == McpInv => Mcp!TypeOK
BY RuntimeAssumption DEF McpInv, McpTypes, BreakerSound, CallSound, Mcp!TypeOK

LEMMA TurnsTyped == TalkInv => Talk!TypeOK
BY DEF TalkInv, TalkTypes, TurnRecords, Talk!TypeOK

LEMMA MemoryTyped == MemoryInv => Memory!TypeOK
<1> SUFFICES ASSUME MemoryInv PROVE Memory!TypeOK
  OBVIOUS
<1>1. ASSUME NEW r \in DOMAIN sMemory PROVE sMemory[r].node \in Memory!Node /\ sMemory[r].linked \in BOOLEAN
  <2>1. sMemory[r] \in MemoryRows
    BY DEF MemoryInv, MemoryTypes
  <2> QED
    BY <2>1 DEF MemoryRows
<1>2. sNodes \subseteq Memory!Node /\ sCut \subseteq Memory!Node /\ sBegun \in 0 .. MaxTurns /\ sFaults \in 0 .. Faults
  BY DEF MemoryInv, MemoryTypes
<1> QED
  BY <1>1, <1>2 DEF Memory!TypeOK

LEMMA InboundTyped == InboundInv => Inbound!TypeOK
<1> SUFFICES ASSUME InboundInv PROVE Inbound!TypeOK
  OBVIOUS
<1>1. iMessages \in Seq(Kinds \cup Own) /\ DOMAIN iMessages = 1 .. Len(iMessages) /\ Len(iMessages) \in Nat
      /\ Len(iMessages) <= MaxMessages /\ MaxMessages \in Nat /\ InboundTypes /\ HeardSound
  BY LenProperties, TextsSpoken DEF InboundInv, InboundTypes
<1>2. ASSUME NEW c \in Inbound!Chats, iWindow[c] # <<>>
      PROVE  /\ iWindow[c][1].owner \in DOMAIN iMessages /\ iCall[iWindow[c][1].owner].at = "waiting"
             /\ Inbound!Range(iWindow[c][1].texts) \subseteq iWindow[c][1].base..iWindow[c][1].owner
  <2>1. WindowSound(c)
    BY DEF InboundInv
  <2>2. PICK w : w = iWindow[c][1]
    OBVIOUS
  <2>3. /\ w.owner \in 1 .. MaxMessages /\ w.base \in 1 .. MaxMessages /\ w.texts \in Seq(1 .. MaxMessages)
        /\ \A i \in 1 .. Len(w.texts) : w.texts[i] \in 1 .. MaxMessages
    BY <1>1, <1>2, <2>2, WindowTypes
  <2>4. /\ w.owner <= Len(iMessages) /\ iCall[w.owner].at = "waiting"
        /\ \A i \in 1 .. Len(w.texts) : w.base <= w.texts[i] /\ w.texts[i] <= w.owner
    BY <1>2, <2>1, <2>2 DEF WindowSound
  <2>5. \A i \in 1 .. Len(w.texts) : w.texts[i] \in w.base .. w.owner
    BY <2>3, <2>4
  <2>6. Inbound!Range(w.texts) \subseteq w.base .. w.owner
    <3>1. DOMAIN w.texts = 1 .. Len(w.texts)
      BY <2>3, LenProperties
    <3> QED
      BY <2>5, <3>1 DEF Inbound!Range
  <2> QED
    BY <1>1, <2>2, <2>3, <2>4, <2>6
<1>3. ASSUME NEW m \in DOMAIN iMessages PROVE iCall[m].at # "none" /\ ((iCall[m].left # <<>>) <=> (iCall[m].at = "chunks"))
  <2>1. m \in 1 .. MaxMessages /\ m <= Len(iMessages)
    BY <1>1
  <2>2. HandlerSound(m) /\ ReplySound(m)
    BY <2>1 DEF InboundInv
  <2> QED
    BY <2>1, <2>2 DEF HandlerSound, ReplySound
<1>4. Inbound!Range(iHeard) \subseteq DOMAIN iMessages
  <2>1. iHeard \in Seq(1 .. MaxMessages) /\ DOMAIN iHeard = 1 .. Len(iHeard)
    BY <1>1, LenProperties DEF InboundTypes
  <2>2. \A i \in 1 .. Len(iHeard) : iHeard[i] \in 1 .. MaxMessages /\ iHeard[i] <= Len(iMessages)
    BY <1>1, <2>1, ElementOfSeq DEF HeardSound
  <2> QED
    BY <1>1, <2>1, <2>2 DEF Inbound!Range
<1> QED
  BY <1>2, <1>3, <1>4 DEF Inbound!TypeOK

LEMMA InboundReplies == InboundInv => Inbound!RepliesWhole
<1> SUFFICES ASSUME InboundInv PROVE Inbound!RepliesWhole
  OBVIOUS
<1>1. iMessages \in Seq(Kinds \cup Own) /\ DOMAIN iMessages = 1 .. Len(iMessages) /\ Len(iMessages) \in Nat
      /\ Len(iMessages) <= MaxMessages /\ MaxMessages \in Nat /\ InboundTypes /\ HeardSound
  BY LenProperties, TextsSpoken DEF InboundInv, InboundTypes
<1>2. ASSUME NEW m \in DOMAIN iMessages, iCall[m].at = "replied"
      PROVE  /\ Inbound!ItemsSent(m) = Inbound!Sentences(iCall[m].text)
             /\ \A o \in Inbound!Range(iOutbox) : o.call = m => o.chat = Inbound!Chat(m)
  <2>1. m \in 1 .. MaxMessages
    BY <1>1
  <2>2. ReplySound(m)
    BY <2>1 DEF InboundInv
  <2>3. DOMAIN iOutbox = 1 .. Len(iOutbox)
    BY <1>1, LenProperties DEF InboundTypes
  <2> QED
    BY <1>2, <2>2, <2>3 DEF ReplySound, Inbound!Range, Inbound!Chat
<1>3. DOMAIN iHeard = 1 .. Len(iHeard)
  BY <1>1, LenProperties DEF InboundTypes
<1>4. \A i, j \in DOMAIN iHeard : iHeard[i] = iHeard[j] => i = j
  BY <1>1, <1>3 DEF HeardSound
<1>5. \A m \in Inbound!Range(iHeard) : iMessages[iCall[m].base].sender \in Allowed
  BY <1>1, <1>3 DEF HeardSound, Admitted, Inbound!Range
<1> QED
  BY <1>2, <1>4, <1>5 DEF Inbound!RepliesWhole

(***************************************************************************)
(* The chunker by itself.                                                   *)
(***************************************************************************)

Composed == cText \in Seq(Spoken(Nat))

LEMMA Composes == (Init => Composed) /\ (Composed /\ [Next]_vars => Composed')
<1>1. Init => Composed
  <2>1. <<>> \in Seq(Spoken(Nat))
    BY EmptySeq
  <2> QED
    BY <2>1 DEF Init, Composed
<1>2. ASSUME Composed, Compose PROVE Composed'
  <2>1. Inbound!Flat(cText) \in Seq(Said(Nat))
    <3>1. CASE cText = <<>>
      BY <3>1, FlatOfNone, EmptySeq
    <3>2. CASE cText # <<>>
      <4>1. cText \in Seq(Spoken(Nat))
        BY <1>2 DEF Composed
      <4>2. Bounds(Int, cText)
        BY DEF Bounds, UpTo
      <4>3. Inbound!Flat(cText) \in Spoken(Nat)
        BY <3>2, <4>1, <4>2, FlatTextFacts
      <4> QED
        BY <4>3 DEF Spoken
    <3> QED
      BY <3>1, <3>2
  <2>2. PICK l \in Lengths : cText' \in Longer([id |-> Len(Inbound!Flat(cText)) + 1, len |-> l])
    BY <1>2 DEF Compose
  <2>3. Len(Inbound!Flat(cText)) + 1 \in Nat
    BY <2>1, LenProperties
  <2>4. PICK s \in Said(Nat) : s = [id |-> Len(Inbound!Flat(cText)) + 1, len |-> l]
    BY <2>3, InboundAssumption DEF Said
  <2>5. <<s>> \in Spoken(Nat)
    BY DEF Spoken
  <2>6. CASE cText = <<>>
    <3>1. cText' = <<<<s>>>>
      BY <2>2, <2>4, <2>6 DEF Longer
    <3> HIDE DEF Spoken
    <3> QED
      BY <2>5, <3>1 DEF Composed
  <2>7. CASE cText # <<>>
    <3>1. cText' = Append(cText, <<s>>) \/ cText' = [cText EXCEPT ![Len(cText)] = Append(@, s)]
      BY <2>2, <2>4, <2>7 DEF Longer
    <3>2. PICK t \in Seq(Spoken(Nat)) : t = cText
      BY <1>2 DEF Composed
    <3>3. Append(t, <<s>>) \in Seq(Spoken(Nat))
      BY <2>5, AppendProperties
    <3>4. [t EXCEPT ![Len(t)] = Append(@, s)] \in Seq(Spoken(Nat))
      <4>1. Len(t) \in 1 .. Len(t) /\ Len(t) \in Nat
        BY <2>7, <3>2, EmptySeq, LenProperties
      <4>2. t[Len(t)] \in Spoken(Nat)
        BY <4>1, ElementOfSeq
      <4>3. Append(t[Len(t)], s) \in Spoken(Nat)
        <5>1. PICK p \in Seq(Said(Nat)) : p = t[Len(t)]
          BY <4>2 DEF Spoken
        <5>2. Append(p, s) \in Seq(Said(Nat)) /\ Len(Append(p, s)) = Len(p) + 1 /\ Len(p) \in Nat
          BY AppendProperties, LenProperties
        <5>3. Append(p, s) # <<>>
          <6>1. Len(Append(p, s)) # 0
            BY <5>2
          <6> QED
            BY <6>1, EmptySeq
        <5> QED
          BY <5>1, <5>2, <5>3 DEF Spoken
      <4> QED
        BY <4>1, <4>3, ExceptSeq
    <3> QED
      BY <3>1, <3>2, <3>3, <3>4 DEF Composed
  <2> QED
    BY <2>6, <2>7
<1>3. ASSUME Composed, [Next]_vars PROVE Composed'
  <2>1. Compose \/ cText' = cText
    BY <1>3 DEF Next, Rest, vars
  <2> QED
    BY <1>2, <1>3, <2>1 DEF Composed
<1> QED
  BY <1>1, <1>3

(***************************************************************************)
(* The theorems.                                                            *)
(***************************************************************************)

\* However replies and pauses interleave, a chat gets every sentence of every reply once and in
\* order (dispatcher.ts, block-chunker.ts); no text is handed to the gateway twice, and what it hears
\* came in a window an allowed sender opened (inbound-debounce.ts); and whatever text is cut, in
\* whichever configuration, its chunks are all of it and no longer than they may be.
THEOREM RepliesAreWhole == Spec => []RepliesWhole
<1>1. InboundInv /\ Composed => RepliesWhole
  <2> SUFFICES ASSUME InboundInv, Composed PROVE Inbound!RepliesWhole /\ Inbound!ChunksWhole(cText)
    BY DEF RepliesWhole
  <2>1. Inbound!RepliesWhole
    BY InboundReplies
  <2>2. Inbound!ChunksWhole(cText)
    BY EveryTextIsWhole DEF Composed
  <2> QED
    BY <2>1, <2>2
<1>2. Spec => []Composed
  BY Composes, PTL DEF Spec
<1> QED
  BY <1>1, <1>2, InboundHolds, PTL

\* The state of every component in the memory of the process keeps its shape.
THEOREM RuntimeIsTyped == Spec => []RuntimeTypeOK
<1>1. /\ WebhookInv /\ InboundInv /\ McpInv /\ TalkInv /\ MemoryInv
      /\ JobsInv /\ JobsCounted /\ HubInv /\ HubCounted /\ BrowserInv /\ BrowserCounted
      => RuntimeTypeOK
  BY WebhooksTyped, InboundTyped, ServersTyped, JobsTyped, TurnsTyped, HubTyped, BrowserTyped, MemoryTyped
     DEF RuntimeTypeOK
<1>2. Spec => [](WebhookInv /\ McpInv /\ MemoryInv)
  BY WebhookInitially, WebhookStep, WebhookPart, McpInitially, McpStep, McpPart, MemoryInitially, MemoryStep, MemoryPart,
     PTL DEF Spec
<1>3. Spec => [](TalkInv /\ SessionsKnown)
  BY TalkHolds
<1>4. Spec => [](JobsInv /\ JobsCounted)
  BY JobsInitially, JobsStep, JobsCount, JobsPart, PTL DEF Spec
<1>5. Spec => [](HubInv /\ HubCounted)
  BY HubInitially, HubStep, HubCounts, HubPart, PTL DEF Spec
<1>6. Spec => [](BrowserInv /\ BrowserCounted)
  BY BrowserInitially, BrowserStep, BrowserCounts, BrowserPart, PTL DEF Spec
<1> QED
  BY <1>1, <1>2, <1>3, <1>4, <1>5, <1>6, InboundHolds, PTL
=============================================================================
