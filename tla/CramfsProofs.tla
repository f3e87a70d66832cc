------------------------------ MODULE CramfsProofs -----------------------------
(****************************************************************************)
(* Proofs about Cramfs, for any trees that meet the assumptions on them,    *)
(* any names, sizes of blocks and widths of the fields.                     *)
(****************************************************************************)
EXTENDS Cramfs, SequenceTheorems, WellFoundedInduction, TLAPS

--------------------------------------------------------------------------------
(* Numbers *)

\* What stands in for induction: a set of counterexamples has a least one.
LEMMA Least ==
  ASSUME NEW T \in SUBSET Nat, T # {}
  PROVE  \E x \in T : \A y \in T : x <= y
<1> DEFINE R == OpToRel(<, Nat)
<1>1. IsWellFoundedOn(R, Nat)
  BY NatLessThanWellFounded
<1>2. \A x, y \in Nat : x < y => <<x, y>> \in R
  BY DEF OpToRel
<1> HIDE DEF R
<1>3. \E x \in T : \A y \in T : ~ (<<y, x>> \in R)
  BY <1>1, WFMin
<1>4. PICK x \in T : \A y \in T : ~ (<<y, x>> \in R)
  BY <1>3
<1>5. ASSUME NEW y \in T PROVE x <= y
  <2>1. ~(y < x)
    BY <1>2, <1>4
  <2> QED
    BY <2>1
<1> QED
  BY <1>5

\* A name is a number, and every name takes at least one byte.
LEMMA NamesAreNumbers == Names \in SUBSET Nat /\ \A n \in Names : NameLen[n] \in Nat \ {0}
BY WidthsAssumption DEF Names

\* sorted() begins with the least name.
LEMMA FirstIsLeast ==
  ASSUME NEW names \in SUBSET Names, names # {}
  PROVE  First(names) \in names /\ \A m \in names : First(names) <= m
<1>1. \E n \in names : \A m \in names : n <= m
  BY Least, NamesAreNumbers
<1> QED
  BY <1>1 DEF First

\* Padding makes nothing shorter.
LEMMA PaddedIs ==
  ASSUME NEW bytes \in Nat
  PROVE  Padded(bytes) \in Nat /\ bytes <= Padded(bytes)
BY DEF Padded

\* A slot takes room.
LEMMA SlotTakes ==
  ASSUME NEW n \in Names
  PROVE  SlotSize(n) \in Nat \ {0}
<1>1. Padded(NameLen[n]) \in Nat
  BY NamesAreNumbers, PaddedIs
<1> QED
  BY <1>1 DEF SlotSize

\* There is a function of the ends: the recursive definition of Sums has a value ...
LEMMA SumsExist ==
  ASSUME NEW lengths \in Seq(Nat), NEW start \in Nat, NEW m \in 0..Len(lengths)
  PROVE  \E end \in [0..m -> Nat] :
           /\ end[0] = start
           /\ \A i \in 1..m : end[i] = end[i - 1] + lengths[i]
<1> DEFINE Ends(k, end) == /\ end[0] = start
                           /\ \A i \in 1..k : end[i] = end[i - 1] + lengths[i]
           bad == {k \in 0..Len(lengths) : ~ \E end \in [0..k -> Nat] : Ends(k, end)}
<1>1. Len(lengths) \in Nat /\ \A i \in 1..Len(lengths) : lengths[i] \in Nat
  OBVIOUS
<1>2. ASSUME bad # {} PROVE FALSE
  <2>1. bad \in SUBSET Nat
    BY <1>1
  <2>2. PICK k \in bad : \A j \in bad : k <= j
    <3> HIDE DEF bad
    <3> QED
      BY <1>2, <2>1, Least
  <2>3. k \in 0..Len(lengths) /\ k \in Nat
    BY <1>1, <2>2
  <2>4. k # 0
    <3>1. [i \in 0..0 |-> start] \in [0..0 -> Nat] /\ Ends(0, [i \in 0..0 |-> start])
      OBVIOUS
    <3> QED
      BY <2>2, <3>1
  <2>5. k - 1 \in 0..Len(lengths) /\ k - 1 \notin bad
    <3>1. k - 1 \in 0..Len(lengths) /\ ~(k <= k - 1)
      BY <1>1, <2>3, <2>4
    <3> HIDE DEF bad
    <3> QED
      BY <2>2, <3>1
  <2>6. PICK end \in [0..(k - 1) -> Nat] : Ends(k - 1, end)
    BY <2>5
  <2> DEFINE more == [i \in 0..k |-> IF i = k THEN end[k - 1] + lengths[k] ELSE end[i]]
  <2>7. more \in [0..k -> Nat]
    BY <1>1, <2>3, <2>4
  <2>8. Ends(k, more)
    <3>1. more[0] = start
      BY <2>3, <2>4, <2>6
    <3>2. ASSUME NEW i \in 1..k PROVE more[i] = more[i - 1] + lengths[i]
      BY <2>3, <2>4, <2>6
    <3> QED
      BY <3>1, <3>2
  <2> QED
    BY <2>2, <2>7, <2>8
<1> QED
  BY <1>2

\* ... and it is the one that is meant.
LEMMA SumsAre ==
  ASSUME NEW lengths \in Seq(Nat), NEW start \in Nat
  PROVE  LET end == Sums(start, lengths)
         IN  /\ end \in [0..Len(lengths) -> Nat] /\ end[0] = start
             /\ \A i \in 1..Len(lengths) : end[i] = end[i - 1] + lengths[i]
<1> DEFINE def(end) == [i \in 0..Len(lengths) |-> IF i = 0 THEN start ELSE end[i - 1] + lengths[i]]
<1>1. Len(lengths) \in Nat
  OBVIOUS
<1>2. PICK end \in [0..Len(lengths) -> Nat] :
           /\ end[0] = start
           /\ \A i \in 1..Len(lengths) : end[i] = end[i - 1] + lengths[i]
  <2>1. Len(lengths) \in 0..Len(lengths)
    BY <1>1
  <2> QED
    BY <2>1, SumsExist
<1>3. end = def(end)
  BY <1>1, <1>2
<1>4. Sums(start, lengths) = CHOOSE e : e = def(e)
  BY DEF Sums
<1>5. Sums(start, lengths) = def(Sums(start, lengths))
  <2> HIDE DEF def
  <2> QED
    BY <1>3, <1>4
<1>6. ASSUME NEW e, e = def(e), NEW j \in 0..Len(lengths), e[j] # end[j] PROVE FALSE
  <2> DEFINE bad == {i \in 0..Len(lengths) : e[i] # end[i]}
  <2>1. bad \in SUBSET Nat /\ bad # {}
    <3>1. j \in bad
      BY <1>6
    <3>2. bad \in SUBSET Nat
      BY <1>1
    <3> HIDE DEF bad
    <3> QED
      BY <3>1, <3>2
  <2>2. PICK k \in bad : \A i \in bad : k <= i
    <3> HIDE DEF bad
    <3> QED
      BY <2>1, Least
  <2>3. k \in 0..Len(lengths) /\ e[k] # end[k]
    BY <2>2
  <2>4. k # 0 => k - 1 \notin bad /\ k - 1 \in 0..Len(lengths)
    <3>1. k # 0 => k - 1 \in 0..Len(lengths) /\ ~(k <= k - 1)
      BY <1>1, <2>3
    <3> HIDE DEF bad
    <3> QED
      BY <2>2, <3>1
  <2>5. k # 0 => e[k - 1] = end[k - 1]
    BY <2>4
  <2>6. e[k] = IF k = 0 THEN start ELSE e[k - 1] + lengths[k]
    BY <1>6, <2>3
  <2> QED
    BY <1>1, <1>2, <2>3, <2>5, <2>6
<1>7. \A e : e = def(e) => e = end
  <2> SUFFICES ASSUME NEW e, e = def(e) PROVE e = end
    OBVIOUS
  <2>1. \A j \in 0..Len(lengths) : e[j] = end[j]
    <3> HIDE DEF def
    <3> QED
      BY <1>6
  <2>2. e = [j \in 0..Len(lengths) |-> e[j]]
    OBVIOUS
  <2> QED
    BY <2>1, <2>2
<1>8. Sums(start, lengths) = end
  <2> HIDE DEF def
  <2> QED
    BY <1>5, <1>7
<1> QED
  BY <1>2, <1>8

\* Each ends behind what comes before it.
LEMMA SumsGrow ==
  ASSUME NEW lengths \in Seq(Nat), NEW start \in Nat, NEW end \in [0..Len(lengths) -> Nat],
         \A i \in 1..Len(lengths) : end[i] = end[i - 1] + lengths[i],
         NEW i \in 0..Len(lengths), NEW j \in i..Len(lengths)
  PROVE  end[i] <= end[j]
<1> DEFINE bad == {k \in i..Len(lengths) : ~(end[i] <= end[k])}
<1>1. Len(lengths) \in Nat /\ \A k \in 1..Len(lengths) : lengths[k] \in Nat
  OBVIOUS
<1>2. ASSUME bad # {} PROVE FALSE
  <2>1. bad \in SUBSET Nat
    BY <1>1
  <2>2. PICK k \in bad : \A m \in bad : k <= m
    <3> HIDE DEF bad
    <3> QED
      BY <1>2, <2>1, Least
  <2>3. k \in i..Len(lengths) /\ ~(end[i] <= end[k])
    BY <2>2
  <2>4. k # i
    <3>1. end[i] \in Nat
      BY <1>1
    <3> QED
      BY <2>3, <3>1
  <2>5. k \in 1..Len(lengths) /\ k - 1 \in i..Len(lengths) /\ ~(k <= k - 1)
    BY <1>1, <2>3, <2>4
  <2>6. k - 1 \notin bad
    <3> HIDE DEF bad
    <3> QED
      BY <2>2, <2>5
  <2>7. end[i] <= end[k - 1] /\ end[k] = end[k - 1] + lengths[k]
    BY <2>5, <2>6
  <2>8. end[i] \in Nat /\ end[k - 1] \in Nat /\ lengths[k] \in Nat
    <3>1. k - 1 \in 0..Len(lengths)
      BY <1>1, <2>5
    <3> QED
      BY <1>1, <2>5, <3>1
  <2> QED
    BY <2>3, <2>7, <2>8
<1> QED
  BY <1>2

\* The ends of the blocks: each is further on than the one before by the length of a block.
LEMMA BlocksEnd ==
  ASSUME NEW zips \in Seq(Nat \ {0}), NEW start \in Nat
  PROVE  LET end == BlockEnds(zips, start)
         IN  /\ end \in [0..Len(zips) -> Nat] /\ end[0] = start
             /\ \A i \in 1..Len(zips) : end[i] = end[i - 1] + zips[i]
             /\ \A i \in 0..Len(zips) : \A j \in i..Len(zips) : end[i] <= end[j]
<1> DEFINE end == Sums(start, zips)
<1>1. zips \in Seq(Nat)
  OBVIOUS
<1>2. /\ end \in [0..Len(zips) -> Nat] /\ end[0] = start
      /\ \A i \in 1..Len(zips) : end[i] = end[i - 1] + zips[i]
  BY <1>1, SumsAre
<1> HIDE DEF end
<1>3. \A i \in 0..Len(zips) : \A j \in i..Len(zips) : end[i] <= end[j]
  BY <1>1, <1>2, SumsGrow
<1> QED
  BY <1>2, <1>3 DEF end, BlockEnds

--------------------------------------------------------------------------------
(* Cells beside each other *)

Sized(cells) ==
  \A a \in DOMAIN cells :
    a \in Nat /\ "bytes" \in DOMAIN cells[a] /\ cells[a].bytes \in Nat \ {0}

\* Cells between two addresses, none of which reaches into another.
Laid(cells, from, to) ==
  /\ Sized(cells)
  /\ \A a \in DOMAIN cells : from <= a /\ a + cells[a].bytes <= to
  /\ \A a, b \in DOMAIN cells : a < b => a + cells[a].bytes <= b

\* One cell is laid out.
LEMMA LaidOne ==
  ASSUME NEW a \in Nat, NEW cell, "bytes" \in DOMAIN cell, cell.bytes \in Nat \ {0}
  PROVE  Laid([x \in {a} |-> cell], a, a + cell.bytes)
BY DEF Laid, Sized

\* What is laid out behind something else is laid out with it.
LEMMA LaidFurther ==
  ASSUME NEW from \in Nat, NEW mid \in Nat, NEW to \in Nat, from <= mid, mid <= to,
         NEW f, NEW g, Laid(f, from, mid), Laid(g, mid, to)
  PROVE  Laid(Adding(f, g), from, to)
<1> DEFINE fg == Adding(f, g)
<1>1. ASSUME NEW a \in DOMAIN fg
      PROVE  \/ /\ a \in DOMAIN f /\ fg[a] = f[a]
                /\ from <= a /\ a + fg[a].bytes <= mid
             \/ /\ a \in DOMAIN g /\ fg[a] = g[a]
                /\ mid <= a /\ a + fg[a].bytes <= to
  BY <1>1 DEF Adding, Laid
<1>2. \A a \in DOMAIN fg : a \in Nat /\ "bytes" \in DOMAIN fg[a] /\ fg[a].bytes \in Nat \ {0}
  BY DEF Adding, Laid, Sized
<1> HIDE DEF fg
<1>3. ASSUME NEW a \in DOMAIN fg
      PROVE  from <= a /\ a + fg[a].bytes <= to
  BY <1>1, <1>2
<1>4. ASSUME NEW a \in DOMAIN fg, NEW b \in DOMAIN fg, a < b
      PROVE  a + fg[a].bytes <= b
  <2>1. CASE a \in DOMAIN f /\ fg[a] = f[a] /\ b \in DOMAIN f
    BY <1>4, <2>1 DEF Laid
  <2>2. CASE a \in DOMAIN g /\ fg[a] = g[a] /\ b \in DOMAIN g
    BY <1>4, <2>2 DEF Laid
  <2>3. CASE a + fg[a].bytes <= mid /\ mid <= b
    BY <1>2, <2>3
  <2>4. CASE mid <= a /\ b + fg[b].bytes <= mid
    BY <1>2, <1>4, <2>4
  <2> QED
    BY <1>1, <2>1, <2>2, <2>3, <2>4
<1> QED
  BY <1>2, <1>3, <1>4 DEF Laid, Sized, fg

\* There may be room behind.
LEMMA LaidWithin ==
  ASSUME NEW from \in Nat, NEW mid \in Nat, NEW to \in Nat, mid <= to,
         NEW f, Laid(f, from, mid)
  PROVE  Laid(f, from, to)
BY DEF Laid, Sized

\* write_inode changes no address and no size.
LEMMA LaidPatched ==
  ASSUME NEW from, NEW to, Laid(image, from, to), NEW at, NEW inode
  PROVE  Laid(Patched(at, inode), from, to)
<1> DEFINE patched == Patched(at, inode)
<1>1. DOMAIN patched = DOMAIN image
  BY DEF Patched
<1>2. ASSUME NEW a \in DOMAIN image
      PROVE  "bytes" \in DOMAIN patched[a] /\ patched[a].bytes = image[a].bytes
  <2>1. "bytes" \in DOMAIN image[a]
    BY DEF Laid, Sized
  <2>2. patched[a] = IF a = at THEN [image[a] EXCEPT !.inode = inode] ELSE image[a]
    BY DEF Patched
  <2> QED
    BY <2>1, <2>2
<1> HIDE DEF patched
<1> QED
  BY <1>1, <1>2 DEF Laid, Sized, patched

\* The blocks of a file lie one after the other.
LEMMA LaidBlocks ==
  ASSUME NEW zips \in Seq(Nat \ {0}), NEW start \in Nat, NEW p
  PROVE  LET ends  == BlockEnds(zips, start)
             from  == [i \in DOMAIN zips |-> ends[i - 1]]
             block == [i \in DOMAIN zips |-> [kind |-> "block", bytes |-> zips[i],
                                              content |-> <<p, i>>]]
         IN  Laid([a \in {from[i] : i \in DOMAIN zips} |->
                     block[CHOOSE i \in DOMAIN zips : from[i] = a]],
                  start, ends[Len(zips)])
<1> DEFINE ends  == BlockEnds(zips, start)
           from  == [i \in DOMAIN zips |-> ends[i - 1]]
           block == [i \in DOMAIN zips |-> [kind |-> "block", bytes |-> zips[i],
                                            content |-> <<p, i>>]]
           n(a)  == CHOOSE i \in DOMAIN zips : from[i] = a
           cells == [a \in {from[i] : i \in DOMAIN zips} |-> block[n(a)]]
<1>1. /\ Len(zips) \in Nat /\ DOMAIN zips = 1..Len(zips)
      /\ \A i \in DOMAIN zips : zips[i] \in Nat \ {0} /\ i - 1 \in 0..Len(zips) /\ i \in 0..Len(zips)
  OBVIOUS
<1>2. /\ ends \in [0..Len(zips) -> Nat] /\ ends[0] = start
      /\ \A i \in 1..Len(zips) : ends[i] = ends[i - 1] + zips[i]
  BY BlocksEnd
<1>3. \A i \in 0..Len(zips) : \A j \in i..Len(zips) : ends[i] <= ends[j]
  BY BlocksEnd
<1> HIDE DEF ends
<1>4. ASSUME NEW i \in DOMAIN zips
      PROVE  /\ from[i] \in Nat /\ start <= from[i]
             /\ from[i] + zips[i] = ends[i] /\ ends[i] <= ends[Len(zips)]
             /\ \A j \in DOMAIN zips : i < j => ends[i] <= from[j]
  <2>1. from[i] = ends[i - 1] /\ ends[i - 1] \in Nat /\ ends[i] \in Nat
    BY <1>1, <1>2
  <2>2. ends[0] <= ends[i - 1]
    BY <1>1, <1>3
  <2>3. ends[i] <= ends[Len(zips)]
    BY <1>1, <1>3
  <2>4. ASSUME NEW j \in DOMAIN zips, i < j PROVE ends[i] <= from[j]
    <3>1. j - 1 \in i..Len(zips)
      BY <1>1, <2>4
    <3> QED
      BY <1>1, <1>3, <3>1
  <2> QED
    BY <1>1, <1>2, <2>1, <2>2, <2>3, <2>4
<1>5. ASSUME NEW a \in DOMAIN cells
      PROVE  /\ n(a) \in DOMAIN zips /\ a = from[n(a)]
             /\ cells[a].bytes = zips[n(a)] /\ "bytes" \in DOMAIN cells[a]
  <2>1. n(a) \in DOMAIN zips /\ a = from[n(a)]
    <3>1. \E i \in DOMAIN zips : from[i] = a
      OBVIOUS
    <3> QED
      BY <3>1
  <2> HIDE DEF n, from
  <2>2. cells[a] = [kind |-> "block", bytes |-> zips[n(a)], content |-> <<p, n(a)>>]
    BY <2>1
  <2> QED
    BY <2>1, <2>2
<1> HIDE DEF n, from, cells
<1>6. ASSUME NEW a \in DOMAIN cells, NEW b \in DOMAIN cells, a < b
      PROVE  a + cells[a].bytes <= b
  <2>1. n(a) \in DOMAIN zips /\ n(b) \in DOMAIN zips /\ n(a) \in Nat /\ n(b) \in Nat
    BY <1>1, <1>5
  <2>2. CASE n(a) < n(b)
    BY <1>4, <1>5, <2>1, <2>2
  <2>3. CASE n(a) = n(b)
    BY <1>4, <1>5, <1>6, <2>1, <2>3
  <2>4. CASE n(b) < n(a)
    <3>1. ends[n(b)] <= from[n(a)] /\ from[n(b)] + zips[n(b)] = ends[n(b)]
      BY <1>4, <2>1, <2>4
    <3>2. /\ from[n(b)] \in Nat /\ zips[n(b)] \in Nat /\ from[n(a)] \in Nat
          /\ a = from[n(a)] /\ b = from[n(b)]
      BY <1>1, <1>4, <1>5, <2>1
    <3> QED
      BY <1>6, <3>1, <3>2
  <2> QED
    BY <2>1, <2>2, <2>3, <2>4
<1>7. ASSUME NEW a \in DOMAIN cells
      PROVE  /\ a \in Nat /\ "bytes" \in DOMAIN cells[a] /\ cells[a].bytes \in Nat \ {0}
             /\ start <= a /\ a + cells[a].bytes <= ends[Len(zips)]
  BY <1>1, <1>4, <1>5
<1>8. Laid(cells, start, ends[Len(zips)])
  BY <1>6, <1>7 DEF Laid, Sized
<1> QED
  BY <1>8 DEF cells, n, from, ends

--------------------------------------------------------------------------------
(* The writer *)

\* A call of emit_dir: its entries are names of the tree, each has a slot before it is
\* filled.
Calls ==
  {call \in [path : DOMAIN tree, at : Nat, start : Nat,
             unplaced : SUBSET Names, unfilled : SUBSET Names,
             slot : UNION {[names -> Nat] : names \in SUBSET Names}] :
     /\ call.unfilled \subseteq Children(call.path)
     /\ call.unfilled \subseteq DOMAIN call.slot \cup call.unplaced}

WriterTypes ==
  /\ tree \in Trees /\ pos \in Nat /\ ROOT <= pos
  /\ pc = "serialize" => stack \in Seq(Calls) /\ stack # <<>>

LayoutInv == WriterTypes /\ Laid(image, ROOT, pos)

\* What a tree says of a path.
LEMMA NodeOf ==
  ASSUME tree \in Trees, NEW p \in DOMAIN tree
  PROVE  /\ p \in Seq(Names) /\ tree[p].zips \in Seq(Nat \ {0})
         /\ HasData(tree[p]) => Len(tree[p].zips) = Blocks(tree[p].size)
BY TreesAssumption

\* What a call may be depends on the tree alone.
LEMMA SameCalls == tree' = tree => Calls' = Calls
BY DEF Calls, Children

\* emit_dir is called for a path of the tree.
LEMMA CallTyped ==
  ASSUME tree \in Trees, NEW p \in DOMAIN tree, NEW at \in Nat, NEW start \in Nat
  PROVE  Call(p, at, start) \in Calls
<1>1. <<>> \in UNION {[names -> Nat] : names \in SUBSET Names}
  <2>1. <<>> \in [1..0 -> Nat] /\ 1..0 = {}
    OBVIOUS
  <2>2. [1..0 -> Nat] \in {[names -> Nat] : names \in SUBSET Names}
    BY <2>1
  <2> QED
    BY <2>1, <2>2
<1> QED
  BY <1>1 DEF Call, Calls, Children

\* The innermost call is one of the calls.
LEMMA TopTyped ==
  ASSUME stack \in Seq(Calls), stack # <<>>
  PROVE  Len(stack) \in Nat \ {0} /\ Len(stack) \in DOMAIN stack /\ Top \in Calls
BY DEF Top

\* Returning leaves the calls further out.
LEMMA PopTyped ==
  ASSUME NEW S, NEW s \in Seq(S), s # <<>>
  PROVE  /\ SubSeq(s, 1, Len(s) - 1) \in Seq(S)
         /\ Len(SubSeq(s, 1, Len(s) - 1)) = Len(s) - 1
<1> DEFINE m == Len(s) - 1
<1>1. m \in Nat /\ \A i \in 1..m : s[i] \in S
  OBVIOUS
<1> HIDE DEF m
<1>2. m \in Int /\ 1 \in Int
  BY <1>1
<1>3. SubSeq(s, 1, m) \in Seq(S) /\ Len(SubSeq(s, 1, m)) = IF 1 <= m THEN m - 1 + 1 ELSE 0
  BY <1>1, <1>2, SubSeqProperties
<1>4. Len(SubSeq(s, 1, m)) = m
  BY <1>1, <1>3
<1> QED
  BY <1>3, <1>4 DEF m

\* An entry of the innermost call is placed or filled.
LEMMA TopChanged ==
  ASSUME stack \in Seq(Calls), stack # <<>>, NEW call \in Calls,
         NEW s, s = [stack EXCEPT ![Len(stack)] = call]
  PROVE  s \in Seq(Calls) /\ s # <<>>
BY TopTyped

\* The header is laid out.
LEMMA LayoutInitially == Init => LayoutInv
<1> SUFFICES ASSUME Init PROVE LayoutInv
  OBVIOUS
<1>1. tree \in Trees /\ <<>> \in DOMAIN tree /\ pos = 76 /\ pos = ROOT + 12
  BY TreesAssumption DEF Init, ROOT
<1>2. Call(<<>>, ROOT, ROOT + 12) \in Calls
  BY <1>1, CallTyped DEF ROOT
<1>3. stack \in Seq(Calls) /\ stack # <<>>
  BY <1>2 DEF Init
<1>4. Laid(image, ROOT, pos)
  <2>1. Slot(12, 0, Blank).bytes = 12 /\ "bytes" \in DOMAIN Slot(12, 0, Blank)
    BY DEF Slot
  <2> DEFINE slot == Slot(12, 0, Blank)
  <2>2. image = [a \in {ROOT} |-> slot]
    BY DEF Init
  <2> HIDE DEF slot
  <2>3. ROOT \in Nat /\ 12 \in Nat \ {0}
    BY DEF ROOT
  <2>4. Laid([a \in {ROOT} |-> slot], ROOT, ROOT + slot.bytes)
    BY <2>1, <2>3, LaidOne DEF slot
  <2> QED
    BY <1>1, <2>1, <2>2, <2>4 DEF slot
<1> QED
  BY <1>1, <1>3, <1>4 DEF LayoutInv, WriterTypes, ROOT

\* A slot is laid out behind the image.
LEMMA LayoutByReserve == LayoutInv /\ Reserve => LayoutInv'
<1> SUFFICES ASSUME LayoutInv, Reserve PROVE LayoutInv'
  OBVIOUS
<1> DEFINE n == First(Top.unplaced)
           more == [Top EXCEPT !.unplaced = @ \ {n}, !.slot = Adding(@, [m \in {n} |-> pos])]
<1>1. /\ tree \in Trees /\ pos \in Nat /\ ROOT <= pos /\ ROOT \in Nat
      /\ stack \in Seq(Calls) /\ stack # <<>> /\ Top \in Calls /\ Len(stack) \in DOMAIN stack
  BY TopTyped DEF LayoutInv, WriterTypes, Reserve, ROOT
<1>2. n \in Top.unplaced /\ n \in Names /\ SlotSize(n) \in Nat \ {0}
  <2>1. Top.unplaced \in SUBSET Names /\ Top.unplaced # {}
    BY <1>1 DEF Reserve, Calls
  <2>2. n \in Top.unplaced
    BY <2>1, FirstIsLeast
  <2> QED
    BY <2>1, <2>2, SlotTakes
<1> HIDE DEF n
<1>3. /\ image' = Adding(image, [a \in {pos} |-> Slot(SlotSize(n), n, Blank)])
      /\ pos' = pos + SlotSize(n) /\ UNCHANGED <<tree, pc>>
      /\ stack' = [stack EXCEPT ![Len(stack)].unplaced = @ \ {n},
                                ![Len(stack)].slot = Adding(@, [m \in {n} |-> pos])]
  BY DEF Reserve, n
<1>4. more \in Calls
  <2> DEFINE slot == Adding(Top.slot, [m \in {n} |-> pos])
  <2>1. PICK names \in SUBSET Names : Top.slot \in [names -> Nat]
    BY <1>1 DEF Calls
  <2>2. slot \in [names \cup {n} -> Nat]
    BY <1>1, <2>1 DEF Adding
  <2>3. slot \in UNION {[more_names -> Nat] : more_names \in SUBSET Names}
    <3> HIDE DEF slot
    <3> QED
      BY <1>2, <2>2
  <2>4. DOMAIN slot = DOMAIN Top.slot \cup {n}
    BY <2>1, <2>2
  <2> HIDE DEF slot
  <2>5. more = [Top EXCEPT !.unplaced = @ \ {n}, !.slot = slot]
    BY DEF slot
  <2> QED
    BY <1>1, <2>3, <2>4, <2>5 DEF Calls
<1>5. stack' = [stack EXCEPT ![Len(stack)] = more]
  BY <1>1, <1>3 DEF Calls, Top
<1> HIDE DEF more
<1>6. stack' \in Seq(Calls) /\ stack' # <<>>
  BY <1>1, <1>4, <1>5, TopChanged
<1>7. Laid(image', ROOT, pos')
  <2> DEFINE slot == Slot(SlotSize(n), n, Blank)
  <2>1. "bytes" \in DOMAIN slot /\ slot.bytes = SlotSize(n)
    BY DEF Slot
  <2> HIDE DEF slot
  <2>2. Laid([a \in {pos} |-> slot], pos, pos + SlotSize(n))
    BY <1>1, <1>2, <2>1, LaidOne
  <2>3. pos + SlotSize(n) \in Nat /\ pos <= pos + SlotSize(n)
    BY <1>1, <1>2
  <2> QED
    BY <1>1, <1>3, <2>2, <2>3, LaidFurther DEF LayoutInv, slot
<1>8. Calls' = Calls
  BY <1>3, SameCalls
<1>9. pos' \in Nat /\ ROOT <= pos'
  BY <1>1, <1>2, <1>3
<1> QED
  BY <1>1, <1>3, <1>6, <1>7, <1>8, <1>9 DEF LayoutInv, WriterTypes, ROOT

\* A file is laid out behind the image.
LEMMA LayoutByFill == LayoutInv /\ Fill => LayoutInv'
<1> SUFFICES ASSUME LayoutInv, Fill PROVE LayoutInv'
  OBVIOUS
<1> DEFINE n == First(Top.unfilled)
           p == Append(Top.path, n)
           rest == [Top EXCEPT !.unfilled = @ \ {n}]
<1>1. /\ tree \in Trees /\ pos \in Nat /\ ROOT <= pos /\ ROOT \in Nat
      /\ stack \in Seq(Calls) /\ stack # <<>> /\ Top \in Calls /\ Len(stack) \in DOMAIN stack
  BY TopTyped DEF LayoutInv, WriterTypes, Fill, ROOT
<1>2. n \in Top.unfilled /\ n \in Names /\ Top.unplaced = {}
  <2>1. Top.unfilled \in SUBSET Names /\ Top.unfilled # {}
    BY <1>1 DEF Fill, Calls
  <2>2. n \in Top.unfilled
    BY <2>1, FirstIsLeast
  <2> QED
    BY <2>1, <2>2 DEF Fill
<1>3. UNCHANGED <<tree, pc>> /\ (FillData(n, p) \/ FillDevice(n, p) \/ FillDir(n, p))
  BY DEF Fill
<1> HIDE DEF n
<1>4. p \in DOMAIN tree /\ Top.slot[n] \in Nat /\ Calls' = Calls
  <2>1. n \in Children(Top.path) /\ n \in DOMAIN Top.slot
    BY <1>1, <1>2 DEF Calls
  <2>2. Top.slot \in UNION {[names -> Nat] : names \in SUBSET Names}
    BY <1>1 DEF Calls
  <2>3. Top.slot[n] \in Nat
    BY <2>1, <2>2
  <2> QED
    BY <1>3, <2>1, <2>3, SameCalls DEF Children
<1> HIDE DEF p
<1>5. rest \in Calls
  BY <1>1 DEF Calls
<1>6. [stack EXCEPT ![Len(stack)].unfilled = @ \ {n}] = [stack EXCEPT ![Len(stack)] = rest]
  BY <1>1 DEF Top
<1> HIDE DEF rest
<1>7. /\ [stack EXCEPT ![Len(stack)] = rest] \in Seq(Calls)
      /\ [stack EXCEPT ![Len(stack)] = rest] # <<>>
  BY <1>1, <1>5, TopChanged
<1>8. CASE FillData(n, p)
  <2> DEFINE zips  == tree[p].zips
             start == pos + TableBytes(zips)
             ends  == BlockEnds(zips, start)
             block == [i \in DOMAIN zips |-> [kind |-> "block", bytes |-> zips[i],
                                              content |-> <<p, i>>]]
             from  == [i \in DOMAIN zips |-> ends[i - 1]]
             cells == [a \in {from[i] : i \in DOMAIN zips} |->
                         block[CHOOSE i \in DOMAIN zips : from[i] = a]]
             table == [kind |-> "table", bytes |-> 4 * Len(zips),
                       ends |-> [i \in DOMAIN zips |-> ends[i]]]
             inode == Inode(tree[p].type, tree[p].size, SlotSize(n) - 12, pos)
             image2 == Patched(Top.slot[n], inode)
  <2>1. /\ IF zips = <<>> THEN image' = image2 /\ UNCHANGED pos
           ELSE /\ image' = Adding(image2, Adding([a \in {pos} |-> table], cells))
                /\ pos' = AfterData(ends[Len(zips)])
        /\ stack' = [stack EXCEPT ![Len(stack)].unfilled = @ \ {n}]
    BY <1>8 DEF FillData
  <2>2. zips \in Seq(Nat \ {0})
    BY <1>1, <1>4, NodeOf
  <2>3. Laid(image2, ROOT, pos)
    BY LaidPatched DEF LayoutInv
  <2>4. stack' \in Seq(Calls) /\ stack' # <<>>
    BY <1>6, <1>7, <2>1
  <2>5. CASE zips = <<>>
    BY <1>1, <1>3, <1>4, <2>1, <2>3, <2>4, <2>5 DEF LayoutInv, WriterTypes, ROOT
  <2>6. CASE zips # <<>>
    <3>1. Len(zips) \in Nat \ {0}
      BY <2>2, <2>6
    <3>2. TableBytes(zips) \in Nat \ {0} /\ TableBytes(zips) = 4 * Len(zips)
      BY <3>1 DEF TableBytes
    <3>3. start \in Nat /\ start = pos + 4 * Len(zips) /\ pos <= start
      BY <1>1, <3>2
    <3>4. Laid([a \in {pos} |-> table], pos, start)
      <4>1. "bytes" \in DOMAIN table /\ table.bytes = 4 * Len(zips) /\ table.bytes \in Nat \ {0}
        <5>1. 4 * Len(zips) \in Nat \ {0}
          BY <3>2
        <5> QED
          BY <5>1
      <4> HIDE DEF table
      <4> QED
        BY <1>1, <3>3, <4>1, LaidOne
    <3> HIDE DEF start
    <3>5. Laid(cells, start, ends[Len(zips)])
      BY <2>2, <3>3, LaidBlocks
    <3>6. ends[Len(zips)] \in Nat /\ start <= ends[Len(zips)]
      <4>1. /\ ends \in [0..Len(zips) -> Nat] /\ ends[0] = start
            /\ \A i \in 0..Len(zips) : \A j \in i..Len(zips) : ends[i] <= ends[j]
        BY <2>2, <3>3, BlocksEnd
      <4> HIDE DEF ends
      <4>2. 0 \in 0..Len(zips) /\ Len(zips) \in 0..Len(zips)
        BY <3>1
      <4>3. ends[0] <= ends[Len(zips)]
        BY <3>1, <4>1, <4>2
      <4> QED
        BY <4>1, <4>2, <4>3
    <3> HIDE DEF ends, cells, table, image2
    <3>7. Laid(Adding([a \in {pos} |-> table], cells), pos, ends[Len(zips)])
      BY <1>1, <3>3, <3>4, <3>5, <3>6, LaidFurther
    <3>8. pos <= ends[Len(zips)]
      BY <1>1, <3>3, <3>6
    <3>9. Laid(image', ROOT, ends[Len(zips)])
      BY <1>1, <2>1, <2>3, <2>6, <3>6, <3>7, <3>8, LaidFurther
    <3>10. pos' \in Nat /\ ends[Len(zips)] <= pos'
      BY <2>1, <2>6, <3>6, PaddedIs DEF AfterData
    <3>11. Laid(image', ROOT, pos')
      BY <1>1, <3>6, <3>9, <3>10, LaidWithin
    <3>12. ROOT <= pos'
      BY <1>1, <3>6, <3>8, <3>10
    <3> QED
      BY <1>1, <1>3, <1>4, <2>4, <3>10, <3>11, <3>12 DEF LayoutInv, WriterTypes, ROOT
  <2> QED
    BY <2>5, <2>6
<1>9. CASE FillDevice(n, p)
  <2>1. /\ UNCHANGED pos /\ stack' = [stack EXCEPT ![Len(stack)].unfilled = @ \ {n}]
        /\ image' = Patched(Top.slot[n], Inode("dev", tree[p].size, SlotSize(n) - 12, 0))
    BY <1>9 DEF FillDevice
  <2>2. Laid(image', ROOT, pos)
    BY <2>1, LaidPatched DEF LayoutInv
  <2> QED
    BY <1>1, <1>3, <1>4, <1>6, <1>7, <2>1, <2>2 DEF LayoutInv, WriterTypes, ROOT
<1>10. CASE FillDir(n, p)
  <2>1. /\ UNCHANGED <<pos, image>>
        /\ stack' = Append([stack EXCEPT ![Len(stack)] = rest], Call(p, Top.slot[n], pos))
    BY <1>6, <1>10 DEF FillDir
  <2>2. Call(p, Top.slot[n], pos) \in Calls
    BY <1>1, <1>4, CallTyped
  <2>3. stack' \in Seq(Calls) /\ stack' # <<>>
    <3> DEFINE s == [stack EXCEPT ![Len(stack)] = rest]
               call == Call(p, Top.slot[n], pos)
    <3>1. s \in Seq(Calls) /\ call \in Calls /\ stack' = Append(s, call)
      BY <1>7, <2>1, <2>2
    <3> HIDE DEF s, call
    <3> QED
      BY <3>1
  <2> QED
    BY <1>1, <1>3, <1>4, <2>1, <2>3 DEF LayoutInv, WriterTypes, ROOT
<1> QED
  BY <1>3, <1>8, <1>9, <1>10

\* Patching an inode moves nothing.
LEMMA LayoutByLeave == LayoutInv /\ Leave => LayoutInv'
<1> SUFFICES ASSUME LayoutInv, Leave PROVE LayoutInv'
  OBVIOUS
<1>1. /\ tree \in Trees /\ pos \in Nat /\ ROOT <= pos
      /\ stack \in Seq(Calls) /\ stack # <<>>
  BY DEF LayoutInv, WriterTypes, Leave
<1>2. UNCHANGED <<tree, pos>> /\ Calls' = Calls
  BY SameCalls DEF Leave
<1>3. Laid(image', ROOT, pos)
  BY LaidPatched DEF LayoutInv, Leave
<1>4. pc' = "serialize" => stack' \in Seq(Calls) /\ stack' # <<>>
  <2>1. stack' \in Seq(Calls) /\ Len(stack') = Len(stack) - 1
    BY <1>1, PopTyped DEF Leave, Pop
  <2>2. pc' = "serialize" => Len(stack) # 1
    BY DEF Leave
  <2> QED
    BY <1>1, <2>1, <2>2
<1> QED
  BY <1>1, <1>2, <1>3, <1>4 DEF LayoutInv, WriterTypes, ROOT

\* The reader changes nothing of it.
LEMMA LayoutInductive == LayoutInv /\ [Next]_vars => LayoutInv'
<1>1. LayoutInv /\ (ReadRoot \/ ReadEntry \/ ReturnFromDir) => LayoutInv'
  <2> SUFFICES ASSUME LayoutInv, ReadRoot \/ ReadEntry \/ ReturnFromDir PROVE LayoutInv'
    OBVIOUS
  <2>1. UNCHANGED <<tree, pos, image>>
    BY DEF ReadRoot, ReadEntry, ReturnFromDir
  <2>2. pc' # "serialize"
    BY DEF ReadRoot, ReadEntry, ReturnFromDir, Descend, ReadData, ReadDevice, Failed
  <2> QED
    BY <2>1, <2>2 DEF LayoutInv, WriterTypes, ROOT
<1>2. LayoutInv /\ UNCHANGED vars => LayoutInv'
  BY SameCalls DEF LayoutInv, WriterTypes, ROOT, vars
<1> QED
  BY <1>1, <1>2, LayoutByReserve, LayoutByFill, LayoutByLeave DEF Next

\* serialize (cramfs_tool.py:113-195): no two things in the image share a byte and none
\* lies in the superblock or sticks out at the end, for any tree, also one that does
\* not fit the fields of the inodes.
THEOREM NothingOverlaps == Spec => []NoOverlap
<1>1. LayoutInv => NoOverlap
  BY DEF LayoutInv, Laid, NoOverlap
<1>2. Spec => []LayoutInv
  BY LayoutInitially, LayoutInductive, PTL DEF Spec
<1> QED
  BY <1>1, <1>2, PTL

--------------------------------------------------------------------------------
(* The entries of a directory *)

Entries == Len(NameLen)

\* How far the slots of p reach when those up to a name are reserved.
Room(p) == Sums(0, EntrySizes(p))

\* The names are the numbers from 1 on.
LEMMA NamesTo == Entries \in Nat /\ Names = 1..Entries
BY WidthsAssumption DEF Entries, Names

\* Room is a running sum, and the size of the directory is where it ends.
LEMMA RoomIs ==
  ASSUME NEW p
  PROVE  /\ Room(p) \in [0..Entries -> Nat] /\ Room(p)[0] = 0
         /\ DirSize(p) = Room(p)[Entries] /\ DirSize(p) \in Nat
         /\ \A n \in Names : /\ n - 1 \in 0..Entries /\ n \in 0..Entries
                             /\ Room(p)[n] = Room(p)[n - 1]
                                  + (IF n \in Children(p) THEN SlotSize(n) ELSE 0)
<1> DEFINE sizes == EntrySizes(p)
           room == Sums(0, sizes)
<1>1. /\ Entries \in Nat /\ Names = 1..Entries
      /\ \A n \in Names : n - 1 \in 0..Entries /\ n \in 0..Entries
  BY NamesTo
<1>2. \A n \in Names : sizes[n] = (IF n \in Children(p) THEN SlotSize(n) ELSE 0) /\ sizes[n] \in Nat
  BY SlotTakes DEF EntrySizes
<1>3. DOMAIN sizes = 1..Entries
  BY <1>1 DEF EntrySizes
<1> HIDE DEF sizes
<1>4. sizes = [n \in 1..Entries |-> sizes[n]]
  BY <1>3 DEF sizes, EntrySizes
<1>5. sizes \in Seq(Nat) /\ Len(sizes) = Entries
  BY <1>1, <1>2, <1>4
<1>6. /\ room \in [0..Entries -> Nat] /\ room[0] = 0
      /\ \A i \in 1..Entries : room[i] = room[i - 1] + sizes[i]
  BY <1>5, SumsAre
<1>7. Room(p) = room /\ DirSize(p) = room[Entries]
  BY DEF Room, DirSize, sizes, Entries
<1> HIDE DEF room
<1> QED
  BY <1>1, <1>2, <1>6, <1>7

\* No entry, no room.
LEMMA RoomStays ==
  ASSUME NEW p, NEW m \in 0..Entries, NEW n \in m..Entries,
         \A k \in Children(p) : ~(m < k /\ k <= n)
  PROVE  Room(p)[n] = Room(p)[m]
<1> DEFINE bad == {k \in m..n : Room(p)[k] # Room(p)[m]}
<1>1. /\ Entries \in Nat /\ Names = 1..Entries /\ m \in Nat /\ n \in Nat
      /\ m <= n /\ n <= Entries
  BY NamesTo
<1>2. ASSUME bad # {} PROVE FALSE
  <2>1. bad \in SUBSET Nat
    BY <1>1
  <2>2. PICK k \in bad : \A i \in bad : k <= i
    <3> HIDE DEF bad
    <3> QED
      BY <1>2, <2>1, Least
  <2>3. k \in m..n /\ Room(p)[k] # Room(p)[m]
    BY <2>2
  <2>4. k # m
    BY <2>3
  <2>5. k \in Names /\ k - 1 \in m..n /\ ~(k <= k - 1) /\ k \notin Children(p)
    BY <1>1, <2>3, <2>4
  <2>6. k - 1 \notin bad
    <3> HIDE DEF bad
    <3> QED
      BY <2>2, <2>5
  <2>7. Room(p)[k - 1] = Room(p)[m]
    BY <2>5, <2>6
  <2>8. Room(p)[k] = Room(p)[k - 1] + 0 /\ Room(p)[k - 1] \in Nat
    BY <2>5, RoomIs
  <2> QED
    BY <2>3, <2>7, <2>8
<1>3. n \in m..n
  BY <1>1
<1> QED
  BY <1>2, <1>3

\* The room that is taken does not shrink.
LEMMA RoomGrows ==
  ASSUME NEW p, NEW m \in 0..Entries, NEW n \in m..Entries
  PROVE  Room(p)[m] <= Room(p)[n]
<1> DEFINE bad == {k \in m..n : ~(Room(p)[m] <= Room(p)[k])}
<1>1. /\ Entries \in Nat /\ Names = 1..Entries /\ m \in Nat /\ n \in Nat
      /\ m <= n /\ n <= Entries
  BY NamesTo
<1>2. ASSUME bad # {} PROVE FALSE
  <2>1. bad \in SUBSET Nat
    BY <1>1
  <2>2. PICK k \in bad : \A i \in bad : k <= i
    <3> HIDE DEF bad
    <3> QED
      BY <1>2, <2>1, Least
  <2>3. k \in m..n /\ ~(Room(p)[m] <= Room(p)[k])
    BY <2>2
  <2>4. Room(p)[m] \in Nat
    BY RoomIs
  <2>5. k # m
    BY <2>3, <2>4
  <2>6. k \in Names /\ k - 1 \in m..n /\ ~(k <= k - 1) /\ k - 1 \in 0..Entries
    BY <1>1, <2>3, <2>5
  <2>7. k - 1 \notin bad
    <3> HIDE DEF bad
    <3> QED
      BY <2>2, <2>6
  <2>8. Room(p)[m] <= Room(p)[k - 1]
    BY <2>6, <2>7
  <2>9. Room(p)[k - 1] \in Nat /\ Room(p)[k] \in Nat /\ Room(p)[k - 1] <= Room(p)[k]
    <3>1. /\ Room(p)[k - 1] \in Nat /\ Room(p)[k] \in Nat
          /\ Room(p)[k] = Room(p)[k - 1] + (IF k \in Children(p) THEN SlotSize(k) ELSE 0)
      BY <2>6, RoomIs
    <3>2. SlotSize(k) \in Nat
      BY <2>6, SlotTakes
    <3> QED
      BY <3>1, <3>2
  <2>10. Room(p)[m] <= Room(p)[k]
    BY <2>4, <2>8, <2>9
  <2> QED
    BY <2>3, <2>10
<1>3. n \in m..n
  BY <1>1
<1> QED
  BY <1>2, <1>3

\* A slot is a whole number of words, as offset and namelen count words.
LEMMA SlotAligned == \A n \in Names : SlotSize(n) % 4 = 0 /\ SlotSize(n) - 12 = Padded(NameLen[n])
<1> SUFFICES ASSUME NEW n \in Names PROVE SlotSize(n) % 4 = 0 /\ SlotSize(n) - 12 = Padded(NameLen[n])
  OBVIOUS
<1> DEFINE words == (NameLen[n] + 3) \div 4
<1>1. words \in Nat
  BY NamesAreNumbers
<1>2. SlotSize(n) = 12 + words * 4 /\ Padded(NameLen[n]) = words * 4
  BY DEF SlotSize, Padded
<1> HIDE DEF words
<1> QED
  BY <1>1, <1>2

\* A path has one directory and one name in it.
LEMMA AppendOnce ==
  ASSUME NEW p \in Seq(Names), NEW q \in Seq(Names), NEW m \in Names, NEW n \in Names,
         Append(p, m) = Append(q, n)
  PROVE  p = q /\ m = n
<1>1. m = n /\ Len(p) = Len(q)
  OBVIOUS
<1>2. \A i \in 1..Len(p) : p[i] = q[i]
  BY <1>1
<1> QED
  BY <1>1, <1>2

--------------------------------------------------------------------------------
(* Where everything is written: at is where the inode of each path is, start where *)
(* what the inode points to begins                                                 *)

NameOf(p) == IF p = <<>> THEN 0 ELSE p[Len(p)]

IsSlot(cell, name) ==
  \E bytes, inode : cell = Slot(bytes, name, inode)

InodeOf(p, offset) ==
  Inode(tree[p].type, IF tree[p].type = "dir" THEN DirSize(p) ELSE tree[p].size,
        NameField(p), offset)

\* The table and the blocks of a file.
FileTable(zips, ends) ==
  [kind |-> "table", bytes |-> 4 * Len(zips), ends |-> [i \in DOMAIN zips |-> ends[i]]]

FileBlock(p, zips, i) == [kind |-> "block", bytes |-> zips[i], content |-> <<p, i>>]

Stored(p, offset) ==
  LET zips == tree[p].zips
      ends == BlockEnds(zips, offset + TableBytes(zips))
  IN  /\ offset \in DOMAIN image /\ image[offset] = FileTable(zips, ends)
      /\ \A i \in DOMAIN zips :
           /\ ends[i - 1] \in DOMAIN image /\ image[ends[i - 1]] = FileBlock(p, zips, i)

Written(p, at, start) ==
  /\ image[at[p]].inode = InodeOf(p, start[p])
  /\ tree[p].zips # <<>> => Stored(p, start[p])

\* Every slot is where its directory wants it, and no two are the same.
Arranged(at, start) ==
  /\ at \in [DOMAIN at -> Nat] /\ start \in [DOMAIN start -> Nat]
  /\ DOMAIN start \subseteq DOMAIN at /\ DOMAIN at \subseteq DOMAIN tree
  /\ <<>> \in DOMAIN start /\ at[<<>>] = ROOT
  /\ \A p, q \in DOMAIN at : at[p] = at[q] => p = q
  /\ \A p \in DOMAIN tree : \A n \in Children(p) :
       Append(p, n) \in DOMAIN at =>
         p \in DOMAIN start /\ at[Append(p, n)] = start[p] + Room(p)[n - 1]

HasSlots(at) == \A p \in DOMAIN at : at[p] \in DOMAIN image /\ IsSlot(image[at[p]], NameOf(p))

Aligned(start) == \A p \in DOMAIN start : start[p] % 4 = 0 /\ start[p] <= pos

Placed(at, start) == Arranged(at, start) /\ HasSlots(at) /\ Aligned(start)

\* What is done to the image in a step: something is added, and nothing that was there
\* changes but the inode in the slot at an address.
Keeps(a) ==
  /\ DOMAIN image \subseteq DOMAIN image'
  /\ \A b \in DOMAIN image : b # a => image'[b] = image[b]
  /\ \A name : IsSlot(image[a], name) => IsSlot(image'[a], name)

\* What every node of a tree has, and that it is in some directory.
LEMMA TreeShape ==
  ASSUME tree \in Trees, NEW p \in DOMAIN tree
  PROVE  /\ p \in Seq(Names) /\ tree[p].zips \in Seq(Nat \ {0})
         /\ tree[p].type \in {"dir", "reg", "lnk", "dev"} /\ tree[p].size \in Nat
         /\ tree[p].type = "dir" => tree[p].size = 0
         /\ Len(p) <= MaxDepth
         /\ HasData(tree[p]) => Len(tree[p].zips) = Blocks(tree[p].size)
         /\ ~HasData(tree[p]) => tree[p].zips = <<>>
         /\ p # <<>> => \E q \in DOMAIN tree : \E n \in Children(q) : p = Append(q, n)
<1>1. /\ p \in Seq(Names) /\ tree[p].zips \in Seq(Nat \ {0})
      /\ tree[p].type \in {"dir", "reg", "lnk", "dev"} /\ tree[p].size \in Nat
      /\ tree[p].type = "dir" => tree[p].size = 0
      /\ Len(p) <= MaxDepth
      /\ Len(tree[p].zips) = IF HasData(tree[p]) THEN Blocks(tree[p].size) ELSE 0
  BY TreesAssumption
<1>2. p # <<>> => \E q \in DOMAIN tree, n \in Names : p = Append(q, n)
  BY TreesAssumption
<1>3. ~HasData(tree[p]) => tree[p].zips = <<>>
  BY <1>1
<1>4. p # <<>> => \E q \in DOMAIN tree : \E n \in Children(q) : p = Append(q, n)
  BY <1>2 DEF Children
<1> QED
  BY <1>1, <1>3, <1>4

\* What every entry of a directory has.
LEMMA ChildShape ==
  ASSUME tree \in Trees, NEW p \in DOMAIN tree, NEW n \in Children(p)
  PROVE  /\ Append(p, n) \in DOMAIN tree /\ n \in Names /\ tree[p].type = "dir"
         /\ Append(p, n) # p /\ Append(p, n) # <<>>
         /\ Len(Append(p, n)) = Len(p) + 1 /\ Append(p, n)[Len(p) + 1] = n
<1>1. Append(p, n) \in DOMAIN tree /\ n \in Names /\ p \in Seq(Names)
  BY TreeShape DEF Children
<1>2. /\ Append(p, n) # <<>> /\ Len(Append(p, n)) = Len(p) + 1
      /\ Append(p, n)[Len(p) + 1] = n /\ Len(p) \in Nat
  BY <1>1
<1>3. Append(p, n) # p
  BY <1>2
<1>4. PICK q \in DOMAIN tree, m \in Names : Append(p, n) = Append(q, m) /\ tree[q].type = "dir"
  <2>1. \A c \in DOMAIN tree :
          c # <<>> => \E q \in DOMAIN tree, m \in Names : c = Append(q, m) /\ tree[q].type = "dir"
    BY TreesAssumption
  <2> QED
    BY <1>1, <1>2, <2>1
<1>5. q \in Seq(Names)
  BY TreeShape
<1>6. p = q
  BY <1>1, <1>4, <1>5, AppendOnce
<1> QED
  BY <1>1, <1>2, <1>3, <1>4, <1>6

\* An entry is in one directory only.
LEMMA SiblingsDiffer ==
  ASSUME tree \in Trees, NEW p \in DOMAIN tree, NEW q \in DOMAIN tree,
         NEW m \in Children(p), NEW n \in Children(q), Append(p, m) = Append(q, n)
  PROVE  p = q /\ m = n
<1>1. p \in Seq(Names) /\ q \in Seq(Names) /\ m \in Names /\ n \in Names
  BY TreeShape DEF Children
<1> QED
  BY <1>1, AppendOnce

\* write_inode changes the inode in one slot.
LEMMA SlotPatched ==
  ASSUME NEW a \in DOMAIN image, NEW name, IsSlot(image[a], name), NEW inode
  PROVE  /\ DOMAIN Patched(a, inode) = DOMAIN image
         /\ \A b \in DOMAIN image : b # a => Patched(a, inode)[b] = image[b]
         /\ Patched(a, inode)[a].inode = inode
         /\ \A any : IsSlot(image[a], any) => IsSlot(Patched(a, inode)[a], any)
<1>1. PICK bytes, old : image[a] = Slot(bytes, name, old)
  BY DEF IsSlot
<1>2. Patched(a, inode)[a] = [image[a] EXCEPT !.inode = inode]
  BY DEF Patched
<1>3. [image[a] EXCEPT !.inode = inode] = Slot(bytes, name, inode)
  BY <1>1 DEF Slot
<1>4. Patched(a, inode)[a].inode = inode
  BY <1>2, <1>3 DEF Slot
<1>5. ASSUME NEW any, IsSlot(image[a], any) PROVE IsSlot(Patched(a, inode)[a], any)
  <2>1. any = name
    BY <1>1, <1>5 DEF IsSlot, Slot
  <2> QED
    BY <1>2, <1>3, <2>1 DEF IsSlot
<1>6. /\ DOMAIN Patched(a, inode) = DOMAIN image
      /\ \A b \in DOMAIN image : b # a => Patched(a, inode)[b] = image[b]
  BY DEF Patched
<1> QED
  BY <1>4, <1>5, <1>6

\* Stored, said of the next state.
LEMMA StoredNow ==
  ASSUME tree' = tree, NEW p, NEW offset,
         LET zips == tree[p].zips
             ends == BlockEnds(zips, offset + TableBytes(zips))
         IN  /\ offset \in DOMAIN image' /\ image'[offset] = FileTable(zips, ends)
             /\ \A i \in DOMAIN zips :
                  /\ ends[i - 1] \in DOMAIN image'
                  /\ image'[ends[i - 1]] = FileBlock(p, zips, i)
  PROVE  Stored(p, offset)'
BY DEF Stored, BlockEnds, TableBytes, Sums, FileTable, FileBlock

\* What is written stays written while slots are added or another inode is patched.
LEMMA WrittenKept ==
  ASSUME NEW at, NEW start, Placed(at, start), tree' = tree,
         NEW a, Keeps(a), \E r \in DOMAIN at : a = at[r],
         NEW p \in DOMAIN start, image'[at[p]] = image[at[p]], Written(p, at, start)
  PROVE  Written(p, at, start)'
<1>1. at[p] \in DOMAIN image /\ image'[at[p]] = image[at[p]]
  BY DEF Placed, Arranged, HasSlots, Keeps
<1>2. PICK name : IsSlot(image[a], name)
  BY DEF Placed, HasSlots
<1>3. image[a].kind = "slot"
  BY <1>2 DEF IsSlot, Slot
<1>4. ASSUME NEW b \in DOMAIN image, image[b].kind # "slot"
      PROVE  b \in DOMAIN image' /\ image'[b] = image[b]
  BY <1>3, <1>4 DEF Keeps
<1>5. ASSUME Stored(p, start[p]) PROVE Stored(p, start[p])'
  <2> DEFINE zips == tree[p].zips
             ends == BlockEnds(zips, start[p] + TableBytes(zips))
  <2>1. start[p] \in DOMAIN image' /\ image'[start[p]] = FileTable(zips, ends)
    <3>1. FileTable(zips, ends).kind # "slot"
      BY DEF FileTable
    <3> HIDE DEF ends, zips
    <3>2. start[p] \in DOMAIN image /\ image[start[p]] = FileTable(zips, ends)
      BY <1>5 DEF Stored, ends, zips
    <3> QED
      BY <1>4, <3>1, <3>2
  <2>2. \A i \in DOMAIN zips : ends[i - 1] \in DOMAIN image' /\ image'[ends[i - 1]] = FileBlock(p, zips, i)
    <3>1. \A i \in DOMAIN zips : FileBlock(p, zips, i).kind # "slot"
      BY DEF FileBlock
    <3> HIDE DEF ends, zips
    <3>2. \A i \in DOMAIN zips : ends[i - 1] \in DOMAIN image /\ image[ends[i - 1]] = FileBlock(p, zips, i)
      BY <1>5 DEF Stored, ends, zips
    <3> QED
      BY <1>4, <3>1, <3>2
  <2> QED
    BY <2>1, <2>2, StoredNow
<1>6. InodeOf(p, start[p])' = InodeOf(p, start[p])
  BY DEF InodeOf, DirSize, EntrySizes, Children, NameField, Sums, Inode
<1>7. tree[p].zips # <<>> => Stored(p, start[p])
  BY DEF Written
<1> QED
  BY <1>1, <1>5, <1>6, <1>7 DEF Written

\* What depends on the tree alone does not change.
LEMMA SameTree ==
  ASSUME tree' = tree
  PROVE  /\ \A p : Children(p)' = Children(p) /\ Room(p)' = Room(p)
         /\ \A at, start : Arranged(at, start)' <=> Arranged(at, start)
<1>1. \A p : Children(p)' = Children(p) /\ Room(p)' = Room(p)
  BY DEF Room, EntrySizes, Children, Sums
<1> QED
  BY <1>1 DEF Arranged, ROOT

\* The slots stay where they are.
LEMMA SlotsKept ==
  ASSUME NEW at, HasSlots(at), NEW a, Keeps(a)
  PROVE  HasSlots(at)'
<1>1. \A p \in DOMAIN at : at[p] \in DOMAIN image' /\ IsSlot(image'[at[p]], NameOf(p))
  BY DEF HasSlots, Keeps
<1> QED
  BY <1>1 DEF HasSlots, IsSlot, NameOf, Slot

\* What begins at a word before the end still does when the image grows.
LEMMA AlignedKept ==
  ASSUME NEW start, Aligned(start), start \in [DOMAIN start -> Nat], pos \in Nat, pos' \in Nat, pos <= pos'
  PROVE  Aligned(start)'
<1>1. \A p \in DOMAIN start : start[p] \in Nat
  OBVIOUS
<1> QED
  BY <1>1 DEF Aligned

\* Everything stays in its place.
LEMMA PlacedKept ==
  ASSUME NEW at, NEW start, Placed(at, start), tree' = tree, pos \in Nat, pos' \in Nat, pos <= pos',
         NEW a, Keeps(a)
  PROVE  Placed(at, start)'
<1>1. Arranged(at, start)'
  BY SameTree DEF Placed
<1>2. start \in [DOMAIN start -> Nat]
  BY DEF Placed, Arranged
<1> QED
  BY <1>1, <1>2, SlotsKept, AlignedKept DEF Placed

--------------------------------------------------------------------------------
(* serialize leaves everything written *)

OnStack == {stack[i].path : i \in DOMAIN stack}

\* A call of emit_dir knows where its directory is, what it has placed and filled.
Entered(call, at, start) ==
  /\ call.path \in DOMAIN start
  /\ call.at = at[call.path] /\ call.start = start[call.path]
  /\ \A n \in Children(call.path) :
       /\ n \in call.unplaced <=> n \notin DOMAIN call.slot
       /\ n \in call.unplaced => Append(call.path, n) \notin DOMAIN at
       /\ n \notin call.unplaced => /\ Append(call.path, n) \in DOMAIN at
                                    /\ call.slot[n] = at[Append(call.path, n)]
       /\ n \in call.unfilled <=> Append(call.path, n) \notin DOMAIN start

\* The call that reserves slots has come as far as it has written.
Reserving(call) ==
  \E m \in 0..Entries :
    /\ call.unplaced = {n \in Children(call.path) : m < n}
    /\ call.unplaced # {} => pos = call.start + Room(call.path)[m]

Serializing(at, start) ==
  /\ Placed(at, start) /\ pos % 4 = 0
  /\ \A i \in DOMAIN stack :
       /\ stack[i].path \in DOMAIN tree /\ tree[stack[i].path].type = "dir"
       /\ Entered(stack[i], at, start)
       /\ IF i = Len(stack) THEN Reserving(stack[i]) ELSE stack[i].unplaced = {}
       /\ \A j \in DOMAIN stack : stack[i].path = stack[j].path => i = j
  /\ \A p \in DOMAIN start :
       p \notin OnStack => /\ Written(p, at, start)
                           /\ \A n \in Children(p) : Append(p, n) \in DOMAIN start

\* g is f with something for x.
Extended(f, g, x, value) ==
  /\ x \notin DOMAIN f /\ DOMAIN g = DOMAIN f \cup {x}
  /\ g[x] = value /\ \A y \in DOMAIN f : g[y] = f[y]
  /\ g = [y \in DOMAIN g |-> g[y]]

\* There is such a g.
LEMMA Extends ==
  ASSUME NEW f, NEW x, x \notin DOMAIN f, NEW value
  PROVE  \E g : Extended(f, g, x, value)
<1> DEFINE g == [y \in DOMAIN f \cup {x} |-> IF y = x THEN value ELSE f[y]]
<1>1. Extended(f, g, x, value)
  BY DEF Extended
<1> QED
  BY <1>1

\* One more slot.
LEMMA SlotArranged ==
  ASSUME NEW at, NEW start, Arranged(at, start), tree \in Trees,
         NEW p \in DOMAIN start, NEW n \in Children(p),
         NEW a \in Nat, \A q \in DOMAIN at : at[q] # a, a = start[p] + Room(p)[n - 1],
         NEW at2, Extended(at, at2, Append(p, n), a)
  PROVE  Arranged(at2, start)
<1>1. p \in DOMAIN tree /\ Append(p, n) \in DOMAIN tree
  <2>1. p \in DOMAIN tree
    BY DEF Arranged
  <2> QED
    BY <2>1, ChildShape
<1>2. \A q \in DOMAIN tree : \A m \in Children(q) : Append(q, m) = Append(p, n) => q = p /\ m = n
  BY <1>1, SiblingsDiffer
<1>3. PICK c : c = Append(p, n)
  OBVIOUS
<1>4. /\ DOMAIN at2 = DOMAIN at \cup {c} /\ at2[c] = a
      /\ \A q \in DOMAIN at : at2[q] = at[q]
      /\ at2 = [q \in DOMAIN at \cup {c} |-> at2[q]]
  BY <1>3 DEF Extended
<1>5. at2 \in [DOMAIN at2 -> Nat]
  <2>1. \A q \in DOMAIN at : at[q] \in Nat
    BY DEF Arranged
  <2>2. \A q \in DOMAIN at2 : at2[q] \in Nat
    BY <1>4, <2>1
  <2> QED
    BY <1>4, <2>2
<1>6. /\ DOMAIN start \subseteq DOMAIN at2 /\ DOMAIN at2 \subseteq DOMAIN tree
      /\ <<>> \in DOMAIN start /\ at2[<<>>] = ROOT /\ start \in [DOMAIN start -> Nat]
  BY <1>1, <1>3, <1>4 DEF Arranged
<1>7. ASSUME NEW q \in DOMAIN at2, NEW r \in DOMAIN at2, at2[q] = at2[r] PROVE q = r
  <2>1. \A x, y \in DOMAIN at : at[x] = at[y] => x = y
    BY DEF Arranged
  <2> QED
    BY <1>4, <1>7, <2>1
<1>8. ASSUME NEW q \in DOMAIN tree, NEW m \in Children(q), Append(q, m) \in DOMAIN at2
      PROVE  q \in DOMAIN start /\ at2[Append(q, m)] = start[q] + Room(q)[m - 1]
  <2>1. CASE Append(q, m) \in DOMAIN at
    <3>1. q \in DOMAIN start /\ at[Append(q, m)] = start[q] + Room(q)[m - 1]
      BY <2>1 DEF Arranged
    <3> QED
      BY <1>4, <2>1, <3>1
  <2>2. CASE Append(q, m) = c
    BY <1>2, <1>3, <1>4, <2>2
  <2> QED
    BY <1>4, <1>8, <2>1, <2>2
<1> QED
  BY <1>5, <1>6, <1>7, <1>8 DEF Arranged

\* What one more path points to.
LEMMA StartArranged ==
  ASSUME NEW at, NEW start, Arranged(at, start), NEW c \in DOMAIN at,
         NEW s \in Nat, NEW start2, Extended(start, start2, c, s)
  PROVE  Arranged(at, start2)
<1>1. /\ DOMAIN start2 = DOMAIN start \cup {c} /\ start2[c] = s
      /\ \A q \in DOMAIN start : start2[q] = start[q]
      /\ start2 = [q \in DOMAIN start \cup {c} |-> start2[q]]
  BY DEF Extended
<1>2. start2 \in [DOMAIN start2 -> Nat]
  <2>1. \A q \in DOMAIN start : start[q] \in Nat
    BY DEF Arranged
  <2>2. \A q \in DOMAIN start2 : start2[q] \in Nat
    BY <1>1, <2>1
  <2> QED
    BY <1>1, <2>2
<1> QED
  BY <1>1, <1>2 DEF Arranged

\* One more path that begins at a word.
LEMMA StartAligned ==
  ASSUME NEW start, Aligned(start), NEW c, NEW s \in Nat, s % 4 = 0, s <= pos,
         NEW start2, Extended(start, start2, c, s)
  PROVE  Aligned(start2)
BY DEF Aligned, Extended

\* A call further out notices nothing of what an inner one places.
LEMMA EnteredStays ==
  ASSUME tree \in Trees, tree' = tree, NEW p \in DOMAIN tree, NEW n \in Children(p),
         NEW at, NEW start, DOMAIN start \subseteq DOMAIN at,
         NEW at2, DOMAIN at2 \subseteq DOMAIN at \cup {Append(p, n)},
         DOMAIN at \subseteq DOMAIN at2, \A q \in DOMAIN at : at2[q] = at[q],
         NEW start2, DOMAIN start2 \subseteq DOMAIN start \cup {Append(p, n)},
         DOMAIN start \subseteq DOMAIN start2, \A q \in DOMAIN start : start2[q] = start[q],
         NEW call, call.path \in DOMAIN tree, call.path # p, Entered(call, at, start)
  PROVE  Entered(call, at2, start2)'
<1>1. \A m \in Children(call.path) : Append(call.path, m) # Append(p, n)
  BY SiblingsDiffer
<1>2. Children(call.path)' = Children(call.path)
  BY SameTree
<1> QED
  BY <1>1, <1>2 DEF Entered

\* Adding cells behind the end changes nothing before it.
LEMMA AddedKeeps ==
  ASSUME NEW a \in DOMAIN image, NEW more, image' = Adding(image, more)
  PROVE  Keeps(a)
BY DEF Keeps, Adding

\* Nor does patching an inode, elsewhere than in its slot.
LEMMA PatchedKeeps ==
  ASSUME NEW a \in DOMAIN image, NEW name, IsSlot(image[a], name), NEW inode,
         NEW more, image' \in {Patched(a, inode), Adding(Patched(a, inode), more)}
  PROVE  Keeps(a) /\ image'[a].inode = inode
<1> DEFINE patched == Patched(a, inode)
<1>1. /\ DOMAIN patched = DOMAIN image
      /\ \A b \in DOMAIN image : b # a => patched[b] = image[b]
      /\ patched[a].inode = inode
      /\ \A any : IsSlot(image[a], any) => IsSlot(patched[a], any)
  BY SlotPatched
<1> HIDE DEF patched
<1>2. DOMAIN image \subseteq DOMAIN image' /\ \A b \in DOMAIN image : image'[b] = patched[b]
  <2>1. CASE image' = patched
    BY <1>1, <2>1
  <2>2. CASE image' = Adding(patched, more)
    BY <1>1, <2>2 DEF Adding
  <2> QED
    BY <2>1, <2>2 DEF patched
<1> QED
  BY <1>1, <1>2 DEF Keeps

\* There is nothing at the end of the image yet.
LEMMA NothingAtEnd == LayoutInv => \A a \in DOMAIN image : a \in Nat /\ a < pos
<1> SUFFICES ASSUME LayoutInv, NEW a \in DOMAIN image PROVE a \in Nat /\ a < pos
  OBVIOUS
<1>1. a \in Nat /\ image[a].bytes \in Nat \ {0} /\ a + image[a].bytes <= pos /\ pos \in Nat
  BY DEF LayoutInv, WriterTypes, Laid, Sized
<1> QED
  BY <1>1

\* The header: the root has its inode, and its entries begin behind it.
LEMMA SerializingInitially ==
  ASSUME Init
  PROVE  \E at, start : Serializing(at, start)
<1> DEFINE at == [p \in {<<>>} |-> ROOT]
           start == [p \in {<<>>} |-> 76]
           call == Call(<<>>, ROOT, 76)
<1>1. /\ tree \in Trees /\ <<>> \in DOMAIN tree /\ tree[<<>>].type = "dir"
      /\ pos = 76 /\ stack = <<call>> /\ image = [a \in {64} |-> Slot(12, 0, Blank)]
  BY TreesAssumption DEF Init, ROOT
<1>2. \A p \in DOMAIN tree : \A n \in Children(p) : Append(p, n) # <<>>
  BY <1>1, ChildShape
<1>3. Arranged(at, start)
  BY <1>1, <1>2 DEF Arranged, ROOT
<1>4. HasSlots(at)
  <2>1. IsSlot(Slot(12, 0, Blank), 0)
    BY DEF IsSlot
  <2> QED
    BY <1>1, <2>1 DEF HasSlots, NameOf, ROOT
<1>5. Aligned(start)
  BY <1>1 DEF Aligned
<1>6. /\ call.path = <<>> /\ call.at = ROOT /\ call.start = 76
      /\ call.unplaced = Children(<<>>) /\ call.unfilled = Children(<<>>)
      /\ DOMAIN call.slot = {}
  BY DEF Call, Children
<1> HIDE DEF call
<1>7. Entered(call, at, start)
  BY <1>1, <1>2, <1>6 DEF Entered
<1>8. Reserving(call)
  <2>1. 0 \in 0..Entries /\ Room(<<>>)[0] = 0
    BY NamesTo, RoomIs
  <2>2. Children(<<>>) = {n \in Children(<<>>) : 0 < n}
    BY NamesTo DEF Children
  <2> QED
    BY <1>1, <1>6, <2>1, <2>2 DEF Reserving
<1>9. DOMAIN stack = {1} /\ Len(stack) = 1 /\ stack[1] = call
  BY <1>1
<1>10. \A p \in DOMAIN start : p \in OnStack
  BY <1>6, <1>9 DEF OnStack
<1>11. pos % 4 = 0
  BY <1>1
<1> HIDE DEF at, start
<1>12. Serializing(at, start)
  BY <1>1, <1>3, <1>4, <1>5, <1>6, <1>7, <1>8, <1>9, <1>10, <1>11 DEF Serializing, Placed
<1> QED
  BY <1>12

\* One more slot: it is where Room says, since the names come in their order.
LEMMA SerializingByReserve ==
  ASSUME NEW at, NEW start, LayoutInv, Serializing(at, start), Reserve
  PROVE  \E at2, start2 : Serializing(at2, start2)'
<1>1. PICK top, p, n : top = Len(stack) /\ p = Top.path /\ n = First(Top.unplaced)
  OBVIOUS
<1>2. PICK c, more :
        /\ c = Append(p, n)
        /\ more = [Top EXCEPT !.unplaced = @ \ {n}, !.slot = Adding(@, [m \in {n} |-> pos])]
  OBVIOUS
<1>3. /\ tree \in Trees /\ pos \in Nat /\ stack \in Seq(Calls) /\ stack # <<>>
      /\ Top \in Calls /\ top \in DOMAIN stack /\ Top = stack[top] /\ top \in Nat
  BY <1>1, TopTyped DEF LayoutInv, WriterTypes, Reserve, Top
<1>4. n \in Top.unplaced /\ n \in Names /\ \A k \in Top.unplaced : n <= k
  BY <1>1, <1>3, FirstIsLeast DEF Reserve, Calls
<1>5. /\ image' = Adding(image, [a \in {pos} |-> Slot(SlotSize(n), n, Blank)])
      /\ pos' = pos + SlotSize(n) /\ UNCHANGED <<tree, pc>>
      /\ stack' = [stack EXCEPT ![top].unplaced = @ \ {n},
                                ![top].slot = Adding(@, [m \in {n} |-> pos])]
  BY <1>1 DEF Reserve
<1>6. /\ Arranged(at, start) /\ HasSlots(at) /\ Aligned(start) /\ pos % 4 = 0
  BY DEF Serializing, Placed
<1>7. /\ p \in DOMAIN start /\ p \in DOMAIN tree /\ Entered(Top, at, start) /\ Reserving(Top)
      /\ tree[p].type = "dir" /\ Top.start = start[p] /\ start[p] \in Nat
  <2>1. p \in DOMAIN tree /\ Entered(Top, at, start) /\ Reserving(Top) /\ tree[p].type = "dir"
    BY <1>1, <1>3 DEF Serializing
  <2>2. p \in DOMAIN start /\ Top.start = start[p]
    BY <1>1, <2>1 DEF Entered
  <2> QED
    BY <1>6, <2>1, <2>2 DEF Arranged
<1>8. PICK m \in 0..Entries : Top.unplaced = {k \in Children(p) : m < k} /\ pos = start[p] + Room(p)[m]
  BY <1>1, <1>4, <1>7 DEF Reserving
<1>9. Entries \in Nat /\ Names = 1..Entries /\ Children(p) \subseteq Names
  BY NamesTo DEF Children
<1>10. n \in Children(p) /\ m < n /\ more.unplaced = {k \in Children(p) : n < k}
  <2>1. n \in Children(p) /\ m < n
    BY <1>4, <1>8
  <2>2. Top.unplaced \ {n} = {k \in Children(p) : n < k}
    BY <1>4, <1>8, <1>9, <2>1
  <2>3. more.unplaced = Top.unplaced \ {n}
    BY <1>2, <1>3 DEF Calls
  <2> QED
    BY <2>1, <2>2, <2>3
<1>11. c \in DOMAIN tree /\ c \notin DOMAIN at /\ NameOf(c) = n
  BY <1>1, <1>2, <1>3, <1>4, <1>7, <1>10, ChildShape DEF Entered, NameOf
<1>12. pos = start[p] + Room(p)[n - 1] /\ pos' = start[p] + Room(p)[n]
  <2>1. n - 1 \in m..Entries /\ \A k \in Children(p) : ~(m < k /\ k <= n - 1)
    BY <1>4, <1>8, <1>9, <1>10
  <2>2. Room(p)[n - 1] = Room(p)[m]
    BY <2>1, RoomStays
  <2>3. Room(p)[n] = Room(p)[n - 1] + SlotSize(n)
    BY <1>4, <1>10, RoomIs
  <2>4. Room(p)[n - 1] \in Nat /\ SlotSize(n) \in Nat
    <3>1. Room(p) \in [0..Entries -> Nat] /\ n - 1 \in 0..Entries
      BY <1>4, RoomIs
    <3> QED
      BY <1>4, <3>1, SlotTakes
  <2> QED
    BY <1>5, <1>7, <1>8, <2>2, <2>3, <2>4
<1>13. /\ DOMAIN stack' = DOMAIN stack /\ Len(stack') = top /\ stack'[top] = more
       /\ \A i \in DOMAIN stack : i # top => stack'[i] = stack[i]
  BY <1>1, <1>2, <1>3, <1>5 DEF Calls
<1>14. /\ more.path = p /\ more.at = Top.at /\ more.start = Top.start /\ more.unfilled = Top.unfilled
       /\ more.slot = Adding(Top.slot, [k \in {n} |-> pos])
  BY <1>1, <1>2, <1>3 DEF Calls
<1>15. PICK at2 : Extended(at, at2, c, pos)
  BY <1>11, Extends
<1>16. /\ DOMAIN at2 = DOMAIN at \cup {c} /\ at2[c] = pos /\ \A q \in DOMAIN at : at2[q] = at[q]
  BY <1>15 DEF Extended
<1>17. Arranged(at2, start)'
  <2>1. \A q \in DOMAIN at : at[q] # pos
    BY <1>3, <1>6, NothingAtEnd DEF HasSlots
  <2>2. Extended(at, at2, Append(p, n), pos)
    BY <1>2, <1>15
  <2>3. Arranged(at2, start)
    BY <1>3, <1>6, <1>7, <1>10, <1>12, <2>1, <2>2, SlotArranged
  <2> QED
    BY <1>5, <2>3, SameTree
<1>18. \E a : Keeps(a) /\ \E r \in DOMAIN at : a = at[r] /\ r = <<>>
  <2>1. ROOT \in DOMAIN image /\ <<>> \in DOMAIN at /\ at[<<>>] = ROOT
    BY <1>6 DEF HasSlots, Arranged
  <2> QED
    BY <1>5, <2>1, AddedKeeps
<1>19. HasSlots(at2)'
  <2>1. HasSlots(at)'
    BY <1>6, <1>18, SlotsKept
  <2>2. \A q \in DOMAIN at : at[q] \in DOMAIN image' /\ IsSlot(image'[at[q]], NameOf(q))
    BY <2>1 DEF HasSlots, IsSlot, NameOf, Slot
  <2>3. pos \in DOMAIN image' /\ image'[pos] = Slot(SlotSize(n), n, Blank)
    <3>1. pos \notin DOMAIN image
      BY <1>3, NothingAtEnd
    <3> QED
      BY <1>5, <3>1 DEF Adding
  <2>4. IsSlot(image'[pos], NameOf(c))
    BY <1>11, <2>3 DEF IsSlot
  <2>5. \A q \in DOMAIN at2 : at2[q] \in DOMAIN image' /\ IsSlot(image'[at2[q]], NameOf(q))
    BY <1>16, <2>2, <2>3, <2>4
  <2> QED
    BY <2>5 DEF HasSlots, IsSlot, NameOf, Slot
<1>20. pos' \in Nat /\ pos <= pos' /\ pos' % 4 = 0
  <2>1. SlotSize(n) \in Nat /\ SlotSize(n) % 4 = 0
    BY <1>4, SlotTakes, SlotAligned
  <2>2. \A x, y \in Nat : x % 4 = 0 /\ y % 4 = 0 => (x + y) % 4 = 0
    OBVIOUS
  <2> QED
    BY <1>3, <1>5, <1>6, <2>1, <2>2
<1>21. Aligned(start)'
  BY <1>3, <1>6, <1>20, AlignedKept DEF Arranged
<1>22. \A q : Children(q)' = Children(q) /\ Room(q)' = Room(q)
  BY <1>5, SameTree
<1>23. Entered(more, at2, start)'
  <2>1. ASSUME NEW k \in Children(p)
        PROVE  /\ k \in more.unplaced <=> k \notin DOMAIN more.slot
               /\ k \in more.unplaced => Append(p, k) \notin DOMAIN at2
               /\ k \notin more.unplaced => /\ Append(p, k) \in DOMAIN at2
                                            /\ more.slot[k] = at2[Append(p, k)]
               /\ k \in more.unfilled <=> Append(p, k) \notin DOMAIN start
    <3>1. k # n => Append(p, k) # c
      BY <1>2, <1>3, <1>7, <1>10, SiblingsDiffer
    <3>2. k \in more.unplaced <=> k \in Top.unplaced /\ k # n
      BY <1>2, <1>3 DEF Calls
    <3>3. n \notin DOMAIN Top.slot
      BY <1>1, <1>4, <1>7, <1>10 DEF Entered
    <3>4. /\ DOMAIN more.slot = DOMAIN Top.slot \cup {n} /\ more.slot[n] = pos
          /\ \A j \in DOMAIN Top.slot : more.slot[j] = Top.slot[j]
      BY <1>14, <3>3 DEF Adding
    <3>5. /\ k \in Top.unplaced <=> k \notin DOMAIN Top.slot
          /\ k \in Top.unplaced => Append(p, k) \notin DOMAIN at
          /\ k \notin Top.unplaced => /\ Append(p, k) \in DOMAIN at
                                      /\ Top.slot[k] = at[Append(p, k)]
          /\ k \in Top.unfilled <=> Append(p, k) \notin DOMAIN start
      BY <1>1, <1>7 DEF Entered
    <3>6. CASE k = n
      BY <1>2, <1>14, <1>16, <3>2, <3>4, <3>5, <3>6
    <3>7. CASE k # n
      BY <1>14, <1>16, <3>1, <3>2, <3>4, <3>5, <3>7
    <3> QED
      BY <3>6, <3>7
  <2>2. more.at = at2[p] /\ more.start = start[p]
    BY <1>1, <1>6, <1>7, <1>14, <1>16 DEF Entered, Arranged
  <2> QED
    BY <1>7, <1>14, <1>22, <2>1, <2>2 DEF Entered
<1>24. Reserving(more)'
  <2>1. n \in 0..Entries
    BY <1>9, <1>10
  <2> QED
    BY <1>7, <1>10, <1>12, <1>14, <1>22, <2>1 DEF Reserving
<1>25. ASSUME NEW i \in DOMAIN stack', i # top
       PROVE  /\ stack'[i].path \in DOMAIN tree' /\ tree'[stack'[i].path].type = "dir"
              /\ Entered(stack[i], at2, start)'
              /\ stack'[i].path # p /\ stack'[i].path = stack[i].path /\ stack'[i].unplaced = {}
  <2>1. PICK call : call = stack[i] /\ call = stack'[i]
    BY <1>13, <1>25
  <2>2. /\ call.path \in DOMAIN tree /\ tree[call.path].type = "dir" /\ Entered(call, at, start)
        /\ call.unplaced = {} /\ call.path # p
    BY <1>1, <1>3, <1>13, <1>25, <2>1 DEF Serializing
  <2>3. DOMAIN start \subseteq DOMAIN at /\ DOMAIN at2 \subseteq DOMAIN at \cup {Append(p, n)}
    BY <1>2, <1>6, <1>16 DEF Arranged
  <2>4. Entered(call, at2, start)'
    BY <1>3, <1>5, <1>7, <1>10, <1>16, <2>2, <2>3, EnteredStays
  <2>5. Entered(stack[i], at2, start)'
    BY <2>1, <2>4 DEF Entered
  <2> QED
    BY <1>5, <2>1, <2>2, <2>5
<1>26. /\ stack'[top].path \in DOMAIN tree' /\ tree'[stack'[top].path].type = "dir"
       /\ Entered(stack[top], at2, start)' /\ Reserving(stack[top])' /\ stack'[top].path = p
  <2>1. Entered(stack[top], at2, start)' /\ Reserving(stack[top])'
    BY <1>13, <1>23, <1>24 DEF Entered, Reserving
  <2> QED
    BY <1>5, <1>7, <1>13, <1>14, <2>1
<1>27. ASSUME NEW i \in DOMAIN stack', NEW j \in DOMAIN stack', stack'[i].path = stack'[j].path
       PROVE  i = j
  <2>1. stack'[i].path = stack[i].path /\ stack'[j].path = stack[j].path
    BY <1>1, <1>3, <1>25, <1>26
  <2> QED
    BY <1>13, <1>27, <2>1 DEF Serializing
<1>28. ASSUME NEW q \in DOMAIN start, q \notin OnStack'
       PROVE  /\ Written(q, at2, start)'
              /\ \A k \in Children(q)' : Append(q, k) \in DOMAIN start
  <2>1. q \notin OnStack
    <3>1. \A i \in DOMAIN stack : stack'[i].path = stack[i].path
      BY <1>1, <1>3, <1>13, <1>25, <1>26
    <3> QED
      BY <1>13, <1>28, <3>1 DEF OnStack
  <2>2. Written(q, at, start) /\ \A k \in Children(q) : Append(q, k) \in DOMAIN start
    BY <2>1 DEF Serializing
  <2>3. Written(q, at, start)'
    <3>1. at[q] \in DOMAIN image
      BY <1>6 DEF Arranged, HasSlots
    <3>2. image'[at[q]] = image[at[q]]
      BY <1>5, <3>1 DEF Adding
    <3> QED
      BY <1>5, <1>6, <1>18, <2>2, <3>2, WrittenKept DEF Placed
  <2>4. at2[q] = at[q]
    BY <1>6, <1>16 DEF Arranged
  <2>5. Children(q)' = Children(q)
    BY <1>22
  <2> QED
    BY <2>2, <2>3, <2>4, <2>5 DEF Written
<1>29. Placed(at2, start)'
  BY <1>17, <1>19, <1>21 DEF Placed
<1>30. Serializing(at2, start)'
  BY <1>1, <1>3, <1>13, <1>20, <1>25, <1>26, <1>27, <1>28, <1>29 DEF Serializing
<1> QED
  BY <1>30

\* What the innermost call does with an entry is written; or it calls emit_dir for it.
LEMMA Filled ==
  ASSUME NEW at, NEW start, Serializing(at, start), tree \in Trees, tree' = tree,
         pos \in Nat, pos' \in Nat, pos <= pos', pos' % 4 = 0,
         stack \in Seq(Calls), stack # <<>>, Top.unplaced = {},
         NEW n \in Top.unfilled, NEW p, p = Top.path, NEW c, c = Append(p, n),
         NEW s \in Nat, s % 4 = 0, s <= pos',
         NEW start2, Extended(start, start2, c, s), Keeps(at[c]),
         NEW rest, rest = [stack EXCEPT ![Len(stack)].unfilled = @ \ {n}],
         \/ stack' = rest /\ Children(c) = {} /\ Written(c, at, start2)'
         \/ stack' = Append(rest, Call(c, at[c], s)) /\ tree[c].type = "dir" /\ s = pos'
  PROVE  Serializing(at, start2)'
<1>1. PICK top, less : top = Len(stack) /\ less = [Top EXCEPT !.unfilled = @ \ {n}]
  OBVIOUS
<1>2. Top \in Calls /\ top \in DOMAIN stack /\ Top = stack[top] /\ top \in Nat /\ DOMAIN stack = 1..top
  BY <1>1, TopTyped DEF Top
<1>3. Arranged(at, start) /\ HasSlots(at) /\ Aligned(start)
  BY DEF Serializing, Placed
<1>4. p \in DOMAIN start /\ p \in DOMAIN tree /\ Entered(Top, at, start) /\ Reserving(Top)
  <2>1. p \in DOMAIN tree /\ Entered(Top, at, start) /\ Reserving(Top)
    BY <1>1, <1>2 DEF Serializing
  <2> QED
    BY <2>1 DEF Entered
<1>5. n \in Children(p) /\ n \in Names /\ c \in DOMAIN tree /\ c \in DOMAIN at /\ c # <<>>
  <2>1. n \in Children(p)
    BY <1>2 DEF Calls
  <2> QED
    BY <1>4, <2>1, ChildShape DEF Entered
<1>6. /\ c \notin DOMAIN start /\ DOMAIN start2 = DOMAIN start \cup {c} /\ start2[c] = s
      /\ \A q \in DOMAIN start : start2[q] = start[q]
  BY DEF Extended
<1>7. /\ rest \in Seq(Calls) /\ Len(rest) = top /\ DOMAIN rest = 1..top /\ rest[top] = less
      /\ \A i \in DOMAIN stack : i # top => rest[i] = stack[i]
  <2>1. less \in Calls
    BY <1>1, <1>2 DEF Calls
  <2>2. rest = [stack EXCEPT ![top] = less]
    BY <1>1, <1>2
  <2>3. rest \in Seq(Calls) /\ DOMAIN rest = DOMAIN stack
    <3>1. rest = [stack EXCEPT ![Len(stack)] = less]
      BY <1>1, <2>2
    <3> QED
      BY <2>1, <3>1, TopChanged
  <2>4. rest[top] = less /\ \A i \in DOMAIN stack : i # top => rest[i] = stack[i]
    BY <1>2, <2>2
  <2>5. Len(rest) = top
    BY <1>2, <2>3
  <2> QED
    BY <1>2, <2>3, <2>4, <2>5
<1>8. /\ less.path = p /\ less.at = Top.at /\ less.start = Top.start /\ less.slot = Top.slot
      /\ less.unplaced = {} /\ less.unfilled = Top.unfilled \ {n}
  BY <1>1, <1>2 DEF Calls
<1>9. Placed(at, start2)'
  <2>1. Placed(at, start)'
    BY PlacedKept DEF Serializing
  <2>2. Arranged(at, start2)'
    BY <1>3, <1>5, StartArranged, SameTree
  <2>3. Aligned(start2)'
    <3>1. \A q \in DOMAIN start : start[q] % 4 = 0 /\ start[q] <= pos'
      BY <2>1 DEF Placed, Aligned
    <3> QED
      BY <1>6, <3>1 DEF Aligned
  <2> QED
    BY <2>1, <2>2, <2>3 DEF Placed
<1>10. \A q : Children(q)' = Children(q) /\ Room(q)' = Room(q)
  BY SameTree
<1>11. DOMAIN start \subseteq DOMAIN at
  BY <1>3 DEF Arranged
<1>12. Entered(less, at, start2)'
  <2>1. \A k \in Children(p) : k # n => Append(p, k) # c
    BY <1>4, <1>5, SiblingsDiffer
  <2>2. \A k \in Children(p) :
          /\ k \in less.unplaced <=> k \notin DOMAIN less.slot
          /\ k \in less.unplaced => Append(p, k) \notin DOMAIN at
          /\ k \notin less.unplaced => /\ Append(p, k) \in DOMAIN at
                                       /\ less.slot[k] = at[Append(p, k)]
          /\ k \in less.unfilled <=> Append(p, k) \notin DOMAIN start2
    BY <1>4, <1>6, <1>8, <2>1 DEF Entered
  <2>3. less.at = at[p] /\ less.start = start2[p] /\ p \in DOMAIN start2
    BY <1>4, <1>6, <1>8 DEF Entered
  <2> QED
    BY <1>8, <1>10, <2>2, <2>3 DEF Entered
<1>13. ASSUME NEW i \in 1..top
       PROVE  /\ rest[i].path \in DOMAIN tree' /\ tree'[rest[i].path].type = "dir"
              /\ rest[i].path = stack[i].path /\ rest[i].path \in DOMAIN start
              /\ rest[i].unplaced = {}
              /\ \A call : call = rest[i] => Entered(call, at, start2)'
  <2>1. CASE i = top
    <3>1. tree[p].type = "dir"
      BY <1>4, <1>5, ChildShape
    <3> QED
      BY <1>2, <1>4, <1>7, <1>8, <1>12, <2>1, <3>1
  <2>2. CASE i # top
    <3>1. PICK call : call = stack[i] /\ call = rest[i]
      BY <1>2, <1>7, <2>2
    <3>2. /\ call.path \in DOMAIN tree /\ tree[call.path].type = "dir" /\ Entered(call, at, start)
          /\ call.unplaced = {} /\ call.path # p
      BY <1>1, <1>2, <2>2, <3>1 DEF Serializing
    <3>3. Entered(call, at, start2)'
      BY <1>4, <1>5, <1>6, <1>11, <3>2, EnteredStays
    <3> QED
      BY <3>1, <3>2, <3>3 DEF Entered
  <2> QED
    BY <2>1, <2>2
<1>14. \A i, j \in 1..top : rest[i].path = rest[j].path => i = j
  BY <1>2, <1>13 DEF Serializing
<1>15. ASSUME NEW q \in DOMAIN start, \A i \in 1..top : rest[i].path # q
       PROVE  Written(q, at, start2)' /\ \A k \in Children(q)' : Append(q, k) \in DOMAIN start2
  <2>1. q \notin OnStack
    BY <1>2, <1>13, <1>15 DEF OnStack
  <2>2. Written(q, at, start) /\ \A k \in Children(q) : Append(q, k) \in DOMAIN start
    BY <2>1 DEF Serializing
  <2>3. at[q] # at[c] /\ at[q] \in DOMAIN image
    BY <1>3, <1>5, <1>6, <1>11 DEF Arranged, HasSlots
  <2>4. image'[at[q]] = image[at[q]]
    BY <2>3 DEF Keeps
  <2>5. Written(q, at, start)'
    BY <1>3, <1>5, <2>2, <2>4, WrittenKept DEF Placed
  <2> QED
    BY <1>6, <1>10, <2>2, <2>5 DEF Written
<1>16. CASE stack' = rest /\ Children(c) = {} /\ Written(c, at, start2)'
  <2>1. Reserving(less)'
    <3>1. PICK m \in 0..Entries : {} = {k \in Children(p) : m < k}
      BY <1>4 DEF Reserving
    <3> QED
      BY <1>8, <1>10, <3>1 DEF Reserving
  <2>2. ASSUME NEW i \in DOMAIN stack'
        PROVE  /\ stack'[i].path \in DOMAIN tree' /\ tree'[stack'[i].path].type = "dir"
               /\ Entered(stack[i], at, start2)'
               /\ IF i = Len(stack') THEN Reserving(stack[i])' ELSE stack'[i].unplaced = {}
               /\ \A j \in DOMAIN stack' : stack'[i].path = stack'[j].path => i = j
    <3>1. i \in 1..top /\ stack'[i] = rest[i] /\ Len(stack') = top /\ DOMAIN stack' = 1..top
      BY <1>7, <1>16
    <3>2. Entered(stack[i], at, start2)'
      BY <1>13, <3>1 DEF Entered
    <3>3. i = top => Reserving(stack[i])'
      BY <1>7, <2>1, <3>1 DEF Reserving
    <3> QED
      BY <1>13, <1>14, <1>16, <3>1, <3>2, <3>3
  <2>3. ASSUME NEW q \in DOMAIN start2, q \notin OnStack'
        PROVE  Written(q, at, start2)' /\ \A k \in Children(q)' : Append(q, k) \in DOMAIN start2
    <3>1. q \in DOMAIN start => \A i \in 1..top : rest[i].path # q
      BY <1>7, <1>16, <2>3 DEF OnStack
    <3> QED
      BY <1>6, <1>10, <1>15, <1>16, <3>1
  <2> QED
    BY <1>9, <2>2, <2>3 DEF Serializing
<1>17. CASE stack' = Append(rest, Call(c, at[c], s)) /\ tree[c].type = "dir" /\ s = pos'
  <2>1. PICK call : call = Call(c, at[c], s)
    OBVIOUS
  <2>2. /\ call.path = c /\ call.at = at[c] /\ call.start = s
        /\ call.unplaced = Children(c) /\ call.unfilled = Children(c) /\ DOMAIN call.slot = {}
    BY <2>1 DEF Call, Children
  <2>3. /\ Len(stack') = top + 1 /\ DOMAIN stack' = 1..(top + 1) /\ stack'[top + 1] = call
        /\ \A i \in 1..top : stack'[i] = rest[i]
    BY <1>2, <1>7, <1>17, <2>1
  <2>4. /\ \A i \in 1..top : i \in DOMAIN stack' /\ i # Len(stack')
        /\ top + 1 \in DOMAIN stack' /\ \A i \in DOMAIN stack' : i \in 1..top \/ i = top + 1
    BY <1>2, <2>3
  <2>5. \A k \in Children(c) : Append(c, k) \notin DOMAIN at /\ Append(c, k) \notin DOMAIN start2
    <3>1. \A k \in Children(c) : Append(c, k) \notin DOMAIN at /\ Append(c, k) # c
      BY <1>3, <1>5, <1>6, ChildShape DEF Arranged
    <3> QED
      BY <1>6, <1>11, <3>1
  <2>6. Entered(call, at, start2)'
    BY <1>6, <1>10, <2>2, <2>5 DEF Entered
  <2>7. Reserving(call)'
    <3>1. 0 \in 0..Entries /\ Room(c)[0] = 0
      BY NamesTo, RoomIs
    <3>2. Children(c) = {k \in Children(c) : 0 < k}
      BY NamesTo DEF Children
    <3> QED
      BY <1>10, <1>17, <2>2, <3>1, <3>2 DEF Reserving
  <2>8. ASSUME NEW i \in DOMAIN stack'
        PROVE  /\ stack'[i].path \in DOMAIN tree' /\ tree'[stack'[i].path].type = "dir"
               /\ Entered(stack[i], at, start2)'
               /\ IF i = Len(stack') THEN Reserving(stack[i])' ELSE stack'[i].unplaced = {}
               /\ \A j \in DOMAIN stack' : stack'[i].path = stack'[j].path => i = j
    <3>1. CASE i \in 1..top
      <4>1. Entered(stack[i], at, start2)'
        BY <1>13, <2>3, <3>1 DEF Entered
      <4>2. ASSUME NEW j \in DOMAIN stack', stack'[i].path = stack'[j].path PROVE i = j
        <5>1. CASE j \in 1..top
          BY <1>14, <2>3, <3>1, <4>2, <5>1
        <5>2. CASE j = top + 1
          BY <1>6, <1>13, <2>2, <2>3, <3>1, <4>2, <5>2
        <5> QED
          BY <2>3, <1>2, <5>1, <5>2
      <4>3. i # Len(stack') /\ stack'[i].unplaced = {}
        BY <1>13, <2>3, <2>4, <3>1
      <4> QED
        BY <1>13, <2>3, <3>1, <4>1, <4>2, <4>3
    <3>2. CASE i = top + 1
      <4>1. Entered(stack[i], at, start2)' /\ Reserving(stack[i])'
        BY <2>3, <2>6, <2>7, <3>2 DEF Entered, Reserving
      <4>2. ASSUME NEW j \in DOMAIN stack', stack'[i].path = stack'[j].path PROVE i = j
        <5>1. CASE j \in 1..top
          <6>1. stack'[j].path \in DOMAIN start
            BY <1>13, <2>3, <5>1
          <6>2. stack'[j].path = c
            BY <2>2, <2>3, <3>2, <4>2
          <6> QED
            BY <1>6, <6>1, <6>2
        <5> QED
          BY <1>2, <2>3, <3>2, <5>1
      <4> QED
        BY <1>5, <1>17, <2>2, <2>3, <3>2, <4>1, <4>2
    <3> QED
      BY <1>2, <2>3, <3>1, <3>2
  <2>9. ASSUME NEW q \in DOMAIN start2, q \notin OnStack'
        PROVE  Written(q, at, start2)' /\ \A k \in Children(q)' : Append(q, k) \in DOMAIN start2
    <3>1. \A i \in DOMAIN stack' : stack'[i].path # q
      BY <2>9 DEF OnStack
    <3>2. q # c
      BY <2>2, <2>3, <2>4, <3>1
    <3>3. \A i \in 1..top : rest[i].path # q
      BY <2>3, <2>4, <3>1
    <3> QED
      BY <1>6, <1>15, <3>2, <3>3
  <2> QED
    BY <1>9, <2>8, <2>9 DEF Serializing
<1> QED
  BY <1>16, <1>17

\* Written, said of the next state.
LEMMA WrittenNow ==
  ASSUME tree' = tree, NEW at, NEW c, NEW s, NEW start2, start2[c] = s,
         image'[at[c]].inode = InodeOf(c, s), tree[c].zips # <<>> => Stored(c, s)'
  PROVE  Written(c, at, start2)'
<1>1. InodeOf(c, s)' = InodeOf(c, s)
  BY DEF InodeOf, DirSize, EntrySizes, Children, NameField, Sums, Inode
<1> QED
  BY <1>1 DEF Written

\* Every block is at an address of its own.
FileCells(p, zips, ends) ==
  LET from == [i \in DOMAIN zips |-> ends[i - 1]]
      block == [i \in DOMAIN zips |-> [kind |-> "block", bytes |-> zips[i],
                                       content |-> <<p, i>>]]
  IN  [a \in {from[i] : i \in DOMAIN zips} |-> block[CHOOSE i \in DOMAIN zips : from[i] = a]]

\* Each block is at an address of its own, so it is found there.
LEMMA BlocksAt ==
  ASSUME NEW zips \in Seq(Nat \ {0}), NEW start \in Nat, NEW p,
         NEW ends, ends = BlockEnds(zips, start)
  PROVE  LET cells == FileCells(p, zips, ends)
         IN  /\ \A i \in DOMAIN zips : /\ ends[i - 1] \in DOMAIN cells
                                       /\ cells[ends[i - 1]] = FileBlock(p, zips, i)
             /\ \A a \in DOMAIN cells : a \in Nat /\ start <= a
<1> DEFINE from  == [i \in DOMAIN zips |-> ends[i - 1]]
           block == [i \in DOMAIN zips |-> [kind |-> "block", bytes |-> zips[i],
                                            content |-> <<p, i>>]]
           n(a)  == CHOOSE i \in DOMAIN zips : from[i] = a
           cells == [a \in {from[i] : i \in DOMAIN zips} |-> block[n(a)]]
<1>1. /\ Len(zips) \in Nat /\ DOMAIN zips = 1..Len(zips)
      /\ \A i \in DOMAIN zips : zips[i] \in Nat \ {0} /\ i - 1 \in 0..Len(zips) /\ i \in 0..Len(zips)
  OBVIOUS
<1>2. /\ ends \in [0..Len(zips) -> Nat] /\ ends[0] = start
      /\ \A i \in 1..Len(zips) : ends[i] = ends[i - 1] + zips[i]
      /\ \A i \in 0..Len(zips) : \A j \in i..Len(zips) : ends[i] <= ends[j]
  BY BlocksEnd
<1>3. \A i \in DOMAIN zips : from[i] = ends[i - 1] /\ ends[i - 1] \in Nat /\ ends[i] \in Nat /\ start <= ends[i - 1]
  <2>1. \A i \in DOMAIN zips : ends[0] <= ends[i - 1]
    BY <1>1, <1>2
  <2> QED
    BY <1>1, <1>2, <2>1
<1>4. ASSUME NEW i \in DOMAIN zips, NEW j \in DOMAIN zips, i < j PROVE ends[i - 1] < ends[j - 1]
  <2>1. j - 1 \in i..Len(zips)
    BY <1>1, <1>4
  <2>2. ends[i] <= ends[j - 1] /\ ends[i] = ends[i - 1] + zips[i]
    BY <1>1, <1>2, <2>1
  <2>3. ends[i - 1] \in Nat /\ ends[j - 1] \in Nat /\ zips[i] \in Nat \ {0}
    BY <1>1, <1>3
  <2> QED
    BY <2>2, <2>3
<1>5. ASSUME NEW i \in DOMAIN zips, NEW j \in DOMAIN zips, from[i] = from[j] PROVE i = j
  <2>1. ends[i - 1] = ends[j - 1] /\ ends[i - 1] \in Nat /\ i \in Nat /\ j \in Nat
    BY <1>1, <1>3, <1>5
  <2>2. ~(i < j) /\ ~(j < i)
    BY <1>3, <1>4, <2>1
  <2> QED
    BY <2>1, <2>2
<1> HIDE DEF from
<1>6. \A i \in DOMAIN zips : n(from[i]) = i
  BY <1>5
<1>7. \A i \in DOMAIN zips : from[i] \in DOMAIN cells /\ cells[from[i]] = block[i]
  <2> HIDE DEF block
  <2>1. \A i \in DOMAIN zips : from[i] \in DOMAIN cells /\ cells[from[i]] = block[n(from[i])]
    OBVIOUS
  <2> QED
    BY <1>6, <2>1
<1>8. \A a \in DOMAIN cells : a \in Nat /\ start <= a
  BY <1>3
<1>9. \A i \in DOMAIN zips : block[i] = FileBlock(p, zips, i)
  BY DEF FileBlock
<1>10. FileCells(p, zips, ends) = cells
  BY DEF FileCells, from
<1> HIDE DEF block, cells
<1> QED
  BY <1>3, <1>7, <1>8, <1>9, <1>10

\* emit_file_data puts the table at the end of the image, the blocks behind it.
LEMMA DataStored ==
  ASSUME LayoutInv, pos \in Nat, tree' = tree, NEW c,
         NEW zips, zips = tree[c].zips, zips \in Seq(Nat \ {0}), zips # <<>>,
         NEW ends, ends = BlockEnds(zips, pos + TableBytes(zips)),
         NEW patched, DOMAIN patched = DOMAIN image,
         NEW table, table = FileTable(zips, ends),
         image' = Adding(patched, Adding([a \in {pos} |-> table], FileCells(c, zips, ends))),
         NEW s, s = pos
  PROVE  Stored(c, s)'
<1>1. PICK cells, start : cells = FileCells(c, zips, ends) /\ start = pos + TableBytes(zips)
  OBVIOUS
<1>2. start \in Nat /\ pos < start
  <2>1. Len(zips) \in Nat \ {0} /\ TableBytes(zips) = 4 * Len(zips)
    BY DEF TableBytes
  <2> QED
    BY <1>1, <2>1
<1>3. \A a \in DOMAIN image : a \in Nat /\ a < pos
  BY NothingAtEnd
<1>4. /\ \A i \in DOMAIN zips : ends[i - 1] \in DOMAIN cells
                                /\ cells[ends[i - 1]] = FileBlock(c, zips, i)
      /\ \A a \in DOMAIN cells : a \in Nat /\ start <= a
  BY <1>1, <1>2, BlocksAt
<1>5. image' = Adding(patched, Adding([a \in {pos} |-> table], cells))
  BY <1>1
<1>6. PICK first, all : first = [a \in {pos} |-> table] /\ all = Adding(first, cells)
  OBVIOUS
<1>7. DOMAIN first = {pos} /\ first[pos] = table
  BY <1>6
<1>8. /\ DOMAIN all = {pos} \cup DOMAIN cells /\ all[pos] = table
      /\ \A a \in DOMAIN cells : all[a] = cells[a]
  BY <1>2, <1>4, <1>6, <1>7 DEF Adding
<1>9. image' = Adding(patched, all)
  BY <1>5, <1>6
<1>10. \A a \in DOMAIN all : a \in DOMAIN image' /\ image'[a] = all[a]
  <2>1. \A a \in DOMAIN all : a \notin DOMAIN patched
    BY <1>2, <1>3, <1>4, <1>8
  <2> QED
    BY <1>9, <2>1 DEF Adding
<1>11. s \in DOMAIN image' /\ image'[s] = FileTable(zips, ends)
  BY <1>8, <1>10
<1>12. \A i \in DOMAIN zips :
         /\ ends[i - 1] \in DOMAIN image' /\ image'[ends[i - 1]] = FileBlock(c, zips, i)
  BY <1>4, <1>8, <1>10
<1> DEFINE z == tree[c].zips
           e == BlockEnds(z, s + TableBytes(z))
<1>13. z = zips /\ e = ends
  OBVIOUS
<1> HIDE DEF z, e
<1>14. /\ s \in DOMAIN image' /\ image'[s] = FileTable(z, e)
       /\ \A i \in DOMAIN z : e[i - 1] \in DOMAIN image' /\ image'[e[i - 1]] = FileBlock(c, z, i)
  BY <1>11, <1>12, <1>13
<1> USE DEF z, e
<1> QED
  BY <1>14, StoredNow

\* Padding ends at a word.
LEMMA PaddedAligned ==
  ASSUME NEW bytes \in Nat
  PROVE  Padded(bytes) % 4 = 0
<1> DEFINE words == (bytes + 3) \div 4
<1>1. words \in Nat /\ Padded(bytes) = words * 4
  BY DEF Padded
<1> HIDE DEF words
<1> QED
  BY <1>1

\* One more entry is written, or its directory is entered.
LEMMA SerializingByFill ==
  ASSUME NEW at, NEW start, LayoutInv, Serializing(at, start), Fill
  PROVE  \E at2, start2 : Serializing(at2, start2)'
<1>1. PICK p, n : p = Top.path /\ n = First(Top.unfilled)
  OBVIOUS
<1>2. PICK c, rest : c = Append(p, n) /\ rest = [stack EXCEPT ![Len(stack)].unfilled = @ \ {n}]
  OBVIOUS
<1>3. /\ tree \in Trees /\ tree' = tree /\ pos \in Nat /\ stack \in Seq(Calls) /\ stack # <<>>
      /\ Top \in Calls /\ Top.unplaced = {} /\ Len(stack) \in DOMAIN stack /\ Top = stack[Len(stack)]
  BY TopTyped DEF LayoutInv, WriterTypes, Fill, Top
<1>4. n \in Top.unfilled /\ n \in Names /\ n \in Children(p)
  <2>1. Top.unfilled \subseteq Names /\ Top.unfilled # {} /\ Top.unfilled \subseteq Children(p)
    BY <1>1, <1>3 DEF Fill, Calls
  <2> QED
    BY <1>1, <2>1, FirstIsLeast
<1>5. FillData(n, c) \/ FillDevice(n, c) \/ FillDir(n, c)
  BY <1>1, <1>2 DEF Fill
<1>6. Arranged(at, start) /\ HasSlots(at) /\ Aligned(start) /\ pos % 4 = 0
  BY DEF Serializing, Placed
<1>7. p \in DOMAIN tree /\ Entered(Top, at, start)
  BY <1>1, <1>3 DEF Serializing
<1>8. c \in DOMAIN tree /\ c \in DOMAIN at /\ c \notin DOMAIN start /\ Top.slot[n] = at[c]
  BY <1>1, <1>2, <1>3, <1>4, <1>7, ChildShape DEF Entered
<1>9. pos \in Nat /\ 0 \in Nat /\ 0 % 4 = 0 /\ pos <= pos /\ 0 <= pos
  BY <1>3
<1>10. at[c] \in DOMAIN image /\ IsSlot(image[at[c]], NameOf(c))
  BY <1>6, <1>8 DEF HasSlots
<1>11. NameField(c) = SlotSize(n) - 12
  BY <1>2, <1>3, <1>4, <1>7, ChildShape DEF NameField
<1>12. tree[c].type # "dir" => Children(c) = {}
  BY <1>3, <1>8, ChildShape
<1>13. CASE FillData(n, c)
  <2>1. PICK start2 : Extended(start, start2, c, pos)
    BY <1>8, Extends
  <2>2. PICK zips : zips = tree[c].zips
    OBVIOUS
  <2>3. PICK inode : inode = Inode(tree[c].type, tree[c].size, SlotSize(n) - 12, pos)
    OBVIOUS
  <2>4. zips \in Seq(Nat \ {0}) /\ tree[c].type \in {"reg", "lnk"}
    BY <1>3, <1>8, <1>13, <2>2, TreeShape DEF FillData, HasData
  <2>5. inode = InodeOf(c, pos)
    BY <1>11, <2>3, <2>4 DEF InodeOf
  <2>6. stack' = rest
    BY <1>2, <1>13 DEF FillData
  <2>9. Children(c) = {}
    BY <1>12, <2>4
  <2>7. CASE zips = <<>>
    <3>1. image' = Patched(at[c], inode) /\ pos' = pos
      BY <1>8, <1>9, <1>13, <2>2, <2>3, <2>7 DEF FillData
    <3>2. Keeps(at[c]) /\ image'[at[c]].inode = inode
      BY <1>10, <3>1, PatchedKeeps
    <3>3. Written(c, at, start2)'
      BY <1>3, <1>9, <2>1, <2>2, <2>5, <2>7, <3>2, WrittenNow DEF Extended
    <3>4. Serializing(at, start2)'
      BY <1>1, <1>2, <1>3, <1>4, <1>6, <1>9, <2>1, <2>6, <2>9, <3>1, <3>2, <3>3, Filled
    <3> QED
      BY <3>4
  <2>8. CASE zips # <<>>
    <3>1. PICK start0, ends : start0 = pos + TableBytes(zips) /\ ends = BlockEnds(zips, start0)
      OBVIOUS
    <3>2. PICK table, patched : table = FileTable(zips, ends) /\ patched = Patched(at[c], inode)
      OBVIOUS
    <3>3. PICK last : last = ends[Len(zips)]
      OBVIOUS
    <3>4. /\ image' = Adding(patched, Adding([a \in {pos} |-> table], FileCells(c, zips, ends)))
          /\ pos' = AfterData(last)
      BY <1>8, <1>13, <2>2, <2>3, <2>8, <3>1, <3>2, <3>3 DEF FillData, FileCells, FileTable
    <3>5. DOMAIN patched = DOMAIN image
      BY <1>10, <3>2, SlotPatched
    <3>6. Keeps(at[c]) /\ image'[at[c]].inode = inode
      BY <1>10, <3>2, <3>4, PatchedKeeps
    <3>7. \A s : s = pos => Stored(c, s)'
      BY <1>3, <2>2, <2>4, <2>8, <3>1, <3>2, <3>4, <3>5, DataStored
    <3>8. Written(c, at, start2)'
      BY <1>3, <1>9, <2>1, <2>2, <2>5, <3>6, <3>7, WrittenNow DEF Extended
    <3>9. last \in Nat /\ pos <= last
      <4>1. start0 \in Nat /\ pos <= start0 /\ Len(zips) \in Nat
        BY <1>3, <2>4, <3>1 DEF TableBytes
      <4>2. /\ ends \in [0..Len(zips) -> Nat] /\ ends[0] = start0
            /\ \A i \in 0..Len(zips) : \A j \in i..Len(zips) : ends[i] <= ends[j]
        BY <2>4, <3>1, <4>1, BlocksEnd
      <4>3. ends[0] <= last /\ last \in Nat
        BY <3>3, <4>1, <4>2
      <4> QED
        BY <1>3, <4>1, <4>2, <4>3
    <3>10. pos' \in Nat /\ pos <= pos' /\ pos' % 4 = 0
      BY <1>3, <3>4, <3>9, PaddedIs, PaddedAligned DEF AfterData
    <3>11. Serializing(at, start2)'
      BY <1>1, <1>2, <1>3, <1>4, <1>6, <1>9, <2>1, <2>6, <2>9, <3>6, <3>8, <3>10, Filled
    <3> QED
      BY <3>11
  <2> QED
    BY <2>7, <2>8
<1>14. CASE FillDevice(n, c)
  <2>1. PICK start2 : Extended(start, start2, c, 0)
    BY <1>8, Extends
  <2>2. /\ image' = Patched(at[c], Inode("dev", tree[c].size, SlotSize(n) - 12, 0)) /\ pos' = pos
        /\ tree[c].type = "dev" /\ stack' = rest
    BY <1>2, <1>8, <1>9, <1>14 DEF FillDevice
  <2>3. Inode("dev", tree[c].size, SlotSize(n) - 12, 0) = InodeOf(c, 0) /\ tree[c].zips = <<>>
    BY <1>3, <1>8, <1>11, <2>2, TreeShape DEF InodeOf, HasData
  <2>4. Keeps(at[c]) /\ image'[at[c]].inode = InodeOf(c, 0)
    BY <1>10, <2>2, <2>3, PatchedKeeps
  <2>5. Written(c, at, start2)'
    BY <1>3, <1>9, <2>1, <2>3, <2>4, WrittenNow DEF Extended
  <2>6. Serializing(at, start2)'
    BY <1>1, <1>2, <1>3, <1>4, <1>6, <1>9, <1>12, <2>1, <2>2, <2>4, <2>5, Filled
  <2> QED
    BY <2>6
<1>15. CASE FillDir(n, c)
  <2>1. PICK start2 : Extended(start, start2, c, pos)
    BY <1>8, Extends
  <2>2. /\ image' = image /\ pos' = pos /\ tree[c].type = "dir"
        /\ stack' = Append(rest, Call(c, at[c], pos))
    BY <1>2, <1>8, <1>15 DEF FillDir
  <2>3. Keeps(at[c])
    BY <2>2 DEF Keeps
  <2>4. Serializing(at, start2)'
    BY <1>1, <1>2, <1>3, <1>4, <1>6, <1>9, <2>1, <2>2, <2>3, Filled
  <2> QED
    BY <2>4
<1> QED
  BY <1>5, <1>13, <1>14, <1>15

\* A directory is left: its inode is written, and all of its entries were before.
LEMMA SerializingByLeave ==
  ASSUME NEW at, NEW start, LayoutInv, Serializing(at, start), Leave
  PROVE  Serializing(at, start)'
<1>1. PICK p, top : p = Top.path /\ top = Len(stack)
  OBVIOUS
<1>2. /\ tree \in Trees /\ tree' = tree /\ pos \in Nat /\ pos' = pos /\ stack \in Seq(Calls) /\ stack # <<>>
      /\ Top \in Calls /\ Top.unplaced = {} /\ Top.unfilled = {}
      /\ top \in DOMAIN stack /\ Top = stack[top] /\ top \in Nat /\ DOMAIN stack = 1..top
  BY <1>1, TopTyped DEF LayoutInv, WriterTypes, Leave, Top
<1>3. Arranged(at, start) /\ HasSlots(at) /\ Aligned(start) /\ pos % 4 = 0 /\ DOMAIN start \subseteq DOMAIN at
  BY DEF Serializing, Placed, Arranged
<1>4. p \in DOMAIN tree /\ tree[p].type = "dir" /\ Entered(Top, at, start)
  BY <1>1, <1>2 DEF Serializing
<1>5. p \in DOMAIN start /\ Top.at = at[p] /\ Top.start = start[p]
  BY <1>1, <1>4 DEF Entered
<1>6. at[p] \in DOMAIN image /\ IsSlot(image[at[p]], NameOf(p))
  BY <1>3, <1>5 DEF HasSlots
<1>7. image' = Patched(at[p], InodeOf(p, start[p]))
  BY <1>1, <1>4, <1>5 DEF Leave, InodeOf
<1>8. Keeps(at[p]) /\ image'[at[p]].inode = InodeOf(p, start[p])
  BY <1>6, <1>7, PatchedKeeps
<1>9. /\ DOMAIN stack' = 1..(top - 1) /\ Len(stack') = top - 1
      /\ \A i \in 1..(top - 1) : stack'[i] = stack[i] /\ i \in DOMAIN stack /\ i # Len(stack)
  <2>1. stack' = SubSeq(stack, 1, top - 1)
    BY <1>1 DEF Leave, Pop
  <2>2. stack' \in Seq(Calls) /\ Len(stack') = top - 1
    BY <1>1, <1>2, <2>1, PopTyped
  <2> QED
    BY <1>1, <1>2, <2>1, <2>2
<1>10. Placed(at, start)'
  BY <1>2, <1>8, PlacedKept DEF Serializing
<1>11. \A q : Children(q)' = Children(q) /\ Room(q)' = Room(q)
  BY <1>2, SameTree
<1>12. ASSUME NEW i \in DOMAIN stack'
       PROVE  /\ stack'[i].path \in DOMAIN tree' /\ tree'[stack'[i].path].type = "dir"
              /\ Entered(stack[i], at, start)'
              /\ IF i = Len(stack') THEN Reserving(stack[i])' ELSE stack'[i].unplaced = {}
              /\ \A j \in DOMAIN stack' : stack'[i].path = stack'[j].path => i = j
  <2>1. PICK call : call = stack[i] /\ call = stack'[i]
    BY <1>9
  <2>2. /\ call.path \in DOMAIN tree /\ tree[call.path].type = "dir" /\ Entered(call, at, start)
        /\ call.unplaced = {}
    BY <1>9, <2>1 DEF Serializing
  <2>3. Entered(stack[i], at, start)'
    BY <1>11, <2>1, <2>2 DEF Entered
  <2>4. Reserving(stack[i])'
    <3>1. Entries \in 0..Entries /\ {k \in Children(call.path) : Entries < k} = {}
      BY NamesTo DEF Children
    <3> QED
      BY <1>11, <2>1, <2>2, <3>1 DEF Reserving
  <2>5. \A j \in DOMAIN stack' : stack'[i].path = stack'[j].path => i = j
    BY <1>9 DEF Serializing
  <2> QED
    BY <1>2, <2>1, <2>2, <2>3, <2>4, <2>5
<1>13. ASSUME NEW q \in DOMAIN start, q \notin OnStack'
       PROVE  Written(q, at, start)' /\ \A k \in Children(q)' : Append(q, k) \in DOMAIN start
  <2>1. CASE q = p
    <3>1. tree[p].zips = <<>>
      BY <1>2, <1>4, TreeShape DEF HasData
    <3>2. Written(p, at, start)'
      BY <1>2, <1>8, <3>1, WrittenNow
    <3>3. \A k \in Children(p) : Append(p, k) \in DOMAIN start
      BY <1>1, <1>2, <1>4 DEF Entered
    <3> QED
      BY <1>11, <2>1, <3>2, <3>3
  <2>2. CASE q # p
    <3>1. q \notin OnStack
      <4>1. \A i \in DOMAIN stack : i = top \/ i \in 1..(top - 1)
        BY <1>2
      <4>2. \A i \in 1..(top - 1) : stack[i].path # q
        BY <1>9, <1>13 DEF OnStack
      <4> QED
        BY <1>1, <1>2, <2>2, <4>1, <4>2 DEF OnStack
    <3>2. Written(q, at, start) /\ \A k \in Children(q) : Append(q, k) \in DOMAIN start
      BY <3>1 DEF Serializing
    <3>3. at[q] # at[p] /\ at[q] \in DOMAIN image
      BY <1>3, <1>5, <2>2 DEF Arranged, HasSlots
    <3>4. image'[at[q]] = image[at[q]]
      BY <1>8, <3>3 DEF Keeps
    <3>5. Written(q, at, start)'
      BY <1>2, <1>3, <1>5, <1>8, <3>2, <3>4, WrittenKept DEF Placed
    <3> QED
      BY <1>11, <3>2, <3>5
  <2> QED
    BY <2>1, <2>2
<1> QED
  BY <1>2, <1>3, <1>10, <1>12, <1>13 DEF Serializing

\* When emit_dir has returned from the root, every path has been written.
Serialized(at, start) ==
  /\ Placed(at, start) /\ DOMAIN start = DOMAIN tree
  /\ \A p \in DOMAIN tree : Written(p, at, start)

\* Every path was written: else the shortest one that was not is in a directory that was.
LEMMA AllSerialized ==
  ASSUME tree \in Trees, NEW at, NEW start, Serializing(at, start), stack = <<>>
  PROVE  Serialized(at, start)
<1>1. \A p \in DOMAIN start : /\ Written(p, at, start)
                              /\ \A n \in Children(p) : Append(p, n) \in DOMAIN start
  BY DEF Serializing, OnStack
<1>2. <<>> \in DOMAIN start /\ DOMAIN start \subseteq DOMAIN tree
  BY DEF Serializing, Placed, Arranged
<1>3. ASSUME NEW q \in DOMAIN tree, q \notin DOMAIN start PROVE FALSE
  <2> DEFINE bad == {Len(p) : p \in DOMAIN tree \ DOMAIN start}
  <2>1. bad \in SUBSET Nat /\ bad # {}
    <3>1. \A p \in DOMAIN tree : Len(p) \in Nat
      BY TreeShape
    <3> QED
      BY <1>3, <3>1
  <2>2. PICK shortest \in bad : \A k \in bad : shortest <= k
    <3> HIDE DEF bad
    <3> QED
      BY <2>1, Least
  <2>3. PICK p \in DOMAIN tree \ DOMAIN start : shortest = Len(p)
    BY <2>2
  <2>4. PICK r \in DOMAIN tree : \E n \in Children(r) : p = Append(r, n)
    BY <1>2, <2>3, TreeShape
  <2>5. PICK n \in Children(r) : p = Append(r, n)
    BY <2>4
  <2>6. Len(p) = Len(r) + 1 /\ Len(r) \in Nat
    BY <2>5, ChildShape, TreeShape
  <2>7. r \in DOMAIN start
    BY <2>2, <2>3, <2>6
  <2> QED
    BY <1>1, <2>3, <2>5, <2>7
<1> QED
  BY <1>1, <1>2, <1>3 DEF Serializing, Serialized

--------------------------------------------------------------------------------
(* parse finds what was written *)

\* A value that fits its field comes back as it was.
LEMMA CutFits ==
  ASSUME NEW bits \in {NameBits, SizeBits, OffBits}
  PROVE  /\ \A value \in Nat : Cut(value, bits) \in Nat
         /\ \A value \in Nat : value < 2^bits => Cut(value, bits) = value
         /\ \A value \in Nat : value % 4 = 0 /\ value < 4 * 2^bits =>
              4 * Cut(value \div 4, bits) = value
<1>1. PICK full : full = 2^bits
  OBVIOUS
<1>2. full \in Nat \ {0}
  BY <1>1, PowersAssumption
<1>3. \A value \in Nat : value < full => value % full = value
  BY <1>2
<1>4. \A value \in Nat : value % full \in Nat
  BY <1>2
<1>5. ASSUME NEW value \in Nat, value % 4 = 0, value < 4 * full
      PROVE  4 * ((value \div 4) % full) = value
  <2>1. PICK words : words = value \div 4
    OBVIOUS
  <2>2. words \in Nat /\ value = 4 * words
    BY <1>5, <2>1
  <2>3. words < full
    BY <1>2, <1>5, <2>2
  <2> QED
    BY <1>3, <2>1, <2>2, <2>3
<1> QED
  BY <1>1, <1>3, <1>4, <1>5 DEF Cut

\* Under Fits, read_inode returns what write_inode was given.
LEMMA InodeRead ==
  ASSUME tree \in Trees, LayoutInv, Fits, NEW at, NEW start, Serialized(at, start),
         NEW p \in DOMAIN tree, NEW inode, inode = image[at[p]].inode
  PROVE  /\ inode.type = tree[p].type
         /\ inode.size = IF tree[p].type = "dir" THEN DirSize(p) ELSE tree[p].size
         /\ p # <<>> => inode.namelen = SlotSize(p[Len(p)]) - 12
         /\ start[p] < pos => inode.offset = start[p]
         /\ inode.offset \in Nat /\ start[p] \in Nat
<1>1. PICK size : size = IF tree[p].type = "dir" THEN DirSize(p) ELSE tree[p].size
  OBVIOUS
<1>2. inode = Inode(tree[p].type, size, NameField(p), start[p])
  BY <1>1 DEF Serialized, Written, InodeOf
<1>3. size \in Nat /\ size < 2^SizeBits
  BY <1>1, TreeShape, RoomIs DEF Fits
<1>4. start[p] \in Nat /\ start[p] % 4 = 0
  BY DEF Serialized, Placed, Arranged, Aligned
<1>5. ASSUME p # <<>>
      PROVE  4 * Cut((SlotSize(p[Len(p)]) - 12) \div 4, NameBits) = SlotSize(p[Len(p)]) - 12
  <2>1. PICK n : n = p[Len(p)]
    OBVIOUS
  <2>2. n \in Names
    BY <1>5, <2>1, TreeShape
  <2>3. SlotSize(n) - 12 \in Nat /\ (SlotSize(n) - 12) % 4 = 0
    <3>1. SlotSize(n) - 12 = Padded(NameLen[n]) /\ NameLen[n] \in Nat
      BY <2>2, SlotAligned, NamesAreNumbers
    <3> QED
      BY <3>1, PaddedIs, PaddedAligned
  <2>4. SlotSize(n) - 12 < 4 * 2^NameBits
    BY <1>5, <2>1 DEF Fits
  <2> QED
    BY <2>1, <2>3, <2>4, CutFits
<1>6. ASSUME start[p] < pos PROVE 4 * Cut(start[p] \div 4, OffBits) = start[p]
  <2>1. pos \in Nat /\ pos <= 4 * 2^OffBits /\ 2^OffBits \in Nat
    BY PowersAssumption DEF Fits, LayoutInv, WriterTypes
  <2>2. start[p] < 4 * 2^OffBits
    BY <1>4, <1>6, <2>1
  <2> QED
    BY <1>4, <2>2, CutFits
<1>7. 4 * Cut(start[p] \div 4, OffBits) \in Nat
  <2>1. start[p] \div 4 \in Nat
    BY <1>4
  <2>2. Cut(start[p] \div 4, OffBits) \in Nat
    BY <2>1, CutFits
  <2> QED
    BY <2>2
<1>8. /\ inode.type = tree[p].type /\ inode.size = Cut(size, SizeBits)
      /\ inode.namelen = 4 * Cut(NameField(p) \div 4, NameBits)
      /\ inode.offset = 4 * Cut(start[p] \div 4, OffBits)
  BY <1>2 DEF Inode
<1>9. Cut(size, SizeBits) = size
  BY <1>3, CutFits
<1> QED
  BY <1>1, <1>4, <1>5, <1>6, <1>7, <1>8, <1>9 DEF NameField

\* Where a directory has its entries, there is something.
LEMMA EntryAt ==
  ASSUME tree \in Trees, LayoutInv, NEW at, NEW start, Serialized(at, start),
         NEW p \in DOMAIN tree, NEW n \in Children(p)
  PROVE  /\ Append(p, n) \in DOMAIN tree /\ at[Append(p, n)] = start[p] + Room(p)[n - 1]
         /\ at[Append(p, n)] \in DOMAIN image /\ IsSlot(image[at[Append(p, n)]], n)
         /\ start[p] < pos
<1>1. PICK c : c = Append(p, n)
  OBVIOUS
<1>2. c \in DOMAIN tree /\ n \in Names /\ NameOf(c) = n
  BY <1>1, ChildShape DEF NameOf
<1>3. Arranged(at, start) /\ HasSlots(at) /\ DOMAIN start = DOMAIN tree /\ c \in DOMAIN at
  BY <1>2 DEF Serialized, Placed, Arranged
<1>4. at[c] = start[p] + Room(p)[n - 1] /\ start[p] \in Nat
  BY <1>1, <1>3 DEF Arranged
<1>5. at[c] \in DOMAIN image /\ IsSlot(image[at[c]], n)
  BY <1>2, <1>3 DEF HasSlots
<1>6. Room(p)[n - 1] \in Nat
  <2>1. n - 1 \in 0..Entries /\ Room(p) \in [0..Entries -> Nat]
    BY <1>2, RoomIs
  <2> QED
    BY <2>1
<1>7. start[p] < pos
  <2>1. at[c] < pos /\ pos \in Nat
    BY <1>5, NothingAtEnd DEF LayoutInv, WriterTypes
  <2> QED
    BY <1>4, <1>6, <2>1
<1> QED
  BY <1>1, <1>2, <1>4, <1>5, <1>7

\* A directory that has room has entries.
LEMMA EntryBehind ==
  ASSUME NEW p, NEW m \in 0..Entries, Room(p)[m] < DirSize(p)
  PROVE  \E n \in Children(p) :
           /\ m < n /\ \A k \in Children(p) : m < k => n <= k
           /\ Room(p)[n - 1] = Room(p)[m] /\ Room(p)[n] = Room(p)[m] + SlotSize(n)
<1>1. Entries \in Nat /\ Names = 1..Entries /\ Children(p) \subseteq Names
  BY NamesTo DEF Children
<1>2. PICK behind : behind = {k \in Children(p) : m < k}
  OBVIOUS
<1>3. behind # {}
  <2>1. SUFFICES ASSUME \A k \in Children(p) : ~(m < k) PROVE FALSE
    BY <1>2
  <2>2. Entries \in m..Entries
    BY <1>1
  <2>3. Room(p)[Entries] = Room(p)[m]
    BY <2>1, <2>2, RoomStays
  <2>4. Room(p)[m] \in Nat /\ DirSize(p) = Room(p)[Entries]
    BY RoomIs
  <2> QED
    BY <2>3, <2>4
<1>4. PICK n : n \in behind /\ \A k \in behind : n <= k
  BY <1>1, <1>2, <1>3, FirstIsLeast
<1>5. n \in Children(p) /\ m < n /\ n \in Names /\ \A k \in Children(p) : m < k => n <= k
  BY <1>1, <1>2, <1>4
<1>6. n - 1 \in m..Entries /\ \A k \in Children(p) : ~(m < k /\ k <= n - 1)
  BY <1>1, <1>5
<1>7. Room(p)[n - 1] = Room(p)[m]
  BY <1>6, RoomStays
<1>8. Room(p)[n] = Room(p)[n - 1] + SlotSize(n)
  BY <1>5, RoomIs
<1> QED
  BY <1>5, <1>7, <1>8

\* A file without blocks has the content <<>>.
LEMMA NoBlocks ==
  ASSUME NEW zips, zips = <<>>, NEW p
  PROVE  [i \in DOMAIN zips |-> <<p, i>>] = <<>>
OBVIOUS

\* read_file_data finds a table and behind it the blocks.
WholeFile(offset, count, content) ==
  LET table == image[offset]
      from(i) == IF i = 1 THEN offset + 4 * count ELSE table.ends[i - 1]
  IN  /\ offset \in DOMAIN image /\ table.kind = "table" /\ Len(table.ends) = count
      /\ \A i \in 1..count :
           /\ from(i) \in DOMAIN image /\ image[from(i)].kind = "block"
           /\ image[from(i)].bytes = table.ends[i] - from(i)
      /\ [i \in 1..count |-> image[from(i)].content] = content

\* What emit_file_data stored is what read_file_data looks for.
LEMMA DataRead ==
  ASSUME tree \in Trees, NEW p \in DOMAIN tree, NEW offset \in Nat, Stored(p, offset),
         NEW count, count = Len(tree[p].zips), count # 0,
         NEW content, content = [i \in DOMAIN tree[p].zips |-> <<p, i>>]
  PROVE  WholeFile(offset, count, content)
<1> DEFINE table == image[offset]
           from(i) == IF i = 1 THEN offset + 4 * count ELSE table.ends[i - 1]
<1>1. PICK zips : zips = tree[p].zips
  OBVIOUS
<1>2. PICK ends : ends = BlockEnds(zips, offset + TableBytes(zips))
  OBVIOUS
<1>3. /\ zips \in Seq(Nat \ {0}) /\ count \in Nat \ {0} /\ count = Len(zips)
      /\ DOMAIN zips = 1..count
  <2>1. zips \in Seq(Nat \ {0})
    BY <1>1, TreeShape
  <2> QED
    BY <1>1, <2>1
<1>4. /\ offset \in DOMAIN image /\ table = FileTable(zips, ends)
      /\ \A i \in DOMAIN zips :
           ends[i - 1] \in DOMAIN image /\ image[ends[i - 1]] = FileBlock(p, zips, i)
  BY <1>1, <1>2 DEF Stored
<1>5. TableBytes(zips) = 4 * count /\ offset + TableBytes(zips) \in Nat
  BY <1>3 DEF TableBytes
<1>6. /\ ends \in [0..count -> Nat] /\ ends[0] = offset + 4 * count
      /\ \A i \in 1..count : ends[i] = ends[i - 1] + zips[i]
  <2>1. /\ ends \in [0..Len(zips) -> Nat] /\ ends[0] = offset + TableBytes(zips)
        /\ \A i \in 1..Len(zips) : ends[i] = ends[i - 1] + zips[i]
    BY <1>2, <1>3, <1>5, BlocksEnd
  <2> QED
    BY <1>3, <1>5, <2>1
<1>7. table.kind = "table" /\ table.ends = [i \in 1..count |-> ends[i]]
  BY <1>3, <1>4 DEF FileTable
<1>8. Len(table.ends) = count
  BY <1>3, <1>7
<1>9. \A i \in 1..count : from(i) = ends[i - 1] /\ table.ends[i] = ends[i]
  <2> SUFFICES ASSUME NEW i \in 1..count
               PROVE  from(i) = ends[i - 1] /\ table.ends[i] = ends[i]
    OBVIOUS
  <2>1. CASE i = 1
    BY <1>3, <1>6, <1>7, <2>1
  <2>2. CASE i # 1
    <3>1. i - 1 \in 1..count
      BY <1>3, <2>2
    <3> QED
      BY <1>7, <2>2, <3>1
  <2> QED
    BY <2>1, <2>2
<1> HIDE DEF from
<1>10. ASSUME NEW i \in 1..count
       PROVE  /\ from(i) \in DOMAIN image /\ image[from(i)].kind = "block"
              /\ image[from(i)].bytes = table.ends[i] - from(i)
              /\ image[from(i)].content = <<p, i>>
  <2>1. /\ from(i) \in DOMAIN image
        /\ image[from(i)] = [kind |-> "block", bytes |-> zips[i], content |-> <<p, i>>]
    BY <1>3, <1>4, <1>9 DEF FileBlock
  <2>2. zips[i] = table.ends[i] - from(i)
    <3>1. ends[i - 1] \in Nat /\ zips[i] \in Nat /\ ends[i] = ends[i - 1] + zips[i]
      <4>1. i - 1 \in 0..count
        BY <1>3
      <4>2. ends[i - 1] \in Nat
        BY <1>6, <4>1
      <4>3. zips[i] \in Nat
        BY <1>3
      <4> QED
        BY <1>6, <4>2, <4>3
    <3> QED
      BY <1>9, <3>1
  <2> QED
    BY <2>1, <2>2
<1>11. [i \in 1..count |-> image[from(i)].content] = content
  BY <1>1, <1>3, <1>10
<1> QED
  BY <1>4, <1>7, <1>8, <1>10, <1>11 DEF from, WholeFile

Frames == [path : DOMAIN tree, from : Nat, to : Nat]

\* build is at some name of a directory: what comes before has been read, what is left
\* to read is as long as what is left of the entries.
Under(frame, start) ==
  /\ frame.path \in DOMAIN out /\ tree[frame.path].type = "dir"
  /\ \E m \in 0..Entries :
       /\ frame.from + DirSize(frame.path) = frame.to + Room(frame.path)[m]
       /\ Room(frame.path)[m] < DirSize(frame.path) =>
            frame.from = start[frame.path] + Room(frame.path)[m]
       /\ \A n \in Children(frame.path) : n <= m => Append(frame.path, n) \in DOMAIN out

Parsing(start) ==
  /\ pc \in {"parse", "done"}
  /\ DOMAIN out \subseteq DOMAIN tree /\ \A p \in DOMAIN out : out[p] = Same[p]
  /\ out = [p \in DOMAIN out |-> out[p]]
  /\ stack \in Seq(Frames) /\ \A i \in DOMAIN stack : Under(stack[i], start)
  /\ \A p \in DOMAIN out : p \notin OnStack => \A n \in Children(p) : Append(p, n) \in DOMAIN out
  /\ out # <<>> => <<>> \in DOMAIN out
  /\ pc = "done" => stack = <<>> /\ out # <<>>

\* build of a path returns, or of a directory goes on with its entries.
Built(c) == out' = Adding(out, [q \in {c} |-> Same[c]])

Frame(c, offset) == [path |-> c, from |-> offset, to |-> offset + DirSize(c)]

\* Where build of a directory looks for its entries; an empty one may look anywhere.
Starts(c, offset, start) == offset \in Nat /\ (DirSize(c) > 0 => offset = start[c])

\* build of a path, from either caller.
Build(c, inode, calls) ==
  Descend(c, inode, calls) \/ ReadData(c, inode, calls) \/ ReadDevice(c, inode, calls)

\* One inode is read, whatever it is of.
LEMMA NodeRead ==
  ASSUME tree \in Trees, LayoutInv, Fits, NEW at, NEW start, Serialized(at, start),
         NEW c \in DOMAIN tree, NEW inode, inode = image[at[c]].inode, NEW calls,
         Build(c, inode, calls)
  PROVE  /\ pc' = pc /\ Built(c)
         /\ \/ tree[c].type # "dir" /\ stack' = calls
            \/ /\ tree[c].type = "dir"
               /\ \E offset : Starts(c, offset, start) /\ stack' = Append(calls, Frame(c, offset))
<1>1. /\ inode.type = tree[c].type
      /\ inode.size = IF tree[c].type = "dir" THEN DirSize(c) ELSE tree[c].size
      /\ start[c] < pos => inode.offset = start[c]
      /\ inode.offset \in Nat
  BY InodeRead
<1>2. PICK zips : zips = tree[c].zips
  OBVIOUS
<1>3. /\ zips \in Seq(Nat \ {0}) /\ Len(c) <= MaxDepth /\ Len(c) \in Nat /\ MaxDepth \in Nat
      /\ tree[c].type \in {"dir", "reg", "lnk", "dev"}
      /\ tree[c].type = "dir" => tree[c].size = 0
      /\ HasData(tree[c]) => Len(zips) = Blocks(tree[c].size)
      /\ ~HasData(tree[c]) => zips = <<>>
  BY <1>2, TreeShape, WidthsAssumption
<1>4. Same[c] = [type |-> tree[c].type, size |-> tree[c].size,
                 content |-> [i \in DOMAIN zips |-> <<c, i>>]]
  BY <1>2 DEF Same
<1>5. zips = <<>> => Same[c] = [type |-> tree[c].type, size |-> tree[c].size, content |-> <<>>]
  BY <1>4, NoBlocks
<1>6. CASE Descend(c, inode, calls)
  <2>1. tree[c].type = "dir" /\ inode.size = DirSize(c) /\ zips = <<>>
    BY <1>1, <1>3, <1>6 DEF Descend, HasData
  <2>2. Same[c] = [type |-> "dir", size |-> 0, content |-> <<>>]
    BY <1>3, <1>5, <2>1
  <2>3. /\ out' = Adding(out, [q \in {c} |-> [type |-> "dir", size |-> 0, content |-> <<>>]])
        /\ stack' = Append(calls, [path |-> c, from |-> inode.offset,
                                   to |-> inode.offset + inode.size])
        /\ pc' = pc
    BY <1>3, <1>6 DEF Descend, Read
  <2>4. DirSize(c) > 0 => inode.offset = start[c]
    <3>1. SUFFICES ASSUME DirSize(c) > 0 PROVE inode.offset = start[c]
      OBVIOUS
    <3>2. 0 \in 0..Entries /\ Room(c)[0] < DirSize(c)
      BY <3>1, RoomIs, NamesTo
    <3>3. PICK n : n \in Children(c)
      BY <3>2, EntryBehind
    <3> QED
      BY <1>1, <3>3, EntryAt
  <2> QED
    BY <1>1, <2>1, <2>2, <2>3, <2>4 DEF Built, Frame, Starts
<1>7. CASE ReadData(c, inode, calls)
  <2>1. HasData(tree[c]) /\ tree[c].type # "dir" /\ inode.size = tree[c].size
    BY <1>1, <1>7 DEF ReadData, HasData
  <2>2. PICK count : count = Blocks(inode.size)
    OBVIOUS
  <2>3. count = Len(zips)
    BY <1>3, <2>1, <2>2
  <2>4. CASE count = 0
    <3>1. zips = <<>>
      <4>1. zips \in Seq(Nat \ {0}) /\ Len(zips) = 0
        BY <1>3, <2>3, <2>4
      <4> QED
        BY <4>1
    <3>2. /\ out' = Adding(out, [q \in {c} |-> [type |-> inode.type, size |-> inode.size,
                                                content |-> <<>>]])
          /\ stack' = calls /\ pc' = pc
      BY <1>7, <2>2, <2>4 DEF ReadData, Read
    <3> QED
      BY <1>1, <1>5, <2>1, <3>1, <3>2 DEF Built
  <2>5. CASE count # 0
    <3>1. Stored(c, start[c])
      <4>1. zips # <<>>
        BY <2>3, <2>5
      <4> QED
        BY <1>2, <4>1 DEF Serialized, Written
    <3>2. inode.offset = start[c]
      <4>1. start[c] \in DOMAIN image
        BY <3>1 DEF Stored
      <4> QED
        BY <1>1, <4>1, NothingAtEnd
    <3>3. Stored(c, inode.offset)
      BY <3>1, <3>2
    <3> DEFINE blocks == Blocks(inode.size)
    <3>4. PICK content : content = [i \in DOMAIN tree[c].zips |-> <<c, i>>]
      OBVIOUS
    <3>5. WholeFile(inode.offset, blocks, content)
      BY <1>1, <1>2, <2>2, <2>3, <2>5, <3>3, <3>4, DataRead
    <3>6. /\ out' = Adding(out, [q \in {c} |-> [type |-> inode.type, size |-> inode.size,
                                                content |-> content]])
          /\ stack' = calls /\ pc' = pc
      BY <1>7, <2>2, <2>5, <3>5 DEF ReadData, Read, WholeFile
    <3>7. content = [i \in DOMAIN zips |-> <<c, i>>]
      BY <1>2, <3>4
    <3>8. Same[c] = [type |-> inode.type, size |-> inode.size, content |-> content]
      BY <1>1, <1>4, <2>1, <3>7
    <3> QED
      BY <2>1, <3>6, <3>8 DEF Built
  <2> QED
    BY <2>4, <2>5
<1>8. CASE ReadDevice(c, inode, calls)
  <2>1. tree[c].type = "dev" /\ inode.size = tree[c].size /\ zips = <<>>
    BY <1>1, <1>3, <1>8 DEF ReadDevice, HasData
  <2>2. /\ out' = Adding(out, [q \in {c} |-> [type |-> "dev", size |-> inode.size, content |-> <<>>]])
        /\ stack' = calls /\ pc' = pc
    BY <1>8 DEF ReadDevice, Read
  <2> QED
    BY <1>5, <2>1, <2>2 DEF Built
<1> QED
  BY <1>6, <1>7, <1>8 DEF Build

\* What has been read stays read.
LEMMA OutGrows ==
  ASSUME NEW start, Parsing(start), NEW c \in DOMAIN tree, tree' = tree, Built(c)
  PROVE  /\ DOMAIN out' = DOMAIN out \cup {c} /\ DOMAIN out' \subseteq DOMAIN tree
         /\ \A p \in DOMAIN out' : out'[p] = Same[p]
         /\ out' = [p \in DOMAIN out' |-> out'[p]]
<1>1. DOMAIN out' = DOMAIN out \cup {c} /\ out' = [p \in DOMAIN out' |-> out'[p]]
  BY DEF Built, Adding
<1>2. PICK same : same = Same
  OBVIOUS
<1>3. \A p \in DOMAIN out : out[p] = same[p] /\ p \in DOMAIN tree
  BY <1>2 DEF Parsing
<1>4. \A p \in DOMAIN out' : out'[p] = same[p]
  BY <1>1, <1>2, <1>3 DEF Built, Adding
<1> QED
  BY <1>1, <1>2, <1>3, <1>4

\* What depends on the tree alone does not change, for the reader.
LEMMA SameDirs ==
  ASSUME tree' = tree
  PROVE  /\ \A p : DirSize(p)' = DirSize(p) /\ Children(p)' = Children(p) /\ Room(p)' = Room(p)
         /\ Same' = Same /\ Frames' = Frames
BY DEF DirSize, Room, EntrySizes, Children, Sums, Same, Frames

\* A call of build further out notices nothing of what is read inside.
LEMMA UnderStays ==
  ASSUME tree' = tree, DOMAIN out \subseteq DOMAIN out', NEW start, NEW frame, Under(frame, start)
  PROVE  Under(frame, start)'
BY SameDirs DEF Under

\* A directory that is entered.
LEMMA UnderNew ==
  ASSUME tree' = tree, NEW c \in DOMAIN tree, tree[c].type = "dir", c \in DOMAIN out',
         NEW start, NEW offset, Starts(c, offset, start), start[c] \in Nat,
         NEW frame, frame = Frame(c, offset)
  PROVE  Under(frame, start)' /\ frame \in Frames /\ frame.path = c
<1>1. /\ frame.path = c /\ frame.from = offset /\ frame.to = offset + DirSize(c)
      /\ DirSize(c) \in Nat /\ offset \in Nat
  BY RoomIs DEF Frame, Starts
<1>2. 0 \in 0..Entries /\ Room(c)[0] = 0 /\ \A n \in Children(c) : ~(n <= 0)
  BY RoomIs, NamesTo DEF Children
<1>3. /\ frame.from + DirSize(c) = frame.to + Room(c)[0]
      /\ Room(c)[0] < DirSize(c) => frame.from = start[c] + Room(c)[0]
  BY <1>1, <1>2 DEF Starts
<1>4. frame \in Frames
  BY <1>1 DEF Frames, Frame
<1>5. Under(frame, start)'
  BY <1>1, <1>2, <1>3, SameDirs DEF Under
<1> QED
  BY <1>1, <1>4, <1>5

\* The inode of the root is read.
LEMMA ParsingByRoot ==
  ASSUME tree \in Trees, LayoutInv, Fits, NEW at, NEW start, Serialized(at, start),
         Parsing(start), ReadRoot
  PROVE  Parsing(start)'
<1>1. /\ tree' = tree /\ pc = "parse" /\ out = <<>> /\ DOMAIN out = {}
      /\ Descend(<<>>, image[ROOT].inode, <<>>)
  BY DEF ReadRoot
<1>2. /\ <<>> \in DOMAIN tree /\ tree[<<>>].type = "dir" /\ at[<<>>] = ROOT /\ start[<<>>] \in Nat
  BY TreesAssumption DEF Serialized, Placed, Arranged
<1>3. PICK c, inode, calls : c = <<>> /\ inode = image[at[c]].inode /\ calls = <<>>
  OBVIOUS
<1>4. Build(c, inode, calls)
  BY <1>1, <1>2, <1>3 DEF Build
<1>5. PICK offset :
        /\ pc' = pc /\ Built(c)
        /\ Starts(c, offset, start) /\ stack' = Append(calls, Frame(c, offset))
  <2>1. c \in DOMAIN tree /\ tree[c].type = "dir" /\ inode = image[at[c]].inode
    BY <1>2, <1>3
  <2> QED
    BY <1>4, <2>1, NodeRead
<1>6. /\ DOMAIN out' = DOMAIN out \cup {c} /\ DOMAIN out' \subseteq DOMAIN tree
      /\ \A p \in DOMAIN out' : out'[p] = Same[p]
      /\ out' = [p \in DOMAIN out' |-> out'[p]]
  BY <1>1, <1>2, <1>3, <1>5, OutGrows
<1>7. PICK frame : frame = Frame(c, offset)
  OBVIOUS
<1>8. Under(frame, start)' /\ frame \in Frames /\ frame.path = c
  <2>1. tree' = tree /\ c \in DOMAIN tree /\ tree[c].type = "dir" /\ c \in DOMAIN out' /\ start[c] \in Nat
    BY <1>1, <1>2, <1>3, <1>6
  <2>2. Starts(c, offset, start)
    BY <1>5
  <2> QED
    BY <1>7, <2>1, <2>2, UnderNew
<1>9. stack' = <<frame>>
  BY <1>3, <1>5, <1>7
<1>10. stack' \in Seq(Frames) /\ DOMAIN stack' = {1} /\ stack'[1] = frame
  BY <1>8, <1>9
<1>11. \A i \in DOMAIN stack' : Under(stack[i], start)'
  BY <1>8, <1>10 DEF Under
<1>12. \A p \in DOMAIN out' : p \in OnStack'
  BY <1>1, <1>6, <1>8, <1>10 DEF OnStack
<1>13. out' # <<>> /\ <<>> \in DOMAIN out'
  BY <1>3, <1>6
<1> QED
  BY <1>1, <1>5, <1>6, <1>10, <1>11, <1>12, <1>13, SameDirs DEF Parsing

\* One entry is read: it is the next child of the directory, with the inode written for it.
LEMMA ParsingByEntry ==
  ASSUME tree \in Trees, LayoutInv, Fits, NEW at, NEW start, Serialized(at, start),
         Parsing(start), ReadEntry
  PROVE  Parsing(start)'
<1>1. PICK p, top : p = Top.path /\ top = Len(stack)
  OBVIOUS
<1>2. /\ tree' = tree /\ pc = "parse" /\ stack # <<>> /\ Top.from < Top.to
      /\ stack \in Seq(Frames)
  BY DEF ReadEntry, Parsing
<1>3. /\ Top \in Frames /\ top \in Nat \ {0} /\ top \in DOMAIN stack /\ DOMAIN stack = 1..top
      /\ Top = stack[top] /\ Under(Top, start)
  BY <1>1, <1>2 DEF Top, Parsing
<1>4. p \in DOMAIN tree /\ p \in DOMAIN out /\ Top.from \in Nat /\ Top.to \in Nat
  BY <1>1, <1>3 DEF Frames, Under
<1>5. PICK m \in 0..Entries :
        /\ Top.from + DirSize(p) = Top.to + Room(p)[m]
        /\ Room(p)[m] < DirSize(p) => Top.from = start[p] + Room(p)[m]
        /\ \A k \in Children(p) : k <= m => Append(p, k) \in DOMAIN out
  BY <1>1, <1>3 DEF Under
<1>6. Room(p)[m] \in Nat /\ DirSize(p) \in Nat
  BY RoomIs
<1>7. Room(p)[m] < DirSize(p) /\ Top.from = start[p] + Room(p)[m]
  BY <1>2, <1>4, <1>5, <1>6
<1>8. PICK n \in Children(p) :
        /\ m < n /\ \A k \in Children(p) : m < k => n <= k
        /\ Room(p)[n - 1] = Room(p)[m] /\ Room(p)[n] = Room(p)[m] + SlotSize(n)
  BY <1>7, EntryBehind
<1>9. PICK c, cell : c = Append(p, n) /\ cell = image[Top.from]
  OBVIOUS
<1>10. /\ c \in DOMAIN tree /\ at[c] = Top.from /\ Top.from \in DOMAIN image /\ IsSlot(cell, n)
  BY <1>4, <1>7, <1>8, <1>9, EntryAt
<1>11. n \in Names /\ c # <<>> /\ c[Len(c)] = n
  BY <1>4, <1>9, ChildShape
<1>12. cell.inode.namelen = SlotSize(n) - 12
  <2>1. cell.inode = image[at[c]].inode
    BY <1>9, <1>10
  <2> QED
    BY <1>10, <1>11, <2>1, InodeRead
<1>13. SlotSize(n) \in Nat /\ SlotSize(n) - 12 = Padded(NameLen[n]) /\ NameLen[n] <= SlotSize(n) - 12
  BY <1>11, SlotTakes, SlotAligned, NamesAreNumbers, PaddedIs
<1>14. cell.kind = "slot" /\ cell.name = n
  BY <1>10 DEF IsSlot, Slot
<1>15. PICK calls : calls = [stack EXCEPT ![Len(stack)].from = @ + 12 + cell.inode.namelen]
  OBVIOUS
<1>16. PICK inode : inode = cell.inode
  OBVIOUS
<1>17. Build(c, inode, calls)
  BY <1>1, <1>9, <1>10, <1>11, <1>12, <1>13, <1>14, <1>15, <1>16 DEF ReadEntry, Build
<1>18. /\ pc' = pc /\ Built(c)
       /\ \/ tree[c].type # "dir" /\ stack' = calls
          \/ /\ tree[c].type = "dir"
             /\ \E offset : Starts(c, offset, start) /\ stack' = Append(calls, Frame(c, offset))
  <2>1. inode = image[at[c]].inode /\ c \in DOMAIN tree
    BY <1>9, <1>10, <1>16
  <2> QED
    BY <1>17, <2>1, NodeRead
<1>19. /\ DOMAIN out' = DOMAIN out \cup {c} /\ DOMAIN out' \subseteq DOMAIN tree
       /\ \A q \in DOMAIN out' : out'[q] = Same[q]
       /\ out' = [q \in DOMAIN out' |-> out'[q]]
  BY <1>2, <1>10, <1>18, OutGrows
<1>20. PICK more : more = [Top EXCEPT !.from = Top.from + SlotSize(n)]
  OBVIOUS
<1>21. /\ more \in Frames /\ more.path = p /\ more.to = Top.to /\ more.from = Top.from + SlotSize(n)
  BY <1>1, <1>3, <1>4, <1>13, <1>20 DEF Frames
<1>22. /\ calls \in Seq(Frames) /\ Len(calls) = top /\ DOMAIN calls = 1..top /\ calls[top] = more
       /\ \A i \in 1..top : i # top => calls[i] = stack[i]
  <2>1. Top.from + 12 + cell.inode.namelen = Top.from + SlotSize(n)
    BY <1>4, <1>12, <1>13
  <2>2. calls = [stack EXCEPT ![top] = more]
    BY <1>1, <1>3, <1>15, <1>20, <2>1
  <2>3. calls \in Seq(Frames) /\ DOMAIN calls = DOMAIN stack
    BY <1>2, <1>3, <1>21, <2>2
  <2>4. calls[top] = more /\ \A i \in 1..top : i # top => calls[i] = stack[i]
    BY <1>3, <2>2
  <2>5. Len(calls) = top
    BY <1>3, <2>3
  <2> QED
    BY <1>3, <2>3, <2>4, <2>5
<1>23. Under(more, start)'
  <2>1. n \in 0..Entries /\ n \in Nat /\ m \in Nat /\ Children(p) \subseteq Nat
    BY <1>11, NamesTo DEF Children
  <2>2. more.from + DirSize(p) = more.to + Room(p)[n]
    <3>1. PICK from, to, dir, room, size :
            from = Top.from /\ to = Top.to /\ dir = DirSize(p) /\ room = Room(p)[m] /\ size = SlotSize(n)
      OBVIOUS
    <3>2. from + dir = to + room /\ {from, to, dir, room, size} \subseteq Nat
      BY <1>4, <1>5, <1>6, <1>13, <3>1
    <3>3. more.from = from + size /\ more.to = to /\ Room(p)[n] = room + size
      BY <1>8, <1>21, <3>1
    <3> QED
      BY <3>1, <3>2, <3>3
  <2>3. more.from = start[p] + Room(p)[n]
    <3>1. start[p] \in Nat
      BY <1>4, InodeRead
    <3> QED
      BY <1>6, <1>7, <1>8, <1>13, <1>21, <3>1
  <2>4. \A k \in Children(p) : k <= n => Append(p, k) \in DOMAIN out'
    <3>1. \A k \in Children(p) : k <= n => k <= m \/ k = n
      BY <1>8, <2>1
    <3> QED
      BY <1>5, <1>9, <1>19, <3>1
  <2>5. p \in DOMAIN out' /\ tree[p].type = "dir"
    BY <1>4, <1>8, <1>19, ChildShape
  <2> QED
    BY <1>2, <1>21, <2>1, <2>2, <2>3, <2>4, <2>5, SameDirs DEF Under
<1>24. ASSUME NEW i \in 1..top
       PROVE  calls[i].path = stack[i].path /\ \A frame : frame = calls[i] => Under(frame, start)'
  <2>1. CASE i = top
    BY <1>1, <1>3, <1>21, <1>22, <1>23, <2>1
  <2>2. CASE i # top
    <3>1. PICK frame : frame = stack[i] /\ frame = calls[i]
      BY <1>22, <2>2
    <3>2. Under(frame, start)
      BY <1>3, <3>1 DEF Parsing
    <3>3. Under(frame, start)'
      BY <1>2, <1>19, <3>2, UnderStays
    <3> QED
      BY <3>1, <3>3
  <2> QED
    BY <2>1, <2>2
<1>25. out # <<>> /\ <<>> \in DOMAIN out' /\ out' # <<>>
  <2>1. out # <<>>
    BY <1>4
  <2> QED
    BY <1>19, <2>1 DEF Parsing
<1>26. \A q \in DOMAIN out : (\A i \in 1..top : calls[i].path # q) =>
                               \A k \in Children(q) : Append(q, k) \in DOMAIN out'
  BY <1>3, <1>19, <1>24 DEF Parsing, OnStack
<1>27. CASE tree[c].type # "dir" /\ stack' = calls
  <2>1. Children(c) = {}
    BY <1>10, <1>27, ChildShape
  <2>2. \A i \in DOMAIN stack' : Under(stack[i], start)'
    BY <1>22, <1>24, <1>27 DEF Under
  <2>3. ASSUME NEW q \in DOMAIN out', q \notin OnStack'
        PROVE  \A k \in Children(q)' : Append(q, k) \in DOMAIN out'
    <3>1. \A i \in 1..top : calls[i].path # q
      BY <1>22, <1>27, <2>3 DEF OnStack
    <3>2. Children(q)' = Children(q)
      BY <1>2, SameDirs
    <3> QED
      BY <1>19, <1>26, <2>1, <3>1, <3>2
  <2> QED
    BY <1>2, <1>18, <1>19, <1>22, <1>25, <1>27, <2>2, <2>3, SameDirs DEF Parsing
<1>28. CASE /\ tree[c].type = "dir"
            /\ \E offset : Starts(c, offset, start) /\ stack' = Append(calls, Frame(c, offset))
  <2>1. PICK offset : Starts(c, offset, start) /\ stack' = Append(calls, Frame(c, offset))
    BY <1>28
  <2>2. PICK frame : frame = Frame(c, offset)
    OBVIOUS
  <2>3. Under(frame, start)' /\ frame \in Frames /\ frame.path = c
    <3>1. start[c] \in Nat
      BY <1>10, InodeRead
    <3>2. tree' = tree /\ c \in DOMAIN tree /\ tree[c].type = "dir" /\ c \in DOMAIN out'
      BY <1>2, <1>10, <1>19, <1>28
    <3> QED
      BY <2>1, <2>2, <3>1, <3>2, UnderNew
  <2>4. stack' = Append(calls, frame)
    BY <2>1, <2>2
  <2>5. /\ stack' \in Seq(Frames) /\ DOMAIN stack' = 1..(top + 1) /\ stack'[top + 1] = frame
        /\ \A i \in 1..top : stack'[i] = calls[i]
    BY <1>3, <1>22, <2>3, <2>4
  <2>6. /\ \A i \in DOMAIN stack' : i \in 1..top \/ i = top + 1
        /\ \A i \in 1..top : i \in DOMAIN stack'
        /\ top + 1 \in DOMAIN stack'
    BY <1>3, <2>5
  <2>7. ASSUME NEW i \in DOMAIN stack' PROVE Under(stack[i], start)'
    <3>1. PICK call : call = stack'[i]
      OBVIOUS
    <3>2. Under(call, start)'
      BY <1>24, <2>3, <2>5, <2>6, <3>1
    <3> QED
      BY <3>1, <3>2 DEF Under
  <2>8. ASSUME NEW q \in DOMAIN out', q \notin OnStack'
        PROVE  \A k \in Children(q)' : Append(q, k) \in DOMAIN out'
    <3>1. \A i \in DOMAIN stack' : stack'[i].path # q
      BY <2>8 DEF OnStack
    <3>2. q # c /\ \A i \in 1..top : calls[i].path # q
      BY <2>3, <2>5, <2>6, <3>1
    <3>3. Children(q)' = Children(q)
      BY <1>2, SameDirs
    <3> QED
      BY <1>19, <1>26, <3>2, <3>3
  <2> QED
    BY <1>2, <1>18, <1>19, <1>25, <2>5, <2>7, <2>8, SameDirs DEF Parsing
<1> QED
  BY <1>18, <1>27, <1>28

\* A directory is left when its size is used up: there is no child behind.
LEMMA ParsingByReturn ==
  ASSUME tree \in Trees, NEW start, Parsing(start), ReturnFromDir
  PROVE  Parsing(start)'
<1>1. PICK p, top : p = Top.path /\ top = Len(stack)
  OBVIOUS
<1>2. /\ tree' = tree /\ out' = out /\ pc = "parse" /\ stack # <<>> /\ Top.from >= Top.to
      /\ stack \in Seq(Frames) /\ stack' = SubSeq(stack, 1, top - 1)
      /\ pc' = IF top = 1 THEN "done" ELSE "parse"
  BY <1>1 DEF ReturnFromDir, Parsing, Pop
<1>3. /\ Top \in Frames /\ top \in Nat \ {0} /\ top \in DOMAIN stack /\ DOMAIN stack = 1..top
      /\ Top = stack[top] /\ Under(Top, start)
  BY <1>1, <1>2 DEF Top, Parsing
<1>4. p \in DOMAIN out /\ Top.from \in Nat /\ Top.to \in Nat
  BY <1>1, <1>3 DEF Frames, Under
<1>5. PICK m \in 0..Entries :
        /\ Top.from + DirSize(p) = Top.to + Room(p)[m]
        /\ \A k \in Children(p) : k <= m => Append(p, k) \in DOMAIN out
  BY <1>1, <1>3 DEF Under
<1>6. Room(p)[m] \in Nat /\ DirSize(p) \in Nat /\ DirSize(p) = Room(p)[Entries]
  BY RoomIs
<1>7. Room(p)[Entries] <= Room(p)[m]
  BY <1>2, <1>4, <1>5, <1>6
<1>8. ASSUME NEW n \in Children(p) PROVE Append(p, n) \in DOMAIN out
  <2>1. n \in Names /\ n \in Nat /\ m \in Nat /\ Entries \in Nat /\ n <= Entries
    BY NamesTo DEF Children
  <2>2. SUFFICES ASSUME m < n PROVE FALSE
    BY <1>5, <2>1
  <2>3. n - 1 \in m..Entries /\ Entries \in n..Entries /\ n \in 0..Entries /\ n - 1 \in 0..Entries
    BY <2>1, <2>2
  <2>4. Room(p)[m] <= Room(p)[n - 1] /\ Room(p)[n] <= Room(p)[Entries]
    BY <2>3, RoomGrows
  <2>5. Room(p)[n] = Room(p)[n - 1] + SlotSize(n) /\ Room(p)[n] \in Nat /\ Room(p)[n - 1] \in Nat
    BY <2>1, <2>3, RoomIs
  <2>6. SlotSize(n) \in Nat \ {0}
    BY <2>1, SlotTakes
  <2> QED
    BY <1>6, <1>7, <2>4, <2>5, <2>6
<1>9. /\ stack' \in Seq(Frames) /\ Len(stack') = top - 1 /\ DOMAIN stack' = 1..(top - 1)
      /\ \A i \in 1..(top - 1) : stack'[i] = stack[i] /\ i \in DOMAIN stack
  <2>1. stack' \in Seq(Frames) /\ Len(stack') = top - 1
    BY <1>1, <1>2, PopTyped
  <2> QED
    BY <1>1, <1>2, <1>3, <2>1
<1>10. ASSUME NEW i \in DOMAIN stack' PROVE Under(stack[i], start)'
  <2>1. PICK frame : frame = stack[i] /\ frame = stack'[i]
    BY <1>9
  <2>2. Under(frame, start)
    BY <1>9, <2>1 DEF Parsing
  <2>3. Under(frame, start)'
    BY <1>2, <2>2, UnderStays
  <2> QED
    BY <2>1, <2>3 DEF Under
<1>11. ASSUME NEW q \in DOMAIN out, q \notin OnStack'
       PROVE  \A n \in Children(q) : Append(q, n) \in DOMAIN out
  <2>1. CASE q = p
    BY <1>8, <2>1
  <2>2. CASE q # p
    <3>1. \A i \in DOMAIN stack : i = top \/ i \in 1..(top - 1)
      BY <1>3
    <3>2. \A i \in 1..(top - 1) : stack[i].path # q
      BY <1>9, <1>11 DEF OnStack
    <3>3. q \notin OnStack
      BY <1>1, <1>3, <2>2, <3>1, <3>2 DEF OnStack
    <3> QED
      BY <3>3 DEF Parsing
  <2> QED
    BY <2>1, <2>2
<1>12. pc' = "done" => stack' = <<>> /\ out # <<>>
  <2>1. top = 1 => stack' = <<>>
    BY <1>9
  <2> QED
    BY <1>2, <1>4, <2>1
<1>13. /\ DOMAIN out \subseteq DOMAIN tree /\ \A q \in DOMAIN out : out[q] = Same[q]
       /\ out = [q \in DOMAIN out |-> out[q]] /\ out # <<>> => <<>> \in DOMAIN out
  BY DEF Parsing
<1>14. \A q \in DOMAIN out' : q \notin OnStack' => \A n \in Children(q)' : Append(q, n) \in DOMAIN out'
  BY <1>2, <1>11, SameDirs
<1> QED
  BY <1>2, <1>9, <1>10, <1>12, <1>13, <1>14, SameDirs DEF Parsing

\* When build has returned from the root, every path has been read.
LEMMA ParsedAll ==
  ASSUME tree \in Trees, NEW start, Parsing(start), pc = "done"
  PROVE  out = Same
<1>1. /\ DOMAIN out \subseteq DOMAIN tree /\ \A p \in DOMAIN out : out[p] = Same[p]
      /\ out = [p \in DOMAIN out |-> out[p]] /\ <<>> \in DOMAIN out
      /\ \A p \in DOMAIN out : \A n \in Children(p) : Append(p, n) \in DOMAIN out
  BY DEF Parsing, OnStack
<1>2. ASSUME NEW q \in DOMAIN tree, q \notin DOMAIN out PROVE FALSE
  <2> DEFINE missing == {Len(p) : p \in DOMAIN tree \ DOMAIN out}
  <2>1. missing \in SUBSET Nat /\ missing # {}
    <3>1. \A p \in DOMAIN tree : Len(p) \in Nat
      BY TreeShape
    <3> QED
      BY <1>2, <3>1
  <2>2. PICK shortest \in missing : \A k \in missing : shortest <= k
    <3> HIDE DEF missing
    <3> QED
      BY <2>1, Least
  <2>3. PICK p \in DOMAIN tree \ DOMAIN out : shortest = Len(p)
    BY <2>2
  <2>4. PICK r \in DOMAIN tree : \E n \in Children(r) : p = Append(r, n)
    BY <1>1, <2>3, TreeShape
  <2>5. PICK n \in Children(r) : p = Append(r, n)
    BY <2>4
  <2>6. Len(p) = Len(r) + 1 /\ Len(r) \in Nat
    BY <2>5, ChildShape, TreeShape
  <2>7. r \in DOMAIN out
    BY <2>2, <2>3, <2>6
  <2> QED
    BY <1>1, <2>3, <2>5, <2>7
<1>3. DOMAIN out = DOMAIN tree /\ DOMAIN Same = DOMAIN tree
  BY <1>1, <1>2 DEF Same
<1>4. Same = [p \in DOMAIN tree |-> Same[p]]
  BY DEF Same
<1> QED
  BY <1>1, <1>3, <1>4

--------------------------------------------------------------------------------
(* The invariant of writing and reading back *)

Writing == out = <<>> /\ \E at, start : Serializing(at, start)

Reading == \E at, start : Serialized(at, start) /\ (Fits => Parsing(start))

RoundInv ==
  /\ LayoutInv
  /\ pc = "serialize" => Writing
  /\ pc # "serialize" => Reading

\* emit_dir has returned from the root: the image is complete.
LEMMA ReadingBegins ==
  tree \in Trees /\ stack = <<>> /\ pc = "parse" /\ Writing => Reading
<1> SUFFICES ASSUME tree \in Trees, stack = <<>>, pc = "parse", Writing PROVE Reading
  OBVIOUS
<1>1. PICK at, start : Serializing(at, start)
  BY DEF Writing
<1>2. Serialized(at, start)
  BY <1>1, AllSerialized
<1>3. out = <<>> /\ DOMAIN out = {} /\ out = [p \in DOMAIN out |-> out[p]]
  BY DEF Writing
<1>4. Parsing(start)
  BY <1>3 DEF Parsing
<1> QED
  BY <1>2, <1>4 DEF Reading

\* The reader changes nothing of what was written.
LEMMA ReadingKeeps ==
  ASSUME LayoutInv, UNCHANGED <<tree, pos, image>>, NEW at, NEW start, Serialized(at, start)
  PROVE  Serialized(at, start)' /\ Fits' = Fits
<1>1. tree \in Trees /\ pos \in Nat /\ tree' = tree /\ pos' = pos /\ image' = image
  BY DEF LayoutInv, WriterTypes
<1>2. Placed(at, start) /\ DOMAIN start = DOMAIN tree /\ DOMAIN start \subseteq DOMAIN at
      /\ <<>> \in DOMAIN at
  BY DEF Serialized, Placed, Arranged
<1>3. PICK a : a = at[<<>>]
  OBVIOUS
<1>4. Keeps(a)
  BY <1>1 DEF Keeps
<1>5. Placed(at, start)'
  BY <1>1, <1>2, <1>4, PlacedKept
<1>6. ASSUME NEW p \in DOMAIN tree PROVE Written(p, at, start)'
  BY <1>1, <1>2, <1>3, <1>4, <1>6, WrittenKept DEF Serialized
<1>7. Fits' = Fits
  BY <1>1, SameDirs DEF Fits, SlotSize, Padded
<1> QED
  BY <1>1, <1>2, <1>5, <1>6, <1>7 DEF Serialized

\* Nothing is written yet.
LEMMA RoundInitially == Init => RoundInv
<1> SUFFICES ASSUME Init PROVE RoundInv
  OBVIOUS
<1>1. \E at, start : Serializing(at, start)
  BY SerializingInitially
<1> QED
  BY <1>1, LayoutInitially DEF Init, RoundInv, Writing

\* The steps of serialize; the last one hands over a complete image.
LEMMA RoundByWriter == RoundInv /\ (Reserve \/ Fill \/ Leave) => RoundInv'
<1> SUFFICES ASSUME RoundInv, Reserve \/ Fill \/ Leave PROVE RoundInv'
  OBVIOUS
<1>1. LayoutInv /\ LayoutInv' /\ pc = "serialize" /\ out' = out /\ out = <<>>
  BY LayoutByReserve, LayoutByFill, LayoutByLeave DEF RoundInv, Writing, Reserve, Fill, Leave
<1>2. PICK at, start : Serializing(at, start)
  BY <1>1 DEF RoundInv, Writing
<1>3. \E at2, start2 : Serializing(at2, start2)'
  BY <1>1, <1>2, SerializingByReserve, SerializingByFill, SerializingByLeave
<1>4. Writing'
  BY <1>1, <1>3 DEF Writing
<1>5. CASE pc' = "serialize"
  BY <1>1, <1>4, <1>5 DEF RoundInv
<1>6. CASE pc' # "serialize"
  <2>1. Len(stack) = 1 /\ pc' = "parse" /\ stack' = SubSeq(stack, 1, Len(stack) - 1)
    BY <1>1, <1>6 DEF Reserve, Fill, Leave, Pop
  <2>2. stack' = <<>>
    <3>1. stack \in Seq(Calls) /\ stack # <<>>
      BY <1>1 DEF LayoutInv, WriterTypes
    <3>2. stack' \in Seq(Calls) /\ Len(stack') = 0
      BY <2>1, <3>1, PopTyped
    <3> QED
      BY <3>2
  <2>3. tree' \in Trees
    BY <1>1 DEF LayoutInv, WriterTypes
  <2>4. (tree \in Trees /\ stack = <<>> /\ pc = "parse" /\ Writing => Reading)'
    BY ReadingBegins, PTL
  <2> QED
    BY <1>1, <1>4, <2>1, <2>2, <2>3, <2>4 DEF RoundInv
<1> QED
  BY <1>5, <1>6

\* The steps of parse.
LEMMA RoundByReader == RoundInv /\ (ReadRoot \/ ReadEntry \/ ReturnFromDir) => RoundInv'
<1> SUFFICES ASSUME RoundInv, ReadRoot \/ ReadEntry \/ ReturnFromDir PROVE RoundInv'
  OBVIOUS
<1>1. /\ LayoutInv /\ tree \in Trees /\ pc = "parse" /\ pc' # "serialize"
      /\ UNCHANGED <<tree, pos, image>>
  BY DEF RoundInv, LayoutInv, WriterTypes, ReadRoot, ReadEntry, ReturnFromDir, Descend,
         ReadData, ReadDevice, Failed
<1>2. LayoutInv'
  BY <1>1, LayoutInductive DEF Next
<1>3. PICK at, start : Serialized(at, start) /\ (Fits => Parsing(start))
  BY <1>1 DEF RoundInv, Reading
<1>4. Serialized(at, start)' /\ Fits' = Fits
  BY <1>1, <1>3, ReadingKeeps
<1>5. Fits => Parsing(start)'
  BY <1>1, <1>3, ParsingByRoot, ParsingByEntry, ParsingByReturn
<1>6. Fits' => Parsing(start)'
  BY <1>4, <1>5
<1> QED
  BY <1>1, <1>2, <1>4, <1>6 DEF RoundInv, Reading

\* A step that changes nothing.
LEMMA RoundByStutter == RoundInv /\ UNCHANGED vars => RoundInv'
<1> SUFFICES ASSUME RoundInv, UNCHANGED vars PROVE RoundInv'
  OBVIOUS
<1>1. LayoutInv'
  BY LayoutInductive DEF RoundInv
<1>2. /\ tree' = tree /\ pc' = pc /\ pos' = pos /\ image' = image /\ stack' = stack /\ out' = out
      /\ UNCHANGED <<tree, pos, image>>
  BY DEF vars
<1>3. ASSUME Writing PROVE Writing'
  <2>1. PICK at, start : Serializing(at, start)
    BY <1>3 DEF Writing
  <2>2. /\ \A p : Written(p, at, start)' = Written(p, at, start)
        /\ \A p : Children(p)' = Children(p) /\ Room(p)' = Room(p)
        /\ Arranged(at, start)' <=> Arranged(at, start)
    BY <1>2, SameTree DEF Written, InodeOf, DirSize, EntrySizes, Children, NameField, Sums,
                          Inode, Stored, BlockEnds, TableBytes, FileTable, FileBlock
  <2>3. /\ \A call : Entered(call, at, start)' = Entered(call, at, start)
        /\ \A call : Reserving(call)' = Reserving(call)
    BY <1>2, <2>2 DEF Entered, Reserving
  <2>4. Placed(at, start)' = Placed(at, start)
    BY <1>2, <2>2 DEF Placed, HasSlots, Aligned, IsSlot, Slot, NameOf
  <2>5. Serializing(at, start)'
    BY <1>2, <2>1, <2>2, <2>3, <2>4 DEF Serializing, OnStack
  <2> QED
    BY <1>2, <1>3, <2>5 DEF Writing
<1>4. ASSUME Reading PROVE Reading'
  <2>1. PICK at, start : Serialized(at, start) /\ (Fits => Parsing(start))
    BY <1>4 DEF Reading
  <2>2. Serialized(at, start)' /\ Fits' = Fits
    BY <1>2, <2>1, ReadingKeeps DEF RoundInv
  <2>3. \A frame : Under(frame, start)' = Under(frame, start)
    BY <1>2, SameDirs DEF Under
  <2>4. Parsing(start)' = Parsing(start)
    BY <1>2, <2>3, SameDirs DEF Parsing, OnStack
  <2> QED
    BY <2>1, <2>2, <2>4 DEF Reading
<1> QED
  BY <1>1, <1>2, <1>3, <1>4 DEF RoundInv

\* Whatever tree is written, of any depth and with names, files and blocks of any length:
\* if its values fit their fields, parse returns that tree and does not give up.
THEOREM ReadsBack == Spec => []RoundTrip
<1>1. RoundInv /\ [Next]_vars => RoundInv'
  BY RoundByWriter, RoundByReader, RoundByStutter DEF Next
<1>2. RoundInv => RoundTrip
  <2> SUFFICES ASSUME RoundInv, Fits PROVE (pc = "done" => out = Same) /\ pc # "failed"
    BY DEF RoundTrip
  <2>1. CASE pc = "serialize"
    BY <2>1
  <2>2. CASE pc # "serialize"
    <3>1. PICK start : Parsing(start)
      BY <2>2 DEF RoundInv, Reading
    <3>2. tree \in Trees
      BY DEF RoundInv, LayoutInv, WriterTypes
    <3> QED
      BY <3>1, <3>2, ParsedAll DEF Parsing
  <2> QED
    BY <2>1, <2>2
<1> QED
  BY <1>1, <1>2, RoundInitially, PTL DEF Spec
================================================================================
