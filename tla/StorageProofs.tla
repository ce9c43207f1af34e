--------------------------- MODULE StorageProofs ---------------------------
(***************************************************************************)
(* What the storage layer keeps for any geometry, any sizes and writes,    *)
(* and an operation cut short between any two block writes.                *)
(***************************************************************************)
EXTENDS Storage, FiniteSetTheorems, WellFoundedInduction, TLAPS

\* Numbers have a least one; what holds at zero and goes on holds throughout.
LEMMA Least ==
    ASSUME NEW S \in SUBSET Nat, S # {}
    PROVE  \E m \in S : \A k \in S : m <= k
<1> DEFINE R == {p \in Nat \X Nat : p[1] < p[2]}
<1>1. IsWellFoundedOn(R, Nat)
  BY NatLessThanWellFounded DEF OpToRel
<1> HIDE DEF R
<1>2. PICK m \in S : \A y \in S : ~ (<<y, m>> \in R)
  BY <1>1, WFMin
<1>3. \A y \in S : ~ (y < m)
  BY <1>2 DEF R
<1>4. QED
  BY <1>3

\* What holds of 0 and passes from each number to the next holds of all.
LEMMA Induction ==
    ASSUME NEW S \in SUBSET Nat, 0 \in S, \A n \in Nat : n \in S => n + 1 \in S
    PROVE  S = Nat
<1>1. SUFFICES ASSUME Nat \ S # {} PROVE FALSE
  OBVIOUS
<1>2. PICK m \in Nat \ S : \A k \in Nat \ S : m <= k
  BY <1>1, Least
<1>3. m # 0 /\ m - 1 \in Nat
  BY <1>2
<1>4. m - 1 \in S
  <2>1. ~ (m <= m - 1)
    BY <1>3
  <2>2. QED
    BY <1>2, <1>3, <2>1
<1>5. m - 1 + 1 = m
  BY <1>2
<1>6. QED
  BY <1>2, <1>3, <1>4, <1>5

\* A loop whose step k leads from T[k - 1] to T[k] stays within them.
LEMMA Climb ==
    ASSUME NEW count \in Nat, NEW T, NEW g, g[0] \in T[0],
           \A k \in 1 .. count : g[k - 1] \in T[k - 1] => g[k] \in T[k]
    PROVE  \A k \in 0 .. count : g[k] \in T[k]
<1> DEFINE S == {k \in Nat : k <= count => g[k] \in T[k]}
<1>1. 0 \in S
  OBVIOUS
<1>2. ASSUME NEW n \in Nat, n \in S PROVE n + 1 \in S
  <2>1. SUFFICES ASSUME n + 1 <= count PROVE g[n + 1] \in T[n + 1]
    OBVIOUS
  <2>2. n <= count /\ n + 1 \in 1 .. count /\ n + 1 - 1 = n
    BY <2>1
  <2>3. g[n] \in T[n]
    BY <1>2, <2>2
  <2>4. QED
    BY <2>2, <2>3
<1> HIDE DEF S
<1>3. S \in SUBSET Nat
  BY DEF S
<1>4. S = Nat
  BY <1>1, <1>2, <1>3, Induction
<1>5. QED
  BY <1>4 DEF S

\* Such a loop is a function of the number of its steps.
Steps(count, T, step) == \A k \in 1 .. count : \A x \in T[k - 1] : step[<<k, x>>] \in T[k]
Loops(g, count, T, base, step) ==
    /\ g = [k \in 0 .. count |-> IF k = 0 THEN base ELSE step[<<k, g[k - 1]>>]]
    /\ \A k \in 0 .. count : g[k] \in T[k]

\* A loop whose every pass leads from one predicate to the next runs to its end.
LEMMA LoopRuns ==
    ASSUME NEW count \in Nat, NEW T, NEW base, base \in T[0], NEW step, Steps(count, T, step)
    PROVE  \E g : Loops(g, count, T, base, step)
<1> DEFINE Upto(n, g) ==
             /\ g = [k \in 0 .. n |-> IF k = 0 THEN base ELSE step[<<k, g[k - 1]>>]]
             /\ \A k \in 0 .. n : g[k] \in T[k]
           Defined == {n \in Nat : n <= count => \E g : Upto(n, g)}
<1>1. 0 \in Defined
  <2>1. Upto(0, [k \in 0 .. 0 |-> base])
    OBVIOUS
  <2>2. QED
    BY <2>1
<1>2. ASSUME NEW n \in Nat, n \in Defined PROVE n + 1 \in Defined
  <2>1. SUFFICES ASSUME n + 1 <= count PROVE \E g : Upto(n + 1, g)
    OBVIOUS
  <2>2. PICK g : Upto(n, g)
    BY <1>2, <2>1
  <2> DEFINE h == [k \in 0 .. n + 1 |-> IF k = n + 1 THEN step[<<n + 1, g[n]>>] ELSE g[k]]
  <2>3. /\ n \in 0 .. n /\ n + 1 \in 1 .. count /\ n + 1 - 1 = n
        /\ \A k \in 0 .. n + 1 : k = n + 1 \/ k \in 0 .. n
    BY <2>1
  <2>4. h[n + 1] = step[<<n + 1, h[n]>>] /\ h[n + 1] \in T[n + 1]
    <3>1. h[n + 1] = step[<<n + 1, g[n]>>] /\ h[n] = g[n]
      OBVIOUS
    <3>2. g[n] \in T[n]
      BY <2>2, <2>3
    <3>3. step[<<n + 1, g[n]>>] \in T[n + 1]
      BY <2>3, <3>2 DEF Steps
    <3>4. QED
      BY <3>1, <3>3
  <2>5. \A k \in 0 .. n : h[k] = g[k] /\ (k # 0 => h[k - 1] = g[k - 1])
    OBVIOUS
  <2>6. h = [k \in 0 .. n + 1 |-> h[k]]
    OBVIOUS
  <2> HIDE DEF h
  <2>7. \A k \in 0 .. n : h[k] = IF k = 0 THEN base ELSE step[<<k, h[k - 1]>>]
    <3> SUFFICES ASSUME NEW k \in 0 .. n
                 PROVE  h[k] = IF k = 0 THEN base ELSE step[<<k, h[k - 1]>>]
      OBVIOUS
    <3>1. g[k] = IF k = 0 THEN base ELSE step[<<k, g[k - 1]>>]
      BY <2>2
    <3>2. QED
      BY <2>5, <3>1
  <2>8. \A k \in 0 .. n + 1 : h[k] = IF k = 0 THEN base ELSE step[<<k, h[k - 1]>>]
    <3> SUFFICES ASSUME NEW k \in 0 .. n + 1
                 PROVE  h[k] = IF k = 0 THEN base ELSE step[<<k, h[k - 1]>>]
      OBVIOUS
    <3>1. CASE k = n + 1
      BY <2>3, <2>4, <3>1
    <3>2. CASE k # n + 1
      BY <2>3, <2>7, <3>2
    <3>3. QED
      BY <3>1, <3>2
  <2>9. \A k \in 0 .. n + 1 : h[k] \in T[k]
    <3> SUFFICES ASSUME NEW k \in 0 .. n + 1 PROVE h[k] \in T[k]
      OBVIOUS
    <3>1. CASE k = n + 1
      BY <2>4, <3>1
    <3>2. CASE k # n + 1
      BY <2>2, <2>3, <2>5, <3>2
    <3>3. QED
      BY <3>1, <3>2
  <2>10. QED
    BY <2>6, <2>8, <2>9
<1> HIDE DEF Defined
<1>3. Defined \in SUBSET Nat
  BY DEF Defined
<1>4. Defined = Nat
  BY <1>1, <1>2, <1>3, Induction
<1>5. QED
  BY <1>4 DEF Defined, Loops
----------------------------------------------------------------------------
(* The loops: what every step keeps, the loop keeps. *)

\* Freeing direct blocks.
LEMMA FreeDirectLoop ==
    ASSUME NEW r, NEW keep, DirectBlocks \in Nat, NEW T, r \in T[0],
           \A k \in 1 .. DirectBlocks : \A s \in T[k - 1] :
               DropDirect(s, keep, 0 + k - 1) \in T[k]
    PROVE  FreeDirect(r, keep) \in T[DirectBlocks]
<1> DEFINE Fits(g) == g = [k \in 0 .. DirectBlocks |->
                             IF k = 0 THEN r ELSE DropDirect(g[k - 1], keep, 0 + k - 1)]
           after == CHOOSE g : Fits(g)
           step == [e \in (1 .. DirectBlocks) \X UNION {T[k] : k \in 0 .. DirectBlocks} |->
                      DropDirect(e[2], keep, 0 + e[1] - 1)]
<1>1. \A k \in 1 .. DirectBlocks : k - 1 \in 0 .. DirectBlocks
  OBVIOUS
<1>2. \A k \in 1 .. DirectBlocks : \A s \in T[k - 1] :
          step[<<k, s>>] = DropDirect(s, keep, 0 + k - 1)
  BY <1>1
<1> HIDE DEF step
<1>3. PICK g : Loops(g, DirectBlocks, T, r, step)
  <2>1. Steps(DirectBlocks, T, step)
    BY <1>2 DEF Steps
  <2>2. QED
    BY <2>1, LoopRuns
<1>4. Fits(g)
  <2>1. \A k \in 0 .. DirectBlocks :
           (IF k = 0 THEN r ELSE step[<<k, g[k - 1]>>])
             = (IF k = 0 THEN r ELSE DropDirect(g[k - 1], keep, 0 + k - 1))
    BY <1>1, <1>2, <1>3 DEF Loops
  <2>2. QED
    BY <1>3, <2>1 DEF Loops
<1>5. Fits(after)
  BY <1>4
<1>6. FreeDirect(r, keep) = after[DirectBlocks]
  BY DEF FreeDirect, For
<1> HIDE DEF after
<1>7. \A k \in 1 .. DirectBlocks : after[k - 1] \in T[k - 1] => after[k] \in T[k]
  BY <1>1, <1>5
<1>8. \A k \in 0 .. DirectBlocks : after[k] \in T[k]
  <2>1. after[0] \in T[0]
    BY <1>5
  <2>2. QED
    BY <1>7, <2>1, Climb
<1>9. QED
  BY <1>6, <1>8

\* Freeing the entries of a pointer block.
LEMMA FreeEntriesLoop ==
    ASSUME NEW r, NEW p, NEW from, PtrsPerBlock \in Nat, NEW T, r \in T[0],
           \A k \in 1 .. PtrsPerBlock : \A s \in T[k - 1] :
               FreeEntry(s, r.disk.block[p], from, 0 + k - 1) \in T[k]
    PROVE  \E s \in T[PtrsPerBlock] :
               FreeEntries(r, p, from) = ForgetEntries(s, p, Live(r.disk.block[p], from))
<1> DEFINE Fits(g) == g = [k \in 0 .. PtrsPerBlock |->
                             IF k = 0 THEN r ELSE FreeEntry(g[k - 1], r.disk.block[p], from, 0 + k - 1)]
           after == CHOOSE g : Fits(g)
           step == [e \in (1 .. PtrsPerBlock) \X UNION {T[k] : k \in 0 .. PtrsPerBlock} |->
                      FreeEntry(e[2], r.disk.block[p], from, 0 + e[1] - 1)]
<1>1. \A k \in 1 .. PtrsPerBlock : k - 1 \in 0 .. PtrsPerBlock
  OBVIOUS
<1>2. \A k \in 1 .. PtrsPerBlock : \A s \in T[k - 1] :
          step[<<k, s>>] = FreeEntry(s, r.disk.block[p], from, 0 + k - 1)
  BY <1>1
<1> HIDE DEF step
<1>3. PICK g : Loops(g, PtrsPerBlock, T, r, step)
  <2>1. Steps(PtrsPerBlock, T, step)
    BY <1>2 DEF Steps
  <2>2. QED
    BY <2>1, LoopRuns
<1>4. Fits(g)
  <2>1. \A k \in 0 .. PtrsPerBlock :
           (IF k = 0 THEN r ELSE step[<<k, g[k - 1]>>])
             = (IF k = 0 THEN r ELSE FreeEntry(g[k - 1], r.disk.block[p], from, 0 + k - 1))
    BY <1>1, <1>2, <1>3 DEF Loops
  <2>2. QED
    BY <1>3, <2>1 DEF Loops
<1>5. Fits(after)
  BY <1>4
<1>6. FreeEntries(r, p, from) = ForgetEntries(after[PtrsPerBlock], p, Live(r.disk.block[p], from))
  BY DEF FreeEntries, For
<1> HIDE DEF after
<1>7. \A k \in 1 .. PtrsPerBlock : after[k - 1] \in T[k - 1] => after[k] \in T[k]
  BY <1>1, <1>5
<1>8. \A k \in 0 .. PtrsPerBlock : after[k] \in T[k]
  <2>1. after[0] \in T[0]
    BY <1>5
  <2>2. QED
    BY <1>7, <2>1, Climb
<1>9. QED
  BY <1>6, <1>8

\* Freeing what the double-indirect block points at.
FreesBehind(r, l1, from, T) ==
    /\ r \in T[0]
    /\ \A k \in 1 .. PtrsPerBlock : \A s \in T[k - 1] :
          FreeLevel1(s, l1, from, 0 + k - 1) \in T[k]

\* Where the frees of the double-indirect tree end, if each pass keeps its predicate.
LEMMA FreeDoubleLoop ==
    ASSUME NEW r, NEW keep, NEW l1, NEW from, PtrsPerBlock \in Nat, NEW T,
           FreesBehind(r, l1, from, T), l1 = r.disk.block[r.inode.double],
           r.inode.double # NoBlock, from = Beyond(keep, DirectBlocks + PtrsPerBlock)
    PROVE  \E s \in T[PtrsPerBlock] :
               FreeDouble(r, keep) =
                   DropRoot(ForgetEntries(s, r.inode.double, Gone(l1, from)), "double", from)
<1> DEFINE Fits(g) == g = [k \in 0 .. PtrsPerBlock |->
                             IF k = 0 THEN r ELSE FreeLevel1(g[k - 1], l1, from, 0 + k - 1)]
           after == CHOOSE g : Fits(g)
           step == [e \in (1 .. PtrsPerBlock) \X UNION {T[k] : k \in 0 .. PtrsPerBlock} |->
                      FreeLevel1(e[2], l1, from, 0 + e[1] - 1)]
<1>0. /\ r \in T[0]
      /\ \A k \in 1 .. PtrsPerBlock : \A s \in T[k - 1] :
            FreeLevel1(s, l1, from, 0 + k - 1) \in T[k]
  BY DEF FreesBehind
<1>1. \A k \in 1 .. PtrsPerBlock : k - 1 \in 0 .. PtrsPerBlock
  OBVIOUS
<1>2. \A k \in 1 .. PtrsPerBlock : \A s \in T[k - 1] :
          step[<<k, s>>] = FreeLevel1(s, l1, from, 0 + k - 1)
  BY <1>1
<1> HIDE DEF step
<1>3. PICK g : Loops(g, PtrsPerBlock, T, r, step)
  <2>1. Steps(PtrsPerBlock, T, step)
    BY <1>0, <1>2 DEF Steps
  <2>2. QED
    BY <1>0, <2>1, LoopRuns
<1>4. Fits(g)
  <2>1. \A k \in 0 .. PtrsPerBlock :
           (IF k = 0 THEN r ELSE step[<<k, g[k - 1]>>])
             = (IF k = 0 THEN r ELSE FreeLevel1(g[k - 1], l1, from, 0 + k - 1))
    BY <1>1, <1>2, <1>3 DEF Loops
  <2>2. QED
    BY <1>3, <2>1 DEF Loops
<1>5. Fits(after)
  BY <1>4
<1>6. FreeDouble(r, keep) =
         DropRoot(ForgetEntries(after[PtrsPerBlock], r.inode.double, Gone(l1, from)),
                  "double", from)
  BY DEF FreeDouble, For
<1> HIDE DEF after
<1>7. \A k \in 1 .. PtrsPerBlock : after[k - 1] \in T[k - 1] => after[k] \in T[k]
  <2> TAKE k \in 1 .. PtrsPerBlock
  <2>1. k \in 0 .. PtrsPerBlock /\ k # 0
    OBVIOUS
  <2>2. after[k] = FreeLevel1(after[k - 1], l1, from, 0 + k - 1)
    BY <1>5, <2>1
  <2>3. QED
    BY <1>0, <2>2
<1>8. \A k \in 0 .. PtrsPerBlock : after[k] \in T[k]
  <2>1. after[0] \in T[0]
    BY <1>0, <1>5
  <2>2. QED
    BY <1>7, <2>1, Climb
<1>9. QED
  BY <1>6, <1>8

\* Growing block by block.
LEMMA EnsureLoop ==
    ASSUME NEW r, NEW n, NEW old, NEW new, new - old \in Nat, NEW T, r \in T[0],
           \A k \in 1 .. new - old : \A s \in T[k - 1] :
               EnsureNext(s, n, old + k - 1) \in T[k]
    PROVE  EnsureBlocks(r, n, old, new) \in T[new - old]
<1> DEFINE Fits(g) == g = [k \in 0 .. new - old |->
                             IF k = 0 THEN r ELSE EnsureNext(g[k - 1], n, old + k - 1)]
           after == CHOOSE g : Fits(g)
           step == [e \in (1 .. new - old) \X UNION {T[k] : k \in 0 .. new - old} |->
                      EnsureNext(e[2], n, old + e[1] - 1)]
<1>1. \A k \in 1 .. new - old : k - 1 \in 0 .. new - old
  OBVIOUS
<1>2. \A k \in 1 .. new - old : \A s \in T[k - 1] :
          step[<<k, s>>] = EnsureNext(s, n, old + k - 1)
  BY <1>1
<1> HIDE DEF step
<1>3. PICK g : Loops(g, new - old, T, r, step)
  <2>1. Steps(new - old, T, step)
    BY <1>2 DEF Steps
  <2>2. QED
    BY <2>1, LoopRuns
<1>4. Fits(g)
  <2>1. \A k \in 0 .. new - old :
           (IF k = 0 THEN r ELSE step[<<k, g[k - 1]>>])
             = (IF k = 0 THEN r ELSE EnsureNext(g[k - 1], n, old + k - 1))
    BY <1>1, <1>2, <1>3 DEF Loops
  <2>2. QED
    BY <1>3, <2>1 DEF Loops
<1>5. Fits(after)
  BY <1>4
<1>6. EnsureBlocks(r, n, old, new) = after[new - old]
  BY DEF EnsureBlocks, For
<1> HIDE DEF after
<1>7. \A k \in 1 .. new - old : after[k - 1] \in T[k - 1] => after[k] \in T[k]
  BY <1>1, <1>5
<1>8. \A k \in 0 .. new - old : after[k] \in T[k]
  <2>1. after[0] \in T[0]
    BY <1>5
  <2>2. QED
    BY <1>7, <2>1, Climb
<1>9. QED
  BY <1>6, <1>8

\* Writing block by block.
LEMMA CopyLoop ==
    ASSUME NEW r, NEW first, NEW count \in Nat, NEW start, NEW end, NEW byte, NEW T, r \in T[0],
           \A k \in 1 .. count : \A s \in T[k - 1] :
               CopyBlock(s, first + k - 1, start, end, byte) \in T[k]
    PROVE  (/\ first = start \div BlockSize
                    /\ count = (end - 1) \div BlockSize - first + 1) =>
               CopyBlocks(r, start, end, byte) \in T[count]
<1> DEFINE Fits(g) == g = [k \in 0 .. count |->
                             IF k = 0 THEN r ELSE CopyBlock(g[k - 1], first + k - 1, start, end, byte)]
           after == CHOOSE g : Fits(g)
           step == [e \in (1 .. count) \X UNION {T[k] : k \in 0 .. count} |->
                      CopyBlock(e[2], first + e[1] - 1, start, end, byte)]
<1>1. \A k \in 1 .. count : k - 1 \in 0 .. count
  OBVIOUS
<1>2. \A k \in 1 .. count : \A s \in T[k - 1] :
          step[<<k, s>>] = CopyBlock(s, first + k - 1, start, end, byte)
  BY <1>1
<1> HIDE DEF step
<1>3. PICK g : Loops(g, count, T, r, step)
  <2>1. Steps(count, T, step)
    BY <1>2 DEF Steps
  <2>2. QED
    BY <2>1, LoopRuns
<1>4. Fits(g)
  <2>1. \A k \in 0 .. count :
           (IF k = 0 THEN r ELSE step[<<k, g[k - 1]>>])
             = (IF k = 0 THEN r ELSE CopyBlock(g[k - 1], first + k - 1, start, end, byte))
    BY <1>1, <1>2, <1>3 DEF Loops
  <2>2. QED
    BY <1>3, <2>1 DEF Loops
<1>5. Fits(after)
  BY <1>4
<1>6. ASSUME first = start \div BlockSize, count = (end - 1) \div BlockSize - first + 1
      PROVE  CopyBlocks(r, start, end, byte) = after[count]
  BY <1>6 DEF CopyBlocks, For
<1> HIDE DEF after
<1>7. \A k \in 1 .. count : after[k - 1] \in T[k - 1] => after[k] \in T[k]
  BY <1>1, <1>5
<1>8. \A k \in 0 .. count : after[k] \in T[k]
  <2>1. after[0] \in T[0]
    BY <1>5
  <2>2. QED
    BY <1>7, <2>1, Climb
<1>9. QED
  BY <1>6, <1>8
----------------------------------------------------------------------------
(* Pointers: where they are, and the blocks they hold. *)

Ptr == DataRegion \cup {NoBlock}
Direct == 0 .. DirectBlocks - 1
Entry == 0 .. PtrsPerBlock - 1
PtrBlock == [Entry -> Ptr]
DataBlock == [0 .. BlockSize - 1 -> Bytes \cup {0}]

InodeRec ==
    [generation : Nat, size : Nat, blocks : Nat,
     direct : [Direct -> Ptr], single : Ptr, double : Ptr]

Disk ==
    [used : SUBSET Inode, freeInodes : Nat, inode : [Inode -> InodeRec],
     bitmap : SUBSET DataRegion, freeBlocks : Nat,
     block : [DataRegion -> PtrBlock \cup DataBlock]]

Runs == [disk : Disk, inode : InodeRec, ok : BOOLEAN, out : Ptr, trail : SUBSET Disk]

\* The slots of an inode, as InodeRefs names them: those for pointer blocks, and
\* those for the blocks of the file.
Kind == {"direct", "single", "double", "by single", "level 1", "level 2"}
Slot == {s \in Kind \X Nat \X Nat :
            \/ s[1] = "direct" /\ s[2] = 0 /\ s[3] \in Direct
            \/ s[1] \in {"single", "double"} /\ s[2] = 0 /\ s[3] = 0
            \/ s[1] \in {"by single", "level 1"} /\ s[2] = 0 /\ s[3] \in Entry
            \/ s[1] = "level 2" /\ s[2] \in Entry /\ s[3] \in Entry}
PtrSlot == {s \in Slot : s[1] \in {"single", "double", "level 1"}}
DataSlot == {s \in Slot : s[1] \in {"direct", "by single", "level 2"}}

Ent(d, p, i) == IF p = NoBlock THEN NoBlock ELSE d.block[p][i]

At(d, I, s) ==
    CASE s[1] = "direct" -> I.direct[s[3]]
      [] s[1] = "single" -> I.single
      [] s[1] = "double" -> I.double
      [] s[1] = "by single" -> Ent(d, I.single, s[3])
      [] s[1] = "level 1" -> Ent(d, I.double, s[3])
      [] s[1] = "level 2" -> Ent(d, Ent(d, I.double, s[2]), s[3])

\* The first logical block a slot is there for.
First(s) ==
    CASE s[1] = "direct" -> s[3]
      [] s[1] = "single" -> DirectBlocks
      [] s[1] = "double" -> DirectBlocks + PtrsPerBlock
      [] s[1] = "by single" -> DirectBlocks + s[3]
      [] s[1] = "level 1" -> DirectBlocks + PtrsPerBlock + s[3] * PtrsPerBlock
      [] s[1] = "level 2" -> DirectBlocks + PtrsPerBlock + s[2] * PtrsPerBlock + s[3]

\* The blocks in pointer slots hold pointers.
Tree(d, I) == \A s \in PtrSlot : At(d, I, s) # NoBlock => d.block[At(d, I, s)] \in PtrBlock

\* What the assumption says of the parameters.
LEMMA Constants ==
    /\ DirectBlocks \in Nat \ {0} /\ PtrsPerBlock \in Nat \ {0} /\ BlockSize \in Nat \ {0}
    /\ DataStart \in Nat \ {0} /\ DataBlocks \in Nat \ {0} /\ MaxInodes \in Nat \ {0}
    /\ NoBlock \notin DataRegion /\ NoBlock \in Nat
    /\ CounterValues \in Nat /\ CounterValues > DataBlocks /\ CounterValues > MaxInodes
BY StorageAssumption DEF NoBlock, DataRegion

\* Every slot of an inode is of one of the two kinds, and which are of which.
LEMMA Slots ==
    /\ \A i \in Direct : <<"direct", 0, i>> \in DataSlot
    /\ <<"single", 0, 0>> \in PtrSlot /\ <<"double", 0, 0>> \in PtrSlot
    /\ \A i \in Entry : <<"by single", 0, i>> \in DataSlot
    /\ \A i \in Entry : <<"level 1", 0, i>> \in PtrSlot
    /\ \A k, i \in Entry : <<"level 2", k, i>> \in DataSlot
    /\ \A s \in PtrSlot : s \in Slot
    /\ \A s \in DataSlot : s \in Slot /\ s \notin PtrSlot
    /\ \A s \in Slot : s \in PtrSlot \/ s \in DataSlot
<1>1. Direct \subseteq Nat /\ Entry \subseteq Nat
  BY Constants DEF Direct, Entry
<1>2. QED
  BY <1>1 DEF Slot, PtrSlot, DataSlot, Kind

\* A slot is its three parts.
LEMMA SlotIs ==
    ASSUME NEW s \in Slot, NEW a, NEW b, NEW c
    PROVE  s = <<a, b, c>> <=> s[1] = a /\ s[2] = b /\ s[3] = c
<1>1. s \in Kind \X Nat \X Nat
  BY DEF Slot
<1>2. s = <<s[1], s[2], s[3]>>
  BY <1>1
<1>3. QED
  BY <1>2

\* A tree, pointer block by pointer block.
LEMMA TreeIs ==
    ASSUME NEW d, NEW I
    PROVE  Tree(d, I) <=>
             /\ I.single # NoBlock => d.block[I.single] \in PtrBlock
             /\ I.double # NoBlock => d.block[I.double] \in PtrBlock
             /\ \A k \in Entry : Ent(d, I.double, k) # NoBlock =>
                   d.block[Ent(d, I.double, k)] \in PtrBlock
<1>1. /\ At(d, I, <<"single", 0, 0>>) = I.single
      /\ At(d, I, <<"double", 0, 0>>) = I.double
      /\ \A i : At(d, I, <<"level 1", 0, i>>) = Ent(d, I.double, i)
  BY DEF At
<1>2. ASSUME Tree(d, I)
      PROVE  /\ I.single # NoBlock => d.block[I.single] \in PtrBlock
             /\ I.double # NoBlock => d.block[I.double] \in PtrBlock
             /\ \A k \in Entry : Ent(d, I.double, k) # NoBlock =>
                   d.block[Ent(d, I.double, k)] \in PtrBlock
  BY <1>1, <1>2, Slots DEF Tree
<1>3. ASSUME /\ I.single # NoBlock => d.block[I.single] \in PtrBlock
             /\ I.double # NoBlock => d.block[I.double] \in PtrBlock
             /\ \A k \in Entry : Ent(d, I.double, k) # NoBlock =>
                   d.block[Ent(d, I.double, k)] \in PtrBlock
      PROVE  Tree(d, I)
  <2> SUFFICES ASSUME NEW s \in PtrSlot, At(d, I, s) # NoBlock
               PROVE  d.block[At(d, I, s)] \in PtrBlock
    BY DEF Tree
  <2>1. CASE s[1] = "single"
    BY <1>3, <2>1 DEF At
  <2>2. CASE s[1] = "double"
    BY <1>3, <2>2 DEF At
  <2>3. CASE s[1] = "level 1"
    <3>1. s[3] \in Entry /\ At(d, I, s) = Ent(d, I.double, s[3])
      BY <2>3 DEF PtrSlot, Slot, At
    <3>2. QED
      BY <1>3, <3>1
  <2>4. QED
    BY <2>1, <2>2, <2>3 DEF PtrSlot
<1>4. QED
  BY <1>2, <1>3

\* What a slot of a tree holds is a pointer.
LEMMA AtType ==
    ASSUME NEW d, NEW I \in InodeRec, Tree(d, I)
    PROVE  /\ \A s \in Slot : At(d, I, s) \in Ptr
           /\ \A k \in Entry : Ent(d, I.double, k) \in Ptr /\ Ent(d, I.single, k) \in Ptr
<1>1. I.single \in Ptr /\ I.double \in Ptr /\ \A i \in Direct : I.direct[i] \in Ptr
  BY DEF InodeRec
<1>2. /\ I.single # NoBlock => d.block[I.single] \in PtrBlock
      /\ I.double # NoBlock => d.block[I.double] \in PtrBlock
      /\ \A k \in Entry : Ent(d, I.double, k) # NoBlock =>
                   d.block[Ent(d, I.double, k)] \in PtrBlock
  BY TreeIs
<1>3. \A k \in Entry : Ent(d, I.double, k) \in Ptr /\ Ent(d, I.single, k) \in Ptr
  BY <1>2 DEF Ent, PtrBlock, Ptr
<1>4. \A k, i \in Entry : Ent(d, Ent(d, I.double, k), i) \in Ptr
  <2> TAKE k, i \in Entry
  <2>1. CASE Ent(d, I.double, k) = NoBlock
    BY <2>1 DEF Ent, Ptr
  <2>2. CASE Ent(d, I.double, k) # NoBlock
    BY <1>2, <2>2 DEF Ent, PtrBlock
  <2>3. QED
    BY <2>1, <2>2
<1>5. ASSUME NEW s \in Slot PROVE At(d, I, s) \in Ptr
  <2>1. CASE s[1] = "direct"
    BY <1>1, <2>1 DEF At, Slot
  <2>2. CASE s[1] \in {"single", "double"}
    BY <1>1, <2>2 DEF At
  <2>3. CASE s[1] \in {"by single", "level 1"}
    BY <1>3, <2>3 DEF At, Slot
  <2>4. CASE s[1] = "level 2"
    BY <1>4, <2>4 DEF At, Slot
  <2>5. QED
    BY <2>1, <2>2, <2>3, <2>4 DEF Slot, Kind
<1>6. QED
  BY <1>3, <1>5
----------------------------------------------------------------------------
(* What a change of an inode, or of a pointer block, does to the slots. *)

\* The pointers of J are some of those of I; d2 has lost some of those of d.
Below(J, I) ==
    /\ \A i \in Direct : J.direct[i] \in {NoBlock, I.direct[i]}
    /\ J.single \in {NoBlock, I.single} /\ J.double \in {NoBlock, I.double}
Thinner(d2, d) ==
    \A p \in DataRegion :
        \/ d2.block[p] = d.block[p]
        \/ d2.block[p] \in PtrBlock /\ \A i \in Entry : d2.block[p][i] \in {NoBlock, d.block[p][i]}

\* No two slots of I hold one block.
Own(d, I) == \A s, t \in Slot : At(d, I, s) = At(d, I, t) /\ At(d, I, s) # NoBlock => s = t

\* A tree some of whose pointers were dropped is a tree, and holds nothing new.
LEMMA Thin ==
    ASSUME NEW d, NEW d2, NEW I \in InodeRec, NEW J \in InodeRec,
           Tree(d, I), Below(J, I), Thinner(d2, d)
    PROVE  Tree(d2, J) /\ \A s \in Slot : At(d2, J, s) \in {NoBlock, At(d, I, s)}
<1>1. /\ J.single \in {NoBlock, I.single} /\ J.double \in {NoBlock, I.double}
      /\ \A i \in Direct : J.direct[i] \in {NoBlock, I.direct[i]}
      /\ {J.single, J.double, I.single, I.double} \subseteq DataRegion \cup {NoBlock}
  BY DEF Below, InodeRec, Ptr
<1>2. /\ I.single # NoBlock => d.block[I.single] \in PtrBlock
      /\ I.double # NoBlock => d.block[I.double] \in PtrBlock
      /\ \A k \in Entry : Ent(d, I.double, k) # NoBlock => d.block[Ent(d, I.double, k)] \in PtrBlock
      /\ \A k \in Entry : Ent(d, I.double, k) \in DataRegion \cup {NoBlock}
  BY TreeIs, AtType DEF Ptr
<1>3. ASSUME NEW p \in DataRegion \cup {NoBlock}, NEW q \in DataRegion \cup {NoBlock}, q \in {NoBlock, p},
             p # NoBlock => d.block[p] \in PtrBlock
      PROVE  /\ q # NoBlock => d2.block[q] \in PtrBlock
             /\ \A i \in Entry : Ent(d2, q, i) \in {NoBlock, Ent(d, p, i)}
  BY <1>3 DEF Thinner, Ent
<1>4. /\ J.single # NoBlock => d2.block[J.single] \in PtrBlock
      /\ \A i \in Entry : Ent(d2, J.single, i) \in {NoBlock, Ent(d, I.single, i)}
  BY <1>1, <1>2, <1>3
<1>5. /\ J.double # NoBlock => d2.block[J.double] \in PtrBlock
      /\ \A i \in Entry : Ent(d2, J.double, i) \in {NoBlock, Ent(d, I.double, i)}
  BY <1>1, <1>2, <1>3
<1>6. ASSUME NEW k \in Entry
      PROVE  /\ Ent(d2, J.double, k) # NoBlock => d2.block[Ent(d2, J.double, k)] \in PtrBlock
             /\ \A i \in Entry :
                   Ent(d2, Ent(d2, J.double, k), i) \in {NoBlock, Ent(d, Ent(d, I.double, k), i)}
  <2>1. Ent(d2, J.double, k) \in {NoBlock, Ent(d, I.double, k)}
    BY <1>5
  <2>2. Ent(d2, J.double, k) \in DataRegion \cup {NoBlock}
    BY <1>2, <2>1
  <2>3. QED
    BY <1>2, <1>3, <2>1, <2>2
<1>7. Tree(d2, J)
  BY <1>4, <1>5, <1>6, TreeIs
<1>8. ASSUME NEW s \in Slot PROVE At(d2, J, s) \in {NoBlock, At(d, I, s)}
  <2>1. CASE s[1] = "direct"
    BY <1>1, <2>1 DEF At, Slot
  <2>2. CASE s[1] \in {"single", "double"}
    BY <1>1, <2>2 DEF At
  <2>3. CASE s[1] \in {"by single", "level 1"}
    BY <1>4, <1>5, <2>3 DEF At, Slot
  <2>4. CASE s[1] = "level 2"
    BY <1>6, <2>4 DEF At, Slot
  <2>5. QED
    BY <2>1, <2>2, <2>3, <2>4 DEF Slot, Kind
<1>9. QED
  BY <1>7, <1>8

\* Only the contents of its pointer blocks matter to an inode.
LEMMA SameTree ==
    ASSUME NEW d, NEW d2, NEW I \in InodeRec, Tree(d, I),
           \A s \in PtrSlot : At(d, I, s) # NoBlock =>
               d2.block[At(d, I, s)] = d.block[At(d, I, s)]
    PROVE  Tree(d2, I) /\ \A s \in Slot : At(d2, I, s) = At(d, I, s)
<1>1. /\ I.single # NoBlock => d.block[I.single] \in PtrBlock
      /\ I.double # NoBlock => d.block[I.double] \in PtrBlock
      /\ \A k \in Entry : Ent(d, I.double, k) # NoBlock => d.block[Ent(d, I.double, k)] \in PtrBlock
  BY TreeIs
<1>2. /\ I.single # NoBlock => d2.block[I.single] = d.block[I.single]
      /\ I.double # NoBlock => d2.block[I.double] = d.block[I.double]
      /\ \A k \in Entry : Ent(d, I.double, k) # NoBlock =>
            d2.block[Ent(d, I.double, k)] = d.block[Ent(d, I.double, k)]
  <2>1. /\ At(d, I, <<"single", 0, 0>>) = I.single
        /\ At(d, I, <<"double", 0, 0>>) = I.double
        /\ \A k : At(d, I, <<"level 1", 0, k>>) = Ent(d, I.double, k)
    BY DEF At
  <2>2. QED
    BY <2>1, Slots
<1>3. /\ \A i \in Entry : Ent(d2, I.single, i) = Ent(d, I.single, i)
      /\ \A i \in Entry : Ent(d2, I.double, i) = Ent(d, I.double, i)
  BY <1>2 DEF Ent
<1>4. \A k, i \in Entry : Ent(d2, Ent(d2, I.double, k), i) = Ent(d, Ent(d, I.double, k), i)
  BY <1>2, <1>3 DEF Ent
<1>5. Tree(d2, I)
  BY <1>1, <1>2, <1>3, TreeIs
<1>6. ASSUME NEW s \in Slot PROVE At(d2, I, s) = At(d, I, s)
  <2>1. CASE s[1] \in {"direct", "single", "double"}
    BY <2>1 DEF At
  <2>2. CASE s[1] \in {"by single", "level 1"}
    BY <1>3, <2>2 DEF At, Slot
  <2>3. CASE s[1] = "level 2"
    BY <1>4, <2>3 DEF At, Slot
  <2>4. QED
    BY <2>1, <2>2, <2>3 DEF Slot, Kind
<1>7. QED
  BY <1>5, <1>6

\* A direct pointer.
LEMMA TakeDirect ==
    ASSUME NEW d, NEW I \in InodeRec, NEW b \in Ptr, NEW i \in Direct, Tree(d, I)
    PROVE  /\ [I EXCEPT !.direct[i] = b] \in InodeRec
           /\ Tree(d, [I EXCEPT !.direct[i] = b])
           /\ \A s \in Slot : At(d, [I EXCEPT !.direct[i] = b], s) =
                                IF s = <<"direct", 0, i>> THEN b ELSE At(d, I, s)
<1> DEFINE J == [I EXCEPT !.direct[i] = b]
<1>1. /\ J \in InodeRec /\ J.single = I.single /\ J.double = I.double
      /\ \A k \in Direct : J.direct[k] = IF k = i THEN b ELSE I.direct[k]
  BY DEF InodeRec
<1> HIDE DEF J
<1>2. Tree(d, J)
  BY <1>1, TreeIs
<1>3. ASSUME NEW s \in Slot
      PROVE  At(d, J, s) = IF s = <<"direct", 0, i>> THEN b ELSE At(d, I, s)
  <2>1. CASE s[1] = "direct"
    <3>1. s = <<"direct", 0, i>> <=> s[3] = i
      <4>1. s[2] = 0
        BY <2>1 DEF Slot
      <4>2. QED
        BY <2>1, <4>1, SlotIs
    <3>2. QED
      BY <1>1, <2>1, <3>1 DEF At, Slot
  <2>2. CASE s[1] # "direct"
    <3>1. s # <<"direct", 0, i>>
      BY <2>2
    <3>2. QED
      BY <1>1, <2>2, <3>1 DEF At, Slot, Kind
  <2>3. QED
    BY <2>1, <2>2
<1>4. QED
  BY <1>1, <1>2, <1>3 DEF J

\* J takes block b as its root at this level.
RootTaken(d, I, J, level, b) ==
    /\ J \in InodeRec /\ Tree(d, J)
    /\ \A s \in Slot : At(d, J, s) = IF s = <<level, 0, 0>> THEN b ELSE At(d, I, s)

\* A pointer block of the inode, without pointers.
LEMMA TakeRoot ==
    ASSUME NEW d, NEW I \in InodeRec, NEW b \in DataRegion, NEW level \in {"single", "double"},
           Tree(d, I), I[level] = NoBlock, d.block[b] = NoPointers
    PROVE  RootTaken(d, I, [I EXCEPT ![level] = b], level, b)
<1> DEFINE J == [I EXCEPT ![level] = b]
<1>1. /\ J \in InodeRec /\ J.direct = I.direct /\ b # NoBlock
      /\ J.single = (IF level = "single" THEN b ELSE I.single)
      /\ J.double = (IF level = "double" THEN b ELSE I.double)
  BY Constants DEF InodeRec, Ptr
<1>2. /\ level = "single" => I.single = NoBlock
      /\ level = "double" => I.double = NoBlock
  OBVIOUS
<1> HIDE DEF J
<1>3. d.block[b] \in PtrBlock /\ \A i \in Entry : Ent(d, b, i) = NoBlock
  BY <1>1 DEF NoPointers, PtrBlock, Entry, Ptr, Ent
<1>4. /\ \A i \in Entry : Ent(d, J.single, i) = Ent(d, I.single, i)
      /\ \A i \in Entry : Ent(d, J.double, i) = Ent(d, I.double, i)
  BY <1>1, <1>2, <1>3 DEF Ent
<1>5. Tree(d, J)
  BY <1>1, <1>3, <1>4, TreeIs
<1>6. ASSUME NEW s \in Slot
      PROVE  At(d, J, s) = IF s = <<level, 0, 0>> THEN b ELSE At(d, I, s)
  <2>1. CASE s[1] \in {"single", "double"}
    <3>1. s = <<level, 0, 0>> <=> s[1] = level
      <4>1. s[2] = 0 /\ s[3] = 0
        BY <2>1 DEF Slot
      <4>2. QED
        BY <2>1, <4>1, SlotIs
    <3>2. QED
      BY <1>1, <2>1, <3>1 DEF At
  <2>2. CASE s[1] \notin {"single", "double"}
    <3>1. s # <<level, 0, 0>>
      BY <2>2
    <3>2. CASE s[1] = "direct"
      BY <1>1, <3>1, <3>2 DEF At
    <3>3. CASE s[1] # "direct"
      BY <1>4, <2>2, <3>1, <3>3 DEF At, Slot
    <3>4. QED
      BY <3>2, <3>3
  <2>3. QED
    BY <2>1, <2>2
<1>7. QED
  BY <1>1, <1>5, <1>6 DEF J, RootTaken

\* Two slots with the same parts are the same.
LEMMA SameSlot ==
    ASSUME NEW s \in Slot, NEW t \in Slot
    PROVE  s = t <=> s[1] = t[1] /\ s[2] = t[2] /\ s[3] = t[3]
<1>1. s \in Kind \X Nat \X Nat /\ t \in Kind \X Nat \X Nat
  BY DEF Slot
<1>2. s = <<s[1], s[2], s[3]>> /\ t = <<t[1], t[2], t[3]>>
  BY <1>1
<1>3. QED
  BY <1>2

\* Entry i of the pointer block in slot q.
Child(q, i) ==
    IF q[1] = "single" THEN <<"by single", 0, i>>
    ELSE IF q[1] = "double" THEN <<"level 1", 0, i>> ELSE <<"level 2", q[3], i>>

\* Which slots are the entries of a pointer block, and which entry.
LEMMA ChildIs ==
    ASSUME NEW q \in PtrSlot, NEW i \in Entry, NEW s \in Slot
    PROVE  /\ Child(q, i) \in Slot
           /\ s = Child(q, i) <=>
                 \/ q[1] = "single" /\ s[1] = "by single" /\ s[3] = i
                 \/ q[1] = "double" /\ s[1] = "level 1" /\ s[3] = i
                 \/ q[1] = "level 1" /\ s[1] = "level 2" /\ s[2] = q[3] /\ s[3] = i
<1> DEFINE c == Child(q, i)
<1>1. q[1] \in {"single", "double", "level 1"} /\ (q[1] = "level 1" => q[3] \in Entry)
  BY DEF PtrSlot, Slot
<1>2. s[1] \in {"by single", "level 1"} => s[2] = 0
  BY DEF Slot
<1>3. /\ c \in Slot
      /\ q[1] = "single" => c[1] = "by single" /\ c[2] = 0 /\ c[3] = i
      /\ q[1] = "double" => c[1] = "level 1" /\ c[2] = 0 /\ c[3] = i
      /\ q[1] = "level 1" => c[1] = "level 2" /\ c[2] = q[3] /\ c[3] = i
  BY <1>1, Slots DEF Child
<1> HIDE DEF c
<1>4. s = c <=> s[1] = c[1] /\ s[2] = c[2] /\ s[3] = c[3]
  BY <1>3, SameSlot
<1>5. QED
  BY <1>1, <1>2, <1>3, <1>4 DEF c

\* J takes block b in slot s0.
Takes(d, d2, I, J, s0, b) ==
    \A s \in Slot : At(d2, J, s) = IF s = s0 THEN b ELSE At(d, I, s)

\* An entry of a pointer block of the inode.
LEMMA TakeEntry ==
    ASSUME NEW d, NEW d2, NEW I \in InodeRec, NEW q \in PtrSlot, NEW i \in Entry,
           NEW b \in DataRegion, Tree(d, I), Own(d, I), \A s \in Slot : At(d, I, s) # b,
           At(d, I, q) # NoBlock,
           q[1] = "double" => At(d, I, <<"level 1", 0, i>>) = NoBlock /\ d.block[b] = NoPointers,
           d2.block[At(d, I, q)] = [d.block[At(d, I, q)] EXCEPT ![i] = b],
           \A x \in DataRegion \ {At(d, I, q)} : d2.block[x] = d.block[x]
    PROVE  Tree(d2, I) /\ Takes(d, d2, I, I, Child(q, i), b)
<1> SUFFICES /\ Tree(d2, I)
             /\ \A s \in Slot : At(d2, I, s) = IF s = Child(q, i) THEN b ELSE At(d, I, s)
  BY DEF Takes
<1> DEFINE p == At(d, I, q)
           L(k) == Ent(d, I.double, k)
<1>1. /\ At(d, I, <<"single", 0, 0>>) = I.single /\ At(d, I, <<"double", 0, 0>>) = I.double
      /\ \A k : At(d, I, <<"level 1", 0, k>>) = L(k)
  BY DEF At
<1>2. /\ I.single # NoBlock => d.block[I.single] \in PtrBlock /\ I.single \in DataRegion
      /\ I.double # NoBlock => d.block[I.double] \in PtrBlock /\ I.double \in DataRegion
      /\ \A k \in Entry : L(k) # NoBlock => d.block[L(k)] \in PtrBlock /\ L(k) \in DataRegion
  <2>1. I.single \in Ptr /\ I.double \in Ptr
    BY DEF InodeRec
  <2>2. \A k \in Entry : L(k) \in Ptr
    BY AtType
  <2>3. /\ I.single # NoBlock => d.block[I.single] \in PtrBlock
        /\ I.double # NoBlock => d.block[I.double] \in PtrBlock
        /\ \A k \in Entry : L(k) # NoBlock => d.block[L(k)] \in PtrBlock
    BY TreeIs
  <2> HIDE DEF L
  <2>4. QED
    BY <2>1, <2>2, <2>3 DEF Ptr
<1>3. /\ I.single # NoBlock => I.single # I.double /\ \A k \in Entry : I.single # L(k)
      /\ I.double # NoBlock => \A k \in Entry : I.double # L(k)
      /\ \A k, l \in Entry : L(k) = L(l) /\ L(k) # NoBlock => k = l
  <2>1. \A s, t \in PtrSlot : At(d, I, s) = At(d, I, t) /\ At(d, I, s) # NoBlock => s = t
    BY Slots DEF Own
  <2>2. \A k, l \in Entry : <<"level 1", 0, k>> = <<"level 1", 0, l>> => k = l
    OBVIOUS
  <2>3. \A k \in Entry : /\ <<"level 1", 0, k>> # <<"single", 0, 0>>
                         /\ <<"level 1", 0, k>> # <<"double", 0, 0>>
    OBVIOUS
  <2>4. <<"single", 0, 0>> # <<"double", 0, 0>>
    OBVIOUS
  <2>5. /\ I.single # NoBlock => I.single # I.double
        /\ I.single # NoBlock => \A k \in Entry : I.single # L(k)
    BY <1>1, <2>1, <2>3, <2>4, Slots
  <2>6. I.double # NoBlock => \A k \in Entry : I.double # L(k)
    BY <1>1, <2>1, <2>3, Slots
  <2>7. \A k, l \in Entry : L(k) = L(l) /\ L(k) # NoBlock => k = l
    BY <1>1, <2>1, <2>2, Slots
  <2>8. QED
    BY <2>5, <2>6, <2>7
<1>4. /\ b # I.single /\ b # I.double /\ \A k \in Entry : b # L(k)
      /\ b # p /\ b # NoBlock
  BY <1>1, Slots, Constants
<1>5. /\ p # NoBlock /\ p \in DataRegion /\ d.block[p] \in PtrBlock
      /\ d2.block[p] = [d.block[p] EXCEPT ![i] = b]
      /\ \A x \in DataRegion : x # p => d2.block[x] = d.block[x]
  <2>1. p \in Ptr /\ d.block[p] \in PtrBlock
    BY AtType, Slots DEF Tree
  <2>2. QED
    BY <2>1 DEF Ptr
<1> HIDE DEF p, L
<1>11. d2.block[p] \in PtrBlock
  <2>1. b \in Ptr /\ d.block[p] \in [Entry -> Ptr]
    BY <1>5 DEF PtrBlock, Ptr
  <2>2. QED
    BY <1>5, <2>1 DEF PtrBlock
<1> DEFINE c == Child(q, i)
<1>9. c \in Slot /\ \A s \in Slot :
         s = c <=> \/ q[1] = "single" /\ s[1] = "by single" /\ s[3] = i
                   \/ q[1] = "double" /\ s[1] = "level 1" /\ s[3] = i
                   \/ q[1] = "level 1" /\ s[1] = "level 2" /\ s[2] = q[3] /\ s[3] = i
  <2>1. c \in Slot
    BY Slots, ChildIs
  <2>2. ASSUME NEW s \in Slot
        PROVE  s = c <=> \/ q[1] = "single" /\ s[1] = "by single" /\ s[3] = i
                         \/ q[1] = "double" /\ s[1] = "level 1" /\ s[3] = i
                         \/ q[1] = "level 1" /\ s[1] = "level 2" /\ s[2] = q[3] /\ s[3] = i
    BY ChildIs, Zenon
  <2>3. QED
    BY <2>1, <2>2
<1> HIDE DEF c
<1>6. CASE q[1] = "single"
  <2>1. p = I.single
    BY <1>6 DEF p, At
  <2>2. d2.block[p] \in PtrBlock
    BY <1>11
  <2>3. \A k \in Entry : Ent(d2, I.single, k) = IF k = i THEN b ELSE Ent(d, I.single, k)
    BY <1>2, <1>5, <2>1 DEF Ent, PtrBlock
  <2>4. \A k \in Entry : Ent(d2, I.double, k) = L(k)
    BY <1>2, <1>3, <1>5, <2>1 DEF Ent, L
  <2>5. \A k, j \in Entry : Ent(d2, L(k), j) = Ent(d, L(k), j)
    BY <1>2, <1>3, <1>5, <2>1 DEF Ent
  <2>6. Tree(d2, I)
    <3>1. I.double # NoBlock => d2.block[I.double] \in PtrBlock
      BY <1>2, <1>3, <1>5, <2>1
    <3>2. \A k \in Entry : L(k) # NoBlock => d2.block[L(k)] \in PtrBlock
      BY <1>2, <1>3, <1>5, <2>1
    <3>3. QED
      BY <2>1, <2>2, <2>4, <3>1, <3>2, TreeIs
  <2>7. ASSUME NEW s \in Slot PROVE At(d2, I, s) = IF s = c THEN b ELSE At(d, I, s)
    <3>1. CASE s[1] = "by single"
      <4>1. s[2] = 0 /\ s[3] \in Entry
        BY <3>1 DEF Slot
      <4>2. s = c <=> s[3] = i
        BY <1>6, <3>1, <1>9
      <4>3. QED
        BY <2>3, <3>1, <4>1, <4>2 DEF At
    <3>2. CASE s[1] # "by single"
      <4>1. s # c
        BY <1>6, <3>2, <1>9
      <4>2. QED
        <5>1. CASE s[1] \in {"direct", "single", "double"}
          BY <4>1, <5>1 DEF At
        <5>2. CASE s[1] = "level 1"
          BY <2>4, <4>1, <5>2 DEF At, Slot, L
        <5>3. CASE s[1] = "level 2"
          <6>1. s[2] \in Entry /\ s[3] \in Entry
            BY <5>3 DEF Slot
          <6>2. At(d2, I, s) = Ent(d2, L(s[2]), s[3]) /\ At(d, I, s) = Ent(d, L(s[2]), s[3])
            BY <2>4, <5>3, <6>1 DEF At, L
          <6>3. QED
            BY <2>5, <4>1, <6>1, <6>2
        <5>4. QED
          BY <3>2, <5>1, <5>2, <5>3 DEF Slot, Kind
    <3>3. QED
      BY <3>1, <3>2
  <2>8. QED
    BY <2>6, <2>7 DEF c
<1>7. CASE q[1] = "double"
  <2>1. /\ p = I.double
        /\ L(i) = NoBlock /\ d.block[b] = NoPointers
    BY <1>1, <1>7 DEF p, At
  <2>2. d2.block[p] \in PtrBlock
    BY <1>11
  <2>3. \A k \in Entry : Ent(d2, I.double, k) = IF k = i THEN b ELSE L(k)
    BY <1>2, <1>5, <2>1 DEF Ent, PtrBlock, L
  <2>4. \A k \in Entry : Ent(d2, I.single, k) = Ent(d, I.single, k)
    BY <1>2, <1>3, <1>5, <2>1 DEF Ent
  <2>5. \A k, j \in Entry : Ent(d2, L(k), j) = Ent(d, L(k), j)
    BY <1>2, <1>3, <1>5, <2>1 DEF Ent
  <2>6. d2.block[b] \in PtrBlock /\ \A j \in Entry : Ent(d2, b, j) = NoBlock
    <3>1. d2.block[b] = NoPointers /\ b # NoBlock
      BY <1>4, <1>5, <2>1
    <3>2. QED
      BY <3>1 DEF NoPointers, PtrBlock, Entry, Ptr, Ent
  <2>7. Tree(d2, I)
    <3>1. I.single # NoBlock => d2.block[I.single] \in PtrBlock
      BY <1>2, <1>3, <1>5, <2>1
    <3>2. \A k \in Entry : L(k) # NoBlock => d2.block[L(k)] \in PtrBlock
      BY <1>2, <1>3, <1>5, <2>1
    <3>3. QED
      BY <2>1, <2>2, <2>3, <2>6, <3>1, <3>2, TreeIs
  <2>8. \A k, j \in Entry : Ent(d2, Ent(d2, I.double, k), j) = Ent(d, L(k), j)
    <3> TAKE k, j \in Entry
    <3>1. CASE k = i
      BY <2>1, <2>3, <2>6, <3>1 DEF Ent
    <3>2. CASE k # i
      BY <2>3, <2>5, <3>2
    <3>3. QED
      BY <3>1, <3>2
  <2>9. ASSUME NEW s \in Slot PROVE At(d2, I, s) = IF s = c THEN b ELSE At(d, I, s)
    <3>1. CASE s[1] = "level 1"
      <4>1. s[2] = 0 /\ s[3] \in Entry
        BY <3>1 DEF Slot
      <4>2. s = c <=> s[3] = i
        BY <1>7, <3>1, <1>9
      <4>3. QED
        BY <2>3, <3>1, <4>1, <4>2 DEF At, L
    <3>2. CASE s[1] # "level 1"
      <4>1. s # c
        BY <1>7, <3>2, <1>9
      <4>2. QED
        BY <2>4, <2>8, <3>2, <4>1 DEF At, Slot, L, Kind
    <3>3. QED
      BY <3>1, <3>2
  <2>10. QED
    BY <2>7, <2>9 DEF c
<1>8. CASE q[1] = "level 1"
  <2>1. /\ q[3] \in Entry /\ p = L(q[3])
    BY <1>8 DEF p, At, L, PtrSlot, Slot
  <2>2. d2.block[p] \in PtrBlock
    BY <1>11
  <2>3. /\ \A k \in Entry : Ent(d2, I.single, k) = Ent(d, I.single, k)
        /\ \A k \in Entry : Ent(d2, I.double, k) = L(k)
    BY <1>2, <1>3, <1>5, <2>1 DEF Ent, L
  <2>4. \A k, j \in Entry : Ent(d2, L(k), j) =
                              IF k = q[3] /\ j = i THEN b ELSE Ent(d, L(k), j)
    <3> TAKE k, j \in Entry
    <3>1. CASE k = q[3]
      BY <1>2, <1>5, <2>1, <3>1 DEF Ent, PtrBlock
    <3>2. CASE k # q[3]
      BY <1>2, <1>3, <1>5, <2>1, <3>2 DEF Ent
    <3>3. QED
      BY <3>1, <3>2
  <2>5. Tree(d2, I)
    <3>1. /\ I.single # NoBlock => d2.block[I.single] \in PtrBlock
          /\ I.double # NoBlock => d2.block[I.double] \in PtrBlock
      BY <1>2, <1>3, <1>5, <2>1
    <3>2. \A k \in Entry : L(k) # NoBlock => d2.block[L(k)] \in PtrBlock
      BY <1>2, <1>3, <1>5, <2>1, <2>2
    <3>3. QED
      BY <2>3, <3>1, <3>2, TreeIs
  <2>6. ASSUME NEW s \in Slot PROVE At(d2, I, s) = IF s = c THEN b ELSE At(d, I, s)
    <3>1. CASE s[1] = "level 2"
      <4>1. s[2] \in Entry /\ s[3] \in Entry
        BY <3>1 DEF Slot
      <4>2. s = c <=> s[2] = q[3] /\ s[3] = i
        BY <1>8, <3>1, <1>9
      <4>3. QED
        <5>1. At(d2, I, s) = Ent(d2, L(s[2]), s[3])
          BY <2>3, <3>1, <4>1 DEF At
        <5>2. At(d, I, s) = Ent(d, L(s[2]), s[3])
          BY <3>1 DEF At, L
        <5>3. QED
          BY <2>4, <4>1, <4>2, <5>1, <5>2
    <3>2. CASE s[1] # "level 2"
      <4>1. s # c
        BY <1>8, <3>2, <1>9
      <4>2. QED
        BY <2>3, <3>2, <4>1 DEF At, Slot, L, Kind
    <3>3. QED
      BY <3>1, <3>2
  <2>7. QED
    BY <2>5, <2>6 DEF c
<1>10. QED
  BY <1>6, <1>7, <1>8 DEF PtrSlot, c
----------------------------------------------------------------------------
(* All inodes together: no block in two slots.  F is the inodes as somebody *)
(* sees them, the disk or the caller of an operation.                       *)

Apart(d, F) ==
    \A m, l \in Inode : \A s, t \in Slot :
        At(d, F[m], s) = At(d, F[l], t) /\ At(d, F[m], s) # NoBlock => m = l /\ s = t

Forest(d, F) ==
    /\ F \in [Inode -> InodeRec]
    /\ \A m \in Inode : Tree(d, F[m])
    /\ Apart(d, F)

Held(d, F) == {b \in DataRegion : \E m \in Inode : \E s \in Slot : At(d, F[m], s) = b}

\* What the blocks of a file hold; beyond its end, zeros.
Holds(d, I, s) ==
    At(d, I, s) # NoBlock =>
        /\ d.block[At(d, I, s)] \in DataBlock
        /\ First(s) >= BlocksOf(I.size) => d.block[At(d, I, s)] = ZeroData
Contents(d, F) == \A m \in Inode : \A s \in DataSlot : Holds(d, F[m], s)

\* What the inodes of a forest hold lies in the data region, and each holds it once.
LEMMA HeldIs ==
    ASSUME NEW d, NEW F, Forest(d, F)
    PROVE  /\ \A m \in Inode : \A s \in Slot : At(d, F[m], s) \in Ptr
           /\ \A m \in Inode : \A s \in Slot : At(d, F[m], s) # NoBlock =>
                 At(d, F[m], s) \in Held(d, F) /\ At(d, F[m], s) \in DataRegion
           /\ Held(d, F) \subseteq DataRegion
           /\ \A m \in Inode : Own(d, F[m])
<1>1. \A m \in Inode : F[m] \in InodeRec /\ Tree(d, F[m])
  BY DEF Forest
<1>2. \A m \in Inode : \A s \in Slot : At(d, F[m], s) \in Ptr
  BY <1>1, AtType
<1>3. \A m \in Inode : Own(d, F[m])
  BY DEF Forest, Apart, Own
<1>4. QED
  BY <1>2, <1>3 DEF Held, Ptr

\* Blocks that no slot for a pointer block holds are nothing to a forest.
SamePtrs(d, d2, F) ==
    \A m \in Inode : \A s \in PtrSlot : At(d, F[m], s) # NoBlock =>
        d2.block[At(d, F[m], s)] = d.block[At(d, F[m], s)]
SameAt(d, d2, F) == \A m \in Inode : \A s \in Slot : At(d2, F[m], s) = At(d, F[m], s)

\* A forest stays one where no pointer changes.
LEMMA SameForest ==
    ASSUME NEW d, NEW d2, NEW F, Forest(d, F), SamePtrs(d, d2, F)
    PROVE  Forest(d2, F) /\ Held(d2, F) = Held(d, F) /\ SameAt(d, d2, F)
<1>1. \A m \in Inode : F[m] \in InodeRec /\ Tree(d, F[m])
  BY DEF Forest
<1>2. ASSUME NEW m \in Inode
      PROVE  Tree(d2, F[m]) /\ \A s \in Slot : At(d2, F[m], s) = At(d, F[m], s)
  BY <1>1, SameTree DEF SamePtrs
<1>3. Apart(d2, F)
  BY <1>2 DEF Apart, Forest
<1>4. Held(d2, F) = Held(d, F)
  BY <1>2 DEF Held
<1>5. QED
  BY <1>2, <1>3, <1>4 DEF Forest, SameAt

\* Blocks that no slot holds are nothing at all to it.
LEMMA Untouched ==
    ASSUME NEW d, NEW d2, NEW F, Forest(d, F),
           \A b \in Held(d, F) : d2.block[b] = d.block[b]
    PROVE  /\ Forest(d2, F) /\ Held(d2, F) = Held(d, F)
           /\ SameAt(d, d2, F)
           /\ Contents(d, F) => Contents(d2, F)
<1>1. \A m \in Inode : \A s \in Slot : At(d, F[m], s) # NoBlock =>
         d2.block[At(d, F[m], s)] = d.block[At(d, F[m], s)]
  BY HeldIs
<1>2. /\ Forest(d2, F) /\ Held(d2, F) = Held(d, F)
      /\ SameAt(d, d2, F)
  <2>1. SamePtrs(d, d2, F)
    BY <1>1, Slots DEF SamePtrs
  <2>2. QED
    BY <2>1, SameForest
<1>3. ASSUME Contents(d, F) PROVE Contents(d2, F)
  <2> SUFFICES ASSUME NEW m \in Inode, NEW s \in DataSlot PROVE Holds(d2, F[m], s)
    BY DEF Contents
  <2>1. s \in Slot /\ Holds(d, F[m], s)
    BY <1>3, Slots DEF Contents
  <2>2. At(d2, F[m], s) = At(d, F[m], s)
    BY <1>2, <2>1 DEF SameAt
  <2>3. QED
    BY <1>1, <2>1, <2>2 DEF Holds
<1>4. QED
  BY <1>2, <1>3

\* Losing pointers, of the inodes or in their pointer blocks.
LEMMA Fewer ==
    ASSUME NEW d, NEW d2, NEW F, NEW F2 \in [Inode -> InodeRec], Forest(d, F),
           \A m \in Inode : Below(F2[m], F[m]), Thinner(d2, d)
    PROVE  /\ Forest(d2, F2) /\ Held(d2, F2) \subseteq Held(d, F)
           /\ \A m \in Inode : \A s \in Slot : At(d2, F2[m], s) \in {NoBlock, At(d, F[m], s)}
<1>1. \A m \in Inode : F[m] \in InodeRec /\ Tree(d, F[m]) /\ F2[m] \in InodeRec
  BY DEF Forest
<1>2. ASSUME NEW m \in Inode
      PROVE  Tree(d2, F2[m]) /\ \A s \in Slot : At(d2, F2[m], s) \in {NoBlock, At(d, F[m], s)}
  BY <1>1, Thin
<1>3. Apart(d2, F2)
  <2> SUFFICES ASSUME NEW m \in Inode, NEW l \in Inode, NEW s \in Slot, NEW t \in Slot,
                      At(d2, F2[m], s) = At(d2, F2[l], t), At(d2, F2[m], s) # NoBlock
               PROVE  m = l /\ s = t
    BY DEF Apart
  <2>1. At(d2, F2[m], s) = At(d, F[m], s) /\ At(d2, F2[l], t) = At(d, F[l], t)
    BY <1>2
  <2>2. Apart(d, F)
    BY DEF Forest
  <2>3. At(d, F[m], s) = At(d, F[l], t) /\ At(d, F[m], s) # NoBlock
    BY <2>1
  <2>4. \A u, v \in Inode : \A x, y \in Slot :
           At(d, F[u], x) = At(d, F[v], y) /\ At(d, F[u], x) # NoBlock => u = v /\ x = y
    BY <2>2 DEF Apart
  <2>5. QED
    BY <2>3, <2>4
<1>4. Held(d2, F2) \subseteq Held(d, F)
  BY <1>2, Constants DEF Held
<1>5. QED
  BY <1>2, <1>3, <1>4 DEF Forest

\* Nothing dropped is a case of something dropped.
LEMMA BelowItself ==
    /\ \A I : Below(I, I)
    /\ \A d : Thinner(d, d)
BY DEF Below, Thinner

\* One slot of inode n takes block b; the other inodes keep theirs.
Rest(d, d2, F, n) ==
    \A m \in Inode \ {n} : /\ Tree(d2, F[m])
                           /\ \A s \in Slot : At(d2, F[m], s) = At(d, F[m], s)

Becomes(F, G, n, J) ==
    G \in [Inode -> InodeRec] /\ G[n] = J /\ \A m \in Inode \ {n} : G[m] = F[m]

\* An inode that takes a block no one holds into an empty slot leaves a forest.
LEMMA Take ==
    ASSUME NEW d, NEW d2, NEW F, NEW n \in Inode, NEW J \in InodeRec, NEW s0 \in Slot,
           NEW b \in DataRegion, b \notin Held(d, F), Forest(d, F), Tree(d2, J),
           Takes(d, d2, F[n], J, s0, b), Rest(d, d2, F, n), At(d, F[n], s0) = NoBlock,
           NEW G, Becomes(F, G, n, J)
    PROVE  Forest(d2, G) /\ Held(d2, G) = Held(d, F) \cup {b}
<1>1. /\ G \in [Inode -> InodeRec] /\ G[n] = J /\ \A m \in Inode \ {n} : G[m] = F[m]
  BY DEF Becomes
<1>2. \A m \in Inode : Tree(d2, G[m])
  BY <1>1 DEF Rest
<1>3. ASSUME NEW m \in Inode, NEW s \in Slot
      PROVE  At(d2, G[m], s) = IF m = n /\ s = s0 THEN b ELSE At(d, F[m], s)
  BY <1>1 DEF Rest, Takes
<1>4. \A m \in Inode : \A s \in Slot : At(d, F[m], s) # b
  BY HeldIs, Constants DEF Held
<1>5. Apart(d2, G)
  <2> SUFFICES ASSUME NEW m \in Inode, NEW l \in Inode, NEW s \in Slot, NEW t \in Slot,
                      At(d2, G[m], s) = At(d2, G[l], t), At(d2, G[m], s) # NoBlock
               PROVE  m = l /\ s = t
    BY DEF Apart
  <2>1. CASE m = n /\ s = s0
    BY <1>3, <1>4, <2>1
  <2>2. CASE l = n /\ t = s0
    BY <1>3, <1>4, <2>2
  <2>3. CASE ~ (m = n /\ s = s0) /\ ~ (l = n /\ t = s0)
    BY <1>3, <2>3 DEF Forest, Apart
  <2>4. QED
    BY <2>1, <2>2, <2>3
<1>6. Held(d2, G) = Held(d, F) \cup {b}
  <2>1. \A x \in Held(d2, G) : x \in Held(d, F) \cup {b}
    BY <1>3 DEF Held
  <2>2. b \in Held(d2, G)
    BY <1>3 DEF Held
  <2>3. \A x \in Held(d, F) : x \in Held(d2, G)
    <3> SUFFICES ASSUME NEW x \in DataRegion, NEW m \in Inode, NEW s \in Slot,
                        At(d, F[m], s) = x
                 PROVE  x \in Held(d2, G)
      BY DEF Held
    <3>1. ~ (m = n /\ s = s0)
      BY Constants
    <3>2. At(d2, G[m], s) = x
      BY <1>3, <3>1
    <3>3. QED
      BY <3>2 DEF Held
  <2>4. QED
    BY <2>1, <2>2, <2>3
<1>7. QED
  BY <1>1, <1>2, <1>5, <1>6 DEF Forest
----------------------------------------------------------------------------
(* Numbers of blocks. *)

\* The data region is finite, and so are its subsets, of at most DataBlocks.
LEMMA Blocks ==
    /\ IsFiniteSet(DataRegion) /\ Cardinality(DataRegion) = DataBlocks
    /\ \A S \in SUBSET DataRegion : IsFiniteSet(S) /\ Cardinality(S) \in 0 .. DataBlocks
<1>1. IsFiniteSet(DataRegion) /\ Cardinality(DataRegion) = DataBlocks
  <2>1. PICK last \in Int : last = DataStart + DataBlocks - 1
    BY Constants
  <2>2. /\ IsFiniteSet(DataStart .. last)
        /\ Cardinality(DataStart .. last) =
              (IF DataStart > last THEN 0 ELSE last - DataStart + 1)
    BY Constants, FS_Interval
  <2>3. QED
    BY <2>1, <2>2, Constants DEF DataRegion
<1>2. ASSUME NEW S \in SUBSET DataRegion
      PROVE  IsFiniteSet(S) /\ Cardinality(S) \in 0 .. DataBlocks
  <2>1. IsFiniteSet(S) /\ Cardinality(S) <= Cardinality(DataRegion)
    BY <1>1, FS_Subset
  <2>2. Cardinality(S) \in Nat
    BY <2>1, FS_CardinalityType
  <2>3. QED
    BY <1>1, <2>1, <2>2, Constants
<1>3. QED
  BY <1>1, <1>2

\* A subset has no more blocks than the whole.
LEMMA Fewest ==
    ASSUME NEW S \in SUBSET DataRegion, NEW T \in SUBSET S
    PROVE  Cardinality(T) <= Cardinality(S)
BY Blocks, FS_Subset

\* One block more counts one more, and then the others were not all.
LEMMA OneMore ==
    ASSUME NEW S \in SUBSET DataRegion, NEW b \in DataRegion \ S
    PROVE  Cardinality(S \cup {b}) = Cardinality(S) + 1 /\ Cardinality(S) < DataBlocks
<1>1. Cardinality(S \cup {b}) = Cardinality(S) + 1
  BY Blocks, FS_AddElement
<1>2. S \cup {b} \in SUBSET DataRegion
  OBVIOUS
<1>3. QED
  BY <1>1, <1>2, Blocks, Constants

\* The first clear bit of the bitmap is clear.
LEMMA OneFree ==
    ASSUME NEW S \in SUBSET DataRegion, ~ (DataRegion \subseteq S)
    PROVE  Min(DataRegion \ S) \in DataRegion \ S
<1> DEFINE Z == DataRegion \ S
<1>1. Z \in SUBSET Nat /\ Z # {}
  BY Constants DEF DataRegion
<1>2. \E m \in Z : \A k \in Z : m <= k
  BY <1>1, Least
<1>3. QED
  BY <1>2 DEF Min
----------------------------------------------------------------------------
(* A run that grows inode n of disk d0.  B holds the block that is          *)
(* allocated but not yet in a slot.                                         *)

Seen(r, n) == [r.disk.inode EXCEPT ![n] = r.inode]
Now(r, s) == At(r.disk, r.inode, s)
SameSlots(r, r2) == \A s \in Slot : Now(r2, s) = Now(r, s)

Sound(d, F, B) ==
    /\ Forest(d, F) /\ Contents(d, F)
    /\ B \subseteq DataRegion /\ B \cap Held(d, F) = {} /\ Held(d, F) \cup B \subseteq d.bitmap
    /\ DataBlocks <= d.freeBlocks + Cardinality(d.bitmap)
    /\ d.freeBlocks + Cardinality(Held(d, F) \cup B) <= DataBlocks

Alike(I, J) == I.generation = J.generation /\ I.size = J.size /\ I.blocks = J.blocks

Kept(d, d0, n) ==
    /\ d \in Disk /\ d.used = d0.used /\ d.freeInodes = d0.freeInodes
    /\ \A m \in Inode \ {n} : d.inode[m] = d0.inode[m]
    /\ Alike(d.inode[n], d0.inode[n])

Others(d, d0, n) ==
    \A m \in Inode \ {n} : \A s \in Slot : At(d, d0.inode[m], s) = At(d0, d0.inode[m], s)

Fine(d, d0, n) == Kept(d, d0, n) /\ Sound(d, d.inode, {})

Fits(r, d0, n, B) ==
    /\ r \in Runs /\ Kept(r.disk, d0, n) /\ Others(r.disk, d0, n)
    /\ Alike(r.inode, d0.inode[n]) /\ Below(r.disk.inode[n], r.inode)
    /\ Sound(r.disk, Seen(r, n), B)

Growing(r, d0, n, B) == Fits(r, d0, n, B) /\ \A x \in r.trail : Fine(x, d0, n)

Exact(r, n, B) == r.disk.bitmap = Held(r.disk, Seen(r, n)) \cup B

\* The inodes as the running call sees them: its copy, and the rest of the table.
LEMMA Views ==
    ASSUME NEW r, NEW n \in Inode, r.disk \in Disk, r.inode \in InodeRec
    PROVE  /\ Seen(r, n) \in [Inode -> InodeRec] /\ Seen(r, n)[n] = r.inode
           /\ \A m \in Inode \ {n} : Seen(r, n)[m] = r.disk.inode[m]
           /\ r.disk.inode \in [Inode -> InodeRec]
BY DEF Seen, Disk

\* What a write of one block does to a run, and that a failed run writes nothing.
LEMMA Written ==
    ASSUME NEW r \in Runs, NEW d
    PROVE  /\ r.ok => /\ Write(r, d).disk = d /\ Write(r, d).inode = r.inode
                      /\ Write(r, d).ok = TRUE /\ Write(r, d).out = r.out
                      /\ Write(r, d).trail = r.trail \cup {d}
                      /\ d \in Disk => Write(r, d) \in Runs
           /\ ~ r.ok => Write(r, d) = r
BY DEF Write, Runs

\* Fewer slots and fewer pending blocks are as sound.
LEMMA SoundFewer ==
    ASSUME NEW d, d \in Disk, NEW F, NEW B, Sound(d, F, B), NEW F2 \in [Inode -> InodeRec],
           \A m \in Inode : Below(F2[m], F[m]) /\ F2[m].size = F[m].size
    PROVE  Sound(d, F2, {})
<1>1. Thinner(d, d)
  BY BelowItself
<1>2. /\ Forest(d, F2) /\ Held(d, F2) \subseteq Held(d, F)
      /\ \A m \in Inode : \A s \in Slot : At(d, F2[m], s) \in {NoBlock, At(d, F[m], s)}
  BY <1>1, Fewer DEF Sound
<1>3. Contents(d, F2)
  <2> SUFFICES ASSUME NEW m \in Inode, NEW s \in DataSlot PROVE Holds(d, F2[m], s)
    BY DEF Contents
  <2>1. s \in Slot /\ Holds(d, F[m], s)
    BY Slots DEF Contents, Sound
  <2>2. At(d, F2[m], s) \in {NoBlock, At(d, F[m], s)}
    BY <1>2, <2>1
  <2>3. QED
    BY <2>1, <2>2 DEF Holds
<1>4. Cardinality(Held(d, F2)) <= Cardinality(Held(d, F) \cup B)
  <2>1. Held(d, F) \cup B \in SUBSET DataRegion /\ Held(d, F2) \in SUBSET (Held(d, F) \cup B)
    BY <1>2 DEF Sound, Held
  <2>2. QED
    BY <2>1, Fewest
<1>5. /\ Cardinality(Held(d, F2)) \in Nat /\ Cardinality(Held(d, F) \cup B) \in Nat
      /\ d.freeBlocks \in Nat
  <2>1. Held(d, F) \cup B \in SUBSET DataRegion /\ Held(d, F2) \in SUBSET DataRegion
    BY <1>2 DEF Sound, Held
  <2>2. QED
    BY <2>1, Blocks DEF Disk
<1>6. QED
  BY <1>2, <1>3, <1>4, <1>5, Constants DEF Sound

\* An image that fits the call's view is one an interruption may leave.
LEMMA FitsFine ==
    ASSUME NEW r, NEW d0, NEW n \in Inode, NEW B, Fits(r, d0, n, B)
    PROVE  Fine(r.disk, d0, n)
<1>1. r.disk \in Disk /\ r.inode \in InodeRec /\ Alike(r.disk.inode[n], r.inode)
  BY DEF Fits, Runs, Kept, Alike
<1>2. \A m \in Inode : /\ Below(r.disk.inode[m], Seen(r, n)[m])
                       /\ r.disk.inode[m].size = Seen(r, n)[m].size
  <2> TAKE m \in Inode
  <2>1. CASE m = n
    BY <1>1, <2>1, Views DEF Fits, Alike
  <2>2. CASE m # n
    BY <1>1, <2>2, Views, BelowItself
  <2>3. QED
    BY <2>1, <2>2
<1>3. Sound(r.disk, r.disk.inode, {})
  BY <1>1, <1>2, Views, SoundFewer DEF Fits
<1>4. QED
  BY <1>3 DEF Fine, Fits

\* A step that touches no block in a slot, and the books.
LEMMA Settle ==
    ASSUME NEW r, NEW r2 \in Runs, NEW d0, NEW n \in Inode, NEW A, NEW B, Fits(r, d0, n, A),
           r2.inode = r.inode, r2.disk.inode = r.disk.inode, r2.disk.used = r.disk.used,
           r2.disk.freeInodes = r.disk.freeInodes,
           \A b \in Held(r.disk, Seen(r, n)) : r2.disk.block[b] = r.disk.block[b],
           B \subseteq DataRegion, B \cap Held(r.disk, Seen(r, n)) = {},
           Held(r.disk, Seen(r, n)) \cup B \subseteq r2.disk.bitmap,
           DataBlocks <= r2.disk.freeBlocks + Cardinality(r2.disk.bitmap),
           r2.disk.freeBlocks + Cardinality(Held(r.disk, Seen(r, n)) \cup B) <= DataBlocks
    PROVE  /\ Fits(r2, d0, n, B) /\ Held(r2.disk, Seen(r2, n)) = Held(r.disk, Seen(r, n))
           /\ SameSlots(r, r2)
<1> DEFINE F == Seen(r, n)
<1>1. Seen(r2, n) = F
  BY DEF Seen
<1>2. /\ Forest(r.disk, F) /\ Contents(r.disk, F)
  BY DEF Fits, Sound
<1>3. /\ Forest(r2.disk, F) /\ Held(r2.disk, F) = Held(r.disk, F)
      /\ SameAt(r.disk, r2.disk, F) /\ Contents(r2.disk, F)
  BY <1>2, Untouched
<1>4. /\ F[n] = r.inode /\ \A m \in Inode \ {n} : F[m] = r.disk.inode[m]
  BY Views DEF Fits, Runs
<1>5. Sound(r2.disk, F, B)
  BY <1>3 DEF Sound
<1> HIDE DEF F
<1>6. SameSlots(r, r2)
  BY <1>3, <1>4 DEF SameAt, Now, SameSlots
<1>7. Others(r2.disk, d0, n)
  BY <1>3, <1>4 DEF SameAt, Others, Fits, Kept
<1>8. QED
  BY <1>1, <1>3, <1>5, <1>6, <1>7 DEF Fits, Kept, Runs, F
----------------------------------------------------------------------------
(* Allocation. *)

Pending(r) == IF r.ok THEN {r.out} ELSE {}

\* What an allocation leaves: a block of the content, in no slot.
Allocated(r, r2, d0, n, content) ==
    /\ Growing(r2, d0, n, Pending(r2))
    /\ r2.inode = r.inode
    /\ SameSlots(r, r2)
    /\ Held(r2.disk, Seen(r2, n)) = Held(r.disk, Seen(r, n))
    /\ Exact(r, n, {}) => Exact(r2, n, Pending(r2))
    /\ r2.ok => r2.out \in DataRegion /\ r2.disk.block[r2.out] = content

\* A call that finds no block fails and leaves everything as it is.
LEMMA FullFails ==
    ASSUME NEW r, NEW d0, NEW n \in Inode, Growing(r, d0, n, {}), NEW content
    PROVE  Allocated(r, Failed(r), d0, n, content)
<1>1. /\ Failed(r) \in Runs /\ Failed(r).disk = r.disk /\ Failed(r).inode = r.inode
      /\ Failed(r).ok = FALSE /\ Failed(r).trail = r.trail
  BY DEF Failed, Growing, Fits, Runs
<1>2. Seen(Failed(r), n) = Seen(r, n) /\ Pending(Failed(r)) = {}
  BY <1>1 DEF Seen, Pending
<1>3. Growing(Failed(r), d0, n, {})
  BY <1>1, <1>2 DEF Growing, Fits
<1>4. QED
  BY <1>1, <1>2, <1>3 DEF Allocated, Exact, Now, SameSlots

\* The remainder of a number below the divisor is the number.
LEMMA Small ==
    ASSUME NEW x \in Nat, NEW y \in Nat, x < y
    PROVE  x % y = x
OBVIOUS

\* Taking a free block: the counter does not wrap, and both sides count one block.
LEMMA FreeCount ==
    ASSUME NEW r, NEW d0, NEW n \in Inode, NEW A, Fits(r, d0, n, A), NEW b \in DataRegion \ r.disk.bitmap
    PROVE  /\ (r.disk.freeBlocks + (-1)) % CounterValues = r.disk.freeBlocks - 1
           /\ r.disk.freeBlocks - 1 \in Nat /\ r.disk.freeBlocks \in Nat
           /\ Cardinality(r.disk.bitmap \cup {b}) = Cardinality(r.disk.bitmap) + 1
           /\ Cardinality(Held(r.disk, Seen(r, n)) \cup {b}) = Cardinality(Held(r.disk, Seen(r, n))) + 1
           /\ Cardinality(r.disk.bitmap) \in Nat /\ Cardinality(Held(r.disk, Seen(r, n))) \in Nat
           /\ r.disk.freeBlocks + Cardinality(Held(r.disk, Seen(r, n))) <= DataBlocks
           /\ b \notin Held(r.disk, Seen(r, n))
<1> DEFINE H == Held(r.disk, Seen(r, n))
           f == r.disk.freeBlocks
<1>1. /\ H \subseteq r.disk.bitmap /\ H \cup A \subseteq r.disk.bitmap
      /\ r.disk.bitmap \in SUBSET DataRegion /\ f \in Nat
      /\ DataBlocks <= f + Cardinality(r.disk.bitmap)
      /\ f + Cardinality(H \cup A) <= DataBlocks
  BY DEF Fits, Sound, Kept, Disk
<1> HIDE DEF H, f
<1>2. /\ Cardinality(r.disk.bitmap) < DataBlocks
      /\ Cardinality(r.disk.bitmap \cup {b}) = Cardinality(r.disk.bitmap) + 1
  BY <1>1, OneMore
<1>3. Cardinality(H \cup {b}) = Cardinality(H) + 1
  <2>1. H \in SUBSET DataRegion /\ b \in DataRegion \ H
    BY <1>1
  <2>2. QED
    BY <2>1, OneMore
<1>4. Cardinality(r.disk.bitmap) \in Nat /\ Cardinality(H) \in Nat /\ Cardinality(H \cup A) \in Nat
  BY <1>1, Blocks
<1>5. Cardinality(H) <= Cardinality(H \cup A)
  BY <1>1, Fewest
<1>6. f - 1 \in Nat /\ f <= DataBlocks
  BY <1>1, <1>2, <1>4, Constants
<1>7. (f + (-1)) % CounterValues = f - 1
  <2>1. f + (-1) = f - 1 /\ f - 1 < CounterValues
    BY <1>1, <1>6, Constants
  <2>2. QED
    BY <1>6, <2>1, Constants, Small
<1>8. f + Cardinality(H) <= DataBlocks /\ b \notin H
  BY <1>1, <1>4, <1>5, Constants
<1>9. QED
  BY <1>1, <1>2, <1>3, <1>4, <1>5, <1>6, <1>7, <1>8 DEF H, f

\* alloc_block takes a block no file holds and zeroes it, or fails and changes nothing.
LEMMA Allocate ==
    ASSUME NEW r, NEW d0, NEW n \in Inode, Growing(r, d0, n, {}), r.ok
    PROVE  Allocated(r, AllocateBlock(r), d0, n, ZeroData)
<1> DEFINE b == FirstFree(r)
           d == r.disk
           H == Held(r.disk, Seen(r, n))
<1>0. /\ r \in Runs /\ d \in Disk /\ Fits(r, d0, n, {})
      /\ \A x \in r.trail : Fine(x, d0, n)
  BY DEF Growing, Fits, Runs
<1>1. CASE Full(r)
  BY <1>1, FullFails DEF AllocateBlock
<1>2. CASE ~ Full(r)
  <2>1. b \in DataRegion \ d.bitmap
    BY <1>0, <1>2, OneFree DEF FirstFree, Full, Disk
  <2>2. AllocateBlock(r) = [Count(Fill(Mark(r, b), b, ZeroData), -1) EXCEPT !.out = b]
    BY <1>2 DEF AllocateBlock
  <2> DEFINE c0 == Cardinality(d.bitmap)
             h0 == Cardinality(H)
  <2>3. /\ (d.freeBlocks + (-1)) % CounterValues = d.freeBlocks - 1 /\ d.freeBlocks - 1 \in Nat
        /\ d.freeBlocks \in Nat
        /\ Cardinality(d.bitmap \cup {b}) = c0 + 1 /\ Cardinality(H \cup {b}) = h0 + 1
        /\ c0 \in Nat /\ h0 \in Nat /\ d.freeBlocks + h0 <= DataBlocks /\ b \notin H
    BY <1>0, <2>1, FreeCount
  <2>4. DataBlocks <= d.freeBlocks + c0 /\ H \subseteq d.bitmap
    BY <1>0 DEF Fits, Sound
  <2>5. Cardinality(H \cup {}) = h0
    <3>1. H \cup {} = H
      OBVIOUS
    <3>2. QED
      BY <3>1
  <2> HIDE DEF b
  <2> DEFINE r1 == Mark(r, b)
             r2 == Fill(r1, b, ZeroData)
             r3 == Count(r2, -1)
             r4 == [r3 EXCEPT !.out = b]
             d1 == [d EXCEPT !.bitmap = @ \cup {b}]
             d2 == [d1 EXCEPT !.block[b] = ZeroData]
             d3 == [d2 EXCEPT !.freeBlocks = (@ + (-1)) % CounterValues]
  <2>6. /\ d1 \in Disk /\ d1.inode = d.inode /\ d1.used = d.used /\ d1.freeInodes = d.freeInodes
        /\ d1.block = d.block /\ d1.bitmap = d.bitmap \cup {b} /\ d1.freeBlocks = d.freeBlocks
    BY <1>0, <2>1 DEF Disk
  <2>7. /\ d2 \in Disk /\ d2.inode = d.inode /\ d2.used = d.used /\ d2.freeInodes = d.freeInodes
        /\ \A x \in DataRegion \ {b} : d2.block[x] = d.block[x]
        /\ d2.block[b] = ZeroData
        /\ d2.bitmap = d.bitmap \cup {b} /\ d2.freeBlocks = d.freeBlocks
    <3>1. ZeroData \in DataBlock
      BY DEF ZeroData, DataBlock
    <3> HIDE DEF d1
    <3>2. QED
      BY <2>1, <2>6, <3>1 DEF Disk
  <2>8. /\ d3 \in Disk /\ d3.inode = d.inode /\ d3.used = d.used /\ d3.freeInodes = d.freeInodes
        /\ d3.block = d2.block
        /\ d3.bitmap = d.bitmap \cup {b} /\ d3.freeBlocks = d.freeBlocks - 1
    <3> HIDE DEF d2
    <3>1. QED
      BY <2>3, <2>7 DEF Disk
  <2> HIDE DEF d1, d2, d3
  <2>9. /\ r1 \in Runs /\ r1.disk = d1 /\ r1.inode = r.inode /\ r1.ok = TRUE
        /\ r1.trail = r.trail \cup {d1}
    BY <1>0, <2>6, Written DEF Mark, d1
  <2> HIDE DEF r1
  <2>10. /\ r2 \in Runs /\ r2.disk = d2 /\ r2.inode = r.inode /\ r2.ok = TRUE
         /\ r2.trail = r.trail \cup {d1, d2}
    <3>1. r2 = Write(r1, d2)
      BY <2>9 DEF r2, Fill, d2
    <3> HIDE DEF r2
    <3>2. /\ r2 \in Runs /\ r2.disk = d2 /\ r2.inode = r1.inode /\ r2.ok = TRUE
          /\ r2.trail = r1.trail \cup {d2}
      BY <2>7, <2>9, <3>1, Written
    <3>3. QED
      BY <2>9, <3>2
  <2> HIDE DEF r2
  <2>11. /\ r3 \in Runs /\ r3.disk = d3 /\ r3.inode = r.inode /\ r3.ok = TRUE
         /\ r3.trail = r.trail \cup {d1, d2, d3}
    <3>1. r3 = Write(r2, d3)
      BY <2>10 DEF r3, Count, d3
    <3> HIDE DEF r3
    <3>2. /\ r3 \in Runs /\ r3.disk = d3 /\ r3.inode = r2.inode /\ r3.ok = TRUE
          /\ r3.trail = r2.trail \cup {d3}
      BY <2>8, <2>10, <3>1, Written
    <3>3. QED
      BY <2>10, <3>2
  <2> HIDE DEF r3
  <2>12. /\ r4 \in Runs /\ r4.disk = d3 /\ r4.inode = r.inode /\ r4.ok = TRUE
         /\ r4.trail = r.trail \cup {d1, d2, d3} /\ r4.out = b
    BY <2>1, <2>11 DEF Runs, Ptr
  <2>13. AllocateBlock(r) = r4
    BY <2>2 DEF r3, r2, r1
  <2> HIDE DEF r4
  <2>14. H \subseteq DataRegion
    BY DEF Held
  <2> HIDE DEF H, c0, h0, d
  <2>15. Fits(r1, d0, n, {})
    <3>1. /\ r1.disk.inode = d.inode /\ r1.disk.used = d.used /\ r1.disk.freeInodes = d.freeInodes
          /\ \A x \in H : r1.disk.block[x] = d.block[x]
          /\ {} \subseteq DataRegion /\ {} \cap H = {} /\ H \cup {} \subseteq r1.disk.bitmap
      BY <2>4, <2>6, <2>9
    <3>2. /\ DataBlocks <= r1.disk.freeBlocks + Cardinality(r1.disk.bitmap)
          /\ r1.disk.freeBlocks + Cardinality(H \cup {}) <= DataBlocks
      <4>1. r1.disk.freeBlocks = d.freeBlocks /\ Cardinality(r1.disk.bitmap) = c0 + 1
        BY <2>3, <2>6, <2>9
      <4>2. DataBlocks <= d.freeBlocks + (c0 + 1) /\ d.freeBlocks + h0 <= DataBlocks
        BY <2>3, <2>4, Constants
      <4>3. QED
        BY <2>5, <4>1, <4>2
    <3>3. QED
      BY <1>0, <2>9, <3>1, <3>2, Settle DEF H, d
  <2>16. Fits(r2, d0, n, {})
    <3>1. /\ r2.disk.inode = d.inode /\ r2.disk.used = d.used /\ r2.disk.freeInodes = d.freeInodes
          /\ \A x \in H : r2.disk.block[x] = d.block[x]
          /\ {} \subseteq DataRegion /\ {} \cap H = {} /\ H \cup {} \subseteq r2.disk.bitmap
      BY <2>3, <2>4, <2>7, <2>10, <2>14
    <3>2. /\ DataBlocks <= r2.disk.freeBlocks + Cardinality(r2.disk.bitmap)
          /\ r2.disk.freeBlocks + Cardinality(H \cup {}) <= DataBlocks
      <4>1. r2.disk.freeBlocks = d.freeBlocks /\ Cardinality(r2.disk.bitmap) = c0 + 1
        BY <2>3, <2>7, <2>10
      <4>2. DataBlocks <= d.freeBlocks + (c0 + 1) /\ d.freeBlocks + h0 <= DataBlocks
        BY <2>3, <2>4, Constants
      <4>3. QED
        BY <2>5, <4>1, <4>2
    <3>3. QED
      <4>1. r2 \in Runs /\ r2.inode = r.inode /\ Fits(r, d0, n, {})
        BY <1>0, <2>10
      <4> HIDE DEF r2
      <4>2. QED
        BY <4>1, <3>1, <3>2, Settle DEF H, d
  <2>17. /\ Fits(r4, d0, n, {b}) /\ Held(r4.disk, Seen(r4, n)) = H
         /\ SameSlots(r, r4)
    <3>1. /\ r4.disk.inode = d.inode /\ r4.disk.used = d.used /\ r4.disk.freeInodes = d.freeInodes
          /\ \A x \in H : r4.disk.block[x] = d.block[x]
          /\ {b} \subseteq DataRegion /\ {b} \cap H = {} /\ H \cup {b} \subseteq r4.disk.bitmap
      BY <2>1, <2>3, <2>4, <2>7, <2>8, <2>12, <2>14
    <3>2. /\ DataBlocks <= r4.disk.freeBlocks + Cardinality(r4.disk.bitmap)
          /\ r4.disk.freeBlocks + Cardinality(H \cup {b}) <= DataBlocks
      <4>1. r4.disk.freeBlocks = d.freeBlocks - 1 /\ Cardinality(r4.disk.bitmap) = c0 + 1
        BY <2>3, <2>8, <2>12
      <4>2. /\ DataBlocks <= d.freeBlocks - 1 + (c0 + 1)
            /\ d.freeBlocks - 1 + (h0 + 1) <= DataBlocks
        BY <2>3, <2>4, Constants
      <4>3. QED
        BY <2>3, <4>1, <4>2
    <3>3. QED
      <4>1. r4 \in Runs /\ r4.inode = r.inode /\ Fits(r, d0, n, {})
        BY <1>0, <2>12
      <4> HIDE DEF r4
      <4>2. QED
        BY <4>1, <3>1, <3>2, Settle DEF H, d
  <2>18. Fine(d1, d0, n) /\ Fine(d2, d0, n) /\ Fine(d3, d0, n)
    BY <2>9, <2>10, <2>12, <2>15, <2>16, <2>17, FitsFine
  <2>19. Pending(r4) = {b}
    BY <2>12 DEF Pending
  <2>20. Growing(r4, d0, n, {b})
    BY <1>0, <2>12, <2>17, <2>18 DEF Growing
  <2>21. Exact(r, n, {}) => Exact(r4, n, {b})
    BY <2>8, <2>12, <2>17 DEF Exact, H, d
  <2>22. r4.out \in DataRegion /\ r4.disk.block[r4.out] = ZeroData
    BY <2>1, <2>7, <2>8, <2>12
  <2>23. QED
    BY <2>12, <2>13, <2>17, <2>19, <2>20, <2>21, <2>22 DEF Allocated, H
<1>3. QED
  BY <1>1, <1>2

\* The same of a block of pointers, which starts empty.
LEMMA AllocatePtrs ==
    ASSUME NEW r, NEW d0, NEW n \in Inode, Growing(r, d0, n, {}), r.ok
    PROVE  Allocated(r, AllocatePointers(r), d0, n, NoPointers)
<1> DEFINE r1 == AllocateBlock(r)
           d2 == [r1.disk EXCEPT !.block[r1.out] = NoPointers]
           r2 == Write(r1, d2)
           H == Held(r1.disk, Seen(r1, n))
<1>1. Allocated(r, r1, d0, n, ZeroData)
  BY Allocate
<1>2. AllocatePointers(r) = r2
  BY DEF AllocatePointers, InitPointers, Fill
<1> HIDE DEF r1
<1>3. /\ r1 \in Runs /\ r1.disk \in Disk /\ Fits(r1, d0, n, Pending(r1))
      /\ \A x \in r1.trail : Fine(x, d0, n)
  BY <1>1 DEF Allocated, Growing, Fits, Runs
<1>4. CASE ~ r1.ok
  <2>1. r2 = r1
    BY <1>3, <1>4, Written
  <2>2. QED
    BY <1>1, <1>2, <1>4, <2>1 DEF Allocated
<1>5. CASE r1.ok
  <2>1. r1.out \in DataRegion /\ Pending(r1) = {r1.out}
    BY <1>1, <1>5 DEF Allocated, Pending
  <2>2. /\ {r1.out} \cap H = {} /\ H \cup {r1.out} \subseteq r1.disk.bitmap
        /\ DataBlocks <= r1.disk.freeBlocks + Cardinality(r1.disk.bitmap)
        /\ r1.disk.freeBlocks + Cardinality(H \cup {r1.out}) <= DataBlocks
    BY <1>3, <2>1 DEF Fits, Sound
  <2>3. /\ d2 \in Disk /\ d2.inode = r1.disk.inode /\ d2.used = r1.disk.used
        /\ d2.freeInodes = r1.disk.freeInodes /\ d2.bitmap = r1.disk.bitmap
        /\ d2.freeBlocks = r1.disk.freeBlocks /\ d2.block[r1.out] = NoPointers
        /\ \A x \in DataRegion \ {r1.out} : d2.block[x] = r1.disk.block[x]
    <3>1. NoPointers \in PtrBlock
      BY DEF NoPointers, PtrBlock, Entry, Ptr
    <3>2. QED
      BY <1>3, <2>1, <3>1 DEF Disk
  <2> HIDE DEF d2
  <2>4. /\ r2 \in Runs /\ r2.disk = d2 /\ r2.inode = r1.inode /\ r2.ok = TRUE /\ r2.out = r1.out
        /\ r2.trail = r1.trail \cup {d2}
    BY <1>3, <1>5, <2>3, Written
  <2> HIDE DEF r2
  <2>5. H \subseteq DataRegion
    BY DEF Held
  <2> HIDE DEF H
  <2>6. /\ Fits(r2, d0, n, {r1.out}) /\ Held(r2.disk, Seen(r2, n)) = H /\ SameSlots(r1, r2)
    <3>1. /\ r2.disk.inode = r1.disk.inode /\ r2.disk.used = r1.disk.used
          /\ r2.disk.freeInodes = r1.disk.freeInodes
          /\ \A x \in H : r2.disk.block[x] = r1.disk.block[x]
          /\ {r1.out} \subseteq DataRegion
      BY <2>1, <2>2, <2>3, <2>4, <2>5
    <3>2. /\ H \cup {r1.out} \subseteq r2.disk.bitmap
          /\ DataBlocks <= r2.disk.freeBlocks + Cardinality(r2.disk.bitmap)
          /\ r2.disk.freeBlocks + Cardinality(H \cup {r1.out}) <= DataBlocks
      BY <2>2, <2>3, <2>4
    <3>3. QED
      BY <1>3, <2>2, <2>4, <3>1, <3>2, Settle DEF H
  <2>7. Fine(d2, d0, n)
    BY <2>4, <2>6, FitsFine
  <2>8. Growing(r2, d0, n, Pending(r2))
    BY <1>3, <2>4, <2>6, <2>7 DEF Growing, Pending
  <2>9. Exact(r, n, {}) => Exact(r2, n, Pending(r2))
    BY <1>1, <2>1, <2>3, <2>4, <2>6 DEF Exact, Pending, Allocated, H
  <2>10. SameSlots(r, r2) /\ r2.inode = r.inode /\ Held(r2.disk, Seen(r2, n)) = Held(r.disk, Seen(r, n))
    BY <1>1, <2>4, <2>6 DEF Allocated, SameSlots, H
  <2>11. QED
    BY <1>2, <2>1, <2>3, <2>4, <2>8, <2>9, <2>10 DEF Allocated
<1>6. QED
  BY <1>4, <1>5

\* The block allocated goes into slot s0.
Placed(r, r2, d0, n, s0) ==
    /\ Growing(r2, d0, n, {}) /\ r2.ok
    /\ Exact(r, n, {r.out}) => Exact(r2, n, {})
    /\ \A s \in Slot : Now(r2, s) = IF s = s0 THEN r.out ELSE Now(r, s)

\* Only pointer blocks of the inode are written.
Touches(r, r2) ==
    \A x \in DataRegion : (\A q \in PtrSlot : Now(r, q) # x) => r2.disk.block[x] = r.disk.block[x]

\* What the other inodes keep of it.
LEMMA OthersKeep ==
    ASSUME NEW r \in Runs, NEW r2 \in Runs, NEW n \in Inode, Forest(r.disk, Seen(r, n)),
           Touches(r, r2), NEW m \in Inode \ {n}
    PROVE  /\ Tree(r2.disk, Seen(r, n)[m])
           /\ \A s \in Slot : At(r2.disk, Seen(r, n)[m], s) = At(r.disk, Seen(r, n)[m], s)
           /\ \A s \in Slot : At(r.disk, Seen(r, n)[m], s) # NoBlock =>
                 r2.disk.block[At(r.disk, Seen(r, n)[m], s)] = r.disk.block[At(r.disk, Seen(r, n)[m], s)]
<1> DEFINE F == Seen(r, n)
           I == F[m]
<1>1. F[n] = r.inode
  BY Views DEF Runs
<1>2. /\ \A l \in Inode : Tree(r.disk, F[l]) /\ F[l] \in InodeRec
      /\ \A l \in Inode : \A s \in Slot : At(r.disk, F[l], s) # NoBlock => At(r.disk, F[l], s) \in DataRegion
  BY HeldIs DEF Forest
<1>3. ASSUME NEW s \in Slot, At(r.disk, I, s) # NoBlock
      PROVE  r2.disk.block[At(r.disk, I, s)] = r.disk.block[At(r.disk, I, s)]
  <2>1. ASSUME NEW q \in PtrSlot PROVE Now(r, q) # At(r.disk, I, s)
    <3>1. q \in Slot
      BY Slots
    <3>2. \A u, v \in Inode : \A x, y \in Slot :
             At(r.disk, F[u], x) = At(r.disk, F[v], y) /\ At(r.disk, F[u], x) # NoBlock => u = v /\ x = y
      BY DEF Forest, Apart
    <3>3. Now(r, q) = At(r.disk, F[n], q)
      BY <1>1 DEF Now
    <3> HIDE DEF F
    <3>4. QED
      BY <1>3, <3>1, <3>2, <3>3
  <2>2. At(r.disk, I, s) \in DataRegion
    BY <1>2, <1>3
  <2>3. QED
    BY <2>1, <2>2 DEF Touches
<1>4. \A s \in PtrSlot : At(r.disk, I, s) # NoBlock =>
         r2.disk.block[At(r.disk, I, s)] = r.disk.block[At(r.disk, I, s)]
  BY <1>3, Slots
<1>5. I \in InodeRec /\ Tree(r.disk, I)
  BY <1>2
<1> HIDE DEF I
<1>6. Tree(r2.disk, I) /\ \A s \in Slot : At(r2.disk, I, s) = At(r.disk, I, s)
  BY <1>4, <1>5, SameTree
<1>7. QED
  BY <1>3, <1>6 DEF I

\* The books are those of r.
SameBooks(r, r2) ==
    /\ r2.disk.inode = r.disk.inode /\ r2.disk.used = r.disk.used
    /\ r2.disk.freeInodes = r.disk.freeInodes
    /\ r2.disk.bitmap = r.disk.bitmap /\ r2.disk.freeBlocks = r.disk.freeBlocks

\* A pointer to the block just taken, put into an empty slot, ends the allocation.
LEMMA Place ==
    ASSUME NEW r, NEW r2 \in Runs, NEW d0, NEW n \in Inode, NEW s0 \in Slot,
           Growing(r, d0, n, {r.out}), r.ok, r2.ok, r.out \in DataRegion, SameBooks(r, r2),
           Alike(r2.inode, r.inode), Below(r.disk.inode[n], r2.inode), Now(r, s0) = NoBlock,
           Touches(r, r2), Tree(r2.disk, r2.inode), r2.trail \subseteq r.trail \cup {r2.disk},
           \A s \in Slot : Now(r2, s) = IF s = s0 THEN r.out ELSE Now(r, s),
           s0 \in DataSlot => r.disk.block[r.out] = ZeroData
    PROVE  Placed(r, r2, d0, n, s0)
<1> DEFINE F == Seen(r, n)
           G == Seen(r2, n)
           b == r.out
           H == Held(r.disk, F)
<1>1. /\ r \in Runs /\ r.disk \in Disk /\ Forest(r.disk, F) /\ Contents(r.disk, F)
      /\ {b} \cap H = {} /\ H \cup {b} \subseteq r.disk.bitmap
      /\ DataBlocks <= r.disk.freeBlocks + Cardinality(r.disk.bitmap)
      /\ r.disk.freeBlocks + Cardinality(H \cup {b}) <= DataBlocks
      /\ Kept(r.disk, d0, n) /\ Others(r.disk, d0, n) /\ Alike(r.inode, d0.inode[n])
      /\ \A x \in r.trail : Fine(x, d0, n)
  BY DEF Growing, Fits, Sound, Runs
<1>2. /\ F[n] = r.inode /\ F \in [Inode -> InodeRec] /\ r2.inode \in InodeRec
      /\ r.inode \in InodeRec /\ r2.disk \in Disk
  BY <1>1, Views DEF Runs
<1>3. G = [F EXCEPT ![n] = r2.inode]
  BY DEF SameBooks, Seen
<1>4. /\ G[n] = r2.inode /\ \A m \in Inode \ {n} : G[m] = F[m]
      /\ Becomes(F, G, n, r2.inode)
  BY <1>2, <1>3 DEF Becomes
<1> HIDE DEF F, G
<1>5. ASSUME NEW m \in Inode \ {n}
      PROVE  /\ Tree(r2.disk, F[m])
             /\ \A s \in Slot : At(r2.disk, F[m], s) = At(r.disk, F[m], s)
             /\ \A s \in Slot : At(r.disk, F[m], s) # NoBlock =>
                   r2.disk.block[At(r.disk, F[m], s)] = r.disk.block[At(r.disk, F[m], s)]
  BY <1>1, OthersKeep DEF F
<1>6. /\ \A s \in Slot : At(r2.disk, r2.inode, s) = IF s = s0 THEN b ELSE At(r.disk, F[n], s)
      /\ At(r.disk, F[n], s0) = NoBlock
  BY <1>2 DEF Now
<1>7. Forest(r2.disk, G) /\ Held(r2.disk, G) = H \cup {b}
  <2>1. Rest(r.disk, r2.disk, F, n) /\ Takes(r.disk, r2.disk, F[n], r2.inode, s0, b)
    BY <1>5, <1>6 DEF Rest, Takes
  <2>2. b \notin Held(r.disk, F)
    BY <1>1
  <2>3. /\ r.out \in DataRegion /\ Forest(r.disk, F) /\ Tree(r2.disk, r2.inode)
        /\ At(r.disk, F[n], s0) = NoBlock /\ r2.inode \in InodeRec
    BY <1>1, <1>2, <1>6
  <2>4. Forest(r2.disk, G) /\ Held(r2.disk, G) = Held(r.disk, F) \cup {b}
    BY <1>4, <2>1, <2>2, <2>3, Take
  <2>5. QED
    BY <2>4
<1>8. Contents(r2.disk, G)
  <2> SUFFICES ASSUME NEW m \in Inode, NEW s \in DataSlot PROVE Holds(r2.disk, G[m], s)
    BY DEF Contents
  <2>1. s \in Slot /\ s \notin PtrSlot /\ Holds(r.disk, F[m], s)
    BY <1>1, Slots DEF Contents
  <2>2. CASE m # n
    <3>1. G[m] = F[m] /\ At(r2.disk, F[m], s) = At(r.disk, F[m], s)
      BY <1>4, <1>5, <2>1, <2>2
    <3>2. At(r.disk, F[m], s) # NoBlock =>
             r2.disk.block[At(r.disk, F[m], s)] = r.disk.block[At(r.disk, F[m], s)]
      BY <1>5, <2>1, <2>2
    <3>3. QED
      BY <2>1, <3>1, <3>2 DEF Holds
  <2>3. CASE m = n
    <3>1. \A u, v \in Inode : \A x, y \in Slot :
             At(r.disk, F[u], x) = At(r.disk, F[v], y) /\ At(r.disk, F[u], x) # NoBlock => u = v /\ x = y
      BY <1>1 DEF Forest, Apart
    <3>2. ASSUME NEW x \in DataRegion, x = b \/ x = At(r.disk, F[n], s)
          PROVE  r2.disk.block[x] = r.disk.block[x]
      <4>1. ASSUME NEW q \in PtrSlot PROVE Now(r, q) # x
        <5>1. q \in Slot /\ q # s /\ Now(r, q) = At(r.disk, F[n], q) /\ x # NoBlock
          BY <1>2, <2>1, Slots, Constants DEF Now
        <5>2. At(r.disk, F[n], q) # b
          <6>1. At(r.disk, F[n], q) # NoBlock => At(r.disk, F[n], q) \in H
            BY <1>1, <5>1, HeldIs
          <6>2. QED
            BY <1>1, <6>1, Constants
        <5>3. QED
          BY <3>1, <3>2, <5>1, <5>2, <2>1
      <4>2. QED
        BY <4>1 DEF Touches
    <3>3. CASE s = s0
      <4>1. At(r2.disk, G[n], s) = b /\ r2.disk.block[b] = ZeroData
        BY <1>4, <1>6, <3>2, <3>3
      <4>2. ZeroData \in DataBlock
        BY DEF ZeroData, DataBlock
      <4>3. QED
        BY <2>3, <4>1, <4>2 DEF Holds
    <3>4. CASE s # s0
      <4>1. At(r2.disk, G[n], s) = At(r.disk, F[n], s)
        BY <1>4, <1>6, <2>1, <3>4
      <4>2. At(r.disk, F[n], s) # NoBlock => At(r.disk, F[n], s) \in DataRegion
        BY <1>1, <2>1, HeldIs
      <4>3. G[n].size = F[n].size
        BY <1>2, <1>4 DEF Alike
      <4>4. QED
        BY <2>1, <2>3, <3>2, <4>1, <4>2, <4>3 DEF Holds
    <3>5. QED
      BY <3>3, <3>4
  <2>4. QED
    BY <2>2, <2>3
<1>9. Sound(r2.disk, G, {})
  <2>1. Held(r2.disk, G) \cup {} = H \cup {b}
    BY <1>7
  <2>2. r2.disk.bitmap = r.disk.bitmap /\ r2.disk.freeBlocks = r.disk.freeBlocks
    BY DEF SameBooks
  <2> HIDE DEF H, b
  <2>3. QED
    BY <1>1, <1>7, <1>8, <2>1, <2>2 DEF Sound
<1>10. Kept(r2.disk, d0, n) /\ Alike(r2.inode, d0.inode[n]) /\ Below(r2.disk.inode[n], r2.inode)
  BY <1>1, <1>2 DEF Kept, SameBooks, Alike
<1>11. Others(r2.disk, d0, n)
  <2> SUFFICES ASSUME NEW m \in Inode \ {n}, NEW s \in Slot
               PROVE  At(r2.disk, d0.inode[m], s) = At(d0, d0.inode[m], s)
    BY DEF Others
  <2>1. F[m] = d0.inode[m]
    <3>1. F[m] = r.disk.inode[m]
      BY <1>1, Views DEF Runs, F
    <3>2. QED
      BY <1>1, <3>1 DEF Kept
  <2>2. QED
    BY <1>1, <1>5, <2>1 DEF Others
<1>12. Fits(r2, d0, n, {})
  BY <1>9, <1>10, <1>11 DEF Fits, G
<1>13. Growing(r2, d0, n, {})
  <2>1. Fine(r2.disk, d0, n)
    BY <1>12, FitsFine
  <2>2. QED
    BY <1>1, <1>12, <2>1 DEF Growing
<1>14. Exact(r, n, {b}) => Exact(r2, n, {})
  BY <1>7 DEF Exact, SameBooks, F, G
<1>15. QED
  BY <1>13, <1>14 DEF Placed

\* What a growing call has at hand.
LEMMA GrowingIs ==
    ASSUME NEW r, NEW d0, NEW n \in Inode, NEW B, Growing(r, d0, n, B)
    PROVE  /\ r \in Runs /\ r.disk \in Disk /\ r.inode \in InodeRec
           /\ Tree(r.disk, r.inode) /\ Own(r.disk, r.inode)
           /\ \A s \in Slot : Now(r, s) \in Ptr
           /\ \A b \in B : \A s \in Slot : Now(r, s) # b
           /\ Below(r.disk.inode[n], r.inode)
           /\ \A x \in r.trail : Fine(x, d0, n)
<1> DEFINE F == Seen(r, n)
<1>1. r \in Runs /\ r.disk \in Disk /\ r.inode \in InodeRec /\ F[n] = r.inode
  BY Views DEF Growing, Fits, Runs
<1>2. /\ Forest(r.disk, F) /\ B \cap Held(r.disk, F) = {} /\ B \subseteq DataRegion
  BY DEF Growing, Fits, Sound
<1> HIDE DEF F
<1>3. Tree(r.disk, r.inode) /\ Own(r.disk, r.inode) /\ \A s \in Slot : Now(r, s) \in Ptr
  BY <1>1, <1>2, HeldIs DEF Forest, Now
<1>4. ASSUME NEW b \in B, NEW s \in Slot PROVE Now(r, s) # b
  <2>1. b \in DataRegion /\ b \notin Held(r.disk, F) /\ Now(r, s) = At(r.disk, F[n], s)
    BY <1>1, <1>2 DEF Now
  <2>2. QED
    BY <2>1 DEF Held
<1>5. QED
  BY <1>1, <1>3, <1>4 DEF Growing, Fits

\* A direct pointer to the block just taken.
LEMMA PutDirect ==
    ASSUME NEW r, NEW d0, NEW n \in Inode, Growing(r, d0, n, {r.out}), r.ok, r.out \in DataRegion,
           r.disk.block[r.out] = ZeroData, NEW i \in Direct, r.inode.direct[i] = NoBlock
    PROVE  Placed(r, SetDirect(r, i), d0, n, <<"direct", 0, i>>)
<1> DEFINE r2 == [r EXCEPT !.inode.direct[i] = r.out]
           J == [r.inode EXCEPT !.direct[i] = r.out]
           s0 == <<"direct", 0, i>>
<1>1. /\ r \in Runs /\ r.disk \in Disk /\ r.inode \in InodeRec /\ Tree(r.disk, r.inode)
      /\ Below(r.disk.inode[n], r.inode)
  BY GrowingIs
<1>2. SetDirect(r, i) = r2
  BY DEF SetDirect
<1>3. r.out \in Ptr
  BY DEF Ptr
<1>4. /\ J \in InodeRec /\ Tree(r.disk, J)
      /\ \A s \in Slot : At(r.disk, J, s) = IF s = s0 THEN r.out ELSE At(r.disk, r.inode, s)
  BY <1>1, <1>3, TakeDirect
<1>5. Alike(J, r.inode) /\ Below(r.disk.inode[n], J)
  BY <1>1 DEF Below, Alike, InodeRec
<1>6. s0 \in Slot /\ Now(r, s0) = NoBlock
  BY Slots DEF Now, At
<1> HIDE DEF J, s0
<1>7. /\ r2 \in Runs /\ r2.inode = J /\ r2.disk = r.disk /\ r2.ok = r.ok /\ r2.trail = r.trail
  BY <1>1, <1>4 DEF Runs, J
<1> HIDE DEF r2
<1>8. /\ SameBooks(r, r2) /\ Touches(r, r2) /\ r2.trail \subseteq r.trail \cup {r2.disk}
  BY <1>7 DEF SameBooks, Touches
<1>9. \A s \in Slot : Now(r2, s) = IF s = s0 THEN r.out ELSE Now(r, s)
  BY <1>4, <1>7 DEF Now
<1>10. Placed(r, r2, d0, n, s0)
  BY <1>4, <1>5, <1>6, <1>7, <1>8, <1>9, Place
<1>11. QED
  BY <1>2, <1>10 DEF s0

\* A pointer from the inode to a pointer block just taken.
LEMMA PutRoot ==
    ASSUME NEW r, NEW d0, NEW n \in Inode, Growing(r, d0, n, {r.out}), r.ok, r.out \in DataRegion,
           r.disk.block[r.out] = NoPointers, NEW level \in {"single", "double"},
           r.inode[level] = NoBlock
    PROVE  Placed(r, SetRoot(r, level), d0, n, <<level, 0, 0>>)
<1> DEFINE r2 == [r EXCEPT !.inode[level] = r.out]
           J == [r.inode EXCEPT ![level] = r.out]
           s0 == <<level, 0, 0>>
<1>1. /\ r \in Runs /\ r.disk \in Disk /\ r.inode \in InodeRec /\ Tree(r.disk, r.inode)
      /\ Below(r.disk.inode[n], r.inode)
  BY GrowingIs
<1>2. SetRoot(r, level) = r2
  BY DEF SetRoot
<1>4. /\ J \in InodeRec /\ Tree(r.disk, J)
      /\ \A s \in Slot : At(r.disk, J, s) = IF s = s0 THEN r.out ELSE At(r.disk, r.inode, s)
  <2>1. RootTaken(r.disk, r.inode, J, level, r.out)
    BY <1>1, TakeRoot
  <2> HIDE DEF J
  <2>2. QED
    BY <2>1 DEF RootTaken, s0
<1>5. Alike(J, r.inode) /\ Below(r.disk.inode[n], J)
  <2>1. CASE level = "single"
    BY <1>1, <2>1 DEF Below, Alike, InodeRec
  <2>2. CASE level = "double"
    BY <1>1, <2>2 DEF Below, Alike, InodeRec
  <2>3. QED
    BY <2>1, <2>2
<1>6. s0 \in Slot /\ s0 \notin DataSlot /\ Now(r, s0) = NoBlock
  BY Slots DEF Now, At
<1> HIDE DEF J, s0
<1>7. /\ r2 \in Runs /\ r2.inode = J /\ r2.disk = r.disk /\ r2.ok = r.ok /\ r2.trail = r.trail
  BY <1>1, <1>4 DEF Runs, J
<1> HIDE DEF r2
<1>8. /\ SameBooks(r, r2) /\ Touches(r, r2) /\ r2.trail \subseteq r.trail \cup {r2.disk}
  BY <1>7 DEF SameBooks, Touches
<1>9. \A s \in Slot : Now(r2, s) = IF s = s0 THEN r.out ELSE Now(r, s)
  BY <1>4, <1>7 DEF Now
<1>10. Placed(r, r2, d0, n, s0)
  BY <1>4, <1>5, <1>6, <1>7, <1>8, <1>9, Place
<1>11. QED
  BY <1>2, <1>10 DEF s0

\* An entry of a pointer block, to the block just taken.
LEMMA PutEntry ==
    ASSUME NEW r, NEW d0, NEW n \in Inode, Growing(r, d0, n, {r.out}), r.ok, r.out \in DataRegion,
           NEW q \in PtrSlot, NEW i \in Entry, Now(r, q) # NoBlock, Now(r, Child(q, i)) = NoBlock,
           r.disk.block[r.out] = (IF q[1] = "double" THEN NoPointers ELSE ZeroData)
    PROVE  Placed(r, SetEntry(r, Now(r, q), i), d0, n, Child(q, i))
<1> DEFINE p == Now(r, q)
           d2 == [r.disk EXCEPT !.block[p][i] = r.out]
           r2 == Write(r, d2)
           s0 == Child(q, i)
<1>1. /\ r \in Runs /\ r.disk \in Disk /\ r.inode \in InodeRec /\ Tree(r.disk, r.inode)
      /\ Below(r.disk.inode[n], r.inode) /\ Own(r.disk, r.inode)
      /\ \A s \in Slot : Now(r, s) \in Ptr /\ Now(r, s) # r.out
  BY GrowingIs
<1>2. SetEntry(r, p, i) = r2
  BY DEF SetEntry
<1>3. q \in Slot /\ p \in DataRegion /\ r.disk.block[p] \in PtrBlock
  BY <1>1, Slots DEF Tree, Now, Ptr
<1>4. /\ s0 \in Slot
      /\ q[1] = "double" => Now(r, <<"level 1", 0, i>>) = NoBlock
      /\ s0 \in DataSlot => q[1] # "double"
  <2>1. q[1] = "double" => s0 = <<"level 1", 0, i>> /\ s0 \notin DataSlot
    BY Slots DEF Child
  <2>2. s0 \in Slot
    BY <1>3, ChildIs
  <2>3. QED
    BY <2>1, <2>2
<1> HIDE DEF p, s0
<1>5. /\ d2 \in Disk
      /\ d2.inode = r.disk.inode /\ d2.used = r.disk.used
      /\ d2.freeInodes = r.disk.freeInodes /\ d2.bitmap = r.disk.bitmap
      /\ d2.freeBlocks = r.disk.freeBlocks
      /\ d2.block[p] = [r.disk.block[p] EXCEPT ![i] = r.out]
      /\ \A x \in DataRegion \ {p} : d2.block[x] = r.disk.block[x]
  <2>1. [r.disk.block[p] EXCEPT ![i] = r.out] \in PtrBlock
    BY <1>3 DEF PtrBlock, Ptr
  <2>2. QED
    BY <1>1, <1>3, <2>1 DEF Disk
<1> HIDE DEF d2
<1>6. /\ r2 \in Runs /\ r2.disk = d2 /\ r2.inode = r.inode /\ r2.ok = TRUE
      /\ r2.trail = r.trail \cup {d2}
  BY <1>1, <1>5, Written
<1> HIDE DEF r2
<1>7. /\ Tree(d2, r.inode)
      /\ \A s \in Slot : At(d2, r.inode, s) = IF s = s0 THEN r.out ELSE At(r.disk, r.inode, s)
  <2>1. /\ \A s \in Slot : At(r.disk, r.inode, s) # r.out
        /\ At(r.disk, r.inode, q) # NoBlock /\ At(r.disk, r.inode, q) = p
        /\ q[1] = "double" => At(r.disk, r.inode, <<"level 1", 0, i>>) = NoBlock
                              /\ r.disk.block[r.out] = NoPointers
    BY <1>1, <1>4 DEF Now, p
  <2>2. /\ d2.block[At(r.disk, r.inode, q)] = [r.disk.block[At(r.disk, r.inode, q)] EXCEPT ![i] = r.out]
        /\ \A x \in DataRegion \ {At(r.disk, r.inode, q)} : d2.block[x] = r.disk.block[x]
    BY <1>5, <2>1
  <2>3. /\ Tree(d2, r.inode)
        /\ Takes(r.disk, d2, r.inode, r.inode, Child(q, i), r.out)
    BY <1>1, <2>1, <2>2, TakeEntry
  <2>4. QED
    BY <2>3 DEF Takes, s0
<1>8. SameBooks(r, r2) /\ r2.trail \subseteq r.trail \cup {r2.disk}
  BY <1>5, <1>6 DEF SameBooks
<1>9. Touches(r, r2)
  BY <1>5, <1>6 DEF Touches, p
<1>10. \A s \in Slot : Now(r2, s) = IF s = s0 THEN r.out ELSE Now(r, s)
  BY <1>6, <1>7 DEF Now
<1>11. /\ Alike(r2.inode, r.inode) /\ Below(r.disk.inode[n], r2.inode) /\ Now(r, s0) = NoBlock
       /\ Tree(r2.disk, r2.inode) /\ r2.ok
       /\ s0 \in DataSlot => r.disk.block[r.out] = ZeroData
  BY <1>1, <1>4, <1>6, <1>7 DEF Alike, s0
<1>12. Placed(r, r2, d0, n, s0)
  BY <1>4, <1>6, <1>8, <1>9, <1>10, <1>11, Place
<1>13. QED
  BY <1>2, <1>12 DEF s0, p
----------------------------------------------------------------------------
(* Ensuring that a slot has a block. *)

Ensured(r, r2, d0, n, s0) ==
    /\ Growing(r2, d0, n, {})
    /\ \A s \in Slot : Now(r, s) # NoBlock \/ s # s0 => Now(r2, s) = Now(r, s)
    /\ r2.ok => r.ok /\ Now(r2, s0) # NoBlock
    /\ Exact(r, n, {}) => Exact(r2, n, {})

\* An entry of a pointer block is what the block holds there.
LEMMA AtChild ==
    ASSUME NEW d, NEW I, NEW q \in PtrSlot, NEW i
    PROVE  At(d, I, Child(q, i)) = Ent(d, At(d, I, q), i)
<1>1. q[1] \in {"single", "double", "level 1"}
  BY DEF PtrSlot
<1>2. CASE q[1] = "single"
  <2>1. Child(q, i) = <<"by single", 0, i>>
    BY <1>2 DEF Child
  <2>2. At(d, I, <<"by single", 0, i>>) = Ent(d, I.single, i)
    BY DEF At
  <2>3. At(d, I, q) = I.single
    BY <1>2 DEF At
  <2>4. QED
    BY <2>1, <2>2, <2>3
<1>3. CASE q[1] = "double"
  <2>1. Child(q, i) = <<"level 1", 0, i>>
    BY <1>3 DEF Child
  <2>2. At(d, I, <<"level 1", 0, i>>) = Ent(d, I.double, i)
    BY DEF At
  <2>3. At(d, I, q) = I.double
    BY <1>3 DEF At
  <2>4. QED
    BY <2>1, <2>2, <2>3
<1>4. CASE q[1] = "level 1"
  <2>1. Child(q, i) = <<"level 2", q[3], i>>
    BY <1>4 DEF Child
  <2>2. At(d, I, <<"level 2", q[3], i>>) = Ent(d, Ent(d, I.double, q[3]), i)
    BY DEF At
  <2>3. At(d, I, q) = Ent(d, I.double, q[3])
    BY <1>4 DEF At
  <2>4. QED
    BY <2>1, <2>2, <2>3
<1>5. QED
  BY <1>1, <1>2, <1>3, <1>4

\* Ensuring a block that is there does nothing.
LEMMA AlreadyThere ==
    ASSUME NEW r, NEW d0, NEW n \in Inode, NEW s0, Growing(r, d0, n, {}),
           r.ok => Now(r, s0) # NoBlock
    PROVE  Ensured(r, r, d0, n, s0)
BY DEF Ensured

\* Ensuring a block that is not there: taking one, then putting its pointer.
LEMMA NewlyThere ==
    ASSUME NEW r, NEW r1, NEW r2, NEW d0, NEW n \in Inode, NEW s0 \in Slot, NEW content,
           Allocated(r, r1, d0, n, content), r.ok, Now(r, s0) = NoBlock,
           ~ r1.ok => r2 = r1, r1.ok => Placed(r1, r2, d0, n, s0)
    PROVE  Ensured(r, r2, d0, n, s0)
<1>1. \A s \in Slot : Now(r1, s) = Now(r, s)
  BY DEF Allocated, SameSlots
<1>2. CASE ~ r1.ok
  BY <1>1, <1>2 DEF Allocated, Ensured, Pending
<1>3. CASE r1.ok
  <2>1. r1.out # NoBlock /\ Pending(r1) = {r1.out} /\ Placed(r1, r2, d0, n, s0)
    BY <1>3, Constants DEF Allocated, Pending
  <2>2. Exact(r, n, {}) => Exact(r2, n, {})
    BY <2>1 DEF Allocated, Placed
  <2>3. \A s \in Slot : Now(r2, s) = IF s = s0 THEN r1.out ELSE Now(r, s)
    BY <1>1, <2>1 DEF Placed
  <2>4. QED
    BY <2>1, <2>2, <2>3 DEF Placed, Ensured
<1>4. QED
  BY <1>2, <1>3

\* Ensuring a direct block.
LEMMA EnsuresDirect ==
    ASSUME NEW r, NEW d0, NEW n \in Inode, Growing(r, d0, n, {}), NEW i \in Direct
    PROVE  Ensured(r, EnsureDirect(r, i), d0, n, <<"direct", 0, i>>)
<1> DEFINE r1 == AllocateBlock(r)
           s0 == <<"direct", 0, i>>
<1>1. s0 \in Slot /\ Now(r, s0) = r.inode.direct[i]
  BY Slots DEF Now, At
<1>2. CASE ~ r.ok \/ r.inode.direct[i] # NoBlock
  <2>1. EnsureDirect(r, i) = r
    BY <1>2 DEF EnsureDirect
  <2>2. QED
    BY <1>1, <1>2, <2>1, AlreadyThere
<1>3. CASE r.ok /\ r.inode.direct[i] = NoBlock
  <2>1. EnsureDirect(r, i) = SetDirect(r1, i)
    BY <1>3 DEF EnsureDirect
  <2>2. Allocated(r, r1, d0, n, ZeroData)
    BY <1>3, Allocate
  <2> HIDE DEF r1, s0
  <2>3. ~ r1.ok => SetDirect(r1, i) = r1
    BY DEF SetDirect
  <2>4. r1.ok => Placed(r1, SetDirect(r1, i), d0, n, s0)
    <3> HAVE r1.ok
    <3>1. /\ Growing(r1, d0, n, {r1.out}) /\ r1.out \in DataRegion
          /\ r1.disk.block[r1.out] = ZeroData /\ r1.inode.direct[i] = NoBlock
      BY <1>3, <2>2 DEF Allocated, Pending
    <3>2. QED
      BY <3>1, PutDirect DEF s0
  <2>5. Ensured(r, SetDirect(r1, i), d0, n, s0)
    BY <1>1, <1>3, <2>2, <2>3, <2>4, NewlyThere
  <2>6. QED
    BY <2>1, <2>5 DEF s0
<1>4. QED
  BY <1>2, <1>3 DEF Growing, Fits, Runs

\* Ensuring the single- or the double-indirect pointer block.
LEMMA EnsuresRoot ==
    ASSUME NEW r, NEW d0, NEW n \in Inode, Growing(r, d0, n, {}), NEW level \in {"single", "double"}
    PROVE  Ensured(r, EnsureRoot(r, level), d0, n, <<level, 0, 0>>)
<1> DEFINE r1 == AllocatePointers(r)
           s0 == <<level, 0, 0>>
<1>1. s0 \in Slot /\ Now(r, s0) = r.inode[level]
  <2>1. CASE level = "single"
    BY <2>1, Slots DEF Now, At
  <2>2. CASE level = "double"
    BY <2>2, Slots DEF Now, At
  <2>3. QED
    BY <2>1, <2>2
<1>2. CASE ~ r.ok \/ r.inode[level] # NoBlock
  <2>1. EnsureRoot(r, level) = r
    BY <1>2 DEF EnsureRoot
  <2>2. QED
    BY <1>1, <1>2, <2>1, AlreadyThere
<1>3. CASE r.ok /\ r.inode[level] = NoBlock
  <2>1. EnsureRoot(r, level) = SetRoot(r1, level)
    BY <1>3 DEF EnsureRoot
  <2>2. Allocated(r, r1, d0, n, NoPointers)
    BY <1>3, AllocatePtrs
  <2> HIDE DEF r1, s0
  <2>3. ~ r1.ok => SetRoot(r1, level) = r1
    BY DEF SetRoot
  <2>4. r1.ok => Placed(r1, SetRoot(r1, level), d0, n, s0)
    <3> HAVE r1.ok
    <3>1. /\ Growing(r1, d0, n, {r1.out}) /\ r1.out \in DataRegion
          /\ r1.disk.block[r1.out] = NoPointers /\ r1.inode[level] = NoBlock
      BY <1>3, <2>2 DEF Allocated, Pending
    <3>2. QED
      BY <3>1, PutRoot DEF s0
  <2>5. Ensured(r, SetRoot(r1, level), d0, n, s0)
    BY <1>1, <1>3, <2>2, <2>3, <2>4, NewlyThere
  <2>6. QED
    BY <2>1, <2>5 DEF s0
<1>4. QED
  BY <1>2, <1>3 DEF Growing, Fits, Runs

\* A failed call sets no entry.
LEMMA FailedWrite ==
    ASSUME NEW r, NEW p, NEW i, ~ r.ok
    PROVE  SetEntry(r, p, i) = r
BY DEF SetEntry, Write

\* Ensuring the data block of an entry of a pointer block.
LEMMA EnsuresEntry ==
    ASSUME NEW r, NEW d0, NEW n \in Inode, Growing(r, d0, n, {}), NEW q \in PtrSlot, NEW i \in Entry,
           q[1] # "double", r.ok => Now(r, q) # NoBlock
    PROVE  Ensured(r, EnsureEntry(r, Now(r, q), i), d0, n, Child(q, i))
<1> DEFINE r1 == AllocateBlock(r)
           s0 == Child(q, i)
           p == Now(r, q)
<1>1. /\ q \in Slot /\ s0 \in Slot
      /\ r.ok => Now(r, s0) = r.disk.block[p][i]
  <2>1. q \in Slot
    BY Slots
  <2>2. s0 \in Slot
    BY <2>1, ChildIs
  <2>3. Now(r, s0) = Ent(r.disk, p, i)
    BY AtChild DEF Now
  <2>4. QED
    BY <2>1, <2>2, <2>3 DEF Ent
<1>2. CASE ~ r.ok \/ r.disk.block[p][i] # NoBlock
  <2>1. EnsureEntry(r, p, i) = r
    BY <1>2 DEF EnsureEntry
  <2>2. QED
    BY <1>1, <1>2, <2>1, AlreadyThere
<1>3. CASE r.ok /\ r.disk.block[p][i] = NoBlock
  <2>1. EnsureEntry(r, p, i) = SetEntry(r1, p, i)
    BY <1>3 DEF EnsureEntry
  <2>2. Allocated(r, r1, d0, n, ZeroData)
    BY <1>3, Allocate
  <2>3. Now(r1, q) = p /\ Now(r1, s0) = NoBlock /\ p # NoBlock
    BY <1>1, <1>3, <2>2 DEF Allocated, SameSlots
  <2> HIDE DEF r1, s0, p
  <2>4. ~ r1.ok => SetEntry(r1, p, i) = r1
    BY FailedWrite
  <2>5. r1.ok => Placed(r1, SetEntry(r1, p, i), d0, n, s0)
    <3> HAVE r1.ok
    <3>1. /\ Growing(r1, d0, n, {r1.out}) /\ r1.out \in DataRegion
          /\ r1.disk.block[r1.out] = ZeroData
      BY <1>3, <2>2 DEF Allocated, Pending
    <3>2. QED
      BY <2>3, <3>1, PutEntry DEF s0
  <2>6. Ensured(r, SetEntry(r1, p, i), d0, n, s0)
    BY <1>1, <1>3, <2>2, <2>3, <2>4, <2>5, NewlyThere
  <2>7. QED
    BY <2>1, <2>6 DEF s0, p
<1>4. QED
  BY <1>2, <1>3 DEF Growing, Fits, Runs

\* Ensuring a pointer block of the double-indirect tree.
LEMMA EnsuresLevel1 ==
    ASSUME NEW r, NEW d0, NEW n \in Inode, Growing(r, d0, n, {}), NEW i \in Entry,
           r.ok => r.inode.double # NoBlock
    PROVE  Ensured(r, EnsureLevel1(r, i), d0, n, <<"level 1", 0, i>>)
<1> DEFINE r1 == AllocatePointers(r)
           q == <<"double", 0, 0>>
           s0 == <<"level 1", 0, i>>
           p == r.inode.double
<1>1. /\ q \in PtrSlot /\ q \in Slot /\ q[1] = "double" /\ s0 \in Slot /\ s0 = Child(q, i)
      /\ Now(r, q) = p
      /\ r.ok => Now(r, s0) = r.disk.block[p][i]
  BY Slots DEF Now, At, Ent, Child
<1>2. CASE ~ r.ok \/ r.disk.block[p][i] # NoBlock
  <2>1. EnsureLevel1(r, i) = r
    BY <1>2 DEF EnsureLevel1
  <2>2. QED
    BY <1>1, <1>2, <2>1, AlreadyThere
<1>3. CASE r.ok /\ r.disk.block[p][i] = NoBlock
  <2>1. EnsureLevel1(r, i) = SetEntry(r1, p, i)
    BY <1>3 DEF EnsureLevel1
  <2>2. Allocated(r, r1, d0, n, NoPointers)
    BY <1>3, AllocatePtrs
  <2> HIDE DEF r1, s0, p, q
  <2>3. Now(r1, q) = p /\ Now(r1, s0) = NoBlock /\ p # NoBlock /\ Now(r, s0) = NoBlock
    BY <1>1, <1>3, <2>2 DEF Allocated, SameSlots, p
  <2>4. ~ r1.ok => SetEntry(r1, p, i) = r1
    BY FailedWrite
  <2>5. r1.ok => Placed(r1, SetEntry(r1, p, i), d0, n, s0)
    <3> HAVE r1.ok
    <3>1. /\ Growing(r1, d0, n, {r1.out}) /\ r1.out \in DataRegion
          /\ r1.disk.block[r1.out] = NoPointers
      BY <1>3, <2>2 DEF Allocated, Pending
    <3>2. QED
      BY <1>1, <2>3, <3>1, PutEntry
  <2>6. Ensured(r, SetEntry(r1, p, i), d0, n, s0)
    BY <1>1, <1>3, <2>2, <2>3, <2>4, <2>5, NewlyThere
  <2>7. QED
    BY <2>1, <2>6 DEF s0
<1>4. QED
  BY <1>2, <1>3 DEF Growing, Fits, Runs
----------------------------------------------------------------------------
(* The slot of a logical block. *)

\* Division with remainder.
LEMMA Euclid ==
    ASSUME NEW y \in Nat \ {0}
    PROVE  \A k \in Nat : \E q, j \in Nat : k = q * y + j /\ j < y
<1> DEFINE S == {k \in Nat : \E q, j \in Nat : k = q * y + j /\ j < y}
<1>1. 0 \in S
  <2>1. 0 = 0 * y + 0 /\ 0 < y
    OBVIOUS
  <2>2. QED
    BY <2>1
<1>2. ASSUME NEW k \in Nat, k \in S PROVE k + 1 \in S
  <2>1. PICK q, j \in Nat : k = q * y + j /\ j < y
    BY <1>2
  <2>2. CASE j + 1 < y
    <3>1. k + 1 = q * y + (j + 1) /\ j + 1 \in Nat
      BY <2>1
    <3>2. QED
      BY <2>2, <3>1
  <2>3. CASE ~ (j + 1 < y)
    <3>1. PICK p \in Nat : p = q + 1
      OBVIOUS
    <3>2. k + 1 = p * y + 0 /\ 0 < y
      BY <2>1, <2>3, <3>1
    <3>3. QED
      BY <3>2
  <2>4. QED
    BY <2>2, <2>3
<1> HIDE DEF S
<1>3. S \in SUBSET Nat
  BY DEF S
<1>4. S = Nat
  BY <1>1, <1>2, <1>3, Induction
<1>5. QED
  BY <1>4 DEF S

\* The quotient and the remainder of q * y + j, for j < y.
LEMMA Divides ==
    ASSUME NEW y \in Nat \ {0}, NEW q \in Nat, NEW j \in Nat, j < y
    PROVE  (q * y + j) \div y = q /\ (q * y + j) % y = j
OBVIOUS

Home(lb) ==
    IF lb < DirectBlocks THEN <<"direct", 0, lb>>
    ELSE IF lb - DirectBlocks < PtrsPerBlock THEN <<"by single", 0, lb - DirectBlocks>>
    ELSE <<"level 2", (lb - DirectBlocks - PtrsPerBlock) \div PtrsPerBlock,
                      (lb - DirectBlocks - PtrsPerBlock) % PtrsPerBlock>>

Coordinate(lb, a, c) ==
    a \in Entry /\ c \in Entry /\ lb = DirectBlocks + PtrsPerBlock + a * PtrsPerBlock + c

\* Where a block of the double-indirect tree is: which pointer block, which entry.
LEMMA Coordinates ==
    ASSUME NEW lb \in 0 .. MaxFileBlocks - 1, lb >= DirectBlocks + PtrsPerBlock,
           NEW a, a = (lb - DirectBlocks - PtrsPerBlock) \div PtrsPerBlock,
           NEW c, c = (lb - DirectBlocks - PtrsPerBlock) % PtrsPerBlock
    PROVE  Coordinate(lb, a, c)
<1>1. DirectBlocks \in Nat /\ PtrsPerBlock \in Nat \ {0} /\ lb \in Nat
  BY Constants
<1>2. PICK k \in Nat : k = lb - DirectBlocks - PtrsPerBlock
  BY <1>1
<1>3. PICK q, j \in Nat : k = q * PtrsPerBlock + j /\ j < PtrsPerBlock
  BY <1>1, Euclid
<1>4. k \div PtrsPerBlock = q /\ k % PtrsPerBlock = j
  BY <1>1, <1>3, Divides
<1>5. k < PtrsPerBlock * PtrsPerBlock
  BY <1>1, <1>2 DEF MaxFileBlocks
<1>6. q < PtrsPerBlock
  BY <1>1, <1>3, <1>5
<1>7. q \in Entry /\ j \in Entry
  BY <1>1, <1>3, <1>6 DEF Entry
<1>8. lb = DirectBlocks + PtrsPerBlock + q * PtrsPerBlock + j
  BY <1>1, <1>2, <1>3
<1>9. a = q /\ c = j
  BY <1>2, <1>4
<1>10. QED
  BY <1>7, <1>8, <1>9 DEF Coordinate

\* Every block number of a file has a slot, whose first block it is.
LEMMA Homes ==
    ASSUME NEW lb \in 0 .. MaxFileBlocks - 1
    PROVE  Home(lb) \in DataSlot /\ Home(lb) \in Slot /\ First(Home(lb)) = lb
<1>1. DirectBlocks \in Nat /\ PtrsPerBlock \in Nat \ {0} /\ lb \in Nat
  BY Constants
<1>2. CASE lb < DirectBlocks
  <2>1. Home(lb) = <<"direct", 0, lb>> /\ lb \in Direct
    BY <1>1, <1>2 DEF Home, Direct
  <2>2. First(<<"direct", 0, lb>>) = lb
    BY DEF First
  <2>3. Home(lb) \in DataSlot /\ Home(lb) \in Slot
    BY <2>1, Slots
  <2>4. ~ (lb >= DirectBlocks + PtrsPerBlock)
    BY <1>1, <1>2
  <2>5. QED
    BY <2>1, <2>2, <2>3, <2>4
<1>3. CASE ~ (lb < DirectBlocks) /\ lb - DirectBlocks < PtrsPerBlock
  <2>1. PICK i \in Entry : i = lb - DirectBlocks
    BY <1>1, <1>3 DEF Entry
  <2>2. Home(lb) = <<"by single", 0, i>>
    BY <1>3, <2>1 DEF Home
  <2>3. First(<<"by single", 0, i>>) = DirectBlocks + i
    BY DEF First
  <2>4. DirectBlocks + i = lb /\ ~ (lb >= DirectBlocks + PtrsPerBlock)
    BY <1>1, <1>3, <2>1
  <2>5. QED
    BY <2>1, <2>2, <2>3, <2>4, Slots
<1>4. CASE ~ (lb < DirectBlocks) /\ ~ (lb - DirectBlocks < PtrsPerBlock)
  <2> DEFINE a == (lb - DirectBlocks - PtrsPerBlock) \div PtrsPerBlock
             c == (lb - DirectBlocks - PtrsPerBlock) % PtrsPerBlock
  <2>1. lb >= DirectBlocks + PtrsPerBlock
    BY <1>1, <1>4
  <2>2. a \in Entry /\ c \in Entry /\ lb = DirectBlocks + PtrsPerBlock + a * PtrsPerBlock + c
    <3>1. Coordinate(lb, a, c)
      BY <2>1, Coordinates
    <3>2. QED
      BY <3>1 DEF Coordinate
  <2>3. Home(lb) = <<"level 2", a, c>>
    BY <1>4 DEF Home
  <2> HIDE DEF a, c
  <2>4. First(<<"level 2", a, c>>) = DirectBlocks + PtrsPerBlock + a * PtrsPerBlock + c
    BY DEF First
  <2>5. Home(lb) \in DataSlot /\ Home(lb) \in Slot
    BY <2>2, <2>3, Slots
  <2>6. QED
    BY <2>2, <2>3, <2>4, <2>5
<1>5. QED
  BY <1>2, <1>3, <1>4

\* Every slot of a data block is that of a block number.
LEMMA Lodgers ==
    ASSUME NEW s \in DataSlot
    PROVE  First(s) \in 0 .. MaxFileBlocks - 1 /\ s = Home(First(s))
<1>1. DirectBlocks \in Nat \ {0} /\ PtrsPerBlock \in Nat \ {0}
  BY Constants
<1>2. s \in Slot
  BY Slots
<1>3. CASE s[1] = "direct"
  <2>1. s[2] = 0 /\ s[3] \in Direct /\ First(s) = s[3]
    BY <1>2, <1>3 DEF Slot, First
  <2>2. s[3] \in Nat /\ s[3] < DirectBlocks /\ s[3] <= MaxFileBlocks - 1
    BY <1>1, <2>1 DEF Direct, MaxFileBlocks
  <2>3. s = <<"direct", 0, s[3]>>
    BY <1>2, <1>3, <2>1, SlotIs
  <2>4. QED
    BY <1>1, <2>1, <2>2, <2>3 DEF Home, MaxFileBlocks
<1>4. CASE s[1] = "by single"
  <2>1. s[2] = 0 /\ s[3] \in Entry /\ First(s) = DirectBlocks + s[3]
    BY <1>2, <1>4 DEF Slot, First
  <2>2. PICK i \in Nat : i = s[3] /\ i < PtrsPerBlock
    BY <1>1, <2>1 DEF Entry
  <2> DEFINE t == <<"by single", 0, i>>
  <2>3. s = t
    <3>1. t \in Slot /\ t[1] = "by single" /\ t[2] = 0 /\ t[3] = i
      BY <2>1, <2>2, Slots
    <3> HIDE DEF t
    <3>2. QED
      BY <1>2, <1>4, <2>1, <2>2, <3>1, SameSlot
  <2> DEFINE lb == DirectBlocks + i
  <2>4. /\ lb - DirectBlocks = i /\ ~ (lb < DirectBlocks) /\ lb - DirectBlocks < PtrsPerBlock
        /\ lb <= MaxFileBlocks - 1 /\ lb \in Nat
        /\ MaxFileBlocks - 1 \in Int
    BY <1>1, <2>2 DEF MaxFileBlocks
  <2>5. First(s) = lb
    BY <2>1, <2>2
  <2> HIDE DEF lb
  <2>6. Home(lb) = t
    BY <2>4 DEF Home
  <2> HIDE DEF t
  <2>7. QED
    BY <2>3, <2>4, <2>5, <2>6
<1>5. CASE s[1] = "level 2"
  <2>1. /\ s[2] \in Entry /\ s[3] \in Entry
        /\ First(s) = DirectBlocks + PtrsPerBlock + s[2] * PtrsPerBlock + s[3]
    BY <1>2, <1>5 DEF Slot, First
  <2>2. PICK k \in Nat, j \in Nat : k = s[2] /\ j = s[3] /\ k < PtrsPerBlock /\ j < PtrsPerBlock
    BY <1>1, <2>1 DEF Entry
  <2> DEFINE t == <<"level 2", k, j>>
  <2>3. s = t
    <3>1. t \in Slot /\ t[1] = "level 2" /\ t[2] = k /\ t[3] = j
      BY <2>1, <2>2, Slots
    <3> HIDE DEF t
    <3>2. QED
      BY <1>2, <1>5, <2>2, <3>1, SameSlot
  <2>4. k * PtrsPerBlock + j < PtrsPerBlock * PtrsPerBlock /\ k * PtrsPerBlock + j \in Nat
    BY <1>1, <2>2
  <2>5. (k * PtrsPerBlock + j) \div PtrsPerBlock = k /\ (k * PtrsPerBlock + j) % PtrsPerBlock = j
    BY <1>1, <2>2, Divides
  <2> DEFINE z == k * PtrsPerBlock + j
             lb == DirectBlocks + PtrsPerBlock + z
  <2>6. First(s) = lb
    BY <1>1, <2>1, <2>2, <2>4
  <2> HIDE DEF z
  <2>7. /\ z \in Nat /\ z < PtrsPerBlock * PtrsPerBlock
        /\ z \div PtrsPerBlock = k /\ z % PtrsPerBlock = j
    BY <2>4, <2>5 DEF z
  <2>8. /\ lb - DirectBlocks - PtrsPerBlock = z /\ ~ (lb < DirectBlocks)
        /\ ~ (lb - DirectBlocks < PtrsPerBlock)
    BY <1>1, <2>7
  <2>9. lb \in 0 .. MaxFileBlocks - 1
    <3>1. PtrsPerBlock * PtrsPerBlock \in Nat
      BY <1>1
    <3>2. QED
      BY <1>1, <2>7, <3>1 DEF MaxFileBlocks
  <2> HIDE DEF lb
  <2>10. Home(lb) = t
    BY <2>7, <2>8 DEF Home
  <2> HIDE DEF t
  <2>11. QED
    BY <2>3, <2>6, <2>9, <2>10
<1>6. QED
  BY <1>3, <1>4, <1>5 DEF DataSlot

\* get_block_ptr finds what the slot of the block holds.
LEMMA LooksUp ==
    ASSUME NEW d, NEW I, NEW lb \in 0 .. MaxFileBlocks - 1
    PROVE  Lookup(d, I, lb) = At(d, I, Home(lb))
<1>1. DirectBlocks \in Nat /\ PtrsPerBlock \in Nat \ {0} /\ lb \in Nat
  BY Constants
<1> DEFINE lb1 == lb - DirectBlocks
           lb2 == lb1 - PtrsPerBlock
           k == lb2 \div PtrsPerBlock
           j == lb2 % PtrsPerBlock
<1>2. lb1 \in Int /\ lb2 \in Int /\ (lb1 < 0 <=> lb < DirectBlocks) /\ (lb2 < 0 <=> lb1 < PtrsPerBlock)
  BY <1>1
<1>3. /\ \A i : At(d, I, <<"direct", 0, i>>) = I.direct[i]
      /\ \A i : At(d, I, <<"by single", 0, i>>) = Ent(d, I.single, i)
      /\ \A a, i : At(d, I, <<"level 2", a, i>>) = Ent(d, Ent(d, I.double, a), i)
  BY DEF At
<1>4. Lookup(d, I, lb) = IF lb1 < 0 THEN I.direct[lb]
                         ELSE IF lb2 < 0 THEN Ent(d, I.single, lb1)
                         ELSE Ent(d, Ent(d, I.double, k), j)
  BY DEF Lookup, Ent
<1>5. Home(lb) = IF lb < DirectBlocks THEN <<"direct", 0, lb>>
                 ELSE IF lb1 < PtrsPerBlock THEN <<"by single", 0, lb1>>
                 ELSE <<"level 2", k, j>>
  BY DEF Home
<1> HIDE DEF lb1, lb2, k, j
<1>6. QED
  BY <1>2, <1>3, <1>4, <1>5

\* A slot's pointer block is there when the slot is.
LEMMA Parents ==
    ASSUME NEW d, NEW I
    PROVE  /\ \A i : At(d, I, <<"by single", 0, i>>) # NoBlock => At(d, I, <<"single", 0, 0>>) # NoBlock
           /\ \A i : At(d, I, <<"level 1", 0, i>>) # NoBlock => At(d, I, <<"double", 0, 0>>) # NoBlock
           /\ \A k, i : At(d, I, <<"level 2", k, i>>) # NoBlock => At(d, I, <<"level 1", 0, k>>) # NoBlock
<1>1. /\ \A i : At(d, I, <<"by single", 0, i>>) = Ent(d, I.single, i)
      /\ \A i : At(d, I, <<"level 1", 0, i>>) = Ent(d, I.double, i)
      /\ \A a, i : At(d, I, <<"level 2", a, i>>) = Ent(d, Ent(d, I.double, a), i)
      /\ At(d, I, <<"single", 0, 0>>) = I.single /\ At(d, I, <<"double", 0, 0>>) = I.double
  BY DEF At
<1>2. \A i : Ent(d, NoBlock, i) = NoBlock
  BY DEF Ent
<1>3. \A i : At(d, I, <<"by single", 0, i>>) # NoBlock => At(d, I, <<"single", 0, 0>>) # NoBlock
  BY <1>1, <1>2
<1>4. \A i : At(d, I, <<"level 1", 0, i>>) # NoBlock => At(d, I, <<"double", 0, 0>>) # NoBlock
  BY <1>1, <1>2
<1>5. ASSUME NEW k, NEW i, At(d, I, <<"level 2", k, i>>) # NoBlock
      PROVE  At(d, I, <<"level 1", 0, k>>) # NoBlock
  <2>1. /\ At(d, I, <<"level 2", k, i>>) = Ent(d, Ent(d, I.double, k), i)
        /\ At(d, I, <<"level 1", 0, k>>) = Ent(d, I.double, k)
    BY <1>1
  <2>2. QED
    BY <1>2, <1>5, <2>1
<1>6. QED
  BY <1>3, <1>4, <1>5
----------------------------------------------------------------------------
(* Growing by a logical block, and by many. *)

Advances(r, r2, d0, n, lb) ==
    /\ Growing(r2, d0, n, {})
    /\ \A s \in Slot : Now(r, s) # NoBlock \/ First(s) > lb => Now(r2, s) = Now(r, s)
    /\ r2.ok => r.ok
    /\ Exact(r, n, {}) => Exact(r2, n, {})

\* Ensuring a slot that begins no later than a block advances no further than it.
LEMMA AdvanceBySlot ==
    ASSUME NEW r, NEW r2, NEW d0, NEW n, NEW s0 \in Slot, NEW lb \in Int,
           Ensured(r, r2, d0, n, s0), First(s0) <= lb, First(s0) \in Int
    PROVE  Advances(r, r2, d0, n, lb)
<1>1. \A s \in Slot : First(s) > lb => s # s0
  OBVIOUS
<1>2. QED
  BY <1>1 DEF Ensured, Advances

\* Two advances up to the same block are one.
LEMMA AdvanceTwice ==
    ASSUME NEW r, NEW r2, NEW r3, NEW d0, NEW n, NEW lb,
           Advances(r, r2, d0, n, lb), Advances(r2, r3, d0, n, lb)
    PROVE  Advances(r, r3, d0, n, lb)
<1>1. \A s \in Slot : Now(r, s) # NoBlock \/ First(s) > lb => Now(r3, s) = Now(r, s)
  BY DEF Advances
<1>2. QED
  BY <1>1 DEF Advances

\* The caller's copy, written to the disk.
LEMMA Saves ==
    ASSUME NEW r, NEW d0, NEW n \in Inode, Growing(r, d0, n, {}), NEW before
    PROVE  /\ Growing(SaveInode(r, before, n), d0, n, {})
           /\ SameSlots(r, SaveInode(r, before, n))
           /\ SaveInode(r, before, n).ok = r.ok
           /\ Exact(r, n, {}) => Exact(SaveInode(r, before, n), n, {})
<1> DEFINE d2 == [r.disk EXCEPT !.inode[n] = r.inode]
           r2 == Write(r, d2)
           F == Seen(r, n)
<1>1. /\ r \in Runs /\ r.disk \in Disk /\ r.inode \in InodeRec
      /\ Fits(r, d0, n, {}) /\ \A x \in r.trail : Fine(x, d0, n)
  BY DEF Growing, Fits, Runs
<1>2. CASE r.inode = before \/ ~ r.ok
  <2>1. SaveInode(r, before, n) = r
    BY <1>1, <1>2, Written DEF SaveInode, WriteInode
  <2>2. QED
    BY <2>1 DEF SameSlots
<1>3. CASE r.inode # before /\ r.ok
  <2>1. SaveInode(r, before, n) = r2
    BY <1>3 DEF SaveInode, WriteInode
  <2>2. /\ d2 \in Disk /\ d2.inode = F /\ d2.used = r.disk.used
        /\ d2.freeInodes = r.disk.freeInodes /\ d2.bitmap = r.disk.bitmap
        /\ d2.freeBlocks = r.disk.freeBlocks /\ d2.block = r.disk.block
    BY <1>1 DEF Disk, Seen
  <2> HIDE DEF d2
  <2>3. /\ r2 \in Runs /\ r2.disk = d2 /\ r2.inode = r.inode /\ r2.ok = r.ok
        /\ r2.trail = r.trail \cup {d2}
    BY <1>1, <1>3, <2>2, Written
  <2> HIDE DEF r2
  <2>4. /\ F \in [Inode -> InodeRec] /\ F[n] = r.inode
        /\ \A m \in Inode \ {n} : F[m] = r.disk.inode[m]
    BY <1>1, Views
  <2>5. Seen(r2, n) = F
    BY <2>2, <2>3, <2>4 DEF Seen
  <2> HIDE DEF F
  <2>6. /\ Forest(r.disk, F) /\ Contents(r.disk, F)
    BY <1>1 DEF Fits, Sound, F
  <2>7. /\ Forest(d2, F) /\ Held(d2, F) = Held(r.disk, F) /\ SameAt(r.disk, d2, F)
        /\ Contents(d2, F)
    BY <2>2, <2>6, Untouched
  <2>8. Sound(d2, F, {})
    BY <1>1, <2>2, <2>7 DEF Fits, Sound, F
  <2>9. SameSlots(r, r2)
    BY <2>3, <2>4, <2>7 DEF SameAt, SameSlots, Now
  <2>10. Kept(d2, d0, n) /\ Alike(r.inode, d0.inode[n])
    BY <1>1, <2>2, <2>4 DEF Fits, Kept
  <2>11. Others(d2, d0, n)
    <3> SUFFICES ASSUME NEW m \in Inode \ {n}, NEW s \in Slot
                 PROVE  At(d2, d0.inode[m], s) = At(d0, d0.inode[m], s)
      BY DEF Others
    <3>1. F[m] = d0.inode[m]
      BY <1>1, <2>4 DEF Fits, Kept
    <3>2. QED
      BY <1>1, <2>7, <3>1 DEF Fits, Others, SameAt
  <2>12. Below(d2.inode[n], r2.inode)
    BY <2>2, <2>3, <2>4, BelowItself
  <2>13. Fits(r2, d0, n, {})
    BY <2>3, <2>5, <2>8, <2>10, <2>11, <2>12 DEF Fits
  <2>14. Fine(d2, d0, n)
    BY <2>3, <2>13, FitsFine
  <2>15. Exact(r, n, {}) => Exact(r2, n, {})
    BY <2>2, <2>3, <2>5, <2>7 DEF Exact, F
  <2>16. QED
    BY <1>1, <2>1, <2>3, <2>9, <2>13, <2>14, <2>15 DEF Growing
<1>4. QED
  BY <1>2, <1>3 DEF Growing, Fits, Runs

\* ensure_block puts a block where block number lb belongs, or fails with nothing past lb.
LEMMA EnsuresBlock ==
    ASSUME NEW r, NEW d0, NEW n \in Inode, Growing(r, d0, n, {}), NEW lb \in 0 .. MaxFileBlocks - 1
    PROVE  /\ Advances(r, EnsureBlock(r, n, lb), d0, n, lb)
           /\ EnsureBlock(r, n, lb).ok => Now(EnsureBlock(r, n, lb), Home(lb)) # NoBlock
<1> DEFINE Reached(x) == Advances(r, x, d0, n, lb) /\ (x.ok => Now(x, Home(lb)) # NoBlock)
           lb1 == lb - DirectBlocks
           lb2 == lb1 - PtrsPerBlock
           i1 == lb2 \div PtrsPerBlock
           j == lb2 % PtrsPerBlock
           r1 == EnsureRoot(r, "double")
           r2 == EnsureLevel1(r1, i1)
           r3 == EnsureLevel2(r2, i1, j)
           body == IF lb1 < 0 THEN EnsureDirect(r, lb)
                   ELSE IF lb2 < 0 THEN EnsureSingle(EnsureRoot(r, "single"), lb1) ELSE r3
<1>1. DirectBlocks \in Nat /\ PtrsPerBlock \in Nat \ {0} /\ lb \in Nat
  BY Constants
<1>2. Home(lb) \in Slot /\ First(Home(lb)) = lb /\ lb \in Int
  BY <1>1, Homes
<1>a. /\ lb1 < 0 <=> lb < DirectBlocks
      /\ lb2 < 0 <=> lb - DirectBlocks < PtrsPerBlock
      /\ ~ (lb2 < 0) => lb >= DirectBlocks + PtrsPerBlock
      /\ ~ (lb1 < 0) => lb1 \in Nat /\ DirectBlocks <= lb
      /\ lb2 < 0 => lb1 < PtrsPerBlock
  BY <1>1
<1>b. /\ lb1 < 0 => Home(lb) = <<"direct", 0, lb>>
      /\ ~ (lb1 < 0) /\ lb2 < 0 => Home(lb) = <<"by single", 0, lb1>>
      /\ ~ (lb1 < 0) /\ ~ (lb2 < 0) => Home(lb) = <<"level 2", i1, j>>
  <2>1. lb < DirectBlocks => Home(lb) = <<"direct", 0, lb>>
    BY DEF Home
  <2>2. ~ (lb < DirectBlocks) /\ lb - DirectBlocks < PtrsPerBlock => Home(lb) = <<"by single", 0, lb1>>
    BY DEF Home
  <2>3. ~ (lb < DirectBlocks) /\ ~ (lb - DirectBlocks < PtrsPerBlock) => Home(lb) = <<"level 2", i1, j>>
    BY DEF Home
  <2>4. QED
    BY <1>a, <2>1, <2>2, <2>3
<1> HIDE DEF i1, j, body
<1>3. ASSUME lb1 < 0 PROVE Reached(body)
  <2>0. lb \in Direct
    BY <1>1, <1>3, <1>a DEF Direct
  <2>1. Home(lb) = <<"direct", 0, lb>> /\ lb \in Direct
    BY <1>3, <1>b, <2>0
  <2>2. Ensured(r, EnsureDirect(r, lb), d0, n, Home(lb))
    BY <2>1, EnsuresDirect
  <2> DEFINE ra == EnsureDirect(r, lb)
  <2> HIDE DEF ra
  <2>3. Advances(r, ra, d0, n, lb)
    BY <1>1, <1>2, <2>2, AdvanceBySlot DEF ra
  <2>4. body = ra
    BY <1>3 DEF body, ra
  <2>5. QED
    BY <2>2, <2>3, <2>4 DEF Ensured, ra
<1>4. ASSUME ~ (lb1 < 0), lb2 < 0 PROVE Reached(body)
  <2> DEFINE q == <<"single", 0, 0>>
             ra == EnsureRoot(r, "single")
             rb == EnsureEntry(ra, Now(ra, q), lb1)
  <2>0. lb1 \in Entry /\ DirectBlocks <= lb
    BY <1>1, <1>4, <1>a DEF Entry
  <2>1. lb1 \in Entry /\ Home(lb) = <<"by single", 0, lb1>> /\ First(q) = DirectBlocks
    BY <1>4, <1>b, <2>0 DEF First
  <2>2. q \in PtrSlot /\ q \in Slot /\ q[1] # "double" /\ Home(lb) = Child(q, lb1)
    BY <2>1, Slots DEF Child
  <2>3. Ensured(r, ra, d0, n, q)
    BY EnsuresRoot
  <2>4. EnsureSingle(ra, lb1) = rb
    BY DEF EnsureSingle, Now, At
  <2> HIDE DEF ra
  <2>5. Ensured(ra, rb, d0, n, Home(lb))
    <3>1. Growing(ra, d0, n, {}) /\ (ra.ok => Now(ra, q) # NoBlock)
      BY <2>3 DEF Ensured
    <3> HIDE DEF q
    <3>2. QED
      BY <2>1, <2>2, <3>1, EnsuresEntry
  <2> HIDE DEF rb, q
  <2>6. Advances(r, ra, d0, n, lb)
    <3>1. First(q) <= lb /\ First(q) \in Int
      <4>1. First(q) = DirectBlocks
        BY <2>1
      <4>2. QED
        BY <1>1, <2>0, <4>1
    <3>2. QED
      BY <1>2, <2>2, <2>3, <3>1, AdvanceBySlot
  <2>7. Advances(ra, rb, d0, n, lb)
    BY <1>1, <1>2, <2>5, AdvanceBySlot
  <2>8. Reached(rb)
    BY <2>5, <2>6, <2>7, AdvanceTwice DEF Ensured
  <2>9. body = rb
    BY <1>4, <2>4 DEF body, ra
  <2>10. QED
    BY <2>8, <2>9
<1>5. ASSUME ~ (lb1 < 0), ~ (lb2 < 0) PROVE Reached(body)
  <2> DEFINE q == <<"double", 0, 0>>
             q1 == <<"level 1", 0, i1>>
  <2>1. /\ lb >= DirectBlocks + PtrsPerBlock
        /\ Home(lb) = <<"level 2", i1, j>>
    BY <1>1, <1>5, <1>a, <1>b
  <2>2. i1 \in Entry /\ j \in Entry /\ lb = DirectBlocks + PtrsPerBlock + i1 * PtrsPerBlock + j
    <3>1. /\ i1 = (lb - DirectBlocks - PtrsPerBlock) \div PtrsPerBlock
          /\ j = (lb - DirectBlocks - PtrsPerBlock) % PtrsPerBlock
      BY DEF i1, j
    <3>2. Coordinate(lb, i1, j)
      BY <2>1, <3>1, Coordinates
    <3>3. QED
      BY <3>2 DEF Coordinate
  <2>3. /\ q \in Slot /\ First(q) = DirectBlocks + PtrsPerBlock
        /\ q1 \in PtrSlot /\ q1 \in Slot /\ First(q1) = DirectBlocks + PtrsPerBlock + i1 * PtrsPerBlock
    BY <2>2, Slots DEF First
  <2> HIDE DEF q, q1
  <2>4. First(q) <= lb /\ First(q) \in Int /\ First(q1) <= lb /\ First(q1) \in Int
    <3>1. i1 \in Nat /\ j \in Nat
      BY <1>1, <2>2 DEF Entry
    <3>2. PICK z \in Nat : z = i1 * PtrsPerBlock
      BY <1>1, <3>1
    <3>3. lb = DirectBlocks + PtrsPerBlock + z + j /\ First(q1) = DirectBlocks + PtrsPerBlock + z
      BY <2>2, <2>3, <3>2
    <3>4. First(q) = DirectBlocks + PtrsPerBlock /\ lb >= DirectBlocks + PtrsPerBlock
      BY <2>1, <2>3
    <3>5. QED
      BY <1>1, <3>1, <3>3, <3>4
  <2>5. Home(lb) = Child(q1, j) /\ q1[1] # "double"
    BY <2>1 DEF Child, q1
  <2>6. Ensured(r, r1, d0, n, q)
    BY EnsuresRoot DEF q
  <2> HIDE DEF r1
  <2>7. Now(r1, q) = r1.inode.double
    BY DEF Now, At, q
  <2>8. Ensured(r1, r2, d0, n, q1)
    <3>1. Growing(r1, d0, n, {}) /\ (r1.ok => r1.inode.double # NoBlock)
      BY <2>6, <2>7 DEF Ensured
    <3>2. QED
      BY <2>2, <3>1, EnsuresLevel1 DEF q1
  <2> HIDE DEF r2
  <2>9. Growing(r2, d0, n, {}) /\ (r2.ok => Now(r2, q1) # NoBlock)
    BY <2>8 DEF Ensured
  <2>10. Ensured(r2, r3, d0, n, Home(lb))
    <3>1. CASE r2.ok
      <4>1. Now(r2, q1) = Ent(r2.disk, r2.inode.double, i1)
        BY DEF Now, At, q1
      <4>2. Now(r2, q1) = r2.disk.block[r2.inode.double][i1]
        BY <2>9, <3>1, <4>1 DEF Ent
      <4>3. r3 = EnsureEntry(r2, Now(r2, q1), j)
        BY <4>2 DEF EnsureLevel2
      <4> HIDE DEF r3
      <4>4. QED
        BY <2>2, <2>3, <2>5, <2>9, <4>3, EnsuresEntry
    <3>2. CASE ~ r2.ok
      <4>1. r3 = r2
        BY <3>2 DEF EnsureLevel2, EnsureEntry
      <4>2. QED
        BY <2>9, <3>2, <4>1, AlreadyThere
    <3>3. QED
      BY <3>1, <3>2
  <2> HIDE DEF r3
  <2>11. Advances(r, r1, d0, n, lb) /\ Advances(r1, r2, d0, n, lb) /\ Advances(r2, r3, d0, n, lb)
    BY <1>1, <1>2, <2>3, <2>4, <2>6, <2>8, <2>10, AdvanceBySlot
  <2>12. Advances(r, r3, d0, n, lb)
    BY <2>11, AdvanceTwice
  <2>13. Reached(r3)
    BY <2>10, <2>12 DEF Ensured
  <2>14. body = r3
    BY <1>5 DEF body, r3, r2, r1
  <2>15. QED
    BY <2>13, <2>14
<1>6. Reached(body)
  BY <1>3, <1>4, <1>5
<1>7. EnsureBlock(r, n, lb) = SaveInode(body, r.inode, n)
  BY DEF EnsureBlock, body, r3, r2, r1, i1, j
<1> DEFINE x == SaveInode(body, r.inode, n)
<1>8. /\ Growing(x, d0, n, {}) /\ SameSlots(body, x) /\ x.ok = body.ok
      /\ Exact(body, n, {}) => Exact(x, n, {})
  BY <1>6, Saves DEF Advances
<1> HIDE DEF x
<1>9. Reached(x)
  BY <1>2, <1>6, <1>8 DEF Advances, SameSlots
<1>10. QED
  BY <1>7, <1>9 DEF x

\* A pointer block is there when the first block it is for is.
LEMMA PointerHomes ==
    ASSUME NEW s \in PtrSlot
    PROVE  /\ First(s) \in Nat
           /\ \A d, I : At(d, I, Home(First(s))) # NoBlock => At(d, I, s) # NoBlock
<1>1. DirectBlocks \in Nat /\ PtrsPerBlock \in Nat \ {0}
  BY Constants
<1>2. s \in Slot /\ s[1] \in {"single", "double", "level 1"}
  BY Slots DEF PtrSlot
<1>3. CASE s[1] = "single"
  <2>1. First(s) = DirectBlocks /\ \A d, I : At(d, I, s) = I.single
    BY <1>3 DEF First, At
  <2>2. Home(DirectBlocks) = <<"by single", 0, DirectBlocks - DirectBlocks>>
    <3>1. ~ (DirectBlocks < DirectBlocks) /\ DirectBlocks - DirectBlocks < PtrsPerBlock
      BY <1>1
    <3>2. QED
      BY <3>1 DEF Home
  <2>3. ASSUME NEW d, NEW I, At(d, I, Home(DirectBlocks)) # NoBlock PROVE At(d, I, s) # NoBlock
    <3>1. At(d, I, <<"single", 0, 0>>) # NoBlock
      BY <2>2, <2>3, Parents
    <3>2. At(d, I, <<"single", 0, 0>>) = I.single
      BY DEF At
    <3>3. QED
      BY <2>1, <3>1, <3>2
  <2>4. QED
    BY <1>1, <2>1, <2>3
<1>4. ASSUME s[1] # "single"
      PROVE  \E k \in Nat : /\ k < PtrsPerBlock
                            /\ First(s) = DirectBlocks + PtrsPerBlock + k * PtrsPerBlock
                            /\ \A d, I : At(d, I, <<"level 1", 0, k>>) # NoBlock => At(d, I, s) # NoBlock
  <2>1. CASE s[1] = "double"
    <3>1. First(s) = DirectBlocks + PtrsPerBlock /\ \A d, I : At(d, I, s) = I.double
      BY <2>1 DEF First, At
    <3>2. \A d, I : At(d, I, <<"double", 0, 0>>) = I.double
      BY DEF At
    <3>3. \A d, I : At(d, I, <<"level 1", 0, 0>>) # NoBlock => At(d, I, s) # NoBlock
      <4> TAKE d, I
      <4>1. At(d, I, <<"level 1", 0, 0>>) # NoBlock => At(d, I, <<"double", 0, 0>>) # NoBlock
        BY Parents
      <4>2. QED
        BY <3>1, <3>2, <4>1
    <3>4. First(s) = DirectBlocks + PtrsPerBlock + 0 * PtrsPerBlock
      BY <1>1, <3>1
    <3>5. 0 \in Nat /\ 0 < PtrsPerBlock
      BY <1>1
    <3>6. WITNESS 0 \in Nat
    <3>7. QED
      BY <3>3, <3>4, <3>5
  <2>2. CASE s[1] = "level 1"
    <3>1. /\ s[3] \in Entry /\ First(s) = DirectBlocks + PtrsPerBlock + s[3] * PtrsPerBlock
          /\ \A d, I : At(d, I, s) = Ent(d, I.double, s[3])
      BY <1>2, <2>2 DEF First, At, Slot
    <3>2. PICK k \in Nat : k = s[3] /\ k < PtrsPerBlock
      BY <1>1, <3>1 DEF Entry
    <3>3. \A d, I : At(d, I, <<"level 1", 0, k>>) = Ent(d, I.double, k)
      BY DEF At
    <3>4. \A d, I : At(d, I, <<"level 1", 0, k>>) # NoBlock => At(d, I, s) # NoBlock
      BY <3>1, <3>2, <3>3
    <3>5. QED
      BY <3>1, <3>2, <3>4
  <2>3. QED
    BY <1>2, <1>4, <2>1, <2>2
<1>5. ASSUME s[1] # "single" 
      PROVE  /\ First(s) \in Nat
             /\ \A d, I : At(d, I, Home(First(s))) # NoBlock => At(d, I, s) # NoBlock
  <2>1. PICK k \in Nat : /\ k < PtrsPerBlock
                         /\ First(s) = DirectBlocks + PtrsPerBlock + k * PtrsPerBlock
                         /\ \A d, I : At(d, I, <<"level 1", 0, k>>) # NoBlock => At(d, I, s) # NoBlock
    BY <1>4, <1>5
  <2>2. PICK z \in Nat : z = k * PtrsPerBlock
    BY <1>1
  <2>3. z \div PtrsPerBlock = k
    <3>1. (k * PtrsPerBlock + 0) \div PtrsPerBlock = k
      BY <1>1, Divides
    <3>2. z = k * PtrsPerBlock + 0
      BY <2>2
    <3>3. QED
      BY <3>1, <3>2
  <2> DEFINE lb == DirectBlocks + PtrsPerBlock + z
  <2>4. /\ lb \in Nat /\ lb - DirectBlocks - PtrsPerBlock = z /\ ~ (lb < DirectBlocks)
        /\ ~ (lb - DirectBlocks < PtrsPerBlock)
    BY <1>1
  <2>5. First(s) = lb
    BY <2>1, <2>2
  <2> HIDE DEF lb
  <2>6. Home(lb) = <<"level 2", k, z % PtrsPerBlock>>
    BY <2>3, <2>4 DEF Home
  <2>7. ASSUME NEW d, NEW I, At(d, I, Home(lb)) # NoBlock PROVE At(d, I, s) # NoBlock
    <3>1. At(d, I, <<"level 1", 0, k>>) # NoBlock
      BY <2>6, <2>7, Parents
    <3>2. QED
      BY <2>1, <3>1
  <2>8. QED
    BY <2>4, <2>5, <2>7
<1>6. QED
  BY <1>3, <1>5

\* The first block behind a slot is a number.
LEMMA FirstType ==
    ASSUME NEW s \in Slot
    PROVE  First(s) \in Nat
<1>1. CASE s \in PtrSlot
  BY <1>1, PointerHomes
<1>2. CASE s \in DataSlot
  BY <1>2, Lodgers
<1>3. QED
  BY <1>1, <1>2, Slots

\* The slots that hold a block are those for the blocks below hi.
Mapped(r, hi) == \A s \in Slot : First(s) < hi <=> Now(r, s) # NoBlock

\* A file mapped up to lb, whose block lb is then there, is mapped up to lb + 1.
LEMMA MapsNext ==
    ASSUME NEW r, NEW r2, NEW d0, NEW n, NEW lb \in 0 .. MaxFileBlocks - 1,
           Advances(r, r2, d0, n, lb), Now(r2, Home(lb)) # NoBlock, Mapped(r, lb)
    PROVE  Mapped(r2, lb + 1)
<1> SUFFICES ASSUME NEW s \in Slot PROVE First(s) < lb + 1 <=> Now(r2, s) # NoBlock
  BY DEF Mapped
<1>1. First(s) \in Nat /\ lb \in Nat
  BY FirstType, Constants
<1>2. /\ Now(r, s) # NoBlock \/ First(s) > lb => Now(r2, s) = Now(r, s)
      /\ First(s) < lb <=> Now(r, s) # NoBlock
  BY DEF Advances, Mapped
<1>3. ASSUME First(s) = lb PROVE Now(r2, s) # NoBlock
  <2>1. CASE s \in PtrSlot
    BY <1>3, <2>1, PointerHomes DEF Now
  <2>2. CASE s \in DataSlot
    <3>1. s = Home(lb)
      BY <1>3, <2>2, Lodgers
    <3>2. QED
      BY <3>1
  <2>3. QED
    BY <2>1, <2>2, Slots
<1>4. QED
  BY <1>1, <1>2, <1>3

Grown(r, x, d0, n, old, hi) ==
    /\ Growing(x, d0, n, {})
    /\ \A s \in Slot : Now(r, s) # NoBlock => Now(x, s) = Now(r, s)
    /\ Exact(r, n, {}) => Exact(x, n, {})
    /\ x.ok => r.ok
    /\ Mapped(r, old) /\ x.ok => Mapped(x, hi)

\* The loop of a growing file maps every block up to the new end, or fails on the way.
LEMMA GrowsBlocks ==
    ASSUME NEW r, NEW d0, NEW n \in Inode, Growing(r, d0, n, {}),
           NEW old \in Nat, NEW new \in 0 .. MaxFileBlocks, old <= new
    PROVE  Grown(r, EnsureBlocks(r, n, old, new), d0, n, old, new)
<1> DEFINE Body(k) == {x \in Runs : Grown(r, x, d0, n, old, old + k)}
           T == [k \in 0 .. new - old |-> Body(k)]
<1>1. new \in Nat /\ new - old \in Nat /\ MaxFileBlocks \in Nat
  BY Constants DEF MaxFileBlocks
<1>2. r \in T[0]
  <2>1. r \in Runs /\ old + 0 = old
    BY DEF Growing, Fits
  <2>2. Grown(r, r, d0, n, old, old)
    BY DEF Grown
  <2>3. QED
    BY <1>1, <2>1, <2>2
<1>3. ASSUME NEW k \in 1 .. new - old, NEW x \in T[k - 1]
      PROVE  EnsureNext(x, n, old + k - 1) \in T[k]
  <2> DEFINE lb == old + k - 1
             y == EnsureNext(x, n, lb)
  <2>1. /\ lb \in 0 .. MaxFileBlocks - 1 /\ lb + 1 = old + k /\ old + (k - 1) = lb
        /\ k \in 0 .. new - old /\ k - 1 \in 0 .. new - old
    BY <1>1, <1>3
  <2>2. x \in Runs /\ Grown(r, x, d0, n, old, lb)
    BY <1>3, <2>1
  <2>3. y \in Runs /\ Grown(r, y, d0, n, old, lb + 1)
    <3>1. CASE ~ x.ok
      <4>1. y = x
        BY <3>1 DEF EnsureNext
      <4>2. QED
        BY <2>2, <3>1, <4>1 DEF Grown
    <3>2. CASE x.ok
      <4>1. y = EnsureBlock(x, n, lb)
        BY <3>2 DEF EnsureNext
      <4> HIDE DEF lb, y
      <4>2. Advances(x, y, d0, n, lb) /\ (y.ok => Now(y, Home(lb)) # NoBlock)
        BY <2>1, <2>2, <4>1, EnsuresBlock DEF Grown
      <4>3. Mapped(x, lb) /\ y.ok => Mapped(y, lb + 1)
        BY <2>1, <4>2, MapsNext
      <4>4. y \in Runs
        BY <4>2 DEF Advances, Growing, Fits
      <4>5. \A s \in Slot : Now(r, s) # NoBlock => Now(y, s) = Now(r, s)
        BY <2>2, <4>2 DEF Advances, Grown
      <4>6. QED
        BY <2>2, <4>2, <4>3, <4>4, <4>5 DEF Advances, Grown
    <3>3. QED
      BY <3>1, <3>2 DEF Runs
  <2>4. QED
    BY <2>1, <2>3
<1> HIDE DEF T
<1>4. EnsureBlocks(r, n, old, new) \in T[new - old]
  BY <1>1, <1>2, <1>3, EnsureLoop
<1>5. old + (new - old) = new /\ new - old \in 0 .. new - old
  BY <1>1
<1>6. QED
  BY <1>4, <1>5 DEF T
----------------------------------------------------------------------------
(* A run that gives back blocks of inode n, starting at r0: those of the    *)
(* slots in S are free, and those in D are no longer in their slots.        *)

Past(keep) == {s \in Slot : First(s) >= keep}
Of(r0, S) == {b \in DataRegion : \E s \in S : Now(r0, s) = b}

\* A disk in the middle: a block that was marked is not.
Gap(x, r0) ==
    /\ x \in Disk /\ x.inode = r0.disk.inode /\ x.used = r0.disk.used
    /\ x.freeInodes = r0.disk.freeInodes /\ Thinner(x, r0.disk) /\ x.freeBlocks <= DataBlocks
    /\ ~ (r0.disk.bitmap \subseteq x.bitmap)

Slots0(r, r0, D) == \A s \in Slot : Now(r, s) = IF s \in D THEN NoBlock ELSE Now(r0, s)

Freeing(r, r0, keep, S, D) ==
    /\ r \in Runs /\ r.ok
    /\ r.disk.inode = r0.disk.inode /\ r.disk.used = r0.disk.used
    /\ r.disk.freeInodes = r0.disk.freeInodes
    /\ Alike(r.inode, r0.inode) /\ Below(r.inode, r0.inode) /\ Thinner(r.disk, r0.disk)
    /\ Touches(r0, r)
    /\ S \subseteq Past(keep) /\ D \subseteq S
    /\ r.disk.bitmap = r0.disk.bitmap \ Of(r0, S)
    /\ r.disk.freeBlocks = r0.disk.freeBlocks + Cardinality(Of(r0, S))
    /\ Slots0(r, r0, D)
    /\ \A x \in r.trail : x \in r0.trail \/ Gap(x, r0)

Base(r0, d0, n) == Fits(r0, d0, n, {}) /\ r0.ok /\ n \in Inode

\* What a call that gives blocks back starts from.
LEMMA BaseIs ==
    ASSUME NEW r0, NEW d0, NEW n, Base(r0, d0, n)
    PROVE  /\ r0 \in Runs /\ r0.disk \in Disk /\ r0.inode \in InodeRec
           /\ Tree(r0.disk, r0.inode) /\ Own(r0.disk, r0.inode)
           /\ \A s \in Slot : Now(r0, s) # NoBlock =>
                 /\ Now(r0, s) \in DataRegion /\ Now(r0, s) \in r0.disk.bitmap
                 /\ Now(r0, s) \in Held(r0.disk, Seen(r0, n))
           /\ Held(r0.disk, Seen(r0, n)) \subseteq r0.disk.bitmap
           /\ r0.disk.bitmap \subseteq DataRegion /\ r0.disk.freeBlocks \in Nat
           /\ r0.disk.freeBlocks + Cardinality(Held(r0.disk, Seen(r0, n))) <= DataBlocks
           /\ DataBlocks <= r0.disk.freeBlocks + Cardinality(r0.disk.bitmap)
<1> DEFINE F == Seen(r0, n)
<1>1. r0 \in Runs /\ r0.disk \in Disk /\ r0.inode \in InodeRec /\ F[n] = r0.inode /\ n \in Inode
  BY Views DEF Base, Fits, Runs
<1>2. /\ Forest(r0.disk, F) /\ Held(r0.disk, F) \cup {} \subseteq r0.disk.bitmap
      /\ r0.disk.freeBlocks + Cardinality(Held(r0.disk, F) \cup {}) <= DataBlocks
      /\ DataBlocks <= r0.disk.freeBlocks + Cardinality(r0.disk.bitmap)
  BY DEF Base, Fits, Sound
<1>3. Held(r0.disk, F) \cup {} = Held(r0.disk, F)
  OBVIOUS
<1> HIDE DEF F
<1>4. Tree(r0.disk, r0.inode) /\ Own(r0.disk, r0.inode)
  BY <1>1, <1>2, HeldIs DEF Forest
<1>5. \A s \in Slot : Now(r0, s) # NoBlock =>
         Now(r0, s) \in Held(r0.disk, F) /\ Now(r0, s) \in DataRegion
  BY <1>1, <1>2, HeldIs DEF Now
<1>6. r0.disk.bitmap \subseteq DataRegion /\ r0.disk.freeBlocks \in Nat
  BY <1>1 DEF Disk
<1>7. QED
  BY <1>1, <1>2, <1>3, <1>4, <1>5, <1>6 DEF F

\* The blocks of some slots are held, and there is room for them in the counter.
LEMMA OfIs ==
    ASSUME NEW r0, NEW d0, NEW n, Base(r0, d0, n), NEW S \in SUBSET Slot
    PROVE  /\ Of(r0, S) \subseteq Held(r0.disk, Seen(r0, n)) /\ Of(r0, S) \subseteq DataRegion
           /\ Cardinality(Of(r0, S)) \in Nat
           /\ r0.disk.freeBlocks + Cardinality(Of(r0, S)) <= DataBlocks
<1> DEFINE H == Held(r0.disk, Seen(r0, n))
<1>1. Of(r0, S) \subseteq DataRegion
  BY DEF Of
<1>2. Of(r0, S) \subseteq H
  <2> SUFFICES ASSUME NEW b \in DataRegion, NEW s \in S, Now(r0, s) = b PROVE b \in H
    BY DEF Of
  <2>1. b # NoBlock /\ s \in Slot
    BY Constants
  <2>2. QED
    BY <2>1, BaseIs
<1>3. /\ r0.disk.freeBlocks \in Nat /\ r0.disk.freeBlocks + Cardinality(H) <= DataBlocks
      /\ H \in SUBSET DataRegion
  BY BaseIs
<1> HIDE DEF H
<1>4. /\ Cardinality(Of(r0, S)) \in Nat /\ Cardinality(H) \in Nat
      /\ Cardinality(Of(r0, S)) <= Cardinality(H)
  BY <1>1, <1>2, <1>3, Blocks, Fewest
<1>5. QED
  BY <1>1, <1>2, <1>3, <1>4, Constants DEF H

\* At the start nothing is free.
LEMMA FreesNothing ==
    ASSUME NEW r0, NEW d0, NEW n, Base(r0, d0, n), NEW keep
    PROVE  Freeing(r0, r0, keep, {}, {})
<1>1. Of(r0, {}) = {} /\ Cardinality({}) = 0
  BY FS_EmptySet DEF Of
<1>2. r0.disk.freeBlocks = r0.disk.freeBlocks + 0
  BY BaseIs
<1>3. Alike(r0.inode, r0.inode) /\ Below(r0.inode, r0.inode) /\ Thinner(r0.disk, r0.disk)
  BY BelowItself DEF Alike
<1>4. Touches(r0, r0) /\ Slots0(r0, r0, {})
  BY DEF Touches, Slots0
<1>5. QED
  BY <1>1, <1>2, <1>3, <1>4, BaseIs DEF Freeing, Base

\* Slots without a block may count as freed, and as dropped.
LEMMA Pad ==
    ASSUME NEW r, NEW r0, NEW keep, NEW S, NEW D, Freeing(r, r0, keep, S, D),
           NEW T \in SUBSET Past(keep), NEW E \in SUBSET T, \A s \in T \ S : Now(r0, s) = NoBlock,
           \A s \in E \ D : Now(r0, s) = NoBlock
    PROVE  Freeing(r, r0, keep, S \cup T, D \cup E)
<1>1. Of(r0, S \cup T) = Of(r0, S)
  BY Constants DEF Of
<1>2. Slots0(r, r0, D \cup E)
  BY DEF Freeing, Slots0
<1>3. S \cup T \subseteq Past(keep) /\ D \cup E \subseteq S \cup T
  BY DEF Freeing
<1>4. QED
  BY <1>1, <1>2, <1>3 DEF Freeing

\* The pointer blocks of an inode are pointer blocks, each with one pointer to it.
Branching(d, I) ==
    /\ I.single # NoBlock => d.block[I.single] \in PtrBlock /\ I.single \in DataRegion
    /\ I.double # NoBlock => d.block[I.double] \in PtrBlock /\ I.double \in DataRegion
    /\ \A k \in Entry : Ent(d, I.double, k) # NoBlock =>
          /\ d.block[Ent(d, I.double, k)] \in PtrBlock
          /\ Ent(d, I.double, k) \in DataRegion
    /\ I.single # NoBlock =>
          I.single # I.double /\ \A k \in Entry : I.single # Ent(d, I.double, k)
    /\ I.double # NoBlock => \A k \in Entry : I.double # Ent(d, I.double, k)
    /\ \A k, l \in Entry :
          Ent(d, I.double, k) = Ent(d, I.double, l) /\ Ent(d, I.double, k) # NoBlock => k = l

\* Run r2 follows r and has freed the blocks of the slots in S.
Frees(r, r2, r0, keep, S, D) ==
    /\ Freeing(r2, r0, keep, S, D) /\ r2.inode = r.inode /\ r2.disk.block = r.disk.block

\* The block of one more slot is freed.
LEMMA FreesBlock ==
    ASSUME NEW r, NEW r0, NEW d0, NEW n, Base(r0, d0, n), NEW keep, NEW S, NEW D,
           Freeing(r, r0, keep, S, D), NEW s0 \in Past(keep) \ S, Now(r0, s0) # NoBlock
    PROVE  Frees(r, FreeBlock(r, Now(r0, s0)), r0, keep, S \cup {s0}, D)
<1> DEFINE b == Now(r0, s0)
           d == r.disk
           d1 == [d EXCEPT !.bitmap = @ \ {b}]
           d2 == [d1 EXCEPT !.freeBlocks = (@ + 1) % CounterValues]
           r1 == Write(r, d1)
           r2 == Write(r1, d2)
           c == Cardinality(Of(r0, S))
<1>1. /\ s0 \in Slot /\ S \subseteq Slot /\ S \cup {s0} \in SUBSET Slot /\ S \cup {s0} \subseteq Past(keep)
  BY DEF Past, Freeing
<1>2. /\ r \in Runs /\ d \in Disk /\ r.ok
  BY DEF Freeing, Runs
<1>3. b \in DataRegion /\ b \in r0.disk.bitmap /\ b # NoBlock
  BY <1>1, BaseIs
<1>4. b \notin Of(r0, S)
  <2> SUFFICES ASSUME NEW s \in S, Now(r0, s) = b PROVE FALSE
    BY DEF Of
  <2>1. s \in Slot /\ s # s0
    BY <1>1
  <2>2. Own(r0.disk, r0.inode)
    BY BaseIs
  <2>3. QED
    BY <1>1, <1>3, <2>1, <2>2 DEF Own, Now
<1>5. Of(r0, S \cup {s0}) = Of(r0, S) \cup {b}
  BY <1>3 DEF Of
<1>6. /\ Of(r0, S) \in SUBSET DataRegion /\ c \in Nat
      /\ Cardinality(Of(r0, S) \cup {b}) = c + 1
      /\ r0.disk.freeBlocks + (c + 1) <= DataBlocks /\ r0.disk.freeBlocks \in Nat
  <2>1. Of(r0, S) \subseteq DataRegion /\ c \in Nat
    BY <1>1, OfIs
  <2>2. Cardinality(Of(r0, S) \cup {b}) = c + 1
    BY <1>3, <1>4, <2>1, OneMore
  <2>3. r0.disk.freeBlocks + Cardinality(Of(r0, S) \cup {b}) <= DataBlocks
    BY <1>1, <1>5, OfIs
  <2>4. r0.disk.freeBlocks \in Nat
    BY BaseIs
  <2>5. QED
    BY <2>1, <2>2, <2>3, <2>4
<1> HIDE DEF c
<1>7. /\ d.freeBlocks = r0.disk.freeBlocks + c /\ d.bitmap = r0.disk.bitmap \ Of(r0, S)
  BY DEF Freeing, c
<1>8. d.freeBlocks \in Nat /\ d.freeBlocks <= DataBlocks
      /\ (d.freeBlocks + 1) % CounterValues = r0.disk.freeBlocks + (c + 1)
  <2>1. /\ d.freeBlocks + 1 = r0.disk.freeBlocks + (c + 1)
        /\ d.freeBlocks + 1 \in Nat /\ d.freeBlocks + 1 < CounterValues
    BY <1>6, <1>7, Constants
  <2>2. (d.freeBlocks + 1) % CounterValues = d.freeBlocks + 1
    BY <2>1, Constants, Small
  <2>3. d.freeBlocks \in Nat /\ d.freeBlocks <= DataBlocks
    <3>1. DataBlocks \in Nat
      BY Constants
    <3>2. QED
      BY <1>6, <1>7, <3>1
  <2>4. QED
    BY <2>1, <2>2, <2>3
<1>9. /\ d1 \in Disk /\ d1.inode = d.inode /\ d1.used = d.used /\ d1.freeInodes = d.freeInodes
      /\ d1.block = d.block /\ d1.bitmap = d.bitmap \ {b} /\ d1.freeBlocks = d.freeBlocks
  BY <1>2 DEF Disk
<1>10. /\ d2 \in Disk /\ d2.inode = d.inode /\ d2.used = d.used /\ d2.freeInodes = d.freeInodes
       /\ d2.block = d.block /\ d2.bitmap = d.bitmap \ {b}
       /\ d2.freeBlocks = r0.disk.freeBlocks + (c + 1)
  <2> HIDE DEF d1
  <2>1. r0.disk.freeBlocks + (c + 1) \in Nat
    BY <1>6
  <2>2. QED
    BY <1>8, <1>9, <2>1 DEF Disk
<1> HIDE DEF d1, d2
<1>11. /\ r1 \in Runs /\ r1.disk = d1 /\ r1.inode = r.inode /\ r1.ok = TRUE
       /\ r1.trail = r.trail \cup {d1}
  BY <1>2, <1>9, Written
<1> HIDE DEF r1
<1>12. /\ r2 \in Runs /\ r2.disk = d2 /\ r2.inode = r.inode /\ r2.ok = TRUE
       /\ r2.trail = r1.trail \cup {d2}
  BY <1>10, <1>11, Written
<1>13. FreeBlock(r, b) = r2
  <2>1. b \in d.bitmap
    BY <1>3, <1>4, <1>7
  <2>2. FreeBlock(r, b) = Count(Unmark(r, b), 1)
    BY <1>3, <2>1 DEF FreeBlock
  <2>3. Unmark(r, b) = r1
    BY DEF Unmark, r1, d1
  <2>4. Count(r1, 1) = r2
    BY <1>11 DEF Count, d2
  <2>5. QED
    BY <2>2, <2>3, <2>4
<1> HIDE DEF r2
<1>14. Gap(d1, r0) /\ Gap(d2, r0)
  <2>1. /\ d.inode = r0.disk.inode /\ d.used = r0.disk.used /\ d.freeInodes = r0.disk.freeInodes
        /\ Thinner(d, r0.disk)
    BY DEF Freeing
  <2>2. Thinner(d1, r0.disk) /\ Thinner(d2, r0.disk)
    BY <1>9, <1>10, <2>1 DEF Thinner
  <2>3. ~ (r0.disk.bitmap \subseteq d1.bitmap) /\ ~ (r0.disk.bitmap \subseteq d2.bitmap)
    BY <1>3, <1>9, <1>10
  <2>4. d1.freeBlocks <= DataBlocks /\ d2.freeBlocks <= DataBlocks
    BY <1>6, <1>8, <1>9, <1>10
  <2>5. QED
    BY <1>9, <1>10, <2>1, <2>2, <2>3, <2>4 DEF Gap
<1>15. Freeing(r2, r0, keep, S \cup {s0}, D)
  <2>1. /\ r2.disk.inode = r0.disk.inode /\ r2.disk.used = r0.disk.used
        /\ r2.disk.freeInodes = r0.disk.freeInodes
        /\ Alike(r2.inode, r0.inode) /\ Below(r2.inode, r0.inode)
        /\ D \subseteq S \cup {s0}
    BY <1>10, <1>12 DEF Freeing
  <2>2. Thinner(r2.disk, r0.disk) /\ Touches(r0, r2)
    <3>1. Thinner(r.disk, r0.disk) /\ Touches(r0, r)
      BY DEF Freeing
    <3>2. r2.disk.block = r.disk.block
      BY <1>10, <1>12
    <3>3. Thinner(r2.disk, r0.disk)
      BY <3>1, <3>2 DEF Thinner
    <3>4. Touches(r0, r2)
      BY <3>1, <3>2 DEF Touches
    <3>5. QED
      BY <3>3, <3>4
  <2>3. r2.disk.bitmap = r0.disk.bitmap \ Of(r0, S \cup {s0})
    BY <1>5, <1>7, <1>10, <1>12
  <2>4. r2.disk.freeBlocks = r0.disk.freeBlocks + Cardinality(Of(r0, S \cup {s0}))
    BY <1>5, <1>6, <1>10, <1>12
  <2>5. Slots0(r2, r0, D)
    <3>1. ASSUME NEW s \in Slot PROVE Now(r2, s) = Now(r, s)
      BY <1>10, <1>12 DEF Now, At, Ent
    <3>2. QED
      BY <3>1 DEF Slots0, Freeing
  <2>6. \A x \in r2.trail : x \in r0.trail \/ Gap(x, r0)
    BY <1>11, <1>12, <1>14 DEF Freeing
  <2>7. QED
    BY <1>1, <1>12, <2>1, <2>2, <2>3, <2>4, <2>5, <2>6 DEF Freeing
<1>16. QED
  BY <1>10, <1>12, <1>13, <1>15 DEF Frees
\* The pointer blocks of an inode, and that they are different ones.
LEMMA Branches ==
    ASSUME NEW d, NEW I \in InodeRec, Tree(d, I), Own(d, I)
    PROVE  Branching(d, I)
<1> DEFINE L(k) == Ent(d, I.double, k)
<1>1. /\ At(d, I, <<"single", 0, 0>>) = I.single /\ At(d, I, <<"double", 0, 0>>) = I.double
      /\ \A k : At(d, I, <<"level 1", 0, k>>) = L(k)
  BY DEF At
<1>2. /\ I.single # NoBlock => d.block[I.single] \in PtrBlock /\ I.single \in DataRegion
      /\ I.double # NoBlock => d.block[I.double] \in PtrBlock /\ I.double \in DataRegion
      /\ \A k \in Entry : L(k) # NoBlock => d.block[L(k)] \in PtrBlock /\ L(k) \in DataRegion
  <2>1. I.single \in Ptr /\ I.double \in Ptr
    BY DEF InodeRec
  <2>2. \A k \in Entry : L(k) \in Ptr
    BY AtType
  <2>3. /\ I.single # NoBlock => d.block[I.single] \in PtrBlock
        /\ I.double # NoBlock => d.block[I.double] \in PtrBlock
        /\ \A k \in Entry : L(k) # NoBlock => d.block[L(k)] \in PtrBlock
    BY TreeIs
  <2> HIDE DEF L
  <2>4. QED
    BY <2>1, <2>2, <2>3 DEF Ptr
<1>3. \A s, t \in PtrSlot : At(d, I, s) = At(d, I, t) /\ At(d, I, s) # NoBlock => s = t
  BY Slots DEF Own
<1>4. \A k, l \in Entry : <<"level 1", 0, k>> = <<"level 1", 0, l>> => k = l
  OBVIOUS
<1>5. \A k \in Entry : /\ <<"level 1", 0, k>> # <<"single", 0, 0>>
                       /\ <<"level 1", 0, k>> # <<"double", 0, 0>>
  OBVIOUS
<1>6. <<"single", 0, 0>> # <<"double", 0, 0>>
  OBVIOUS
<1>7. /\ I.single # NoBlock => I.single # I.double
      /\ I.single # NoBlock => \A k \in Entry : I.single # L(k)
  BY <1>1, <1>3, <1>5, <1>6, Slots
<1>8. I.double # NoBlock => \A k \in Entry : I.double # L(k)
  BY <1>1, <1>3, <1>5, Slots
<1>9. \A k, l \in Entry : L(k) = L(l) /\ L(k) # NoBlock => k = l
  BY <1>1, <1>3, <1>4, Slots
<1>10. QED
  BY <1>2, <1>7, <1>8, <1>9 DEF Branching

\* Some entries of the pointer block in slot q are forgotten.
Kids(q, gone) == {Child(q, i) : i \in gone}

Childless(d, I, q, gone) ==
    q[1] = "double" =>
        \A s \in Slot : s[1] = "level 2" /\ s[2] \in gone => At(d, I, s) = NoBlock

Kin(q, gone, s) ==
    \/ q[1] = "single" /\ s[1] = "by single" /\ s[3] \in gone
    \/ q[1] = "double" /\ s[1] = "level 1" /\ s[3] \in gone
    \/ q[1] = "level 1" /\ s[1] = "level 2" /\ s[2] = q[3] /\ s[3] \in gone

\* Which slots are the forgotten entries of a pointer block.
LEMMA KidsAre ==
    ASSUME NEW q \in PtrSlot, NEW gone \in SUBSET Entry, NEW s \in Slot
    PROVE  /\ Kids(q, gone) \subseteq Slot
           /\ s \in Kids(q, gone) <=> Kin(q, gone, s)
<1>1. \A i \in Entry :
         s = Child(q, i) <=> \/ q[1] = "single" /\ s[1] = "by single" /\ s[3] = i
                             \/ q[1] = "double" /\ s[1] = "level 1" /\ s[3] = i
                             \/ q[1] = "level 1" /\ s[1] = "level 2" /\ s[2] = q[3] /\ s[3] = i
  BY ChildIs, Zenon
<1>2. s \in Kids(q, gone) <=> \E i \in gone : s = Child(q, i)
  BY DEF Kids
<1>3. Kids(q, gone) \subseteq Slot
  <2>1. \A i \in Entry : Child(q, i) \in Slot
    BY ChildIs
  <2>2. QED
    BY <2>1 DEF Kids
<1>4. QED
  BY <1>1, <1>2, <1>3 DEF Kin

\* Forgetting entries of a pointer block empties their slots and no other.
LEMMA ForgetAt ==
    ASSUME NEW d, NEW d2, NEW I \in InodeRec, NEW q \in PtrSlot, NEW gone \in SUBSET Entry,
           Tree(d, I), Own(d, I), At(d, I, q) # NoBlock,
           \A i \in Entry : d2.block[At(d, I, q)][i] =
                              IF i \in gone THEN NoBlock ELSE d.block[At(d, I, q)][i],
           \A x \in DataRegion \ {At(d, I, q)} : d2.block[x] = d.block[x],
           Childless(d, I, q, gone)
    PROVE  \A s \in Slot : At(d2, I, s) = IF s \in Kids(q, gone) THEN NoBlock ELSE At(d, I, s)
<1> DEFINE p == At(d, I, q)
           L(k) == Ent(d, I.double, k)
           c == Kids(q, gone)
<1>1. /\ I.single # NoBlock => I.single \in DataRegion
      /\ I.double # NoBlock => I.double \in DataRegion
      /\ \A k \in Entry : L(k) # NoBlock => L(k) \in DataRegion
      /\ I.single # NoBlock => I.single # I.double /\ \A k \in Entry : I.single # L(k)
      /\ I.double # NoBlock => \A k \in Entry : I.double # L(k)
      /\ \A k, l \in Entry : L(k) = L(l) /\ L(k) # NoBlock => k = l
  <2>1. Branching(d, I)
    BY Branches
  <2>2. QED
    BY <2>1, Zenon DEF Branching
<1>2. /\ p # NoBlock
      /\ \A i \in Entry : d2.block[p][i] = IF i \in gone THEN NoBlock ELSE d.block[p][i]
      /\ \A x \in DataRegion : x # p => d2.block[x] = d.block[x]
  OBVIOUS
<1>3. \A s \in Slot : s \in c <=> Kin(q, gone, s)
  BY KidsAre, Zenon
<1>4. q[1] = "double" => \A k \in gone : \A j \in Entry : Ent(d, L(k), j) = NoBlock
  <2> SUFFICES ASSUME q[1] = "double", NEW k \in gone, NEW j \in Entry
               PROVE  Ent(d, L(k), j) = NoBlock
    OBVIOUS
  <2>1. <<"level 2", k, j>> \in Slot
    BY Slots
  <2>2. At(d, I, <<"level 2", k, j>>) = NoBlock
    BY <2>1 DEF Childless
  <2>3. QED
    BY <2>2 DEF At
<1> HIDE DEF p, L, c
<1>5. CASE q[1] = "single"
  <2>1. p = I.single
    BY <1>5 DEF p, At
  <2>2. \A k \in Entry : Ent(d2, I.single, k) = IF k \in gone THEN NoBlock ELSE Ent(d, I.single, k)
    BY <1>2, <2>1 DEF Ent
  <2>3. \A k \in Entry : Ent(d2, I.double, k) = L(k)
    BY <1>1, <1>2, <2>1 DEF Ent, L
  <2>4. \A k, j \in Entry : Ent(d2, L(k), j) = Ent(d, L(k), j)
    BY <1>1, <1>2, <2>1 DEF Ent
  <2>5. ASSUME NEW s \in Slot PROVE At(d2, I, s) = IF s \in c THEN NoBlock ELSE At(d, I, s)
    <3>1. CASE s[1] = "by single"
      <4>1. s[2] = 0 /\ s[3] \in Entry
        BY <3>1 DEF Slot
      <4>2. s \in c <=> s[3] \in gone
        BY <1>3, <1>5, <3>1 DEF Kin
      <4>3. QED
        BY <2>2, <3>1, <4>1, <4>2 DEF At
    <3>2. CASE s[1] # "by single"
      <4>1. s \notin c
        BY <1>3, <1>5, <3>2 DEF Kin
      <4>2. QED
        <5>1. CASE s[1] \in {"direct", "single", "double"}
          BY <4>1, <5>1 DEF At
        <5>2. CASE s[1] \in {"level 1", "level 2"}
          <6>1. CASE s[1] = "level 1"
            BY <2>3, <4>1, <6>1 DEF At, Slot, L
          <6>2. CASE s[1] = "level 2"
            <7>1. s[2] \in Entry /\ s[3] \in Entry
              BY <6>2 DEF Slot
            <7>2. /\ At(d2, I, s) = Ent(d2, Ent(d2, I.double, s[2]), s[3])
                  /\ At(d, I, s) = Ent(d, L(s[2]), s[3])
              BY <6>2 DEF At, L
            <7>3. QED
              BY <2>3, <2>4, <4>1, <7>1, <7>2
          <6>3. QED
            BY <5>2, <6>1, <6>2
        <5>3. QED
          BY <3>2, <5>1, <5>2 DEF Slot, Kind
    <3>3. QED
      BY <3>1, <3>2
  <2>6. QED
    BY <2>5 DEF c
<1>6. CASE q[1] = "double"
  <2>1. p = I.double
    BY <1>6 DEF p, At
  <2>2. \A k \in Entry : Ent(d2, I.double, k) = IF k \in gone THEN NoBlock ELSE L(k)
    BY <1>2, <2>1 DEF Ent, L
  <2>3. \A k \in Entry : Ent(d2, I.single, k) = Ent(d, I.single, k)
    BY <1>1, <1>2, <2>1 DEF Ent
  <2>4. \A k, j \in Entry : Ent(d2, L(k), j) = Ent(d, L(k), j)
    BY <1>1, <1>2, <2>1 DEF Ent
  <2>5. \A k, j \in Entry : Ent(d2, Ent(d2, I.double, k), j) = Ent(d, L(k), j)
    <3> TAKE k, j \in Entry
    <3>1. CASE k \in gone
      BY <1>4, <1>6, <2>2, <3>1 DEF Ent
    <3>2. CASE k \notin gone
      BY <2>2, <2>4, <3>2
    <3>3. QED
      BY <3>1, <3>2
  <2>6. ASSUME NEW s \in Slot PROVE At(d2, I, s) = IF s \in c THEN NoBlock ELSE At(d, I, s)
    <3>1. CASE s[1] = "level 1"
      <4>1. s[2] = 0 /\ s[3] \in Entry
        BY <3>1 DEF Slot
      <4>2. s \in c <=> s[3] \in gone
        BY <1>3, <1>6, <3>1 DEF Kin
      <4>3. QED
        BY <2>2, <3>1, <4>1, <4>2 DEF At, L
    <3>2. CASE s[1] # "level 1"
      <4>1. s \notin c
        BY <1>3, <1>6, <3>2 DEF Kin
      <4>2. QED
        BY <2>3, <2>5, <3>2, <4>1 DEF At, Slot, L, Kind
    <3>3. QED
      BY <3>1, <3>2
  <2>7. QED
    BY <2>6 DEF c
<1>7. CASE q[1] = "level 1"
  <2>1. /\ q[3] \in Entry /\ p = L(q[3])
    BY <1>7 DEF p, At, L, PtrSlot, Slot
  <2>2. /\ \A k \in Entry : Ent(d2, I.single, k) = Ent(d, I.single, k)
        /\ \A k \in Entry : Ent(d2, I.double, k) = L(k)
    BY <1>1, <1>2, <2>1 DEF Ent, L
  <2>3. \A k, j \in Entry : Ent(d2, L(k), j) =
                              IF k = q[3] /\ j \in gone THEN NoBlock ELSE Ent(d, L(k), j)
    <3> TAKE k, j \in Entry
    <3>1. CASE k = q[3]
      BY <1>2, <2>1, <3>1 DEF Ent
    <3>2. CASE k # q[3]
      BY <1>1, <1>2, <2>1, <3>2 DEF Ent
    <3>3. QED
      BY <3>1, <3>2
  <2>4. ASSUME NEW s \in Slot PROVE At(d2, I, s) = IF s \in c THEN NoBlock ELSE At(d, I, s)
    <3>1. CASE s[1] = "level 2"
      <4>1. s[2] \in Entry /\ s[3] \in Entry
        BY <3>1 DEF Slot
      <4>2. s \in c <=> s[2] = q[3] /\ s[3] \in gone
        BY <1>3, <1>7, <3>1 DEF Kin
      <4>3. QED
        <5>1. At(d2, I, s) = Ent(d2, L(s[2]), s[3])
          BY <2>2, <3>1, <4>1 DEF At
        <5>2. At(d, I, s) = Ent(d, L(s[2]), s[3])
          BY <3>1 DEF At, L
        <5>3. QED
          BY <2>3, <4>1, <4>2, <5>1, <5>2
    <3>2. CASE s[1] # "level 2"
      <4>1. s \notin c
        BY <1>3, <1>7, <3>2 DEF Kin
      <4>2. QED
        BY <2>2, <3>2, <4>1 DEF At, Slot, L, Kind
    <3>3. QED
      BY <3>1, <3>2
  <2>5. QED
    BY <2>4 DEF c
<1>8. QED
  BY <1>5, <1>6, <1>7 DEF PtrSlot
\* What a run on the way has left of the inode.
LEMMA FreeingIs ==
    ASSUME NEW r, NEW r0, NEW d0, NEW n, Base(r0, d0, n), NEW keep, NEW S, NEW D,
           Freeing(r, r0, keep, S, D)
    PROVE  /\ r \in Runs /\ r.disk \in Disk /\ r.inode \in InodeRec /\ r.ok
           /\ S \subseteq Slot /\ D \subseteq S
           /\ Tree(r.disk, r.inode) /\ Own(r.disk, r.inode)
           /\ \A s \in Slot : Now(r, s) \in {NoBlock, Now(r0, s)}
           /\ \A s \in Slot : Now(r, s) = IF s \in D THEN NoBlock ELSE Now(r0, s)
<1>1. r \in Runs /\ r.disk \in Disk /\ r.inode \in InodeRec /\ r.ok
  BY DEF Freeing, Runs
<1>2. S \subseteq Slot /\ D \subseteq S
  BY DEF Freeing, Past
<1>3. \A s \in Slot : Now(r, s) = IF s \in D THEN NoBlock ELSE Now(r0, s)
  BY DEF Freeing, Slots0
<1>4. Tree(r0.disk, r0.inode) /\ Own(r0.disk, r0.inode) /\ r0.inode \in InodeRec
  BY BaseIs
<1>5. Tree(r.disk, r.inode)
  <2>1. Below(r.inode, r0.inode) /\ Thinner(r.disk, r0.disk)
    BY DEF Freeing
  <2>2. QED
    BY <1>1, <1>4, <2>1, Thin
<1>6. Own(r.disk, r.inode)
  <2> SUFFICES ASSUME NEW s \in Slot, NEW t \in Slot, Now(r, s) = Now(r, t), Now(r, s) # NoBlock
               PROVE  s = t
    BY DEF Own, Now
  <2>1. Now(r0, s) = Now(r0, t) /\ Now(r0, s) # NoBlock
    BY <1>3
  <2>2. QED
    BY <1>4, <2>1 DEF Own, Now
<1>7. QED
  BY <1>1, <1>2, <1>3, <1>5, <1>6

\* Slots whose blocks are free lose them.
Loses(r, r2, E) == \A s \in Slot : Now(r2, s) = IF s \in E THEN NoBlock ELSE Now(r, s)

\* Emptying slots whose blocks were freed goes on giving back.
LEMMA Drops ==
    ASSUME NEW r, NEW r0, NEW d0, NEW n, Base(r0, d0, n), NEW keep, NEW S, NEW D,
           Freeing(r, r0, keep, S, D), NEW r2 \in Runs, r2.ok, SameBooks(r, r2),
           Alike(r2.inode, r0.inode), Below(r2.inode, r0.inode), Thinner(r2.disk, r0.disk),
           Touches(r0, r2), NEW E \in SUBSET S, Loses(r, r2, E),
           \/ r2.trail = r.trail
           \/ r2.trail = r.trail \cup {r2.disk} /\ \E s \in S : Now(r0, s) # NoBlock
    PROVE  Freeing(r2, r0, keep, S, D \cup E)
<1>1. /\ r2.disk.inode = r0.disk.inode /\ r2.disk.used = r0.disk.used
      /\ r2.disk.freeInodes = r0.disk.freeInodes
      /\ r2.disk.bitmap = r0.disk.bitmap \ Of(r0, S)
      /\ r2.disk.freeBlocks = r0.disk.freeBlocks + Cardinality(Of(r0, S))
  BY DEF Freeing, SameBooks
<1>2. S \subseteq Past(keep) /\ D \cup E \subseteq S /\ S \in SUBSET Slot
  BY DEF Freeing, Past
<1>3. Slots0(r2, r0, D \cup E)
  BY DEF Freeing, Slots0, Loses
<1>4. \A x \in r2.trail : x \in r0.trail \/ Gap(x, r0)
  <2>1. \A x \in r.trail : x \in r0.trail \/ Gap(x, r0)
    BY DEF Freeing
  <2>2. ASSUME NEW s \in S, Now(r0, s) # NoBlock PROVE Gap(r2.disk, r0)
    <3>1. Now(r0, s) \in DataRegion /\ Now(r0, s) \in r0.disk.bitmap
      BY <1>2, <2>2, BaseIs
    <3>2. Now(r0, s) \in Of(r0, S)
      BY <3>1 DEF Of
    <3>3. ~ (r0.disk.bitmap \subseteq r2.disk.bitmap)
      BY <1>1, <3>1, <3>2
    <3>4. r2.disk.freeBlocks <= DataBlocks
      BY <1>1, <1>2, OfIs
    <3>5. r2.disk \in Disk
      BY DEF Runs
    <3>6. QED
      BY <1>1, <3>3, <3>4, <3>5 DEF Gap
  <2>3. QED
    BY <2>1, <2>2
<1>5. QED
  BY <1>1, <1>2, <1>3, <1>4 DEF Freeing

\* The direct pointers from keep on, one by one.
Directs(keep, k) == {s \in Past(keep) : s[1] = "direct" /\ s[3] < k}

\* One pass of the loop over the direct pointers.
LEMMA DropsDirect ==
    ASSUME NEW r, NEW r0, NEW d0, NEW n, Base(r0, d0, n), NEW keep \in Nat, NEW i \in Direct,
           Freeing(r, r0, keep, Directs(keep, i), Directs(keep, i))
    PROVE  Freeing(DropDirect(r, keep, i), r0, keep, Directs(keep, i + 1), Directs(keep, i + 1))
<1> DEFINE s0 == <<"direct", 0, i>>
           S == Directs(keep, i)
           r1 == FreeBlock(r, r.inode.direct[i])
           r2 == [r1 EXCEPT !.inode.direct[i] = NoBlock]
<1>1. /\ s0 \in Slot /\ s0 \notin S /\ First(s0) = i /\ Now(r, s0) = r.inode.direct[i]
      /\ s0[1] = "direct" /\ s0[2] = 0 /\ s0[3] = i
  <2>1. s0[1] = "direct" /\ s0[2] = 0 /\ s0[3] = i
    OBVIOUS
  <2>2. s0 \in Slot
    BY Slots
  <2> HIDE DEF s0
  <2>3. First(s0) = i /\ Now(r, s0) = r.inode.direct[i]
    BY <2>1 DEF First, Now, At
  <2>4. s0 \notin S
    BY <2>1, Constants DEF Directs, Direct
  <2>5. QED
    BY <2>1, <2>2, <2>3, <2>4
<1>2. \A s \in Slot : s = s0 <=> s[1] = "direct" /\ s[3] = i
  <2> TAKE s \in Slot
  <2>1. s = s0 <=> s[1] = "direct" /\ s[2] = 0 /\ s[3] = i
    BY <1>1, SameSlot
  <2>2. s[1] = "direct" => s[2] = 0
    BY DEF Slot
  <2>3. QED
    BY <2>1, <2>2
<1> HIDE DEF s0
<1>3. \A s \in Slot : s[1] = "direct" => s[3] \in Nat
  BY DEF Slot
<1>4. \A s \in Past(keep) : s \in Slot
  BY DEF Past
<1>5. i \in Nat
  BY Constants DEF Direct
<1>6. CASE i < keep
  <2>1. \A s \in Past(keep) : s # s0
    BY <1>1, <1>5, <1>6 DEF Past
  <2>2. Directs(keep, i + 1) = S
    <3>1. \A s \in Past(keep) : s[1] = "direct" => (s[3] < i + 1 <=> s[3] < i)
      BY <1>2, <1>3, <1>4, <1>5, <2>1
    <3>2. QED
      BY <3>1 DEF Directs
  <2>3. DropDirect(r, keep, i) = r
    BY <1>6 DEF DropDirect
  <2>4. QED
    BY <2>2, <2>3
<1>7. CASE ~ (i < keep)
  <2>1. s0 \in Past(keep)
    BY <1>1, <1>5, <1>7 DEF Past
  <2>2. Directs(keep, i + 1) = S \cup {s0}
    <3>1. \A s \in Past(keep) : s[1] = "direct" => (s[3] < i + 1 <=> s[3] < i \/ s[3] = i)
      BY <1>3, <1>4, <1>5
    <3>2. \A s \in Past(keep) : s = s0 <=> s[1] = "direct" /\ s[3] = i
      BY <1>2, <1>4
    <3>3. \A s \in Past(keep) : s \in Directs(keep, i + 1) <=> s \in S \cup {s0}
      BY <3>1, <3>2 DEF Directs
    <3>4. QED
      BY <2>1, <3>3 DEF Directs
  <2>3. Now(r, s0) = Now(r0, s0)
    BY <1>1, FreeingIs
  <2>4. CASE r.inode.direct[i] = NoBlock
    <3>1. DropDirect(r, keep, i) = r
      BY <2>4 DEF DropDirect
    <3>2. Now(r0, s0) = NoBlock
      BY <1>1, <2>3, <2>4
    <3>3. {s0} \in SUBSET Past(keep) /\ {s0} \in SUBSET {s0}
      BY <2>1
    <3> HIDE DEF S
    <3>4. Freeing(r, r0, keep, S, S)
      BY DEF S
    <3>5. Freeing(r, r0, keep, S \cup {s0}, S \cup {s0})
      BY <3>2, <3>3, <3>4, Pad
    <3>6. QED
      BY <2>2, <3>1, <3>5
  <2>5. CASE r.inode.direct[i] # NoBlock
    <3>1. DropDirect(r, keep, i) = r2
      BY <1>7, <2>5 DEF DropDirect
    <3>2. s0 \in Past(keep) \ S /\ Now(r0, s0) # NoBlock /\ Now(r0, s0) = r.inode.direct[i]
      BY <1>1, <2>1, <2>3, <2>5
    <3>3. /\ Freeing(r1, r0, keep, S \cup {s0}, S)
          /\ r1.inode = r.inode /\ r1.disk.block = r.disk.block
      <4>1. Frees(r, FreeBlock(r, Now(r0, s0)), r0, keep, S \cup {s0}, S)
        BY <3>2, FreesBlock
      <4>2. QED
        BY <3>2, <4>1 DEF Frees
    <3> HIDE DEF r1, S
    <3>4. /\ r1 \in Runs /\ r1.disk \in Disk /\ r1.inode \in InodeRec /\ r1.ok
          /\ Tree(r1.disk, r1.inode)
      BY <3>3, FreeingIs
    <3>5. NoBlock \in Ptr
      BY DEF Ptr
    <3>6. /\ [r1.inode EXCEPT !.direct[i] = NoBlock] \in InodeRec
          /\ \A s \in Slot : At(r1.disk, [r1.inode EXCEPT !.direct[i] = NoBlock], s) =
                               IF s = s0 THEN NoBlock ELSE At(r1.disk, r1.inode, s)
      BY <3>4, <3>5, TakeDirect DEF s0
    <3>7. /\ r2.disk = r1.disk /\ r2.ok /\ r2.trail = r1.trail /\ r2 \in Runs
          /\ r2.inode = [r1.inode EXCEPT !.direct[i] = NoBlock]
      BY <3>4, <3>6 DEF Runs
    <3>8. Loses(r1, r2, {s0})
      BY <3>6, <3>7 DEF Loses, Now
    <3>9. Alike(r1.inode, r0.inode) /\ Below(r1.inode, r0.inode)
      BY <3>3 DEF Freeing
    <3>10. Alike(r2.inode, r0.inode)
      BY <3>4, <3>7, <3>9 DEF Alike, InodeRec
    <3>11. Below(r2.inode, r0.inode)
      BY <3>4, <3>7, <3>9 DEF Below, InodeRec
    <3>12. Thinner(r2.disk, r0.disk) /\ Touches(r0, r2)
      BY <3>3, <3>7 DEF Freeing, Touches
    <3>13. SameBooks(r1, r2)
      BY <3>7 DEF SameBooks
    <3> HIDE DEF r2
    <3>14. Freeing(r2, r0, keep, S \cup {s0}, S \cup {s0})
      BY <3>3, <3>7, <3>8, <3>10, <3>11, <3>12, <3>13, Drops
    <3>15. QED
      BY <2>2, <3>1, <3>14
  <2>6. QED
    BY <2>4, <2>5
<1>8. QED
  BY <1>6, <1>7

\* The whole loop over the direct pointers.
LEMMA FreesDirect ==
    ASSUME NEW r, NEW d0, NEW n, Base(r, d0, n), NEW keep \in Nat
    PROVE  Freeing(FreeDirect(r, keep), r, keep,
                   Directs(keep, DirectBlocks), Directs(keep, DirectBlocks))
<1> DEFINE T == [k \in 0 .. DirectBlocks |->
                   {x \in Runs : Freeing(x, r, keep, Directs(keep, k), Directs(keep, k))}]
<1>1. DirectBlocks \in Nat
  BY Constants
<1>2. r \in T[0]
  <2>1. Directs(keep, 0) = {}
    <3>1. \A s \in Slot : s[1] = "direct" => s[3] \in Nat
      BY DEF Slot, Direct
    <3>2. \A x \in Nat : ~ (x < 0)
      OBVIOUS
    <3>3. QED
      BY <3>1, <3>2 DEF Directs, Past
  <2>2. Freeing(r, r, keep, {}, {}) /\ r \in Runs
    BY FreesNothing, BaseIs
  <2>3. QED
    BY <1>1, <2>1, <2>2
<1>3. ASSUME NEW k \in 1 .. DirectBlocks, NEW s \in T[k - 1]
      PROVE  DropDirect(s, keep, 0 + k - 1) \in T[k]
  <2>1. k - 1 \in 0 .. DirectBlocks /\ k - 1 \in Direct /\ 0 + k - 1 = k - 1 /\ k - 1 + 1 = k
        /\ k \in 0 .. DirectBlocks
    BY <1>1 DEF Direct
  <2>2. Freeing(s, r, keep, Directs(keep, k - 1), Directs(keep, k - 1))
    BY <1>3, <2>1
  <2>3. Freeing(DropDirect(s, keep, k - 1), r, keep, Directs(keep, k), Directs(keep, k))
    BY <2>1, <2>2, DropsDirect
  <2>4. DropDirect(s, keep, k - 1) \in Runs
    BY <2>3 DEF Freeing
  <2>5. QED
    BY <2>1, <2>3, <2>4
<1> HIDE DEF T
<1>4. FreeDirect(r, keep) \in T[DirectBlocks]
  BY <1>1, <1>2, <1>3, FreeDirectLoop
<1>5. QED
  BY <1>1, <1>4 DEF T
\* Freed entries are no longer in their pointer block.
LEMMA ForgetsEntries ==
    ASSUME NEW r, NEW r0, NEW d0, NEW n, Base(r0, d0, n), NEW keep, NEW S, NEW D,
           Freeing(r, r0, keep, S, D), NEW q \in PtrSlot, Now(r, q) # NoBlock,
           NEW gone \in SUBSET Entry, Kids(q, gone) \subseteq S,
           Childless(r.disk, r.inode, q, gone),
           \A s \in Kids(q, gone) : Now(r0, s) # NoBlock
    PROVE  Freeing(ForgetEntries(r, Now(r, q), gone), r0, keep, S, D \cup Kids(q, gone))
<1> DEFINE p == Now(r, q)
           ptrs == [i \in DOMAIN r.disk.block[p] |-> IF i \in gone THEN NoBlock ELSE r.disk.block[p][i]]
           d2 == [r.disk EXCEPT !.block[p] = ptrs]
           r2 == Write(r, d2)
<1>1. CASE gone = {}
  <2>1. ForgetEntries(r, p, gone) = r /\ Kids(q, gone) = {}
    BY <1>1 DEF ForgetEntries, Kids
  <2>2. D \cup {} = D
    OBVIOUS
  <2>3. QED
    BY <2>1, <2>2
<1>2. CASE gone # {}
  <2>1. /\ r \in Runs /\ r.disk \in Disk /\ r.inode \in InodeRec /\ r.ok
        /\ Tree(r.disk, r.inode) /\ Own(r.disk, r.inode)
        /\ \A s \in Slot : Now(r, s) \in {NoBlock, Now(r0, s)}
    BY FreeingIs
  <2>2. p # NoBlock /\ p \in DataRegion /\ r.disk.block[p] \in PtrBlock /\ p = Now(r0, q)
    <3>1. q \in Slot
      BY Slots
    <3>2. p \in Ptr
      BY <2>1, <3>1, AtType DEF Now
    <3>3. r.disk.block[p] \in PtrBlock
      BY <2>1 DEF Tree, Now
    <3>4. QED
      BY <2>1, <3>1, <3>2, <3>3 DEF Ptr
  <2>3. /\ ptrs \in PtrBlock
        /\ \A i \in Entry : ptrs[i] = IF i \in gone THEN NoBlock ELSE r.disk.block[p][i]
    BY <2>2 DEF PtrBlock, Ptr
  <2> HIDE DEF ptrs
  <2>4. /\ d2 \in Disk /\ d2.block[p] = ptrs /\ \A x \in DataRegion \ {p} : d2.block[x] = r.disk.block[x]
        /\ d2.inode = r.disk.inode /\ d2.used = r.disk.used /\ d2.freeInodes = r.disk.freeInodes
        /\ d2.bitmap = r.disk.bitmap /\ d2.freeBlocks = r.disk.freeBlocks
    BY <2>1, <2>2, <2>3 DEF Disk
  <2>5. ForgetEntries(r, p, gone) = r2
    BY <1>2 DEF ForgetEntries, ptrs
  <2> HIDE DEF d2
  <2>6. /\ r2 \in Runs /\ r2.ok = TRUE /\ r2.disk = d2 /\ r2.inode = r.inode
        /\ r2.trail = r.trail \cup {d2}
    <3>1. r \in Runs /\ r.ok /\ d2 \in Disk
      BY <2>1, <2>4
    <3>2. QED
      BY <3>1, Written
  <2>7. Loses(r, r2, Kids(q, gone))
    <3>1. \A i \in Entry : d2.block[At(r.disk, r.inode, q)][i] =
             IF i \in gone THEN NoBlock ELSE r.disk.block[At(r.disk, r.inode, q)][i]
      BY <2>3, <2>4 DEF Now
    <3>2. \A x \in DataRegion \ {At(r.disk, r.inode, q)} : d2.block[x] = r.disk.block[x]
      BY <2>4 DEF Now
    <3>3. At(r.disk, r.inode, q) # NoBlock
      BY <2>2 DEF Now
    <3>4. \A s \in Slot : At(d2, r.inode, s) =
             IF s \in Kids(q, gone) THEN NoBlock ELSE At(r.disk, r.inode, s)
      BY <2>1, <3>1, <3>2, <3>3, ForgetAt
    <3>5. QED
      BY <2>6, <3>4 DEF Loses, Now
  <2> HIDE DEF r2
  <2>8. SameBooks(r, r2)
    BY <2>4, <2>6 DEF SameBooks
  <2>9. Alike(r2.inode, r0.inode) /\ Below(r2.inode, r0.inode)
    BY <2>6 DEF Freeing
  <2>10. Thinner(r2.disk, r0.disk)
    <3>1. Thinner(r.disk, r0.disk)
      BY DEF Freeing
    <3>2. ASSUME NEW x \in DataRegion, x # p
          PROVE  \/ r2.disk.block[x] = r0.disk.block[x]
                 \/ /\ r2.disk.block[x] \in PtrBlock
                    /\ \A i \in Entry : r2.disk.block[x][i] \in {NoBlock, r0.disk.block[x][i]}
      BY <2>4, <2>6, <3>1, <3>2 DEF Thinner
    <3>3. /\ r2.disk.block[p] \in PtrBlock
          /\ \A i \in Entry : r2.disk.block[p][i] \in {NoBlock, r0.disk.block[p][i]}
      <4>1. \A i \in Entry : r.disk.block[p][i] \in {NoBlock, r0.disk.block[p][i]}
        BY <2>2, <3>1 DEF Thinner
      <4>2. QED
        BY <2>3, <2>4, <2>6, <4>1
    <3>4. QED
      BY <3>2, <3>3 DEF Thinner
  <2>11. Touches(r0, r2)
    <3> SUFFICES ASSUME NEW x \in DataRegion, \A t \in PtrSlot : Now(r0, t) # x
                 PROVE  r2.disk.block[x] = r0.disk.block[x]
      BY DEF Touches
    <3>1. x # p
      BY <2>2
    <3>2. r.disk.block[x] = r0.disk.block[x]
      BY DEF Freeing, Touches
    <3>3. QED
      BY <2>4, <2>6, <3>1, <3>2
  <2>12. \E s \in S : Now(r0, s) # NoBlock
    <3>1. \E i \in gone : Child(q, i) \in Kids(q, gone)
      BY <1>2 DEF Kids
    <3>2. QED
      BY <3>1
  <2>13. Freeing(r2, r0, keep, S, D \cup Kids(q, gone))
    <3>1. Kids(q, gone) \in SUBSET S
      OBVIOUS
    <3>2. QED
      BY <2>6, <2>7, <2>8, <2>9, <2>10, <2>11, <2>12, <3>1, Drops
  <2>14. QED
    BY <2>5, <2>13
<1>3. QED
  BY <1>1, <1>2

\* The entries of a pointer block from one on.
Above(from) == {i \in Entry : i >= from}
Splits(q, from, keep) == \A i \in Entry : i >= from <=> First(Child(q, i)) >= keep

\* Freeing the entries of a pointer block from one on, and forgetting them.
LEMMA FreesEntries ==
    ASSUME NEW r, NEW r0, NEW d0, NEW n, Base(r0, d0, n), NEW keep \in Nat, NEW S, NEW D,
           Freeing(r, r0, keep, S, D), NEW q \in PtrSlot, q[1] # "double", Now(r, q) # NoBlock,
           NEW from \in Nat, Splits(q, from, keep), S \cap Kids(q, Entry) = {}
    PROVE  Freeing(FreeEntries(r, Now(r, q), from), r0, keep,
                   S \cup Kids(q, Above(from)), D \cup Kids(q, Above(from)))
<1> DEFINE p == Now(r, q)
           ptrs == r.disk.block[p]
           Part(k) == {i \in Entry : i >= from /\ i < k}
           T == [k \in 0 .. PtrsPerBlock |->
                   {x \in Runs : /\ Freeing(x, r0, keep, S \cup Kids(q, Part(k)), D)
                                 /\ x.inode = r.inode /\ x.disk.block = r.disk.block}]
           live == Live(ptrs, from)
<1>1. PtrsPerBlock \in Nat
  BY Constants
<1>2. /\ r \in Runs /\ S \subseteq Slot /\ D \subseteq S
      /\ Tree(r.disk, r.inode) /\ Own(r.disk, r.inode)
      /\ \A s \in Slot : Now(r, s) = IF s \in D THEN NoBlock ELSE Now(r0, s)
  BY FreeingIs
<1>3. ptrs \in PtrBlock
  BY <1>2 DEF Tree, Now
<1>4. \A i \in Entry : /\ Child(q, i) \in Slot /\ Child(q, i) \notin S
                       /\ ptrs[i] = Now(r, Child(q, i)) /\ ptrs[i] = Now(r0, Child(q, i))
  <2> TAKE i \in Entry
  <2>1. Child(q, i) \in Slot
    BY Slots, ChildIs
  <2>2. Child(q, i) \in Kids(q, Entry)
    BY DEF Kids
  <2>3. Now(r, Child(q, i)) = Ent(r.disk, p, i)
    BY AtChild DEF Now
  <2>4. QED
    BY <1>2, <2>1, <2>2, <2>3 DEF Ent
<1>5. \A i, j \in Entry : Child(q, i) = Child(q, j) => i = j
  <2>1. \A s \in Slot : \A i \in Entry :
           s = Child(q, i) <=> \/ q[1] = "single" /\ s[1] = "by single" /\ s[3] = i
                               \/ q[1] = "double" /\ s[1] = "level 1" /\ s[3] = i
                               \/ q[1] = "level 1" /\ s[1] = "level 2" /\ s[2] = q[3] /\ s[3] = i
    BY ChildIs, Zenon
  <2>2. q[1] \in {"single", "double", "level 1"}
    BY DEF PtrSlot
  <2>3. TAKE i, j \in Entry
  <2>4. HAVE Child(q, i) = Child(q, j)
  <2> DEFINE c == Child(q, i)
  <2>5. c \in Slot /\ c = Child(q, i) /\ c = Child(q, j)
    BY <1>4, <2>4
  <2> HIDE DEF c
  <2>6. c[3] = i /\ c[3] = j
    BY <2>1, <2>2, <2>5
  <2>7. QED
    BY <2>6
<1>6. \A i \in Entry : i \in Nat /\ (i \in live <=> i >= from /\ ptrs[i] # NoBlock)
  BY <1>3, Constants DEF Live, PtrBlock, Entry
<1>7. live \subseteq Above(from)
  BY <1>3 DEF Live, PtrBlock, Above
<1> HIDE DEF ptrs, p
<1>8. r \in T[0]
  <2>1. Part(0) = {}
    BY <1>6
  <2>2. Kids(q, Part(0)) = {}
    BY <2>1 DEF Kids
  <2>3. S \cup {} = S
    OBVIOUS
  <2>4. Freeing(r, r0, keep, S \cup Kids(q, Part(0)), D)
    BY <2>2, <2>3
  <2>5. 0 \in 0 .. PtrsPerBlock
    BY <1>1
  <2>6. QED
    BY <1>2, <2>4, <2>5
<1>8a. ASSUME NEW x, NEW U, NEW s0 \in Past(keep) \ U, Freeing(x, r0, keep, U, D),
              Now(r0, s0) # NoBlock
       PROVE  /\ Freeing(FreeBlock(x, Now(r0, s0)), r0, keep, U \cup {s0}, D)
              /\ FreeBlock(x, Now(r0, s0)).inode = x.inode
              /\ FreeBlock(x, Now(r0, s0)).disk.block = x.disk.block
  <2>1. Frees(x, FreeBlock(x, Now(r0, s0)), r0, keep, U \cup {s0}, D)
    BY <1>8a, FreesBlock
  <2>2. QED
    BY <2>1 DEF Frees
<1>9. ASSUME NEW k \in 1 .. PtrsPerBlock, NEW x \in T[k - 1]
      PROVE  FreeEntry(x, ptrs, from, 0 + k - 1) \in T[k]
  <2> DEFINE i == k - 1
             c == Child(q, i)
             S1 == S \cup Kids(q, Part(i))
  <2>1. i \in 0 .. PtrsPerBlock /\ i \in Entry /\ 0 + k - 1 = i /\ i + 1 = k
        /\ k \in 0 .. PtrsPerBlock /\ i \in Nat
    BY <1>1 DEF Entry
  <2>2. /\ Freeing(x, r0, keep, S1, D) /\ x \in Runs
        /\ x.inode = r.inode /\ x.disk.block = r.disk.block
    BY <1>9, <2>1
  <2>3. \A j \in Entry : j < k <=> j < i \/ j = i
    BY <1>6, <2>1
  <2>4. c \in Slot /\ c \notin S1 /\ ptrs[i] = Now(r0, c)
    <3>1. i \notin Part(i)
      BY <2>1
    <3>2. c \notin Kids(q, Part(i))
      BY <1>5, <2>1, <3>1 DEF Kids
    <3>3. QED
      BY <1>4, <2>1, <3>2
  <2>5. S1 \subseteq Past(keep)
    BY <2>2 DEF Freeing
  <2> HIDE DEF T, live
  <2>6. ASSUME ~ (i >= from) PROVE FreeEntry(x, ptrs, from, i) \in T[k]
    <3>1. Part(k) = Part(i)
      BY <2>3, <2>6
    <3>2. i \notin Live(ptrs, from)
      BY <1>6, <2>1, <2>6 DEF live
    <3>3. FreeEntry(x, ptrs, from, i) = x
      BY <3>2 DEF FreeEntry
    <3>4. QED
      BY <2>1, <2>2, <3>1, <3>3 DEF T
  <2>7. ASSUME i >= from
        PROVE  /\ S \cup Kids(q, Part(k)) = S1 \cup {c}
               /\ c \in Past(keep) \ S1
    <3>1. Part(k) = Part(i) \cup {i}
      BY <2>1, <2>3, <2>7
    <3>2. Kids(q, Part(k)) = Kids(q, Part(i)) \cup {c}
      BY <3>1 DEF Kids
    <3>3. First(c) >= keep
      BY <2>1, <2>7 DEF Splits
    <3>4. QED
      BY <2>4, <3>2, <3>3 DEF Past
  <2>8. ASSUME i >= from, ptrs[i] = NoBlock PROVE FreeEntry(x, ptrs, from, i) \in T[k]
    <3>1. FreeEntry(x, ptrs, from, i) = x
      BY <1>6, <2>1, <2>8 DEF FreeEntry, live
    <3>2. {c} \in SUBSET Past(keep) /\ {} \in SUBSET {c} /\ D \cup {} = D
      BY <2>7, <2>8
    <3>3. Now(r0, c) = NoBlock
      BY <2>4, <2>8
    <3> HIDE DEF c, S1
    <3>4. Freeing(x, r0, keep, S1 \cup {c}, D \cup {})
      BY <2>2, <3>2, <3>3, Pad
    <3>5. QED
      BY <2>1, <2>2, <2>7, <2>8, <3>1, <3>2, <3>4 DEF T
  <2>9. ASSUME i >= from, ptrs[i] # NoBlock PROVE FreeEntry(x, ptrs, from, i) \in T[k]
    <3>1. FreeEntry(x, ptrs, from, i) = FreeBlock(x, Now(r0, c))
      BY <1>6, <2>1, <2>4, <2>9 DEF FreeEntry, live
    <3>2. Now(r0, c) # NoBlock /\ c \in Past(keep) \ S1
      BY <2>4, <2>7, <2>9
    <3> HIDE DEF c, S1
    <3>3. /\ Freeing(FreeBlock(x, Now(r0, c)), r0, keep, S1 \cup {c}, D)
          /\ FreeBlock(x, Now(r0, c)).inode = x.inode
          /\ FreeBlock(x, Now(r0, c)).disk.block = x.disk.block
      <4>1. Freeing(x, r0, keep, S1, D)
        BY <2>2
      <4>2. QED
        BY <1>8a, <3>2, <4>1
    <3>4. FreeBlock(x, Now(r0, c)) \in Runs
      BY <3>3 DEF Freeing
    <3>5. QED
      BY <2>1, <2>2, <2>7, <2>9, <3>1, <3>3, <3>4 DEF T
  <2>10. QED
    BY <2>1, <2>6, <2>8, <2>9
<1> HIDE DEF live
<1>10. PICK x \in T[PtrsPerBlock] : FreeEntries(r, p, from) = ForgetEntries(x, p, live)
  <2> HIDE DEF T
  <2>1. \A k \in 1 .. PtrsPerBlock : \A s \in T[k - 1] :
           FreeEntry(s, r.disk.block[p], from, 0 + k - 1) \in T[k]
    BY <1>9 DEF ptrs
  <2>2. \E s \in T[PtrsPerBlock] :
           FreeEntries(r, p, from) = ForgetEntries(s, p, Live(r.disk.block[p], from))
    BY <1>1, <1>8, <2>1, FreeEntriesLoop
  <2>3. QED
    BY <2>2 DEF live, ptrs
<1> DEFINE K == Kids(q, Above(from))
           G == Kids(q, live)
<1>11. /\ Freeing(x, r0, keep, S \cup K, D) /\ x.inode = r.inode /\ x.disk.block = r.disk.block
  <2>1. Part(PtrsPerBlock) = Above(from)
    BY <1>1 DEF Entry, Above
  <2>2. PtrsPerBlock \in 0 .. PtrsPerBlock
    BY <1>1
  <2>3. T[PtrsPerBlock] = {y \in Runs : /\ Freeing(y, r0, keep, S \cup Kids(q, Above(from)), D)
                                        /\ y.inode = r.inode /\ y.disk.block = r.disk.block}
    BY <2>1, <2>2
  <2>4. QED
    BY <1>10, <2>3
<1>12. Now(x, q) = p
  BY <1>11 DEF p, Now, At, Ent
<1>13. /\ \A s \in G : Now(r0, s) # NoBlock /\ s \in K
       /\ \A s \in K \ G : Now(r0, s) = NoBlock
       /\ K \subseteq S \cup K /\ live \subseteq Entry
  <2>1. \A i \in Above(from) : i \in Entry /\ i >= from
    BY DEF Above
  <2>2. \A i \in Entry : i \in live => Now(r0, Child(q, i)) # NoBlock
    BY <1>4, <1>6
  <2>3. \A i \in Above(from) : i \notin live => Now(r0, Child(q, i)) = NoBlock
    BY <1>4, <1>6, <2>1
  <2>4. QED
    BY <1>7, <2>1, <2>2, <2>3 DEF Kids
<1> HIDE DEF T, K, G
<1>14. Freeing(ForgetEntries(x, p, live), r0, keep, S \cup K, D \cup G)
  <2>1. Childless(x.disk, x.inode, q, live)
    BY DEF Childless
  <2>2. p # NoBlock
    BY DEF p
  <2>3. Kids(q, live) \subseteq S \cup K
    BY <1>13 DEF G
  <2>4. \A s \in Kids(q, live) : Now(r0, s) # NoBlock
    BY <1>13 DEF G
  <2>5. Now(x, q) # NoBlock /\ live \in SUBSET Entry
    BY <1>12, <1>13, <2>2
  <2>6. Freeing(ForgetEntries(x, Now(x, q), live), r0, keep, S \cup K, D \cup Kids(q, live))
    BY <1>11, <2>1, <2>3, <2>4, <2>5, ForgetsEntries
  <2>7. QED
    BY <1>12, <2>6 DEF G
<1>15. Freeing(ForgetEntries(x, p, live), r0, keep, (S \cup K) \cup K, (D \cup G) \cup K)
  <2>1. K \in SUBSET Past(keep) /\ K \in SUBSET K
    BY <1>11 DEF Freeing
  <2>2. \A s \in K \ (S \cup K) : Now(r0, s) = NoBlock
    OBVIOUS
  <2>3. \A s \in K \ (D \cup G) : Now(r0, s) = NoBlock
    BY <1>13
  <2>4. QED
    BY <1>14, <2>1, <2>2, <2>3, Pad
<1>16. (S \cup K) \cup K = S \cup K /\ (D \cup G) \cup K = D \cup K
  BY <1>13
<1>17. QED
  BY <1>10, <1>15, <1>16 DEF K, p
\* Which slots are past the blocks kept.
LEMMA PastIs ==
    ASSUME NEW keep \in Nat, NEW s \in Slot
    PROVE  /\ s[1] = "direct" => (s \in Past(keep) <=> s[3] >= keep)
           /\ s[1] = "single" => (s \in Past(keep) <=> ~ (Beyond(keep, DirectBlocks) > 0))
           /\ s[1] = "by single" => (s \in Past(keep) <=> s[3] >= Beyond(keep, DirectBlocks))
           /\ s[1] = "double" =>
                 (s \in Past(keep) <=> ~ (Beyond(keep, DirectBlocks + PtrsPerBlock) > 0))
           /\ s[1] = "level 1" =>
                 (s \in Past(keep) <=>
                     s[3] * PtrsPerBlock >= Beyond(keep, DirectBlocks + PtrsPerBlock))
           /\ s[1] = "level 2" =>
                 (s \in Past(keep) <=>
                     s[2] * PtrsPerBlock + s[3] >= Beyond(keep, DirectBlocks + PtrsPerBlock))
<1>1. s \in Past(keep) <=> First(s) >= keep
  BY DEF Past
<1>2. DirectBlocks \in Nat /\ PtrsPerBlock \in Nat
  BY Constants
<1>3. CASE s[1] = "direct"
  BY <1>1, <1>3 DEF First
<1>4. CASE s[1] = "single"
  <2>1. First(s) = DirectBlocks
    BY <1>4 DEF First
  <2>2. QED
    BY <1>1, <1>2, <1>4, <2>1 DEF Beyond
<1>5. CASE s[1] = "by single"
  <2>1. First(s) = DirectBlocks + s[3] /\ s[3] \in Nat
    BY <1>5 DEF First, Slot
  <2>2. s[3] >= Beyond(keep, DirectBlocks) <=> First(s) >= keep
    BY <1>2, <2>1 DEF Beyond
  <2>3. QED
    BY <1>1, <1>5, <2>2
<1>6. CASE s[1] = "double"
  <2>1. First(s) = DirectBlocks + PtrsPerBlock
    BY <1>6 DEF First
  <2>2. QED
    BY <1>1, <1>2, <1>6, <2>1 DEF Beyond
<1>7. CASE s[1] = "level 1"
  <2>1. First(s) = DirectBlocks + PtrsPerBlock + s[3] * PtrsPerBlock /\ s[3] \in Nat
    BY <1>7 DEF First, Slot
  <2>2. PICK m \in Nat : m = s[3] * PtrsPerBlock
    BY <1>2, <2>1
  <2>3. First(s) = DirectBlocks + PtrsPerBlock + m
    BY <2>1, <2>2
  <2>4. m >= Beyond(keep, DirectBlocks + PtrsPerBlock) <=> First(s) >= keep
    BY <1>2, <2>3 DEF Beyond
  <2>5. QED
    BY <1>1, <1>7, <2>2, <2>4
<1>8. CASE s[1] = "level 2"
  <2>1. /\ First(s) = DirectBlocks + PtrsPerBlock + s[2] * PtrsPerBlock + s[3]
        /\ s[2] \in Nat /\ s[3] \in Nat
    BY <1>8 DEF First, Slot
  <2>2. PICK m \in Nat : m = s[2] * PtrsPerBlock
    BY <1>2, <2>1
  <2>3. First(s) = DirectBlocks + PtrsPerBlock + m + s[3]
    BY <2>1, <2>2
  <2>4. m + s[3] >= Beyond(keep, DirectBlocks + PtrsPerBlock) <=> First(s) >= keep
    BY <1>2, <2>1, <2>3 DEF Beyond
  <2>5. QED
    BY <1>1, <1>8, <2>2, <2>4
<1>9. QED
  BY <1>3, <1>4, <1>5, <1>6, <1>7, <1>8 DEF Slot, Kind

OfKind(keep, kinds) == {s \in Past(keep) : s[1] \in kinds}

\* The slots past the kept blocks, by kind.
LEMMA OfKindIs ==
    ASSUME NEW keep, NEW kinds
    PROVE  /\ OfKind(keep, kinds) \subseteq Past(keep) /\ OfKind(keep, kinds) \subseteq Slot
           /\ \A s \in Slot : s \in OfKind(keep, kinds) <=> s \in Past(keep) /\ s[1] \in kinds
  BY DEF OfKind, Past

\* An inode without one of its pointer blocks, which pointed at nothing.
Under(level) == IF level = "single" THEN "by single" ELSE "level 1"

\* Dropping an inode's pointer to a pointer block with nothing under it.
LEMMA DropRootAt ==
    ASSUME NEW d, NEW I \in InodeRec, NEW level \in {"single", "double"},
           \A s \in Slot : s[1] = Under(level) => At(d, I, s) = NoBlock
    PROVE  /\ [I EXCEPT ![level] = NoBlock] \in InodeRec
           /\ \A s \in Slot : At(d, [I EXCEPT ![level] = NoBlock], s) =
                                IF s = <<level, 0, 0>> THEN NoBlock ELSE At(d, I, s)
<1> DEFINE J == [I EXCEPT ![level] = NoBlock]
           s0 == <<level, 0, 0>>
<1>1. J \in InodeRec
  BY DEF InodeRec, Ptr
<1>2. s0[1] = level /\ s0[2] = 0 /\ s0[3] = 0 /\ s0 \in Slot
  BY Slots
<1> HIDE DEF s0
<1>3. \A s \in Slot : s = s0 <=> s[1] = level
  <2> TAKE s \in Slot
  <2>1. s = s0 <=> s[1] = level /\ s[2] = 0 /\ s[3] = 0
    BY <1>2, SameSlot
  <2>2. s[1] \in {"single", "double"} => s[2] = 0 /\ s[3] = 0
    BY DEF Slot
  <2>3. QED
    BY <2>1, <2>2
<1>4. level = "double" => \A k \in Entry : Ent(d, I.double, k) = NoBlock
  <2> SUFFICES ASSUME level = "double", NEW k \in Entry PROVE Ent(d, I.double, k) = NoBlock
    OBVIOUS
  <2>1. <<"level 1", 0, k>> \in Slot
    BY Slots
  <2>2. At(d, I, <<"level 1", 0, k>>) = NoBlock
    BY <2>1 DEF Under
  <2>3. QED
    BY <2>2 DEF At
<1>5. level = "single" => \A k \in Entry : Ent(d, I.single, k) = NoBlock
  <2> SUFFICES ASSUME level = "single", NEW k \in Entry PROVE Ent(d, I.single, k) = NoBlock
    OBVIOUS
  <2>1. <<"by single", 0, k>> \in Slot
    BY Slots
  <2>2. At(d, I, <<"by single", 0, k>>) = NoBlock
    BY <2>1 DEF Under
  <2>3. QED
    BY <2>2 DEF At
<1>6. /\ J.direct = I.direct
      /\ level = "single" => J.single = NoBlock /\ J.double = I.double
      /\ level = "double" => J.double = NoBlock /\ J.single = I.single
  BY DEF InodeRec
<1>7. \A k : Ent(d, NoBlock, k) = NoBlock
  BY DEF Ent
<1> HIDE DEF J
<1>8. ASSUME NEW s \in Slot PROVE At(d, J, s) = IF s = s0 THEN NoBlock ELSE At(d, I, s)
  <2>1. s = s0 <=> s[1] = level
    BY <1>3
  <2>2. CASE s[1] \in {"direct", "single", "double"}
    BY <1>6, <2>1, <2>2 DEF At
  <2>3. CASE s[1] = "by single"
    <3>1. s[3] \in Entry /\ s # s0
      BY <2>1, <2>3 DEF Slot
    <3>2. QED
      BY <1>5, <1>6, <1>7, <2>3, <3>1 DEF At
  <2>4. CASE s[1] = "level 1"
    <3>1. s[3] \in Entry /\ s # s0
      BY <2>1, <2>4 DEF Slot
    <3>2. QED
      BY <1>4, <1>6, <1>7, <2>4, <3>1 DEF At
  <2>5. CASE s[1] = "level 2"
    <3>1. s[2] \in Entry /\ s # s0
      BY <2>1, <2>5 DEF Slot
    <3>2. /\ At(d, J, s) = Ent(d, Ent(d, J.double, s[2]), s[3])
          /\ At(d, I, s) = Ent(d, Ent(d, I.double, s[2]), s[3])
      BY <2>5 DEF At
    <3>3. Ent(d, J.double, s[2]) = Ent(d, I.double, s[2])
      BY <1>4, <1>6, <1>7, <3>1
    <3>4. QED
      BY <3>1, <3>2, <3>3
  <2>6. QED
    BY <2>2, <2>3, <2>4, <2>5 DEF Slot, Kind
<1>9. QED
  BY <1>1, <1>8 DEF J, s0

\* The same as a step of giving back.
LEMMA DropsRoot ==
    ASSUME NEW r, NEW r0, NEW d0, NEW n, Base(r0, d0, n), NEW keep, NEW S, NEW D,
           Freeing(r, r0, keep, S, D), NEW level \in {"single", "double"},
           <<level, 0, 0>> \in Past(keep) \ S, Now(r0, <<level, 0, 0>>) # NoBlock,
           \A s \in Slot : s[1] = Under(level) => Now(r, s) = NoBlock
    PROVE  Freeing(DropRoot(r, level, 0), r0, keep,
                   S \cup {<<level, 0, 0>>}, D \cup {<<level, 0, 0>>})
<1> DEFINE s0 == <<level, 0, 0>>
           r1 == FreeBlock(r, r.inode[level])
           r2 == [r1 EXCEPT !.inode[level] = NoBlock]
<1>1. Now(r, s0) = r.inode[level] /\ s0 \in Slot
  BY Slots DEF Now, At
<1>2. DropRoot(r, level, 0) = r2
  BY DEF DropRoot
<1>3. s0 \in Past(keep) \ S /\ Now(r0, s0) # NoBlock
  OBVIOUS
<1> HIDE DEF s0
<1>4. Now(r0, s0) = r.inode[level]
  <2>1. s0 \notin D
    BY <1>3, FreeingIs
  <2>2. QED
    BY <1>1, <2>1, FreeingIs
<1>5. /\ Freeing(r1, r0, keep, S \cup {s0}, D)
      /\ r1.inode = r.inode /\ r1.disk.block = r.disk.block
  <2>1. /\ Freeing(FreeBlock(r, Now(r0, s0)), r0, keep, S \cup {s0}, D)
        /\ FreeBlock(r, Now(r0, s0)).inode = r.inode
        /\ FreeBlock(r, Now(r0, s0)).disk.block = r.disk.block
    <3>1. Frees(r, FreeBlock(r, Now(r0, s0)), r0, keep, S \cup {s0}, D)
      BY <1>3, FreesBlock
    <3>2. QED
      BY <3>1 DEF Frees
  <2>2. QED
    BY <1>4, <2>1
<1> HIDE DEF r1
<1>6. /\ r1 \in Runs /\ r1.disk \in Disk /\ r1.inode \in InodeRec /\ r1.ok
  BY <1>5, FreeingIs
<1>7. /\ [r1.inode EXCEPT ![level] = NoBlock] \in InodeRec
      /\ \A s \in Slot : At(r1.disk, [r1.inode EXCEPT ![level] = NoBlock], s) =
                           IF s = s0 THEN NoBlock ELSE At(r1.disk, r1.inode, s)
  <2>1. ASSUME NEW s \in Slot, s[1] = Under(level) PROVE At(r1.disk, r1.inode, s) = NoBlock
    <3>1. At(r.disk, r.inode, s) = NoBlock
      BY <2>1 DEF Now
    <3>2. QED
      BY <1>5, <3>1 DEF At, Ent
  <2>2. QED
    BY <1>6, <2>1, DropRootAt DEF s0
<1>8. /\ r2.disk = r1.disk /\ r2.ok /\ r2.trail = r1.trail /\ r2 \in Runs
      /\ r2.inode = [r1.inode EXCEPT ![level] = NoBlock]
  BY <1>6, <1>7 DEF Runs
<1>9. Loses(r1, r2, {s0})
  BY <1>7, <1>8 DEF Loses, Now
<1>10. Alike(r1.inode, r0.inode) /\ Below(r1.inode, r0.inode)
  BY <1>5 DEF Freeing
<1>11. Alike(r2.inode, r0.inode)
  BY <1>6, <1>8, <1>10 DEF Alike, InodeRec
<1>12. Below(r2.inode, r0.inode)
  BY <1>6, <1>8, <1>10 DEF Below, InodeRec
<1>13. Thinner(r2.disk, r0.disk) /\ Touches(r0, r2)
  BY <1>5, <1>8 DEF Freeing, Touches
<1>14. SameBooks(r1, r2)
  BY <1>8 DEF SameBooks
<1> HIDE DEF r2
<1>15. Freeing(r2, r0, keep, S \cup {s0}, D \cup {s0})
  <2>1. {s0} \in SUBSET (S \cup {s0})
    OBVIOUS
  <2>2. QED
    BY <1>5, <1>8, <1>9, <1>11, <1>12, <1>13, <1>14, <2>1, Drops
<1>16. QED
  BY <1>2, <1>15 DEF s0
\* The blocks behind the single-indirect pointer, and its own.
LEMMA FreesSingle ==
    ASSUME NEW r, NEW r0, NEW d0, NEW n, Base(r0, d0, n), NEW keep \in Nat,
           Freeing(r, r0, keep, OfKind(keep, {"direct"}), OfKind(keep, {"direct"}))
    PROVE  Freeing(FreeSingle(r, keep), r0, keep,
                   OfKind(keep, {"direct", "single", "by single"}),
                   OfKind(keep, {"direct", "single", "by single"}))
<1> DEFINE q == <<"single", 0, 0>>
           from == Beyond(keep, DirectBlocks)
           A == OfKind(keep, {"direct"})
           B == OfKind(keep, {"direct", "single", "by single"})
           K == Kids(q, Above(from))
           r1 == FreeEntries(r, r.inode.single, from)
<1>1. /\ q \in PtrSlot /\ q \in Slot /\ q[1] = "single" /\ Now(r, q) = r.inode.single
      /\ \A s \in Slot : s = q <=> s[1] = "single"
  <2>1. q[1] = "single" /\ q[2] = 0 /\ q[3] = 0 /\ q \in PtrSlot /\ q \in Slot
    BY Slots
  <2>2. Now(r, q) = r.inode.single
    BY DEF Now, At
  <2> HIDE DEF q
  <2>3. ASSUME NEW s \in Slot PROVE s = q <=> s[1] = "single"
    <3>1. s = q <=> s[1] = "single" /\ s[2] = 0 /\ s[3] = 0
      BY <2>1, SameSlot
    <3>2. s[1] = "single" => s[2] = 0 /\ s[3] = 0
      BY DEF Slot
    <3>3. QED
      BY <3>1, <3>2
  <2>4. QED
    BY <2>1, <2>2, <2>3
<1> HIDE DEF q
<1>2. from \in Nat
  BY Constants DEF Beyond
<1>3. A \subseteq Past(keep) /\ B \subseteq Past(keep) /\ A \subseteq B /\ B \subseteq Slot
      /\ \A s \in Slot : /\ s \in A <=> s \in Past(keep) /\ s[1] = "direct"
                         /\ s \in B <=> s \in Past(keep) /\ s[1] \in {"direct", "single", "by single"}
  BY OfKindIs DEF OfKind
<1>4. \A s \in Slot : s[1] = "by single" => (s \in Past(keep) <=> s[3] >= from)
  BY PastIs, Zenon
<1>5. q \in Past(keep) <=> ~ (from > 0)
  BY <1>1, PastIs, Zenon
<1>6. /\ K \subseteq Slot
      /\ \A s \in Slot : s \in K <=> s \in Past(keep) /\ s[1] = "by single"
  <2>1. Above(from) \in SUBSET Entry
    BY DEF Above
  <2>2. /\ K \subseteq Slot
        /\ \A s \in Slot : s \in K <=> Kin(q, Above(from), s)
    BY <1>1, <2>1, KidsAre, Zenon
  <2>3. \A s \in Slot : s[1] = "by single" => s[3] \in Entry
    BY DEF Slot
  <2>4. \A s \in Slot : s[1] = "by single" => (s[3] \in Above(from) <=> s \in Past(keep))
    BY <1>4, <2>3 DEF Above
  <2>5. QED
    BY <1>1, <2>2, <2>4 DEF Kin
<1>7. Now(r, q) = Now(r0, q)
  <2>1. q \in Slot /\ q \notin A
    BY <1>1, <1>3
  <2> HIDE DEF A
  <2>2. Freeing(r, r0, keep, A, A)
    BY DEF A
  <2>3. \A s \in Slot : Now(r, s) = IF s \in A THEN NoBlock ELSE Now(r0, s)
    BY <2>2, FreeingIs
  <2>4. QED
    BY <2>1, <2>3
<1>7a. ASSUME NEW x, NEW U, Freeing(x, r0, keep, U, U)
       PROVE  \A s \in Slot : Now(x, s) = IF s \in U THEN NoBlock ELSE Now(r0, s)
  BY <1>7a DEF Freeing, Slots0
<1>8. CASE r.inode.single = NoBlock
  <2>1. FreeSingle(r, keep) = r
    BY <1>8 DEF FreeSingle
  <2>2. Now(r0, q) = NoBlock
    BY <1>1, <1>7, <1>8
  <2>3. r0.inode.single = NoBlock
    BY <2>2 DEF Now, At, q
  <2>4. \A s \in B \ A : Now(r0, s) = NoBlock
    <3>1. \A s \in Slot : s[1] \in {"single", "by single"} => Now(r0, s) = NoBlock
      BY <2>3 DEF Now, At, Ent
    <3>2. QED
      BY <1>3, <3>1
  <2>5. Freeing(r, r0, keep, A \cup B, A \cup B)
    <3>1. B \in SUBSET Past(keep) /\ B \in SUBSET B
      BY <1>3
    <3> HIDE DEF A, B
    <3>2. Freeing(r, r0, keep, A, A)
      BY DEF A
    <3>3. QED
      BY <2>4, <3>1, <3>2, Pad
  <2>6. A \cup B = B
    BY <1>3
  <2>7. QED
    BY <2>1, <2>5, <2>6
<1>9. CASE r.inode.single # NoBlock
  <2>1. FreeSingle(r, keep) = DropRoot(r1, "single", from)
    BY <1>9 DEF FreeSingle
  <2>2. Freeing(r1, r0, keep, A \cup K, A \cup K)
    <3>1. Splits(q, from, keep)
      <4> SUFFICES ASSUME NEW i \in Entry PROVE i >= from <=> First(Child(q, i)) >= keep
        BY DEF Splits
      <4> DEFINE c == Child(q, i)
      <4>1. c \in Slot /\ c[1] = "by single" /\ c[3] = i
        <5>1. c \in Slot
          BY <1>1, ChildIs
        <5>2. c = <<"by single", 0, i>>
          BY <1>1 DEF Child
        <5> DEFINE t == <<"by single", 0, i>>
        <5>5. t[1] = "by single" /\ t[3] = i
          OBVIOUS
        <5> HIDE DEF c, t
        <5>3. c[1] = "by single" /\ c[3] = i
          BY <5>2, <5>5 DEF t
        <5>4. QED
          BY <5>1, <5>3
      <4> HIDE DEF c
      <4>2. c \in Past(keep) <=> i >= from
        BY <1>4, <4>1
      <4>3. c \in Past(keep) <=> First(c) >= keep
        BY <4>1 DEF Past
      <4>4. QED
        BY <4>2, <4>3 DEF c
    <3>2. A \cap Kids(q, Entry) = {}
      <4>1. \A s \in Slot : s \in Kids(q, Entry) => s[1] = "by single"
        <5>1. \A s \in Slot : s \in Kids(q, Entry) <=> Kin(q, Entry, s)
          <6>1. Entry \in SUBSET Entry
            OBVIOUS
          <6>2. QED
            BY <1>1, <6>1, KidsAre, Zenon
        <5>2. QED
          BY <1>1, <5>1 DEF Kin
      <4>2. QED
        BY <1>3, <4>1
    <3>3. q[1] # "double" /\ Now(r, q) # NoBlock
      BY <1>1, <1>9
    <3> HIDE DEF A, from
    <3>4. Freeing(r, r0, keep, A, A)
      BY DEF A
    <3>5. Freeing(FreeEntries(r, Now(r, q), from), r0, keep, A \cup K, A \cup K)
      BY <1>1, <1>2, <3>1, <3>2, <3>3, <3>4, FreesEntries
    <3>6. QED
      BY <1>1, <3>5
  <2> HIDE DEF r1, A, B, K, from
  <2>3. CASE from > 0
    <3>1. DropRoot(r1, "single", from) = r1
      BY <2>3 DEF DropRoot
    <3>2. B = A \cup K
      <4>1. \A s \in Slot : s \in Past(keep) => s[1] # "single"
        BY <1>1, <1>5, <2>3
      <4>2. QED
        BY <1>3, <1>6, <4>1
    <3>3. QED
      BY <2>1, <2>2, <3>1, <3>2 DEF B
  <2>4. CASE ~ (from > 0)
    <3>1. from = 0
      BY <1>2, <2>4
    <3>2. /\ q \in Past(keep) \ (A \cup K)
          /\ Now(r0, q) # NoBlock
      BY <1>1, <1>3, <1>5, <1>6, <1>7, <1>9, <2>4
    <3>3. \A s \in Slot : s[1] = Under("single") => Now(r1, s) = NoBlock
      <4>1. \A s \in Slot : s[1] = "by single" => s \in K
        <5>1. \A s \in Slot : s[1] = "by single" => s[3] \in Nat
          BY DEF Slot
        <5>2. \A s \in Slot : s[1] = "by single" => s[3] >= from
          <6>1. \A x \in Nat : x >= from
            BY <3>1
          <6>2. QED
            BY <5>1, <6>1
        <5>3. QED
          BY <1>4, <1>6, <5>2
      <4>2. \A s \in Slot : s \in A \cup K => Now(r1, s) = NoBlock
        <5> DEFINE AK == A \cup K
        <5> HIDE DEF AK
        <5>1. Freeing(r1, r0, keep, AK, AK)
          BY <2>2 DEF AK
        <5>2. \A s \in Slot : Now(r1, s) = IF s \in AK THEN NoBlock ELSE Now(r0, s)
          BY <1>7a, <5>1
        <5>3. QED
          BY <5>2 DEF AK
      <4>3. QED
        BY <4>1, <4>2 DEF Under
    <3>4. Freeing(DropRoot(r1, "single", 0), r0, keep, (A \cup K) \cup {q}, (A \cup K) \cup {q})
      BY <2>2, <3>2, <3>3, DropsRoot DEF q
    <3>5. B = (A \cup K) \cup {q}
      BY <1>1, <1>3, <1>6, <3>2
    <3>6. QED
      BY <2>1, <3>1, <3>4, <3>5 DEF B
  <2>5. QED
    BY <2>3, <2>4
<1>10. QED
  BY <1>8, <1>9
\* The blocks behind the double-indirect pointer, entry by entry: those that the
\* level-1 blocks below k point at, and those blocks.
Leaves(keep, k) == {s \in Past(keep) : s[1] = "level 2" /\ s[2] < k}
Boughs(keep, k) == {s \in Past(keep) : s[1] = "level 1" /\ s[3] < k}

Bough(i) == <<"level 1", 0, i>>

NextOf(keep, i, q) ==
    /\ q \in PtrSlot /\ q \in Slot /\ q[1] = "level 1" /\ q[3] = i
    /\ \A s \in Slot : s = q <=> s[1] = "level 1" /\ s[3] = i
    /\ \A s \in Slot : s \in Leaves(keep, i + 1) <=>
          s \in Leaves(keep, i) \/ (s \in Past(keep) /\ s[1] = "level 2" /\ s[2] = i)
    /\ \A s \in Slot : s \in Boughs(keep, i + 1) <=>
          s \in Boughs(keep, i) \/ (s = q /\ s \in Past(keep))
    /\ \A s \in Slot : /\ s \in Leaves(keep, i) => s[1] = "level 2" /\ s[2] # i
                       /\ s \in Boughs(keep, i) => s[1] = "level 1" /\ s[3] # i
    /\ Leaves(keep, i) \subseteq Past(keep) /\ Boughs(keep, i) \subseteq Past(keep)
    /\ Leaves(keep, i + 1) \subseteq Past(keep) /\ Boughs(keep, i + 1) \subseteq Past(keep)

\* Which slots one more pass over the double-indirect block adds.
LEMMA NextBough ==
    ASSUME NEW keep \in Nat, NEW i \in Entry, NEW q, q = Bough(i)
    PROVE  NextOf(keep, i, q)
<1>1. q[1] = "level 1" /\ q[2] = 0 /\ q[3] = i
  BY DEF Bough
<1>2. q \in PtrSlot /\ q \in Slot
  BY Slots DEF Bough
<1>3. \A s \in Slot : s = q <=> s[1] = "level 1" /\ s[3] = i
  <2> TAKE s \in Slot
  <2>1. s = q <=> s[1] = "level 1" /\ s[2] = 0 /\ s[3] = i
    BY <1>1, <1>2, SameSlot
  <2>2. s[1] = "level 1" => s[2] = 0
    BY DEF Slot
  <2>3. QED
    BY <2>1, <2>2
<1>4. \A x \in Entry : x \in Nat /\ (x < i + 1 <=> x < i \/ x = i) /\ ~ (i < i)
  BY Constants DEF Entry
<1>5. \A s \in Slot : /\ s[1] = "level 2" => s[2] \in Entry
                      /\ s[1] = "level 1" => s[3] \in Entry
  BY DEF Slot
<1>6. \A s \in Past(keep) : s \in Slot
  BY DEF Past
<1>7. \A s \in Slot : s \in Leaves(keep, i + 1) <=>
         s \in Leaves(keep, i) \/ (s \in Past(keep) /\ s[1] = "level 2" /\ s[2] = i)
  BY <1>4, <1>5 DEF Leaves
<1>8. \A s \in Slot : s \in Boughs(keep, i + 1) <=>
         s \in Boughs(keep, i) \/ (s = q /\ s \in Past(keep))
  BY <1>3, <1>4, <1>5 DEF Boughs
<1>9. \A s \in Slot : /\ s \in Leaves(keep, i) => s[1] = "level 2" /\ s[2] # i
                      /\ s \in Boughs(keep, i) => s[1] = "level 1" /\ s[3] # i
  BY <1>4, <1>5 DEF Leaves, Boughs
<1>10. /\ Leaves(keep, i) \subseteq Past(keep) /\ Boughs(keep, i) \subseteq Past(keep)
       /\ Leaves(keep, i + 1) \subseteq Past(keep) /\ Boughs(keep, i + 1) \subseteq Past(keep)
  BY DEF Leaves, Boughs
<1>11. QED
  BY <1>1, <1>2, <1>3, <1>7, <1>8, <1>9, <1>10 DEF NextOf

Lower(keep) == OfKind(keep, {"direct", "single", "by single"})

\* One pass of the loop over the double-indirect block.
LEMMA FreesLevel1 ==
    ASSUME NEW r, NEW r0, NEW d0, NEW n, Base(r0, d0, n), NEW keep \in Nat, NEW i \in Entry,
           NEW B, B = Lower(keep), NEW from, from = Beyond(keep, DirectBlocks + PtrsPerBlock),
           NEW l1, DOMAIN l1 = Entry, NEW q, q = Bough(i), l1[i] = Now(r0, q),
           Freeing(r, r0, keep, B \cup Leaves(keep, i) \cup Boughs(keep, i), B \cup Leaves(keep, i))
    PROVE  Freeing(FreeLevel1(r, l1, from, i), r0, keep,
                   B \cup Leaves(keep, i + 1) \cup Boughs(keep, i + 1), B \cup Leaves(keep, i + 1))
<1> DEFINE S == B \cup Leaves(keep, i) \cup Boughs(keep, i)
           D == B \cup Leaves(keep, i)
           S2 == B \cup Leaves(keep, i + 1) \cup Boughs(keep, i + 1)
           D2 == B \cup Leaves(keep, i + 1)
           K == {s \in Past(keep) : s[1] = "level 2" /\ s[2] = i}
           low == Beyond(from, i * PtrsPerBlock)
           r1 == FreeEntries(r, l1[i], low)
<1>1. /\ q \in PtrSlot /\ q \in Slot /\ q[1] = "level 1" /\ q[3] = i
      /\ \A s \in Slot : s = q <=> s[1] = "level 1" /\ s[3] = i
  <2>1. NextOf(keep, i, q)
    BY NextBough
  <2>2. QED
    BY <2>1 DEF NextOf
<1>2. /\ \A s \in Slot : s \in Leaves(keep, i + 1) <=> s \in Leaves(keep, i) \/ s \in K
      /\ \A s \in Slot : s \in Boughs(keep, i + 1) <=>
            s \in Boughs(keep, i) \/ (s = q /\ s \in Past(keep))
      /\ \A s \in Slot : /\ s \in Leaves(keep, i) => s[1] = "level 2" /\ s[2] # i
                         /\ s \in Boughs(keep, i) => s[1] = "level 1" /\ s[3] # i
      /\ Leaves(keep, i) \subseteq Past(keep) /\ Boughs(keep, i) \subseteq Past(keep)
      /\ Leaves(keep, i + 1) \subseteq Past(keep) /\ Boughs(keep, i + 1) \subseteq Past(keep)
  <2>1. /\ \A s \in Slot : s \in Leaves(keep, i + 1) <=>
              s \in Leaves(keep, i) \/ (s \in Past(keep) /\ s[1] = "level 2" /\ s[2] = i)
        /\ \A s \in Slot : s \in Boughs(keep, i + 1) <=>
              s \in Boughs(keep, i) \/ (s = q /\ s \in Past(keep))
        /\ \A s \in Slot : /\ s \in Leaves(keep, i) => s[1] = "level 2" /\ s[2] # i
                           /\ s \in Boughs(keep, i) => s[1] = "level 1" /\ s[3] # i
        /\ Leaves(keep, i) \subseteq Past(keep) /\ Boughs(keep, i) \subseteq Past(keep)
        /\ Leaves(keep, i + 1) \subseteq Past(keep) /\ Boughs(keep, i + 1) \subseteq Past(keep)
    <3>1. NextOf(keep, i, q)
      BY NextBough
    <3>2. QED
      BY <3>1 DEF NextOf
  <2>2. \A s \in Slot : s \in K <=> s \in Past(keep) /\ s[1] = "level 2" /\ s[2] = i
    OBVIOUS
  <2>3. QED
    BY <2>1, <2>2
<1>3. /\ B \subseteq Past(keep)
      /\ \A s \in Slot : s \in B => s[1] \in {"direct", "single", "by single"}
  BY OfKindIs DEF Lower
<1>4. Past(keep) \subseteq Slot /\ K \subseteq Past(keep)
      /\ \A s \in K : s[1] = "level 2" /\ s[2] = i
  BY DEF Past
<1>5. q \notin S /\ S \cap K = {} /\ S \subseteq Slot
  BY <1>1, <1>2, <1>3, <1>4
<1>6. PICK m \in Nat : m = i * PtrsPerBlock
  BY Constants DEF Entry
<1>7. from \in Nat /\ low \in Nat /\ PtrsPerBlock \in Nat \ {0} /\ i \in Nat
      /\ (i + 1) * PtrsPerBlock = m + PtrsPerBlock
  <2>1. from \in Nat /\ PtrsPerBlock \in Nat \ {0} /\ i \in Nat
    BY Constants DEF Beyond, Entry
  <2>2. low \in Nat
    BY <1>6, <2>1 DEF Beyond
  <2>3. (i + 1) * PtrsPerBlock = m + PtrsPerBlock
    BY <1>6, <2>1
  <2>4. QED
    BY <2>1, <2>2, <2>3
<1>8. q \in Past(keep) <=> m >= from
  <2>1. q[1] = "level 1" => (q \in Past(keep) <=> q[3] * PtrsPerBlock >= from)
    BY <1>1, PastIs, Zenon
  <2>2. QED
    BY <1>1, <1>6, <2>1
<1>9. \A s \in Slot : s[1] = "level 2" /\ s[2] = i =>
         s[3] \in Entry /\ (s \in K <=> m + s[3] >= from)
  <2> SUFFICES ASSUME NEW s \in Slot, s[1] = "level 2", s[2] = i
               PROVE  s[3] \in Entry /\ (s \in K <=> m + s[3] >= from)
    OBVIOUS
  <2>1. s[3] \in Entry
    BY DEF Slot
  <2>2. s \in Past(keep) <=> s[2] * PtrsPerBlock + s[3] >= from
    BY PastIs, Zenon
  <2>3. QED
    BY <1>6, <2>1, <2>2
<1>10. ASSUME q \notin Past(keep), K = {} PROVE S2 = S /\ D2 = D
  BY <1>2, <1>3, <1>4, <1>10
<1>11. S2 = S \cup K \cup ({q} \cap Past(keep)) /\ D2 = D \cup K
  BY <1>1, <1>2, <1>3, <1>4
<1>12. Freeing(r, r0, keep, S, D)
  OBVIOUS
<1> HIDE DEF S, D, S2, D2, K, low
<1>13. CASE l1[i] = NoBlock
  <2> DEFINE T == K \cup ({q} \cap Past(keep))
  <2>1. FreeLevel1(r, l1, from, i) = r
    BY <1>13 DEF FreeLevel1
  <2>2. \A s \in T : Now(r0, s) = NoBlock
    <3>1. Now(r0, q) = NoBlock
      BY <1>13
    <3>2. Ent(r0.disk, r0.inode.double, i) = NoBlock
      BY <1>1, <3>1 DEF Now, At
    <3>3. \A s \in K : Now(r0, s) = NoBlock
      BY <1>4, <3>2 DEF Now, At, Ent
    <3>4. QED
      BY <3>1, <3>3
  <2>3. T \in SUBSET Past(keep) /\ K \in SUBSET T
    BY <1>4
  <2> HIDE DEF T
  <2>4. Freeing(r, r0, keep, S \cup T, D \cup K)
    <3>1. \A s \in T \ S : Now(r0, s) = NoBlock
      BY <2>2
    <3>2. \A s \in K \ D : Now(r0, s) = NoBlock
      BY <2>2, <2>3
    <3>3. QED
      BY <1>12, <2>3, <3>1, <3>2, Pad
  <2>5. S \cup T = S2
    BY <1>11 DEF T
  <2>6. QED
    BY <1>11, <2>1, <2>4, <2>5 DEF S2, D2
<1>14. CASE l1[i] # NoBlock /\ (i + 1) * PtrsPerBlock <= from
  <2>1. FreeLevel1(r, l1, from, i) = r
    BY <1>14 DEF FreeLevel1
  <2>2. q \notin Past(keep)
    BY <1>7, <1>8, <1>14
  <2>3. K = {}
    <3> SUFFICES ASSUME NEW s \in K PROVE FALSE
      OBVIOUS
    <3>1. s \in Slot /\ s[1] = "level 2" /\ s[2] = i
      BY <1>4
    <3>2. s[3] \in Entry /\ m + s[3] >= from
      BY <1>9, <3>1
    <3>3. s[3] \in Nat /\ s[3] < PtrsPerBlock
      BY <1>7, <3>2 DEF Entry
    <3>4. ~ (m + s[3] >= from)
      BY <1>7, <1>14, <3>3
    <3>5. QED
      BY <3>2, <3>4
  <2>4. QED
    BY <1>10, <1>12, <2>1, <2>2, <2>3 DEF S2, D2
<1>15. CASE l1[i] # NoBlock /\ ~ ((i + 1) * PtrsPerBlock <= from)
  <2>1. FreeLevel1(r, l1, from, i) = FreeGone(r1, l1, from, i)
    BY <1>15 DEF FreeLevel1, low
  <2>2. Now(r, q) = l1[i]
    <3>1. q \notin D
      BY <1>1, <1>2, <1>3 DEF D
    <3>2. \A s \in Slot : Now(r, s) = IF s \in D THEN NoBlock ELSE Now(r0, s)
      BY <1>12 DEF Freeing, Slots0
    <3>3. QED
      BY <1>1, <3>1, <3>2
  <2>3. Kids(q, Above(low)) = K
    <3>1. Above(low) \in SUBSET Entry
      BY DEF Above
    <3>2. /\ Kids(q, Above(low)) \subseteq Slot
          /\ \A s \in Slot : s \in Kids(q, Above(low)) <=> Kin(q, Above(low), s)
      BY <1>1, <3>1, KidsAre, Zenon
    <3>3. \A s \in Slot : s \in Kids(q, Above(low)) <=>
             s[1] = "level 2" /\ s[2] = i /\ s[3] \in Above(low)
      BY <1>1, <3>2 DEF Kin
    <3>4. \A x \in Entry : x \in Above(low) <=> m + x >= from
      <4>1. \A x \in Entry : x \in Nat
        BY DEF Entry
      <4>2. low = IF from > m THEN from - m ELSE 0
        BY <1>6 DEF low, Beyond
      <4>3. \A x \in Nat : x >= low <=> m + x >= from
        BY <1>7, <4>2
      <4>4. QED
        BY <4>1, <4>3 DEF Above
    <3>5. \A s \in Slot : s \in Kids(q, Above(low)) <=> s \in K
      BY <1>4, <1>9, <3>3, <3>4
    <3>6. QED
      BY <1>4, <3>2, <3>5
  <2>4. Freeing(r1, r0, keep, S \cup K, D \cup K)
    <3>1. Splits(q, low, keep)
      <4> SUFFICES ASSUME NEW j \in Entry PROVE j >= low <=> First(Child(q, j)) >= keep
        BY DEF Splits
      <4> DEFINE c == Child(q, j)
                 t == <<"level 2", i, j>>
      <4>1. c \in Slot
        BY <1>1, ChildIs
      <4>2. c = t
        BY <1>1 DEF Child
      <4>3. t[1] = "level 2" /\ t[2] = i /\ t[3] = j
        OBVIOUS
      <4> HIDE DEF c, t
      <4>4. c[1] = "level 2" /\ c[2] = i /\ c[3] = j
        BY <4>2, <4>3
      <4>5. c \in K <=> m + j >= from
        BY <1>9, <4>1, <4>4
      <4>6. c \in K <=> First(c) >= keep
        BY <4>1, <4>4 DEF K, Past
      <4>7. j \in Nat
        BY DEF Entry
      <4>8. low = IF from > m THEN from - m ELSE 0
        BY <1>6 DEF low, Beyond
      <4>9. j >= low <=> m + j >= from
        BY <1>7, <4>7, <4>8
      <4>10. QED
        BY <4>5, <4>6, <4>9 DEF c
    <3>2. S \cap Kids(q, Entry) = {}
      <4>1. \A s \in Slot : s \in Kids(q, Entry) <=> Kin(q, Entry, s)
        <5>1. Entry \in SUBSET Entry
          OBVIOUS
        <5>2. TAKE s \in Slot
        <5>3. QED
          BY <1>1, <5>1, KidsAre, Zenon
      <4>2. \A s \in Slot : s \in Kids(q, Entry) => s[1] = "level 2" /\ s[2] = i
        BY <1>1, <4>1 DEF Kin
      <4>3. QED
        BY <1>2, <1>3, <1>5, <4>2 DEF S
    <3>3. q[1] # "double" /\ Now(r, q) # NoBlock
      BY <1>1, <1>15, <2>2
    <3>4. Freeing(FreeEntries(r, Now(r, q), low), r0, keep,
                  S \cup Kids(q, Above(low)), D \cup Kids(q, Above(low)))
      BY <1>1, <1>7, <1>12, <3>1, <3>2, <3>3, FreesEntries
    <3>5. QED
      BY <2>2, <2>3, <3>4
  <2> HIDE DEF r1
  <2>5. i \in Gone(l1, from) <=> q \in Past(keep)
    BY <1>6, <1>8, <1>15 DEF Gone
  <2>6. CASE q \in Past(keep)
    <3>1. FreeGone(r1, l1, from, i) = FreeBlock(r1, Now(r0, q))
      BY <2>5, <2>6 DEF FreeGone
    <3>2. q \in Past(keep) \ (S \cup K) /\ Now(r0, q) # NoBlock
      BY <1>1, <1>4, <1>5, <1>15, <2>6
    <3>3. Freeing(FreeBlock(r1, Now(r0, q)), r0, keep, (S \cup K) \cup {q}, D \cup K)
      BY <2>4, <3>2, FreesBlock DEF Frees
    <3>4. (S \cup K) \cup {q} = S2 /\ D \cup K = D2
      BY <1>11, <2>6
    <3>5. QED
      BY <2>1, <3>1, <3>3, <3>4 DEF S2, D2
  <2>7. CASE q \notin Past(keep)
    <3>1. FreeGone(r1, l1, from, i) = r1
      BY <2>5, <2>7 DEF FreeGone
    <3>2. S \cup K = S2 /\ D \cup K = D2
      BY <1>11, <2>7
    <3>3. QED
      BY <2>1, <2>4, <3>1, <3>2 DEF S2, D2
  <2>8. QED
    BY <2>6, <2>7
<1>16. QED
  BY <1>13, <1>14, <1>15
Fork == <<"double", 0, 0>>

\* The whole double-indirect tree past the kept blocks.
LEMMA FreesDouble ==
    ASSUME NEW r, NEW r0, NEW d0, NEW n, Base(r0, d0, n), NEW keep \in Nat,
           Freeing(r, r0, keep, Lower(keep), Lower(keep))
    PROVE  Freeing(FreeDouble(r, keep), r0, keep, Past(keep), Past(keep))
<1> DEFINE q == Fork
           from == Beyond(keep, DirectBlocks + PtrsPerBlock)
           l1 == r.disk.block[r.inode.double]
           B == Lower(keep)
           L == Leaves(keep, PtrsPerBlock)
           V == Boughs(keep, PtrsPerBlock)
           W == B \cup L \cup V
           gone == Gone(l1, from)
           G == Kids(q, gone)
<1>1. /\ q \in PtrSlot /\ q \in Slot /\ q[1] = "double" /\ Now(r, q) = r.inode.double
      /\ Now(r0, q) = r0.inode.double
      /\ \A s \in Slot : s = q <=> s[1] = "double"
  <2>1. q[1] = "double" /\ q[2] = 0 /\ q[3] = 0 /\ q \in PtrSlot /\ q \in Slot
    BY Slots DEF Fork
  <2> HIDE DEF q
  <2>2. Now(r, q) = r.inode.double /\ Now(r0, q) = r0.inode.double
    BY <2>1 DEF Now, At
  <2>3. ASSUME NEW s \in Slot PROVE s = q <=> s[1] = "double"
    <3>1. s = q <=> s[1] = "double" /\ s[2] = 0 /\ s[3] = 0
      BY <2>1, SameSlot
    <3>2. s[1] = "double" => s[2] = 0 /\ s[3] = 0
      BY DEF Slot
    <3>3. QED
      BY <3>1, <3>2
  <2>4. QED
    BY <2>1, <2>2, <2>3
<1>2. from \in Nat /\ PtrsPerBlock \in Nat
  BY Constants DEF Beyond
<1>2a. \A a \in Nat : a * PtrsPerBlock \in Nat
  BY <1>2
<1>2b. \A m, c \in Nat : m >= from => m + c >= from
  BY <1>2
<1>3. /\ B \subseteq Past(keep) /\ B \subseteq Slot
      /\ \A s \in Slot : s \in B <=> s \in Past(keep) /\ s[1] \in {"direct", "single", "by single"}
  BY OfKindIs DEF Lower
<1>4. /\ L \subseteq Past(keep) /\ V \subseteq Past(keep) /\ Past(keep) \subseteq Slot
      /\ \A s \in Slot : /\ s \in L <=> s \in Past(keep) /\ s[1] = "level 2"
                         /\ s \in V <=> s \in Past(keep) /\ s[1] = "level 1"
  <2>1. \A s \in Slot : /\ s[1] = "level 2" => s[2] \in Entry
                        /\ s[1] = "level 1" => s[3] \in Entry
    BY DEF Slot
  <2>2. \A x \in Entry : x < PtrsPerBlock
    BY <1>2 DEF Entry
  <2>3. L \subseteq Past(keep) /\ V \subseteq Past(keep) /\ Past(keep) \subseteq Slot
    BY DEF Leaves, Boughs, Past
  <2>4. \A s \in Slot : /\ s \in L <=> s \in Past(keep) /\ s[1] = "level 2"
                        /\ s \in V <=> s \in Past(keep) /\ s[1] = "level 1"
    BY <2>1, <2>2 DEF Leaves, Boughs
  <2>5. QED
    BY <2>3, <2>4
<1>5. q \in Past(keep) <=> ~ (from > 0)
  BY <1>1, PastIs, Zenon
<1>6. \A s \in Past(keep) : s \in W \/ s[1] = "double"
  <2>1. \A s \in Slot : s[1] \in {"direct", "single", "by single", "double", "level 1", "level 2"}
    BY DEF Slot, Kind
  <2>2. QED
    BY <1>3, <1>4, <2>1
<1>7. W \subseteq Past(keep) /\ q \notin W
  BY <1>1, <1>3, <1>4
<1>8. Freeing(r, r0, keep, B, B)
  OBVIOUS
<1>9. ASSUME NEW x, NEW S, NEW D, Freeing(x, r0, keep, S, D)
      PROVE  \A s \in Slot : Now(x, s) = IF s \in D THEN NoBlock ELSE Now(r0, s)
  BY <1>9 DEF Freeing, Slots0
<1> HIDE DEF q, from, B, L, V
<1>10. Now(r0, q) = r.inode.double
  <2>1. q \notin B
    BY <1>7
  <2>2. QED
    BY <1>1, <1>8, <1>9, <2>1
<1>11. CASE r.inode.double = NoBlock
  <2>1. FreeDouble(r, keep) = r
    BY <1>11 DEF FreeDouble
  <2>2. r0.inode.double = NoBlock
    BY <1>1, <1>10, <1>11
  <2>3. \A s \in Slot : s[1] \in {"double", "level 1", "level 2"} => Now(r0, s) = NoBlock
    BY <2>2 DEF Now, At, Ent
  <2>4. \A s \in Past(keep) \ B : Now(r0, s) = NoBlock
    BY <1>4, <1>6, <2>3
  <2>5. Past(keep) \in SUBSET Past(keep) /\ B \cup Past(keep) = Past(keep)
    BY <1>3
  <2>6. Freeing(r, r0, keep, B \cup Past(keep), B \cup Past(keep))
    BY <1>8, <2>4, <2>5, Pad
  <2>7. QED
    BY <2>1, <2>5, <2>6
<1>12. CASE r.inode.double # NoBlock
  <2>1. l1 \in PtrBlock /\ \A i \in Entry : l1[i] = Now(r0, Bough(i))
    <3>1. Tree(r.disk, r.inode)
      BY <1>8, FreeingIs
    <3>2. l1 \in PtrBlock
      BY <1>12, <3>1, TreeIs
    <3>3. ASSUME NEW i \in Entry PROVE l1[i] = Now(r0, Bough(i))
      <4> DEFINE b == Bough(i)
      <4>1. b \in Slot /\ b[1] = "level 1" /\ b[3] = i
        BY Slots DEF Bough
      <4> HIDE DEF b
      <4>2. b \notin B
        BY <1>3, <4>1
      <4>3. Now(r, b) = Now(r0, b)
        BY <1>8, <1>9, <4>1, <4>2
      <4>4. Now(r, b) = l1[i]
        BY <1>12, <4>1 DEF Now, At, Ent
      <4>5. QED
        BY <4>3, <4>4 DEF b
    <3>4. QED
      BY <3>2, <3>3
  <2>2. DOMAIN l1 = Entry
    BY <2>1 DEF PtrBlock
  <2> HIDE DEF l1
  <2> DEFINE T == [k \in 0 .. PtrsPerBlock |->
                     {x \in Runs : Freeing(x, r0, keep, B \cup Leaves(keep, k) \cup Boughs(keep, k),
                                           B \cup Leaves(keep, k))}]
  <2>3. r \in T[0]
    <3>1. \A s \in Slot : /\ s[1] = "level 2" => s[2] \in Nat
                          /\ s[1] = "level 1" => s[3] \in Nat
      BY DEF Slot
    <3>2. \A x \in Nat : ~ (x < 0)
      OBVIOUS
    <3>3. Leaves(keep, 0) = {} /\ Boughs(keep, 0) = {}
      BY <1>4, <3>1, <3>2 DEF Leaves, Boughs
    <3>4. B \cup {} \cup {} = B /\ B \cup {} = B
      OBVIOUS
    <3>5. Freeing(r, r0, keep, B \cup Leaves(keep, 0) \cup Boughs(keep, 0), B \cup Leaves(keep, 0))
      BY <1>8, <3>3, <3>4
    <3>6. r \in Runs /\ 0 \in 0 .. PtrsPerBlock
      BY <1>2, <1>8 DEF Freeing
    <3>7. QED
      BY <3>5, <3>6
  <2>4. ASSUME NEW k \in 1 .. PtrsPerBlock, NEW x \in T[k - 1]
        PROVE  FreeLevel1(x, l1, from, 0 + k - 1) \in T[k]
    <3> DEFINE i == k - 1
    <3>1. i \in 0 .. PtrsPerBlock /\ i \in Entry /\ 0 + k - 1 = i /\ i + 1 = k
          /\ k \in 0 .. PtrsPerBlock
      BY <1>2 DEF Entry
    <3>2. Freeing(x, r0, keep, B \cup Leaves(keep, i) \cup Boughs(keep, i), B \cup Leaves(keep, i))
      BY <2>4, <3>1
    <3> HIDE DEF T, i
    <3>3. l1[i] = Now(r0, Bough(i))
      BY <2>1, <3>1
    <3>4. B = Lower(keep) /\ from = Beyond(keep, DirectBlocks + PtrsPerBlock)
      BY DEF B, from
    <3>5. Freeing(FreeLevel1(x, l1, from, i), r0, keep,
                  B \cup Leaves(keep, i + 1) \cup Boughs(keep, i + 1), B \cup Leaves(keep, i + 1))
      BY <2>2, <3>1, <3>2, <3>3, <3>4, FreesLevel1
    <3>6. FreeLevel1(x, l1, from, i) \in Runs
      BY <3>5 DEF Freeing
    <3>7. QED
      BY <3>1, <3>5, <3>6 DEF T
  <2>5. PICK x \in T[PtrsPerBlock] :
           FreeDouble(r, keep) =
               DropRoot(ForgetEntries(x, r.inode.double, gone), "double", from)
    <3> HIDE DEF T
    <3>1. FreesBehind(r, l1, from, T)
      <4>1. \A k \in 1 .. PtrsPerBlock : \A s \in T[k - 1] :
               FreeLevel1(s, l1, from, 0 + k - 1) \in T[k]
        BY <2>4
      <4>2. QED
        BY <2>3, <4>1 DEF FreesBehind
    <3>2. l1 = r.disk.block[r.inode.double] /\ from = Beyond(keep, DirectBlocks + PtrsPerBlock)
      BY DEF l1, from
    <3>3. QED
      BY <1>2, <1>12, <3>1, <3>2, FreeDoubleLoop DEF gone
  <2>6. Freeing(x, r0, keep, W, B \cup L)
    BY <1>2, <2>5 DEF L, V
  <2> HIDE DEF T
  <2>7. /\ gone \in SUBSET Entry
        /\ \A i \in Entry : i \in gone <=> Now(r0, Bough(i)) # NoBlock /\ i * PtrsPerBlock >= from
    BY <2>1, <2>2 DEF Gone
  <2> HIDE DEF gone
  <2>8. \A s \in Slot : s[1] = "level 1" =>
           /\ s = Bough(s[3]) /\ s[3] \in Entry
           /\ s \in V <=> s[3] * PtrsPerBlock >= from
    <3> SUFFICES ASSUME NEW s \in Slot, s[1] = "level 1"
                 PROVE  /\ s = Bough(s[3]) /\ s[3] \in Entry
                        /\ s \in V <=> s[3] * PtrsPerBlock >= from
      OBVIOUS
    <3>1. s[2] = 0 /\ s[3] \in Entry
      BY DEF Slot
    <3>2. s = Bough(s[3])
      <4> DEFINE b == Bough(s[3])
      <4>1. b \in Slot /\ b[1] = "level 1" /\ b[2] = 0 /\ b[3] = s[3]
        BY <3>1, Slots DEF Bough
      <4> HIDE DEF b
      <4>2. s = b <=> s[1] = b[1] /\ s[2] = b[2] /\ s[3] = b[3]
        BY <4>1, SameSlot
      <4>3. QED
        BY <3>1, <4>1, <4>2 DEF b
    <3>3. s \in Past(keep) <=> s[3] * PtrsPerBlock >= Beyond(keep, DirectBlocks + PtrsPerBlock)
      BY PastIs, Zenon
    <3>4. QED
      BY <1>4, <3>1, <3>2, <3>3 DEF from
  <2>9. /\ G \subseteq Slot
        /\ \A s \in Slot : s \in G <=> s \in V /\ Now(r0, s) # NoBlock
    <3>1. /\ G \subseteq Slot
          /\ \A s \in Slot : s \in G <=> Kin(q, gone, s)
      BY <1>1, <2>7, KidsAre, Zenon
    <3>2. \A s \in Slot : s \in G <=> s[1] = "level 1" /\ s[3] \in gone
      BY <1>1, <3>1 DEF Kin
    <3> HIDE DEF G
    <3>3. \A s \in Slot : s \in V => s[1] = "level 1"
      BY <1>4
    <3>4. \A s \in Slot : s[1] = "level 1" =>
             (s[3] \in gone <=> s \in V /\ Now(r0, s) # NoBlock)
      BY <2>7, <2>8
    <3>5. QED
      BY <3>1, <3>2, <3>3, <3>4
  <2>10. Childless(x.disk, x.inode, q, gone)
    <3> SUFFICES ASSUME NEW s \in Slot, s[1] = "level 2", s[2] \in gone PROVE Now(x, s) = NoBlock
      BY DEF Childless, Now
    <3>1. s[2] * PtrsPerBlock >= from
      BY <2>7
    <3>2. s[2] \in Nat /\ s[3] \in Nat
      BY DEF Slot
    <3>3. s \in Past(keep) <=> s[2] * PtrsPerBlock + s[3] >= from
      BY PastIs, Zenon DEF from
    <3>4. s \in Past(keep)
      <4>1. s[2] * PtrsPerBlock \in Nat
        BY <1>2a, <3>2
      <4>2. s[2] * PtrsPerBlock + s[3] >= from
        BY <1>2b, <3>1, <3>2, <4>1
      <4>3. QED
        BY <3>3, <4>2
    <3>5. s \in B \cup L
      BY <1>4, <3>4
    <3>6. QED
      BY <1>9, <2>6, <3>5
  <2>11. Now(x, q) = r.inode.double
    <3>1. q \notin B \cup L
      BY <1>7
    <3>2. QED
      BY <1>1, <1>9, <1>10, <2>6, <3>1
  <2> DEFINE r1 == ForgetEntries(x, r.inode.double, gone)
  <2>12. Freeing(r1, r0, keep, W, (B \cup L) \cup G)
    <3>1. G \subseteq W /\ \A s \in G : Now(r0, s) # NoBlock
      BY <2>9
    <3>2. Now(x, q) # NoBlock
      BY <1>12, <2>11
    <3> HIDE DEF W
    <3>3. Freeing(ForgetEntries(x, Now(x, q), gone), r0, keep, W, (B \cup L) \cup Kids(q, gone))
      BY <1>1, <2>6, <2>7, <2>10, <3>1, <3>2, ForgetsEntries
    <3>4. QED
      BY <2>11, <3>3
  <2> HIDE DEF r1, G
  <2>13. Freeing(r1, r0, keep, W, W)
    <3>1. V \in SUBSET Past(keep) /\ V \in SUBSET V
      BY <1>4
    <3>2. \A s \in V \ W : Now(r0, s) = NoBlock
      OBVIOUS
    <3>3. \A s \in V \ ((B \cup L) \cup G) : Now(r0, s) = NoBlock
      BY <1>4, <2>9
    <3>4. W \cup V = W /\ ((B \cup L) \cup G) \cup V = W
      BY <2>9
    <3> HIDE DEF W
    <3>5. Freeing(r1, r0, keep, W \cup V, ((B \cup L) \cup G) \cup V)
      BY <2>12, <3>1, <3>2, <3>3, Pad
    <3>6. QED
      BY <3>4, <3>5
  <2>14. FreeDouble(r, keep) = DropRoot(r1, "double", from)
    BY <2>5 DEF r1
  <2>15. CASE from > 0
    <3>1. DropRoot(r1, "double", from) = r1
      BY <2>15 DEF DropRoot
    <3>2. W = Past(keep)
      BY <1>1, <1>4, <1>5, <1>6, <1>7, <2>15
    <3>3. QED
      BY <2>13, <2>14, <3>1, <3>2
  <2>16. CASE ~ (from > 0)
    <3>1. from = 0
      BY <1>2, <2>16
    <3>2. q \in Past(keep) \ W /\ Now(r0, q) # NoBlock
      BY <1>5, <1>7, <1>10, <1>12, <2>16
    <3>3. \A s \in Slot : s[1] = Under("double") => Now(r1, s) = NoBlock
      <4>1. \A s \in Slot : s[1] = "level 1" => s \in V
        <5>1. \A k \in Entry : k * PtrsPerBlock >= 0
          BY <1>2 DEF Entry
        <5>2. QED
          BY <2>8, <3>1, <5>1
      <4>2. \A s \in Slot : s \in W => Now(r1, s) = NoBlock
        BY <1>9, <2>13
      <4>3. QED
        BY <4>1, <4>2 DEF Under
    <3>4. W \cup {q} = Past(keep)
      BY <1>1, <1>4, <1>6, <1>7, <3>2
    <3> HIDE DEF W
    <3>5. Freeing(DropRoot(r1, "double", 0), r0, keep, W \cup {q}, W \cup {q})
      BY <2>13, <3>2, <3>3, DropsRoot DEF q, Fork
    <3>6. QED
      BY <2>14, <3>1, <3>4, <3>5
  <2>17. QED
    BY <2>15, <2>16
<1>13. QED
  BY <1>11, <1>12
\* Once they are free and out of their slots, the image is sound again.
LEMMA FreedDisk ==
    ASSUME NEW r0, NEW d0, NEW n, Base(r0, d0, n), NEW keep \in Nat, NEW r,
           Freeing(r, r0, keep, Past(keep), Past(keep)),
           NEW d \in Disk, d.block = r.disk.block, d.bitmap = r.disk.bitmap,
           d.freeBlocks = r.disk.freeBlocks, NEW G, Becomes(Seen(r0, n), G, n, r.inode)
    PROVE  /\ Sound(d, G, {})
           /\ Held(d, G) = Held(r0.disk, Seen(r0, n)) \ Of(r0, Past(keep))
           /\ \A m \in Inode \ {n} : \A s \in Slot : At(d, G[m], s) = At(r0.disk, G[m], s)
<1> DEFINE F == Seen(r0, n)
           H == Held(r0.disk, F)
           P == Past(keep)
           O == Of(r0, P)
<1>1. /\ r0 \in Runs /\ r0.disk \in Disk /\ Forest(r0.disk, F) /\ Contents(r0.disk, F)
      /\ H \subseteq r0.disk.bitmap /\ r0.disk.bitmap \subseteq DataRegion
      /\ r0.disk.freeBlocks \in Nat /\ r0.disk.freeBlocks + Cardinality(H) <= DataBlocks
      /\ DataBlocks <= r0.disk.freeBlocks + Cardinality(r0.disk.bitmap) /\ n \in Inode
  <2>1. Forest(r0.disk, F) /\ Contents(r0.disk, F) /\ n \in Inode
    BY DEF Base, Fits, Sound
  <2>2. QED
    BY <2>1, BaseIs
<1>2. /\ r \in Runs /\ r.inode \in InodeRec /\ P \in SUBSET Slot
  BY DEF Freeing, Runs, Past
<1>3. /\ G \in [Inode -> InodeRec] /\ G[n] = r.inode /\ \A m \in Inode \ {n} : G[m] = F[m]
      /\ F[n] = r0.inode /\ F \in [Inode -> InodeRec]
  <2>1. F[n] = r0.inode /\ F \in [Inode -> InodeRec]
    BY <1>1, Views DEF Runs
  <2>2. QED
    BY <2>1 DEF Becomes
<1>4. /\ O \subseteq H /\ O \subseteq DataRegion /\ Cardinality(O) \in Nat
  BY <1>2, OfIs
<1> HIDE DEF F
<1>5. ASSUME NEW m \in Inode \ {n}
      PROVE  /\ \A s \in Slot : At(d, F[m], s) = At(r0.disk, F[m], s)
             /\ \A s \in Slot : At(r0.disk, F[m], s) # NoBlock =>
                   d.block[At(r0.disk, F[m], s)] = r0.disk.block[At(r0.disk, F[m], s)]
  <2>1. Touches(r0, r)
    BY DEF Freeing
  <2>2. /\ \A s \in Slot : At(r.disk, F[m], s) = At(r0.disk, F[m], s)
        /\ \A s \in Slot : At(r0.disk, F[m], s) # NoBlock =>
              r.disk.block[At(r0.disk, F[m], s)] = r0.disk.block[At(r0.disk, F[m], s)]
    BY <1>1, <1>2, <2>1, OthersKeep DEF F
  <2>3. \A s \in Slot : At(d, F[m], s) = At(r.disk, F[m], s)
    BY DEF At, Ent
  <2>4. QED
    BY <2>2, <2>3
<1>6. \A s \in Slot : At(d, r.inode, s) = IF s \in P THEN NoBlock ELSE At(r0.disk, F[n], s)
  <2>1. \A s \in Slot : Now(r, s) = IF s \in P THEN NoBlock ELSE Now(r0, s)
    BY DEF Freeing, Slots0
  <2>2. \A s \in Slot : At(d, r.inode, s) = Now(r, s)
    BY DEF Now, At, Ent
  <2>3. \A s \in Slot : Now(r0, s) = At(r0.disk, F[n], s)
    BY <1>3 DEF Now
  <2>4. QED
    BY <2>1, <2>2, <2>3
<1>7. Forest(d, G)
  <2>1. Below(r.inode, r0.inode) /\ Thinner(d, r0.disk)
    BY DEF Freeing, Thinner
  <2>2. \A m \in Inode : Below(G[m], F[m])
    BY <1>3, <2>1, BelowItself
  <2>3. QED
    BY <1>1, <1>3, <2>1, <2>2, Fewer
<1>8. \A u, v \in Inode : \A x, y \in Slot :
         At(r0.disk, F[u], x) = At(r0.disk, F[v], y) /\ At(r0.disk, F[u], x) # NoBlock => u = v /\ x = y
  BY <1>1 DEF Forest, Apart
<1>9. ASSUME NEW b PROVE b \in O <=> b \in DataRegion /\ \E s \in P : At(r0.disk, F[n], s) = b
  BY <1>3 DEF Of, Now
<1>10. Held(d, G) = H \ O
  <2>1. ASSUME NEW b \in Held(d, G) PROVE b \in H \ O
    <3>1. PICK m \in Inode, s \in Slot : At(d, G[m], s) = b
      BY DEF Held
    <3>2. b \in DataRegion /\ b # NoBlock
      BY Constants DEF Held
    <3>3. At(r0.disk, F[m], s) = b /\ (m = n => s \notin P)
      BY <1>3, <1>5, <1>6, <3>1, <3>2
    <3>4. b \in H
      BY <3>2, <3>3 DEF Held
    <3>5. ASSUME NEW t \in P, At(r0.disk, F[n], t) = b PROVE FALSE
      <4>1. t \in Slot
        BY <1>2
      <4>2. m = n /\ s = t
        BY <1>1, <1>8, <3>2, <3>3, <3>5, <4>1
      <4>3. QED
        BY <3>3, <4>2
    <3>6. QED
      BY <1>9, <3>4, <3>5
  <2>2. ASSUME NEW b \in H \ O PROVE b \in Held(d, G)
    <3>1. PICK m \in Inode, s \in Slot : At(r0.disk, F[m], s) = b
      BY DEF Held
    <3>2. b \in DataRegion
      BY DEF Held
    <3>3. At(d, G[m], s) = b
      <4>1. CASE m # n
        BY <1>3, <1>5, <3>1, <4>1
      <4>2. CASE m = n
        BY <1>3, <1>6, <1>9, <3>1, <3>2, <4>2
      <4>3. QED
        BY <4>1, <4>2
    <3>4. QED
      BY <3>2, <3>3 DEF Held
  <2>3. QED
    BY <2>1, <2>2
<1>11. Contents(d, G)
  <2> SUFFICES ASSUME NEW m \in Inode, NEW s \in DataSlot PROVE Holds(d, G[m], s)
    BY DEF Contents
  <2>1. s \in Slot /\ s \notin PtrSlot /\ Holds(r0.disk, F[m], s)
    BY <1>1, Slots DEF Contents
  <2>2. CASE m # n
    BY <1>3, <1>5, <2>1, <2>2 DEF Holds
  <2>3. CASE m = n
    <3>1. At(d, G[n], s) \in {NoBlock, At(r0.disk, F[n], s)}
      BY <1>3, <1>6, <2>1
    <3>2. ASSUME At(r0.disk, F[n], s) # NoBlock
          PROVE  d.block[At(r0.disk, F[n], s)] = r0.disk.block[At(r0.disk, F[n], s)]
      <4>1. At(r0.disk, F[n], s) \in DataRegion
        BY <1>1, <2>1, <3>2, HeldIs
      <4>2. ASSUME NEW q \in PtrSlot PROVE Now(r0, q) # At(r0.disk, F[n], s)
        <5>1. q \in Slot /\ q # s
          BY <2>1, Slots
        <5>2. Now(r0, q) = At(r0.disk, F[n], q)
          BY <1>3 DEF Now
        <5>3. QED
          BY <1>1, <1>8, <2>1, <3>2, <5>1, <5>2
      <4>3. QED
        BY <4>1, <4>2 DEF Freeing, Touches
    <3>3. G[n].size = F[n].size
      BY <1>3 DEF Freeing, Alike
    <3>4. QED
      BY <2>1, <2>3, <3>1, <3>2, <3>3 DEF Holds
  <2>4. QED
    BY <2>2, <2>3
<1>12. /\ H \ O \subseteq d.bitmap
       /\ DataBlocks <= d.freeBlocks + Cardinality(d.bitmap)
       /\ d.freeBlocks + Cardinality(H \ O) <= DataBlocks
  <2>1. d.bitmap = r0.disk.bitmap \ O /\ d.freeBlocks = r0.disk.freeBlocks + Cardinality(O)
    BY DEF Freeing
  <2>2. H \subseteq DataRegion /\ r0.disk.bitmap \cap O = O /\ H \cap O = O
    BY <1>1, <1>4
  <2>3. IsFiniteSet(H) /\ IsFiniteSet(r0.disk.bitmap)
    BY <1>1, <2>2, Blocks
  <2>4. /\ Cardinality(H \ O) = Cardinality(H) - Cardinality(O)
        /\ Cardinality(r0.disk.bitmap \ O) = Cardinality(r0.disk.bitmap) - Cardinality(O)
    <3> HIDE DEF H, O
    <3>1. ASSUME NEW S, IsFiniteSet(S)
          PROVE  Cardinality(S \ O) = Cardinality(S) - Cardinality(S \cap O)
      BY <3>1, FS_Difference
    <3>2. QED
      BY <2>2, <2>3, <3>1
  <2>5. Cardinality(H) \in Nat /\ Cardinality(r0.disk.bitmap) \in Nat
    BY <1>1, <2>2, Blocks
  <2>6. H \ O \subseteq d.bitmap
    BY <1>1, <2>1
  <2> HIDE DEF H, O
  <2>7. QED
    BY <1>1, <1>4, <2>1, <2>4, <2>5, <2>6, Constants
<1>13. Sound(d, G, {})
  <2>1. Held(d, G) \cup {} = H \ O
    BY <1>10
  <2> HIDE DEF H, O
  <2>2. QED
    BY <1>7, <1>11, <1>12, <2>1 DEF Sound
<1>14. \A m \in Inode \ {n} : \A s \in Slot : At(d, G[m], s) = At(r0.disk, G[m], s)
  BY <1>3, <1>5
<1>15. QED
  BY <1>10, <1>13, <1>14 DEF F
\* What giving back the blocks of the slots past those kept leaves.
Freed(r, r0, d0, n, keep) ==
    /\ Fits(r, d0, n, {}) /\ r.ok
    /\ \A s \in Slot : Now(r, s) = IF s \in Past(keep) THEN NoBlock ELSE Now(r0, s)
    /\ Exact(r0, n, {}) => Exact(r, n, {})
    /\ \A x \in r.trail : x \in r0.trail \/ Gap(x, r0) \/ Fine(x, d0, n)

\* free_inode_blocks_after: every slot past the kept blocks is empty, its block free.
LEMMA FreesAfter ==
    ASSUME NEW r, NEW d0, NEW n, Base(r, d0, n), NEW keep \in Nat
    PROVE  Freed(FreeBlocksAfter(r, n, keep), r, d0, n, keep)
<1> DEFINE r1 == FreeDirect(r, keep)
           r2 == FreeSingle(r1, keep)
           r3 == FreeDouble(r2, keep)
           d4 == [r3.disk EXCEPT !.inode[n] = r3.inode]
           r4 == FreeBlocksAfter(r, n, keep)
           F == Seen(r, n)
           P == Past(keep)
<1>1. Freeing(r1, r, keep, OfKind(keep, {"direct"}), OfKind(keep, {"direct"}))
  <2>1. Freeing(r1, r, keep, Directs(keep, DirectBlocks), Directs(keep, DirectBlocks))
    BY FreesDirect
  <2>2. Directs(keep, DirectBlocks) = OfKind(keep, {"direct"})
    <3>1. \A s \in Slot : s[1] = "direct" => s[3] < DirectBlocks
      <4>1. \A x \in Direct : x < DirectBlocks
        BY Constants DEF Direct
      <4>2. QED
        BY <4>1 DEF Slot
    <3>2. QED
      BY <3>1 DEF Directs, OfKind, Past
  <2>3. QED
    BY <2>1, <2>2
<1> HIDE DEF r1
<1>2. Freeing(r2, r, keep, Lower(keep), Lower(keep))
  BY <1>1, FreesSingle DEF Lower
<1> HIDE DEF r2
<1>3. Freeing(r3, r, keep, P, P)
  BY <1>2, FreesDouble
<1>4. r4 = SaveInode(r3, r.inode, n)
  BY DEF FreeBlocksAfter, r1, r2
<1> HIDE DEF r3, r4
<1>5. /\ r3 \in Runs /\ r3.disk \in Disk /\ r3.inode \in InodeRec /\ r3.ok /\ n \in Inode
      /\ r3.disk.inode = r.disk.inode /\ r3.disk.used = r.disk.used
      /\ r3.disk.freeInodes = r.disk.freeInodes /\ Alike(r3.inode, r.inode)
      /\ \A x \in r3.trail : x \in r.trail \/ Gap(x, r)
  BY <1>3 DEF Freeing, Runs, Base
<1>6. /\ r \in Runs /\ r.disk \in Disk /\ r.inode \in InodeRec
      /\ Kept(r.disk, d0, n) /\ Others(r.disk, d0, n) /\ Alike(r.inode, d0.inode[n])
      /\ Below(r.disk.inode[n], r.inode)
  BY DEF Base, Fits, Runs
<1>7. r4 = IF r3.inode = r.inode THEN r3 ELSE Write(r3, d4)
  BY <1>4 DEF SaveInode, WriteInode
<1>8. /\ d4 \in Disk /\ d4.inode = [r3.disk.inode EXCEPT ![n] = r3.inode]
      /\ d4.used = r3.disk.used /\ d4.freeInodes = r3.disk.freeInodes
      /\ d4.bitmap = r3.disk.bitmap /\ d4.freeBlocks = r3.disk.freeBlocks /\ d4.block = r3.disk.block
  BY <1>5 DEF Disk
<1> HIDE DEF d4
<1>9. /\ r4 \in Runs /\ r4.disk \in Disk /\ r4.ok /\ r4.inode = r3.inode
      /\ r4.disk.used = r.disk.used /\ r4.disk.freeInodes = r.disk.freeInodes
      /\ r4.disk.block = r3.disk.block /\ r4.disk.bitmap = r3.disk.bitmap
      /\ r4.disk.freeBlocks = r3.disk.freeBlocks
      /\ \A m \in Inode \ {n} : r4.disk.inode[m] = r.disk.inode[m]
      /\ r4.disk.inode[n] \in {r3.inode, r.disk.inode[n]}
      /\ r4.disk.inode[n] = r.disk.inode[n] => r3.inode = r.inode \/ r4.disk.inode[n] = r3.inode
      /\ \A x \in r4.trail : x \in r3.trail \/ x = r4.disk
  <2>1. CASE r3.inode = r.inode
    BY <1>5, <1>7, <2>1
  <2>2. CASE r3.inode # r.inode
    <3>1. /\ r4.disk = d4 /\ r4.inode = r3.inode /\ r4.ok = TRUE /\ r4 \in Runs
          /\ r4.trail = r3.trail \cup {d4}
      BY <1>5, <1>7, <1>8, <2>2, Written
    <3>2. d4.inode[n] = r3.inode /\ \A m \in Inode \ {n} : d4.inode[m] = r.disk.inode[m]
      BY <1>5, <1>8 DEF Disk
    <3>3. QED
      BY <1>5, <1>8, <3>1, <3>2
  <2>3. QED
    BY <2>1, <2>2
<1> DEFINE G == Seen(r4, n)
<1>10. /\ G \in [Inode -> InodeRec] /\ G[n] = r3.inode
       /\ \A m \in Inode \ {n} : G[m] = r.disk.inode[m]
  BY <1>5, <1>9, Views
<1>11. Becomes(F, G, n, r3.inode)
  <2>1. \A m \in Inode \ {n} : F[m] = r.disk.inode[m]
    BY <1>5, <1>6, Views
  <2>2. QED
    BY <1>10, <2>1 DEF Becomes
<1> HIDE DEF F, G
<1>12. /\ Sound(r4.disk, G, {})
       /\ Held(r4.disk, G) = Held(r.disk, F) \ Of(r, P)
       /\ \A m \in Inode \ {n} : \A s \in Slot : At(r4.disk, G[m], s) = At(r.disk, G[m], s)
  BY <1>3, <1>9, <1>11, FreedDisk DEF F
<1>13. Kept(r4.disk, d0, n)
  <2>1. Alike(r4.disk.inode[n], d0.inode[n])
    BY <1>5, <1>6, <1>9 DEF Kept, Alike
  <2>2. QED
    BY <1>6, <1>9, <2>1 DEF Kept
<1>14. Others(r4.disk, d0, n)
  <2> SUFFICES ASSUME NEW m \in Inode \ {n}, NEW s \in Slot
               PROVE  At(r4.disk, d0.inode[m], s) = At(d0, d0.inode[m], s)
    BY DEF Others
  <2>1. G[m] = d0.inode[m]
    BY <1>6, <1>10 DEF Kept
  <2>2. QED
    BY <1>6, <1>12, <2>1 DEF Others
<1>15. Below(r4.disk.inode[n], r4.inode)
  BY <1>6, <1>9, BelowItself
<1>16. Fits(r4, d0, n, {})
  <2>1. Alike(r4.inode, d0.inode[n])
    BY <1>5, <1>6, <1>9 DEF Alike
  <2>2. QED
    BY <1>9, <1>12, <1>13, <1>14, <1>15, <2>1 DEF Fits, G
<1>17. \A s \in Slot : Now(r4, s) = IF s \in P THEN NoBlock ELSE Now(r, s)
  <2>1. \A s \in Slot : Now(r3, s) = IF s \in P THEN NoBlock ELSE Now(r, s)
    BY <1>3 DEF Freeing, Slots0
  <2>2. \A s \in Slot : Now(r4, s) = Now(r3, s)
    BY <1>9 DEF Now, At, Ent
  <2>3. QED
    BY <2>1, <2>2
<1>18. Exact(r, n, {}) => Exact(r4, n, {})
  <2>1. r3.disk.bitmap = r.disk.bitmap \ Of(r, P)
    BY <1>3 DEF Freeing
  <2>2. QED
    BY <1>9, <1>12, <2>1 DEF Exact, F, G
<1>19. \A x \in r4.trail : x \in r.trail \/ Gap(x, r) \/ Fine(x, d0, n)
  <2>1. Fine(r4.disk, d0, n)
    BY <1>5, <1>16, FitsFine
  <2>2. QED
    BY <1>5, <1>9, <2>1
<1>20. QED
  <2>1. Freed(r4, r, d0, n, keep)
    BY <1>9, <1>16, <1>17, <1>18, <1>19 DEF Freed
  <2>2. QED
    BY <2>1 DEF r4
----------------------------------------------------------------------------
(* Sizes in blocks. *)

\* Multiples of a number are ordered as their factors.
LEMMA Times ==
    ASSUME NEW x \in Nat, NEW y \in Nat \ {0}, NEW z \in Nat
    PROVE  /\ x * y \in Nat /\ (x < z => x * y + y <= z * y)
           /\ (x * y < z * y => x < z) /\ (x <= z => x * y <= z * y)
<1>1. x * y \in Nat /\ z * y \in Nat
  OBVIOUS
<1>2. \A u, v \in Nat : u <= v => u * y <= v * y
  <2> TAKE u, v \in Nat
  <2> HAVE u <= v
  <2>1. PICK e \in Nat : v = u + e
    OBVIOUS
  <2>2. v * y = u * y + e * y /\ e * y \in Nat /\ u * y \in Nat
    BY <2>1
  <2>3. QED
    BY <2>2
<1>3. x < z => x * y + y <= z * y
  <2>1. ASSUME x < z PROVE (x + 1) * y <= z * y
    BY <1>2, <2>1
  <2>2. (x + 1) * y = x * y + y
    OBVIOUS
  <2>3. QED
    BY <2>1, <2>2
<1>4. x * y < z * y => x < z
  <2>1. ASSUME z <= x PROVE z * y <= x * y
    BY <1>2, <2>1
  <2>2. QED
    BY <1>1, <2>1
<1>5. QED
  BY <1>1, <1>2, <1>3, <1>4

\* The blocks of a size reach it, and the last one is needed.
LEMMA BlocksOfIs ==
    ASSUME NEW size \in Nat
    PROVE  /\ BlocksOf(size) \in Nat
           /\ size <= BlocksOf(size) * BlockSize
           /\ BlocksOf(size) * BlockSize < size + BlockSize
<1>1. BlockSize \in Nat \ {0}
  BY Constants
<1>2. size + BlockSize - 1 \in Nat
  BY <1>1
<1>3. PICK q \in Nat, j \in Nat : size + BlockSize - 1 = q * BlockSize + j /\ j < BlockSize
  BY <1>1, <1>2, Euclid
<1>4. (q * BlockSize + j) \div BlockSize = q
  BY <1>1, <1>3, Divides
<1>5. BlocksOf(size) = q
  BY <1>3, <1>4 DEF BlocksOf
<1>6. q * BlockSize \in Nat
  BY <1>1, Times
<1>7. QED
  BY <1>1, <1>3, <1>5, <1>6

\* More bytes, no fewer blocks; the block a byte is in is one of them.
LEMMA MoreBlocks ==
    ASSUME NEW a \in Nat, NEW b \in Nat
    PROVE  /\ a <= b => BlocksOf(a) <= BlocksOf(b)
           /\ b * BlockSize < a => b < BlocksOf(a)
           /\ a <= b * BlockSize => BlocksOf(a) <= b
<1> DEFINE p == BlocksOf(a)
           q == BlocksOf(b)
<1>1. /\ BlockSize \in Nat \ {0} /\ p \in Nat /\ q \in Nat
      /\ a <= p * BlockSize /\ p * BlockSize < a + BlockSize
      /\ b <= q * BlockSize /\ q * BlockSize < b + BlockSize
  BY Constants, BlocksOfIs
<1> HIDE DEF p, q
<1>2. p * BlockSize \in Nat /\ q * BlockSize \in Nat /\ b * BlockSize \in Nat
  BY <1>1, Times
<1>3. ASSUME a <= b PROVE p <= q
  <2>1. q < p => q * BlockSize + BlockSize <= p * BlockSize
    BY <1>1, Times
  <2>2. QED
    BY <1>1, <1>2, <1>3, <2>1
<1>4. ASSUME b * BlockSize < a PROVE b < p
  <2>1. b * BlockSize < p * BlockSize
    BY <1>1, <1>2, <1>4
  <2>2. QED
    BY <1>1, <2>1, Times
<1>5. ASSUME a <= b * BlockSize PROVE p <= b
  <2>1. b < p => b * BlockSize + BlockSize <= p * BlockSize
    BY <1>1, Times
  <2>2. QED
    BY <1>1, <1>2, <1>5, <2>1
<1>6. QED
  BY <1>3, <1>4, <1>5 DEF p, q
----------------------------------------------------------------------------
(* Disks as the operations find and leave them. *)

\* An inode without a block, of size 0.
Blank(I) ==
    /\ I.size = 0 /\ I.blocks = 0 /\ I.single = NoBlock /\ I.double = NoBlock
    /\ \A i \in Direct : I.direct[i] = NoBlock

Ranged(d) ==
    \A m \in Inode :
        /\ d.inode[m].generation \in 0 .. MaxGeneration
        /\ d.inode[m].size \in 0 .. MaxFileBlocks * BlockSize
        /\ d.inode[m].blocks \in 0 .. MaxFileBlocks

\* No block in two slots, and counters a mount accepts.
Loose(d) ==
    /\ d \in Disk /\ Forest(d, d.inode) /\ Ranged(d)
    /\ d.freeBlocks <= DataBlocks /\ d.freeInodes <= MaxInodes

UnusedBlank(d) == \A m \in Inode \ d.used : Blank(d.inode[m])

\* Nothing but leaks: what is in use is marked, what is beyond the end is zero.
Whole(d) ==
    /\ d \in Disk /\ Sound(d, d.inode, {}) /\ Ranged(d) /\ Root \in d.used /\ UnusedBlank(d)
    /\ d.freeInodes + Cardinality(d.used) \in MaxInodes .. MaxInodes + 1

\* Not even leaks.
MappedAll(d) ==
    \A m \in Inode :
        /\ d.inode[m].blocks = BlocksOf(d.inode[m].size)
        /\ \A s \in Slot : First(s) < d.inode[m].blocks <=> At(d, d.inode[m], s) # NoBlock

Tidy(d) ==
    /\ Whole(d) /\ d.bitmap = Held(d, d.inode) /\ MappedAll(d)
    /\ d.freeInodes + Cardinality(d.used) = MaxInodes

\* The inode table is finite, as are its subsets, and the root is in it.
LEMMA Inodes ==
    /\ IsFiniteSet(Inode) /\ Cardinality(Inode) = MaxInodes /\ Root \in Inode /\ NoInode \notin Inode
    /\ \A S \in SUBSET Inode : IsFiniteSet(S) /\ Cardinality(S) \in 0 .. MaxInodes
    /\ \A S \in SUBSET Inode : Root \in S => Cardinality(S) >= 1
<1>1. MaxInodes \in Nat \ {0}
  BY Constants
<1>2. IsFiniteSet(Inode) /\ Cardinality(Inode) = MaxInodes
  <2>1. MaxInodes - 1 \in Int
    BY <1>1
  <2>2. QED
    BY <1>1, <2>1, FS_Interval DEF Inode
<1>3. Root \in Inode /\ NoInode \notin Inode
  BY <1>1 DEF Root, Inode, NoInode
<1>4. \A S \in SUBSET Inode : IsFiniteSet(S) /\ Cardinality(S) \in 0 .. MaxInodes
  <2> TAKE S \in SUBSET Inode
  <2>1. IsFiniteSet(S) /\ Cardinality(S) <= Cardinality(Inode)
    BY <1>2, FS_Subset
  <2>2. Cardinality(S) \in Nat
    BY <2>1, FS_CardinalityType
  <2>3. QED
    BY <1>1, <1>2, <2>1, <2>2
<1>5. \A S \in SUBSET Inode : Root \in S => Cardinality(S) >= 1
  <2> TAKE S \in SUBSET Inode
  <2> HAVE Root \in S
  <2>1. IsFiniteSet(S) /\ Cardinality(S) \in Nat
    BY <1>1, <1>4
  <2>2. Cardinality(S) # 0
    BY <2>1, FS_EmptySet
  <2>3. QED
    BY <2>1, <2>2
<1>6. QED
  BY <1>2, <1>3, <1>4, <1>5

\* An image after an interrupted allocation is also one after any interruption.
LEMMA WholeIsLoose ==
    ASSUME NEW d, Whole(d)
    PROVE  Loose(d)
<1>1. d \in Disk /\ Sound(d, d.inode, {}) /\ Root \in d.used /\ Ranged(d)
  BY DEF Whole
<1>2. d.used \in SUBSET Inode /\ d.freeInodes \in Nat /\ d.freeBlocks \in Nat
  BY <1>1 DEF Disk
<1>3. Cardinality(d.used) \in 1 .. MaxInodes /\ MaxInodes \in Nat
  BY <1>1, <1>2, Inodes, Constants
<1>4. d.freeInodes <= MaxInodes
  BY <1>2, <1>3 DEF Whole
<1>5. d.freeBlocks <= DataBlocks
  <2>1. Held(d, d.inode) \cup {} \in SUBSET DataRegion
    BY DEF Held
  <2>2. Cardinality(Held(d, d.inode) \cup {}) \in 0 .. DataBlocks
    BY <2>1, Blocks
  <2>3. d.freeBlocks + Cardinality(Held(d, d.inode) \cup {}) <= DataBlocks
    BY <1>1 DEF Sound
  <2>4. QED
    BY <1>2, <2>2, <2>3, Constants
<1>6. QED
  BY <1>1, <1>4, <1>5 DEF Loose, Sound

\* A disk that differs in the pointers of inode n, and is sound, is whole.
LEMMA FineIsWhole ==
    ASSUME NEW d0, Whole(d0), NEW n \in d0.used, NEW d, Fine(d, d0, n)
    PROVE  Whole(d)
<1>1. d0 \in Disk /\ d0.used \subseteq Inode /\ n \in Inode
  BY DEF Whole, Disk
<1>2. Kept(d, d0, n) /\ Sound(d, d.inode, {}) /\ d \in Disk
  BY DEF Fine, Kept
<1>3. Ranged(d)
  <2> SUFFICES ASSUME NEW m \in Inode
               PROVE  Alike(d.inode[m], d0.inode[m])
    BY DEF Ranged, Alike, Whole
  <2>1. QED
    BY <1>2 DEF Kept, Alike
<1>4. UnusedBlank(d)
  BY <1>2 DEF Kept, Whole, UnusedBlank
<1>5. QED
  BY <1>2, <1>3, <1>4 DEF Whole, Kept

\* An image cut short while giving back still mounts.
LEMMA GapIsLoose ==
    ASSUME NEW d0, Whole(d0), NEW n \in d0.used, NEW r, Fits(r, d0, n, {}), NEW x, Gap(x, r)
    PROVE  Loose(x)
<1>1. n \in Inode
  BY DEF Whole, Disk
<1>2. Fine(r.disk, d0, n)
  BY <1>1, FitsFine
<1>3. Loose(r.disk)
  BY <1>2, FineIsWhole, WholeIsLoose
<1>4. x \in Disk /\ x.inode = r.disk.inode /\ x.freeInodes = r.disk.freeInodes
      /\ Thinner(x, r.disk) /\ x.freeBlocks <= DataBlocks
  BY DEF Gap
<1>5. Forest(r.disk, r.disk.inode) /\ x.inode \in [Inode -> InodeRec]
  BY <1>3, <1>4 DEF Loose, Disk
<1>6. \A m \in Inode : Below(x.inode[m], r.disk.inode[m])
  BY <1>4, BelowItself
<1>7. Forest(x, x.inode)
  BY <1>4, <1>5, <1>6, Fewer
<1>8. QED
  BY <1>3, <1>4, <1>7 DEF Loose, Ranged
----------------------------------------------------------------------------
(* Truncation: a run at its start, the tail of the last block, the new size. *)

Begins(r, d0, n) ==
    r \in Runs /\ r.disk = d0 /\ r.inode = d0.inode[n] /\ r.ok /\ r.trail = {d0}

\* What a call that begins on an image after interrupted allocations has.
LEMMA Starting ==
    ASSUME NEW d0, Whole(d0), NEW n \in d0.used, NEW r, Begins(r, d0, n)
    PROVE  /\ Growing(r, d0, n, {}) /\ Base(r, d0, n)
           /\ Tidy(d0) => Exact(r, n, {}) /\ Mapped(r, BlocksOf(d0.inode[n].size))
<1>1. /\ d0 \in Disk /\ n \in Inode /\ Sound(d0, d0.inode, {})
      /\ r \in Runs /\ r.disk = d0 /\ r.inode = d0.inode[n] /\ r.ok = TRUE /\ r.trail = {d0}
  BY DEF Whole, Disk, Begins, Runs
<1>2. Seen(r, n) = d0.inode
  BY <1>1 DEF Seen, Disk
<1>3. Kept(d0, d0, n) /\ Alike(r.inode, d0.inode[n])
  BY <1>1 DEF Kept, Alike
<1>4. Others(d0, d0, n)
  BY DEF Others
<1>5. Fits(r, d0, n, {})
  BY <1>1, <1>2, <1>3, <1>4, BelowItself DEF Fits
<1>6. Fine(d0, d0, n)
  BY <1>1, <1>3 DEF Fine
<1>7. ASSUME Tidy(d0) PROVE Exact(r, n, {}) /\ Mapped(r, BlocksOf(d0.inode[n].size))
  <2>1. Exact(r, n, {})
    BY <1>1, <1>2, <1>7 DEF Exact, Tidy
  <2>2. Mapped(r, BlocksOf(d0.inode[n].size))
    BY <1>1, <1>7 DEF Mapped, Tidy, MappedAll, Now
  <2>3. QED
    BY <2>1, <2>2
<1>8. QED
  BY <1>1, <1>5, <1>6, <1>7 DEF Growing, Base

\* Other contents for the block of one slot.
Refilled(d, d2, F, m0, s0, b, new) ==
    /\ b = At(d, F[m0], s0) /\ b # NoBlock /\ new \in DataBlock
    /\ First(s0) >= BlocksOf(F[m0].size) => new = ZeroData
    /\ d2.block[b] = new /\ \A x \in DataRegion \ {b} : d2.block[x] = d.block[x]
    /\ d2.bitmap = d.bitmap /\ d2.freeBlocks = d.freeBlocks

\* A block's bytes replaced through its one slot change no pointer.
LEMMA Rewrites ==
    ASSUME NEW d, NEW d2, NEW F, Sound(d, F, {}), NEW m0 \in Inode, NEW s0 \in DataSlot,
           NEW b, NEW new, Refilled(d, d2, F, m0, s0, b, new)
    PROVE  Sound(d2, F, {}) /\ Held(d2, F) = Held(d, F) /\ SameAt(d, d2, F)
<1>1. Forest(d, F) /\ Contents(d, F)
  BY DEF Sound
<1>0. /\ b = At(d, F[m0], s0) /\ b # NoBlock /\ new \in DataBlock
      /\ First(s0) >= BlocksOf(F[m0].size) => new = ZeroData
      /\ d2.block[b] = new /\ \A x \in DataRegion \ {b} : d2.block[x] = d.block[x]
      /\ d2.bitmap = d.bitmap /\ d2.freeBlocks = d.freeBlocks
  BY DEF Refilled
<1>2. \A m \in Inode : \A s \in Slot : At(d, F[m], s) # NoBlock => At(d, F[m], s) \in DataRegion
  BY <1>1, HeldIs
<1>3. s0 \in Slot /\ s0 \notin PtrSlot /\ (\A s \in PtrSlot : s \in Slot)
      /\ \A s \in DataSlot : s \in Slot
  BY Slots
<1>4. \A m \in Inode : \A s \in Slot : At(d, F[m], s) = b => m = m0 /\ s = s0
  <2>1. Apart(d, F)
    BY <1>1 DEF Forest
  <2>2. \A m, l \in Inode : \A s, t \in Slot :
            At(d, F[m], s) = At(d, F[l], t) /\ At(d, F[m], s) # NoBlock => m = l /\ s = t
    BY <2>1 DEF Apart
  <2>3. QED
    BY <1>0, <1>3, <2>2
<1>5. SamePtrs(d, d2, F)
  <2> SUFFICES ASSUME NEW m \in Inode, NEW s \in PtrSlot, At(d, F[m], s) # NoBlock
               PROVE  d2.block[At(d, F[m], s)] = d.block[At(d, F[m], s)]
    BY DEF SamePtrs
  <2>1. At(d, F[m], s) # b
    BY <1>3, <1>4
  <2>2. QED
    BY <1>0, <1>2, <1>3, <2>1
<1>6. Forest(d2, F) /\ Held(d2, F) = Held(d, F) /\ SameAt(d, d2, F)
  BY <1>1, <1>5, SameForest
<1>7. Contents(d2, F)
  <2> SUFFICES ASSUME NEW m \in Inode, NEW s \in DataSlot
               PROVE  Holds(d2, F[m], s)
    BY DEF Contents
  <2>1. At(d2, F[m], s) = At(d, F[m], s)
    BY <1>3, <1>6 DEF SameAt
  <2>2. Holds(d, F[m], s)
    BY <1>1 DEF Contents
  <2>3. CASE At(d, F[m], s) = b
    <3>1. m = m0 /\ s = s0
      BY <1>3, <1>4, <2>3
    <3>2. QED
      BY <1>0, <2>1, <2>3, <3>1 DEF Holds
  <2>4. CASE At(d, F[m], s) = NoBlock
    BY <2>1, <2>4 DEF Holds
  <2>5. CASE At(d, F[m], s) # b /\ At(d, F[m], s) # NoBlock
    <3>1. d2.block[At(d, F[m], s)] = d.block[At(d, F[m], s)]
      BY <1>0, <1>2, <1>3, <2>5
    <3>2. QED
      BY <2>1, <2>2, <3>1 DEF Holds
  <2>6. QED
    BY <2>3, <2>4, <2>5
<1>8. QED
  BY <1>0, <1>6, <1>7 DEF Sound

\* The same for a run that has one of the blocks of its inode written.
LEMMA Rewritten ==
    ASSUME NEW r, NEW d0, NEW n, Base(r, d0, n), NEW lb \in 0 .. MaxFileBlocks - 1,
           lb < BlocksOf(r.inode.size), NEW b, b = Now(r, Home(lb)), b # NoBlock,
           NEW new \in DataBlock, NEW d2, d2 = [r.disk EXCEPT !.block[b] = new]
    PROVE  /\ Base(Write(r, d2), d0, n) /\ Write(r, d2).inode = r.inode
           /\ Write(r, d2).disk.inode = r.disk.inode
           /\ SameSlots(r, Write(r, d2))
           /\ Exact(r, n, {}) => Exact(Write(r, d2), n, {})
           /\ Write(r, d2).trail = r.trail \cup {Write(r, d2).disk}
<1> DEFINE r2 == Write(r, d2)
           F == Seen(r, n)
           s0 == Home(lb)
<1>1. Fits(r, d0, n, {}) /\ r.ok /\ n \in Inode
  BY DEF Base
<1>2. /\ r \in Runs /\ r.disk \in Disk /\ r.inode \in InodeRec /\ Kept(r.disk, d0, n)
      /\ Others(r.disk, d0, n) /\ Sound(r.disk, F, {})
  BY <1>1 DEF Fits, Runs
<1>3. s0 \in DataSlot /\ s0 \in Slot /\ First(s0) = lb
  BY Homes
<1>4. b \in DataRegion
  BY <1>3, BaseIs
<1>5. /\ d2 \in Disk /\ d2.block[b] = new /\ (\A x \in DataRegion \ {b} : d2.block[x] = r.disk.block[x])
      /\ d2.bitmap = r.disk.bitmap /\ d2.freeBlocks = r.disk.freeBlocks
      /\ d2.inode = r.disk.inode /\ d2.used = r.disk.used /\ d2.freeInodes = r.disk.freeInodes
  BY <1>2, <1>4 DEF Disk
<1> HIDE DEF s0
<1>6. /\ F \in [Inode -> InodeRec] /\ F[n] = r.inode
      /\ \A m \in Inode \ {n} : F[m] = r.disk.inode[m]
  BY <1>1, <1>2, Views
<1>7. Sound(d2, F, {}) /\ Held(d2, F) = Held(r.disk, F) /\ SameAt(r.disk, d2, F)
  <2>1. b = At(r.disk, F[n], s0)
    BY <1>6 DEF Now, s0
  <2>2. BlocksOf(F[n].size) \in Nat /\ ~ (First(s0) >= BlocksOf(F[n].size))
    <3>1. r.inode.size \in Nat
      BY <1>2 DEF InodeRec
    <3>2. QED
      BY <1>3, <1>6, <3>1, BlocksOfIs
  <2> HIDE DEF F
  <2>3. QED
    <3>1. Refilled(r.disk, d2, F, n, s0, b, new)
      BY <1>3, <1>5, <2>1, <2>2 DEF Refilled
    <3>2. QED
      BY <1>1, <1>2, <1>3, <3>1, Rewrites
<1>8. /\ r2.disk = d2 /\ r2.inode = r.inode /\ r2.ok = TRUE /\ r2.trail = r.trail \cup {d2}
      /\ r2 \in Runs
  BY <1>1, <1>2, <1>5, Written
<1>9. Seen(r2, n) = F
  BY <1>5, <1>8 DEF Seen
<1> HIDE DEF r2, F
<1>10. SameSlots(r, r2)
  BY <1>1, <1>6, <1>7, <1>8 DEF SameSlots, SameAt, Now
<1>11. Kept(r2.disk, d0, n)
  BY <1>2, <1>5, <1>8 DEF Kept
<1>12. Others(r2.disk, d0, n)
  <2> SUFFICES ASSUME NEW m \in Inode \ {n}, NEW s \in Slot
               PROVE  At(r2.disk, d0.inode[m], s) = At(d0, d0.inode[m], s)
    BY DEF Others
  <2>1. F[m] = d0.inode[m]
    BY <1>2, <1>6 DEF Kept
  <2>2. At(d2, F[m], s) = At(r.disk, F[m], s)
    BY <1>7 DEF SameAt
  <2>3. QED
    BY <1>2, <1>8, <2>1, <2>2 DEF Others
<1>13. Fits(r2, d0, n, {})
  BY <1>1, <1>5, <1>7, <1>8, <1>9, <1>11, <1>12 DEF Fits
<1>14. Exact(r, n, {}) => Exact(r2, n, {})
  BY <1>5, <1>7, <1>8, <1>9 DEF Exact, F
<1>15. QED
  BY <1>1, <1>5, <1>8, <1>10, <1>13, <1>14 DEF Base, r2
\* No admitted size has more blocks than a file can have.
LEMMA MostBlocks ==
    /\ MaxFileBlocks \in Nat /\ MaxFileBlocks * BlockSize \in Nat
    /\ \A size \in 0 .. MaxFileBlocks * BlockSize : BlocksOf(size) \in 0 .. MaxFileBlocks
<1>1. MaxFileBlocks \in Nat /\ BlockSize \in Nat \ {0}
  BY Constants DEF MaxFileBlocks
<1>2. MaxFileBlocks * BlockSize \in Nat
  BY <1>1, Times
<1>3. ASSUME NEW size \in 0 .. MaxFileBlocks * BlockSize
      PROVE  BlocksOf(size) \in 0 .. MaxFileBlocks
  <2>1. size \in Nat /\ size <= MaxFileBlocks * BlockSize
    BY <1>2
  <2>2. BlocksOf(size) \in Nat /\ BlocksOf(size) <= MaxFileBlocks
    BY <1>1, <2>1, BlocksOfIs, MoreBlocks
  <2>3. QED
    BY <1>1, <2>2
<1>4. QED
  BY <1>1, <1>2, <1>3

\* What is in the slots for the blocks of the file.
LEMMA HomeHolds ==
    ASSUME NEW r, NEW d0, NEW n, Base(r, d0, n), NEW lb \in 0 .. MaxFileBlocks - 1,
           Now(r, Home(lb)) # NoBlock
    PROVE  r.disk.block[Now(r, Home(lb))] \in DataBlock
<1>1. n \in Inode /\ r.disk \in Disk /\ r.inode \in InodeRec /\ Contents(r.disk, Seen(r, n))
  BY DEF Base, Fits, Runs, Sound
<1>2. Seen(r, n)[n] = r.inode
  BY <1>1, Views
<1>3. Home(lb) \in DataSlot
  BY Homes
<1>4. Holds(r.disk, Seen(r, n)[n], Home(lb))
  BY <1>1, <1>3 DEF Contents
<1>5. QED
  BY <1>2, <1>4 DEF Holds, Now

Tailed(r, r2, d0, n) ==
    /\ Base(r2, d0, n) /\ r2.inode = r.inode /\ SameSlots(r, r2)
    /\ Exact(r, n, {}) => Exact(r2, n, {})
    /\ r2.trail \subseteq r.trail \cup {r2.disk}

\* Zeroing what is behind the new end in its block changes no pointer.
LEMMA ClearsTail ==
    ASSUME NEW r, NEW d0, NEW n, Base(r, d0, n), Whole(d0),
           NEW size \in Nat, size < r.inode.size
    PROVE  Tailed(r, ClearTail(r, size), d0, n)
<1> DEFINE lb == BlocksOf(size) - 1
           b == Lookup(r.disk, r.inode, lb)
           off == size % BlockSize
           new == [o \in DOMAIN r.disk.block[b] |-> IF o < off THEN r.disk.block[b][o] ELSE 0]
           d2 == [r.disk EXCEPT !.block[b] = new]
           r2 == ClearTail(r, size)
<1>1. r2 = IF ~ r.ok \/ off = 0 \/ b = NoBlock THEN r ELSE Write(r, d2)
  BY DEF ClearTail
<1>2. r.ok
  BY DEF Base
<1>3. CASE off = 0 \/ b = NoBlock
  <2>1. r2 = r
    BY <1>1, <1>3
  <2> HIDE DEF r2
  <2>2. QED
    BY <2>1 DEF Tailed, SameSlots, r2
<1>4. CASE off # 0 /\ b # NoBlock
  <2>1. n \in Inode /\ r.inode.size = d0.inode[n].size /\ d0.inode[n].size \in 0 .. MaxFileBlocks * BlockSize
    BY DEF Base, Fits, Alike, Whole, Ranged
  <2>2. r.inode.size \in Nat /\ BlocksOf(r.inode.size) \in 0 .. MaxFileBlocks /\ MaxFileBlocks \in Nat
    BY <2>1, MostBlocks
  <2>3. size # 0
    <3>1. 0 % BlockSize = 0
      BY Constants
    <3>2. QED
      BY <1>4, <3>1
  <2>4. BlocksOf(size) \in Nat /\ BlocksOf(size) <= BlocksOf(r.inode.size) /\ 0 < BlocksOf(size)
    <3>1. 0 * BlockSize = 0 /\ 0 < size
      BY <2>3, Constants
    <3>2. 0 < BlocksOf(size)
      BY <3>1, MoreBlocks
    <3>3. QED
      BY <2>2, <3>2, BlocksOfIs, MoreBlocks
  <2>5. lb \in 0 .. MaxFileBlocks - 1 /\ lb < BlocksOf(r.inode.size)
    BY <2>2, <2>4
  <2> HIDE DEF lb
  <2>6. b = Now(r, Home(lb))
    BY <2>5, LooksUp DEF Now
  <2>7. r.disk.block[b] \in DataBlock
    BY <1>4, <2>5, <2>6, HomeHolds
  <2>8. new \in DataBlock
    BY <2>7 DEF DataBlock
  <2>9. r2 = Write(r, d2)
    BY <1>1, <1>2, <1>4
  <2> HIDE DEF b, new, d2, r2
  <2>10. d2 = [r.disk EXCEPT !.block[b] = new]
    BY DEF d2
  <2>11. /\ Base(Write(r, d2), d0, n) /\ Write(r, d2).inode = r.inode
         /\ SameSlots(r, Write(r, d2))
         /\ Exact(r, n, {}) => Exact(Write(r, d2), n, {})
         /\ Write(r, d2).trail = r.trail \cup {Write(r, d2).disk}
    BY <1>4, <2>5, <2>6, <2>8, <2>10, Rewritten
  <2>12. Tailed(r, r2, d0, n)
    BY <2>9, <2>11 DEF Tailed
  <2>13. QED
    BY <2>12 DEF r2
<1>5. QED
  BY <1>3, <1>4
----------------------------------------------------------------------------
(* The caller's copy of the inode, with a new size, written to the disk. *)

Sized(J, I) ==
    /\ J \in InodeRec /\ J.direct = I.direct /\ J.single = I.single /\ J.double = I.double
    /\ J.generation = I.generation
    /\ J.size \in 0 .. MaxFileBlocks * BlockSize /\ J.blocks \in 0 .. MaxFileBlocks

\* No block that held bytes of the file is past its new end.
Trimmed(r, size) ==
    \A s \in DataSlot : First(s) >= BlocksOf(size) /\ Now(r, s) # NoBlock =>
                            First(s) >= BlocksOf(r.inode.size)

SameAges(d, d0) == \A m \in Inode : d.inode[m].generation = d0.inode[m].generation

Resized(r, d0, n, J, d) ==
    /\ Whole(d) /\ d.inode[n] = J /\ d.used = d0.used /\ SameAges(d, d0)
    /\ (Tidy(d0) /\ Exact(r, n, {}) /\ J.blocks = BlocksOf(J.size) /\ Mapped(r, J.blocks)) => Tidy(d)

\* The inode written with its new size: the call is done, and its image whole.
LEMMA Resizes ==
    ASSUME NEW r, NEW d0, NEW n, Base(r, d0, n), Whole(d0), n \in d0.used,
           NEW J, Sized(J, r.inode), Trimmed(r, J.size)
    PROVE  Resized(r, d0, n, J, [r.disk EXCEPT !.inode[n] = J])
<1> DEFINE d == [r.disk EXCEPT !.inode[n] = J]
           F == Seen(r, n)
           G == d.inode
<1>1. /\ n \in Inode /\ r.disk \in Disk /\ r.inode \in InodeRec /\ Kept(r.disk, d0, n)
      /\ Others(r.disk, d0, n) /\ Alike(r.inode, d0.inode[n]) /\ Sound(r.disk, F, {})
  BY DEF Base, Fits, Runs
<1>2. /\ J \in InodeRec /\ J.direct = r.inode.direct /\ J.single = r.inode.single
      /\ J.double = r.inode.double /\ J.generation = r.inode.generation
      /\ J.size \in 0 .. MaxFileBlocks * BlockSize /\ J.blocks \in 0 .. MaxFileBlocks
  BY DEF Sized
<1>3. /\ d \in Disk /\ G[n] = J /\ (\A m \in Inode \ {n} : G[m] = r.disk.inode[m])
      /\ G \in [Inode -> InodeRec]
      /\ d.used = r.disk.used /\ d.freeInodes = r.disk.freeInodes /\ d.block = r.disk.block
      /\ d.bitmap = r.disk.bitmap /\ d.freeBlocks = r.disk.freeBlocks
  BY <1>1, <1>2 DEF Disk
<1>4. /\ F \in [Inode -> InodeRec] /\ F[n] = r.inode
      /\ \A m \in Inode \ {n} : F[m] = r.disk.inode[m]
  BY <1>1, Views
<1> HIDE DEF d, F
<1>5. \A m \in Inode : \A s \in Slot : At(d, G[m], s) = At(r.disk, F[m], s)
  <2> SUFFICES ASSUME NEW m \in Inode, NEW s \in Slot
               PROVE  At(d, G[m], s) = At(r.disk, F[m], s)
    OBVIOUS
  <2>1. G[m].direct = F[m].direct /\ G[m].single = F[m].single /\ G[m].double = F[m].double
    BY <1>2, <1>3, <1>4
  <2>2. QED
    BY <1>3, <2>1 DEF At, Ent
<1>6. Forest(r.disk, F) /\ Contents(r.disk, F)
  BY <1>1 DEF Sound
<1>7. Forest(d, G) /\ Held(d, G) = Held(r.disk, F)
  <2>1. \A m \in Inode : Tree(d, G[m])
    BY <1>3, <1>5, <1>6, Slots DEF Forest, Tree
  <2>2. Apart(d, G)
    BY <1>5, <1>6 DEF Forest, Apart
  <2>3. Held(d, G) = Held(r.disk, F)
    BY <1>5 DEF Held
  <2>4. QED
    BY <1>3, <2>1, <2>2, <2>3 DEF Forest
<1>8. Contents(d, G)
  <2> SUFFICES ASSUME NEW m \in Inode, NEW s \in DataSlot
               PROVE  Holds(d, G[m], s)
    BY DEF Contents
  <2>1. s \in Slot
    BY Slots
  <2>2. At(d, G[m], s) = At(r.disk, F[m], s)
    BY <1>5, <2>1
  <2>3. Holds(r.disk, F[m], s)
    BY <1>6 DEF Contents
  <2>4. CASE m # n
    <3>1. G[m] = F[m]
      BY <1>3, <1>4, <2>4
    <3>2. QED
      BY <1>3, <2>2, <2>3, <3>1 DEF Holds
  <2>5. CASE m = n
    <3>1. First(s) >= BlocksOf(J.size) /\ At(d, J, s) # NoBlock =>
              First(s) >= BlocksOf(r.inode.size)
      BY <1>3, <1>4, <2>2, <2>5 DEF Trimmed, Now
    <3>2. QED
      BY <1>3, <1>4, <2>2, <2>3, <2>5, <3>1 DEF Holds
  <2>6. QED
    BY <2>4, <2>5
<1>9. Sound(d, G, {})
  BY <1>1, <1>3, <1>7, <1>8 DEF Sound
<1>10. d.used = d0.used /\ d.freeInodes = d0.freeInodes
       /\ (\A m \in Inode \ {n} : G[m] = d0.inode[m]) /\ SameAges(d, d0)
  BY <1>1, <1>2, <1>3 DEF Kept, SameAges, Alike
<1>11. Ranged(d)
  <2> SUFFICES ASSUME NEW m \in Inode
               PROVE  /\ G[m].generation \in 0 .. MaxGeneration
                      /\ G[m].size \in 0 .. MaxFileBlocks * BlockSize
                      /\ G[m].blocks \in 0 .. MaxFileBlocks
    BY DEF Ranged
  <2>1. Ranged(d0)
    BY DEF Whole
  <2>2. CASE m = n
    BY <1>2, <1>3, <1>10, <2>1, <2>2 DEF Ranged, SameAges
  <2>3. CASE m # n
    BY <1>10, <2>1, <2>3 DEF Ranged
  <2>4. QED
    BY <2>2, <2>3
<1>12. Whole(d)
  <2>1. UnusedBlank(d)
    BY <1>10 DEF Whole, UnusedBlank
  <2>2. QED
    BY <1>3, <1>9, <1>10, <1>11, <2>1 DEF Whole
<1>13. ASSUME Tidy(d0), Exact(r, n, {}), J.blocks = BlocksOf(J.size), Mapped(r, J.blocks)
       PROVE  Tidy(d)
  <2>1. d.bitmap = Held(d, G)
    BY <1>3, <1>7, <1>13 DEF Exact, F
  <2>2. MappedAll(d)
    <3> SUFFICES ASSUME NEW m \in Inode
                 PROVE  /\ G[m].blocks = BlocksOf(G[m].size)
                        /\ \A s \in Slot : First(s) < G[m].blocks <=> At(d, G[m], s) # NoBlock
      BY DEF MappedAll
    <3>1. CASE m = n
      BY <1>3, <1>4, <1>5, <1>13, <3>1 DEF Mapped, Now
    <3>2. CASE m # n
      <4>1. G[m] = d0.inode[m]
        BY <1>10, <3>2
      <4>2. F[m] = d0.inode[m]
        BY <1>1, <1>4, <3>2 DEF Kept
      <4>3. \A s \in Slot : At(d, G[m], s) = At(d0, d0.inode[m], s)
        BY <1>1, <1>5, <3>2, <4>2 DEF Others
      <4>4. QED
        BY <1>13, <4>1, <4>3 DEF Tidy, MappedAll
    <3>3. QED
      BY <3>1, <3>2
  <2>3. QED
    BY <1>10, <1>12, <1>13, <2>1, <2>2 DEF Tidy
<1>14. Resized(r, d0, n, J, d)
  BY <1>3, <1>10, <1>12, <1>13 DEF Resized
<1>15. QED
  BY <1>14 DEF d
----------------------------------------------------------------------------
(* What a run of an operation on a used inode leaves, and where a kill or   *)
(* an error on the way leaves it.                                           *)

Passable(x, d0) == Loose(x) /\ x.used = d0.used /\ SameAges(x, d0)

Passes(q, d0) ==
    \A x \in q.trail : Passable(x, d0) /\ (d0.bitmap \subseteq x.bitmap => Whole(x))

Safe(q, d0, n) ==
    /\ q \in Runs
    /\ Whole(q.disk) /\ q.disk.used = d0.used /\ SameAges(q.disk, d0)
    /\ Tidy(d0) => Tidy(q.disk)
    /\ q.ok => q.disk.inode[n] = q.inode
    /\ \A x \in q.trail : Passable(x, d0)
    /\ q.ok => Passes(q, d0)

\* What an interruption of an allocation leaves, may be left.
LEMMA FinePasses ==
    ASSUME NEW d0, Whole(d0), NEW n \in d0.used, NEW x, Fine(x, d0, n)
    PROVE  Passable(x, d0) /\ Whole(x)
<1>1. Whole(x) /\ Loose(x)
  BY FineIsWhole, WholeIsLoose
<1>2. x.used = d0.used
  BY DEF Fine, Kept
<1>3. SameAges(x, d0)
  <2>1. \A m \in Inode \ {n} : x.inode[m] = d0.inode[m]
    BY DEF Fine, Kept
  <2>2. x.inode[n].generation = d0.inode[n].generation
    BY DEF Fine, Kept, Alike
  <2>3. QED
    BY <2>1, <2>2 DEF SameAges
<1>4. QED
  BY <1>1, <1>2, <1>3 DEF Passable

\* Doing nothing leaves what may be left.
LEMMA ItselfPasses ==
    ASSUME NEW d0, Whole(d0)
    PROVE  Passable(d0, d0)
BY WholeIsLoose DEF Passable, SameAges

\* The new size goes into the inode.
Resizing(c, d0, n, size) ==
    /\ Base(c, d0, n) /\ size \in 0 .. MaxFileBlocks * BlockSize /\ Trimmed(c, size)
    /\ Tidy(d0) => Exact(c, n, {}) /\ Mapped(c, BlocksOf(size))
    /\ Passes(c, d0)

Enters(c, n, size) ==
    WriteInode([c EXCEPT !.inode.size = size, !.inode.blocks = BlocksOf(size)], n)

\* A resized file, its inode written, is a safe outcome of the size asked for.
LEMMA Finishes ==
    ASSUME NEW d0, Whole(d0), NEW n \in d0.used, NEW c, NEW size, Resizing(c, d0, n, size),
           NEW q, q = Enters(c, n, size)
    PROVE  Safe(q, d0, n) /\ q.ok /\ q.inode.size = size
<1> DEFINE J == [c.inode EXCEPT !.size = size, !.blocks = BlocksOf(size)]
           c2 == [c EXCEPT !.inode = J]
           d == [c.disk EXCEPT !.inode[n] = J]
<1>1. /\ Base(c, d0, n) /\ size \in 0 .. MaxFileBlocks * BlockSize /\ Trimmed(c, size)
      /\ Passes(c, d0) /\ (Tidy(d0) => Exact(c, n, {}) /\ Mapped(c, BlocksOf(size)))
  BY DEF Resizing
<1>2. c \in Runs /\ c.ok /\ c.inode \in InodeRec /\ c.disk \in Disk /\ n \in Inode
      /\ size \in Nat /\ BlocksOf(size) \in 0 .. MaxFileBlocks
  <2>1. c \in Runs /\ c.ok /\ n \in Inode
    BY <1>1 DEF Base, Fits
  <2>2. size \in Nat /\ BlocksOf(size) \in 0 .. MaxFileBlocks
    BY <1>1, MostBlocks
  <2>3. QED
    BY <2>1, <2>2 DEF Runs
<1>3. /\ J \in InodeRec /\ J.direct = c.inode.direct /\ J.single = c.inode.single
      /\ J.double = c.inode.double /\ J.generation = c.inode.generation
      /\ J.size = size /\ J.blocks = BlocksOf(size)
  <2>1. BlocksOf(size) \in Nat
    BY <1>2, BlocksOfIs
  <2>2. QED
    BY <1>2, <2>1 DEF InodeRec
<1>4. Sized(J, c.inode) /\ Trimmed(c, J.size)
  BY <1>1, <1>2, <1>3 DEF Sized
<1>5. q = Write(c2, d)
  <2>1. [c EXCEPT !.inode.size = size, !.inode.blocks = BlocksOf(size)] = c2
    BY <1>2 DEF Runs, InodeRec
  <2>2. c2.disk = c.disk /\ c2.inode = J
    BY <1>2 DEF Runs
  <2>3. QED
    BY <2>1, <2>2 DEF WriteInode, Enters
<1>6. /\ c2 \in Runs /\ c2.ok /\ c2.trail = c.trail /\ c2.inode = J
  BY <1>2, <1>3 DEF Runs
<1> HIDE DEF J, c2
<1>7. Resized(c, d0, n, J, d)
  BY <1>1, <1>2, <1>4, Resizes
<1> HIDE DEF d
<1>8. Whole(d) /\ d.inode[n] = J /\ d.used = d0.used /\ SameAges(d, d0) /\ (Tidy(d0) => Tidy(d))
  BY <1>1, <1>3, <1>7 DEF Resized
<1>9. d \in Disk
  BY <1>8 DEF Whole
<1>10. q.disk = d /\ q.inode = J /\ q.ok = TRUE /\ q.trail = c.trail \cup {d} /\ q \in Runs
  <2>1. /\ Write(c2, d).disk = d /\ Write(c2, d).inode = c2.inode /\ Write(c2, d).ok = TRUE
        /\ Write(c2, d).trail = c2.trail \cup {d} /\ Write(c2, d) \in Runs
    BY <1>6, <1>9, Written
  <2>2. QED
    BY <1>5, <1>6, <2>1
<1>11. Passable(d, d0)
  BY <1>8, WholeIsLoose DEF Passable
<1>12. Passes(q, d0)
  BY <1>1, <1>8, <1>10, <1>11 DEF Passes
<1>13. Safe(q, d0, n)
  BY <1>8, <1>10, <1>12 DEF Safe, Passes
<1>14. QED
  BY <1>3, <1>10, <1>13

\* A failed run that has left the image in order.
LEMMA FailsSafely ==
    ASSUME NEW d0, NEW n, NEW q \in Runs, ~ q.ok, Whole(q.disk), q.disk.used = d0.used,
           SameAges(q.disk, d0), Tidy(d0) => Tidy(q.disk), \A x \in q.trail : Passable(x, d0)
    PROVE  Safe(q, d0, n)
BY DEF Safe

\* The size is given up: nothing has been written.
LEMMA TooLarge ==
    ASSUME NEW d0, Whole(d0), NEW n \in d0.used, NEW r, Begins(r, d0, n)
    PROVE  Safe(Failed(r), d0, n) /\ ~ Failed(r).ok
<1>1. r \in Runs /\ r.disk = d0 /\ r.trail = {d0}
  BY DEF Begins
<1>2. /\ Failed(r) \in Runs /\ ~ Failed(r).ok
      /\ Failed(r).disk = d0 /\ Failed(r).trail = {d0}
  BY <1>1 DEF Failed, Runs
<1>3. SameAges(d0, d0)
  BY DEF SameAges
<1>4. \A x \in Failed(r).trail : Passable(x, d0)
  BY <1>2, ItselfPasses
<1> DEFINE q == Failed(r)
<1> HIDE DEF q
<1>5. q \in Runs /\ ~ q.ok /\ q.disk = d0 /\ \A x \in q.trail : Passable(x, d0)
  BY <1>2, <1>4 DEF q
<1>6. Safe(q, d0, n) /\ ~ q.ok
  BY <1>3, <1>5, FailsSafely
<1>7. QED
  BY <1>6 DEF q

\* The same size again.
LEMMA Stays ==
    ASSUME NEW d0, Whole(d0), NEW n \in d0.used, NEW r, Begins(r, d0, n), NEW size,
           size = r.inode.size
    PROVE  Resizing(r, d0, n, size)
<1>1. Base(r, d0, n) /\ (Tidy(d0) => Exact(r, n, {}) /\ Mapped(r, BlocksOf(d0.inode[n].size)))
  BY Starting
<1>2. r.inode = d0.inode[n] /\ r.trail = {d0} /\ n \in Inode
  BY <1>1 DEF Begins, Base
<1>3. size \in 0 .. MaxFileBlocks * BlockSize
  BY <1>2 DEF Whole, Ranged
<1>4. Trimmed(r, size)
  BY DEF Trimmed
<1>5. Passes(r, d0)
  BY <1>2, ItselfPasses DEF Passes
<1>6. QED
  BY <1>1, <1>2, <1>3, <1>4, <1>5 DEF Resizing
\* An interruption while giving back leaves what may be left.
LEMMA GapPasses ==
    ASSUME NEW d0, Whole(d0), NEW n \in d0.used, NEW r, Fits(r, d0, n, {}), NEW x, Gap(x, r)
    PROVE  Passable(x, d0)
<1>1. Loose(x)
  BY GapIsLoose
<1>2. x.used = d0.used /\ x.inode = r.disk.inode
  BY DEF Gap, Fits, Kept
<1>3. SameAges(r.disk, d0)
  <2>1. \A m \in Inode \ {n} : r.disk.inode[m] = d0.inode[m]
    BY DEF Fits, Kept
  <2>2. r.disk.inode[n].generation = d0.inode[n].generation
    BY DEF Fits, Kept, Alike
  <2>3. QED
    BY <2>1, <2>2 DEF SameAges
<1>4. QED
  BY <1>1, <1>2, <1>3 DEF Passable, SameAges

\* Shrinking: the blocks past the new end, then the tail of the last one kept.
Shrinking(r, n, size) == ClearTail(FreeBlocksAfter(r, n, BlocksOf(size)), size)

\* Shrinking a file, up to the write of its inode.
LEMMA Shrinks ==
    ASSUME NEW d0, Whole(d0), NEW n \in d0.used, NEW r, Begins(r, d0, n),
           NEW size \in Nat, size < r.inode.size
    PROVE  Resizing(Shrinking(r, n, size), d0, n, size)
<1> DEFINE new == BlocksOf(size)
           old == BlocksOf(r.inode.size)
           f == FreeBlocksAfter(r, n, new)
           c == ClearTail(f, size)
<1>1. /\ Base(r, d0, n)
      /\ Tidy(d0) => Exact(r, n, {}) /\ Mapped(r, BlocksOf(d0.inode[n].size))
  BY Starting
<1>2. n \in Inode /\ r.disk = d0 /\ r.inode = d0.inode[n] /\ r.trail = {d0}
  BY <1>1 DEF Base, Begins
<1>3. r.inode.size \in 0 .. MaxFileBlocks * BlockSize /\ size \in 0 .. MaxFileBlocks * BlockSize
  <2>1. r.inode.size \in 0 .. MaxFileBlocks * BlockSize
    BY <1>2 DEF Whole, Ranged
  <2>2. QED
    BY <2>1, MostBlocks
<1>4. new \in Nat /\ old \in Nat /\ new <= old
  <2>1. r.inode.size \in Nat /\ size <= r.inode.size
    BY <1>3
  <2>2. QED
    BY <2>1, BlocksOfIs, MoreBlocks
<1>5. Freed(f, r, d0, n, new)
  BY <1>1, <1>4, FreesAfter
<1> HIDE DEF f
<1>6. /\ Fits(f, d0, n, {}) /\ f.ok
      /\ \A s \in Slot : Now(f, s) = IF s \in Past(new) THEN NoBlock ELSE Now(r, s)
      /\ Exact(r, n, {}) => Exact(f, n, {})
      /\ \A x \in f.trail : x \in r.trail \/ Gap(x, r) \/ Fine(x, d0, n)
  BY <1>5 DEF Freed
<1>7. Base(f, d0, n) /\ f.inode.size = r.inode.size
  BY <1>2, <1>6 DEF Base, Fits, Alike
<1>8. Tailed(f, c, d0, n)
  BY <1>7, ClearsTail
<1> HIDE DEF c
<1>9. /\ Base(c, d0, n) /\ c.inode = f.inode /\ c.trail \subseteq f.trail \cup {c.disk}
      /\ \A s \in Slot : Now(c, s) = IF s \in Past(new) THEN NoBlock ELSE Now(r, s)
      /\ Exact(r, n, {}) => Exact(c, n, {})
  BY <1>6, <1>8 DEF Tailed, SameSlots
<1>10. Trimmed(c, size)
  <2> SUFFICES ASSUME NEW s \in DataSlot, First(s) >= new
               PROVE  Now(c, s) = NoBlock
    BY DEF Trimmed
  <2>1. s \in Past(new)
    BY Slots DEF Past
  <2>2. QED
    BY <1>9, <2>1 DEF Past
<1>11. ASSUME Tidy(d0) PROVE Exact(c, n, {}) /\ Mapped(c, new)
  <2>1. Exact(c, n, {}) /\ Mapped(r, old)
    BY <1>1, <1>2, <1>9, <1>11
  <2>2. Mapped(c, new)
    <3> SUFFICES ASSUME NEW s \in Slot
                 PROVE  First(s) < new <=> Now(c, s) # NoBlock
      BY DEF Mapped
    <3>1. First(s) \in Nat /\ (First(s) < old <=> Now(r, s) # NoBlock)
      BY <2>1, FirstType DEF Mapped
    <3>2. s \in Past(new) <=> First(s) >= new
      BY DEF Past
    <3> HIDE DEF new, old
    <3>3. QED
      BY <1>4, <1>9, <3>1, <3>2
  <2>3. QED
    BY <2>1, <2>2
<1>12. Fine(c.disk, d0, n)
  BY <1>2, <1>9, FitsFine DEF Base
<1>13. Passes(c, d0)
  <2> SUFFICES ASSUME NEW x \in c.trail
               PROVE  Passable(x, d0) /\ (d0.bitmap \subseteq x.bitmap => Whole(x))
    BY DEF Passes
  <2>1. x = d0 \/ Gap(x, r) \/ Fine(x, d0, n)
    BY <1>2, <1>6, <1>9, <1>12
  <2>2. CASE x = d0
    BY <2>2, ItselfPasses
  <2>3. CASE Gap(x, r)
    <3>1. Fits(r, d0, n, {})
      BY <1>1 DEF Base
    <3>2. Passable(x, d0)
      BY <2>3, <3>1, GapPasses
    <3>3. ~ (d0.bitmap \subseteq x.bitmap)
      BY <1>2, <2>3 DEF Gap
    <3>4. QED
      BY <3>2, <3>3
  <2>4. CASE Fine(x, d0, n)
    BY <2>4, FinePasses
  <2>5. QED
    BY <2>1, <2>2, <2>3, <2>4
<1>14. Resizing(c, d0, n, size)
  BY <1>3, <1>9, <1>10, <1>11, <1>13 DEF Resizing
<1>15. QED
  BY <1>14 DEF Shrinking, c, f

\* Growing: block by block.
Ensuring(r, n, size) == EnsureBlocks(r, n, BlocksOf(r.inode.size), BlocksOf(size))

\* Growing a file, up to the write of its inode.
LEMMA GrowsFully ==
    ASSUME NEW d0, Whole(d0), NEW n \in d0.used, NEW r, Begins(r, d0, n),
           NEW size \in 0 .. MaxFileBlocks * BlockSize, r.inode.size < size
    PROVE  /\ Grown(r, Ensuring(r, n, size), d0, n, BlocksOf(r.inode.size), BlocksOf(size))
           /\ Ensuring(r, n, size).ok => Resizing(Ensuring(r, n, size), d0, n, size)
<1> DEFINE new == BlocksOf(size)
           old == BlocksOf(r.inode.size)
           g == Ensuring(r, n, size)
<1>1. /\ Growing(r, d0, n, {}) /\ n \in Inode /\ r.inode = d0.inode[n]
      /\ Tidy(d0) => Exact(r, n, {}) /\ Mapped(r, old)
  BY Starting DEF Base, Begins
<1>2. r.inode.size \in Nat /\ size \in Nat /\ r.inode.size <= size
  <2>1. r.inode.size \in 0 .. MaxFileBlocks * BlockSize
    BY <1>1 DEF Whole, Ranged
  <2>2. QED
    BY <2>1, MostBlocks
<1>3. old \in Nat /\ new \in 0 .. MaxFileBlocks /\ old <= new
  BY <1>2, BlocksOfIs, MoreBlocks, MostBlocks
<1>4. Grown(r, g, d0, n, old, new)
  BY <1>1, <1>3, GrowsBlocks DEF Ensuring
<1> HIDE DEF g
<1>5. ASSUME g.ok PROVE Resizing(g, d0, n, size)
  <2>1. /\ Fits(g, d0, n, {}) /\ (\A x \in g.trail : Fine(x, d0, n))
        /\ Exact(r, n, {}) => Exact(g, n, {})
        /\ Mapped(r, old) => Mapped(g, new)
    BY <1>4, <1>5 DEF Grown, Growing
  <2>2. Base(g, d0, n) /\ g.inode.size = r.inode.size
    BY <1>1, <1>5, <2>1 DEF Base, Fits, Alike
  <2>3. Trimmed(g, size)
    <3> SUFFICES ASSUME NEW s \in DataSlot, First(s) >= new
                 PROVE  First(s) >= old
      BY <2>2 DEF Trimmed
    <3>1. First(s) \in Nat
      BY Slots, FirstType
    <3> HIDE DEF new, old
    <3>2. QED
      BY <1>3, <3>1
  <2>4. Passes(g, d0)
    BY <2>1, FinePasses DEF Passes
  <2>5. QED
    BY <1>1, <2>1, <2>2, <2>3, <2>4 DEF Resizing
<1>6. QED
  BY <1>4, <1>5 DEF g
\* Growth that fails: what it took is given back.
LEMMA GivesBack ==
    ASSUME NEW d0, Whole(d0), NEW n \in d0.used, NEW r, Begins(r, d0, n), NEW old \in Nat,
           old = BlocksOf(r.inode.size), NEW g, NEW new, Grown(r, g, d0, n, old, new), ~ g.ok
    PROVE  Safe(Rollback(g, n, old), d0, n) /\ ~ Rollback(g, n, old).ok
<1> DEFINE g1 == [g EXCEPT !.ok = TRUE]
           f == FreeBlocksAfter(g1, n, old)
           f1 == [f EXCEPT !.ok = TRUE]
           d == [f.disk EXCEPT !.inode[n] = f.inode]
           w == WriteInode(f, n)
           q == Rollback(g, n, old)
<1>1. /\ n \in Inode /\ r.inode = d0.inode[n]
      /\ Tidy(d0) => Exact(r, n, {}) /\ Mapped(r, old)
  BY Starting DEF Base, Begins
<1>2. /\ Fits(g, d0, n, {}) /\ (\A x \in g.trail : Fine(x, d0, n))
      /\ Exact(r, n, {}) => Exact(g, n, {})
      /\ \A s \in Slot : Now(r, s) # NoBlock => Now(g, s) = Now(r, s)
  BY DEF Grown, Growing
<1>3. /\ g1 \in Runs /\ g1.ok /\ g1.disk = g.disk /\ g1.inode = g.inode /\ g1.trail = g.trail
  BY <1>2 DEF Fits, Runs
<1>4. q = Failed(WriteInode(f1, n))
  BY DEF Rollback
<1> HIDE DEF g1
<1>5. /\ Base(g1, d0, n) /\ (Exact(g, n, {}) => Exact(g1, n, {}))
      /\ \A s \in Slot : Now(g1, s) = Now(g, s)
  <2>1. Seen(g1, n) = Seen(g, n)
    BY <1>3 DEF Seen
  <2>2. \A s \in Slot : Now(g1, s) = Now(g, s)
    BY <1>3 DEF Now
  <2>3. Fits(g1, d0, n, {})
    BY <1>2, <1>3, <2>1 DEF Fits
  <2>4. Exact(g, n, {}) => Exact(g1, n, {})
    BY <1>3, <2>1 DEF Exact
  <2>5. QED
    BY <1>1, <1>3, <2>2, <2>3, <2>4 DEF Base
<1>6. Freed(f, g1, d0, n, old)
  BY <1>5, FreesAfter
<1> HIDE DEF f
<1>7. /\ Fits(f, d0, n, {}) /\ f.ok /\ f \in Runs
      /\ \A s \in Slot : Now(f, s) = IF s \in Past(old) THEN NoBlock ELSE Now(g1, s)
      /\ Exact(g1, n, {}) => Exact(f, n, {})
      /\ \A x \in f.trail : x \in g1.trail \/ Gap(x, g1) \/ Fine(x, d0, n)
  BY <1>6 DEF Freed, Fits
<1>8. f1 = f
  BY <1>7 DEF Runs
<1> HIDE DEF f1
<1>9. Base(f, d0, n)
  BY <1>1, <1>7 DEF Base
<1>10. f.inode \in InodeRec /\ f.inode.size = d0.inode[n].size /\ f.inode.blocks = d0.inode[n].blocks
  BY <1>7 DEF Fits, Alike, Runs
<1>11. Sized(f.inode, f.inode) /\ Trimmed(f, f.inode.size)
  <2>1. /\ f.inode.size \in 0 .. MaxFileBlocks * BlockSize
        /\ f.inode.blocks \in 0 .. MaxFileBlocks
    BY <1>1, <1>10 DEF Whole, Ranged
  <2>2. QED
    BY <1>10, <2>1 DEF Sized, Trimmed
<1>12. Resized(f, d0, n, f.inode, d)
  BY <1>9, <1>11, Resizes
<1> HIDE DEF d
<1>13. ASSUME Tidy(d0)
       PROVE  Exact(f, n, {}) /\ f.inode.blocks = BlocksOf(f.inode.size) /\ Mapped(f, f.inode.blocks)
  <2>1. f.inode.blocks = old /\ BlocksOf(f.inode.size) = old
    BY <1>1, <1>10, <1>13 DEF Tidy, MappedAll
  <2>2. Mapped(f, old)
    <3> SUFFICES ASSUME NEW s \in Slot
                 PROVE  First(s) < old <=> Now(f, s) # NoBlock
      BY DEF Mapped
    <3>1. First(s) \in Nat /\ (First(s) < old <=> Now(r, s) # NoBlock)
      BY <1>1, <1>13, FirstType DEF Mapped
    <3>2. s \in Past(old) <=> First(s) >= old
      BY DEF Past
    <3>3. Now(r, s) # NoBlock => Now(g1, s) = Now(r, s)
      BY <1>2, <1>5
    <3>4. Now(f, s) = IF s \in Past(old) THEN NoBlock ELSE Now(g1, s)
      BY <1>7
    <3>5. First(s) >= old <=> ~ (First(s) < old)
      BY <3>1
    <3>6. QED
      BY <3>1, <3>2, <3>3, <3>4, <3>5
  <2>3. Exact(f, n, {})
    BY <1>1, <1>2, <1>5, <1>7, <1>13
  <2>4. QED
    BY <2>1, <2>2, <2>3
<1>14. Whole(d) /\ d.used = d0.used /\ SameAges(d, d0) /\ (Tidy(d0) => Tidy(d))
  BY <1>12, <1>13 DEF Resized
<1>15. w.disk = d /\ w.trail = f.trail \cup {d} /\ w \in Runs
  <2>1. w = Write(f, d)
    BY DEF WriteInode, d
  <2>2. d \in Disk
    BY <1>14 DEF Whole
  <2>3. Write(f, d).disk = d /\ Write(f, d).trail = f.trail \cup {d} /\ Write(f, d) \in Runs
    BY <1>7, <2>2, Written
  <2>4. QED
    BY <2>1, <2>3
<1>16. q = Failed(w)
  BY <1>4, <1>8
<1> HIDE DEF w, q
<1>17. q \in Runs /\ ~ q.ok /\ q.disk = d /\ q.trail = f.trail \cup {d}
  BY <1>15, <1>16 DEF Failed, Runs
<1>18. \A x \in q.trail : Passable(x, d0)
  <2> SUFFICES ASSUME NEW x \in q.trail
               PROVE  Passable(x, d0)
    OBVIOUS
  <2>1. x = d \/ Gap(x, g1) \/ Fine(x, d0, n)
    BY <1>2, <1>3, <1>7, <1>17
  <2>2. CASE x = d
    BY <1>14, <2>2, WholeIsLoose DEF Passable
  <2>3. CASE Gap(x, g1)
    <3>1. Fits(g1, d0, n, {})
      BY <1>5 DEF Base
    <3>2. QED
      BY <2>3, <3>1, GapPasses
  <2>4. CASE Fine(x, d0, n)
    BY <2>4, FinePasses
  <2>5. QED
    BY <2>1, <2>2, <2>3, <2>4
<1>19. Safe(q, d0, n) /\ ~ q.ok
  BY <1>14, <1>17, <1>18, FailsSafely
<1>20. QED
  BY <1>19 DEF q

\* A failed call does not write its inode.
LEMMA EntersFailed ==
    ASSUME NEW d0, NEW n, NEW t, Safe(t, d0, n), ~ t.ok, NEW size \in Nat
    PROVE  Safe(Enters(t, n, size), d0, n) /\ ~ Enters(t, n, size).ok
<1> DEFINE t1 == [t EXCEPT !.inode.size = size, !.inode.blocks = BlocksOf(size)]
           q == Enters(t, n, size)
<1>1. t \in Runs /\ BlocksOf(size) \in Nat
  BY BlocksOfIs DEF Safe
<1>2. /\ t1 \in Runs /\ ~ t1.ok /\ t1.disk = t.disk /\ t1.trail = t.trail
  BY <1>1 DEF Runs, InodeRec
<1>3. q = t1
  <2>1. q = WriteInode(t1, n)
    BY DEF Enters
  <2> HIDE DEF t1, q
  <2>2. QED
    BY <1>2, <2>1 DEF WriteInode, Write
<1> HIDE DEF t1, q
<1>4. Safe(q, d0, n) /\ ~ q.ok
  BY <1>2, <1>3 DEF Safe
<1>5. QED
  BY <1>4 DEF q

\* ufs_truncate_inode, whatever the size asked for.
LEMMA Truncates ==
    ASSUME NEW d0, Whole(d0), NEW n \in d0.used, NEW r, Begins(r, d0, n), NEW size \in Nat
    PROVE  /\ Safe(TruncateInode(r, n, size), d0, n)
           /\ TruncateInode(r, n, size).ok =>
                 TruncateInode(r, n, size).inode.size = size /\ size <= MaxFileBlocks * BlockSize
<1> DEFINE old == BlocksOf(r.inode.size)
           new == BlocksOf(size)
           g == Ensuring(r, n, size)
           q == TruncateInode(r, n, size)
<1>1. r.ok /\ r.inode.size \in 0 .. MaxFileBlocks * BlockSize /\ r.inode = d0.inode[n]
      /\ MaxFileBlocks * BlockSize \in Nat /\ r.inode.size \in Nat
  <2>1. r.ok /\ n \in Inode /\ r.inode = d0.inode[n]
    BY Starting DEF Begins, Base
  <2>2. QED
    BY <2>1, MostBlocks DEF Whole, Ranged
<1>2. CASE size > MaxFileBlocks * BlockSize
  <2>1. q = Failed(r)
    BY <1>2 DEF TruncateInode
  <2> HIDE DEF q
  <2>2. Safe(q, d0, n) /\ ~ q.ok
    BY <2>1, TooLarge
  <2>3. QED
    BY <2>2 DEF q
<1>3. CASE ~ (size > MaxFileBlocks * BlockSize) /\ size > r.inode.size
  <2>1. q = Enters(Grow(r, n, old, new), n, size)
    BY <1>1, <1>3 DEF TruncateInode, Enters
  <2>2. Grow(r, n, old, new) = Rollback(g, n, old)
    BY DEF Grow, Ensuring
  <2>3. size \in 0 .. MaxFileBlocks * BlockSize /\ r.inode.size < size
    BY <1>1, <1>3
  <2>4. Grown(r, g, d0, n, old, new) /\ (g.ok => Resizing(g, d0, n, size))
    BY <2>3, GrowsFully
  <2> HIDE DEF q, g
  <2>5. old \in Nat
    BY <1>1, BlocksOfIs
  <2>6. CASE g.ok
    <3>1. q = Enters(g, n, size)
      BY <2>1, <2>2, <2>6 DEF Rollback
    <3>2. Safe(q, d0, n) /\ q.ok /\ q.inode.size = size
      BY <2>4, <2>6, <3>1, Finishes
    <3>3. QED
      BY <1>1, <1>3, <3>2 DEF q
  <2>7. CASE ~ g.ok
    <3>1. Safe(Rollback(g, n, old), d0, n) /\ ~ Rollback(g, n, old).ok
      BY <2>4, <2>5, <2>7, GivesBack
    <3>2. Safe(q, d0, n) /\ ~ q.ok
      BY <2>1, <2>2, <3>1, EntersFailed
    <3>3. QED
      BY <3>2 DEF q
  <2>8. QED
    BY <2>6, <2>7
<1>4. CASE ~ (size > MaxFileBlocks * BlockSize) /\ size < r.inode.size
  <2>1. q = Enters(Shrinking(r, n, size), n, size)
    <3>1. ~ (size > r.inode.size)
      BY <1>1, <1>4
    <3>2. QED
      BY <1>1, <1>4, <3>1 DEF TruncateInode, Enters, Shrinking
  <2> HIDE DEF q
  <2>2. Resizing(Shrinking(r, n, size), d0, n, size)
    BY <1>4, Shrinks
  <2>3. Safe(q, d0, n) /\ q.ok /\ q.inode.size = size
    BY <2>1, <2>2, Finishes
  <2>4. QED
    BY <1>1, <1>4, <2>3 DEF q
<1>5. CASE size = r.inode.size
  <2>1. ~ (size > r.inode.size) /\ ~ (size < r.inode.size) /\ ~ (size > MaxFileBlocks * BlockSize)
    BY <1>1, <1>5
  <2>2. q = Enters(r, n, size)
    BY <1>1, <2>1 DEF TruncateInode, Enters
  <2> HIDE DEF q
  <2>3. Resizing(r, d0, n, size)
    BY <1>5, Stays
  <2>4. Safe(q, d0, n) /\ q.ok /\ q.inode.size = size
    BY <2>2, <2>3, Finishes
  <2>5. QED
    BY <1>1, <2>1, <2>4 DEF q
<1>6. QED
  BY <1>1, <1>2, <1>3, <1>4, <1>5
----------------------------------------------------------------------------
(* Writing to a file: the blocks one by one. *)

\* A run whose copy of the inode is the one on the disk.
LEMMA Resuming ==
    ASSUME NEW c \in Runs, c.ok, Whole(c.disk), NEW n \in c.disk.used, c.disk.inode[n] = c.inode
    PROVE  Base(c, c.disk, n) /\ Seen(c, n) = c.disk.inode
<1>1. c.disk \in Disk /\ n \in Inode /\ Sound(c.disk, c.disk.inode, {})
  BY DEF Whole, Disk
<1>2. Seen(c, n) = c.disk.inode
  BY <1>1 DEF Seen, Disk
<1>3. Kept(c.disk, c.disk, n) /\ Alike(c.inode, c.disk.inode[n]) /\ Others(c.disk, c.disk, n)
  BY <1>1 DEF Kept, Alike, Others
<1>4. Below(c.disk.inode[n], c.inode)
  BY BelowItself
<1>5. QED
  BY <1>1, <1>2, <1>3, <1>4 DEF Base, Fits

\* Other bytes in one block of a file leave a tidy image tidy.
LEMMA Overwrites ==
    ASSUME NEW c \in Runs, c.ok, Whole(c.disk), NEW n \in c.disk.used, c.disk.inode[n] = c.inode,
           NEW w \in Runs, Base(w, c.disk, n), w.inode = c.inode, w.disk.inode = c.disk.inode,
           SameSlots(c, w), Exact(c, n, {}) => Exact(w, n, {})
    PROVE  /\ Whole(w.disk) /\ w.disk.used = c.disk.used
           /\ Tidy(c.disk) => Tidy(w.disk)
<1>1. Base(c, c.disk, n) /\ Seen(c, n) = c.disk.inode /\ n \in Inode
  BY Resuming DEF Base
<1>2. /\ Fits(w, c.disk, n, {}) /\ Kept(w.disk, c.disk, n) /\ Others(w.disk, c.disk, n)
      /\ w.disk.used = c.disk.used /\ w.disk.freeInodes = c.disk.freeInodes
  BY DEF Base, Fits, Kept
<1>3. Whole(w.disk)
  <2>1. Fine(w.disk, c.disk, n)
    BY <1>1, <1>2, FitsFine
  <2>2. QED
    BY <2>1, FineIsWhole
<1>4. ASSUME Tidy(c.disk) PROVE Tidy(w.disk)
  <2>1. Seen(w, n) = w.disk.inode
    BY <1>1 DEF Seen
  <2>2. Exact(c, n, {})
    BY <1>1, <1>4 DEF Tidy, Exact
  <2>3. w.disk.bitmap = Held(w.disk, w.disk.inode)
    BY <2>1, <2>2 DEF Exact
  <2>4. MappedAll(w.disk)
    <3> SUFFICES ASSUME NEW m \in Inode, NEW s \in Slot
                 PROVE  At(w.disk, c.disk.inode[m], s) = At(c.disk, c.disk.inode[m], s)
      BY <1>4 DEF MappedAll, Tidy
    <3>1. CASE m = n
      BY <3>1 DEF SameSlots, Now
    <3>2. CASE m # n
      BY <1>2, <3>2 DEF Others
    <3>3. QED
      BY <3>1, <3>2
  <2>5. QED
    BY <1>2, <1>3, <1>4, <2>3, <2>4 DEF Tidy
<1>5. QED
  BY <1>2, <1>3, <1>4

Reaches(c, d0, n, end) == Safe(c, d0, n) /\ (c.ok => end <= c.inode.size)

\* Copying into one block of the file keeps the outcome safe.
LEMMA CopyKeeps ==
    ASSUME NEW d0, NEW n \in d0.used, NEW end \in Nat, NEW c, Reaches(c, d0, n, end),
           NEW lb \in Nat, lb * BlockSize < end, NEW start, NEW byte \in Bytes
    PROVE  Reaches(CopyBlock(c, lb, start, end, byte), d0, n, end)
<1> DEFINE b == Lookup(c.disk, c.inode, lb)
           new == [o \in DOMAIN c.disk.block[b] |->
                      IF lb * BlockSize + o \in start .. end - 1 THEN byte ELSE c.disk.block[b][o]]
           d2 == [c.disk EXCEPT !.block[b] = new]
           w == CopyBlock(c, lb, start, end, byte)
<1>1. w = IF ~ c.ok THEN c ELSE IF b = NoBlock THEN Failed(c) ELSE Write(c, d2)
  BY DEF CopyBlock
<1>2. /\ c \in Runs /\ Whole(c.disk) /\ c.disk.used = d0.used /\ SameAges(c.disk, d0)
      /\ Tidy(d0) => Tidy(c.disk)
      /\ c.ok => c.disk.inode[n] = c.inode
      /\ \A x \in c.trail : Passable(x, d0)
      /\ c.ok => Passes(c, d0)
      /\ c.ok => end <= c.inode.size
  BY DEF Reaches, Safe
<1>3. CASE ~ c.ok
  <2>1. w = c
    BY <1>1, <1>3
  <2> HIDE DEF w
  <2>2. Reaches(w, d0, n, end)
    BY <2>1
  <2>3. QED
    BY <2>2 DEF w
<1>4. CASE c.ok /\ b = NoBlock
  <2>1. w = Failed(c)
    BY <1>1, <1>4
  <2> HIDE DEF w
  <2>2. w \in Runs /\ ~ w.ok /\ w.disk = c.disk /\ w.trail = c.trail
    BY <1>2, <2>1 DEF Failed, Runs
  <2>3. Safe(w, d0, n)
    BY <1>2, <2>2, FailsSafely
  <2>4. Reaches(w, d0, n, end)
    BY <2>2, <2>3 DEF Reaches
  <2>5. QED
    BY <2>4 DEF w
<1>5. CASE c.ok /\ b # NoBlock
  <2>1. n \in c.disk.used /\ n \in Inode /\ c.disk.inode[n] = c.inode /\ end <= c.inode.size
    BY <1>2, <1>5 DEF Whole, Disk
  <2>2. Base(c, c.disk, n)
    BY <1>2, <1>5, <2>1, Resuming
  <2>3. c.inode.size \in 0 .. MaxFileBlocks * BlockSize
    BY <1>2, <2>1 DEF Whole, Ranged
  <2>4. lb < BlocksOf(c.inode.size) /\ lb \in 0 .. MaxFileBlocks - 1
    <3>1. c.inode.size \in Nat /\ BlocksOf(c.inode.size) \in 0 .. MaxFileBlocks /\ MaxFileBlocks \in Nat
      BY <2>3, MostBlocks
    <3>2. lb * BlockSize < c.inode.size
      <4>1. lb * BlockSize \in Nat
        BY Constants, Times
      <4>2. QED
        BY <2>1, <3>1, <4>1
    <3>3. lb < BlocksOf(c.inode.size)
      BY <3>1, <3>2, MoreBlocks
    <3>4. QED
      BY <3>1, <3>3
  <2>5. b = Now(c, Home(lb))
    BY <2>4, LooksUp DEF Now
  <2>6. c.disk.block[b] \in DataBlock
    BY <1>5, <2>2, <2>4, <2>5, HomeHolds
  <2>7. new \in DataBlock
    BY <2>6 DEF DataBlock
  <2>8. w = Write(c, d2)
    BY <1>1, <1>5
  <2> HIDE DEF b, new, d2, w
  <2>9. d2 = [c.disk EXCEPT !.block[b] = new]
    BY DEF d2
  <2>10. /\ Base(w, c.disk, n) /\ w.inode = c.inode /\ w.disk.inode = c.disk.inode
         /\ SameSlots(c, w) /\ (Exact(c, n, {}) => Exact(w, n, {}))
         /\ w.trail = c.trail \cup {w.disk}
    BY <1>5, <2>2, <2>4, <2>5, <2>7, <2>8, <2>9, Rewritten
  <2>11. w \in Runs /\ w.ok
    BY <2>10 DEF Base, Fits
  <2>12. Whole(w.disk) /\ w.disk.used = c.disk.used /\ (Tidy(c.disk) => Tidy(w.disk))
    BY <1>2, <1>5, <2>1, <2>10, <2>11, Overwrites
  <2>13. SameAges(w.disk, d0) /\ w.disk.used = d0.used
    BY <1>2, <2>10, <2>12 DEF SameAges
  <2>14. Passable(w.disk, d0)
    BY <2>12, <2>13, WholeIsLoose DEF Passable
  <2>15. Passes(w, d0)
    BY <1>2, <1>5, <2>10, <2>12, <2>14 DEF Passes
  <2>16. Safe(w, d0, n)
    BY <1>2, <2>1, <2>10, <2>11, <2>12, <2>13, <2>15 DEF Safe, Passes
  <2>17. Reaches(w, d0, n, end)
    BY <2>1, <2>10, <2>16 DEF Reaches
  <2>18. QED
    BY <2>17 DEF w
<1>6. QED
  BY <1>3, <1>4, <1>5

\* A call that has done nothing yet is safe.
LEMMA StartIsSafe ==
    ASSUME NEW d0, Whole(d0), NEW n \in d0.used, NEW r, Begins(r, d0, n)
    PROVE  Safe(r, d0, n)
<1>1. r \in Runs /\ r.disk = d0 /\ r.inode = d0.inode[n] /\ r.trail = {d0}
  BY DEF Begins
<1>2. Passable(d0, d0)
  BY ItselfPasses
<1>3. QED
  BY <1>1, <1>2 DEF Safe, Passes, SameAges

\* The blocks that the bytes start .. end - 1 are in.
LEMMA Span ==
    ASSUME NEW start \in Nat, NEW end \in Nat, start < end
    PROVE  /\ start \div BlockSize \in Nat
           /\ (end - 1) \div BlockSize - start \div BlockSize + 1 \in Nat
           /\ \A lb \in Nat : lb <= (end - 1) \div BlockSize => lb * BlockSize < end
<1>1. BlockSize \in Nat \ {0} /\ end - 1 \in Nat
  BY Constants
<1>2. PICK p \in Nat, i \in Nat : start = p * BlockSize + i /\ i < BlockSize
  BY <1>1, Euclid
<1>3. PICK q \in Nat, j \in Nat : end - 1 = q * BlockSize + j /\ j < BlockSize
  BY <1>1, Euclid
<1>4. start \div BlockSize = p
  <2>1. (p * BlockSize + i) \div BlockSize = p
    BY <1>1, <1>2, Divides
  <2>2. QED
    BY <1>2, <2>1
<1>5. (end - 1) \div BlockSize = q
  <2>1. (q * BlockSize + j) \div BlockSize = q
    BY <1>1, <1>3, Divides
  <2>2. QED
    BY <1>3, <2>1
<1>6. p <= q
  <2>1. q < p => q * BlockSize + BlockSize <= p * BlockSize
    BY <1>1, Times
  <2>2. p * BlockSize \in Nat /\ q * BlockSize \in Nat
    BY <1>1, Times
  <2>3. QED
    BY <1>1, <1>2, <1>3, <2>1, <2>2
<1>7. \A lb \in Nat : lb <= q => lb * BlockSize < end
  <2> TAKE lb \in Nat
  <2> HAVE lb <= q
  <2>1. lb * BlockSize <= q * BlockSize /\ lb * BlockSize \in Nat /\ q * BlockSize \in Nat
    BY <1>1, Times
  <2>2. QED
    BY <1>3, <2>1
<1>8. QED
  BY <1>4, <1>5, <1>6, <1>7

\* A write, with the growth it needs, ends in a safe outcome.
LEMMA WritesSafely ==
    ASSUME NEW d0, Whole(d0), NEW n \in d0.used, NEW r, Begins(r, d0, n),
           NEW start \in Nat, NEW count \in Nat \ {0}, NEW byte \in Bytes
    PROVE  Safe(WriteFile(r, n, start, count, byte), d0, n)
<1> DEFINE end == start + count
           c == IF end > r.inode.size THEN TruncateInode(r, n, end) ELSE r
           first == start \div BlockSize
           many == (end - 1) \div BlockSize - first + 1
           q == CopyBlocks(c, start, end, byte)
           Good == {x \in Runs : Reaches(x, d0, n, end)}
           T == [k \in Nat |-> Good]
<1>1. end \in Nat /\ start < end
  OBVIOUS
<1>2. WriteFile(r, n, start, count, byte) = q
  BY DEF WriteFile
<1>3. c \in Good
  <2>1. r.inode.size \in Nat
    <3>1. n \in Inode /\ r.inode = d0.inode[n]
      BY Starting DEF Base, Begins
    <3>2. r.inode.size \in 0 .. MaxFileBlocks * BlockSize
      BY <3>1 DEF Whole, Ranged
    <3>3. QED
      BY <3>2, MostBlocks
  <2>2. CASE end > r.inode.size
    <3>1. c = TruncateInode(r, n, end)
      BY <2>2
    <3> HIDE DEF c
    <3>2. Safe(c, d0, n) /\ (c.ok => c.inode.size = end)
      BY <1>1, <3>1, Truncates
    <3>3. QED
      BY <1>1, <3>2 DEF Reaches, Safe
  <2>3. CASE ~ (end > r.inode.size)
    <3>1. c = r /\ end <= r.inode.size
      BY <1>1, <2>1, <2>3
    <3> HIDE DEF c
    <3>2. Safe(c, d0, n) /\ end <= c.inode.size
      BY <3>1, StartIsSafe
    <3>3. QED
      BY <3>2 DEF Reaches, Safe
  <2>4. QED
    BY <2>2, <2>3
<1>4. /\ first \in Nat /\ many \in Nat
      /\ \A lb \in Nat : lb <= (end - 1) \div BlockSize => lb * BlockSize < end
  BY <1>1, Span
<1> HIDE DEF c, end
<1>5. \A k \in 1 .. many : \A s \in T[k - 1] : CopyBlock(s, first + k - 1, start, end, byte) \in T[k]
  <2> SUFFICES ASSUME NEW k \in 1 .. many, NEW s \in Good
               PROVE  CopyBlock(s, first + k - 1, start, end, byte) \in Good
    BY <1>4
  <2> DEFINE lb == first + k - 1
  <2>1. lb \in Nat /\ lb <= (end - 1) \div BlockSize
    <3> DEFINE z == (end - 1) \div BlockSize
    <3>1. z \in Int
      BY <1>1, Constants
    <3> HIDE DEF z, first
    <3>2. QED
      BY <1>4, <3>1 DEF z
  <2>2. lb * BlockSize < end
    BY <1>4, <2>1
  <2> HIDE DEF lb
  <2>3. Reaches(CopyBlock(s, lb, start, end, byte), d0, n, end)
    BY <1>1, <2>1, <2>2, CopyKeeps
  <2>4. QED
    BY <2>3 DEF Reaches, Safe, lb
<1>6. c \in T[0]
  BY <1>3
<1>7. CopyBlocks(c, start, end, byte) \in T[many]
  <2> HIDE DEF T
  <2>1. (/\ first = start \div BlockSize /\ many = (end - 1) \div BlockSize - first + 1) =>
            CopyBlocks(c, start, end, byte) \in T[many]
    <3> HIDE DEF many, first
    <3>2. QED
      BY <1>4, <1>5, <1>6, CopyLoop
  <2>2. QED
    BY <2>1
<1>8. q \in Good
  BY <1>4, <1>7
<1>9. QED
  BY <1>2, <1>8 DEF Reaches
----------------------------------------------------------------------------
(* Inodes taken and given up. *)

\* An inode without pointers holds nothing.
LEMMA BlankAt ==
    ASSUME NEW I, Blank(I), NEW d, NEW s \in Slot
    PROVE  At(d, I, s) = NoBlock
<1>1. /\ I.single = NoBlock /\ I.double = NoBlock /\ \A i \in Direct : I.direct[i] = NoBlock
  BY DEF Blank
<1>2. s[1] = "direct" => s[3] \in Direct
  BY DEF Slot
<1>3. s[1] \in Kind
  BY DEF Slot
<1>4. \A i : Ent(d, NoBlock, i) = NoBlock
  BY DEF Ent
<1>5. QED
  BY <1>1, <1>2, <1>3, <1>4 DEF At, Kind

\* A fresh inode has no pointers, and the generation it is given.
LEMMA FreshIs ==
    ASSUME NEW g \in Nat
    PROVE  /\ FreshInode(g) \in InodeRec /\ Blank(FreshInode(g))
           /\ FreshInode(g).generation = g
BY DEF FreshInode, InodeRec, Blank, Direct, Ptr

\* Inode n is left without a block.
Blanks(d, d2, F, G, n) ==
    /\ Sound(d2, G, {}) /\ Held(d2, G) \subseteq Held(d, F)
    /\ \A m \in Inode \ {n} : \A s \in Slot : At(d2, G[m], s) = At(d, F[m], s)
    /\ \A s \in Slot : At(d2, G[n], s) = NoBlock
    /\ (\A s \in Slot : At(d, F[n], s) = NoBlock) => Held(d2, G) = Held(d, F)

\* A blank inode put in place of another leaves a forest and adds no block.
LEMMA Empties ==
    ASSUME NEW d, NEW F, Sound(d, F, {}), NEW n \in Inode, NEW J \in InodeRec, Blank(J),
           NEW G, Becomes(F, G, n, J), NEW d2, d2.block = d.block, d2.bitmap = d.bitmap,
           d2.freeBlocks = d.freeBlocks, d.bitmap \subseteq DataRegion, d.freeBlocks \in Nat
    PROVE  Blanks(d, d2, F, G, n)
<1>1. /\ Forest(d, F) /\ Contents(d, F) /\ Held(d, F) \subseteq d.bitmap
      /\ DataBlocks <= d.freeBlocks + Cardinality(d.bitmap)
      /\ d.freeBlocks + Cardinality(Held(d, F)) <= DataBlocks
  <2>1. Held(d, F) \cup {} = Held(d, F)
    OBVIOUS
  <2>2. QED
    BY <2>1 DEF Sound
<1>2. /\ G \in [Inode -> InodeRec] /\ G[n] = J /\ \A m \in Inode \ {n} : G[m] = F[m]
  BY DEF Becomes
<1>3. \A m \in Inode : Below(G[m], F[m])
  <2>1. Below(J, F[n])
    BY DEF Below, Blank
  <2>2. QED
    BY <1>2, <2>1, BelowItself
<1>4. Thinner(d2, d)
  BY DEF Thinner
<1>5. Forest(d2, G) /\ Held(d2, G) \subseteq Held(d, F)
  BY <1>1, <1>2, <1>3, <1>4, Fewer
<1>6. \A m \in Inode \ {n} : \A s \in Slot : At(d2, G[m], s) = At(d, F[m], s)
  BY <1>2 DEF At, Ent
<1>7. \A s \in Slot : At(d2, G[n], s) = NoBlock
  BY <1>2, BlankAt
<1>8. Contents(d2, G)
  <2> SUFFICES ASSUME NEW m \in Inode, NEW s \in DataSlot
               PROVE  Holds(d2, G[m], s)
    BY DEF Contents
  <2>1. CASE m = n
    BY <1>7, <2>1, Slots DEF Holds
  <2>2. CASE m # n
    <3>1. Holds(d, F[m], s)
      BY <1>1 DEF Contents
    <3>2. At(d2, G[m], s) = At(d, F[m], s) /\ G[m] = F[m]
      BY <1>2, <1>6, <2>2, Slots
    <3>3. QED
      BY <3>1, <3>2 DEF Holds
  <2>3. QED
    BY <2>1, <2>2
<1>9. Sound(d2, G, {})
  <2>1. Cardinality(Held(d2, G)) <= Cardinality(Held(d, F))
    <3>1. Held(d, F) \in SUBSET DataRegion
      BY DEF Held
    <3>2. QED
      BY <1>5, <3>1, Fewest
  <2>2. Cardinality(Held(d2, G)) \in Nat /\ Cardinality(Held(d, F)) \in Nat
    <3>1. Held(d2, G) \in SUBSET DataRegion /\ Held(d, F) \in SUBSET DataRegion
      BY DEF Held
    <3>2. QED
      BY <3>1, Blocks, Constants
  <2>3. d2.freeBlocks + Cardinality(Held(d2, G)) <= DataBlocks
    BY <1>1, <2>1, <2>2, Constants
  <2>4. Held(d2, G) \cup {} = Held(d2, G)
    OBVIOUS
  <2>5. QED
    BY <1>1, <1>5, <1>8, <2>3, <2>4 DEF Sound
<1>10. ASSUME \A s \in Slot : At(d, F[n], s) = NoBlock
       PROVE  Held(d2, G) = Held(d, F)
  <2> SUFFICES ASSUME NEW b \in DataRegion, NEW m \in Inode, NEW s \in Slot, At(d, F[m], s) = b
               PROVE  \E l \in Inode : \E t \in Slot : At(d2, G[l], t) = b
    BY <1>5 DEF Held
  <2>1. m # n
    BY <1>10, Constants
  <2>2. QED
    BY <1>6, <2>1
<1>11. QED
  BY <1>5, <1>6, <1>7, <1>9, <1>10 DEF Blanks

\* The generations an operation leaves: none goes back, that of an inode taken
\* has grown.
Older(x, d0) == \A m \in Inode : x.inode[m].generation >= d0.inode[m].generation
Renewed(x, d0) ==
    \A m \in x.used \ d0.used : x.inode[m].generation > d0.inode[m].generation

\* What holds when an operation has run to its end, or is cut short.
Ends(run, d0) ==
    /\ Whole(run.disk) /\ Older(run.disk, d0) /\ Renewed(run.disk, d0)
    /\ Tidy(d0) => Tidy(run.disk)
    /\ run.ok \in BOOLEAN

CutShort(run, d0) ==
    \A x \in run.trail :
        /\ Loose(x) /\ Older(x, d0)
        /\ (run.ok /\ d0.bitmap \subseteq x.bitmap /\ d0.used \subseteq x.used) => Whole(x)

Outcome(run, d0) == Ends(run, d0) /\ (Tidy(d0) => CutShort(run, d0))

\* An image with the same generations has none that went back.
LEMMA AgesOlder ==
    ASSUME NEW d0, Whole(d0), NEW x, SameAges(x, d0)
    PROVE  Older(x, d0)
<1>1. \A m \in Inode : d0.inode[m].generation \in Nat
  BY DEF Whole, Ranged
<1>2. QED
  BY <1>1 DEF SameAges, Older

\* A safe outcome keeps the generations.
LEMMA SafeOutcome ==
    ASSUME NEW d0, Whole(d0), NEW n, NEW q, Safe(q, d0, n)
    PROVE  Outcome(q, d0)
<1>1. Ends(q, d0)
  BY AgesOlder DEF Safe, Ends, Renewed, Runs
<1>2. CutShort(q, d0)
  <2> SUFFICES ASSUME NEW x \in q.trail
               PROVE  /\ Loose(x) /\ Older(x, d0)
                      /\ (q.ok /\ d0.bitmap \subseteq x.bitmap) => Whole(x)
    BY DEF CutShort
  <2>1. Passable(x, d0) /\ (q.ok => Passes(q, d0))
    BY DEF Safe
  <2>2. Loose(x) /\ Older(x, d0)
    BY <2>1, AgesOlder DEF Passable
  <2>3. QED
    BY <2>1, <2>2 DEF Passes
<1>3. QED
  BY <1>1, <1>2 DEF Outcome
\* No bytes need no blocks.
LEMMA NoBytes == BlocksOf(0) = 0
<1>1. 0 * BlockSize = 0 /\ 0 <= 0 * BlockSize
  BY Constants
<1>2. BlocksOf(0) \in Nat /\ BlocksOf(0) <= 0
  BY <1>1, BlocksOfIs, MoreBlocks
<1>3. QED
  BY <1>2

\* The bitmap and the counter of inodes are nothing to the blocks.
LEMMA SameImage ==
    ASSUME NEW d, NEW F, Sound(d, F, {}), NEW d2, d2.block = d.block,
           d2.bitmap = d.bitmap, d2.freeBlocks = d.freeBlocks
    PROVE  /\ Sound(d2, F, {}) /\ Held(d2, F) = Held(d, F)
           /\ \A I, s : At(d2, I, s) = At(d, I, s)
<1>1. \A I, s : At(d2, I, s) = At(d, I, s)
  BY DEF At, Ent
<1>2. Held(d2, F) = Held(d, F)
  BY <1>1 DEF Held
<1>3. Forest(d2, F)
  <2>1. \A m \in Inode : Tree(d2, F[m])
    BY <1>1 DEF Sound, Forest, Tree
  <2>2. Apart(d2, F)
    BY <1>1 DEF Sound, Forest, Apart
  <2>3. QED
    BY <2>1, <2>2 DEF Sound, Forest
<1>4. Contents(d2, F)
  BY <1>1 DEF Sound, Contents, Holds
<1>5. QED
  BY <1>1, <1>2, <1>3, <1>4 DEF Sound

\* Disk d is d0 with inode n replaced by a fresh one, and other books.
Reborn(d, d0, n, g) ==
    /\ d \in Disk /\ d.inode = [d0.inode EXCEPT ![n] = FreshInode(g)]
    /\ d.block = d0.block /\ d.bitmap = d0.bitmap /\ d.freeBlocks = d0.freeBlocks

\* An inode written afresh without blocks: a forest, in range, and as exact as before.
LEMMA RebornIs ==
    ASSUME NEW d0, d0 \in Disk, Sound(d0, d0.inode, {}), Ranged(d0), NEW n \in Inode,
           NEW g \in 0 .. MaxGeneration, NEW d, Reborn(d, d0, n, g)
    PROVE  /\ Sound(d, d.inode, {}) /\ Ranged(d)
           /\ d.inode[n].generation = g /\ Blank(d.inode[n])
           /\ \A m \in Inode \ {n} : d.inode[m] = d0.inode[m]
           /\ ((\A s \in Slot : At(d0, d0.inode[n], s) = NoBlock) /\ d0.bitmap = Held(d0, d0.inode)
                 /\ \A m \in Inode \ {n} :
                       /\ d0.inode[m].blocks = BlocksOf(d0.inode[m].size)
                       /\ \A s \in Slot : First(s) < d0.inode[m].blocks <=>
                                             At(d0, d0.inode[m], s) # NoBlock) =>
                 d.bitmap = Held(d, d.inode) /\ MappedAll(d)
<1> DEFINE J == FreshInode(g)
           G == d.inode
<1>1. MaxGeneration \in Nat /\ g \in Nat
  BY StorageAssumption
<1>2. J \in InodeRec /\ Blank(J) /\ J.generation = g
  BY <1>1, FreshIs
<1> HIDE DEF J
<1>3. /\ d \in Disk /\ d.block = d0.block /\ d.bitmap = d0.bitmap /\ d.freeBlocks = d0.freeBlocks
      /\ G[n] = J /\ (\A m \in Inode \ {n} : G[m] = d0.inode[m]) /\ G \in [Inode -> InodeRec]
      /\ d0.bitmap \subseteq DataRegion /\ d0.freeBlocks \in Nat
  BY DEF Reborn, Disk, J
<1>4. Becomes(d0.inode, G, n, J)
  BY <1>3 DEF Becomes
<1>5. Blanks(d0, d, d0.inode, G, n)
  BY <1>2, <1>3, <1>4, Empties
<1>6. Sound(d, d.inode, {})
  BY <1>5 DEF Blanks
<1>7. J.size = 0 /\ J.blocks = 0
  BY <1>2 DEF Blank
<1>8. Ranged(d)
  <2> SUFFICES ASSUME NEW m \in Inode
               PROVE  /\ G[m].generation \in 0 .. MaxGeneration
                      /\ G[m].size \in 0 .. MaxFileBlocks * BlockSize
                      /\ G[m].blocks \in 0 .. MaxFileBlocks
    BY DEF Ranged
  <2>1. CASE m = n
    BY <1>2, <1>3, <1>7, <2>1, MostBlocks
  <2>2. CASE m # n
    BY <1>3, <2>2 DEF Ranged
  <2>3. QED
    BY <2>1, <2>2
<1>9. ASSUME \A s \in Slot : At(d0, d0.inode[n], s) = NoBlock, d0.bitmap = Held(d0, d0.inode),
             \A m \in Inode \ {n} :
                 /\ d0.inode[m].blocks = BlocksOf(d0.inode[m].size)
                 /\ \A s \in Slot : First(s) < d0.inode[m].blocks <=>
                                       At(d0, d0.inode[m], s) # NoBlock
      PROVE  d.bitmap = Held(d, d.inode) /\ MappedAll(d)
  <2>1. d.bitmap = Held(d, d.inode)
    BY <1>3, <1>5, <1>9 DEF Blanks
  <2>2. MappedAll(d)
    <3> SUFFICES ASSUME NEW m \in Inode
                 PROVE  /\ G[m].blocks = BlocksOf(G[m].size)
                        /\ \A s \in Slot : First(s) < G[m].blocks <=> At(d, G[m], s) # NoBlock
      BY DEF MappedAll
    <3>1. CASE m = n
      <4>1. G[m].blocks = 0 /\ G[m].size = 0
        BY <1>3, <1>7, <3>1
      <4>2. \A s \in Slot : At(d, G[m], s) = NoBlock
        BY <1>5, <3>1 DEF Blanks
      <4>3. \A s \in Slot : ~ (First(s) < 0)
        BY FirstType
      <4>4. QED
        BY <4>1, <4>2, <4>3, NoBytes
    <3>2. CASE m # n
      <4>1. G[m] = d0.inode[m]
        BY <1>3, <3>2
      <4>2. \A s \in Slot : At(d, G[m], s) = At(d0, d0.inode[m], s)
        BY <1>5, <3>2 DEF Blanks
      <4>3. QED
        BY <1>9, <3>2, <4>1, <4>2
    <3>3. QED
      BY <3>1, <3>2
  <2>3. QED
    BY <2>1, <2>2
<1>10. QED
  BY <1>2, <1>3, <1>6, <1>8, <1>9

\* The run of every call begins with the image as it is.
LEMMA Begun ==
    ASSUME disk \in Disk, NEW n \in Inode
    PROVE  Begins(Start(n), disk, n)
<1>1. disk.inode[n] \in InodeRec
  BY DEF Disk
<1>2. NoBlock \in Ptr
  BY DEF Ptr
<1>3. QED
  BY <1>1, <1>2 DEF Begins, Start, Runs
\* The counter of free inodes, with one more inode in use and one fewer.
LEMMA InodeCount ==
    ASSUME NEW d, Whole(d), NEW n \in Inode
    PROVE  /\ Cardinality(d.used) \in 1 .. MaxInodes /\ d.freeInodes \in Nat
           /\ n \notin d.used =>
                 /\ Cardinality(d.used \cup {n}) = Cardinality(d.used) + 1
                 /\ d.freeInodes - 1 \in Nat
                 /\ (d.freeInodes + (-1)) % CounterValues = d.freeInodes - 1
           /\ n \in d.used /\ n # Root =>
                 /\ Cardinality(d.used \ {n}) = Cardinality(d.used) - 1
                 /\ d.freeInodes + 1 \in 0 .. MaxInodes
                 /\ (d.freeInodes + 1) % CounterValues = d.freeInodes + 1
<1>1. /\ d.used \in SUBSET Inode /\ Root \in d.used /\ d.freeInodes \in Nat
      /\ d.freeInodes + Cardinality(d.used) \in MaxInodes .. MaxInodes + 1
      /\ MaxInodes \in Nat /\ CounterValues \in Nat /\ CounterValues > MaxInodes
  BY Constants DEF Whole, Disk
<1>2. Cardinality(d.used) \in 1 .. MaxInodes /\ IsFiniteSet(d.used)
  BY <1>1, Inodes
<1>3. ASSUME n \notin d.used
      PROVE  /\ Cardinality(d.used \cup {n}) = Cardinality(d.used) + 1
             /\ d.freeInodes - 1 \in Nat
             /\ (d.freeInodes + (-1)) % CounterValues = d.freeInodes - 1
  <2>1. Cardinality(d.used \cup {n}) = Cardinality(d.used) + 1
    BY <1>2, <1>3, FS_AddElement
  <2>2. Cardinality(d.used \cup {n}) <= MaxInodes
    <3>1. d.used \cup {n} \in SUBSET Inode
      BY <1>1
    <3>2. QED
      BY <1>1, <3>1, Inodes
  <2>3. d.freeInodes - 1 \in Nat /\ d.freeInodes - 1 < CounterValues
        /\ d.freeInodes + (-1) = d.freeInodes - 1
    BY <1>1, <1>2, <2>1, <2>2
  <2>4. QED
    BY <1>1, <2>1, <2>3, Small
<1>4. ASSUME n \in d.used, n # Root
      PROVE  /\ Cardinality(d.used \ {n}) = Cardinality(d.used) - 1
             /\ d.freeInodes + 1 \in 0 .. MaxInodes
             /\ (d.freeInodes + 1) % CounterValues = d.freeInodes + 1
  <2>1. Cardinality(d.used \ {n}) = Cardinality(d.used) - 1
    BY <1>2, <1>4, FS_RemoveElement
  <2>2. Cardinality(d.used \ {n}) >= 1
    <3>1. d.used \ {n} \in SUBSET Inode /\ Root \in d.used \ {n}
      BY <1>1, <1>4
    <3>2. QED
      BY <3>1, Inodes
  <2>3. d.freeInodes + 1 \in 0 .. MaxInodes /\ d.freeInodes + 1 < CounterValues
    BY <1>1, <1>2, <2>1, <2>2
  <2>4. QED
    BY <1>1, <2>1, <2>3, Small
<1>5. QED
  BY <1>1, <1>2, <1>3, <1>4

\* allocate_inode.
LEMMA AllocatesInode ==
    ASSUME Whole(disk), NEW n \in Inode \ disk.used, disk.inode[n].generation < MaxGeneration
    PROVE  Outcome(AllocateInode(n), disk)
<1> DEFINE g == disk.inode[n].generation + 1
           d1 == [disk EXCEPT !.used = @ \cup {n}]
           d2 == [d1 EXCEPT !.inode[n] = FreshInode(g)]
           d3 == [d2 EXCEPT !.freeInodes = (@ + (-1)) % CounterValues]
           r0 == Start(n)
           r1 == Write(r0, d1)
           r1b == [r1 EXCEPT !.inode = FreshInode(g)]
           r2 == Write(r1b, d2)
           q == AllocateInode(n)
<1>1. /\ disk \in Disk /\ Sound(disk, disk.inode, {}) /\ Ranged(disk) /\ Root \in disk.used
      /\ UnusedBlank(disk) /\ disk.used \subseteq Inode /\ n \in Inode /\ n \notin disk.used
  BY DEF Whole, Disk
<1>2. /\ g \in 0 .. MaxGeneration /\ g \in Nat /\ disk.inode[n].generation \in Nat
      /\ g = disk.inode[n].generation + 1
  BY <1>1, StorageAssumption DEF Ranged
<1>3. FreshInode(g) \in InodeRec
  BY <1>2, FreshIs
<1> HIDE DEF g
<1>4. /\ d1 \in Disk /\ d1.used = disk.used \cup {n} /\ d1.inode = disk.inode
      /\ d1.block = disk.block /\ d1.bitmap = disk.bitmap /\ d1.freeBlocks = disk.freeBlocks
      /\ d1.freeInodes = disk.freeInodes
  BY <1>1 DEF Disk
<1> HIDE DEF d1
<1>5. /\ d2 \in Disk /\ d2.used = d1.used /\ Reborn(d2, disk, n, g)
      /\ d2.freeInodes = disk.freeInodes
  BY <1>3, <1>4 DEF Disk, Reborn
<1> HIDE DEF d2
<1>6. /\ Cardinality(disk.used) \in 1 .. MaxInodes /\ disk.freeInodes \in Nat
      /\ Cardinality(d1.used) = Cardinality(disk.used) + 1
      /\ disk.freeInodes - 1 \in Nat
      /\ (disk.freeInodes + (-1)) % CounterValues = disk.freeInodes - 1
  BY <1>1, <1>4, InodeCount
<1>7. /\ d3 \in Disk /\ d3.used = d1.used /\ Reborn(d3, disk, n, g)
      /\ d3.freeInodes = disk.freeInodes - 1
  BY <1>5, <1>6 DEF Disk, Reborn
<1> HIDE DEF d3
<1>8. r0 \in Runs /\ r0.ok /\ r0.disk = disk /\ r0.trail = {disk}
  BY <1>1, Begun DEF Begins
<1> HIDE DEF r0
<1>9. r1 \in Runs /\ r1.ok = TRUE /\ r1.disk = d1 /\ r1.trail = {disk, d1}
  <2>1. Write(r0, d1) \in Runs /\ Write(r0, d1).ok = TRUE /\ Write(r0, d1).disk = d1
        /\ Write(r0, d1).trail = r0.trail \cup {d1}
    <3>1. r0 \in Runs /\ r0.ok /\ d1 \in Disk
      BY <1>4, <1>8
    <3>2. QED
      BY <3>1, Written
  <2>2. QED
    BY <1>8, <2>1
<1>10. r1b \in Runs /\ r1b.ok = TRUE /\ r1b.disk = d1 /\ r1b.inode = FreshInode(g)
       /\ r1b.trail = {disk, d1}
  <2> HIDE DEF r1
  <2>1. QED
    BY <1>3, <1>9 DEF Runs
<1>11. q = Write(r2, d3)
  <2>1. r1 = MarkInode(r0, n)
    BY <1>8 DEF MarkInode, d1
  <2>2. r2 = BlankInode(r1, n, g)
    BY <1>10 DEF BlankInode, WriteInode, d2
  <2>3. r2.disk = d2
    <3> HIDE DEF r1b
    <3>1. QED
      BY <1>5, <1>10, Written
  <2> HIDE DEF r1, r2
  <2>4. q = CountInode(r2, -1)
    BY <2>1, <2>2 DEF AllocateInode, r0, g
  <2>5. QED
    BY <2>3, <2>4 DEF CountInode, d3
<1> HIDE DEF r1, r1b
<1>12. r2 \in Runs /\ r2.ok = TRUE /\ r2.trail = {disk, d1, d2}
  <2>1. Write(r1b, d2) \in Runs /\ Write(r1b, d2).ok = TRUE
        /\ Write(r1b, d2).trail = r1b.trail \cup {d2}
    BY <1>5, <1>10, Written
  <2>2. QED
    BY <1>10, <2>1
<1> HIDE DEF r2, q
<1>13. q.disk = d3 /\ q.ok = TRUE /\ q.trail = {disk, d1, d2, d3}
  <2>1. Write(r2, d3).disk = d3 /\ Write(r2, d3).ok = TRUE /\ Write(r2, d3).trail = r2.trail \cup {d3}
    BY <1>7, <1>12, Written
  <2>2. QED
    BY <1>11, <1>12, <2>1
<1>14. \A d \in {d2, d3} :
          /\ Sound(d, d.inode, {}) /\ Ranged(d) /\ d.inode[n].generation = g /\ Blank(d.inode[n])
          /\ \A m \in Inode \ {n} : d.inode[m] = disk.inode[m]
  BY <1>1, <1>2, <1>5, <1>7, RebornIs
<1>15. \A d \in {d1, d2, d3} :
          /\ d \in Disk /\ Sound(d, d.inode, {}) /\ Ranged(d) /\ Root \in d.used /\ UnusedBlank(d)
          /\ Older(d, disk) /\ d.used = disk.used \cup {n}
  <2>1. Sound(d1, d1.inode, {}) /\ Ranged(d1)
    BY <1>1, <1>4, SameImage DEF Ranged
  <2>2. UnusedBlank(d1) /\ UnusedBlank(d2) /\ UnusedBlank(d3)
    BY <1>1, <1>4, <1>5, <1>7, <1>14 DEF UnusedBlank
  <2>3. Older(d1, disk)
    <3>1. \A m \in Inode : disk.inode[m].generation \in Nat
      BY <1>1 DEF Ranged
    <3>2. QED
      BY <1>4, <3>1 DEF Older
  <2>4. \A d \in {d2, d3} : Older(d, disk)
    <3>1. \A m \in Inode : disk.inode[m].generation \in Nat
      BY <1>1 DEF Ranged
    <3>2. QED
      BY <1>2, <1>14, <3>1 DEF Older
  <2>5. QED
    BY <1>1, <1>4, <1>5, <1>7, <1>14, <2>1, <2>2, <2>3, <2>4
<1>16. Whole(d3)
  <2>1. d3.freeInodes + Cardinality(d3.used) = disk.freeInodes + Cardinality(disk.used)
    BY <1>6, <1>7
  <2>2. disk.freeInodes + Cardinality(disk.used) \in MaxInodes .. MaxInodes + 1
    BY DEF Whole
  <2>3. QED
    BY <1>15, <2>1, <2>2 DEF Whole
<1>17. Renewed(d3, disk)
  <2>1. d3.used \ disk.used = {n}
    BY <1>1, <1>15
  <2>2. d3.inode[n].generation > disk.inode[n].generation
    BY <1>2, <1>14
  <2>3. QED
    BY <2>1, <2>2 DEF Renewed
<1>18. ASSUME Tidy(disk) PROVE Tidy(d3)
  <2>1. \A s \in Slot : At(disk, disk.inode[n], s) = NoBlock
    BY <1>1, BlankAt DEF UnusedBlank
  <2>2. d3.bitmap = Held(d3, d3.inode) /\ MappedAll(d3)
    BY <1>1, <1>2, <1>7, <1>18, <2>1, RebornIs DEF Tidy, MappedAll
  <2>3. d3.freeInodes + Cardinality(d3.used) = MaxInodes
    BY <1>6, <1>7, <1>18, Constants DEF Tidy
  <2>4. QED
    BY <1>16, <2>2, <2>3 DEF Tidy
<1>19. ASSUME Tidy(disk) PROVE CutShort(q, disk)
  <2> SUFFICES ASSUME NEW x \in {disk, d1, d2, d3}
               PROVE  Whole(x) /\ Older(x, disk)
    BY <1>13, WholeIsLoose DEF CutShort
  <2>1. Older(disk, disk)
    BY AgesOlder DEF SameAges
  <2>2. \A d \in {d1, d2} : d.freeInodes + Cardinality(d.used) \in MaxInodes .. MaxInodes + 1
    <3>1. disk.freeInodes + Cardinality(disk.used) = MaxInodes /\ MaxInodes \in Nat
      BY <1>19, Constants DEF Tidy
    <3>2. d1.freeInodes = disk.freeInodes /\ d2.freeInodes = disk.freeInodes /\ d2.used = d1.used
      BY <1>4, <1>5
    <3>3. disk.freeInodes + Cardinality(d1.used) \in MaxInodes .. MaxInodes + 1
      BY <1>6, <3>1
    <3>4. QED
      BY <3>2, <3>3
  <2>3. Whole(d1) /\ Whole(d2)
    BY <1>15, <2>2 DEF Whole
  <2>4. QED
    BY <1>15, <1>16, <2>1, <2>3
<1>20. Outcome(q, disk)
  BY <1>13, <1>15, <1>16, <1>17, <1>18, <1>19 DEF Outcome, Ends
<1>21. QED
  BY <1>20 DEF q
\* free_inode.
LEMMA FreesInode ==
    ASSUME Whole(disk), NEW n \in disk.used, n # Root
    PROVE  Outcome(FreeInode(n), disk)
<1> DEFINE g == disk.inode[n].generation
           t == TruncateInode(Start(n), n, 0)
           t1 == [t EXCEPT !.inode = FreshInode(g)]
           d1 == [t.disk EXCEPT !.inode[n] = FreshInode(g)]
           d2 == [d1 EXCEPT !.used = @ \ {n}]
           d3 == [d2 EXCEPT !.freeInodes = (@ + 1) % CounterValues]
           r1 == Write(t1, d1)
           r2 == Write(r1, d2)
           q == FreeInode(n)
<1>1. disk \in Disk /\ n \in Inode /\ Ranged(disk) /\ UnusedBlank(disk)
  BY DEF Whole, Disk
<1>2. g \in 0 .. MaxGeneration /\ g \in Nat
  BY <1>1, StorageAssumption DEF Ranged
<1>3. FreshInode(g) \in InodeRec
  BY <1>2, FreshIs
<1> HIDE DEF g
<1>4. /\ Safe(t, disk, n)
      /\ t.ok => t.inode.size = 0
  <2>1. Begins(Start(n), disk, n)
    BY <1>1, Begun
  <2>2. 0 \in Nat
    OBVIOUS
  <2>3. QED
    BY <2>1, <2>2, Truncates
<1> HIDE DEF t
<1>5. /\ t \in Runs /\ Whole(t.disk) /\ t.disk.used = disk.used /\ SameAges(t.disk, disk)
      /\ Tidy(disk) => Tidy(t.disk)
      /\ t.ok => t.disk.inode[n] = t.inode
      /\ \A x \in t.trail : Passable(x, disk)
      /\ t.ok => Passes(t, disk)
  BY <1>4 DEF Safe
<1>6. t1 \in Runs /\ t1.ok = t.ok /\ t1.disk = t.disk /\ t1.trail = t.trail /\ t1.inode = FreshInode(g)
  BY <1>3, <1>5 DEF Runs
<1>7. q = CountInode(UnmarkInode(WriteInode(t1, n), n), 1)
  BY DEF FreeInode, BlankInode, t, g
<1> HIDE DEF t1, q
<1>8. CASE ~ t.ok
  <2>1. q = t1
    BY <1>6, <1>7, <1>8 DEF WriteInode, UnmarkInode, CountInode, Write
  <2>2. Outcome(t, disk)
    BY <1>4, SafeOutcome
  <2>3. Outcome(q, disk)
    BY <1>6, <2>1, <2>2 DEF Outcome, Ends, CutShort
  <2>4. QED
    BY <2>3 DEF q
<1>9. CASE t.ok
  <2>1. /\ t.disk \in Disk /\ Sound(t.disk, t.disk.inode, {}) /\ Ranged(t.disk)
        /\ Root \in t.disk.used /\ UnusedBlank(t.disk)
    BY <1>5 DEF Whole
  <2>2. /\ d1 \in Disk /\ Reborn(d1, t.disk, n, g) /\ d1.used = disk.used
        /\ d1.freeInodes = t.disk.freeInodes
    BY <1>3, <1>5, <2>1 DEF Disk, Reborn
  <2>3. d1 = [t.disk EXCEPT !.inode[n] = FreshInode(g)]
    OBVIOUS
  <2> HIDE DEF d1
  <2>4. /\ d2 \in Disk /\ Reborn(d2, t.disk, n, g) /\ d2.used = disk.used \ {n}
        /\ d2.freeInodes = t.disk.freeInodes
    BY <2>2 DEF Disk, Reborn
  <2> HIDE DEF d2
  <2>5. /\ Cardinality(disk.used) \in 1 .. MaxInodes /\ t.disk.freeInodes \in Nat
        /\ Cardinality(disk.used \ {n}) = Cardinality(disk.used) - 1
        /\ t.disk.freeInodes + 1 \in 0 .. MaxInodes
        /\ (t.disk.freeInodes + 1) % CounterValues = t.disk.freeInodes + 1
    BY <1>1, <1>5, InodeCount
  <2>6. /\ d3 \in Disk /\ Reborn(d3, t.disk, n, g) /\ d3.used = disk.used \ {n}
        /\ d3.freeInodes = t.disk.freeInodes + 1
    BY <2>4, <2>5 DEF Disk, Reborn
  <2> HIDE DEF d3
  <2>7. /\ r1 \in Runs /\ r1.ok = TRUE /\ r1.disk = d1 /\ r1.trail = t.trail \cup {d1}
    <3>1. /\ Write(t1, d1) \in Runs /\ Write(t1, d1).ok = TRUE /\ Write(t1, d1).disk = d1
          /\ Write(t1, d1).trail = t1.trail \cup {d1}
      BY <1>6, <1>9, <2>2, Written
    <3>2. QED
      BY <1>6, <3>1
  <2>8. WriteInode(t1, n) = r1
    BY <1>6 DEF WriteInode, d1
  <2> HIDE DEF r1
  <2>9. /\ r2 \in Runs /\ r2.ok = TRUE /\ r2.disk = d2 /\ r2.trail = r1.trail \cup {d2}
    <3>1. /\ Write(r1, d2) \in Runs /\ Write(r1, d2).ok = TRUE /\ Write(r1, d2).disk = d2
          /\ Write(r1, d2).trail = r1.trail \cup {d2}
      BY <2>4, <2>7, Written
    <3>2. QED
      BY <3>1
  <2>10. UnmarkInode(r1, n) = r2
    BY <2>7 DEF UnmarkInode, d2
  <2> HIDE DEF r2
  <2>11. q = Write(r2, d3)
    BY <1>7, <2>8, <2>9, <2>10 DEF CountInode, d3
  <2>12. /\ q.ok = TRUE /\ q.disk = d3 /\ q.trail = t.trail \cup {d1, d2, d3}
    <3>1. /\ Write(r2, d3).ok = TRUE /\ Write(r2, d3).disk = d3
          /\ Write(r2, d3).trail = r2.trail \cup {d3}
      BY <2>6, <2>9, Written
    <3>2. QED
      BY <2>7, <2>9, <2>11, <3>1
  <2>13. \A d \in {d1, d2, d3} :
            /\ d \in Disk /\ Sound(d, d.inode, {}) /\ Ranged(d)
            /\ d.inode[n].generation = g /\ Blank(d.inode[n])
            /\ \A m \in Inode \ {n} : d.inode[m] = t.disk.inode[m]
    BY <1>1, <1>2, <2>1, <2>2, <2>4, <2>6, RebornIs
  <2>14. \A d \in {d1, d2, d3} : Older(d, disk) /\ Renewed(d, disk)
    <3> SUFFICES ASSUME NEW d \in {d1, d2, d3}
                 PROVE  SameAges(d, disk) /\ d.used \subseteq disk.used
      BY AgesOlder DEF Renewed
    <3>1. SameAges(d, disk)
      BY <1>5, <2>13 DEF SameAges, g
    <3>2. QED
      BY <2>2, <2>4, <2>6, <3>1
  <2>15. UnusedBlank(d1) /\ UnusedBlank(d2) /\ UnusedBlank(d3)
    BY <1>5, <2>1, <2>2, <2>4, <2>6, <2>13 DEF UnusedBlank
  <2>16. t.disk.freeInodes + Cardinality(disk.used) \in MaxInodes .. MaxInodes + 1
    BY <1>5 DEF Whole
  <2>17. Whole(d1)
    BY <1>5, <2>1, <2>2, <2>13, <2>15, <2>16 DEF Whole
  <2>18. Whole(d3)
    <3>1. d3.freeInodes + Cardinality(d3.used) \in MaxInodes .. MaxInodes + 1
      BY <2>5, <2>6, <2>16
    <3>2. Root \in d3.used
      BY <1>5, <2>1, <2>6
    <3>3. QED
      BY <2>6, <2>13, <2>15, <3>1, <3>2 DEF Whole
  <2>19. Loose(d2)
    <3>1. Forest(d2, d2.inode) /\ d2 \in Disk /\ Ranged(d2)
      BY <2>13 DEF Sound
    <3>2. d2.freeBlocks <= DataBlocks
      <4>1. Loose(t.disk)
        BY <1>5, WholeIsLoose
      <4>2. QED
        BY <2>4, <4>1 DEF Loose, Reborn
    <3>3. d2.freeInodes <= MaxInodes
      BY <2>4, <2>5, Constants
    <3>4. QED
      BY <3>1, <3>2, <3>3 DEF Loose
  <2>20. ASSUME Tidy(disk) PROVE Tidy(d3)
    <3>1. /\ t.disk.bitmap = Held(t.disk, t.disk.inode) /\ MappedAll(t.disk)
          /\ t.disk.freeInodes + Cardinality(disk.used) = MaxInodes
      BY <1>5, <2>20 DEF Tidy
    <3>2. t.disk.inode[n].size = 0
      BY <1>4, <1>5, <1>9
    <3>3. \A s \in Slot : At(t.disk, t.disk.inode[n], s) = NoBlock
      <4>1. t.disk.inode[n].blocks = 0
        BY <1>1, <3>1, <3>2, NoBytes DEF MappedAll
      <4>2. \A s \in Slot : First(s) < 0 <=> At(t.disk, t.disk.inode[n], s) # NoBlock
        BY <1>1, <3>1, <4>1 DEF MappedAll
      <4>3. \A s \in Slot : ~ (First(s) < 0)
        BY FirstType
      <4>4. QED
        BY <4>2, <4>3
    <3>4. d3.bitmap = Held(d3, d3.inode) /\ MappedAll(d3)
      BY <1>1, <1>2, <2>1, <2>6, <3>1, <3>3, RebornIs DEF MappedAll
    <3>5. d3.freeInodes + Cardinality(d3.used) = MaxInodes
      BY <2>5, <2>6, <3>1, Constants
    <3>6. QED
      BY <2>18, <3>4, <3>5 DEF Tidy
  <2>21. CutShort(q, disk)
    <3> SUFFICES ASSUME NEW x \in q.trail
                 PROVE  /\ Loose(x) /\ Older(x, disk)
                        /\ (disk.bitmap \subseteq x.bitmap /\ disk.used \subseteq x.used) => Whole(x)
      BY DEF CutShort
    <3>1. CASE x \in t.trail
      <4>1. Passable(x, disk) /\ (disk.bitmap \subseteq x.bitmap => Whole(x))
        BY <1>5, <1>9, <3>1 DEF Passes
      <4>2. QED
        BY <4>1, AgesOlder DEF Passable
    <3>2. CASE x = d1
      BY <2>14, <2>17, <3>2, WholeIsLoose
    <3>3. CASE x = d2
      <4>1. ~ (disk.used \subseteq d2.used)
        BY <2>4
      <4>2. QED
        BY <2>14, <2>19, <3>3, <4>1
    <3>4. CASE x = d3
      BY <2>14, <2>18, <3>4, WholeIsLoose
    <3>5. QED
      BY <2>12, <3>1, <3>2, <3>3, <3>4
  <2>22. Outcome(q, disk)
    BY <2>12, <2>14, <2>18, <2>20, <2>21 DEF Outcome, Ends
  <2>23. QED
    BY <2>22 DEF q
<1>10. QED
  BY <1>8, <1>9
----------------------------------------------------------------------------
(* The references of the model are the slots. *)

RefAt(d, I, s) == <<s[1], s[2], s[3], At(d, I, s)>>

Behind(d, kind, k, p) ==
    IF p = NoBlock THEN {} ELSE {<<kind, k, i, d.block[p][i]>> : i \in DOMAIN d.block[p]}

AllRefs(d, I) ==
    {<<"direct", 0, i, I.direct[i]>> : i \in DOMAIN I.direct}
        \cup {<<"single", 0, 0, I.single>>, <<"double", 0, 0, I.double>>}
        \cup Behind(d, "by single", 0, I.single)
        \cup Behind(d, "level 1", 0, I.double)
        \cup UNION {Behind(d, "level 2", e[3], e[4]) : e \in Behind(d, "level 1", 0, I.double)}

\* The pointers of an inode are the non-zero ones of its table of pointers.
LEMMA RefsAre ==
    ASSUME NEW d, NEW n
    PROVE  InodeRefs(d, n) = {ref \in AllRefs(d, d.inode[n]) : ref[4] # NoBlock}
BY DEF InodeRefs, AllRefs, Behind

\* The pointers behind a pointer block are its entries.
LEMMA BehindIs ==
    ASSUME NEW d, NEW kind, NEW k, NEW p, p # NoBlock => d.block[p] \in PtrBlock
    PROVE  /\ \A ref \in Behind(d, kind, k, p) :
                 \E i \in Entry : p # NoBlock /\ ref = <<kind, k, i, Ent(d, p, i)>>
           /\ \A i \in Entry : p # NoBlock => <<kind, k, i, Ent(d, p, i)>> \in Behind(d, kind, k, p)
<1>1. CASE p = NoBlock
  BY <1>1 DEF Behind
<1>2. CASE p # NoBlock
  <2>1. DOMAIN d.block[p] = Entry
    BY <1>2 DEF PtrBlock
  <2>2. Behind(d, kind, k, p) = {<<kind, k, i, Ent(d, p, i)>> : i \in Entry}
    BY <1>2, <2>1 DEF Behind, Ent
  <2>3. QED
    BY <1>2, <2>2
<1>3. QED
  BY <1>1, <1>2

\* Every pointer found is that of a slot.
LEMMA RefIsSlot ==
    ASSUME NEW d, NEW I \in InodeRec, Tree(d, I), NEW ref \in AllRefs(d, I)
    PROVE  \E s \in Slot : ref = RefAt(d, I, s)
<1>1. /\ I.single # NoBlock => d.block[I.single] \in PtrBlock
      /\ I.double # NoBlock => d.block[I.double] \in PtrBlock
      /\ \A k \in Entry : Ent(d, I.double, k) # NoBlock => d.block[Ent(d, I.double, k)] \in PtrBlock
  BY TreeIs
<1>2. /\ \A i \in Direct : <<"direct", 0, i>> \in Slot
      /\ <<"single", 0, 0>> \in Slot /\ <<"double", 0, 0>> \in Slot
      /\ \A i \in Entry : <<"by single", 0, i>> \in Slot /\ <<"level 1", 0, i>> \in Slot
      /\ \A k, i \in Entry : <<"level 2", k, i>> \in Slot
  BY Slots
<1>0. \A a, b, c : RefAt(d, I, <<a, b, c>>) = <<a, b, c, At(d, I, <<a, b, c>>)>>
  BY DEF RefAt
<1>3. CASE ref \in {<<"direct", 0, i, I.direct[i]>> : i \in DOMAIN I.direct}
  <2>1. DOMAIN I.direct = Direct
    BY DEF InodeRec
  <2>2. PICK i \in Direct : ref = <<"direct", 0, i, I.direct[i]>>
    BY <1>3, <2>1
  <2>3. RefAt(d, I, <<"direct", 0, i>>) = <<"direct", 0, i, I.direct[i]>>
    <3>1. RefAt(d, I, <<"direct", 0, i>>) = <<"direct", 0, i, At(d, I, <<"direct", 0, i>>)>>
      BY <1>0
    <3>2. At(d, I, <<"direct", 0, i>>) = I.direct[i]
      BY DEF At
    <3>3. QED
      BY <3>1, <3>2
  <2>4. QED
    BY <1>2, <2>2, <2>3
<1>4. CASE ref \in {<<"single", 0, 0, I.single>>, <<"double", 0, 0, I.double>>}
  <2>1. RefAt(d, I, <<"single", 0, 0>>) = <<"single", 0, 0, I.single>>
    <3>1. RefAt(d, I, <<"single", 0, 0>>) = <<"single", 0, 0, At(d, I, <<"single", 0, 0>>)>>
      BY <1>0
    <3>2. At(d, I, <<"single", 0, 0>>) = I.single
      BY DEF At
    <3>3. QED
      BY <3>1, <3>2
  <2>2. RefAt(d, I, <<"double", 0, 0>>) = <<"double", 0, 0, I.double>>
    <3>1. RefAt(d, I, <<"double", 0, 0>>) = <<"double", 0, 0, At(d, I, <<"double", 0, 0>>)>>
      BY <1>0
    <3>2. At(d, I, <<"double", 0, 0>>) = I.double
      BY DEF At
    <3>3. QED
      BY <3>1, <3>2
  <2>3. QED
    BY <1>2, <1>4, <2>1, <2>2
<1>5. CASE ref \in Behind(d, "by single", 0, I.single)
  <2>0. \A x \in Behind(d, "by single", 0, I.single) :
            \E i \in Entry : I.single # NoBlock /\ x = <<"by single", 0, i, Ent(d, I.single, i)>>
    BY <1>1 DEF Behind, PtrBlock, Ent
  <2>1. PICK i \in Entry : ref = <<"by single", 0, i, Ent(d, I.single, i)>>
    BY <1>5, <2>0
  <2>2. RefAt(d, I, <<"by single", 0, i>>) = <<"by single", 0, i, Ent(d, I.single, i)>>
    <3>1. RefAt(d, I, <<"by single", 0, i>>) = <<"by single", 0, i, At(d, I, <<"by single", 0, i>>)>>
      BY <1>0
    <3>2. At(d, I, <<"by single", 0, i>>) = Ent(d, I.single, i)
      BY DEF At
    <3>3. QED
      BY <3>1, <3>2
  <2>3. QED
    BY <1>2, <2>1, <2>2
<1>10. \A x \in Behind(d, "level 1", 0, I.double) :
           \E i \in Entry : I.double # NoBlock /\ x = <<"level 1", 0, i, Ent(d, I.double, i)>>
  BY <1>1 DEF Behind, PtrBlock, Ent
<1>6. CASE ref \in Behind(d, "level 1", 0, I.double)
  <2>1. PICK i \in Entry : ref = <<"level 1", 0, i, Ent(d, I.double, i)>>
    BY <1>6, <1>10
  <2>2. RefAt(d, I, <<"level 1", 0, i>>) = <<"level 1", 0, i, Ent(d, I.double, i)>>
    <3>1. RefAt(d, I, <<"level 1", 0, i>>) = <<"level 1", 0, i, At(d, I, <<"level 1", 0, i>>)>>
      BY <1>0
    <3>2. At(d, I, <<"level 1", 0, i>>) = Ent(d, I.double, i)
      BY DEF At
    <3>3. QED
      BY <3>1, <3>2
  <2>3. QED
    BY <1>2, <2>1, <2>2
<1>7. CASE \E e \in Behind(d, "level 1", 0, I.double) : ref \in Behind(d, "level 2", e[3], e[4])
  <2>1. PICK e \in Behind(d, "level 1", 0, I.double) : ref \in Behind(d, "level 2", e[3], e[4])
    BY <1>7
  <2>2. PICK k \in Entry : e = <<"level 1", 0, k, Ent(d, I.double, k)>>
    BY <1>10
  <2>3. e[3] = k /\ e[4] = Ent(d, I.double, k)
    BY <2>2
  <2>4. ref \in Behind(d, "level 2", k, Ent(d, I.double, k))
    BY <2>1, <2>3
  <2> DEFINE p == Ent(d, I.double, k)
  <2>9. p # NoBlock => d.block[p] \in PtrBlock
    BY <1>1
  <2> HIDE DEF p
  <2>8. \A x \in Behind(d, "level 2", k, p) :
            \E i \in Entry : p # NoBlock /\ x = <<"level 2", k, i, Ent(d, p, i)>>
    BY <2>9 DEF Behind, PtrBlock, Ent
  <2>5. PICK i \in Entry : ref = <<"level 2", k, i, Ent(d, Ent(d, I.double, k), i)>>
    BY <2>4, <2>8 DEF p
  <2>6. RefAt(d, I, <<"level 2", k, i>>) = <<"level 2", k, i, Ent(d, Ent(d, I.double, k), i)>>
    <3>1. RefAt(d, I, <<"level 2", k, i>>) = <<"level 2", k, i, At(d, I, <<"level 2", k, i>>)>>
      BY <1>0
    <3>2. At(d, I, <<"level 2", k, i>>) = Ent(d, Ent(d, I.double, k), i)
      BY DEF At
    <3>3. QED
      BY <3>1, <3>2
  <2>7. QED
    BY <1>2, <2>5, <2>6
<1>8. QED
  BY <1>3, <1>4, <1>5, <1>6, <1>7 DEF AllRefs

\* Every slot with a pointer is found.
LEMMA SlotIsRef ==
    ASSUME NEW d, NEW I \in InodeRec, Tree(d, I), NEW s \in Slot, At(d, I, s) # NoBlock
    PROVE  \E ref \in AllRefs(d, I) : ref[4] = At(d, I, s)
<1>1. /\ I.single # NoBlock => d.block[I.single] \in PtrBlock
      /\ I.double # NoBlock => d.block[I.double] \in PtrBlock
      /\ \A k \in Entry : Ent(d, I.double, k) # NoBlock => d.block[Ent(d, I.double, k)] \in PtrBlock
  BY TreeIs
<1>2. s[1] \in Kind
  BY DEF Slot
<1>3. CASE s[1] = "direct"
  <2>1. s[3] \in DOMAIN I.direct /\ At(d, I, s) = I.direct[s[3]]
    BY <1>3 DEF Slot, InodeRec, At
  <2>2. PICK ref : ref = <<"direct", 0, s[3], I.direct[s[3]]>>
    OBVIOUS
  <2>3. ref[4] = At(d, I, s) /\ ref \in AllRefs(d, I)
    BY <2>1, <2>2 DEF AllRefs
  <2>4. QED
    BY <2>3
<1>4. CASE s[1] = "single"
  <2>1. At(d, I, s) = I.single
    BY <1>4 DEF At
  <2>2. PICK ref : ref = <<"single", 0, 0, I.single>>
    OBVIOUS
  <2>3. ref[4] = At(d, I, s) /\ ref \in AllRefs(d, I)
    BY <2>1, <2>2 DEF AllRefs
  <2>4. QED
    BY <2>3
<1>5. CASE s[1] = "double"
  <2>1. At(d, I, s) = I.double
    BY <1>5 DEF At
  <2>2. PICK ref : ref = <<"double", 0, 0, I.double>>
    OBVIOUS
  <2>3. ref[4] = At(d, I, s) /\ ref \in AllRefs(d, I)
    BY <2>1, <2>2 DEF AllRefs
  <2>4. QED
    BY <2>3
<1>6. CASE s[1] = "by single"
  <2>1. s[3] \in Entry /\ At(d, I, s) = Ent(d, I.single, s[3]) /\ I.single # NoBlock
    BY <1>6 DEF Slot, At, Ent
  <2>2. PICK ref \in Behind(d, "by single", 0, I.single) :
            ref = <<"by single", 0, s[3], Ent(d, I.single, s[3])>>
    BY <1>1, <2>1, BehindIs
  <2>3. ref[4] = At(d, I, s) /\ ref \in AllRefs(d, I)
    BY <2>1, <2>2 DEF AllRefs
  <2>4. QED
    BY <2>3
<1>7. CASE s[1] = "level 1"
  <2>1. s[3] \in Entry /\ At(d, I, s) = Ent(d, I.double, s[3]) /\ I.double # NoBlock
    BY <1>7 DEF Slot, At, Ent
  <2>2. PICK ref \in Behind(d, "level 1", 0, I.double) :
            ref = <<"level 1", 0, s[3], Ent(d, I.double, s[3])>>
    BY <1>1, <2>1, BehindIs
  <2>3. ref[4] = At(d, I, s) /\ ref \in AllRefs(d, I)
    BY <2>1, <2>2 DEF AllRefs
  <2>4. QED
    BY <2>3
<1>8. CASE s[1] = "level 2"
  <2> DEFINE k == s[2]
             p == Ent(d, I.double, k)
  <2>1. k \in Entry /\ s[3] \in Entry /\ At(d, I, s) = Ent(d, p, s[3]) /\ p # NoBlock
    BY <1>8 DEF Slot, At, Ent
  <2>2. I.double # NoBlock
    BY <2>1 DEF Ent
  <2>3. PICK e \in Behind(d, "level 1", 0, I.double) : e = <<"level 1", 0, k, p>>
    BY <1>1, <2>1, <2>2, BehindIs
  <2>4. e[3] = k /\ e[4] = p
    BY <2>3
  <2> HIDE DEF k, p
  <2>5. p # NoBlock => d.block[p] \in PtrBlock
    BY <1>1, <2>1 DEF p
  <2>6. PICK ref \in Behind(d, "level 2", k, p) : ref = <<"level 2", k, s[3], Ent(d, p, s[3])>>
    BY <2>1, <2>5, BehindIs
  <2>7. ref[4] = At(d, I, s)
    BY <2>1, <2>6
  <2>8. ref \in AllRefs(d, I)
    BY <2>4, <2>6 DEF AllRefs
  <2>9. QED
    BY <2>7, <2>8
<1>9. QED
  BY <1>2, <1>3, <1>4, <1>5, <1>6, <1>7, <1>8 DEF Kind
\* Every pointer found belongs to an inode in use.
LEMMA RefsInUse ==
    ASSUME NEW d, Loose(d), NEW e \in References(d)
    PROVE  \E m \in Inode, s \in Slot :
               /\ e = <<m, RefAt(d, d.inode[m], s)>> /\ m \in d.used
               /\ At(d, d.inode[m], s) # NoBlock /\ e[2][4] = At(d, d.inode[m], s)
<1>1. d \in Disk /\ Forest(d, d.inode)
  BY DEF Loose
<1>2. PICK m \in d.used : \E ref \in InodeRefs(d, m) : e = <<m, ref>>
  BY DEF References
<1>3. PICK ref \in InodeRefs(d, m) : e = <<m, ref>>
  BY <1>2
<1>4. m \in Inode /\ d.inode[m] \in InodeRec /\ Tree(d, d.inode[m])
  BY <1>1 DEF Disk, Forest
<1>5. ref \in AllRefs(d, d.inode[m]) /\ ref[4] # NoBlock
  BY RefsAre
<1>6. PICK s \in Slot : ref = RefAt(d, d.inode[m], s)
  BY <1>4, <1>5, RefIsSlot
<1>7. ref[4] = At(d, d.inode[m], s)
  BY <1>6 DEF RefAt
<1>8. e[2][4] = ref[4]
  BY <1>3
<1>9. QED
  BY <1>3, <1>4, <1>5, <1>6, <1>7, <1>8

\* Two pointers to one block are the same pointer.
LEMMA ReferencesApart ==
    ASSUME NEW d, Loose(d), NEW e \in References(d), NEW f \in References(d), e[2][4] = f[2][4]
    PROVE  e = f
<1>1. PICK m \in Inode, s \in Slot :
          /\ e = <<m, RefAt(d, d.inode[m], s)>> /\ m \in d.used
          /\ At(d, d.inode[m], s) # NoBlock /\ e[2][4] = At(d, d.inode[m], s)
  BY RefsInUse
<1>2. PICK l \in Inode, t \in Slot :
          /\ f = <<l, RefAt(d, d.inode[l], t)>> /\ l \in d.used
          /\ At(d, d.inode[l], t) # NoBlock /\ f[2][4] = At(d, d.inode[l], t)
  BY RefsInUse
<1>3. At(d, d.inode[m], s) = At(d, d.inode[l], t)
  BY <1>1, <1>2
<1>4. \A i, j \in Inode : \A u, v \in Slot :
          At(d, d.inode[i], u) = At(d, d.inode[j], v) /\ At(d, d.inode[i], u) # NoBlock => i = j /\ u = v
  BY DEF Loose, Forest, Apart
<1>5. m = l /\ s = t
  BY <1>1, <1>3, <1>4
<1>6. QED
  BY <1>1, <1>2, <1>5

\* The blocks pointed to are the blocks the inodes hold.
LEMMA ReferencedIsHeld ==
    ASSUME NEW d, Whole(d)
    PROVE  Referenced(d) = Held(d, d.inode)
<1>1. Loose(d) /\ d \in Disk /\ Forest(d, d.inode) /\ UnusedBlank(d)
  BY WholeIsLoose DEF Whole, Sound
<1>2. ASSUME NEW b \in Referenced(d)
      PROVE  b \in Held(d, d.inode)
  <2>1. PICK e \in References(d) : b = e[2][4]
    BY DEF Referenced
  <2>2. PICK m \in Inode, s \in Slot :
            /\ e = <<m, RefAt(d, d.inode[m], s)>> /\ m \in d.used
            /\ At(d, d.inode[m], s) # NoBlock /\ e[2][4] = At(d, d.inode[m], s)
    BY <1>1, RefsInUse
  <2>3. QED
    BY <1>1, <2>1, <2>2, HeldIs
<1>3. ASSUME NEW b \in Held(d, d.inode)
      PROVE  b \in Referenced(d)
  <2>1. PICK m \in Inode : \E s \in Slot : At(d, d.inode[m], s) = b
    BY DEF Held
  <2>2. PICK s \in Slot : At(d, d.inode[m], s) = b
    BY <2>1
  <2>3. b # NoBlock
    BY Constants DEF Held
  <2>4. m \in d.used
    BY <1>1, <2>2, <2>3, BlankAt DEF UnusedBlank
  <2>5. d.inode[m] \in InodeRec /\ Tree(d, d.inode[m])
    BY <1>1 DEF Disk, Forest
  <2>6. PICK ref \in AllRefs(d, d.inode[m]) : ref[4] = At(d, d.inode[m], s)
    BY <2>2, <2>3, <2>5, SlotIsRef
  <2>7. ref \in InodeRefs(d, m)
    BY <2>2, <2>3, <2>6, RefsAre
  <2>8. PICK e : e = <<m, ref>>
    OBVIOUS
  <2>9. e \in References(d) /\ e[2][4] = b
    BY <2>2, <2>4, <2>6, <2>7, <2>8 DEF References
  <2>10. QED
    BY <2>9 DEF Referenced
<1>4. QED
  BY <1>2, <1>3
----------------------------------------------------------------------------
(* The inductive invariant. *)

\* As long as no operation was cut short, the image is tidy; after one that
\* only allocated it leaks and no more; and where the system stops after any
\* other, it is still loose.
StorageInv ==
    /\ interrupted \in [inode : Inode \cup {NoInode}, ok : BOOLEAN, cleared : BOOLEAN]
    /\ interrupted = Nothing => Tidy(disk)
    /\ OnlyAllocated => Whole(disk)
    /\ Resumes = "allocates" => Loose(disk)

\* Formatting leaves an image with nothing leaked.
LEMMA FormattedIsTidy == Tidy(Formatted)
<1> DEFINE d == Formatted
<1>1. /\ Inode = 0 .. MaxInodes - 1 /\ MaxInodes \in Nat \ {0} /\ DataBlocks \in Nat
      /\ Root \in Inode /\ MaxGeneration \in Nat \ {0}
  BY Constants, Inodes, StorageAssumption DEF Inode
<1>2. ZeroData \in DataBlock
  BY DEF ZeroData, DataBlock
<1>3. \A m \in Inode : /\ d.inode[m] \in InodeRec /\ Blank(d.inode[m])
                       /\ d.inode[m].generation \in {0, 1}
  <2> TAKE m \in Inode
  <2>1. d.inode[m] = FreshInode(IF m = Root THEN 1 ELSE 0)
    BY DEF Formatted
  <2>2. CASE m = Root
    BY <2>1, <2>2, FreshIs
  <2>3. CASE m # Root
    BY <2>1, <2>3, FreshIs
  <2>4. QED
    BY <2>2, <2>3
<1>4. /\ d.used = {Root} /\ d.freeInodes = MaxInodes - 1 /\ d.bitmap = {}
      /\ d.freeBlocks = DataBlocks /\ d.block \in [DataRegion -> PtrBlock \cup DataBlock]
  BY <1>2 DEF Formatted
<1>5. d \in Disk
  <2>1. d.inode \in [Inode -> InodeRec]
    <3>1. d.inode = [n \in Inode |-> FreshInode(IF n = Root THEN 1 ELSE 0)]
      BY DEF Formatted
    <3> HIDE DEF d
    <3>2. QED
      BY <1>3, <3>1
  <2>2. d = [used |-> d.used, freeInodes |-> d.freeInodes, inode |-> d.inode,
             bitmap |-> d.bitmap, freeBlocks |-> d.freeBlocks, block |-> d.block]
    BY DEF Formatted
  <2> HIDE DEF d
  <2>3. QED
    BY <1>1, <1>4, <2>1, <2>2 DEF Disk
<1> HIDE DEF d
<1>6. \A m \in Inode : \A s \in Slot : At(d, d.inode[m], s) = NoBlock
  BY <1>3, BlankAt
<1>7. Sound(d, d.inode, {})
  <2>1. Forest(d, d.inode)
    <3>1. \A m \in Inode : Tree(d, d.inode[m])
      BY <1>6, Slots DEF Tree
    <3>2. Apart(d, d.inode)
      BY <1>6 DEF Apart
    <3>3. QED
      BY <1>5, <3>1, <3>2 DEF Forest, Disk
  <2>2. Contents(d, d.inode)
    BY <1>6, Slots DEF Contents, Holds
  <2>3. Held(d, d.inode) = {}
    BY <1>6, Constants DEF Held
  <2>4. Cardinality({}) = 0
    BY FS_EmptySet
  <2>5. QED
    BY <1>1, <1>4, <2>1, <2>2, <2>3, <2>4 DEF Sound
<1>8. Ranged(d)
  BY <1>1, <1>3, MostBlocks DEF Ranged, Blank
<1>9. d.freeInodes + Cardinality(d.used) = MaxInodes
  <2>1. Cardinality({Root}) = 1
    BY FS_Singleton
  <2>2. QED
    BY <1>1, <1>4, <2>1
<1>10. Whole(d)
  <2>1. UnusedBlank(d)
    BY <1>3 DEF UnusedBlank
  <2>2. QED
    BY <1>1, <1>4, <1>5, <1>7, <1>8, <1>9, <2>1 DEF Whole
<1>11. MappedAll(d)
  <2>1. \A s \in Slot : ~ (First(s) < 0)
    BY FirstType
  <2>2. QED
    BY <1>3, <1>6, <2>1, NoBytes DEF MappedAll, Blank
<1>12. d.bitmap = Held(d, d.inode)
  BY <1>4, <1>6, Constants DEF Held
<1>13. QED
  BY <1>9, <1>10, <1>11, <1>12 DEF Tidy, d
\* What GenerationsNeverRepeat says of a step.
AgesOn ==
    \A n \in Inode :
        /\ disk'.inode[n].generation >= disk.inode[n].generation
        /\ (n \notin disk.used /\ n \in disk'.used /\ interrupted' = Nothing) =>
              disk'.inode[n].generation > disk.inode[n].generation

\* A call, run to its end or cut short, keeps the invariant and, if it resumes as an
\* allocation, every generation.
LEMMA DoKeeps ==
    ASSUME StorageInv, NEW n \in Inode, NEW run, Whole(disk) => Outcome(run, disk), Do(n, run)
    PROVE  StorageInv' /\ (Resumes = "allocates" => AgesOn)
<1>1. /\ interrupted \in [inode : Inode \cup {NoInode}, ok : BOOLEAN, cleared : BOOLEAN]
      /\ interrupted = Nothing => Tidy(disk)
      /\ OnlyAllocated => Whole(disk)
  BY DEF StorageInv
<1>2. interrupted = Nothing => OnlyAllocated
  BY DEF Nothing, OnlyAllocated
<1>3. Resumes = "allocates" => Whole(disk)
  BY <1>1, <1>2, StorageAssumption DEF Do, GoesOn
<1>4. CASE disk' = run.disk /\ UNCHANGED interrupted
  <2>1. ASSUME Whole(disk)
        PROVE  /\ Whole(disk') /\ (Tidy(disk) => Tidy(disk')) /\ Loose(disk')
               /\ Older(disk', disk) /\ Renewed(disk', disk)
    BY <1>4, <2>1, WholeIsLoose DEF Outcome, Ends
  <2>2. Resumes = "allocates" => AgesOn
    <3> SUFFICES ASSUME Resumes = "allocates"
                 PROVE  AgesOn
      OBVIOUS
    <3>1. Older(disk', disk) /\ Renewed(disk', disk)
      BY <1>3, <2>1
    <3>2. QED
      BY <3>1 DEF AgesOn, Older, Renewed
  <2>3. interrupted' = Nothing => Tidy(disk')
    BY <1>1, <1>2, <1>4, <2>1
  <2>4. OnlyAllocated' => Whole(disk')
    BY <1>1, <1>4, <2>1 DEF OnlyAllocated
  <2>5. Resumes = "allocates" => Loose(disk')
    BY <1>3, <2>1
  <2>6. StorageInv'
    BY <1>1, <1>4, <2>3, <2>4, <2>5 DEF StorageInv
  <2>7. QED
    BY <2>2, <2>6
<1>5. CASE /\ interrupted = Nothing
           /\ disk' \in run.trail \ {disk, run.disk}
           /\ interrupted' = [inode |-> n, ok |-> run.ok,
                              cleared |-> ~ (/\ disk.bitmap \subseteq disk'.bitmap
                                             /\ disk.used \subseteq disk'.used)]
  <2>1. Tidy(disk) /\ Outcome(run, disk)
    BY <1>1, <1>5 DEF Tidy
  <2>2. /\ Loose(disk') /\ Older(disk', disk) /\ run.ok \in BOOLEAN
        /\ (run.ok /\ disk.bitmap \subseteq disk'.bitmap /\ disk.used \subseteq disk'.used) => Whole(disk')
    BY <1>5, <2>1 DEF Outcome, Ends, CutShort
  <2>3. interrupted' \in [inode : Inode \cup {NoInode}, ok : BOOLEAN, cleared : BOOLEAN]
    BY <1>5, <2>2
  <2>4. interrupted' # Nothing
    <3>1. n # NoInode /\ interrupted'.inode = n
      BY <1>5, Inodes
    <3>2. QED
      BY <3>1 DEF Nothing
  <2>5. OnlyAllocated' => Whole(disk')
    <3>1. OnlyAllocated' => run.ok /\ disk.bitmap \subseteq disk'.bitmap /\ disk.used \subseteq disk'.used
      BY <1>5 DEF OnlyAllocated
    <3>2. QED
      BY <2>2, <3>1
  <2>6. StorageInv'
    BY <2>2, <2>3, <2>4, <2>5 DEF StorageInv
  <2>7. AgesOn
    BY <2>2, <2>4 DEF AgesOn, Older
  <2>8. QED
    BY <2>6, <2>7
<1>6. QED
  BY <1>4, <1>5 DEF Do

\* Every step keeps the invariant.
LEMMA StorageStep ==
    ASSUME StorageInv, [Next]_vars
    PROVE  StorageInv' /\ (Resumes = "allocates" => AgesOn)
<1>1. CASE CreateFile
  <2> DEFINE n == Min(Inode \ disk.used)
  <2>1. n \in Inode \ disk.used
    <3>1. Inode \ disk.used \in SUBSET Nat /\ Inode \ disk.used # {}
      BY <1>1 DEF CreateFile, Inode
    <3>2. \E m \in Inode \ disk.used : \A k \in Inode \ disk.used : m <= k
      BY <3>1, Least
    <3>3. QED
      BY <3>2 DEF Min
  <2>2. disk.inode[n].generation < MaxGeneration /\ Do(n, AllocateInode(n))
    BY <1>1 DEF CreateFile
  <2> HIDE DEF n
  <2>3. Whole(disk) => Outcome(AllocateInode(n), disk)
    BY <2>1, <2>2, AllocatesInode
  <2>4. QED
    BY <2>1, <2>2, <2>3, DoKeeps
<1>2. ASSUME NEW n \in Inode, DeleteFile(n)
      PROVE  StorageInv' /\ (Resumes = "allocates" => AgesOn)
  <2>1. n \in disk.used /\ n # Root /\ Do(n, FreeInode(n))
    BY <1>2 DEF DeleteFile, Files
  <2>2. Whole(disk) => Outcome(FreeInode(n), disk)
    BY <2>1, FreesInode
  <2>3. QED
    BY <2>1, <2>2, DoKeeps
<1>3. ASSUME NEW n \in Inode, NEW size \in Sizes, TruncateFile(n, size)
      PROVE  StorageInv' /\ (Resumes = "allocates" => AgesOn)
  <2>1. n \in disk.used /\ size \in Nat /\ Do(n, TruncateInode(Start(n), n, size))
    BY <1>3, StorageAssumption DEF TruncateFile, Files
  <2>2. ASSUME Whole(disk)
        PROVE  Outcome(TruncateInode(Start(n), n, size), disk)
    <3>1. Begins(Start(n), disk, n)
      BY <2>2, Begun DEF Whole
    <3>2. Safe(TruncateInode(Start(n), n, size), disk, n)
      BY <2>1, <2>2, <3>1, Truncates
    <3>3. QED
      BY <2>2, <3>2, SafeOutcome
  <2>3. QED
    BY <2>1, <2>2, DoKeeps
<1>4. ASSUME NEW n \in Inode, NEW w \in Writes, NEW byte \in Bytes, WriteToFile(n, w, byte)
      PROVE  StorageInv' /\ (Resumes = "allocates" => AgesOn)
  <2>1. n \in disk.used /\ Do(n, WriteFile(Start(n), n, w[1], w[2], byte))
    BY <1>4 DEF WriteToFile, Files
  <2>2. w[1] \in Nat /\ w[2] \in Nat \ {0}
    BY StorageAssumption
  <2>3. ASSUME Whole(disk)
        PROVE  Outcome(WriteFile(Start(n), n, w[1], w[2], byte), disk)
    <3>1. Begins(Start(n), disk, n)
      BY <2>3, Begun DEF Whole
    <3>2. Safe(WriteFile(Start(n), n, w[1], w[2], byte), disk, n)
      BY <2>1, <2>2, <2>3, <3>1, WritesSafely
    <3>3. QED
      BY <2>3, <3>2, SafeOutcome
  <2>4. QED
    BY <2>1, <2>3, DoKeeps
<1>5. CASE UNCHANGED vars
  <2>1. disk' = disk /\ interrupted' = interrupted
    BY <1>5 DEF vars
  <2>2. StorageInv'
    BY <2>1 DEF StorageInv, OnlyAllocated
  <2>3. ASSUME Resumes = "allocates" PROVE AgesOn
    <3>1. \A n \in Inode : disk.inode[n].generation \in Nat
      BY <2>3, StorageAssumption DEF StorageInv, Loose, Ranged
    <3>2. QED
      BY <2>1, <3>1 DEF AgesOn
  <2>4. QED
    BY <2>2, <2>3
<1>6. QED
  BY <1>1, <1>2, <1>3, <1>4, <1>5 DEF Next

\* The invariant is inductive: whatever is allocated, freed, grown, shrunk or
\* written, to its end, to an error on the way or to a kill between two blocks.
THEOREM StorageInductive == Spec => []StorageInv
<1>1. Init => StorageInv
  <2> SUFFICES ASSUME Init
               PROVE  StorageInv
    OBVIOUS
  <2>1. disk = Formatted /\ interrupted = Nothing
    BY DEF Init
  <2>2. Tidy(disk) /\ Whole(disk) /\ Loose(disk)
    BY <2>1, FormattedIsTidy, WholeIsLoose DEF Tidy
  <2>3. interrupted \in [inode : Inode \cup {NoInode}, ok : BOOLEAN, cleared : BOOLEAN]
    BY <2>1 DEF Nothing
  <2>4. QED
    BY <2>2, <2>3 DEF StorageInv
<1>2. StorageInv /\ [Next]_vars => StorageInv'
  BY StorageStep
<1>3. QED
  BY <1>1, <1>2, PTL DEF Spec
----------------------------------------------------------------------------
(* What it says of the image. *)

\* What is in use lies in the table and in the data region.
LEMMA InUseAreInodes ==
    ASSUME NEW d, Loose(d)
    PROVE  d.used \subseteq Inode /\ d.bitmap \subseteq DataRegion
BY DEF Loose, Disk

\* The image has the shape the code takes it to have, in every state.
THEOREM TypeCorrect ==
    ASSUME Resumes = "allocates"
    PROVE  Spec => []TypeOK
<1>1. StorageInv => TypeOK
  <2> SUFFICES ASSUME StorageInv
               PROVE  TypeOK
    OBVIOUS
  <2>1. /\ interrupted \in [inode : Inode \cup {NoInode}, ok : BOOLEAN, cleared : BOOLEAN]
        /\ Loose(disk)
    BY DEF StorageInv
  <2>2. disk.used \subseteq Inode /\ disk.bitmap \subseteq DataRegion
    BY <2>1, InUseAreInodes
  <2>3. disk.freeInodes \in 0 .. MaxInodes /\ disk.freeBlocks \in 0 .. DataBlocks
    BY <2>1, Constants DEF Loose, Disk
  <2>4. \A n \in Inode :
          /\ disk.inode[n].generation \in 0 .. MaxGeneration
          /\ disk.inode[n].size \in 0 .. MaxFileBlocks * BlockSize
          /\ disk.inode[n].blocks \in 0 .. MaxFileBlocks
    BY <2>1 DEF Loose, Ranged
  <2>5. \A n \in Inode :
          /\ disk.inode[n].direct \in [0 .. DirectBlocks - 1 -> DataRegion \cup {NoBlock}]
          /\ {disk.inode[n].single, disk.inode[n].double} \subseteq DataRegion \cup {NoBlock}
    <3>1. \A n \in Inode : disk.inode[n] \in InodeRec
      BY <2>1 DEF Loose, Disk
    <3>2. QED
      BY <3>1 DEF InodeRec, Direct, Ptr
  <2>6. QED
    BY <2>1, <2>2, <2>3, <2>4, <2>5 DEF TypeOK
<1>2. QED
  BY <1>1, StorageInductive, PTL

\* No block has two owners, whatever was allocated, freed or cut short before.
THEOREM BlocksHaveOneOwner ==
    ASSUME Resumes = "allocates"
    PROVE  Spec => []NoCrossLinks
<1>1. StorageInv => NoCrossLinks
  BY ReferencesApart DEF StorageInv, NoCrossLinks
<1>2. QED
  BY <1>1, StorageInductive, PTL

\* The counters of the superblock are always ones that a mount accepts.
THEOREM ImageStaysMountable ==
    ASSUME Resumes = "allocates"
    PROVE  Spec => []StaysMountable
<1>1. StorageInv => StaysMountable
  BY DEF StorageInv, Loose, StaysMountable, Mountable
<1>2. QED
  BY <1>1, StorageInductive, PTL

\* Without an interruption nothing leaks and nothing in use is on offer: bitmap,
\* pointers and counters say the same.
THEOREM BitmapExact == Spec => []BitmapIsExact
<1>1. StorageInv => BitmapIsExact
  <2> SUFFICES ASSUME StorageInv, interrupted = Nothing
               PROVE  /\ disk.bitmap = Referenced(disk)
                      /\ disk.freeBlocks = DataBlocks - Cardinality(disk.bitmap)
                      /\ disk.freeInodes = MaxInodes - Cardinality(disk.used)
    BY DEF BitmapIsExact
  <2>1. Tidy(disk) /\ Whole(disk) /\ disk \in Disk
    BY DEF StorageInv, Tidy, Whole
  <2>2. disk.bitmap = Held(disk, disk.inode)
    BY <2>1 DEF Tidy
  <2>3. disk.bitmap = Referenced(disk)
    BY <2>1, <2>2, ReferencedIsHeld
  <2>4. /\ DataBlocks <= disk.freeBlocks + Cardinality(disk.bitmap)
        /\ disk.freeBlocks + Cardinality(disk.bitmap) <= DataBlocks
    <3>1. Held(disk, disk.inode) \cup {} = disk.bitmap
      BY <2>2
    <3>2. QED
      BY <2>1, <3>1 DEF Whole, Sound
  <2>5. /\ Cardinality(disk.bitmap) \in Nat /\ disk.freeBlocks \in Nat /\ disk.freeInodes \in Nat
        /\ Cardinality(disk.used) \in Nat
    BY <2>1, Blocks, Inodes, Constants DEF Disk
  <2>6. disk.freeBlocks = DataBlocks - Cardinality(disk.bitmap)
    BY <2>4, <2>5, Constants
  <2>7. disk.freeInodes = MaxInodes - Cardinality(disk.used)
    BY <2>1, <2>5, Constants DEF Tidy
  <2>8. QED
    BY <2>3, <2>6, <2>7
<1>2. QED
  BY <1>1, StorageInductive, PTL

\* A file has a block for each logical block below its end and none beyond, and
\* a pointer block exactly when one is needed.
THEOREM FilesAreMapped == Spec => []MappedUpToSize
<1>1. StorageInv => MappedUpToSize
  <2> SUFFICES ASSUME StorageInv, interrupted = Nothing, NEW n \in disk.used
               PROVE  LET inode == disk.inode[n]
                          count == BlocksOf(inode.size)
                      IN  /\ inode.blocks = count
                          /\ \A lb \in 0 .. MaxFileBlocks - 1 :
                                lb < count <=> Lookup(disk, inode, lb) # NoBlock
                          /\ inode.single # NoBlock <=> count > DirectBlocks
                          /\ inode.double # NoBlock <=> count > DirectBlocks + PtrsPerBlock
    BY DEF MappedUpToSize
  <2> DEFINE I == disk.inode[n]
             count == BlocksOf(I.size)
  <2>1. MappedAll(disk) /\ n \in Inode
    BY DEF StorageInv, Tidy, Whole, Disk
  <2>2. /\ I.blocks = count
        /\ \A s \in Slot : First(s) < count <=> At(disk, I, s) # NoBlock
    BY <2>1 DEF MappedAll
  <2>3. count \in Nat /\ DirectBlocks \in Nat /\ PtrsPerBlock \in Nat
    <3>1. I.size \in Nat
      BY <2>1 DEF StorageInv, Tidy, Whole, Disk, InodeRec
    <3>2. QED
      BY <3>1, BlocksOfIs, Constants
  <2> HIDE DEF count
  <2>4. \A lb \in 0 .. MaxFileBlocks - 1 : lb < count <=> Lookup(disk, I, lb) # NoBlock
    <3> TAKE lb \in 0 .. MaxFileBlocks - 1
    <3>1. Home(lb) \in Slot /\ First(Home(lb)) = lb /\ Lookup(disk, I, lb) = At(disk, I, Home(lb))
      BY Homes, LooksUp
    <3>2. QED
      BY <2>2, <3>1
  <2>5. I.single # NoBlock <=> count > DirectBlocks
    <3>1. /\ <<"single", 0, 0>> \in Slot /\ First(<<"single", 0, 0>>) = DirectBlocks
          /\ At(disk, I, <<"single", 0, 0>>) = I.single
      BY Slots DEF First, At
    <3>2. DirectBlocks < count <=> I.single # NoBlock
      BY <2>2, <3>1
    <3>3. QED
      BY <2>3, <3>2
  <2>6. I.double # NoBlock <=> count > DirectBlocks + PtrsPerBlock
    <3>1. /\ <<"double", 0, 0>> \in Slot /\ First(<<"double", 0, 0>>) = DirectBlocks + PtrsPerBlock
          /\ At(disk, I, <<"double", 0, 0>>) = I.double
      BY Slots DEF First, At
    <3>2. DirectBlocks + PtrsPerBlock < count <=> I.double # NoBlock
      BY <2>2, <3>1
    <3>3. QED
      BY <2>3, <3>2
  <2>7. QED
    BY <2>2, <2>4, <2>5, <2>6 DEF count
<1>2. QED
  BY <1>1, StorageInductive, PTL

\* What an interrupted allocation leaves behind is never on offer, and reads as
\* zero when the file grows over it.
THEOREM LeaksAreLeaks == Spec => []LeaksStayLeaks
<1>1. StorageInv => LeaksStayLeaks
  <2> SUFFICES ASSUME StorageInv, interrupted = Nothing \/ OnlyAllocated
               PROVE  /\ Referenced(disk) \subseteq disk.bitmap
                      /\ \A n \in Files, lb \in 0 .. MaxFileBlocks - 1 :
                            LET b == Lookup(disk, disk.inode[n], lb) IN
                            lb >= BlocksOf(disk.inode[n].size) /\ b # NoBlock =>
                                disk.block[b] = ZeroData
    BY DEF LeaksStayLeaks
  <2>1. Whole(disk)
    BY DEF StorageInv, Tidy
  <2>2. Referenced(disk) \subseteq disk.bitmap
    BY <2>1, ReferencedIsHeld DEF Whole, Sound
  <2>3. ASSUME NEW n \in Files, NEW lb \in 0 .. MaxFileBlocks - 1,
               lb >= BlocksOf(disk.inode[n].size), Lookup(disk, disk.inode[n], lb) # NoBlock
        PROVE  disk.block[Lookup(disk, disk.inode[n], lb)] = ZeroData
    <3>1. n \in Inode
      BY <2>1 DEF Whole, Disk, Files
    <3>2. /\ Home(lb) \in DataSlot /\ First(Home(lb)) = lb
          /\ Lookup(disk, disk.inode[n], lb) = At(disk, disk.inode[n], Home(lb))
      BY Homes, LooksUp
    <3>3. Holds(disk, disk.inode[n], Home(lb))
      BY <2>1, <3>1, <3>2 DEF Whole, Sound, Contents
    <3>4. QED
      BY <2>3, <3>2, <3>3 DEF Holds
  <2>4. QED
    BY <2>2, <2>3
<1>2. QED
  BY <1>1, StorageInductive, PTL

\* An inode taken again is a generation its earlier occupants never had.
THEOREM GenerationsGrow ==
    ASSUME Resumes = "allocates"
    PROVE  Spec => GenerationsNeverRepeat
<1>1. StorageInv /\ [Next]_vars =>
          [\A n \in Inode :
              /\ disk'.inode[n].generation >= disk.inode[n].generation
              /\ (n \notin disk.used /\ n \in disk'.used /\ interrupted' = Nothing) =>
                    disk'.inode[n].generation > disk.inode[n].generation]_vars
  BY StorageStep DEF AgesOn
<1>2. QED
  BY <1>1, StorageInductive, PTL DEF Spec, GenerationsNeverRepeat
=============================================================================
