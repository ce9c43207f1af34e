-------------------------- MODULE NamespaceProofs --------------------------
(***************************************************************************)
(* What holds of names, handles and counts in every tree, for any          *)
(* processes, paths, links and sizes, wherever processes die.              *)
(***************************************************************************)
EXTENDS Namespace, NaturalsInduction, FiniteSetTheorems, TLAPS

Type == {"none", "file", "dir", "symlink"}
InodeContents ==
    [type : Type, links : Nat, generation : 0 .. MaxGeneration, blocks : Nat,
     target : {NoTarget} \cup Targets]
Entry == Inode \X {Last(path) : path \in Paths} \X (Inode \ {Root})
Disk == [used : SUBSET Inode, free : Nat, entries : SUBSET Entry, torn : SUBSET Inode,
         inode : [Inode -> InodeContents]]

\* Every directory is above what is in it: no chain of entries leads back.
Ranked(entries) == \E rank \in [Inode -> Nat] : \A e \in entries : rank[e[1]] < rank[e[3]]

\* The blocks an inode is sure to have: while it is torn, none.
Sure(d, n) == IF n \in d.torn THEN 0 ELSE d.inode[n].blocks

\* All inodes' blocks: a stale handle may write to an inode that is free.
Held(d) == UNION {{n} \X (1 .. Sure(d, n)) : n \in Inode}

TreeOK(d) ==
    /\ Root \in d.used /\ d.inode[Root].type = "dir"
    /\ \A n \in Inode : /\ n \notin d.used => d.inode[n].type = "none"
                        /\ d.inode[n].type # "none" => d.inode[n].links # 0
    /\ IsFiniteSet(d.entries)
    /\ \A e \in d.entries : d.inode[e[1]].type = "dir"
    /\ \A e, f \in d.entries : e[1] = f[1] /\ e[2] = f[2] => e = f
    /\ Ranked(d.entries)

CapacityOK(d) ==
    \A n \in Inode : Cardinality(EntriesOf(d, n)) <= d.inode[n].blocks * EntriesPerBlock

SpaceOK(d) ==
    /\ IsFiniteSet(Held(d)) /\ d.free + Cardinality(Held(d)) <= DataBlocks
    /\ \A n \in Inode : d.inode[n].blocks <= DataBlocks

DiskOK(d) == d \in Disk /\ TreeOK(d) /\ CapacityOK(d) /\ SpaceOK(d)
----------------------------------------------------------------------------
(* Sets and sequences. *)

\* The lowest free inode is free.
LEMMA MinIsLeast ==
    ASSUME NEW S, S \subseteq Nat, S # {}
    PROVE  Min(S) \in S
<1>1. PICK x \in S : \A y \in S : ~ (<<y, x>> \in OpToRel(<, Nat))
  BY NatLessThanWellFounded, WFMin
<1>2. \A y \in S : ~ (y < x)
  BY <1>1, Zenon DEF OpToRel
<1>3. \A y \in S : x <= y
  BY <1>2
<1>4. QED
  BY <1>3 DEF Min

\* A step of an operation whose disks are all in S.
LEMMA DoneWithin ==
    ASSUME NEW p, NEW trail, NEW S, trail \in Seq(S), trail # <<>>, Do(p, trail)
    PROVE  /\ disk' \in S
           /\ (~ MayDie \/ mounted' = mounted) => disk' = Last(trail)
           /\ \/ UNCHANGED <<mounted, fds, maps>>
              \/ MayDie /\ Gone(p)
           /\ p \in mounted
<1>1. Len(trail) \in Nat \ {0} /\ \A i \in 1 .. Len(trail) : trail[i] \in S
  BY SMT
<1>2. Last(trail) \in S
  BY <1>1 DEF Last
<1>3. QED
  BY <1>1, <1>2 DEF Do, Gone

\* Two trails, one after the other, end where the second does.
LEMMA LastOfBoth ==
    ASSUME NEW S, NEW s \in Seq(S), NEW t \in Seq(S), t # <<>>
    PROVE  s \o t \in Seq(S) /\ s \o t # <<>> /\ Last(s \o t) = Last(t)
BY DEF Last

\* A sequence over a set is one over a larger set.
LEMMA SeqWithin ==
    ASSUME NEW S, NEW T, S \subseteq T, NEW s \in Seq(S)
    PROVE  s \in Seq(T)
<1>1. Len(s) \in Nat /\ \A i \in 1 .. Len(s) : s[i] \in T
  OBVIOUS
<1>2. s = [i \in 1 .. Len(s) |-> s[i]]
  OBVIOUS
<1>3. QED
  BY <1>1, <1>2

\* The last element is an element.
LEMMA LastIn ==
    ASSUME NEW S, NEW s \in Seq(S), s # <<>>
    PROVE  Last(s) \in S
BY DEF Last

\* What the assumption says of the parameters.
LEMMA Numbers ==
    /\ MaxInodes \in Nat \ {0} /\ EntriesPerBlock \in Nat \ {0}
    /\ DirectBlocks \in Nat \ {0} /\ MaxGeneration \in Nat \ {0}
    /\ DataBlocks \in Nat /\ Ends \subseteq Nat /\ MayDie \in BOOLEAN
    /\ Links \subseteq Paths \X Paths
<1>1. /\ {MaxInodes, EntriesPerBlock, DirectBlocks, MaxGeneration} \subseteq Nat \ {0}
      /\ {DataBlocks} \subseteq Nat /\ Ends \subseteq Nat /\ MayDie \in BOOLEAN
      /\ Links \subseteq Paths \X Paths
  BY NamespaceAssumption, Zenon
<1>2. QED
  BY <1>1

\* The inode table is finite and has a root.
LEMMA Inodes == /\ IsFiniteSet(Inode) /\ Inode \subseteq Nat /\ Root \in Inode
                /\ NoInode \notin Inode
<1>1. MaxInodes \in Nat \ {0}
  BY Numbers
<1>2. IsFiniteSet(0 .. MaxInodes - 1)
  BY <1>1, FS_Interval
<1>3. QED
  BY <1>1, <1>2 DEF Inode, Root, NoInode
----------------------------------------------------------------------------
(* Blocks.                                                                 *)

\* One row of blocks.
LEMMA RowSize ==
    ASSUME NEW n, NEW b \in Nat
    PROVE  IsFiniteSet({n} \X (1 .. b)) /\ Cardinality({n} \X (1 .. b)) = b
<1> DEFINE f == [i \in 1 .. b |-> <<n, i>>]
<1>1. f \in Bijection(1 .. b, {n} \X (1 .. b))
  <2>1. f \in [1 .. b -> {n} \X (1 .. b)]
    OBVIOUS
  <2>2. \A i, j \in 1 .. b : f[i] = f[j] => i = j
    OBVIOUS
  <2>3. \A x \in {n} \X (1 .. b) : \E i \in 1 .. b : f[i] = x
    OBVIOUS
  <2>4. QED
    BY <2>1, <2>2, <2>3 DEF Bijection, Injection, Surjection, IsInjective
<1>2. ExistsBijection(1 .. b, {n} \X (1 .. b))
  BY <1>1 DEF ExistsBijection
<1>3. IsFiniteSet(1 .. b) /\ Cardinality(1 .. b) = b
  BY FS_Interval
<1>4. QED
  BY <1>2, <1>3, FS_Bijection

\* What an inode is sure of is a count, of its blocks or none.
LEMMA SureIsCount ==
    ASSUME NEW d \in Disk, NEW n \in Inode
    PROVE  Sure(d, n) \in Nat /\ (n \notin d.torn => Sure(d, n) = d.inode[n].blocks)
BY DEF Sure, Disk, InodeContents

\* A change of one inode changes what is held by what that inode is sure of.
LEMMA HeldChange ==
    ASSUME NEW d \in Disk, NEW e \in Disk, NEW n \in Inode, IsFiniteSet(Held(d)),
           \A m \in Inode \ {n} : Sure(e, m) = Sure(d, m)
    PROVE  /\ IsFiniteSet(Held(d)) /\ IsFiniteSet(Held(e))
           /\ Cardinality(Held(d)) \in Nat /\ Cardinality(Held(e)) \in Nat
           /\ Cardinality(Held(e)) + Sure(d, n) = Cardinality(Held(d)) + Sure(e, n)
<1> DEFINE rest == UNION {{m} \X (1 .. Sure(d, m)) : m \in Inode \ {n}}
           old == Sure(d, n)
           new == Sure(e, n)
<1>1. old \in Nat /\ new \in Nat
  BY SureIsCount
<1>2. Held(d) = rest \cup ({n} \X (1 .. old))
  BY DEF Held
<1>3. Held(e) = rest \cup ({n} \X (1 .. new))
  <2>1. UNION {{m} \X (1 .. Sure(e, m)) : m \in Inode \ {n}} = rest
    OBVIOUS
  <2>2. Held(e) = (UNION {{m} \X (1 .. Sure(e, m)) : m \in Inode \ {n}})
                     \cup ({n} \X (1 .. new))
    BY DEF Held
  <2>3. QED
    BY <2>1, <2>2
<1>4. rest \cap ({n} \X (1 .. old)) = {} /\ rest \cap ({n} \X (1 .. new)) = {}
  OBVIOUS
<1> HIDE DEF rest, old, new
<1>5. IsFiniteSet(rest)
  BY <1>2, FS_Subset
<1>6. Cardinality(rest) \in Nat
  BY <1>5, FS_CardinalityType
<1>7. /\ IsFiniteSet({n} \X (1 .. old)) /\ Cardinality({n} \X (1 .. old)) = old
      /\ IsFiniteSet({n} \X (1 .. new)) /\ Cardinality({n} \X (1 .. new)) = new
  BY <1>1, RowSize
<1>8. Cardinality({}) = 0
  BY FS_EmptySet
<1>9. Cardinality(Held(d)) = Cardinality(rest) + old - 0
  <2>1. Cardinality(rest \cup ({n} \X (1 .. old))) = Cardinality(rest) + old - 0
    BY <1>4, <1>5, <1>7, <1>8, FS_Union
  <2>2. QED
    BY <1>2, <2>1
<1>10. Cardinality(Held(e)) = Cardinality(rest) + new - 0 /\ IsFiniteSet(Held(e))
  <2>1. Cardinality(rest \cup ({n} \X (1 .. new))) = Cardinality(rest) + new - 0
    BY <1>4, <1>5, <1>7, <1>8, FS_Union
  <2>2. IsFiniteSet(rest \cup ({n} \X (1 .. new)))
    BY <1>5, <1>7, FS_Union
  <2>3. QED
    BY <1>3, <2>1, <2>2
<1>11. QED
  BY <1>1, <1>6, <1>9, <1>10 DEF old, new

\* A change of one inode, of what it is sure of and of the free counter.
LEMMA SpaceChange ==
    ASSUME NEW d \in Disk, NEW e \in Disk, NEW n \in Inode, SpaceOK(d),
           \A m \in Inode \ {n} : e.inode[m] = d.inode[m] /\ (m \in e.torn <=> m \in d.torn),
           n \in e.torn => e.inode[n].blocks <= d.inode[n].blocks,
           e.free + Sure(e, n) <= d.free + Sure(d, n)
    PROVE  SpaceOK(e)
<1>1. \A m \in Inode \ {n} : Sure(e, m) = Sure(d, m)
  BY DEF Sure
<1>2. /\ IsFiniteSet(Held(e))
      /\ Cardinality(Held(d)) \in Nat /\ Cardinality(Held(e)) \in Nat
      /\ Cardinality(Held(e)) + Sure(d, n) = Cardinality(Held(d)) + Sure(e, n)
  BY <1>1, HeldChange DEF SpaceOK
<1>3. /\ d.free \in Nat /\ e.free \in Nat /\ d.inode[n].blocks \in Nat
      /\ e.inode[n].blocks \in Nat
  BY DEF Disk, InodeContents
<1>4. Sure(d, n) \in Nat /\ Sure(e, n) \in Nat
  BY SureIsCount
<1>5. e.free + Cardinality(Held(e)) <= DataBlocks
  BY <1>2, <1>3, <1>4, Numbers DEF SpaceOK
<1>6. ASSUME NEW m \in Inode PROVE e.inode[m].blocks <= DataBlocks
  <2>1. CASE m # n
    BY <2>1 DEF SpaceOK
  <2>2. CASE m = n /\ n \in e.torn
    BY <1>3, <2>2, Numbers DEF SpaceOK
  <2>3. CASE m = n /\ n \notin e.torn
    <3>1. {n} \X (1 .. Sure(e, n)) \subseteq Held(e)
      BY DEF Held
    <3>2. Cardinality({n} \X (1 .. Sure(e, n))) = Sure(e, n)
      BY <1>4, RowSize
    <3>3. Sure(e, n) <= Cardinality(Held(e))
      BY <1>2, <3>1, <3>2, FS_Subset
    <3>4. Sure(e, n) = e.inode[n].blocks
      BY <2>3 DEF Sure
    <3>5. QED
      BY <1>2, <1>3, <1>5, <2>3, <3>3, <3>4, Numbers
  <2>4. QED
    BY <2>1, <2>2, <2>3
<1>7. QED
  BY <1>2, <1>5, <1>6 DEF SpaceOK

\* An inode gets blocks or gives them back; a torn one has no part in it.
LEMMA SpaceStep ==
    ASSUME NEW d \in Disk, NEW e \in Disk, NEW n \in Inode, SpaceOK(d), e.torn = d.torn,
           \A m \in Inode \ {n} : e.inode[m] = d.inode[m],
           n \in d.torn => e.inode[n].blocks = d.inode[n].blocks,
           e.free + e.inode[n].blocks <= d.free + d.inode[n].blocks
    PROVE  SpaceOK(e)
<1>1. /\ d.free \in Nat /\ e.free \in Nat /\ d.inode[n].blocks \in Nat
      /\ e.inode[n].blocks \in Nat
  BY DEF Disk, InodeContents
<1>2. e.free + Sure(e, n) <= d.free + Sure(d, n)
  BY <1>1 DEF Sure
<1>3. n \in e.torn => e.inode[n].blocks <= d.inode[n].blocks
  BY <1>1
<1>4. QED
  BY <1>2, <1>3, SpaceChange

\* An inode is torn: no more becomes free than it was sure of.
LEMMA TearStep ==
    ASSUME NEW d \in Disk, NEW e \in Disk, NEW n \in Inode, SpaceOK(d), e.inode = d.inode,
           e.torn = d.torn \cup {n}, e.free <= d.free + Sure(d, n)
    PROVE  SpaceOK(e)
<1>1. /\ d.free \in Nat /\ e.free \in Nat /\ d.inode[n].blocks \in Nat
      /\ Sure(d, n) \in Nat
  BY SureIsCount DEF Disk, InodeContents
<1>2. e.free + Sure(e, n) <= d.free + Sure(d, n)
  BY <1>1 DEF Sure
<1>3. e.inode[n].blocks <= d.inode[n].blocks
  BY <1>1
<1>4. QED
  BY <1>2, <1>3, SpaceChange

\* An inode is blank: whatever it counted, it is not torn any more.
LEMMA BlankStep ==
    ASSUME NEW d \in Disk, NEW e \in Disk, NEW n \in Inode, SpaceOK(d),
           \A m \in Inode \ {n} : e.inode[m] = d.inode[m], e.inode[n].blocks = 0,
           e.torn = d.torn \ {n}, e.free <= d.free
    PROVE  SpaceOK(e)
<1>1. /\ d.free \in Nat /\ e.free \in Nat /\ Sure(d, n) \in Nat
  BY SureIsCount DEF Disk
<1>2. e.free + Sure(e, n) <= d.free + Sure(d, n)
  BY <1>1 DEF Sure
<1>3. QED
  BY <1>2, SpaceChange
----------------------------------------------------------------------------
(* The steps that operations are made of.                                  *)

\* Products with the size of a block.
LEMMA Monotone ==
    ASSUME NEW a \in Nat, NEW b \in Nat, a <= b
    PROVE  /\ a * EntriesPerBlock <= b * EntriesPerBlock
           /\ (a + 1) * EntriesPerBlock >= a * EntriesPerBlock + 1
           /\ a * EntriesPerBlock \in Nat
BY Numbers

\* Fewer entries lead back no more than all of them.
LEMMA RankOfFewer ==
    ASSUME NEW entries, NEW fewer, fewer \subseteq entries, Ranked(entries)
    PROVE  Ranked(fewer)
BY DEF Ranked

\* Nor does one more, of an inode with nothing in it: it is put below the rest.
LEMMA RankOfMore ==
    ASSUME NEW entries, entries \subseteq Entry, Ranked(entries), NEW dir \in Inode, NEW name,
           NEW n \in Inode, n # dir, \A e \in entries : e[1] # n
    PROVE  Ranked(entries \cup {<<dir, name, n>>})
<1>1. PICK rank \in [Inode -> Nat] : \A e \in entries : rank[e[1]] < rank[e[3]]
  BY DEF Ranked
<1> DEFINE low == rank[n] + rank[dir] + 1
           lower == [rank EXCEPT ![n] = low]
<1>2. /\ low \in Nat /\ rank[n] < low /\ rank[dir] < low
  <2>1. rank[n] \in Nat /\ rank[dir] \in Nat
    OBVIOUS
  <2>2. QED
    BY <2>1
<1> HIDE DEF low
<1>3. /\ lower \in [Inode -> Nat] /\ lower[n] = low
      /\ \A m \in Inode \ {n} : lower[m] = rank[m]
  BY <1>2
<1> HIDE DEF lower
<1>4. ASSUME NEW e \in entries PROVE lower[e[1]] < lower[e[3]]
  <2>1. /\ e[1] \in Inode \ {n} /\ e[3] \in Inode /\ rank[e[1]] < rank[e[3]]
    BY <1>1 DEF Entry
  <2>2. rank[e[1]] \in Nat /\ rank[e[3]] \in Nat /\ lower[e[1]] = rank[e[1]]
    BY <1>3, <2>1
  <2>3. lower[e[3]] = rank[e[3]] \/ (e[3] = n /\ lower[e[3]] = low)
    BY <1>3, <2>1
  <2>4. QED
    BY <1>2, <2>1, <2>2, <2>3
<1>5. lower[dir] < lower[n]
  BY <1>2, <1>3
<1>6. \A e \in entries \cup {<<dir, name, n>>} : lower[e[1]] < lower[e[3]]
  BY <1>4, <1>5
<1>7. QED
  BY <1>3, <1>6 DEF Ranked

\* Only directories have entries in them.
LEMMA EmptyUnlessDirectory ==
    ASSUME NEW d, TreeOK(d), NEW n
    PROVE  d.inode[n].type # "dir" => EntriesOf(d, n) = {}
BY DEF TreeOK, EntriesOf

\* One inode is written.
LEMMA InodeStep ==
    ASSUME NEW d \in Disk, NEW e \in Disk, NEW n \in Inode, TreeOK(d), CapacityOK(d),
           e.used = d.used, e.entries = d.entries,
           \A m \in Inode \ {n} : e.inode[m] = d.inode[m],
           n = Root => e.inode[n].type = "dir",
           n \notin d.used => e.inode[n].type = "none",
           e.inode[n].type # "none" => e.inode[n].links # 0,
           \/ EntriesOf(d, n) = {}
           \/ e.inode[n].type = "dir" /\ e.inode[n].blocks >= d.inode[n].blocks
    PROVE  TreeOK(e) /\ CapacityOK(e)
<1>1. TreeOK(e)
  <2>1. \A x \in e.entries : e.inode[x[1]].type = "dir"
    <3>1. TAKE x \in e.entries
    <3>2. x[1] \in Inode /\ d.inode[x[1]].type = "dir"
      BY DEF TreeOK, Disk, Entry
    <3>3. x[1] = n => x \in EntriesOf(d, n)
      BY DEF EntriesOf
    <3>4. QED
      BY <3>2, <3>3
  <2>2. \A m \in Inode : /\ m \notin e.used => e.inode[m].type = "none"
                         /\ e.inode[m].type # "none" => e.inode[m].links # 0
    BY DEF TreeOK
  <2>3. Root \in e.used /\ e.inode[Root].type = "dir"
    BY Inodes DEF TreeOK
  <2>4. IsFiniteSet(e.entries)
    BY DEF TreeOK
  <2>5. \A x, y \in e.entries : x[1] = y[1] /\ x[2] = y[2] => x = y
    BY DEF TreeOK
  <2>6. QED
    BY <2>1, <2>2, <2>3, <2>4, <2>5 DEF TreeOK
<1>2. CapacityOK(e)
  <2>1. SUFFICES ASSUME NEW m \in Inode
                 PROVE  Cardinality(EntriesOf(e, m)) <= e.inode[m].blocks * EntriesPerBlock
    BY DEF CapacityOK
  <2>2. EntriesOf(e, m) = EntriesOf(d, m)
    BY DEF EntriesOf
  <2>3. CASE m # n
    BY <2>2, <2>3 DEF CapacityOK
  <2>4. CASE m = n /\ EntriesOf(d, n) = {}
    <3>1. Cardinality(EntriesOf(e, m)) = 0
      BY <2>2, <2>4, FS_EmptySet
    <3>2. e.inode[m].blocks \in Nat
      BY DEF Disk, InodeContents
    <3>3. QED
      BY <3>1, <3>2, Monotone
  <2>5. CASE m = n /\ e.inode[n].blocks >= d.inode[n].blocks
    <3>1. e.inode[m].blocks \in Nat /\ d.inode[m].blocks \in Nat
      BY DEF Disk, InodeContents
    <3>2. /\ d.inode[m].blocks * EntriesPerBlock <= e.inode[m].blocks * EntriesPerBlock
          /\ d.inode[m].blocks * EntriesPerBlock \in Nat
          /\ e.inode[m].blocks * EntriesPerBlock \in Nat
      BY <2>5, <3>1, Monotone
    <3>3. Cardinality(EntriesOf(d, m)) \in Nat
      <4>1. IsFiniteSet(EntriesOf(d, m))
        BY FS_Subset DEF TreeOK, EntriesOf
      <4>2. QED
        BY <4>1, FS_CardinalityType
    <3>4. Cardinality(EntriesOf(d, m)) <= d.inode[m].blocks * EntriesPerBlock
      BY DEF CapacityOK
    <3>5. QED
      BY <2>2, <3>2, <3>3, <3>4
  <2>6. QED
    BY <2>3, <2>4, <2>5
<1>3. QED
  BY <1>1, <1>2

\* The bit of an inode is set, or that of an inode with nothing in it is cleared.
LEMMA BitStep ==
    ASSUME NEW d \in Disk, NEW e \in Disk, NEW n \in Inode, TreeOK(d), CapacityOK(d),
           e.entries = d.entries, e.inode = d.inode,
           \/ e.used = d.used \cup {n}
           \/ e.used = d.used \ {n} /\ d.inode[n].type = "none"
    PROVE  TreeOK(e) /\ CapacityOK(e)
BY DEF TreeOK, CapacityOK, EntriesOf

\* A name is added where there is a free slot and no such name.
LEMMA AddStep ==
    ASSUME NEW d \in Disk, NEW e \in Disk, TreeOK(d), CapacityOK(d),
           NEW dir \in Inode, NEW name, NEW n \in Inode, n # dir, EntriesOf(d, n) = {},
           e.used = d.used, e.inode = d.inode, e.entries = d.entries \cup {<<dir, name, n>>},
           d.inode[dir].type = "dir", FreeSlot(d, dir),
           \A x \in d.entries : ~ (x[1] = dir /\ x[2] = name)
    PROVE  TreeOK(e) /\ CapacityOK(e)
<1>1. IsFiniteSet(e.entries) /\ Ranked(e.entries)
  <2>1. IsFiniteSet(e.entries)
    BY FS_AddElement DEF TreeOK
  <2>2. d.entries \subseteq Entry /\ Ranked(d.entries) /\ \A x \in d.entries : x[1] # n
    BY DEF Disk, TreeOK, EntriesOf
  <2>3. Ranked(d.entries \cup {<<dir, name, n>>})
    BY <2>2, RankOfMore
  <2>4. QED
    BY <2>1, <2>3
<1>2. TreeOK(e)
  BY <1>1 DEF TreeOK
<1>3. CapacityOK(e)
  <2>1. SUFFICES ASSUME NEW m \in Inode
                 PROVE  Cardinality(EntriesOf(e, m)) <= e.inode[m].blocks * EntriesPerBlock
    BY DEF CapacityOK
  <2>2. CASE m # dir
    <3>1. EntriesOf(e, m) = EntriesOf(d, m)
      BY <2>2 DEF EntriesOf
    <3>2. QED
      BY <3>1 DEF CapacityOK
  <2>3. CASE m = dir
    <3>1. EntriesOf(e, m) = EntriesOf(d, m) \cup {<<dir, name, n>>}
      BY <2>3 DEF EntriesOf
    <3>2. IsFiniteSet(EntriesOf(d, m))
      BY FS_Subset DEF TreeOK, EntriesOf
    <3>3. /\ Cardinality(EntriesOf(d, m)) \in Nat
          /\ \/ Cardinality(EntriesOf(e, m)) = Cardinality(EntriesOf(d, m))
             \/ Cardinality(EntriesOf(e, m)) = Cardinality(EntriesOf(d, m)) + 1
      <4> DEFINE A == EntriesOf(d, m)
      <4>1. Cardinality(A) \in Nat
        BY <3>2, FS_CardinalityType
      <4> HIDE DEF A
      <4>2. \/ Cardinality(A \cup {<<dir, name, n>>}) = Cardinality(A)
            \/ Cardinality(A \cup {<<dir, name, n>>}) = Cardinality(A) + 1
        BY <3>2, FS_AddElement DEF A
      <4>3. QED
        BY <3>1, <4>1, <4>2 DEF A
    <3>4. d.inode[m].blocks * EntriesPerBlock \in Nat
      <4>1. d.inode[m].blocks \in Nat
        BY DEF Disk, InodeContents
      <4>2. QED
        BY <4>1, Monotone
    <3>5. QED
      BY <2>3, <3>3, <3>4 DEF FreeSlot
  <2>4. QED
    BY <2>2, <2>3
<1>4. QED
  BY <1>2, <1>3

\* A name is taken out.
LEMMA RemoveStep ==
    ASSUME NEW d \in Disk, NEW e \in Disk, TreeOK(d), CapacityOK(d),
           e.used = d.used, e.inode = d.inode, e.entries \subseteq d.entries
    PROVE  TreeOK(e) /\ CapacityOK(e)
<1>1. IsFiniteSet(e.entries) /\ Ranked(e.entries)
  BY FS_Subset, RankOfFewer DEF TreeOK
<1>2. TreeOK(e)
  BY <1>1 DEF TreeOK
<1>3. ASSUME NEW m \in Inode
      PROVE  Cardinality(EntriesOf(e, m)) <= e.inode[m].blocks * EntriesPerBlock
  <2>1. IsFiniteSet(EntriesOf(d, m)) /\ EntriesOf(e, m) \subseteq EntriesOf(d, m)
    BY FS_Subset DEF TreeOK, EntriesOf
  <2>2. /\ Cardinality(EntriesOf(e, m)) <= Cardinality(EntriesOf(d, m))
        /\ Cardinality(EntriesOf(e, m)) \in Nat /\ Cardinality(EntriesOf(d, m)) \in Nat
    BY <2>1, FS_Subset, FS_CardinalityType
  <2>3. d.inode[m].blocks * EntriesPerBlock \in Nat
    <3>1. d.inode[m].blocks \in Nat
      BY DEF Disk, InodeContents
    <3>2. QED
      BY <3>1, Monotone
  <2>4. QED
    BY <2>2, <2>3 DEF CapacityOK
<1>4. QED
  BY <1>2, <1>3 DEF CapacityOK
----------------------------------------------------------------------------
(* Paths.                                                                  *)

\* Resolution yields an inode or none, whatever it walks over.
LEMMA ResolvedIsInode ==
    \A path : /\ Resolve(path) \in Inode \cup {NoInode}
              /\ ResolveNoFollow(path) \in Inode \cup {NoInode}
              /\ Parent(path) \in Inode \cup {NoInode}
BY DEF Resolve, ResolveNoFollow, Parent, ResolveWithin

\* A name that is found is an entry, and a name that is not found is none.
LEMMA FindIsExact ==
    ASSUME NEW d \in Disk, TreeOK(d), NEW dir \in Inode, NEW name
    PROVE  /\ DirectoryFind(d, dir, name) # NoInode =>
                 /\ DirectoryFind(d, dir, name) \in Inode \ {Root}
                 /\ <<dir, name, DirectoryFind(d, dir, name)>> \in d.entries
                 /\ d.inode[dir].type = "dir"
           /\ DirectoryFind(d, dir, name) = NoInode /\ d.inode[dir].type = "dir" =>
                 \A e \in d.entries : ~ (e[1] = dir /\ e[2] = name)
<1> DEFINE found == {e \in EntriesOf(d, dir) : e[2] = name}
           e == CHOOSE x \in found : TRUE
<1>1. CASE d.inode[dir].type # "dir" \/ found = {}
  <2>1. DirectoryFind(d, dir, name) = NoInode
    BY <1>1 DEF DirectoryFind
  <2>2. found = {} => \A x \in d.entries : ~ (x[1] = dir /\ x[2] = name)
    BY DEF EntriesOf
  <2>3. QED
    BY <1>1, <2>1, <2>2
<1>2. CASE d.inode[dir].type = "dir" /\ found # {}
  <2>1. e \in found
    BY <1>2
  <2>2. e \in d.entries /\ e[1] = dir /\ e[2] = name
    BY <2>1 DEF EntriesOf
  <2>3. e = <<e[1], e[2], e[3]>> /\ e[3] \in Inode \ {Root}
    BY <2>2 DEF Disk, Entry
  <2>4. DirectoryFind(d, dir, name) = e[3]
    BY <1>2 DEF DirectoryFind
  <2>5. QED
    BY <1>2, <2>2, <2>3, <2>4, Inodes
<1>3. QED
  BY <1>1, <1>2

\* Where a new name can be made.
LEMMA VacantIsFree ==
    ASSUME DiskOK(disk), NEW path \in Paths, Vacant(path)
    PROVE  /\ Parent(path) \in Inode /\ disk.inode[Parent(path)].type = "dir"
           /\ \A e \in disk.entries : ~ (e[1] = Parent(path) /\ e[2] = Last(path))
           /\ Last(path) \in {Last(q) : q \in Paths}
BY ResolvedIsInode, FindIsExact DEF Vacant, Found, DiskOK

\* What is found under a path is an allocated inode, and its name is there.
LEMMA FoundIsThere ==
    ASSUME DiskOK(disk), NEW path, Found(path) # NoInode, disk.inode[Found(path)].type # "none"
    PROVE  /\ Found(path) \in disk.used \ {Root} /\ Found(path) \in Inode
           /\ Parent(path) \in Inode
           /\ <<Parent(path), Last(path), Found(path)>> \in disk.entries
<1>1. Parent(path) \in Inode /\ Found(path) = DirectoryFind(disk, Parent(path), Last(path))
  BY ResolvedIsInode DEF Found
<1>2. /\ Found(path) \in Inode \ {Root}
      /\ <<Parent(path), Last(path), Found(path)>> \in disk.entries
  BY <1>1, FindIsExact DEF DiskOK
<1>3. QED
  BY <1>1, <1>2 DEF DiskOK, TreeOK
----------------------------------------------------------------------------
(* Names added to directories, and inodes given back.                      *)

\* Disk e is disk d but for what it counts as free.
SameTree(d, e) ==
    e.used = d.used /\ e.entries = d.entries /\ e.inode = d.inode /\ e.torn = d.torn

\* The same inode but for its blocks.
SameNode(i, j) == /\ j.type = i.type /\ j.links = i.links /\ j.generation = i.generation
                  /\ j.target = i.target

\* Disk e is disk d with a name added, and a block of the directory perhaps.
Added(d, e, dir, name, n) ==
    /\ e.used = d.used /\ e.entries = d.entries \cup {<<dir, name, n>>} /\ e.torn = d.torn
    /\ \A m \in Inode \ {dir} : e.inode[m] = d.inode[m]
    /\ SameNode(d.inode[dir], e.inode[dir])
    /\ e.free + e.inode[dir].blocks = d.free + d.inode[dir].blocks

\* Adding an entry: every disk on the way is sound, and only the last has the entry.
LEMMA AddTrail ==
    ASSUME NEW d, DiskOK(d), NEW dir \in Inode, NEW name \in {Last(path) : path \in Paths},
           NEW n \in Inode \ {Root}, n # dir, EntriesOf(d, n) = {},
           d.inode[dir].type = "dir", HasRoom(d, dir), dir \in d.torn => FreeSlot(d, dir),
           \A e \in d.entries : ~ (e[1] = dir /\ e[2] = name)
    PROVE  LET trail == DirectoryAdd(d, dir, name, n) IN
           /\ trail \in Seq({e \in Disk : DiskOK(e) /\ (SameTree(d, e) \/ Added(d, e, dir, name, n))})
           /\ trail # <<>> /\ Added(d, Last(trail), dir, name, n)
<1> DEFINE entry == <<dir, name, n>>
           S == {e \in Disk : DiskOK(e) /\ (SameTree(d, e) \/ Added(d, e, dir, name, n))}
<1>1. d \in Disk /\ TreeOK(d) /\ CapacityOK(d) /\ SpaceOK(d) /\ entry \in Entry
  BY DEF DiskOK, Entry
<1>2. d.inode[dir] \in InodeContents /\ d.free \in Nat /\ d.inode[dir].blocks \in Nat
  BY <1>1 DEF Disk, InodeContents
<1>3. CASE FreeSlot(d, dir)
  <2> DEFINE e == [d EXCEPT !.entries = @ \cup {entry}]
  <2>1. /\ e \in Disk /\ e.entries = d.entries \cup {entry} /\ e.used = d.used
        /\ e.inode = d.inode /\ e.free = d.free /\ e.torn = d.torn
    BY <1>1 DEF Disk
  <2>2. DirectoryAdd(d, dir, name, n) = <<e>>
    BY <1>3 DEF DirectoryAdd
  <2> HIDE DEF e
  <2>3. TreeOK(e) /\ CapacityOK(e)
    BY <1>1, <1>3, <2>1, AddStep
  <2>4. SpaceOK(e)
    BY <1>1, <1>2, <2>1, SpaceStep
  <2>5. Added(d, e, dir, name, n)
    BY <1>2, <2>1 DEF Added, SameNode
  <2>6. e \in S
    BY <2>1, <2>3, <2>4, <2>5 DEF DiskOK
  <2>7. <<e>> \in Seq(S) /\ <<e>> # <<>> /\ Last(<<e>>) = e
    BY <2>6 DEF Last
  <2>8. QED
    BY <2>2, <2>5, <2>7
<1>4. CASE ~ FreeSlot(d, dir)
  <2> DEFINE taken == [d EXCEPT !.free = @ - 1]
             grown == [taken EXCEPT !.inode[dir].blocks = @ + 1]
             e == [taken EXCEPT !.inode[dir].blocks = @ + 1, !.entries = @ \cup {entry}]
  <2>1. d.free > 0
    BY <1>4 DEF HasRoom
  <2>2. /\ taken \in Disk /\ SameTree(d, taken) /\ taken.free = d.free - 1
    BY <1>1, <1>2, <2>1 DEF Disk, SameTree
  <2>0. /\ taken = [used |-> taken.used, free |-> taken.free, entries |-> taken.entries,
                    torn |-> taken.torn, inode |-> taken.inode]
        /\ taken.used = d.used /\ taken.entries = d.entries /\ taken.inode = d.inode
        /\ taken.torn = d.torn /\ d.torn \subseteq Inode
        /\ taken.free \in Nat /\ d.used \subseteq Inode /\ d.entries \subseteq Entry
        /\ d.inode \in [Inode -> InodeContents]
    BY <1>1, <2>2 DEF Disk, SameTree
  <2> DEFINE i == [d.inode[dir] EXCEPT !.blocks = @ + 1]
  <2>3. i \in InodeContents /\ SameNode(d.inode[dir], i) /\ i.blocks = d.inode[dir].blocks + 1
    BY <1>2 DEF InodeContents, SameNode
  <2>4. grown = [taken EXCEPT !.inode = [d.inode EXCEPT ![dir] = i]]
    BY <1>1 DEF Disk
  <2>5. e = [taken EXCEPT !.inode = [d.inode EXCEPT ![dir] = i],
                          !.entries = d.entries \cup {entry}]
    BY <1>1 DEF Disk
  <2>6. DirectoryAdd(d, dir, name, n) = <<taken, e>>
    BY <1>4 DEF DirectoryAdd
  <2> HIDE DEF taken, i
  <2>7. [d.inode EXCEPT ![dir] = i] \in [Inode -> InodeContents]
    BY <1>1, <2>3 DEF Disk
  <2>8. /\ grown \in Disk /\ grown.used = d.used /\ grown.entries = d.entries
        /\ grown.torn = d.torn
        /\ grown.inode[dir] = i /\ grown.free = d.free - 1
        /\ \A m \in Inode \ {dir} : grown.inode[m] = d.inode[m]
    BY <2>2, <2>4, <2>7, <2>0 DEF Disk
  <2>9. /\ e \in Disk /\ e.used = d.used /\ e.entries = d.entries \cup {entry}
        /\ e.inode = grown.inode /\ e.free = d.free - 1 /\ e.torn = d.torn
    BY <1>1, <2>2, <2>4, <2>5, <2>7, <2>0 DEF Disk
  <2> HIDE DEF grown, e
  <2>10. DiskOK(taken)
    <3>1. TreeOK(taken) /\ CapacityOK(taken)
      BY <1>1, <2>2 DEF SameTree, TreeOK, CapacityOK, EntriesOf
    <3>2. SpaceOK(taken)
      BY <1>1, <1>2, <2>2, SpaceStep DEF SameTree
    <3>3. QED
      BY <2>2, <3>1, <3>2 DEF DiskOK
  <2>11. TreeOK(grown) /\ CapacityOK(grown)
    <3>1. dir = Root => i.type = "dir"
      BY <2>3 DEF SameNode
    <3>2. dir \in d.used /\ d.inode[dir].links # 0
      BY <1>1 DEF TreeOK
    <3>3. i.type = "dir" /\ i.blocks >= d.inode[dir].blocks /\ i.links # 0
      BY <1>2, <2>3, <3>2 DEF SameNode
    <3>4. QED
      BY <1>1, <2>8, <3>1, <3>2, <3>3, InodeStep
  <2>12. FreeSlot(grown, dir)
    <3>1. EntriesOf(grown, dir) = EntriesOf(d, dir)
      BY <2>8 DEF EntriesOf
    <3>2. IsFiniteSet(EntriesOf(d, dir))
      BY <1>1, FS_Subset DEF TreeOK, EntriesOf
    <3>3. Cardinality(EntriesOf(d, dir)) \in Nat
      BY <3>2, FS_CardinalityType
    <3>4. Cardinality(EntriesOf(d, dir)) <= d.inode[dir].blocks * EntriesPerBlock
      BY <1>1 DEF CapacityOK
    <3>5. /\ (d.inode[dir].blocks + 1) * EntriesPerBlock
                >= d.inode[dir].blocks * EntriesPerBlock + 1
          /\ d.inode[dir].blocks * EntriesPerBlock \in Nat
          /\ (d.inode[dir].blocks + 1) * EntriesPerBlock \in Nat
      <4>1. d.inode[dir].blocks + 1 \in Nat
        BY <1>2
      <4>2. QED
        BY <1>2, <4>1, Monotone
    <3>6. grown.inode[dir].blocks = d.inode[dir].blocks + 1
      BY <2>3, <2>8
    <3>7. QED
      BY <3>1, <3>3, <3>4, <3>5, <3>6 DEF FreeSlot
  <2>13. TreeOK(e) /\ CapacityOK(e)
    <3>1. grown.inode[dir].type = "dir"
      BY <2>3, <2>8 DEF SameNode
    <3>2. /\ grown \in Disk /\ e \in Disk /\ e.used = grown.used /\ e.inode = grown.inode
          /\ e.entries = grown.entries \cup {<<dir, name, n>>}
          /\ \A x \in grown.entries : ~ (x[1] = dir /\ x[2] = name)
      BY <2>8, <2>9
    <3>3. EntriesOf(grown, n) = {}
      BY <2>8 DEF EntriesOf
    <3>4. QED
      BY <2>11, <2>12, <3>1, <3>2, <3>3, AddStep
  <2>14. /\ \A m \in Inode \ {dir} : e.inode[m] = d.inode[m]
         /\ e.inode[dir] = i /\ e.free + i.blocks = d.free + d.inode[dir].blocks
    BY <1>2, <2>3, <2>8, <2>9
  <2>15. SpaceOK(e)
    <3>1. e.free + e.inode[dir].blocks <= d.free + d.inode[dir].blocks
      BY <1>2, <2>14
    <3>2. dir \notin d.torn
      BY <1>4
    <3>3. QED
      BY <1>1, <2>9, <2>14, <3>1, <3>2, SpaceStep
  <2>16. Added(d, e, dir, name, n)
    BY <2>3, <2>9, <2>14 DEF Added
  <2>17. taken \in S /\ e \in S
    BY <2>2, <2>9, <2>10, <2>13, <2>15, <2>16 DEF DiskOK
  <2>18. <<taken, e>> \in Seq(S) /\ <<taken, e>> # <<>> /\ Last(<<taken, e>>) = e
    BY <2>17 DEF Last
  <2>19. QED
    BY <2>6, <2>16, <2>18
<1>5. QED
  BY <1>3, <1>4

\* Disk e is disk d with an inode on its way to be free.
Freed(d, e, n) ==
    /\ e.entries = d.entries /\ \A m \in Inode \ {n} : e.inode[m] = d.inode[m]
    /\ \/ e.used = d.used /\ SameNode(d.inode[n], e.inode[n])
       \/ e.used \in {d.used, d.used \ {n}} /\ e.inode[n] = Blank(d.inode[n].generation)

\* What a free inode contains.
LEMMA BlankIsContents ==
    ASSUME NEW g \in 0 .. MaxGeneration
    PROVE  /\ Blank(g) \in InodeContents
           /\ Blank(g).type = "none" /\ Blank(g).blocks = 0 /\ Blank(g).links = 0
           /\ Blank(g).generation = g
BY DEF Blank, InodeContents, Type

\* Disk e is disk d on the way of an inode to another number of blocks.
Resized(d, e, n) ==
    /\ e.used = d.used /\ e.entries = d.entries /\ SameNode(d.inode[n], e.inode[n])
    /\ \A m \in Inode \ {n} : e.inode[m] = d.inode[m]

\* While the bits of an inode's blocks are set or cleared: some may be free
\* already, or not yet its own.
LEMMA TornDisk ==
    ASSUME NEW d, DiskOK(d), NEW n \in Inode, NEW free \in Nat, free <= d.free + Sure(d, n)
    PROVE  LET e == [d EXCEPT !.free = free, !.torn = @ \cup {n}] IN
           e \in Disk /\ DiskOK(e) /\ Resized(d, e, n)
<1> DEFINE e == [d EXCEPT !.free = free, !.torn = @ \cup {n}]
<1>1. d \in Disk /\ TreeOK(d) /\ CapacityOK(d) /\ SpaceOK(d)
  BY DEF DiskOK
<1>2. /\ e \in Disk /\ e.used = d.used /\ e.entries = d.entries /\ e.inode = d.inode
      /\ e.free = free /\ e.torn = d.torn \cup {n}
  BY <1>1 DEF Disk
<1> HIDE DEF e
<1>3. TreeOK(e) /\ CapacityOK(e)
  BY <1>1, <1>2 DEF TreeOK, CapacityOK, EntriesOf
<1>4. SpaceOK(e)
  BY <1>1, <1>2, TearStep
<1>5. Resized(d, e, n)
  BY <1>2 DEF Resized, SameNode
<1>6. QED
  BY <1>2, <1>3, <1>4, <1>5 DEF DiskOK, e

\* When the inode is written.
LEMMA ResizedDisk ==
    ASSUME NEW d, DiskOK(d), NEW n \in Inode, NEW end \in Nat,
           end <= d.inode[n].blocks + d.free, n \in d.torn => end = d.inode[n].blocks,
           d.inode[n].type # "dir" \/ EntriesOf(d, n) = {} \/ end >= d.inode[n].blocks
    PROVE  LET e == [d EXCEPT !.free = @ + d.inode[n].blocks - end, !.inode[n].blocks = end] IN
           /\ e \in Disk /\ DiskOK(e) /\ Resized(d, e, n) /\ e.torn = d.torn
           /\ e.inode[n].blocks = end /\ e.free + end = d.free + d.inode[n].blocks
<1> DEFINE e == [d EXCEPT !.free = @ + d.inode[n].blocks - end, !.inode[n].blocks = end]
           i == [d.inode[n] EXCEPT !.blocks = end]
           free == d.free + d.inode[n].blocks - end
<1>1. /\ d \in Disk /\ TreeOK(d) /\ CapacityOK(d) /\ SpaceOK(d)
  BY DEF DiskOK
<1>2. /\ d.inode \in [Inode -> InodeContents] /\ d.inode[n] \in InodeContents
      /\ d.free \in Nat /\ d.inode[n].blocks \in Nat /\ d.used \subseteq Inode
      /\ d.entries \subseteq Entry /\ d.torn \subseteq Inode
  BY <1>1 DEF Disk, InodeContents
<1>3. i \in InodeContents /\ i.blocks = end /\ SameNode(d.inode[n], i)
  BY <1>2 DEF InodeContents, SameNode
<1>4. free \in Nat /\ free + end = d.free + d.inode[n].blocks
  BY <1>2
<1>5. e = [used |-> d.used, free |-> free, entries |-> d.entries, torn |-> d.torn,
           inode |-> [d.inode EXCEPT ![n] = i]]
  <2>1. d = [used |-> d.used, free |-> d.free, entries |-> d.entries, torn |-> d.torn,
             inode |-> d.inode]
    BY <1>1 DEF Disk
  <2>2. e = [d EXCEPT !.free = free, !.inode = [d.inode EXCEPT ![n] = i]]
    BY <1>1 DEF Disk
  <2> HIDE DEF e, i, free
  <2>3. QED
    BY <2>1, <2>2
<1> HIDE DEF e, i, free
<1>6. [d.inode EXCEPT ![n] = i] \in [Inode -> InodeContents]
  BY <1>2, <1>3
<1>7. /\ e \in Disk /\ e.used = d.used /\ e.entries = d.entries /\ e.free = free
      /\ e.torn = d.torn /\ e.inode = [d.inode EXCEPT ![n] = i]
  BY <1>2, <1>4, <1>5, <1>6 DEF Disk
<1>8. e.inode[n] = i /\ \A m \in Inode \ {n} : e.inode[m] = d.inode[m]
  BY <1>2, <1>7
<1>9. TreeOK(e) /\ CapacityOK(e)
  <2>1. /\ n = Root => e.inode[n].type = "dir"
        /\ n \notin d.used => e.inode[n].type = "none"
        /\ e.inode[n].type # "none" => e.inode[n].links # 0
    BY <1>1, <1>3, <1>8 DEF TreeOK, SameNode
  <2>2. \/ EntriesOf(d, n) = {}
        \/ e.inode[n].type = "dir" /\ e.inode[n].blocks >= d.inode[n].blocks
    BY <1>1, <1>3, <1>8, EmptyUnlessDirectory DEF SameNode
  <2>3. QED
    BY <1>1, <1>7, <1>8, <2>1, <2>2, InodeStep
<1>10. SpaceOK(e)
  <2>1. e.free + e.inode[n].blocks <= d.free + d.inode[n].blocks
    BY <1>2, <1>3, <1>4, <1>7, <1>8
  <2>2. n \in d.torn => e.inode[n].blocks = d.inode[n].blocks
    BY <1>3, <1>8
  <2>3. QED
    BY <1>1, <1>7, <1>8, <2>1, <2>2, SpaceStep
<1>11. Resized(d, e, n)
  BY <1>3, <1>7, <1>8 DEF Resized
<1>12. QED
  BY <1>3, <1>4, <1>7, <1>8, <1>9, <1>10, <1>11 DEF DiskOK, e

\* Disks on the way and one that ends it.
LEMMA Continued ==
    ASSUME NEW S, NEW s \in Seq(S), NEW e \in S
    PROVE  s \o <<e>> \in Seq(S) /\ s \o <<e>> # <<>> /\ Last(s \o <<e>>) = e
<1>1. <<e>> \in Seq(S) /\ <<e>> # <<>> /\ Last(<<e>>) = e
  BY DEF Last
<1>2. QED
  BY <1>1, LastOfBoth

\* Resizing: every disk on the way is sound, and the last has all blocks it
\* started with, free or the inode's.
LEMMA ResizingTrail ==
    ASSUME NEW d, DiskOK(d), NEW n \in Inode, NEW end \in Nat,
           n \in d.torn => \/ end = d.inode[n].blocks
                           \/ end > d.inode[n].blocks + d.free,
           d.inode[n].type # "dir" \/ EntriesOf(d, n) = {} \/ end >= d.inode[n].blocks
    PROVE  LET trail == Resizing(d, n, end) IN
           /\ trail \in Seq({e \in Disk : DiskOK(e) /\ Resized(d, e, n)}) /\ trail # <<>>
           /\ Last(trail).torn = d.torn
           /\ Last(trail).free + Last(trail).inode[n].blocks = d.free + d.inode[n].blocks
           /\ end <= d.inode[n].blocks + d.free => Last(trail).inode[n].blocks = end
<1> DEFINE S == {e \in Disk : DiskOK(e) /\ Resized(d, e, n)}
           have == d.inode[n].blocks
           done == [d EXCEPT !.free = @ + have - end, !.inode[n].blocks = end]
           Torn(free) == [d EXCEPT !.free = free, !.torn = @ \cup {n}]
           trail == Resizing(d, n, end)
<1>1. d \in Disk /\ d.free \in Nat /\ have \in Nat /\ Sure(d, n) \in Nat
  BY SureIsCount DEF DiskOK, Disk, InodeContents
<1>2. ASSUME NEW free \in Nat, free <= d.free + Sure(d, n) PROVE Torn(free) \in S
  BY <1>2, TornDisk
<1>3. ASSUME end <= have + d.free
      PROVE  /\ done \in S /\ done.torn = d.torn /\ done.inode[n].blocks = end
             /\ done.free + end = d.free + have
  <2>1. n \in d.torn => end = d.inode[n].blocks
    BY <1>1, <1>3
  <2>2. end <= d.inode[n].blocks + d.free
    BY <1>3
  <2> HIDE DEF S
  <2>3. /\ done \in Disk /\ DiskOK(done) /\ Resized(d, done, n) /\ done.torn = d.torn
        /\ done.inode[n].blocks = end /\ done.free + end = d.free + d.inode[n].blocks
    BY <2>1, <2>2, ResizedDisk
  <2> HIDE DEF done
  <2>4. QED
    BY <2>3 DEF S
<1>4. d \in S
  BY <1>1 DEF Resized, SameNode
<1> HIDE DEF S, done, Torn
<1>5. CASE end <= have
  <2> DEFINE s == [i \in 1 .. have - end |-> Torn(d.free + i)]
  <2>1. ASSUME NEW i \in 1 .. have - end PROVE Torn(d.free + i) \in S
    <3>1. n \notin d.torn
      BY <1>1, <1>5, <2>1
    <3>2. Sure(d, n) = have
      BY <3>1 DEF Sure
    <3>3. d.free + i \in Nat /\ d.free + i <= d.free + have
      BY <1>1, <1>5
    <3>4. QED
      BY <1>2, <3>2, <3>3
  <2>2. have - end \in Nat
    BY <1>1, <1>5
  <2>3. s \in Seq(S)
    BY <2>1, <2>2
  <2>4. done \in S /\ done.torn = d.torn /\ done.inode[n].blocks = end /\ done.free + end = d.free + have
    BY <1>1, <1>3, <1>5
  <2>5. trail = s \o <<done>>
    BY <1>5 DEF Resizing, done, Torn
  <2> HIDE DEF s, have, trail
  <2>6. trail \in Seq(S) /\ trail # <<>> /\ Last(trail) = done
    BY <2>3, <2>4, <2>5, Continued
  <2>7. QED
    BY <2>4, <2>6 DEF S, trail, have
<1>6. CASE end > have /\ end <= have + d.free
  <2> DEFINE s == [i \in 1 .. end - have |-> Torn(d.free - i)]
  <2>1. ASSUME NEW i \in 1 .. end - have PROVE Torn(d.free - i) \in S
    <3>1. d.free - i \in Nat /\ d.free - i <= d.free + Sure(d, n)
      BY <1>1, <1>6
    <3>2. QED
      BY <1>2, <3>1
  <2>2. end - have \in Nat
    BY <1>1, <1>6
  <2>3. s \in Seq(S)
    BY <2>1, <2>2
  <2>4. done \in S /\ done.torn = d.torn /\ done.inode[n].blocks = end /\ done.free + end = d.free + have
    BY <1>3, <1>6
  <2>5. ~ (end <= have)
    BY <1>1, <1>6
  <2>6. trail = s \o <<done>>
    BY <1>6, <2>5 DEF Resizing, done, Torn
  <2> HIDE DEF s, have, trail
  <2>7. trail \in Seq(S) /\ trail # <<>> /\ Last(trail) = done
    BY <2>3, <2>4, <2>6, Continued
  <2>8. QED
    BY <2>4, <2>7 DEF S, trail, have
<1>7. CASE ~ (end <= have + d.free)
  <2> DEFINE s == [i \in 1 .. d.free |-> Torn(d.free - i)]
  <2>1. ASSUME NEW i \in 1 .. d.free PROVE Torn(d.free - i) \in S
    <3>1. d.free - i \in Nat /\ d.free - i <= d.free + Sure(d, n)
      BY <1>1
    <3>2. QED
      BY <1>2, <3>1
  <2>2. s \in Seq(S)
    BY <1>1, <2>1
  <2>3. ~ (end <= have)
    BY <1>1, <1>7
  <2>4. trail = s \o <<d>>
    BY <1>7, <2>3 DEF Resizing, Torn
  <2> HIDE DEF s, have, trail
  <2>5. trail \in Seq(S) /\ trail # <<>> /\ Last(trail) = d
    BY <1>4, <2>2, <2>4, Continued
  <2>6. QED
    BY <1>7, <2>5 DEF S, trail, have
<1>8. QED
  BY <1>1, <1>5, <1>6, <1>7

\* A trail of sound disks ends with the inode free and its blocks given back.
EndsFree(d, n, trail) ==
    /\ trail \in Seq({e \in Disk : DiskOK(e) /\ Freed(d, e, n)}) /\ trail # <<>>
    /\ Last(trail).used = d.used \ {n} /\ Last(trail).entries = d.entries
    /\ Last(trail).free = d.free + d.inode[n].blocks /\ Last(trail).torn = d.torn \ {n}
    /\ \A m \in Inode : Last(trail).inode[m] =
          IF m = n THEN Blank(d.inode[n].generation) ELSE d.inode[m]

\* Freeing an inode: every disk on the way is sound, and the last has its blocks
\* back.  The blocks of a torn inode are another matter.
LEMMA FreeTrail ==
    ASSUME NEW d, DiskOK(d), NEW n \in d.used \ {Root}, EntriesOf(d, n) = {},
           n \in d.torn => d.inode[n].blocks = 0
    PROVE  EndsFree(d, n, FreeInode(d, n))
<1> DEFINE S == {e \in Disk : DiskOK(e) /\ Freed(d, e, n)}
           g == d.inode[n].generation
           emptying == Resizing(d, n, 0)
           emptied == Last(emptying)
           blank == [emptied EXCEPT !.inode[n] = Blank(g), !.torn = @ \ {n}]
           e == [blank EXCEPT !.used = @ \ {n}]
<1>1. d \in Disk /\ TreeOK(d) /\ CapacityOK(d) /\ SpaceOK(d) /\ n \in Inode
  BY DEF DiskOK, Disk
<1>2. /\ d.inode \in [Inode -> InodeContents] /\ d.inode[n] \in InodeContents
      /\ d.free \in Nat /\ d.inode[n].blocks \in Nat /\ g \in 0 .. MaxGeneration
      /\ d.used \subseteq Inode /\ d.entries \subseteq Entry
  BY <1>1 DEF Disk, InodeContents
<1>3. /\ emptying \in Seq({x \in Disk : DiskOK(x) /\ Resized(d, x, n)}) /\ emptying # <<>>
      /\ emptied.torn = d.torn /\ emptied.inode[n].blocks = 0
      /\ emptied.free + emptied.inode[n].blocks = d.free + d.inode[n].blocks
  <2>1. 0 \in Nat /\ 0 <= d.inode[n].blocks + d.free
    BY <1>2
  <2> HIDE DEF emptying
  <2>2. /\ emptying \in Seq({x \in Disk : DiskOK(x) /\ Resized(d, x, n)}) /\ emptying # <<>>
        /\ Last(emptying).torn = d.torn
        /\ Last(emptying).free + Last(emptying).inode[n].blocks = d.free + d.inode[n].blocks
        /\ 0 <= d.inode[n].blocks + d.free => Last(emptying).inode[n].blocks = 0
    BY <1>1, <2>1, ResizingTrail DEF emptying
  <2>3. QED
    BY <2>1, <2>2
<1>4. FreeInode(d, n) = emptying \o <<blank, e>>
  BY DEF FreeInode
<1> HIDE DEF emptying
<1>5. /\ emptied \in Disk /\ DiskOK(emptied) /\ emptied.used = d.used
      /\ emptied.entries = d.entries /\ emptied.free = d.free + d.inode[n].blocks
      /\ \A m \in Inode \ {n} : emptied.inode[m] = d.inode[m]
  <2>1. emptied \in {x \in Disk : DiskOK(x) /\ Resized(d, x, n)}
    BY <1>3, LastIn
  <2>2. emptied.free \in Nat
    BY <2>1 DEF Disk
  <2>3. QED
    BY <1>2, <1>3, <2>1, <2>2 DEF Resized
<1> HIDE DEF emptied
<1>6. Blank(g) \in InodeContents /\ Blank(g).type = "none" /\ Blank(g).blocks = 0
  BY <1>2, BlankIsContents
<1>7. /\ blank \in Disk /\ blank.used = d.used /\ blank.entries = d.entries
      /\ blank.inode = [emptied.inode EXCEPT ![n] = Blank(g)]
      /\ blank.free = d.free + d.inode[n].blocks /\ blank.torn = d.torn \ {n}
  <2>1. [emptied.inode EXCEPT ![n] = Blank(g)] \in [Inode -> InodeContents]
    BY <1>1, <1>5, <1>6 DEF Disk
  <2> DEFINE inode == [emptied.inode EXCEPT ![n] = Blank(g)]
             torn == d.torn \ {n}
  <2>2. blank = [emptied EXCEPT !.inode = inode, !.torn = torn]
    BY <1>3, <1>5 DEF Disk
  <2>3. torn \subseteq Inode
    BY <1>1 DEF Disk
  <2> HIDE DEF g, blank, inode, torn
  <2>4. /\ blank \in Disk /\ blank.used = emptied.used /\ blank.entries = emptied.entries
        /\ blank.inode = inode /\ blank.free = emptied.free /\ blank.torn = torn
    BY <1>5, <2>1, <2>2, <2>3 DEF Disk, inode
  <2>5. QED
    BY <1>5, <2>4 DEF inode, torn
<1> HIDE DEF blank
<1>8. /\ e \in Disk /\ e.used = d.used \ {n} /\ e.entries = d.entries
      /\ e.inode = blank.inode /\ e.free = blank.free /\ e.torn = blank.torn
  BY <1>2, <1>7 DEF Disk
<1> HIDE DEF e, g
<1>9. blank.inode[n] = Blank(g) /\ \A m \in Inode \ {n} : blank.inode[m] = d.inode[m]
  BY <1>1, <1>5, <1>7 DEF Disk
<1>10. TreeOK(blank) /\ CapacityOK(blank)
  BY <1>1, <1>6, <1>7, <1>9, InodeStep
<1>11. TreeOK(e) /\ CapacityOK(e)
  <2>1. e.entries = blank.entries /\ e.used = blank.used \ {n} /\ blank.inode[n].type = "none"
    BY <1>6, <1>7, <1>8, <1>9
  <2>2. QED
    BY <1>1, <1>7, <1>8, <1>10, <2>1, BitStep
<1>12. SpaceOK(blank)
  <2>1. SpaceOK(emptied)
    BY <1>5 DEF DiskOK
  <2>2. \A m \in Inode \ {n} : blank.inode[m] = emptied.inode[m]
    BY <1>5, <1>9
  <2>3. /\ blank.inode[n].blocks = 0 /\ blank.torn = emptied.torn \ {n}
        /\ blank.free = emptied.free /\ emptied.free \in Nat
    BY <1>3, <1>5, <1>6, <1>7, <1>9 DEF Disk
  <2>4. blank.free <= emptied.free /\ emptied \in Disk /\ blank \in Disk /\ n \in Inode
    BY <1>1, <1>5, <1>7, <2>3
  <2>5. QED
    BY <2>1, <2>2, <2>3, <2>4, BlankStep
<1>13. SpaceOK(e)
  BY <1>8, <1>12 DEF SpaceOK, Held, Sure
<1>14. Freed(d, blank, n) /\ Freed(d, e, n)
  BY <1>7, <1>8, <1>9 DEF Freed, g
<1>15. blank \in S /\ e \in S
  BY <1>7, <1>8, <1>10, <1>11, <1>12, <1>13, <1>14 DEF DiskOK
<1>16. {x \in Disk : DiskOK(x) /\ Resized(d, x, n)} \subseteq S
  BY DEF Resized, Freed
<1> HIDE DEF S
<1>17. emptying \in Seq(S)
  BY <1>3, <1>16, SeqWithin
<1>18. <<blank, e>> \in Seq(S) /\ <<blank, e>> # <<>> /\ Last(<<blank, e>>) = e
  BY <1>15 DEF Last
<1>19. /\ FreeInode(d, n) \in Seq(S) /\ FreeInode(d, n) # <<>>
       /\ Last(FreeInode(d, n)) = e
  <2> DEFINE rest == <<blank, e>>
  <2>1. rest \in Seq(S) /\ rest # <<>> /\ Last(rest) = e /\ FreeInode(d, n) = emptying \o rest
    BY <1>4, <1>18
  <2> HIDE DEF rest
  <2>2. QED
    BY <1>17, <2>1, LastOfBoth
<1>20. \A m \in Inode : e.inode[m] = IF m = n THEN Blank(g) ELSE d.inode[m]
  BY <1>8, <1>9
<1>21. QED
  BY <1>7, <1>8, <1>19, <1>20 DEF EndsFree, S, g

\* One inode other than the root is written, with blocks taken or given back.
LEMMA WriteOK ==
    ASSUME NEW d, DiskOK(d), NEW e \in Disk, NEW n \in Inode \ {Root},
           e.used = d.used, e.entries = d.entries,
           \A m \in Inode \ {n} : e.inode[m] = d.inode[m],
           n \notin d.used => e.inode[n].type = "none",
           e.inode[n].type # "none" => e.inode[n].links # 0,
           \/ EntriesOf(d, n) = {}
           \/ e.inode[n].type = "dir" /\ e.inode[n].blocks >= d.inode[n].blocks,
           e.torn = d.torn, n \in d.torn => e.inode[n].blocks = d.inode[n].blocks,
           e.free + e.inode[n].blocks <= d.free + d.inode[n].blocks
    PROVE  DiskOK(e)
<1>1. d \in Disk /\ TreeOK(d) /\ CapacityOK(d) /\ SpaceOK(d) /\ n \in Inode /\ n # Root
  BY DEF DiskOK
<1>2. TreeOK(e) /\ CapacityOK(e)
  BY <1>1, InodeStep
<1>3. SpaceOK(e)
  BY <1>1, SpaceStep
<1>4. QED
  BY <1>2, <1>3 DEF DiskOK
----------------------------------------------------------------------------
(* Names and links.                                                        *)

\* An inode has as many links as names at least, and a directory one.
NamesOK(d) ==
    \A n \in Inode : /\ n \notin d.used => NamesOf(d, n) = {}
                     /\ Cardinality(NamesOf(d, n)) <= d.inode[n].links
                     /\ d.inode[n].type = "dir" => d.inode[n].links = 1

\* And not more, while it is allocated; and then it is something.
LinksOK(d) == \A n \in d.used \ {Root} : /\ d.inode[n].type # "none"
                                         /\ d.inode[n].links = Cardinality(NamesOf(d, n))

\* An inode's names can be counted.
LEMMA NamesAreFinite ==
    ASSUME NEW d, IsFiniteSet(d.entries), NEW n
    PROVE  IsFiniteSet(NamesOf(d, n)) /\ Cardinality(NamesOf(d, n)) \in Nat
<1>1. NamesOf(d, n) \subseteq d.entries
  BY DEF NamesOf
<1>2. QED
  BY <1>1, FS_Subset, FS_CardinalityType

\* An inode without names is written, marked or given back.
LEMMA NamelessStep ==
    ASSUME NEW d \in Disk, NEW e \in Disk, NamesOK(d), NEW n \in Inode,
           e.entries = d.entries, NamesOf(d, n) = {},
           e.inode[n].type = "dir" => e.inode[n].links = 1,
           \A m \in Inode \ {n} : SameNode(d.inode[m], e.inode[m]) /\ (m \in d.used => m \in e.used)
    PROVE  NamesOK(e)
<1>1. SUFFICES ASSUME NEW m \in Inode
               PROVE  /\ m \notin e.used => NamesOf(e, m) = {}
                      /\ Cardinality(NamesOf(e, m)) <= e.inode[m].links
                      /\ e.inode[m].type = "dir" => e.inode[m].links = 1
  BY DEF NamesOK
<1>2. NamesOf(e, m) = NamesOf(d, m)
  BY DEF NamesOf
<1>3. CASE m = n
  <2>1. Cardinality(NamesOf(e, m)) = 0
    BY <1>2, <1>3, FS_EmptySet
  <2>2. e.inode[m].links \in Nat
    BY DEF Disk, InodeContents
  <2>3. QED
    BY <1>2, <1>3, <2>1, <2>2
<1>4. CASE m # n
  BY <1>2, <1>4 DEF NamesOK, SameNode
<1>5. QED
  BY <1>3, <1>4

\* What one entry more or less does to the names of its inode and of others.
LEMMA NamesWith ==
    ASSUME NEW d, NEW e, IsFiniteSet(d.entries), NEW dir, NEW name, NEW n,
           e.entries = d.entries \cup {<<dir, name, n>>}, <<dir, name, n>> \notin d.entries
    PROVE  /\ Cardinality(NamesOf(e, n)) = Cardinality(NamesOf(d, n)) + 1
           /\ \A m : m # n => NamesOf(e, m) = NamesOf(d, m)
<1>1. /\ NamesOf(e, n) = NamesOf(d, n) \cup {<<dir, name, n>>}
      /\ <<dir, name, n>> \notin NamesOf(d, n)
  BY DEF NamesOf
<1>2. IsFiniteSet(NamesOf(d, n))
  BY NamesAreFinite
<1>3. Cardinality(NamesOf(e, n)) = Cardinality(NamesOf(d, n)) + 1
  BY <1>1, <1>2, FS_AddElement
<1>4. \A m : m # n => NamesOf(e, m) = NamesOf(d, m)
  BY DEF NamesOf
<1>5. QED
  BY <1>3, <1>4

\* Without one of its names an inode has one less, and others have what they had.
LEMMA NamesWithout ==
    ASSUME NEW d, NEW e, IsFiniteSet(d.entries), NEW dir, NEW name, NEW n,
           e.entries = d.entries \ {<<dir, name, n>>}, <<dir, name, n>> \in d.entries
    PROVE  /\ Cardinality(NamesOf(e, n)) = Cardinality(NamesOf(d, n)) - 1
           /\ \A m : m # n => NamesOf(e, m) = NamesOf(d, m)
<1>1. /\ NamesOf(e, n) = NamesOf(d, n) \ {<<dir, name, n>>}
      /\ <<dir, name, n>> \in NamesOf(d, n)
  BY DEF NamesOf
<1>2. IsFiniteSet(NamesOf(d, n))
  BY NamesAreFinite
<1>3. Cardinality(NamesOf(e, n)) = Cardinality(NamesOf(d, n)) - 1
  BY <1>1, <1>2, FS_RemoveElement
<1>4. \A m : m # n => NamesOf(e, m) = NamesOf(d, m)
  BY DEF NamesOf
<1>5. QED
  BY <1>3, <1>4
----------------------------------------------------------------------------
(* What an operation may leave of the disk it started from.                *)

\* Generations do not go down.
NotOlder(b, d) == \A n \in Inode : b.inode[n].generation <= d.inode[n].generation

\* Wherever it stops.
Left(b) == {d \in Disk : DiskOK(d) /\ NotOlder(b, d) /\ (NamesOK(b) => NamesOK(d))}

\* All blocks are free or an allocated inode's.
FullOK(d) == /\ d.free + Cardinality(Held(d)) = DataBlocks /\ d.torn = {}
             /\ \A n \in Inode : n \notin d.used => d.inode[n].blocks = 0

\* An inode that is taken is new; an operation that changes no name changes no
\* inode; names are counted and blocks accounted for.
Fresh(b, d) == \A n \in d.used \ b.used : b.inode[n].generation < d.inode[n].generation
Invisible(b, d) ==
    d.entries = b.entries =>
        /\ d.used = b.used
        /\ \A n \in b.used : d.inode[n].type = b.inode[n].type /\ d.inode[n].links = b.inode[n].links
Linked(b, d) == NamesOK(b) /\ LinksOK(b) => NamesOK(d) /\ LinksOK(d)
Balanced(b, d) == FullOK(b) => FullOK(d)

\* When it ends.
Ended(b, d) == Fresh(b, d) /\ Invisible(b, d) /\ Linked(b, d) /\ Balanced(b, d)

\* The occupants of inodes in S stay what they are.
Stays(b, d, S) ==
    \A n \in S : n \in d.used /\ d.inode[n].type = b.inode[n].type
                 /\ d.inode[n].generation = b.inode[n].generation

\* A change of one inode's blocks keeps the account if the free blocks change with it.
LEMMA FullStep ==
    ASSUME NEW d \in Disk, NEW e \in Disk, NEW n \in Inode, SpaceOK(d), FullOK(d),
           \A m \in Inode \ {n} : e.inode[m] = d.inode[m] /\ (m \in d.used => m \in e.used),
           n \notin e.used => e.inode[n].blocks = 0, e.torn \subseteq d.torn,
           e.free + e.inode[n].blocks = d.free + d.inode[n].blocks
    PROVE  FullOK(e)
<1>0. /\ d.torn = {} /\ e.torn = {} /\ \A m \in Inode \ {n} : Sure(e, m) = Sure(d, m)
      /\ Sure(d, n) = d.inode[n].blocks /\ Sure(e, n) = e.inode[n].blocks
  BY DEF FullOK, Sure
<1>1. /\ Cardinality(Held(d)) \in Nat /\ Cardinality(Held(e)) \in Nat
      /\ Cardinality(Held(e)) + d.inode[n].blocks = Cardinality(Held(d)) + e.inode[n].blocks
  BY <1>0, HeldChange DEF SpaceOK
<1>2. /\ d.free \in Nat /\ e.free \in Nat /\ d.inode[n].blocks \in Nat
      /\ e.inode[n].blocks \in Nat
  BY DEF Disk, InodeContents
<1>3. e.free + Cardinality(Held(e)) = DataBlocks
  BY <1>1, <1>2, Numbers DEF FullOK
<1>4. \A m \in Inode : m \notin e.used => e.inode[m].blocks = 0
  BY DEF FullOK
<1>5. QED
  BY <1>0, <1>3, <1>4 DEF FullOK
----------------------------------------------------------------------------
(* Making an inode and its name.                                           *)

\* An inode without names on its way to be free leaves the others alone.
LEMMA FreedIsLeft ==
    ASSUME NEW b \in Disk, NEW d \in Left(b), NEW e \in Disk, DiskOK(e), NEW n \in Inode,
           Freed(d, e, n), NamesOK(b) => NamesOf(d, n) = {}
    PROVE  e \in Left(b)
<1>1. d \in Disk /\ NotOlder(b, d) /\ (NamesOK(b) => NamesOK(d))
  BY DEF Left
<1>2. d.inode \in [Inode -> InodeContents] /\ d.inode[n].generation \in 0 .. MaxGeneration
  BY <1>1 DEF Disk, InodeContents
<1>3. /\ Blank(d.inode[n].generation).generation = d.inode[n].generation
      /\ Blank(d.inode[n].generation).type = "none"
  BY <1>2, BlankIsContents
<1>4. e.inode[n].generation = d.inode[n].generation
  BY <1>3 DEF Freed, SameNode
<1>5. NotOlder(b, e)
  BY <1>1, <1>4 DEF NotOlder, Freed
<1>6. ASSUME NamesOK(b) PROVE NamesOK(e)
  <2>1. e.inode[n].type = "dir" => e.inode[n].links = 1
    BY <1>1, <1>3, <1>6 DEF Freed, SameNode, NamesOK
  <2>2. \A m \in Inode \ {n} : SameNode(d.inode[m], e.inode[m]) /\ (m \in d.used => m \in e.used)
    BY DEF Freed, SameNode
  <2>3. e.entries = d.entries
    BY DEF Freed
  <2>4. QED
    BY <1>1, <1>6, <2>1, <2>2, <2>3, NamelessStep
<1>7. QED
  BY <1>5, <1>6 DEF Left

\* A name added to an inode that may have one more.
LEMMA AddedIsLeft ==
    ASSUME NEW b \in Disk, NEW d \in Left(b), NEW e \in Disk, DiskOK(e),
           NEW dir \in Inode, NEW name, NEW n \in Inode,
           \/ SameTree(d, e)
           \/ /\ Added(d, e, dir, name, n) /\ <<dir, name, n>> \notin d.entries
              /\ n \in d.used
              /\ NamesOK(b) => Cardinality(NamesOf(d, n)) + 1 <= d.inode[n].links
    PROVE  e \in Left(b)
<1>1. /\ d \in Disk /\ NotOlder(b, d) /\ (NamesOK(b) => NamesOK(d)) /\ IsFiniteSet(d.entries)
  BY DEF Left, DiskOK, TreeOK
<1>2. \A m \in Inode : SameNode(d.inode[m], e.inode[m])
  BY DEF Added, SameTree, SameNode
<1>3. NotOlder(b, e)
  BY <1>1, <1>2 DEF NotOlder, SameNode
<1>4. ASSUME NamesOK(b) PROVE NamesOK(e)
  <2>1. CASE SameTree(d, e)
    BY <1>1, <1>4, <2>1 DEF SameTree, NamesOK, NamesOf
  <2>2. CASE ~ SameTree(d, e)
    <3>1. /\ Cardinality(NamesOf(e, n)) = Cardinality(NamesOf(d, n)) + 1
          /\ \A m : m # n => NamesOf(e, m) = NamesOf(d, m)
      BY <1>1, <2>2, NamesWith DEF Added
    <3>2. e.used = d.used /\ n \in e.used
      BY <2>2 DEF Added
    <3>3. SUFFICES ASSUME NEW m \in Inode
                   PROVE  /\ m \notin e.used => NamesOf(e, m) = {}
                          /\ Cardinality(NamesOf(e, m)) <= e.inode[m].links
                          /\ e.inode[m].type = "dir" => e.inode[m].links = 1
      BY DEF NamesOK
    <3>4. SameNode(d.inode[m], e.inode[m])
      BY <1>2
    <3>5. CASE m = n
      BY <1>1, <1>4, <2>2, <3>1, <3>2, <3>4, <3>5 DEF SameNode, NamesOK
    <3>6. CASE m # n
      BY <1>1, <1>4, <3>1, <3>2, <3>4, <3>6 DEF SameNode, NamesOK
    <3>7. QED
      BY <3>5, <3>6
  <2>3. QED
    BY <2>1, <2>2
<1>5. QED
  BY <1>3, <1>4 DEF Left

\* What creat, mkdir and symlink may make.
LEMMA NodeIsContents ==
    ASSUME NEW type \in {"file", "dir", "symlink"}, NEW g \in 0 .. MaxGeneration,
           NEW target \in {NoTarget} \cup Targets
    PROVE  /\ Node(type, g, target) \in InodeContents
           /\ Node(type, g, target).type = type /\ Node(type, g, target).links = 1
           /\ Node(type, g, target).generation = g
           /\ Node(type, g, target).blocks = IF type = "symlink" THEN 1 ELSE 0
BY DEF Node, InodeContents, Type

\* The disk an operation starts from is one it may leave.
LEMMA StartIsLeft == DiskOK(disk) => disk \in Left(disk)
<1>1. ASSUME disk \in Disk PROVE NotOlder(disk, disk)
  <2>1. \A n \in Inode : disk.inode[n].generation \in Nat
    BY <1>1 DEF Disk, InodeContents
  <2>2. QED
    BY <2>1 DEF NotOlder
<1>2. QED
  BY <1>1 DEF Left, DiskOK

\* What gives back the inode it took leaves nothing but a generation.
LEMMA FailedEnds ==
    ASSUME DiskOK(disk), NEW e \in Disk, NEW n \in Inode \ disk.used,
           e.used = disk.used, e.entries = disk.entries, e.free = disk.free,
           e.torn \subseteq disk.torn, NEW g \in 0 .. MaxGeneration,
           \A m \in Inode : e.inode[m] = IF m = n THEN Blank(g) ELSE disk.inode[m]
    PROVE  Ended(disk, e) /\ Stays(disk, e, disk.used)
<1>1. disk \in Disk /\ TreeOK(disk) /\ SpaceOK(disk) /\ disk.used \subseteq Inode
  BY DEF DiskOK, Disk
<1>2. /\ e.inode[n] = Blank(g) /\ \A m \in Inode \ {n} : e.inode[m] = disk.inode[m]
      /\ \A m \in disk.used : e.inode[m] = disk.inode[m]
  BY <1>1
<1>3. Blank(g).type = "none" /\ Blank(g).blocks = 0
  BY BlankIsContents
<1>4. Fresh(disk, e)
  BY DEF Fresh
<1>5. Invisible(disk, e) /\ Stays(disk, e, disk.used)
  BY <1>2 DEF Invisible, Stays
<1>6. Linked(disk, e)
  <2>1. SUFFICES ASSUME NamesOK(disk), LinksOK(disk) PROVE NamesOK(e) /\ LinksOK(e)
    BY DEF Linked
  <2>2. NamesOf(disk, n) = {}
    BY <2>1 DEF NamesOK
  <2>3. NamesOK(e)
    BY <1>1, <1>2, <1>3, <2>1, <2>2, NamelessStep DEF SameNode
  <2>4. LinksOK(e)
    BY <1>2, <2>1 DEF LinksOK, NamesOf
  <2>5. QED
    BY <2>3, <2>4
<1>7. Balanced(disk, e)
  <2>1. SUFFICES ASSUME FullOK(disk) PROVE FullOK(e)
    BY DEF Balanced
  <2>2. disk.inode[n].blocks = 0 /\ disk.free \in Nat
    BY <1>1, <2>1 DEF FullOK, Disk
  <2>3. e.free + e.inode[n].blocks = disk.free + disk.inode[n].blocks
    BY <1>2, <1>3, <2>2
  <2>4. QED
    BY <1>1, <1>2, <1>3, <2>1, <2>3, FullStep
<1>8. QED
  BY <1>4, <1>5, <1>6, <1>7 DEF Ended

\* Creating: whatever disk a death leaves is sound, and a complete creation exact.
LEMMA CreationTrail ==
    ASSUME DiskOK(disk), NEW dir \in Inode, disk.inode[dir].type = "dir",
           NEW name \in {Last(path) : path \in Paths},
           \A e \in disk.entries : ~ (e[1] = dir /\ e[2] = name),
           NEW type \in {"file", "dir", "symlink"}, NEW target \in {NoTarget} \cup Targets,
           Inode \ disk.used # {},
           disk.inode[Min(Inode \ disk.used)].generation < MaxGeneration,
           dir \notin disk.torn
    PROVE  LET trail == Creation(dir, name, type, target) IN
           /\ trail \in Seq(Left(disk)) /\ trail # <<>> /\ Ended(disk, Last(trail))
           /\ Stays(disk, Last(trail), disk.used)
<1> DEFINE n == Min(Inode \ disk.used)
           g == disk.inode[n].generation + 1
           node == Node(type, g, target)
           k == Node(type, g, target).blocks
           marked == [disk EXCEPT !.used = @ \cup {n}]
           blank == [marked EXCEPT !.inode[n] = Blank(g), !.torn = @ \ {n}]
           taken == [blank EXCEPT !.free = @ - k]
           made == [taken EXCEPT !.inode[n] = node]
<1>1. disk \in Disk /\ TreeOK(disk) /\ CapacityOK(disk) /\ SpaceOK(disk)
  BY DEF DiskOK
<1>2. n \in Inode \ disk.used
  BY MinIsLeast, Inodes
<1>3. n \in Inode \ {Root} /\ n # Root /\ n # dir
  BY <1>1, <1>2 DEF TreeOK
<1>4. /\ disk.inode[n].type = "none" /\ EntriesOf(disk, n) = {}
      /\ NamesOK(disk) => NamesOf(disk, n) = {}
  <2>1. disk.inode[n].type = "none"
    BY <1>1, <1>2 DEF TreeOK
  <2>2. EntriesOf(disk, n) = {}
    BY <1>1, <2>1, EmptyUnlessDirectory
  <2>3. QED
    BY <1>2, <2>1, <2>2 DEF NamesOK
<1>5. /\ disk.inode \in [Inode -> InodeContents] /\ disk.inode[n] \in InodeContents
      /\ disk.free \in Nat /\ disk.inode[n].blocks \in Nat /\ disk.used \subseteq Inode
      /\ disk.entries \subseteq Entry /\ disk.inode[n].links \in Nat
      /\ disk.inode[n].generation \in 0 .. MaxGeneration
  BY <1>1, <1>3 DEF Disk, InodeContents
<1>6. g \in 0 .. MaxGeneration /\ disk.inode[n].generation < g
  BY <1>5, Numbers
<1>7. /\ disk = [used |-> disk.used, free |-> disk.free, entries |-> disk.entries,
                 torn |-> disk.torn, inode |-> disk.inode]
      /\ disk.torn \subseteq Inode
  BY <1>1 DEF Disk
<1> HIDE DEF n, g
<1>8. /\ marked \in Disk /\ marked.used = disk.used \cup {n} /\ marked.entries = disk.entries
      /\ marked.inode = disk.inode /\ marked.free = disk.free /\ marked.torn = disk.torn
  BY <1>3, <1>5, <1>7 DEF Disk
<1>9. /\ Blank(g) \in InodeContents /\ Blank(g).type = "none" /\ Blank(g).blocks = 0
      /\ Blank(g).links = 0 /\ Blank(g).generation = g
  BY <1>6, BlankIsContents
<1>10. /\ node \in InodeContents /\ node.type = type /\ node.links = 1 /\ node.generation = g
       /\ k = IF type = "symlink" THEN 1 ELSE 0
  BY <1>6, NodeIsContents
<1>11. /\ blank \in Disk /\ blank.used = disk.used \cup {n} /\ blank.entries = disk.entries
       /\ blank.inode = [disk.inode EXCEPT ![n] = Blank(g)] /\ blank.free = disk.free
       /\ blank.torn = disk.torn \ {n}
  <2> DEFINE inode == [disk.inode EXCEPT ![n] = Blank(g)]
             torn == disk.torn \ {n}
  <2>1. inode \in [Inode -> InodeContents] /\ torn \subseteq Inode
    BY <1>3, <1>5, <1>7, <1>9
  <2> HIDE DEF marked
  <2>2. blank = [marked EXCEPT !.inode = inode, !.torn = torn]
    BY <1>8 DEF Disk
  <2> HIDE DEF blank, inode, torn
  <2>3. /\ blank \in Disk /\ blank.used = marked.used /\ blank.entries = marked.entries
        /\ blank.inode = inode /\ blank.free = marked.free /\ blank.torn = torn
    BY <1>8, <2>1, <2>2 DEF Disk
  <2>4. QED
    BY <1>8, <2>3 DEF inode, torn
<1>12. /\ blank.inode[n] = Blank(g) /\ \A m \in Inode \ {n} : blank.inode[m] = disk.inode[m]
  BY <1>3, <1>5, <1>11
<1>13. marked \in Left(disk)
  <2>1. TreeOK(marked) /\ CapacityOK(marked)
    BY <1>1, <1>3, <1>8, BitStep
  <2>2. SpaceOK(marked)
    <3>1. marked.free + marked.inode[n].blocks <= disk.free + disk.inode[n].blocks
      BY <1>5, <1>8
    <3> HIDE DEF marked
    <3>2. QED
      BY <1>1, <1>3, <1>8, <3>1, SpaceStep
  <2>3. NotOlder(disk, marked)
    <3>1. NotOlder(disk, disk)
      BY StartIsLeft DEF Left
    <3>2. QED
      BY <1>8, <3>1 DEF NotOlder
  <2>4. ASSUME NamesOK(disk) PROVE NamesOK(marked)
    BY <1>1, <1>3, <1>4, <1>8, <2>4, NamelessStep DEF SameNode
  <2>5. QED
    BY <1>8, <2>1, <2>2, <2>3, <2>4 DEF Left, DiskOK
<1>14. blank \in Left(disk)
  <2>1. DiskOK(blank)
    <3>1. EntriesOf(marked, n) = {} /\ n \in marked.used
      BY <1>4, <1>8 DEF EntriesOf
    <3>2. /\ DiskOK(marked) /\ blank.used = marked.used /\ blank.entries = marked.entries
          /\ \A m \in Inode \ {n} : blank.inode[m] = marked.inode[m]
          /\ blank.inode[n].type = "none" /\ blank.inode[n].blocks = 0
      BY <1>8, <1>9, <1>11, <1>12, <1>13 DEF Left
    <3>3. /\ marked \in Disk /\ blank \in Disk /\ blank.torn = marked.torn \ {n}
          /\ blank.free <= marked.free
      BY <1>5, <1>8, <1>11
    <3> HIDE DEF marked, blank
    <3>4. TreeOK(blank) /\ CapacityOK(blank)
      BY <1>3, <3>1, <3>2, <3>3, InodeStep DEF DiskOK
    <3>5. SpaceOK(blank)
      BY <1>3, <3>2, <3>3, BlankStep DEF DiskOK
    <3>6. QED
      BY <3>3, <3>4, <3>5 DEF DiskOK
  <2>2. NotOlder(disk, blank)
    <3>1. NotOlder(disk, disk)
      BY StartIsLeft DEF Left
    <3>2. blank.inode[n].generation = g /\ g \in Nat
      BY <1>6, <1>9, <1>12
    <3>3. QED
      BY <1>5, <1>6, <1>12, <3>1, <3>2 DEF NotOlder
  <2>3. ASSUME NamesOK(disk) PROVE NamesOK(blank)
    <3>1. /\ n \in Inode /\ blank.entries = disk.entries /\ NamesOf(disk, n) = {}
          /\ disk \in Disk /\ blank \in Disk
      BY <1>1, <1>3, <1>4, <1>11, <2>3
    <3>2. blank.inode[n].type = "dir" => blank.inode[n].links = 1
      BY <1>9, <1>12
    <3>3. \A m \in Inode \ {n} : /\ SameNode(disk.inode[m], blank.inode[m])
                                 /\ m \in disk.used => m \in blank.used
      BY <1>11, <1>12 DEF SameNode
    <3> HIDE DEF blank, marked
    <3>4. QED
      BY <2>3, <3>1, <3>2, <3>3, NamelessStep
  <2>4. QED
    BY <1>11, <2>1, <2>2, <2>3 DEF Left
<1>15. CASE type = "symlink" /\ blank.free = 0
  <2> DEFINE rest == FreeInode(blank, n)
  <2>1. n \in blank.used \ {Root} /\ EntriesOf(blank, n) = {}
    BY <1>3, <1>4, <1>11 DEF EntriesOf
  <2>2. DiskOK(blank) /\ blank.inode[n].generation = g /\ blank.inode[n].blocks = 0
    BY <1>9, <1>12, <1>14 DEF Left
  <2>3. /\ rest \in Seq({e \in Disk : DiskOK(e) /\ Freed(blank, e, n)}) /\ rest # <<>>
        /\ Last(rest).used = blank.used \ {n} /\ Last(rest).entries = blank.entries
        /\ Last(rest).free = blank.free + blank.inode[n].blocks
        /\ Last(rest).torn = blank.torn \ {n}
        /\ \A m \in Inode : Last(rest).inode[m] =
              IF m = n THEN Blank(blank.inode[n].generation) ELSE blank.inode[m]
    <3> HIDE DEF marked, blank, rest
    <3>1. EndsFree(blank, n, FreeInode(blank, n))
      BY <1>11, <2>1, <2>2, FreeTrail
    <3>2. QED
      BY <3>1 DEF EndsFree, rest
  <2>4. NamesOK(disk) => NamesOf(blank, n) = {}
    BY <1>4, <1>11 DEF NamesOf
  <2>5. {e \in Disk : DiskOK(e) /\ Freed(blank, e, n)} \subseteq Left(disk)
    BY <1>1, <1>3, <1>14, <2>4, FreedIsLeft
  <2>6. Creation(dir, name, type, target) = <<marked, blank>> \o rest
    BY <1>15 DEF Creation, n, g
  <2> HIDE DEF rest, marked, blank
  <2>7. rest \in Seq(Left(disk))
    BY <2>3, <2>5, SeqWithin
  <2>8. <<marked, blank>> \in Seq(Left(disk))
    BY <1>13, <1>14
  <2>9. /\ <<marked, blank>> \o rest \in Seq(Left(disk)) /\ <<marked, blank>> \o rest # <<>>
        /\ Last(<<marked, blank>> \o rest) = Last(rest)
    <3>1. rest # <<>>
      BY <2>3
    <3>2. QED
      BY <2>7, <2>8, <3>1, LastOfBoth
  <2>10. Last(rest) \in Disk
    BY <2>3, <2>7, LastIn DEF Left
  <2>11. /\ Last(rest).used = disk.used /\ Last(rest).entries = disk.entries
         /\ Last(rest).free = disk.free /\ Last(rest).torn \subseteq disk.torn
    BY <1>2, <1>5, <1>11, <2>2, <2>3
  <2>12. \A m \in Inode : Last(rest).inode[m] = IF m = n THEN Blank(g) ELSE disk.inode[m]
    BY <1>12, <2>2, <2>3
  <2>13. Ended(disk, Last(rest)) /\ Stays(disk, Last(rest), disk.used)
    BY <1>2, <1>6, <2>10, <2>11, <2>12, FailedEnds
  <2>14. QED
    BY <2>6, <2>9, <2>13
<1>16. CASE ~ (type = "symlink" /\ blank.free = 0)
  <2>1. k \in Nat /\ disk.free - k \in Nat
    BY <1>5, <1>10, <1>11, <1>16
  <2>2. /\ taken \in Disk /\ SameTree(blank, taken) /\ taken.free = disk.free - k
    <3> HIDE DEF blank, node
    <3>1. QED
      BY <1>11, <2>1 DEF Disk, SameTree
  <2>3. /\ made \in Disk /\ made.used = disk.used \cup {n} /\ made.entries = disk.entries
        /\ made.torn = disk.torn \ {n} /\ made.inode = [blank.inode EXCEPT ![n] = node] /\ made.free = disk.free - k
    <3> HIDE DEF taken, blank
    <3>1. made = [taken EXCEPT !.inode = [taken.inode EXCEPT ![n] = node]]
      BY <2>2 DEF Disk
    <3>2. /\ taken.used = disk.used \cup {n} /\ taken.entries = disk.entries
          /\ taken.torn = disk.torn \ {n} /\ taken.inode = blank.inode /\ blank.inode \in [Inode -> InodeContents]
      BY <1>11, <2>2 DEF SameTree, Disk
    <3> HIDE DEF node, made
    <3>3. [taken.inode EXCEPT ![n] = node] \in [Inode -> InodeContents]
      BY <1>3, <1>10, <3>2
    <3>4. QED
      BY <2>2, <3>1, <3>2, <3>3 DEF Disk
  <2>4. Creation(dir, name, type, target) =
            <<marked, blank, taken, made>>
             \o (IF HasRoom(made, dir) THEN DirectoryAdd(made, dir, name, n)
                 ELSE FreeInode(made, n))
    BY <1>16 DEF Creation, n, g
  <2>5. k = node.blocks
    OBVIOUS
  <2> HIDE DEF marked, blank, taken, made, node, k
  <2>6. /\ made.inode[n] = node /\ \A m \in Inode \ {n} : made.inode[m] = disk.inode[m]
    BY <1>3, <1>11, <1>12, <2>3 DEF Disk
  <2>7. taken \in Left(disk)
    <3>1. DiskOK(blank) /\ blank \in Disk
      BY <1>14 DEF Left
    <3>2. TreeOK(taken) /\ CapacityOK(taken)
      BY <2>2, <3>1 DEF SameTree, DiskOK, TreeOK, CapacityOK, EntriesOf
    <3>3. blank.inode[n].blocks \in Nat
      BY <1>9, <1>12
    <3>4. taken.free + taken.inode[n].blocks <= blank.free + blank.inode[n].blocks
      BY <1>5, <1>11, <2>1, <2>2, <3>3 DEF SameTree
    <3>5. SpaceOK(taken)
      <4>1. /\ taken.inode = blank.inode /\ taken.torn = blank.torn /\ SpaceOK(blank)
            /\ taken \in Disk
        BY <2>2, <3>1 DEF SameTree, DiskOK
      <4>2. QED
        BY <1>3, <3>1, <3>4, <4>1, SpaceStep
    <3>6. DiskOK(taken)
      BY <2>2, <3>2, <3>5 DEF DiskOK
    <3>7. QED
      BY <1>1, <1>3, <1>14, <2>2, <3>6, AddedIsLeft
  <2>8. DiskOK(made)
    <3>1. DiskOK(blank) /\ EntriesOf(blank, n) = {} /\ n \in blank.used
      BY <1>4, <1>11, <1>14 DEF Left, EntriesOf
    <3>2. made.free + made.inode[n].blocks <= blank.free + blank.inode[n].blocks
      BY <1>5, <1>9, <1>11, <1>12, <2>1, <2>3, <2>5, <2>6
    <3>3. /\ made.used = blank.used /\ made.entries = blank.entries
          /\ \A m \in Inode \ {n} : made.inode[m] = blank.inode[m]
          /\ made.inode[n].links # 0 /\ made.torn = blank.torn /\ n \notin blank.torn
      BY <1>10, <1>11, <1>12, <2>3, <2>6
    <3>4. QED
      BY <1>3, <2>3, <3>1, <3>2, <3>3, WriteOK
  <2>9. made \in Left(disk)
    <3>1. NotOlder(disk, made)
      <4>1. NotOlder(disk, disk)
        BY StartIsLeft DEF Left
      <4>2. made.inode[n].generation = g /\ g \in Nat
        BY <1>6, <1>10, <2>6
      <4>3. QED
        BY <1>5, <1>6, <2>6, <4>1, <4>2 DEF NotOlder
    <3>2. ASSUME NamesOK(disk) PROVE NamesOK(made)
      <4>1. made.inode[n].type = "dir" => made.inode[n].links = 1
        BY <1>10, <2>6
      <4>2. \A m \in Inode \ {n} : /\ SameNode(disk.inode[m], made.inode[m])
                                   /\ m \in disk.used => m \in made.used
        BY <2>3, <2>6 DEF SameNode
      <4>3. made \in Disk /\ made.entries = disk.entries
        BY <2>3
      <4>4. QED
        BY <1>1, <1>3, <1>4, <3>2, <4>1, <4>2, <4>3, NamelessStep
    <3>3. QED
      BY <2>3, <2>8, <3>1, <3>2 DEF Left
  <2>10. <<marked, blank, taken, made>> \in Seq(Left(disk))
    BY <1>13, <1>14, <2>7, <2>9
  <2>11. NamesOK(disk) => NamesOf(made, n) = {}
    BY <1>4, <2>3 DEF NamesOf
  <2>12. <<dir, name, n>> \notin disk.entries
    OBVIOUS
  <2>13. CASE HasRoom(made, dir)
    <3> DEFINE rest == DirectoryAdd(made, dir, name, n)
               S == {e \in Disk : DiskOK(e) /\ (SameTree(made, e) \/ Added(made, e, dir, name, n))}
    <3>1. /\ made.inode[dir].type = "dir" /\ EntriesOf(made, n) = {}
          /\ \A e \in made.entries : ~ (e[1] = dir /\ e[2] = name)
      BY <1>3, <1>4, <2>3, <2>6 DEF EntriesOf
    <3>0. dir \notin made.torn
      BY <2>3
    <3>2. rest \in Seq(S) /\ rest # <<>> /\ Added(made, Last(rest), dir, name, n)
      BY <1>3, <2>8, <2>13, <3>0, <3>1, AddTrail
    <3>3. NamesOK(disk) => Cardinality(NamesOf(made, n)) + 1 <= made.inode[n].links
      <4>1. Cardinality({}) = 0
        BY FS_EmptySet
      <4>2. made.inode[n].links = 1
        BY <1>10, <2>6
      <4>3. NamesOK(disk) => Cardinality(NamesOf(made, n)) = 0
        BY <2>11, <4>1
      <4>4. QED
        BY <4>2, <4>3
    <3>4. S \subseteq Left(disk)
      BY <1>1, <1>3, <2>3, <2>9, <2>12, <3>3, AddedIsLeft
    <3> HIDE DEF rest, S
    <3>5. rest \in Seq(Left(disk))
      BY <3>2, <3>4, SeqWithin
    <3>6. /\ <<marked, blank, taken, made>> \o rest \in Seq(Left(disk))
          /\ <<marked, blank, taken, made>> \o rest # <<>>
          /\ Last(<<marked, blank, taken, made>> \o rest) = Last(rest)
      BY <2>10, <3>2, <3>5, LastOfBoth
    <3> DEFINE e == Last(rest)
    <3>7. e \in Left(disk) /\ e \in Disk /\ DiskOK(e)
      BY <3>2, <3>5, LastIn DEF Left
    <3>8. Added(made, e, dir, name, n)
      BY <3>2
    <3> HIDE DEF e
    <3>9. /\ e.used = disk.used \cup {n} /\ e.entries = disk.entries \cup {<<dir, name, n>>}
          /\ e.inode[n] = node /\ \A m \in Inode \ {n} : SameNode(disk.inode[m], e.inode[m])
      BY <1>3, <2>3, <2>6, <3>8 DEF Added, SameNode
    <3>10. Fresh(disk, e)
      BY <1>6, <1>10, <3>9 DEF Fresh
    <3>11. Invisible(disk, e)
      BY <2>12, <3>9 DEF Invisible
    <3>12. Stays(disk, e, disk.used)
      BY <1>2, <1>5, <3>9 DEF Stays, SameNode
    <3>13. Linked(disk, e)
      <4>1. SUFFICES ASSUME NamesOK(disk), LinksOK(disk) PROVE NamesOK(e) /\ LinksOK(e)
        BY DEF Linked
      <4>2. NamesOK(e)
        BY <3>7, <4>1 DEF Left
      <4>3. IsFiniteSet(disk.entries)
        BY <1>1 DEF TreeOK
      <4>4. /\ Cardinality(NamesOf(e, n)) = Cardinality(NamesOf(disk, n)) + 1
            /\ \A m : m # n => NamesOf(e, m) = NamesOf(disk, m)
        BY <2>12, <3>9, <4>3, NamesWith
      <4>5. Cardinality(NamesOf(disk, n)) = 0
        BY <1>4, <4>1, FS_EmptySet
      <4>6. ASSUME NEW m \in e.used \ {Root}
            PROVE  e.inode[m].type # "none" /\ e.inode[m].links = Cardinality(NamesOf(e, m))
        <5>1. CASE m = n
          BY <1>10, <3>9, <4>4, <4>5, <5>1
        <5>2. CASE m # n
          BY <1>5, <3>9, <4>1, <4>4, <4>6, <5>2 DEF LinksOK, SameNode
        <5>3. QED
          BY <5>1, <5>2
      <4>7. QED
        BY <4>2, <4>6 DEF LinksOK
    <3>14. Balanced(disk, e)
      <4>1. SUFFICES ASSUME FullOK(disk) PROVE FullOK(e)
        BY DEF Balanced
      <4>2. disk.inode[n].blocks = 0
        BY <1>2, <4>1 DEF FullOK
      <4>3. made.free + made.inode[n].blocks = disk.free + disk.inode[n].blocks
        BY <1>5, <2>1, <2>3, <2>5, <2>6, <4>2
      <4>4. FullOK(made)
        BY <1>1, <1>3, <2>3, <2>6, <4>1, <4>3, FullStep
      <4>5. /\ e.free + e.inode[dir].blocks = made.free + made.inode[dir].blocks
            /\ \A m \in Inode \ {dir} : e.inode[m] = made.inode[m]
            /\ e.used = made.used /\ dir \in e.used /\ e.torn \subseteq made.torn
        <5>1. dir \in disk.used
          BY <1>1 DEF TreeOK
        <5>2. QED
          BY <3>8, <3>9, <5>1 DEF Added
      <4>6. QED
        BY <2>3, <2>8, <3>7, <4>4, <4>5, FullStep DEF DiskOK
    <3>15. QED
      BY <2>4, <2>13, <3>6, <3>10, <3>11, <3>12, <3>13, <3>14 DEF Ended, e, rest
  <2>14. CASE ~ HasRoom(made, dir)
    <3> DEFINE rest == FreeInode(made, n)
    <3>1. n \in made.used \ {Root} /\ EntriesOf(made, n) = {} /\ made.inode[n].generation = g
      BY <1>3, <1>4, <1>10, <2>3, <2>6 DEF EntriesOf
    <3>2. /\ rest \in Seq({e \in Disk : DiskOK(e) /\ Freed(made, e, n)}) /\ rest # <<>>
          /\ Last(rest).used = made.used \ {n} /\ Last(rest).entries = made.entries
          /\ Last(rest).free = made.free + made.inode[n].blocks
          /\ Last(rest).torn = made.torn \ {n}
          /\ \A m \in Inode : Last(rest).inode[m] =
                IF m = n THEN Blank(made.inode[n].generation) ELSE made.inode[m]
      <4> HIDE DEF made, rest
      <4>1. EndsFree(made, n, FreeInode(made, n))
        BY <2>3, <2>8, <3>1, FreeTrail
      <4>2. QED
        BY <3>1, <4>1 DEF EndsFree, rest
    <3>3. {e \in Disk : DiskOK(e) /\ Freed(made, e, n)} \subseteq Left(disk)
      BY <1>1, <1>3, <2>9, <2>11, FreedIsLeft
    <3> HIDE DEF rest
    <3>4. rest \in Seq(Left(disk))
      BY <3>2, <3>3, SeqWithin
    <3>5. /\ <<marked, blank, taken, made>> \o rest \in Seq(Left(disk))
          /\ <<marked, blank, taken, made>> \o rest # <<>>
          /\ Last(<<marked, blank, taken, made>> \o rest) = Last(rest)
      <4>1. rest # <<>>
        BY <3>2
      <4>2. QED
        BY <2>10, <3>4, <4>1, LastOfBoth
    <3>6. Last(rest) \in Disk
      BY <3>2, <3>4, LastIn DEF Left
    <3>7. /\ Last(rest).used = disk.used /\ Last(rest).entries = disk.entries
          /\ Last(rest).free = disk.free /\ Last(rest).torn \subseteq disk.torn
      BY <1>2, <1>5, <2>1, <2>3, <2>5, <2>6, <3>2
    <3>8. \A m \in Inode : Last(rest).inode[m] = IF m = n THEN Blank(g) ELSE disk.inode[m]
      BY <2>6, <3>1, <3>2
    <3>9. Ended(disk, Last(rest)) /\ Stays(disk, Last(rest), disk.used)
      BY <1>2, <1>6, <3>6, <3>7, <3>8, FailedEnds
    <3>10. QED
      BY <2>4, <2>14, <3>5, <3>9 DEF rest
  <2>15. QED
    BY <2>13, <2>14
<1>17. QED
  BY <1>15, <1>16
----------------------------------------------------------------------------
(* Taking names out.                                                       *)

\* Removing an entry takes one name from its inode and nothing else.
LEMMA Removal ==
    ASSUME DiskOK(disk), NEW dir, NEW name, NEW n \in disk.used \ {Root},
           <<dir, name, n>> \in disk.entries
    PROVE  LET removed == DirectoryRemove(disk, dir, name) IN
           /\ removed \in Disk /\ removed.used = disk.used /\ removed.inode = disk.inode
           /\ removed.free = disk.free /\ removed.entries = disk.entries \ {<<dir, name, n>>}
           /\ removed \in Left(disk) /\ removed.torn = disk.torn
           /\ Cardinality(NamesOf(removed, n)) = Cardinality(NamesOf(disk, n)) - 1
           /\ \A m : m # n => NamesOf(removed, m) = NamesOf(disk, m)
<1> DEFINE removed == DirectoryRemove(disk, dir, name)
           left == {e \in disk.entries : ~ (e[1] = dir /\ e[2] = name)}
<1>1. disk \in Disk /\ TreeOK(disk) /\ CapacityOK(disk) /\ SpaceOK(disk)
  BY DEF DiskOK
<1>2. left = disk.entries \ {<<dir, name, n>>}
  <2>1. \A e \in disk.entries : e[1] = dir /\ e[2] = name => e = <<dir, name, n>>
    BY <1>1 DEF TreeOK
  <2>2. QED
    BY <2>1
<1>3. removed = [disk EXCEPT !.entries = left]
  BY DEF DirectoryRemove
<1> HIDE DEF removed, left
<1>4. /\ removed \in Disk /\ removed.used = disk.used /\ removed.inode = disk.inode
      /\ removed.free = disk.free /\ removed.entries = disk.entries \ {<<dir, name, n>>}
      /\ removed.torn = disk.torn
  BY <1>1, <1>2, <1>3 DEF Disk
<1>5. TreeOK(removed) /\ CapacityOK(removed)
  BY <1>1, <1>4, RemoveStep
<1>6. SpaceOK(removed)
  BY <1>1, <1>4 DEF SpaceOK, Held, Sure
<1>7. IsFiniteSet(disk.entries)
  BY <1>1 DEF TreeOK
<1>8. /\ Cardinality(NamesOf(removed, n)) = Cardinality(NamesOf(disk, n)) - 1
      /\ \A m : m # n => NamesOf(removed, m) = NamesOf(disk, m)
  BY <1>4, <1>7, NamesWithout
<1>9. NotOlder(disk, removed)
  <2>1. NotOlder(disk, disk)
    BY StartIsLeft DEF Left
  <2>2. QED
    BY <1>4, <2>1 DEF NotOlder
<1>10. ASSUME NamesOK(disk) PROVE NamesOK(removed)
  <2>1. SUFFICES ASSUME NEW m \in Inode
                 PROVE  /\ m \notin removed.used => NamesOf(removed, m) = {}
                        /\ Cardinality(NamesOf(removed, m)) <= removed.inode[m].links
                        /\ removed.inode[m].type = "dir" => removed.inode[m].links = 1
    BY DEF NamesOK
  <2>2. CASE m = n
    <3>1. Cardinality(NamesOf(disk, n)) <= disk.inode[n].links
      BY <1>10, <2>2 DEF NamesOK
    <3>2. Cardinality(NamesOf(disk, n)) \in Nat /\ disk.inode[n].links \in Nat
      BY <1>1, <1>7, <2>2, NamesAreFinite DEF Disk, InodeContents
    <3>3. Cardinality(NamesOf(removed, n)) <= disk.inode[n].links
      BY <1>8, <3>1, <3>2
    <3>4. QED
      BY <1>4, <1>10, <2>2, <3>3 DEF NamesOK
  <2>3. CASE m # n
    BY <1>4, <1>8, <1>10, <2>3 DEF NamesOK
  <2>4. QED
    BY <2>2, <2>3
<1>11. QED
  BY <1>4, <1>5, <1>6, <1>8, <1>9, <1>10 DEF Left, DiskOK, removed

\* The name goes, and the inode with it.
LEMMA GoneTrail ==
    ASSUME DiskOK(disk), NEW dir, NEW name, NEW n \in disk.used \ {Root},
           <<dir, name, n>> \in disk.entries, EntriesOf(disk, n) = {},
           NamesOK(disk) => disk.inode[n].links = 1,
           n \notin disk.torn
    PROVE  LET removed == DirectoryRemove(disk, dir, name)
               trail == <<removed>> \o FreeInode(removed, n)
           IN  /\ trail \in Seq(Left(disk)) /\ trail # <<>> /\ Ended(disk, Last(trail))
               /\ Stays(disk, Last(trail), disk.used \ {n})
<1> DEFINE removed == DirectoryRemove(disk, dir, name)
           rest == FreeInode(removed, n)
           g == disk.inode[n].generation
<1>1. /\ disk \in Disk /\ TreeOK(disk) /\ SpaceOK(disk) /\ disk.used \subseteq Inode
      /\ n \in Inode /\ n # Root /\ n \in disk.used
  BY DEF DiskOK, Disk
<1>2. /\ removed \in Disk /\ removed.used = disk.used /\ removed.inode = disk.inode
      /\ removed.free = disk.free /\ removed.entries = disk.entries \ {<<dir, name, n>>}
      /\ removed \in Left(disk) /\ removed.torn = disk.torn
      /\ Cardinality(NamesOf(removed, n)) = Cardinality(NamesOf(disk, n)) - 1
      /\ \A m : m # n => NamesOf(removed, m) = NamesOf(disk, m)
  BY Removal
<1> HIDE DEF removed
<1>3. DiskOK(removed) /\ EntriesOf(removed, n) = {}
  BY <1>2 DEF Left, EntriesOf
<1>4. /\ rest \in Seq({e \in Disk : DiskOK(e) /\ Freed(removed, e, n)}) /\ rest # <<>>
      /\ Last(rest).used = removed.used \ {n} /\ Last(rest).entries = removed.entries
      /\ Last(rest).free = removed.free + removed.inode[n].blocks
      /\ Last(rest).torn = removed.torn \ {n}
      /\ \A m \in Inode : Last(rest).inode[m] =
            IF m = n THEN Blank(removed.inode[n].generation) ELSE removed.inode[m]
  <2>1. DiskOK(removed) /\ n \in removed.used \ {Root} /\ EntriesOf(removed, n) = {}
    BY <1>1, <1>2, <1>3
  <2> HIDE DEF rest
  <2>2. n \notin removed.torn
    BY <1>2
  <2>3. EndsFree(removed, n, FreeInode(removed, n))
    BY <2>1, <2>2, FreeTrail
  <2>4. QED
    BY <2>3 DEF EndsFree, rest
<1>5. ASSUME NamesOK(disk) PROVE NamesOf(removed, n) = {}
  <2>1. Cardinality(NamesOf(disk, n)) <= 1
    BY <1>1, <1>5 DEF NamesOK
  <2>2. IsFiniteSet(disk.entries) /\ IsFiniteSet(removed.entries)
    BY <1>1, <1>3 DEF DiskOK, TreeOK
  <2>3. /\ Cardinality(NamesOf(disk, n)) \in Nat /\ Cardinality(NamesOf(removed, n)) \in Nat
        /\ IsFiniteSet(NamesOf(removed, n))
    BY <2>2, NamesAreFinite
  <2>4. Cardinality(NamesOf(removed, n)) = 0
    BY <1>2, <2>1, <2>3
  <2>5. QED
    BY <2>3, <2>4, FS_EmptySet
<1>6. {e \in Disk : DiskOK(e) /\ Freed(removed, e, n)} \subseteq Left(disk)
  BY <1>1, <1>2, <1>5, FreedIsLeft
<1> HIDE DEF rest
<1>7. rest \in Seq(Left(disk)) /\ rest # <<>> /\ <<removed>> \in Seq(Left(disk))
  <2>1. <<removed>> \in Seq(Left(disk))
    BY <1>2
  <2>2. QED
    BY <1>4, <1>6, <2>1, SeqWithin
<1>8. /\ <<removed>> \o rest \in Seq(Left(disk)) /\ <<removed>> \o rest # <<>>
      /\ Last(<<removed>> \o rest) = Last(rest)
  BY <1>7, LastOfBoth
<1> DEFINE e == Last(rest)
<1>9. e \in Left(disk) /\ e \in Disk
  BY <1>7, LastIn DEF Left
<1>10. /\ e.used = disk.used \ {n} /\ e.entries = disk.entries \ {<<dir, name, n>>}
       /\ e.free = disk.free + disk.inode[n].blocks /\ e.torn \subseteq disk.torn
       /\ \A m \in Inode \ {n} : e.inode[m] = disk.inode[m]
       /\ e.inode[n] = Blank(g)
  BY <1>1, <1>2, <1>4
<1>11. Blank(g).blocks = 0
  BY DEF Blank
<1> HIDE DEF e, g
<1>12. Fresh(disk, e) /\ Invisible(disk, e) /\ Stays(disk, e, disk.used \ {n})
  BY <1>1, <1>10 DEF Fresh, Invisible, Stays
<1>13. Linked(disk, e)
  <2>1. SUFFICES ASSUME NamesOK(disk), LinksOK(disk) PROVE NamesOK(e) /\ LinksOK(e)
    BY DEF Linked
  <2>2. NamesOK(e)
    BY <1>9, <2>1 DEF Left
  <2>3. \A m \in e.used \ {Root} : /\ NamesOf(e, m) = NamesOf(disk, m)
                                   /\ e.inode[m] = disk.inode[m] /\ m \in disk.used \ {Root}
    BY <1>1, <1>10 DEF NamesOf
  <2>4. LinksOK(e)
    BY <2>1, <2>3 DEF LinksOK
  <2>5. QED
    BY <2>2, <2>4
<1>14. Balanced(disk, e)
  <2>1. e.free + e.inode[n].blocks = disk.free + disk.inode[n].blocks
    <3>1. disk.free \in Nat /\ disk.inode[n].blocks \in Nat
      BY <1>1 DEF Disk, InodeContents
    <3>2. QED
      BY <1>10, <1>11, <3>1
  <2>2. ASSUME FullOK(disk) PROVE FullOK(e)
    BY <1>1, <1>9, <1>10, <1>11, <2>1, <2>2, FullStep
  <2>3. QED
    BY <2>2 DEF Balanced
<1>15. QED
  BY <1>8, <1>12, <1>13, <1>14 DEF Ended, e, rest, removed

\* A name goes, and the inode with its last name.
LEMMA UnlinkedTrail ==
    ASSUME DiskOK(disk), NEW dir, NEW name, NEW n \in disk.used \ {Root},
           <<dir, name, n>> \in disk.entries, disk.inode[n].type \in {"file", "symlink"},
           disk.inode[n].links = 1 => n \notin disk.torn
    PROVE  LET trail == Unlinked(dir, name, n) IN
           /\ trail \in Seq(Left(disk)) /\ trail # <<>> /\ Ended(disk, Last(trail))
           /\ Stays(disk, Last(trail), disk.used \ {n})
<1> DEFINE removed == DirectoryRemove(disk, dir, name)
           fewer == [removed EXCEPT !.inode[n].links = @ - 1]
           i == [disk.inode[n] EXCEPT !.links = @ - 1]
<1>1. /\ disk \in Disk /\ TreeOK(disk) /\ SpaceOK(disk) /\ disk.used \subseteq Inode
      /\ n \in Inode /\ n # Root /\ n \in disk.used
  BY DEF DiskOK, Disk
<1>2. /\ disk.inode \in [Inode -> InodeContents] /\ disk.inode[n] \in InodeContents
      /\ disk.inode[n].links \in Nat \ {0} /\ disk.free \in Nat /\ disk.inode[n].blocks \in Nat
  BY <1>1 DEF Disk, InodeContents, TreeOK
<1>3. EntriesOf(disk, n) = {}
  BY <1>1, EmptyUnlessDirectory
<1>4. CASE disk.inode[n].links = 1
  <2>1. Unlinked(dir, name, n) = <<removed>> \o FreeInode(removed, n)
    BY <1>4 DEF Unlinked
  <2>2. QED
    BY <1>3, <1>4, <2>1, GoneTrail
<1>5. CASE disk.inode[n].links # 1
  <2>1. Unlinked(dir, name, n) = <<removed, fewer>>
    BY <1>2, <1>5 DEF Unlinked
  <2>2. /\ removed \in Disk /\ removed.used = disk.used /\ removed.inode = disk.inode
        /\ removed.free = disk.free /\ removed.entries = disk.entries \ {<<dir, name, n>>}
        /\ removed \in Left(disk) /\ removed.torn = disk.torn
        /\ Cardinality(NamesOf(removed, n)) = Cardinality(NamesOf(disk, n)) - 1
        /\ \A m : m # n => NamesOf(removed, m) = NamesOf(disk, m)
    BY Removal
  <2>3. /\ i \in InodeContents /\ i.links = disk.inode[n].links - 1 /\ i.links # 0
        /\ i.type = disk.inode[n].type /\ i.blocks = disk.inode[n].blocks
        /\ i.generation = disk.inode[n].generation
    BY <1>2, <1>5 DEF InodeContents
  <2> HIDE DEF removed
  <2>4. fewer = [removed EXCEPT !.inode = [disk.inode EXCEPT ![n] = i]]
    BY <2>2
  <2> HIDE DEF fewer, i
  <2>5. [disk.inode EXCEPT ![n] = i] \in [Inode -> InodeContents]
    BY <1>2, <2>3
  <2>6. /\ fewer \in Disk /\ fewer.used = disk.used /\ fewer.free = disk.free
        /\ fewer.torn = disk.torn
        /\ fewer.entries = removed.entries /\ fewer.inode = [disk.inode EXCEPT ![n] = i]
    BY <2>2, <2>4, <2>5 DEF Disk
  <2>7. fewer.inode[n] = i /\ \A m \in Inode \ {n} : fewer.inode[m] = disk.inode[m]
    BY <1>1, <1>2, <2>6
  <2>8. DiskOK(fewer)
    <3>1. DiskOK(removed) /\ EntriesOf(removed, n) = {}
      BY <1>3, <2>2 DEF Left, EntriesOf
    <3>2. fewer.free + fewer.inode[n].blocks <= removed.free + removed.inode[n].blocks
      BY <1>2, <2>2, <2>3, <2>6, <2>7
    <3>3. /\ fewer.used = removed.used /\ n \in removed.used /\ n \in Inode \ {Root}
          /\ \A m \in Inode \ {n} : fewer.inode[m] = removed.inode[m]
          /\ fewer.inode[n].links # 0
      BY <1>1, <2>2, <2>3, <2>6, <2>7
    <3>4. /\ n \notin removed.used => fewer.inode[n].type = "none"
          /\ fewer.inode[n].type # "none" => fewer.inode[n].links # 0
          /\ fewer \in Disk /\ fewer.entries = removed.entries
          /\ fewer.torn = removed.torn /\ fewer.inode[n].blocks = removed.inode[n].blocks
      BY <2>2, <2>3, <2>6, <2>7, <3>3
    <3> HIDE DEF fewer, removed
    <3>5. QED
      BY <3>1, <3>2, <3>3, <3>4, WriteOK
  <2>9. NotOlder(disk, fewer)
    <3>1. NotOlder(disk, disk)
      BY StartIsLeft DEF Left
    <3>2. QED
      BY <2>3, <2>7, <3>1 DEF NotOlder
  <2>10. \A m : NamesOf(fewer, m) = NamesOf(removed, m)
    BY <2>6 DEF NamesOf
  <2>11. ASSUME NamesOK(disk) PROVE NamesOK(fewer)
    <3>1. SUFFICES ASSUME NEW m \in Inode
                   PROVE  /\ m \notin fewer.used => NamesOf(fewer, m) = {}
                          /\ Cardinality(NamesOf(fewer, m)) <= fewer.inode[m].links
                          /\ fewer.inode[m].type = "dir" => fewer.inode[m].links = 1
      BY DEF NamesOK
    <3>2. CASE m = n
      <4>1. Cardinality(NamesOf(disk, n)) <= disk.inode[n].links
        BY <1>1, <2>11 DEF NamesOK
      <4>2. Cardinality(NamesOf(disk, n)) \in Nat
        BY <1>1, NamesAreFinite DEF TreeOK
      <4>3. Cardinality(NamesOf(fewer, n)) <= i.links
        BY <1>2, <2>2, <2>3, <2>10, <4>1, <4>2
      <4>4. m \in fewer.used /\ fewer.inode[m] = i /\ i.type # "dir"
        BY <1>1, <2>3, <2>6, <2>7, <3>2
      <4>5. QED
        BY <3>2, <4>3, <4>4
    <3>3. CASE m # n
      BY <2>2, <2>6, <2>7, <2>10, <2>11, <3>3 DEF NamesOK
    <3>4. QED
      BY <3>2, <3>3
  <2>12. removed \in Left(disk) /\ fewer \in Left(disk)
    BY <2>2, <2>6, <2>8, <2>9, <2>11 DEF Left
  <2>13. /\ <<removed, fewer>> \in Seq(Left(disk)) /\ <<removed, fewer>> # <<>>
         /\ Last(<<removed, fewer>>) = fewer
    BY <2>12 DEF Last
  <2>14. /\ Fresh(disk, fewer) /\ Invisible(disk, fewer)
         /\ Stays(disk, fewer, disk.used \ {n})
    BY <1>1, <2>2, <2>6, <2>7 DEF Fresh, Invisible, Stays
  <2>15. Linked(disk, fewer)
    <3>1. SUFFICES ASSUME NamesOK(disk), LinksOK(disk) PROVE LinksOK(fewer)
      BY <2>11 DEF Linked
    <3>2. disk.inode[n].links = Cardinality(NamesOf(disk, n)) /\ disk.inode[n].type # "none"
      BY <3>1 DEF LinksOK
    <3>3. fewer.inode[n].links = Cardinality(NamesOf(fewer, n)) /\ fewer.inode[n].type # "none"
      BY <2>2, <2>3, <2>7, <2>10, <3>2
    <3>4. QED
      BY <1>1, <2>2, <2>6, <2>7, <2>10, <3>1, <3>3 DEF LinksOK
  <2>16. Balanced(disk, fewer)
    <3>1. fewer.free + fewer.inode[n].blocks = disk.free + disk.inode[n].blocks
      BY <2>3, <2>6, <2>7
    <3>2. ASSUME FullOK(disk) PROVE FullOK(fewer)
      BY <1>1, <2>6, <2>7, <3>1, <3>2, FullStep
    <3>3. QED
      BY <3>2 DEF Balanced
  <2>17. QED
    BY <2>1, <2>13, <2>14, <2>15, <2>16 DEF Ended
<1>6. QED
  BY <1>4, <1>5
----------------------------------------------------------------------------
(* Adding a name to an inode: while the count is behind, only what does    *)
(* not count names holds.                                                  *)

Kept(b) == {d \in Disk : DiskOK(d) /\ NotOlder(b, d)}

\* Linking: a death may leave a count one too low, a complete link does not.
LEMMA LinkTrail ==
    ASSUME DiskOK(disk), NEW dir \in Inode, disk.inode[dir].type = "dir",
           NEW name \in {Last(path) : path \in Paths}, HasRoom(disk, dir),
           \A e \in disk.entries : ~ (e[1] = dir /\ e[2] = name),
           NEW n \in Inode, disk.inode[n].type \in {"file", "symlink"},
           dir \notin disk.torn
    PROVE  LET named == DirectoryAdd(disk, dir, name, n)
               trail == named \o << [Last(named) EXCEPT !.inode[n].links = @ + 1] >>
           IN  /\ trail \in Seq(Kept(disk)) /\ trail # <<>>
               /\ Last(trail) \in Left(disk) /\ Ended(disk, Last(trail))
               /\ Stays(disk, Last(trail), disk.used)
<1> DEFINE named == DirectoryAdd(disk, dir, name, n)
           S == {d \in Disk : DiskOK(d) /\ (SameTree(disk, d) \/ Added(disk, d, dir, name, n))}
           d == Last(named)
           e == [d EXCEPT !.inode[n].links = @ + 1]
           i == [disk.inode[n] EXCEPT !.links = @ + 1]
<1>1. /\ disk \in Disk /\ TreeOK(disk) /\ SpaceOK(disk) /\ disk.used \subseteq Inode
      /\ IsFiniteSet(disk.entries)
  BY DEF DiskOK, Disk, TreeOK
<1>2. n \in disk.used /\ n # Root /\ n # dir /\ dir \in disk.used
  BY <1>1 DEF TreeOK
<1>3. <<dir, name, n>> \notin disk.entries
  OBVIOUS
<1>4. named \in Seq(S) /\ named # <<>> /\ Added(disk, d, dir, name, n)
  <2>1. EntriesOf(disk, n) = {}
    BY <1>1, EmptyUnlessDirectory
  <2>2. n \in Inode \ {Root}
    BY <1>2
  <2>3. QED
    BY <1>2, <2>1, <2>2, AddTrail
<1>5. S \subseteq Kept(disk)
  <2>1. SUFFICES ASSUME NEW x \in S PROVE x \in Kept(disk)
    OBVIOUS
  <2>2. \A m \in Inode : SameNode(disk.inode[m], x.inode[m])
    BY DEF SameTree, Added, SameNode
  <2>3. NotOlder(disk, disk)
    BY StartIsLeft DEF Left
  <2>4. NotOlder(disk, x)
    BY <2>2, <2>3 DEF NotOlder, SameNode
  <2>5. QED
    BY <2>4 DEF Kept
<1> HIDE DEF named, S
<1>6. named \in Seq(Kept(disk))
  BY <1>4, <1>5, SeqWithin
<1>7. d \in Kept(disk)
  BY <1>4, <1>6, LastIn
<1> HIDE DEF d
<1>8. /\ d \in Disk /\ DiskOK(d) /\ d.used = disk.used
      /\ d.entries = disk.entries \cup {<<dir, name, n>>}
      /\ \A m \in Inode \ {dir} : d.inode[m] = disk.inode[m]
      /\ SameNode(disk.inode[dir], d.inode[dir])
      /\ d.free + d.inode[dir].blocks = disk.free + disk.inode[dir].blocks
      /\ d.torn = disk.torn
  BY <1>4, <1>7 DEF Kept, Added
<1>9. /\ d.inode \in [Inode -> InodeContents] /\ d.inode[n] = disk.inode[n]
      /\ disk.inode[n] \in InodeContents /\ disk.inode[n].links \in Nat
      /\ d.free \in Nat /\ disk.inode[n].blocks \in Nat
  BY <1>1, <1>2, <1>8 DEF Disk, InodeContents
<1>10. /\ i \in InodeContents /\ i.links = disk.inode[n].links + 1
       /\ i.type = disk.inode[n].type /\ i.blocks = disk.inode[n].blocks
       /\ i.generation = disk.inode[n].generation
  BY <1>9 DEF InodeContents
<1>11. e = [d EXCEPT !.inode = [d.inode EXCEPT ![n] = i]]
  BY <1>9
<1> HIDE DEF e, i
<1>12. [d.inode EXCEPT ![n] = i] \in [Inode -> InodeContents]
  BY <1>9, <1>10
<1>13. /\ e \in Disk /\ e.used = disk.used /\ e.free = d.free /\ e.entries = d.entries
       /\ e.inode = [d.inode EXCEPT ![n] = i] /\ e.torn = d.torn
  BY <1>8, <1>11, <1>12 DEF Disk
<1>14. e.inode[n] = i /\ \A m \in Inode \ {n} : e.inode[m] = d.inode[m]
  BY <1>9, <1>13
<1>15. \A m \in Inode \ {n} : SameNode(disk.inode[m], e.inode[m])
  BY <1>2, <1>8, <1>14 DEF SameNode
<1>16. DiskOK(e)
  <2>1. EntriesOf(d, n) = {}
    BY <1>8, <1>9, EmptyUnlessDirectory DEF DiskOK
  <2>2. e.free + e.inode[n].blocks <= d.free + d.inode[n].blocks
    BY <1>9, <1>10, <1>13, <1>14
  <2>3. /\ n \in Inode \ {Root} /\ n \in d.used /\ e.used = d.used
        /\ e.inode[n].links # 0
    BY <1>2, <1>8, <1>9, <1>10, <1>13, <1>14
  <2>4. /\ DiskOK(d) /\ e \in Disk /\ e.used = d.used /\ e.entries = d.entries
        /\ e.torn = d.torn /\ e.inode[n].blocks = d.inode[n].blocks
    BY <1>8, <1>9, <1>10, <1>13, <1>14
  <2>5. QED
    BY <1>14, <2>1, <2>2, <2>3, <2>4, WriteOK
<1>17. NotOlder(disk, e)
  <2>1. NotOlder(disk, disk)
    BY StartIsLeft DEF Left
  <2>2. QED
    BY <1>10, <1>14, <1>15, <2>1 DEF NotOlder, SameNode
<1>18. /\ Cardinality(NamesOf(e, n)) = Cardinality(NamesOf(disk, n)) + 1
       /\ \A m : m # n => NamesOf(e, m) = NamesOf(disk, m)
  <2>1. e.entries = disk.entries \cup {<<dir, name, n>>}
    BY <1>8, <1>13
  <2>2. QED
    BY <1>1, <1>3, <2>1, NamesWith
<1>19. ASSUME NamesOK(disk) PROVE NamesOK(e)
  <2>1. SUFFICES ASSUME NEW m \in Inode
                 PROVE  /\ m \notin e.used => NamesOf(e, m) = {}
                        /\ Cardinality(NamesOf(e, m)) <= e.inode[m].links
                        /\ e.inode[m].type = "dir" => e.inode[m].links = 1
    BY DEF NamesOK
  <2>2. CASE m = n
    <3>1. Cardinality(NamesOf(disk, n)) <= disk.inode[n].links
      BY <1>19 DEF NamesOK
    <3>2. Cardinality(NamesOf(disk, n)) \in Nat
      BY <1>1, NamesAreFinite
    <3>3. Cardinality(NamesOf(e, n)) <= i.links
      BY <1>9, <1>10, <1>18, <3>1, <3>2
    <3>4. m \in e.used /\ e.inode[m] = i /\ i.type # "dir"
      BY <1>2, <1>10, <1>13, <1>14, <2>2
    <3>5. QED
      BY <2>2, <3>3, <3>4
  <2>3. CASE m # n
    BY <1>13, <1>15, <1>18, <1>19, <2>3 DEF NamesOK, SameNode
  <2>4. QED
    BY <2>2, <2>3
<1>20. e \in Left(disk) /\ e \in Kept(disk)
  BY <1>13, <1>16, <1>17, <1>19 DEF Left, Kept
<1>21. named \o <<e>> \in Seq(Kept(disk)) /\ named \o <<e>> # <<>> /\ Last(named \o <<e>>) = e
  <2> HIDE DEF e
  <2>1. QED
    BY <1>6, <1>20, Continued
<1>22. Fresh(disk, e) /\ Invisible(disk, e)
  BY <1>3, <1>8, <1>13 DEF Fresh, Invisible
<1>23. Stays(disk, e, disk.used)
  BY <1>1, <1>10, <1>13, <1>14, <1>15 DEF Stays, SameNode
<1>24. Linked(disk, e)
  <2>1. SUFFICES ASSUME NamesOK(disk), LinksOK(disk) PROVE LinksOK(e)
    BY <1>19 DEF Linked
  <2>2. e.inode[n].links = Cardinality(NamesOf(e, n)) /\ e.inode[n].type # "none"
    BY <1>2, <1>10, <1>14, <1>18, <2>1 DEF LinksOK
  <2>3. QED
    BY <1>1, <1>13, <1>15, <1>18, <2>1, <2>2 DEF LinksOK, SameNode
<1>25. Balanced(disk, e)
  <2>1. SUFFICES ASSUME FullOK(disk) PROVE FullOK(e)
    BY DEF Balanced
  <2>2. FullOK(d)
    BY <1>1, <1>2, <1>8, <2>1, FullStep
  <2>3. e.free + e.inode[n].blocks = d.free + d.inode[n].blocks
    BY <1>9, <1>10, <1>13, <1>14
  <2>4. SpaceOK(d) /\ n \in e.used /\ e.used = d.used /\ e.torn \subseteq d.torn
    BY <1>2, <1>8, <1>13 DEF DiskOK
  <2>5. /\ d \in Disk /\ e \in Disk /\ n \in Inode
        /\ \A m \in Inode \ {n} : e.inode[m] = d.inode[m] /\ (m \in d.used => m \in e.used)
    BY <1>1, <1>8, <1>13, <1>14, <2>4
  <2> HIDE DEF d, e
  <2>6. QED
    BY <2>2, <2>3, <2>4, <2>5, FullStep
<1>26. QED
  BY <1>20, <1>21, <1>22, <1>23, <1>24, <1>25 DEF Ended, named, d, e
----------------------------------------------------------------------------
(* Blocks taken or given back: the inode may be one that is free, when the *)
(* handle is older than the removal of its file by another process.        *)

\* An operation that does nothing leaves what it found.
LEMMA NothingDone ==
    ASSUME DiskOK(disk)
    PROVE  disk \in Left(disk) /\ Ended(disk, disk) /\ Stays(disk, disk, disk.used)
<1>1. Fresh(disk, disk) /\ Invisible(disk, disk) /\ Linked(disk, disk) /\ Balanced(disk, disk)
  BY DEF Fresh, Invisible, Linked, Balanced
<1>2. QED
  BY <1>1, StartIsLeft DEF Ended, Stays

\* Resizing changes no name and no occupant, wherever it stops.
LEMMA ResizedIsLeft ==
    ASSUME DiskOK(disk), NEW n \in Inode, NEW e \in Disk, DiskOK(e), Resized(disk, e, n)
    PROVE  /\ e \in Left(disk) /\ Fresh(disk, e) /\ Invisible(disk, e) /\ Linked(disk, e)
           /\ Stays(disk, e, disk.used)
<1>1. disk \in Disk /\ disk.used \subseteq Inode
  BY DEF DiskOK, Disk
<1>2. /\ e.used = disk.used /\ e.entries = disk.entries
      /\ \A m \in Inode : SameNode(disk.inode[m], e.inode[m])
  BY DEF Resized, SameNode
<1>3. NotOlder(disk, e)
  <2>1. NotOlder(disk, disk)
    BY StartIsLeft DEF Left
  <2>2. QED
    BY <1>2, <2>1 DEF NotOlder, SameNode
<1>4. \A m : NamesOf(e, m) = NamesOf(disk, m)
  BY <1>2 DEF NamesOf
<1>5. ASSUME NamesOK(disk) PROVE NamesOK(e)
  BY <1>2, <1>4, <1>5 DEF NamesOK, SameNode
<1>6. Linked(disk, e)
  <2>1. SUFFICES ASSUME LinksOK(disk) PROVE LinksOK(e)
    BY <1>5 DEF Linked
  <2>2. QED
    BY <1>1, <1>2, <1>4, <2>1 DEF LinksOK, SameNode
<1>7. Fresh(disk, e) /\ Invisible(disk, e) /\ Stays(disk, e, disk.used)
  BY <1>1, <1>2 DEF Fresh, Invisible, Stays, SameNode
<1>8. QED
  BY <1>3, <1>5, <1>6, <1>7 DEF Left

\* A trail that only resizes inode n, wherever it stops.
Harmless(trail, n) ==
    /\ trail \in Seq(Left(disk)) /\ trail # <<>>
    /\ Fresh(disk, Last(trail)) /\ Invisible(disk, Last(trail)) /\ Linked(disk, Last(trail))
    /\ n \in disk.used => Balanced(disk, Last(trail))
    /\ Stays(disk, Last(trail), disk.used)

\* Resizing a file changes its blocks and the free ones together, and no name.
LEMMA ResizingIsHarmless ==
    ASSUME DiskOK(disk), NEW n \in Inode, NEW end \in Nat, n \notin disk.torn,
           disk.inode[n].type # "dir" \/ end >= disk.inode[n].blocks
    PROVE  Harmless(Resizing(disk, n, end), n)
<1> DEFINE trail == Resizing(disk, n, end)
           S == {x \in Disk : DiskOK(x) /\ Resized(disk, x, n)}
           e == Last(trail)
<1> HIDE DEF trail
<1>2. /\ trail \in Seq(S) /\ trail # <<>> /\ e.torn = disk.torn
      /\ e.free + e.inode[n].blocks = disk.free + disk.inode[n].blocks
  BY ResizingTrail DEF trail
<1>3. S \subseteq Left(disk)
  BY ResizedIsLeft
<1>4. e \in S
  BY <1>2, LastIn
<1>5. trail \in Seq(Left(disk))
  BY <1>2, <1>3, SeqWithin
<1> HIDE DEF e
<1>6. ASSUME n \in disk.used, FullOK(disk) PROVE FullOK(e)
  <2>1. /\ disk \in Disk /\ SpaceOK(disk) /\ e \in Disk /\ e.used = disk.used
        /\ \A m \in Inode \ {n} : e.inode[m] = disk.inode[m]
    BY <1>4 DEF DiskOK, Resized
  <2>2. QED
    BY <1>2, <1>6, <2>1, FullStep
<1>7. /\ Fresh(disk, e) /\ Invisible(disk, e) /\ Linked(disk, e)
      /\ Stays(disk, e, disk.used)
  BY <1>4, ResizedIsLeft
<1>8. QED
  BY <1>2, <1>5, <1>6, <1>7 DEF Harmless, Balanced, e, trail

\* So is a trail of no step.
LEMMA StandingIsHarmless ==
    ASSUME DiskOK(disk), NEW n
    PROVE  Harmless(<<disk>>, n)
<1>1. <<disk>> \in Seq(Left(disk)) /\ <<disk>> # <<>> /\ Last(<<disk>>) = disk
  BY NothingDone DEF Last
<1>2. QED
  BY <1>1, NothingDone DEF Harmless, Ended

\* So is a write that may extend the file.
LEMMA ExtendingIsHarmless ==
    ASSUME DiskOK(disk), NEW n \in Inode, NEW end \in Nat, n \notin disk.torn
    PROVE  Harmless(Extending(disk, n, end), n)
<1>1. CASE end > disk.inode[n].blocks
  <2>1. disk.inode[n].blocks \in Nat
    BY DEF DiskOK, Disk, InodeContents
  <2>2. end >= disk.inode[n].blocks
    BY <1>1, <2>1
  <2>3. Extending(disk, n, end) = Resizing(disk, n, end)
    BY <1>1 DEF Extending
  <2>4. QED
    BY <2>2, <2>3, ResizingIsHarmless
<1>2. CASE ~ (end > disk.inode[n].blocks)
  <2>1. Extending(disk, n, end) = <<disk>>
    BY <1>2 DEF Extending
  <2>2. QED
    BY <2>1, StandingIsHarmless
<1>3. QED
  BY <1>1, <1>2
----------------------------------------------------------------------------
(* Handles.                                                                *)

Handle == {Closed} \cup [inode : Inode, generation : 0 .. MaxGeneration,
                         mode : {"read", "write", "both"}]
Mapping == {NoMapping} \cup [inode : Inode, generation : 0 .. MaxGeneration,
                             end : Ends \ {0}, writes : BOOLEAN]

\* A handle is not from the future.
Aged(h) == h.inode \in Inode => h.generation <= disk.inode[h.inode].generation

HandlesOK ==
    /\ mounted \subseteq Procs
    /\ fds \in [Procs -> [Fd -> Handle]] /\ maps \in [Procs -> [Slot -> Mapping]]
    /\ \A p \in Procs : /\ \A fd \in Fd : Aged(fds[p][fd])
                        /\ \A m \in Slot : Aged(maps[p][m])

\* A handle is of the file it was opened on.
Current(h) ==
    h.inode # NoInode => /\ h.inode \in disk.used /\ disk.inode[h.inode].type = "file"
                         /\ disk.inode[h.inode].generation = h.generation
AllCurrent ==
    \A p \in Procs : /\ \A fd \in Fd : Current(fds[p][fd])
                     /\ \A m \in Slot : Current(maps[p][m])

OneProcess == \A p, q \in Procs : p = q

\* An operation of a step, if there is one, runs to its end.
Complete == ~ MayDie \/ mounted' = mounted

\* What every step does.
Step ==
    /\ disk' \in Kept(disk)
    /\ Links = {} => disk' \in Left(disk)
    /\ Complete => /\ disk' \in Left(disk)
                   /\ Fresh(disk, disk') /\ Invisible(disk, disk') /\ Linked(disk, disk')
                   /\ AllCurrent => Balanced(disk, disk')
    /\ HandlesOK'
    /\ OneProcess /\ AllCurrent => AllCurrent'

\* What an operation leaves with its counts right, it leaves.
LEMMA LeftIsKept == \A b : Left(b) \subseteq Kept(b)
BY DEF Left, Kept

\* Closed descriptors and empty slots are handles and mappings of no inode.
LEMMA Types ==
    /\ Closed \in Handle /\ NoMapping \in Mapping
    /\ NoFds \in [Fd -> Handle] /\ NoMaps \in [Slot -> Mapping]
    /\ \A fd \in Fd : NoFds[fd] = Closed
    /\ \A m \in Slot : NoMaps[m] = NoMapping
    /\ Closed.inode = NoInode /\ NoMapping.inode = NoInode
    /\ NoInode \notin Inode
BY Inodes DEF Handle, Mapping, NoFds, NoMaps, Closed, NoMapping

\* The tables of one process change, if any do.
LEMMA TablesStep ==
    ASSUME DiskOK(disk), HandlesOK, disk' \in Kept(disk), NEW p \in Procs,
           mounted' \subseteq Procs,
           NEW F \in [Fd -> Handle], fds' = [fds EXCEPT ![p] = F],
           NEW M \in [Slot -> Mapping], maps' = [maps EXCEPT ![p] = M],
           \A fd \in Fd : Aged(F[fd]), \A m \in Slot : Aged(M[m])
    PROVE  HandlesOK'
<1>1. /\ fds' \in [Procs -> [Fd -> Handle]] /\ maps' \in [Procs -> [Slot -> Mapping]]
      /\ \A q \in Procs : /\ fds'[q] = IF q = p THEN F ELSE fds[q]
                          /\ maps'[q] = IF q = p THEN M ELSE maps[q]
  BY DEF HandlesOK
<1>2. ASSUME NEW h, Aged(h), h \in Handle \cup Mapping
      PROVE  h.inode \in Inode => h.generation <= disk'.inode[h.inode].generation
  <2>1. SUFFICES ASSUME h.inode \in Inode PROVE h.generation <= disk'.inode[h.inode].generation
    OBVIOUS
  <2>2. /\ disk.inode[h.inode].generation \in Nat /\ disk'.inode[h.inode].generation \in Nat
        /\ disk.inode[h.inode].generation <= disk'.inode[h.inode].generation
    BY <2>1 DEF Kept, NotOlder, DiskOK, Disk, InodeContents
  <2>3. h.generation <= disk.inode[h.inode].generation
    BY <1>2, <2>1 DEF Aged
  <2>4. h.generation \in Nat
    <3>1. h # Closed /\ h # NoMapping
      BY <2>1, Types
    <3>2. QED
      BY <1>2, <3>1 DEF Handle, Mapping
  <2>5. QED
    BY <2>2, <2>3, <2>4
<1>3. \A q \in Procs : \A fd \in Fd :
         Aged(fds'[q][fd]) /\ fds'[q][fd] \in Handle
  BY <1>1 DEF HandlesOK
<1>4. \A q \in Procs : \A m \in Slot :
         Aged(maps'[q][m]) /\ maps'[q][m] \in Mapping
  BY <1>1 DEF HandlesOK
<1>5. \A q \in Procs : \A fd \in Fd : Aged(fds[q][fd])'
  BY <1>2, <1>3 DEF Aged
<1>6. \A q \in Procs : \A m \in Slot : Aged(maps[q][m])'
  BY <1>2, <1>4 DEF Aged
<1>7. QED
  BY <1>1, <1>5, <1>6 DEF HandlesOK

\* A step that ends, with what the tables hold after it.
LEMMA TablesAfter ==
    ASSUME DiskOK(disk), HandlesOK, NEW p \in Procs, mounted' \subseteq Procs,
           disk' \in Left(disk), Fresh(disk, disk'), Invisible(disk, disk'),
           Linked(disk, disk'), AllCurrent => Balanced(disk, disk'),
           Stays(disk, disk', disk.used),
           NEW F \in [Fd -> Handle], fds' = [fds EXCEPT ![p] = F],
           NEW M \in [Slot -> Mapping], maps' = [maps EXCEPT ![p] = M],
           \A fd \in Fd : Aged(F[fd]), \A m \in Slot : Aged(M[m]),
           AllCurrent => /\ \A fd \in Fd : Current(F[fd])
                         /\ \A m \in Slot : Current(M[m])
    PROVE  Step
<1>1. disk' \in Kept(disk)
  BY LeftIsKept
<1>2. HandlesOK'
  BY <1>1, TablesStep
<1>3. ASSUME AllCurrent PROVE AllCurrent'
  <2>1. \A q \in Procs : /\ fds'[q] = IF q = p THEN F ELSE fds[q]
                         /\ maps'[q] = IF q = p THEN M ELSE maps[q]
    BY DEF HandlesOK
  <2>2. /\ \A q \in Procs : \A fd \in Fd : Current(fds'[q][fd])
        /\ \A q \in Procs : \A m \in Slot : Current(maps'[q][m])
    BY <1>3, <2>1 DEF AllCurrent
  <2>3. ASSUME NEW h, Current(h)
        PROVE  h.inode # NoInode =>
                  /\ h.inode \in disk'.used /\ disk'.inode[h.inode].type = "file"
                  /\ disk'.inode[h.inode].generation = h.generation
    BY <2>3 DEF Current, Stays
  <2>4. /\ \A q \in Procs : \A fd \in Fd : Current(fds[q][fd])'
        /\ \A q \in Procs : \A m \in Slot : Current(maps[q][m])'
    <3>1. ASSUME NEW q \in Procs, NEW fd \in Fd PROVE Current(fds[q][fd])'
      <4>1. Current(fds'[q][fd])
        BY <2>2
      <4>2. QED
        BY <2>3, <4>1 DEF Current
    <3>2. ASSUME NEW q \in Procs, NEW m \in Slot PROVE Current(maps[q][m])'
      <4>1. Current(maps'[q][m])
        BY <2>2
      <4>2. QED
        BY <2>3, <4>1 DEF Current
    <3>3. QED
      BY <3>1, <3>2
  <2>5. QED
    BY <2>4 DEF AllCurrent
<1>4. QED
  BY <1>1, <1>2, <1>3 DEF Step

\* An operation that is a trail of disks.
LEMMA TrailDone ==
    ASSUME DiskOK(disk), HandlesOK, NEW p \in Procs, NEW trail, Do(p, trail),
           trail \in Seq(Kept(disk)), trail # <<>>, Links = {} => trail \in Seq(Left(disk)),
           Last(trail) \in Left(disk), Fresh(disk, Last(trail)), Invisible(disk, Last(trail)),
           Linked(disk, Last(trail)), AllCurrent => Balanced(disk, Last(trail)),
           NEW S, Stays(disk, Last(trail), S),
           AllCurrent => /\ \A fd \in Fd : fds[p][fd].inode \in S \cup {NoInode}
                         /\ \A m \in Slot : maps[p][m].inode \in S \cup {NoInode}
    PROVE  Step
<1>1. /\ disk' \in Kept(disk)
      /\ Complete => disk' = Last(trail)
      /\ UNCHANGED <<mounted, fds, maps>> \/ (MayDie /\ Gone(p))
  <2>1. /\ disk' \in Kept(disk) /\ (~ MayDie \/ mounted' = mounted => disk' = Last(trail))
        /\ UNCHANGED <<mounted, fds, maps>> \/ (MayDie /\ Gone(p))
    BY DoneWithin
  <2>2. QED
    BY <2>1 DEF Complete
<1>2. Links = {} => disk' \in Left(disk)
  BY DoneWithin
<1>3. CASE UNCHANGED <<mounted, fds, maps>>
  <2>1. Complete /\ disk' = Last(trail)
    BY <1>1, <1>3 DEF Complete
  <2>2. HandlesOK'
    <3>1. /\ fds[p] \in [Fd -> Handle] /\ fds' = [fds EXCEPT ![p] = fds[p]]
          /\ maps[p] \in [Slot -> Mapping] /\ maps' = [maps EXCEPT ![p] = maps[p]]
          /\ mounted' \subseteq Procs
          /\ \A fd \in Fd : Aged(fds[p][fd])
          /\ \A m \in Slot : Aged(maps[p][m])
      BY <1>3 DEF HandlesOK
    <3>2. QED
      BY <1>1, <3>1, TablesStep
  <2>3. ASSUME OneProcess, AllCurrent PROVE AllCurrent'
    <3>1. ASSUME NEW h, Current(h), h.inode \in S \cup {NoInode}
          PROVE  h.inode # NoInode =>
                    /\ h.inode \in disk'.used /\ disk'.inode[h.inode].type = "file"
                    /\ disk'.inode[h.inode].generation = h.generation
      BY <2>1, <3>1 DEF Current, Stays
    <3>2. ASSUME NEW q \in Procs
          PROVE  /\ \A fd \in Fd : Current(fds[q][fd]) /\ fds[q][fd].inode \in S \cup {NoInode}
                 /\ \A m \in Slot : Current(maps[q][m]) /\ maps[q][m].inode \in S \cup {NoInode}
      <4>1. q = p
        BY <2>3 DEF OneProcess
      <4>2. QED
        BY <2>3, <4>1 DEF AllCurrent
    <3>3. /\ \A q \in Procs : \A fd \in Fd : Current(fds[q][fd])'
          /\ \A q \in Procs : \A m \in Slot : Current(maps[q][m])'
      BY <1>3, <3>1, <3>2 DEF Current
    <3>4. QED
      BY <3>3 DEF AllCurrent
  <2>4. QED
    BY <1>1, <1>2, <2>1, <2>2, <2>3 DEF Step
<1>4. CASE MayDie /\ Gone(p)
  <2>1. HandlesOK'
    <3>1. /\ NoFds \in [Fd -> Handle] /\ NoMaps \in [Slot -> Mapping]
          /\ \A fd \in Fd : Aged(NoFds[fd])
          /\ \A m \in Slot : Aged(NoMaps[m])
      BY Types DEF Aged
    <3>2. mounted' \subseteq Procs
      BY <1>4 DEF Gone, HandlesOK
    <3>3. QED
      BY <1>1, <1>4, <3>1, <3>2, TablesStep DEF Gone
  <2>2. ASSUME OneProcess PROVE AllCurrent'
    <3>1. \A q \in Procs : fds'[q] = NoFds /\ maps'[q] = NoMaps
      BY <1>4, <2>2 DEF Gone, HandlesOK, OneProcess
    <3>2. /\ \A q \in Procs : \A fd \in Fd : Current(fds[q][fd])'
          /\ \A q \in Procs : \A m \in Slot : Current(maps[q][m])'
      BY <3>1, Types DEF Current
    <3>3. QED
      BY <3>2 DEF AllCurrent
  <2>3. QED
    BY <1>1, <1>2, <2>1, <2>2 DEF Step
<1>5. QED
  BY <1>1, <1>3, <1>4
----------------------------------------------------------------------------
(* The operations on names.                                                *)

\* Handles that are current are of allocated inodes.
LEMMA CurrentIsUsed ==
    ASSUME NEW p \in Procs, AllCurrent
    PROVE  /\ \A fd \in Fd : fds[p][fd].inode \in disk.used \cup {NoInode}
           /\ \A m \in Slot : maps[p][m].inode \in disk.used \cup {NoInode}
BY DEF AllCurrent, Current

\* Creating a file, a directory or a symbolic link is a step that keeps what it must.
LEMMA CreateStep ==
    ASSUME DiskOK(disk), HandlesOK, NEW p \in Procs, NEW path \in Paths,
           NEW type \in {"file", "dir", "symlink"}, NEW target \in {NoTarget} \cup Targets,
           Create(p, path, type, target)
    PROVE  Step
<1> DEFINE trail == Creation(Parent(path), Last(path), type, target)
<1>1. Do(p, trail)
  BY DEF Create
<1>2. /\ Parent(path) \in Inode /\ disk.inode[Parent(path)].type = "dir"
      /\ \A e \in disk.entries : ~ (e[1] = Parent(path) /\ e[2] = Last(path))
      /\ Last(path) \in {Last(q) : q \in Paths}
  BY VacantIsFree DEF Create
<1>3. /\ Inode \ disk.used # {} /\ Parent(path) \notin disk.torn
      /\ disk.inode[Min(Inode \ disk.used)].generation < MaxGeneration
  BY DEF Create, Vacant
<1>4. /\ trail \in Seq(Left(disk)) /\ trail # <<>> /\ Ended(disk, Last(trail))
      /\ Stays(disk, Last(trail), disk.used)
  BY <1>2, <1>3, CreationTrail
<1> HIDE DEF trail
<1>5. trail \in Seq(Kept(disk)) /\ Last(trail) \in Left(disk)
  BY <1>4, LeftIsKept, SeqWithin, LastIn
<1>6. AllCurrent => /\ \A fd \in Fd : fds[p][fd].inode \in disk.used \cup {NoInode}
                    /\ \A m \in Slot : maps[p][m].inode \in disk.used \cup {NoInode}
  BY CurrentIsUsed
<1>7. QED
  BY <1>1, <1>4, <1>5, <1>6, TrailDone DEF Ended

\* So is removing a directory.
LEMMA RmdirStep ==
    ASSUME DiskOK(disk), HandlesOK, NEW p \in Procs, NEW path, Rmdir(p, path)
    PROVE  Step
<1> DEFINE n == Found(path)
           removed == DirectoryRemove(disk, Parent(path), Last(path))
           trail == <<removed>> \o FreeInode(removed, n)
<1>1. /\ n # NoInode /\ disk.inode[n].type = "dir" /\ EntriesOf(disk, n) = {}
      /\ Do(p, trail) /\ n \notin disk.torn
  BY DEF Rmdir
<1>2. n \in disk.used \ {Root} /\ n \in Inode /\ <<Parent(path), Last(path), n>> \in disk.entries
  BY <1>1, FoundIsThere
<1>3. NamesOK(disk) => disk.inode[n].links = 1
  BY <1>1, <1>2 DEF NamesOK
<1>4. /\ trail \in Seq(Left(disk)) /\ trail # <<>> /\ Ended(disk, Last(trail))
      /\ Stays(disk, Last(trail), disk.used \ {n})
  BY <1>1, <1>2, <1>3, GoneTrail
<1> HIDE DEF trail, n
<1>5. trail \in Seq(Kept(disk)) /\ Last(trail) \in Left(disk)
  BY <1>4, LeftIsKept, SeqWithin, LastIn
<1>6. AllCurrent => /\ \A fd \in Fd : fds[p][fd].inode \in (disk.used \ {n}) \cup {NoInode}
                    /\ \A m \in Slot : maps[p][m].inode \in (disk.used \ {n}) \cup {NoInode}
  BY <1>1 DEF AllCurrent, Current
<1>7. QED
  BY <1>1, <1>4, <1>5, <1>6, TrailDone DEF Ended

\* So is removing a name.
LEMMA UnlinkStep ==
    ASSUME DiskOK(disk), HandlesOK, NEW p \in Procs, NEW path, Unlink(p, path)
    PROVE  Step
<1> DEFINE n == Found(path)
           trail == Unlinked(Parent(path), Last(path), n)
<1>1. /\ n # NoInode /\ disk.inode[n].type \in {"file", "symlink"} /\ ~ InUse(p, n)
      /\ Do(p, trail) /\ (disk.inode[n].links = 1 => n \notin disk.torn)
  BY DEF Unlink
<1>2. n \in disk.used \ {Root} /\ <<Parent(path), Last(path), n>> \in disk.entries
  BY <1>1, FoundIsThere
<1>3. /\ trail \in Seq(Left(disk)) /\ trail # <<>> /\ Ended(disk, Last(trail))
      /\ Stays(disk, Last(trail), disk.used \ {n})
  BY <1>1, <1>2, UnlinkedTrail
<1> HIDE DEF trail, n
<1>4. trail \in Seq(Kept(disk)) /\ Last(trail) \in Left(disk)
  BY <1>3, LeftIsKept, SeqWithin, LastIn
<1>5. AllCurrent => /\ \A fd \in Fd : fds[p][fd].inode \in (disk.used \ {n}) \cup {NoInode}
                    /\ \A m \in Slot : maps[p][m].inode \in (disk.used \ {n}) \cup {NoInode}
  BY <1>1, CurrentIsUsed DEF InUse
<1>6. QED
  BY <1>1, <1>3, <1>4, <1>5, TrailDone DEF Ended

\* So is adding one.
LEMMA LinkStep ==
    ASSUME DiskOK(disk), HandlesOK, NEW p \in Procs, NEW pair \in Links,
           Link(p, pair[1], pair[2])
    PROVE  Step
<1> DEFINE n == ResolveNoFollow(pair[1])
           dir == Parent(pair[2])
           name == Last(pair[2])
           named == DirectoryAdd(disk, dir, name, n)
           trail == named \o << [Last(named) EXCEPT !.inode[n].links = @ + 1] >>
<1>1. /\ n # NoInode /\ disk.inode[n].type \in {"file", "symlink"}
      /\ Vacant(pair[2]) /\ HasRoom(disk, dir) /\ Do(p, trail) /\ dir \notin disk.torn
  BY DEF Link, Vacant
<1>2. n \in Inode
  BY <1>1, ResolvedIsInode
<1>3. /\ dir \in Inode /\ disk.inode[dir].type = "dir"
      /\ \A e \in disk.entries : ~ (e[1] = dir /\ e[2] = name)
      /\ name \in {Last(q) : q \in Paths}
  <2>1. pair[2] \in Paths
    BY Numbers
  <2>2. QED
    BY <1>1, <2>1, VacantIsFree
<1>4. /\ trail \in Seq(Kept(disk)) /\ trail # <<>>
      /\ Last(trail) \in Left(disk) /\ Ended(disk, Last(trail))
      /\ Stays(disk, Last(trail), disk.used)
  BY <1>1, <1>2, <1>3, LinkTrail
<1> HIDE DEF trail
<1>5. Links # {}
  OBVIOUS
<1>6. AllCurrent => /\ \A fd \in Fd : fds[p][fd].inode \in disk.used \cup {NoInode}
                    /\ \A m \in Slot : maps[p][m].inode \in disk.used \cup {NoInode}
  BY CurrentIsUsed
<1>7. QED
  BY <1>1, <1>4, <1>5, <1>6, TrailDone DEF Ended
----------------------------------------------------------------------------
(* The operations on files.                                                *)

\* An operation that only resizes an inode.
LEMMA FileStep ==
    ASSUME DiskOK(disk), HandlesOK, NEW p \in Procs, NEW n, NEW trail, Harmless(trail, n),
           Do(p, trail), AllCurrent => n \in disk.used
    PROVE  Step
<1>1. trail \in Seq(Kept(disk)) /\ Last(trail) \in Left(disk)
  BY LeftIsKept, SeqWithin, LastIn DEF Harmless
<1>2. AllCurrent => /\ \A fd \in Fd : fds[p][fd].inode \in disk.used \cup {NoInode}
                    /\ \A m \in Slot : maps[p][m].inode \in disk.used \cup {NoInode}
  BY CurrentIsUsed
<1>3. QED
  BY <1>1, <1>2, TrailDone DEF Harmless

\* So is truncating by path.
LEMMA TruncateStep ==
    ASSUME DiskOK(disk), HandlesOK, NEW p \in Procs, NEW path, NEW end \in Ends,
           Truncate(p, path, end)
    PROVE  Step
<1> DEFINE n == Resolve(path)
<1>1. /\ n # NoInode /\ disk.inode[n].type = "file" /\ n \notin disk.torn
      /\ Do(p, Resizing(disk, n, end))
  BY DEF Truncate
<1>2. n \in Inode /\ end \in Nat
  BY <1>1, ResolvedIsInode, Numbers
<1>3. n \in disk.used
  BY <1>1, <1>2 DEF DiskOK, TreeOK
<1> HIDE DEF n
<1>4. Harmless(Resizing(disk, n, end), n)
  BY <1>1, <1>2, ResizingIsHarmless
<1>5. QED
  BY <1>1, <1>3, <1>4, FileStep

\* What a handle that is in use is of.
LEMMA HandleIsOpen ==
    ASSUME HandlesOK, NEW p \in Procs
    PROVE  /\ \A fd \in Fd : /\ fds[p][fd] \in Handle /\ Aged(fds[p][fd])
                             /\ fds[p][fd].mode \in {"read", "write", "both"} =>
                                   /\ fds[p][fd].inode \in Inode
                                   /\ fds[p][fd].generation \in 0 .. MaxGeneration
           /\ \A m \in Slot : /\ maps[p][m] \in Mapping /\ Aged(maps[p][m])
                              /\ maps[p][m] # NoMapping =>
                                    /\ maps[p][m].inode \in Inode
                                    /\ maps[p][m].end \in Nat
                              /\ maps[p][m].writes => maps[p][m] # NoMapping
<1>1. /\ fds[p] \in [Fd -> Handle] /\ maps[p] \in [Slot -> Mapping]
      /\ \A fd \in Fd : Aged(fds[p][fd])
      /\ \A m \in Slot : Aged(maps[p][m])
  BY DEF HandlesOK
<1>2. \A h \in Handle : h.mode \in {"read", "write", "both"} =>
         h.inode \in Inode /\ h.generation \in 0 .. MaxGeneration
  BY DEF Handle, Closed
<1>3. \A h \in Mapping : /\ h # NoMapping => h.inode \in Inode /\ h.end \in Nat
                         /\ h.writes => h # NoMapping
  <2>1. \A h \in Mapping : h # NoMapping => h.inode \in Inode /\ h.end \in Nat
    BY Numbers DEF Mapping
  <2>2. ~ NoMapping.writes
    BY Zenon DEF NoMapping
  <2>3. \A h : h.writes => h # NoMapping
    BY <2>2, Zenon
  <2>4. QED
    BY <2>1, <2>3
<1>4. QED
  BY <1>1, <1>2, <1>3

\* So is writing to a descriptor.
LEMMA WriteStep ==
    ASSUME DiskOK(disk), HandlesOK, NEW p \in Procs, NEW fd \in Fd, NEW end \in Ends,
           Write(p, fd, end)
    PROVE  Step
<1> DEFINE n == fds[p][fd].inode
           trail == Extending(disk, n, end)
<1>1. fds[p][fd].mode \in {"write", "both"} /\ Do(p, trail) /\ n \notin disk.torn
  BY DEF Write
<1>2. n \in Inode /\ end \in Nat
  BY <1>1, HandleIsOpen, Numbers
<1>3. AllCurrent => n \in disk.used
  BY <1>2, CurrentIsUsed, Inodes
<1> HIDE DEF n
<1>4. Harmless(trail, n)
  BY <1>1, <1>2, ExtendingIsHarmless
<1> HIDE DEF trail
<1>5. QED
  BY <1>1, <1>3, <1>4, FileStep

\* Writing a mapping back extends at most the file it is of.
LEMMA SyncingIsHarmless ==
    ASSUME DiskOK(disk), HandlesOK, NEW p \in Procs, NEW m \in Slot, NEW end \in Nat,
           maps[p][m] # NoMapping, CanSync(maps[p][m])
    PROVE  /\ Harmless(Synced(maps[p][m], end), maps[p][m].inode)
           /\ AllCurrent => maps[p][m].inode \in disk.used
<1> DEFINE map == maps[p][m]
<1>1. map.inode \in Inode /\ (AllCurrent => map.inode \in disk.used)
  <2>1. map.inode \in Inode
    BY HandleIsOpen
  <2>2. QED
    BY <2>1, CurrentIsUsed, Inodes
<1>2. CASE map.writes
  <2>1. Synced(map, end) = Extending(disk, map.inode, end) /\ map.inode \notin disk.torn
    BY <1>2 DEF Synced, CanSync
  <2>2. QED
    BY <1>1, <2>1, ExtendingIsHarmless
<1>3. CASE ~ map.writes
  <2>1. Synced(map, end) = <<disk>>
    BY <1>3 DEF Synced
  <2>2. QED
    BY <1>1, <2>1, StandingIsHarmless
<1>4. QED
  BY <1>2, <1>3

\* So it is a step that keeps what it must.
LEMMA MsyncStep ==
    ASSUME DiskOK(disk), HandlesOK, NEW p \in Procs, NEW m \in Slot, NEW end \in Ends,
           Msync(p, m, end)
    PROVE  Step
<1> DEFINE trail == Synced(maps[p][m], end)
<1>1. /\ maps[p][m] # NoMapping /\ Do(p, trail) /\ CanSync(maps[p][m]) /\ end \in Nat
  BY Numbers DEF Msync
<1>2. Harmless(trail, maps[p][m].inode) /\ (AllCurrent => maps[p][m].inode \in disk.used)
  BY <1>1, SyncingIsHarmless
<1> HIDE DEF trail
<1>3. QED
  BY <1>1, <1>2, FileStep
----------------------------------------------------------------------------
(* Opening, closing, mapping and what processes do as a whole.             *)

\* Only the tables change.
LEMMA TablesOnly ==
    ASSUME DiskOK(disk), HandlesOK, NEW p \in Procs, disk' = disk, mounted' \subseteq Procs,
           NEW F \in [Fd -> Handle], fds' = [fds EXCEPT ![p] = F],
           NEW M \in [Slot -> Mapping], maps' = [maps EXCEPT ![p] = M],
           \A fd \in Fd : Aged(F[fd]), \A m \in Slot : Aged(M[m]),
           AllCurrent => /\ \A fd \in Fd : Current(F[fd])
                         /\ \A m \in Slot : Current(M[m])
    PROVE  Step
BY NothingDone, TablesAfter DEF Ended

\* The tables of a process as they are.
LEMMA Tables ==
    ASSUME HandlesOK, NEW p \in Procs
    PROVE  /\ fds[p] \in [Fd -> Handle] /\ maps[p] \in [Slot -> Mapping]
           /\ \A fd \in Fd : Aged(fds[p][fd])
           /\ \A m \in Slot : Aged(maps[p][m])
           /\ AllCurrent => /\ \A fd \in Fd : Current(fds[p][fd])
                            /\ \A m \in Slot : Current(maps[p][m])
           /\ fds = [fds EXCEPT ![p] = fds[p]] /\ maps = [maps EXCEPT ![p] = maps[p]]
BY DEF HandlesOK, AllCurrent

\* Tables with nothing in them.
LEMMA NoTables ==
    /\ NoFds \in [Fd -> Handle] /\ NoMaps \in [Slot -> Mapping]
    /\ \A fd \in Fd : Aged(NoFds[fd]) /\ Current(NoFds[fd])
    /\ \A m \in Slot : Aged(NoMaps[m]) /\ Current(NoMaps[m])
    /\ Aged(Closed) /\ Current(Closed) /\ Aged(NoMapping) /\ Current(NoMapping)
BY Types DEF Aged, Current

\* A descriptor is set.
LEMMA FdSet ==
    ASSUME DiskOK(disk), HandlesOK, NEW p \in Procs, NEW k \in Fd, NEW h \in Handle,
           fds' = [fds EXCEPT ![p][k] = h], UNCHANGED <<disk, mounted, maps>>,
           Aged(h), AllCurrent => Current(h)
    PROVE  Step
<1> DEFINE F == [fds[p] EXCEPT ![k] = h]
<1>1. /\ fds[p] \in [Fd -> Handle] /\ maps[p] \in [Slot -> Mapping]
      /\ \A fd \in Fd : Aged(fds[p][fd])
      /\ \A m \in Slot : Aged(maps[p][m])
      /\ AllCurrent => /\ \A fd \in Fd : Current(fds[p][fd])
                       /\ \A m \in Slot : Current(maps[p][m])
      /\ maps = [maps EXCEPT ![p] = maps[p]]
  BY Tables
<1>2. F \in [Fd -> Handle] /\ \A fd \in Fd : F[fd] = IF fd = k THEN h ELSE fds[p][fd]
  BY <1>1
<1>3. fds' = [fds EXCEPT ![p] = F]
  OBVIOUS
<1> HIDE DEF F
<1>4. /\ \A fd \in Fd : Aged(F[fd])
      /\ AllCurrent => \A fd \in Fd : Current(F[fd])
  BY <1>1, <1>2
<1>5. mounted' \subseteq Procs
  BY DEF HandlesOK
<1>6. QED
  BY <1>1, <1>2, <1>3, <1>4, <1>5, TablesOnly

\* A mapping is set.
LEMMA MapSet ==
    ASSUME DiskOK(disk), HandlesOK, NEW p \in Procs, NEW k \in Slot, NEW h \in Mapping,
           maps' = [maps EXCEPT ![p][k] = h], UNCHANGED <<mounted, fds>>,
           Aged(h), AllCurrent => Current(h),
           disk' \in Left(disk), Fresh(disk, disk'), Invisible(disk, disk'),
           Linked(disk, disk'), AllCurrent => Balanced(disk, disk'),
           Stays(disk, disk', disk.used)
    PROVE  Step
<1> DEFINE M == [maps[p] EXCEPT ![k] = h]
<1>1. /\ fds[p] \in [Fd -> Handle] /\ maps[p] \in [Slot -> Mapping]
      /\ \A fd \in Fd : Aged(fds[p][fd])
      /\ \A m \in Slot : Aged(maps[p][m])
      /\ AllCurrent => /\ \A fd \in Fd : Current(fds[p][fd])
                       /\ \A m \in Slot : Current(maps[p][m])
      /\ fds = [fds EXCEPT ![p] = fds[p]]
  BY Tables
<1>2. M \in [Slot -> Mapping] /\ \A m \in Slot : M[m] = IF m = k THEN h ELSE maps[p][m]
  BY <1>1
<1>3. maps' = [maps EXCEPT ![p] = M]
  OBVIOUS
<1> HIDE DEF M
<1>4. /\ \A m \in Slot : Aged(M[m])
      /\ AllCurrent => \A m \in Slot : Current(M[m])
  BY <1>1, <1>2
<1>5. mounted' \subseteq Procs
  BY DEF HandlesOK
<1>6. QED
  BY <1>1, <1>2, <1>3, <1>4, <1>5, TablesAfter

\* So is opening, which makes no handle older than its inode.
LEMMA OpenStep ==
    ASSUME DiskOK(disk), HandlesOK, NEW p \in Procs, NEW path,
           NEW mode \in {"read", "write", "both"}, Open(p, path, mode)
    PROVE  Step
<1> DEFINE n == Resolve(path)
           k == Min(FreeFds(p))
           h == [inode |-> n, generation |-> disk.inode[n].generation, mode |-> mode]
<1>1. /\ n # NoInode /\ disk.inode[n].type = "file" /\ FreeFds(p) # {}
      /\ fds' = [fds EXCEPT ![p][k] = h] /\ UNCHANGED <<disk, mounted, maps>>
  BY DEF Open
<1>2. n \in Inode
  BY <1>1, ResolvedIsInode
<1>3. n \in disk.used /\ disk.inode[n].generation \in 0 .. MaxGeneration
  BY <1>1, <1>2 DEF DiskOK, TreeOK, Disk, InodeContents
<1>4. k \in Fd
  <2>1. FreeFds(p) \subseteq Nat /\ FreeFds(p) \subseteq Fd
    BY DEF FreeFds, Fd
  <2>2. QED
    BY <1>1, <2>1, MinIsLeast
<1>5. h \in Handle
  BY <1>2, <1>3 DEF Handle
<1>6. Aged(h) /\ Current(h)
  BY <1>1, <1>3 DEF Aged, Current
<1> HIDE DEF h, k
<1>7. QED
  BY <1>1, <1>4, <1>5, <1>6, FdSet

\* So is closing.
LEMMA CloseStep ==
    ASSUME DiskOK(disk), HandlesOK, NEW p \in Procs, NEW fd \in Fd, Close(p, fd)
    PROVE  Step
BY FdSet, NoTables, Types DEF Close

\* So is mapping.
LEMMA MmapStep ==
    ASSUME DiskOK(disk), HandlesOK, NEW p \in Procs, NEW fd \in Fd, NEW end \in Ends,
           NEW shared \in BOOLEAN, NEW writable \in BOOLEAN, Mmap(p, fd, end, shared, writable)
    PROVE  Step
<1> DEFINE n == fds[p][fd].inode
           g == fds[p][fd].generation
           k == Min(FreeSlots(p))
           writes == shared /\ writable
           h == [inode |-> n, generation |-> g, end |-> end, writes |-> writes]
<1>1. /\ FreeSlots(p) # {} /\ end > 0 /\ fds[p][fd].mode \in {"read", "both"}
      /\ disk.inode[n].generation = g /\ disk.inode[n].type = "file"
      /\ maps' = [maps EXCEPT ![p][k] = h] /\ UNCHANGED <<disk, mounted, fds>>
  BY DEF Mmap
<1>2. n \in Inode /\ g \in 0 .. MaxGeneration
  BY <1>1, HandleIsOpen
<1>3. k \in Slot
  <2>1. FreeSlots(p) \subseteq Nat /\ FreeSlots(p) \subseteq Slot
    BY DEF FreeSlots, Slot
  <2>2. QED
    BY <1>1, <2>1, MinIsLeast
<1>4. h \in Mapping
  <2>1. writes \in BOOLEAN
    BY Zenon
  <2>2. end \in Ends \ {0}
    BY <1>1
  <2> HIDE DEF writes
  <2>3. QED
    BY <1>2, <2>1, <2>2 DEF Mapping
<1>5. Aged(h) /\ Current(h)
  <2>1. h.inode = n /\ h.generation = g
    BY Zenon
  <2>2. n \in disk.used
    BY <1>1, <1>2 DEF DiskOK, TreeOK
  <2>3. g <= g
    BY <1>2
  <2> HIDE DEF h
  <2>4. QED
    BY <1>1, <2>1, <2>2, <2>3 DEF Aged, Current
<1> HIDE DEF h, k
<1>6. /\ disk' \in Left(disk) /\ Fresh(disk, disk') /\ Invisible(disk, disk')
      /\ Linked(disk, disk') /\ Balanced(disk, disk') /\ Stays(disk, disk', disk.used)
  BY <1>1, NothingDone DEF Ended
<1>7. QED
  BY <1>1, <1>3, <1>4, <1>5, <1>6, MapSet

\* So is unmapping.
LEMMA MunmapStep ==
    ASSUME DiskOK(disk), HandlesOK, NEW p \in Procs, NEW m \in Slot, Munmap(p, m)
    PROVE  Step
<1> DEFINE map == maps[p][m]
           trail == Synced(map, map.end)
<1>1. /\ map # NoMapping /\ CanSync(map) /\ disk' = Last(trail)
      /\ maps' = [maps EXCEPT ![p][m] = NoMapping] /\ UNCHANGED <<mounted, fds>>
  BY DEF Munmap
<1>2. map.end \in Nat
  BY <1>1, HandleIsOpen
<1>3. Harmless(trail, map.inode) /\ (AllCurrent => map.inode \in disk.used)
  BY <1>1, <1>2, SyncingIsHarmless
<1> HIDE DEF trail
<1>4. /\ disk' \in Left(disk) /\ Fresh(disk, disk') /\ Invisible(disk, disk')
      /\ Linked(disk, disk') /\ (AllCurrent => Balanced(disk, disk'))
      /\ Stays(disk, disk', disk.used)
  BY <1>1, <1>3, LastIn DEF Harmless
<1>5. QED
  BY <1>1, <1>4, NoTables, Types, MapSet

\* So are mounting, unmounting and dying.
LEMMA ProcessStep ==
    ASSUME DiskOK(disk), HandlesOK, NEW p \in Procs, Mount(p) \/ Unmount(p) \/ Die(p)
    PROVE  Step
<1>1. /\ fds' = [fds EXCEPT ![p] = NoFds] /\ disk' = disk /\ mounted' \subseteq Procs
      /\ maps' \in {maps, [maps EXCEPT ![p] = NoMaps]}
  BY DEF Mount, Unmount, Die, Gone, HandlesOK
<1>2. PICK M \in {maps[p], NoMaps} : maps' = [maps EXCEPT ![p] = M]
  BY <1>1, Tables
<1>3. /\ M \in [Slot -> Mapping] /\ \A m \in Slot : Aged(M[m])
      /\ AllCurrent => \A m \in Slot : Current(M[m])
  BY Tables, NoTables
<1>4. QED
  BY <1>1, <1>2, <1>3, NoTables, TablesOnly
----------------------------------------------------------------------------
(* The invariant, and what every step does.                                *)

Inv == DiskOK(disk) /\ HandlesOK

\* All parts of the invariant hold at the start.
LEMMA InvInit ==
    Init => Inv /\ NamesOK(disk) /\ LinksOK(disk) /\ FullOK(disk) /\ AllCurrent
<1> SUFFICES ASSUME Init
             PROVE  Inv /\ NamesOK(disk) /\ LinksOK(disk) /\ FullOK(disk) /\ AllCurrent
  OBVIOUS
<1>1. /\ disk = Formatted /\ mounted = {}
      /\ fds = [p \in Procs |-> NoFds] /\ maps = [p \in Procs |-> NoMaps]
  BY DEF Init
<1>2. 1 \in 0 .. MaxGeneration /\ 0 \in 0 .. MaxGeneration
  BY Numbers
<1>3. /\ Node("dir", 1, NoTarget) \in InodeContents
      /\ Node("dir", 1, NoTarget).type = "dir" /\ Node("dir", 1, NoTarget).links = 1
      /\ Node("dir", 1, NoTarget).blocks = 0
  BY <1>2, NodeIsContents
<1>4. /\ Blank(0) \in InodeContents /\ Blank(0).type = "none" /\ Blank(0).blocks = 0
      /\ Blank(0).links = 0
  BY <1>2, BlankIsContents
<1>5. /\ disk.used = {Root} /\ disk.free = DataBlocks /\ disk.entries = {} /\ disk.torn = {}
      /\ disk.inode = [n \in Inode |-> IF n = Root THEN Node("dir", 1, NoTarget) ELSE Blank(0)]
  BY <1>1 DEF Formatted
<1>6. disk \in Disk
  <2>1. /\ disk.inode \in [Inode -> InodeContents] /\ disk.used \subseteq Inode
        /\ disk.free \in Nat /\ disk.entries \subseteq Entry
    BY <1>3, <1>4, <1>5, Inodes, Numbers
  <2>0. disk.torn \subseteq Inode
    BY <1>5
  <2>2. disk = [used |-> disk.used, free |-> disk.free, entries |-> disk.entries,
                torn |-> disk.torn, inode |-> disk.inode]
    BY <1>1 DEF Formatted
  <2>3. QED
    BY <2>0, <2>1, <2>2 DEF Disk
<1>7. \A n \in Inode : disk.inode[n] = IF n = Root THEN Node("dir", 1, NoTarget) ELSE Blank(0)
  BY <1>5
<1>8. /\ \A n : EntriesOf(disk, n) = {} /\ NamesOf(disk, n) = {}
      /\ Cardinality({}) = 0 /\ IsFiniteSet({})
  BY <1>5, FS_EmptySet DEF EntriesOf, NamesOf
<1>9. TreeOK(disk)
  <2>1. Ranked({})
    <3>1. [n \in Inode |-> 0] \in [Inode -> Nat]
      OBVIOUS
    <3>2. QED
      BY <3>1 DEF Ranked
  <2>2. QED
    BY <1>3, <1>4, <1>5, <1>7, <1>8, <2>1, Inodes DEF TreeOK
<1>10. CapacityOK(disk)
  <2>1. \A n \in Inode : disk.inode[n].blocks \in Nat
    BY <1>3, <1>4, <1>7
  <2>2. \A n \in Inode : 0 <= disk.inode[n].blocks * EntriesPerBlock
    BY <2>1, Monotone
  <2>3. QED
    BY <1>8, <2>2 DEF CapacityOK
<1>11. Held(disk) = {}
  <2>1. \A n \in Inode : disk.inode[n].blocks = 0
    BY <1>3, <1>4, <1>7
  <2>2. \A n \in Inode : {n} \X (1 .. Sure(disk, n)) = {}
    BY <2>1 DEF Sure
  <2>3. QED
    BY <2>2 DEF Held
<1>12. SpaceOK(disk) /\ FullOK(disk)
  <2>1. disk.free + Cardinality(Held(disk)) = DataBlocks /\ IsFiniteSet(Held(disk))
    BY <1>5, <1>8, <1>11, Numbers
  <2>2. \A n \in Inode : disk.inode[n].blocks = 0
    BY <1>3, <1>4, <1>7
  <2>3. QED
    BY <1>5, <2>1, <2>2, Numbers DEF SpaceOK, FullOK
<1>13. NamesOK(disk) /\ LinksOK(disk)
  BY <1>3, <1>4, <1>5, <1>7, <1>8, Inodes DEF NamesOK, LinksOK
<1>14. HandlesOK /\ AllCurrent
  BY <1>1, NoTables, Types DEF HandlesOK, AllCurrent
<1>15. QED
  BY <1>6, <1>9, <1>10, <1>12, <1>13, <1>14 DEF Inv, DiskOK

\* Every operation on names is such a step.
LEMMA NamingStep ==
    ASSUME Inv, NEW p \in Procs, Naming(p)
    PROVE  Step
<1>1. DiskOK(disk) /\ HandlesOK
  BY DEF Inv
<1>2. ASSUME NEW path \in Paths, NEW type \in {"file", "dir"}, Create(p, path, type, NoTarget)
      PROVE  Step
  BY <1>1, <1>2, CreateStep
<1>3. ASSUME NEW path \in Paths, NEW target \in Targets, Create(p, path, "symlink", target)
      PROVE  Step
  BY <1>1, <1>3, CreateStep
<1>4. ASSUME NEW path \in Paths, Rmdir(p, path) \/ Unlink(p, path)
      PROVE  Step
  BY <1>1, <1>4, RmdirStep, UnlinkStep
<1>5. ASSUME NEW pair \in Links, Link(p, pair[1], pair[2])
      PROVE  Step
  BY <1>1, <1>5, LinkStep
<1>6. QED
  BY <1>2, <1>3, <1>4, <1>5 DEF Naming

\* Every operation on descriptors and mappings is.
LEMMA HandlingStep ==
    ASSUME Inv, NEW p \in Procs, Handling(p)
    PROVE  Step
<1>1. DiskOK(disk) /\ HandlesOK
  BY DEF Inv
<1>2. ASSUME NEW path \in Paths, NEW mode \in {"read", "write", "both"}, Open(p, path, mode)
      PROVE  Step
  BY <1>1, <1>2, OpenStep
<1>3. ASSUME NEW path \in Paths, NEW end \in Ends, Truncate(p, path, end)
      PROVE  Step
  BY <1>1, <1>3, TruncateStep
<1>4. ASSUME NEW fd \in Fd, Close(p, fd)
      PROVE  Step
  BY <1>1, <1>4, CloseStep
<1>5. ASSUME NEW fd \in Fd, NEW end \in Ends, Write(p, fd, end)
      PROVE  Step
  BY <1>1, <1>5, WriteStep
<1>6. ASSUME NEW fd \in Fd, NEW end \in Ends, NEW shared \in BOOLEAN, NEW writable \in BOOLEAN,
             Mmap(p, fd, end, shared, writable)
      PROVE  Step
  BY <1>1, <1>6, MmapStep
<1>7. ASSUME NEW m \in Slot, NEW end \in Ends, Msync(p, m, end)
      PROVE  Step
  BY <1>1, <1>7, MsyncStep
<1>8. ASSUME NEW m \in Slot, Munmap(p, m)
      PROVE  Step
  BY <1>1, <1>8, MunmapStep
<1>9. QED
  BY <1>2, <1>3, <1>4, <1>5, <1>6, <1>7, <1>8 DEF Handling

\* Every step is.
LEMMA NextStep ==
    ASSUME Inv, [Next]_vars
    PROVE  Step
<1>1. CASE UNCHANGED vars
  <2>1. /\ disk' = disk /\ mounted' = mounted /\ fds' = fds /\ maps' = maps
    BY <1>1 DEF vars
  <2>2. /\ disk \in Left(disk) /\ disk \in Kept(disk) /\ Fresh(disk, disk)
        /\ Invisible(disk, disk) /\ Linked(disk, disk) /\ Balanced(disk, disk)
    BY NothingDone, LeftIsKept DEF Inv, Ended
  <2>3. HandlesOK'
    BY <2>1 DEF Inv, HandlesOK, Aged
  <2>4. AllCurrent => AllCurrent'
    BY <2>1 DEF AllCurrent, Current
  <2>5. QED
    BY <2>1, <2>2, <2>3, <2>4 DEF Step
<1>2. CASE Next
  <2>1. PICK p \in Procs : Naming(p) \/ Handling(p) \/ Mount(p) \/ Unmount(p) \/ Die(p)
    BY <1>2 DEF Next
  <2>2. QED
    BY <2>1, NamingStep, HandlingStep, ProcessStep DEF Inv
<1>3. QED
  BY <1>1, <1>2

\* Every step keeps the invariant.
LEMMA InvStep == Inv /\ [Next]_vars => Inv'
<1> SUFFICES ASSUME Inv, [Next]_vars PROVE Inv'
  OBVIOUS
<1>1. disk' \in Kept(disk) /\ HandlesOK'
  BY NextStep DEF Step
<1>2. DiskOK(disk')
  BY <1>1 DEF Kept
<1>3. QED
  BY <1>1, <1>2 DEF Inv, DiskOK, TreeOK, Ranked, CapacityOK, SpaceOK, Held, Sure,
               EntriesOf

\* The invariant holds, wherever processes die.
LEMMA InvHolds == Spec => []Inv
BY InvInit, InvStep, PTL DEF Spec
----------------------------------------------------------------------------
(* Whatever processes do, wherever they die.                               *)

\* Types: no inode counts more blocks than the disk has, and the clear bits are
\* never fewer than none or more than all, whatever deaths inside a growth lose and
\* deaths inside a release leave free and counted; and every handle in use is of an
\* inode.  The superblock's own counter of free blocks, which a death may leave
\* wrong, is Storage's.
THEOREM NamespaceTypes == Spec => []TypeOK
<1>1. Inv => TypeOK
  <2> SUFFICES ASSUME Inv PROVE TypeOK
    OBVIOUS
  <2>1. disk \in Disk /\ SpaceOK(disk) /\ HandlesOK
    BY DEF Inv, DiskOK
  <2>2. /\ Cardinality(Held(disk)) \in Nat /\ disk.free \in Nat
        /\ disk.used \subseteq Inode /\ disk.torn \subseteq Inode
    BY <2>1, FS_CardinalityType DEF SpaceOK, Disk
  <2>3. disk.free \in 0 .. DataBlocks
    BY <2>1, <2>2, Numbers DEF SpaceOK
  <2>4. \A e \in disk.entries : e[1] \in Inode /\ e[3] \in Inode
    BY <2>1 DEF Disk, Entry
  <2>5. ASSUME NEW n \in Inode
        PROVE  /\ disk.inode[n].type \in {"none", "file", "dir", "symlink"}
               /\ disk.inode[n].generation \in 0 .. MaxGeneration
               /\ disk.inode[n].blocks \in 0 .. DataBlocks
    <3>1. /\ disk.inode[n].type \in {"none", "file", "dir", "symlink"}
          /\ disk.inode[n].generation \in 0 .. MaxGeneration /\ disk.inode[n].blocks \in Nat
      BY <2>1 DEF Disk, InodeContents, Type
    <3>2. disk.inode[n].blocks <= DataBlocks
      BY <2>1 DEF SpaceOK
    <3>3. QED
      BY <3>1, <3>2, Numbers
  <2>6. \A h \in Handle : h \in [inode : Inode \cup {NoInode}, generation : 0 .. MaxGeneration,
                                 mode : {"none", "read", "write", "both"}]
    BY Numbers DEF Handle, Closed
  <2>7. \A h \in Mapping : h \in [inode : Inode \cup {NoInode}, generation : 0 .. MaxGeneration,
                                  end : Ends \cup {0}, writes : BOOLEAN]
    <3>1. NoMapping \in [inode : Inode \cup {NoInode}, generation : 0 .. MaxGeneration,
                         end : Ends \cup {0}, writes : BOOLEAN]
      BY Numbers DEF NoMapping
    <3>2. QED
      BY <3>1 DEF Mapping
  <2>8. fds \in [Procs -> [Fd -> Handle]] /\ maps \in [Procs -> [Slot -> Mapping]]
        /\ mounted \subseteq Procs
    BY <2>1 DEF HandlesOK
  <2> DEFINE H == [inode : Inode \cup {NoInode}, generation : 0 .. MaxGeneration,
                   mode : {"none", "read", "write", "both"}]
             M == [inode : Inode \cup {NoInode}, generation : 0 .. MaxGeneration,
                   end : Ends \cup {0}, writes : BOOLEAN]
  <2>9. Handle \subseteq H /\ Mapping \subseteq M
    BY <2>6, <2>7
  <2> HIDE DEF H, M
  <2>10. fds \in [Procs -> [Fd -> H]] /\ maps \in [Procs -> [Slot -> M]]
    BY <2>8, <2>9
  <2>11. QED
    BY <2>2, <2>3, <2>4, <2>5, <2>8, <2>10 DEF TypeOK, H, M
<1>2. QED
  BY <1>1, InvHolds, PTL

\* No directory outgrows its blocks or has a name twice: directory_add looks for
\* a free slot before it takes a block, and every caller for the name before it
\* adds one.
THEOREM DirectoriesAlwaysHold == Spec => []DirectoriesHold
<1>1. Inv => DirectoriesHold
  BY DEF Inv, DiskOK, TreeOK, CapacityOK, Disk, EntriesOf, DirectoriesHold
<1>2. QED
  BY <1>1, InvHolds, PTL

\* However many operations die on the way, and whoever takes the blocks that a
\* death in ufs_truncate_inode left both free and counted: what is free and what
\* the other allocated inodes count is together never more than the disk has.
\* Even a write through a handle whose file another process has removed takes its
\* blocks from the free ones.
THEOREM WholeInodesShareNothing == Spec => []NothingCountedTwice
<1>1. Inv => NothingCountedTwice
  <2> SUFFICES ASSUME Inv PROVE NothingCountedTwice
    OBVIOUS
  <2>1. disk \in Disk /\ SpaceOK(disk)
    BY DEF Inv, DiskOK
  <2> DEFINE whole == Counted(disk.used \ disk.torn)
  <2>2. whole \subseteq Held(disk)
    BY <2>1 DEF Counted, Held, Sure, Disk
  <2> HIDE DEF whole
  <2>3. /\ Cardinality(whole) <= Cardinality(Held(disk)) /\ Cardinality(whole) \in Nat
        /\ Cardinality(Held(disk)) \in Nat
    BY <2>1, <2>2, FS_Subset, FS_CardinalityType DEF SpaceOK
  <2>4. disk.free \in Nat
    BY <2>1 DEF Disk
  <2>5. QED
    BY <2>1, <2>3, <2>4, Numbers DEF SpaceOK, NothingCountedTwice, whole
<1>2. QED
  BY <1>1, InvHolds, PTL

\* A handle never matches a later occupant of its inode, whichever process opened
\* it: allocate_inode raises the generation, and nothing lowers it.
THEOREM ReuseIsAlwaysDetected == Spec => ReuseIsDetected
<1>1. Inv /\ [Next]_vars =>
        [\A n \in Inode : (n \notin disk.used /\ n \in disk'.used /\ mounted' = mounted) =>
            \A p \in Procs :
                /\ \A fd \in Fd : fds[p][fd].inode = n =>
                      fds[p][fd].generation # disk'.inode[n].generation
                /\ \A m \in Slot : maps[p][m].inode = n =>
                      maps[p][m].generation # disk'.inode[n].generation]_vars
  <2> SUFFICES ASSUME Inv, [Next]_vars, NEW n \in Inode, n \notin disk.used, n \in disk'.used,
                      mounted' = mounted, NEW p \in Procs
               PROVE  /\ \A fd \in Fd : fds[p][fd].inode = n =>
                            fds[p][fd].generation # disk'.inode[n].generation
                      /\ \A m \in Slot : maps[p][m].inode = n =>
                            maps[p][m].generation # disk'.inode[n].generation
    OBVIOUS
  <2>1. disk' \in Left(disk) /\ Fresh(disk, disk')
    BY NextStep DEF Step, Complete
  <2>2. disk.inode[n].generation < disk'.inode[n].generation
    BY <2>1 DEF Fresh
  <2>3. disk.inode[n].generation \in Nat /\ disk'.inode[n].generation \in Nat
    BY <2>1 DEF Inv, Left, DiskOK, Disk, InodeContents
  <2>4. /\ fds[p] \in [Fd -> Handle] /\ maps[p] \in [Slot -> Mapping]
        /\ \A fd \in Fd : Aged(fds[p][fd])
        /\ \A m \in Slot : Aged(maps[p][m])
    BY Tables DEF Inv
  <2>5. ASSUME NEW h \in Handle \cup Mapping, Aged(h), h.inode = n
        PROVE  h.generation # disk'.inode[n].generation
    <3>1. h # Closed /\ h # NoMapping
      BY <2>5, Types
    <3>2. h.generation \in Nat
      BY <3>1 DEF Handle, Mapping
    <3>3. h.generation <= disk.inode[n].generation
      BY <2>5 DEF Aged
    <3>4. QED
      BY <2>2, <2>3, <3>2, <3>3
  <2>6. QED
    BY <2>4, <2>5
<1>2. QED
  BY <1>1, InvHolds, PTL DEF Spec, ReuseIsDetected
----------------------------------------------------------------------------
(* When no process dies with the count of a link behind.                   *)

\* Inodes have links for their names, unless a death cuts a hard link short.
LEMMA NamesHold ==
    ASSUME MayDie => Links = {}
    PROVE  Spec => []NamesOK(disk)
<1>1. Inv /\ NamesOK(disk) /\ [Next]_vars => NamesOK(disk)'
  <2> SUFFICES ASSUME Inv, NamesOK(disk), [Next]_vars PROVE NamesOK(disk)'
    OBVIOUS
  <2>1. disk' \in Left(disk)
    <3>1. MayDie \in BOOLEAN
      BY Numbers
    <3>2. Links = {} \/ Complete
      BY <3>1, Zenon DEF Complete
    <3>3. QED
      BY <3>2, NextStep DEF Step
  <2>2. NamesOK(disk')
    BY <2>1 DEF Left
  <2>3. QED
    BY <2>2 DEF NamesOK, NamesOf
<1>2. QED
  BY <1>1, InvInit, InvHolds, PTL DEF Spec

\* A name refers to an allocated inode with at least as many links as names, in
\* every state a dying process leaves, where nobody makes hard links: ufs_link
\* writes the name before the count.
THEOREM NamesAreAlwaysBacked ==
    ASSUME MayDie => Links = {}
    PROVE  Spec => []NamesAreBacked
<1>1. Inv /\ NamesOK(disk) => NamesAreBacked
  <2> SUFFICES ASSUME Inv, NamesOK(disk), NEW e \in disk.entries
               PROVE  /\ e[3] \in disk.used /\ e[3] # Root
                      /\ Cardinality(NamesOf(disk, e[3])) <= disk.inode[e[3]].links
    BY DEF NamesAreBacked
  <2>1. e[3] \in Inode \ {Root}
    BY DEF Inv, DiskOK, Disk, Entry
  <2>2. e \in NamesOf(disk, e[3])
    BY DEF NamesOf
  <2>3. QED
    BY <2>1, <2>2 DEF NamesOK
<1>2. QED
  BY <1>1, InvHolds, NamesHold, PTL
----------------------------------------------------------------------------
(* When no process dies.                                                   *)

\* When none dies, every step leaves the last disk of its trail.
LEMMA NoDeath ==
    ASSUME ~ MayDie, Inv, [Next]_vars
    PROVE  /\ disk' \in Left(disk) /\ Invisible(disk, disk') /\ Linked(disk, disk')
           /\ AllCurrent => Balanced(disk, disk')
BY NextStep DEF Step, Complete

\* Every allocated inode has as many links as names.
LEMMA LinksHold ==
    ASSUME ~ MayDie
    PROVE  Spec => [](Inv /\ NamesOK(disk) /\ LinksOK(disk))
<1>1. Inv /\ (NamesOK(disk) /\ LinksOK(disk)) /\ [Next]_vars => (NamesOK(disk) /\ LinksOK(disk))'
  <2> SUFFICES ASSUME Inv, NamesOK(disk), LinksOK(disk), [Next]_vars
               PROVE  NamesOK(disk)' /\ LinksOK(disk)'
    OBVIOUS
  <2>1. NamesOK(disk') /\ LinksOK(disk')
    BY NoDeath DEF Linked
  <2>2. QED
    BY <2>1 DEF NamesOK, LinksOK, NamesOf
<1>2. QED
  BY <1>1, InvInit, InvHolds, PTL DEF Spec

\* The link count of an allocated inode is the number of its names, whatever the
\* order in which names are made, linked and removed.
THEOREM LinksCountNames ==
    ASSUME ~ MayDie
    PROVE  Spec => []LinksAreNames
<1>1. Inv /\ NamesOK(disk) /\ LinksOK(disk) => LinksAreNames
  <2> SUFFICES ASSUME Inv, NamesOK(disk), LinksOK(disk) PROVE LinksAreNames
    OBVIOUS
  <2>1. ASSUME NEW e \in disk.entries PROVE e[1] \in disk.used /\ e[3] \in disk.used
    <3>1. e[1] \in Inode /\ e[3] \in Inode
      BY DEF Inv, DiskOK, Disk, Entry
    <3>2. e[1] \in disk.used
      BY <3>1 DEF Inv, DiskOK, TreeOK
    <3>3. e \in NamesOf(disk, e[3])
      BY DEF NamesOf
    <3>4. QED
      BY <3>1, <3>2, <3>3 DEF NamesOK
  <2>2. QED
    BY <2>1 DEF LinksOK, LinksAreNames
<1>2. QED
  BY <1>1, LinksHold, PTL

\* In a set that goes up to everything above it, what is highest is the root.
LEMMA RootIsOnTop ==
    ASSUME DiskOK(disk), LinksOK(disk), NEW set \in SUBSET Inode, Above(disk, set) \subseteq set,
           set \cap disk.used # {}
    PROVE  Root \in set
<1>1. disk \in Disk /\ TreeOK(disk)
  BY DEF DiskOK
<1>2. PICK rank \in [Inode -> Nat] : \A e \in disk.entries : rank[e[1]] < rank[e[3]]
  BY <1>1 DEF TreeOK, Ranked
<1> DEFINE ranks == {rank[m] : m \in set \cap disk.used}
<1>3. ranks \subseteq Nat /\ ranks # {}
  OBVIOUS
<1>4. PICK r \in ranks : \A q \in ranks : r <= q
  <2> HIDE DEF ranks
  <2>1. PICK x \in ranks : \A y \in ranks : ~ (<<y, x>> \in OpToRel(<, Nat))
    BY <1>3, NatLessThanWellFounded, WFMin
  <2>2. \A y \in ranks : ~ (y < x)
    BY <1>3, <2>1, Zenon DEF OpToRel
  <2>3. QED
    BY <1>3, <2>2
<1>5. PICK m \in set \cap disk.used : rank[m] = r
  BY <1>4
<1>6. ASSUME m # Root PROVE FALSE
  <2>1. NamesOf(disk, m) # {}
    <3>1. disk.inode[m].type # "none" /\ disk.inode[m].links = Cardinality(NamesOf(disk, m))
      BY <1>6 DEF LinksOK
    <3>2. disk.inode[m].links # 0
      BY <1>1, <3>1 DEF TreeOK
    <3>3. QED
      BY <3>1, <3>2, FS_EmptySet
  <2>2. PICK e \in disk.entries : e[3] = m
    BY <2>1 DEF NamesOf
  <2>3. e[1] \in Inode /\ e[1] \in disk.used
    BY <1>1 DEF TreeOK, Disk, Entry
  <2>4. e[1] \in set
    BY <2>2 DEF Above
  <2>5. rank[e[1]] \in ranks
    BY <2>3, <2>4
  <2>6. r <= rank[e[1]] /\ rank[e[1]] < r
    BY <1>2, <1>4, <1>5, <2>2, <2>5
  <2>7. r \in Nat /\ rank[e[1]] \in Nat
    BY <1>3, <2>5
  <2>8. QED
    BY <2>6, <2>7
<1>7. QED
  BY <1>5, <1>6

\* The directories are one tree that everything allocated is in: an inode is made
\* below the directory that holds its name, only an empty directory goes, and no
\* directory is linked or moved.
THEOREM DirectoriesAreOneTree ==
    ASSUME ~ MayDie
    PROVE  Spec => []OneTree
<1>1. ASSUME Inv, NamesOK(disk), LinksOK(disk), NEW n \in disk.used
      PROVE  /\ Root \in Ancestors(disk, n)
             /\ disk.inode[n].type = "dir" => Cardinality(NamesOf(disk, n)) <= 1
             /\ \A m \in Above(disk, {n}) : n \notin Ancestors(disk, m)
  <2>1. DiskOK(disk) /\ disk \in Disk /\ TreeOK(disk) /\ n \in Inode
    BY <1>1 DEF Inv, DiskOK, Disk
  <2>2. Root \in Ancestors(disk, n)
    <3>1. ASSUME NEW set \in SUBSET Inode, n \in set, Above(disk, set) \subseteq set
          PROVE  Root \in set
      BY <1>1, <2>1, <3>1, RootIsOnTop
    <3>2. QED
      BY <3>1, Inodes DEF Ancestors
  <2>3. disk.inode[n].type = "dir" => Cardinality(NamesOf(disk, n)) <= 1
    BY <1>1, <2>1 DEF NamesOK
  <2>4. ASSUME NEW m \in Above(disk, {n}), n \in Ancestors(disk, m) PROVE FALSE
    <3>1. PICK rank \in [Inode -> Nat] : \A e \in disk.entries : rank[e[1]] < rank[e[3]]
      BY <2>1 DEF TreeOK, Ranked
    <3>2. PICK e \in disk.entries : e[1] = m /\ e[3] = n
      BY <2>4 DEF Above
    <3>3. m \in Inode /\ rank[m] < rank[n]
      BY <2>1, <3>1, <3>2 DEF Disk, Entry
    <3> DEFINE set == {x \in Inode : rank[x] <= rank[m]}
    <3>4. ASSUME NEW f \in disk.entries, f[3] \in set PROVE f[1] \in set
      <4>1. f[1] \in Inode /\ f[3] \in Inode /\ rank[f[1]] < rank[f[3]]
        BY <2>1, <3>1 DEF Disk, Entry
      <4>2. rank[f[1]] \in Nat /\ rank[f[3]] \in Nat /\ rank[m] \in Nat
        BY <3>3, <4>1
      <4>3. rank[f[3]] <= rank[m]
        BY <3>4
      <4>4. rank[f[1]] <= rank[m]
        BY <4>1, <4>2, <4>3
      <4>5. QED
        BY <4>1, <4>4
    <3>5. Above(disk, set) \subseteq set
      BY <3>4 DEF Above
    <3>6. rank[m] \in Nat /\ rank[n] \in Nat
      BY <2>1, <3>3
    <3>7. m \in set /\ set \in SUBSET Inode
      BY <3>3, <3>6
    <3>8. n \in set
      <4> HIDE DEF set
      <4>1. QED
        BY <2>4, <3>5, <3>7 DEF Ancestors
    <3>9. rank[n] <= rank[m]
      BY <3>8
    <3>10. QED
      BY <3>3, <3>6, <3>9
  <2>5. QED
    BY <2>2, <2>3, <2>4
<1>2. Inv /\ NamesOK(disk) /\ LinksOK(disk) => OneTree
  BY <1>1 DEF OneTree
<1>3. QED
  BY <1>2, LinksHold, PTL

\* An operation that changes no name takes and frees no inode and changes no link
\* count: what creat, mkdir and symlink have begun when they fail is undone.
THEOREM FailuresAreInvisible ==
    ASSUME ~ MayDie
    PROVE  Spec => FailureIsInvisible
<1>1. Inv /\ [Next]_vars =>
        [disk'.entries = disk.entries =>
            /\ disk'.used = disk.used
            /\ \A n \in disk.used : /\ disk'.inode[n].type = disk.inode[n].type
                                    /\ disk'.inode[n].links = disk.inode[n].links]_vars
  BY NoDeath DEF Invisible
<1>2. QED
  BY <1>1, InvHolds, PTL DEF Spec, FailureIsInvisible
----------------------------------------------------------------------------
(* When one process has the image.                                         *)

\* In one process every handle is of an allocated file of its generation.
LEMMA HandlesStay ==
    ASSUME OneProcess
    PROVE  Spec => []AllCurrent
<1>1. Inv /\ AllCurrent /\ [Next]_vars => AllCurrent'
  BY NextStep DEF Step
<1>2. QED
  BY <1>1, InvInit, InvHolds, PTL DEF Spec

\* Every descriptor and mapping is of the file it was opened on, wherever the
\* process dies: ufs_unlink looks into both tables, and ufs_rmdir takes nothing
\* that can be open.
THEOREM HandlesAreAlwaysCurrent ==
    ASSUME \A p, q \in Procs : p = q
    PROVE  Spec => []HandlesAreCurrent
<1>1. OneProcess
  BY DEF OneProcess
<1>2. Inv /\ AllCurrent => HandlesAreCurrent
  <2>1. Inv => mounted \subseteq Procs
    BY DEF Inv, HandlesOK
  <2>2. QED
    BY <2>1 DEF AllCurrent, Current, HandlesAreCurrent
<1>3. Spec => []AllCurrent
  BY <1>1, HandlesStay
<1>4. QED
  BY <1>2, <1>3, InvHolds, PTL

\* Every block is free or counted in exactly one allocated inode, as long as the
\* process lives: no order of operations loses one.
THEOREM BlocksAreAccounted ==
    ASSUME ~ MayDie, \A p, q \in Procs : p = q
    PROVE  Spec => []BlocksAccounted
<1>1. OneProcess
  BY DEF OneProcess
<1>2. Inv /\ FullOK(disk) => BlocksAccounted
  <2> SUFFICES ASSUME Inv, FullOK(disk) PROVE BlocksAccounted
    OBVIOUS
  <2>1. /\ \A n \in Inode \ disk.used : {n} \X (1 .. disk.inode[n].blocks) = {}
        /\ \A n \in Inode : Sure(disk, n) = disk.inode[n].blocks
    BY DEF FullOK, Sure
  <2>2. disk.used \subseteq Inode
    BY DEF Inv, DiskOK, Disk
  <2>3. Counted(disk.used) = Held(disk)
    BY <2>1, <2>2 DEF Counted, Held
  <2>4. QED
    BY <2>3 DEF FullOK, BlocksAccounted
<1>3. Inv /\ AllCurrent /\ FullOK(disk) /\ [Next]_vars => FullOK(disk)'
  <2> SUFFICES ASSUME Inv, AllCurrent, FullOK(disk), [Next]_vars PROVE FullOK(disk)'
    OBVIOUS
  <2>1. FullOK(disk')
    BY NoDeath DEF Balanced
  <2>2. QED
    BY <2>1 DEF FullOK, Held, Sure
<1>4. Spec => []AllCurrent
  BY <1>1, HandlesStay
<1>5. QED
  BY <1>2, <1>3, <1>4, InvInit, InvHolds, PTL DEF Spec
=============================================================================
