---------------------------- MODULE FormatProofs ----------------------------
(***************************************************************************)
(* What a return of ufs_format means on an image of any size, whatever     *)
(* dies or fails before it and after it.                                   *)
(***************************************************************************)
EXTENDS Format, TLAPS

TypeInv ==
    /\ image \in [Block -> Contents] /\ durable \in [Block -> Contents]
    /\ pc \in {"idle", "resize", "zero", "super", "inode bitmap", "block bitmap", "root", "sync",
              "mark", "mounted"}
    /\ next \in Block /\ formats \in 0 .. MaxFormats

\* The first n blocks of f are laid out, as formatting goes through the metadata
\* in the order in which it lies on the disk, and the others are zero.
Laid(f, n) == \A b \in Block : f[b] = IF b < n THEN Fresh[b] ELSE Zeros

\* How far a format has come. The others are zero because of O_TRUNC, not because
\* of the loop of zeroing writes.
LayoutInv ==
    /\ pc \in {"resize", "zero", "super"} => Laid(image, 0)
    /\ pc = "inode bitmap" => Laid(image, 1)
    /\ pc = "block bitmap" => next < BitmapBlocks /\ Laid(image, 2 + next)
    /\ pc = "root" => Laid(image, TableBlk)
    /\ pc = "sync" => Laid(image, TableBlk + 1)
    /\ pc \in {"super", "inode bitmap"} => next = 0

BlockInv == TypeInv /\ LayoutInv

\* From the ftruncate on the file has the size of an image.
SizeInv ==
    /\ whole \in BOOLEAN /\ durableWhole \in BOOLEAN
    /\ pc \in {"zero", "super", "inode bitmap", "block bitmap", "root", "sync"} => whole

\* Success is remembered only while nobody touches the image again.
DoneInv == formatted => pc = "idle" /\ FormatIsDurable

Inv == BlockInv /\ SizeInv /\ DoneInv

\* Where the metadata lies, and that an empty file system has only such blocks.
LEMMA Layout ==
    /\ BitmapBlocks \in Nat \ {0} /\ TableBlk = 2 + BitmapBlocks
    /\ SuperBlk = 0 /\ InodeBitmapBlk = 1 /\ \A i : BitmapBlk(i) = 2 + i
    /\ 0 .. TableBlk \subseteq Block /\ Block \subseteq Nat
    /\ {0, 1, TotalBlocks - 1} \subseteq Block
    /\ \A i \in Block : i < TotalBlocks - 1 => i + 1 \in Block
BY FormatAssumption, TotalBlocksAssumption DEF TableBlk, Block, SuperBlk, InodeBitmapBlk, BitmapBlk

\* The loop over the bitmap's blocks stays below the inode table and ends there.
LEMMA BitmapLoop ==
    \A i \in Nat :
        /\ i < BitmapBlocks => 2 + i \in Block /\ 2 + i \in 2 .. TableBlk - 1
        /\ i < BitmapBlocks - 1 =>
              i + 1 < BitmapBlocks /\ i + 1 \in Block /\ 2 + (i + 1) = 2 + i + 1
        /\ i < BitmapBlocks /\ ~ (i < BitmapBlocks - 1) => 2 + i + 1 = TableBlk
<1> SUFFICES ASSUME NEW i \in Nat, i < BitmapBlocks
             PROVE  /\ 2 + i \in 0 .. TableBlk /\ 2 + i \in 2 .. TableBlk - 1
                    /\ i < BitmapBlocks - 1 =>
                          i + 1 < BitmapBlocks /\ i + 1 \in 0 .. TableBlk /\ 2 + (i + 1) = 2 + i + 1
                    /\ ~ (i < BitmapBlocks - 1) => 2 + i + 1 = TableBlk
  BY Layout
<1>1. BitmapBlocks \in Nat \ {0} /\ TableBlk = 2 + BitmapBlocks
  BY Layout
<1>2. QED
  BY <1>1

\* What a complete format has in each block.
LEMMA FreshBlocks ==
    /\ Fresh \in [Block -> Contents]
    /\ Fresh[0] = "clean" /\ Fresh[1] = "inode bitmap" /\ Fresh[TableBlk] = "root"
    /\ \A b \in 2 .. TableBlk - 1 : Fresh[b] = "block bitmap"
    /\ \A b \in Block : b > TableBlk => Fresh[b] = Zeros
<1> DEFINE S == {BitmapBlk(i) : i \in 0 .. BitmapBlocks - 1}
<1>1. \A b : b \in S <=> b \in 2 .. TableBlk - 1
  <2>1. ASSUME NEW b, b \in 2 .. TableBlk - 1 PROVE b \in S
    <3>1. b - 2 \in 0 .. BitmapBlocks - 1 /\ b = BitmapBlk(b - 2)
      BY <2>1, Layout
    <3>2. QED
      BY <3>1
  <2>2. ASSUME NEW b, b \in S PROVE b \in 2 .. TableBlk - 1
    BY <2>2, Layout
  <2>3. QED
    BY <2>1, <2>2
<1>2. Fresh = [b \in Block |-> CASE b = SuperBlk -> "clean"
                                 [] b = InodeBitmapBlk -> "inode bitmap"
                                 [] b \in S -> "block bitmap"
                                 [] b = TableBlk -> "root"
                                 [] OTHER -> Zeros]
  BY Zenon DEF Fresh
<1> HIDE DEF S
<1>3. /\ SuperBlk # InodeBitmapBlk /\ SuperBlk # TableBlk /\ InodeBitmapBlk # TableBlk
      /\ {SuperBlk, InodeBitmapBlk, TableBlk} \subseteq Block
      /\ SuperBlk \notin S /\ InodeBitmapBlk \notin S /\ TableBlk \notin S
      /\ 2 .. TableBlk - 1 \subseteq Block
  BY <1>1, Layout
<1>4. Fresh[SuperBlk] = "clean" /\ Fresh[InodeBitmapBlk] = "inode bitmap" /\ Fresh[TableBlk] = "root"
  BY <1>2, <1>3
<1>5. \A b \in Block : b \in S => Fresh[b] = "block bitmap"
  BY <1>2, <1>3
<1>6. \A b \in Block \ S : b \notin {SuperBlk, InodeBitmapBlk, TableBlk} => Fresh[b] = Zeros
  BY <1>2
<1>7. \A b \in Block : b > TableBlk => b \notin S /\ b \notin {SuperBlk, InodeBitmapBlk, TableBlk}
  BY <1>1, Layout
<1>8. \A b \in Block : Fresh[b] \in Contents
  BY <1>4, <1>5, <1>6, Zenon DEF Contents
<1>9. Fresh \in [Block -> Contents]
  BY <1>8, Zenon DEF Fresh
<1>10. QED
  BY <1>1, <1>3, <1>4, <1>5, <1>6, <1>7, <1>9, Layout

\* Laying out one more block, and the last.
LEMMA LaidNext ==
    ASSUME NEW f \in [Block -> Contents], NEW n \in Block, Laid(f, n)
    PROVE  Laid([f EXCEPT ![n] = Fresh[n]], n + 1)
<1> SUFFICES ASSUME NEW b \in Block
             PROVE  [f EXCEPT ![n] = Fresh[n]][b] = IF b < n + 1 THEN Fresh[b] ELSE Zeros
  BY DEF Laid
<1>1. CASE b = n
  BY <1>1, Layout
<1>2. CASE b # n
  <2>1. b \in Nat /\ n \in Nat /\ (b < n + 1 <=> b < n)
    BY <1>2, Layout
  <2>2. QED
    BY <1>2, <2>1 DEF Laid
<1>3. QED
  BY <1>1, <1>2

\* When all blocks are laid out, the format is complete.
LEMMA LaidWhole ==
    ASSUME NEW f \in [Block -> Contents], Laid(f, TableBlk + 1)
    PROVE  f = Fresh
<1>1. ASSUME NEW b \in Block PROVE f[b] = Fresh[b]
  <2>1. b < TableBlk + 1 \/ b > TableBlk
    BY Layout
  <2>2. QED
    BY <2>1, FreshBlocks, Layout DEF Laid
<1>2. Fresh \in [Block -> Contents]
  BY FreshBlocks
<1>3. QED
  BY <1>1, <1>2
----------------------------------------------------------------------------
\* The invariant holds at the start.
LEMMA InvInit == Init => Inv
<1> SUFFICES ASSUME Init PROVE Inv
  OBVIOUS
<1>1. /\ image = [b \in Block |-> Zeros] /\ durable = image
      /\ pc = "idle" /\ next = 0 /\ formats = 0
  BY Zenon DEF Init
<1>2. BlockInv
  BY <1>1, Layout, FormatAssumption
     DEF BlockInv, TypeInv, LayoutInv, Contents
<1>3. SizeInv /\ DoneInv
  BY DEF Init, SizeInv, DoneInv
<1>4. QED
  BY <1>2, <1>3 DEF Inv

\* A step of ufs_format lays out the block it writes and no other.
LEMMA BlocksAreLaid ==
    ASSUME BlockInv, Open \/ Resize \/ Zero \/ WriteMetadata
    PROVE  BlockInv'
<1> USE DEF BlockInv
<1>1. CASE Open
  <2>1. /\ pc' = "resize" /\ formats < MaxFormats /\ formats' = formats + 1
        /\ image' = [b \in Block |-> Zeros] /\ durable' = durable /\ next' = next
    BY <1>1, Zenon DEF Open, Goto
  <2>2. formats' \in 0 .. MaxFormats
    <3>1. formats \in 0 .. MaxFormats /\ MaxFormats \in Nat
      BY FormatAssumption DEF TypeInv
    <3>2. QED
      BY <2>1, <3>1
  <2>3. image' \in [Block -> Contents] /\ Laid(image', 0)
    BY <2>1, Layout DEF Laid, Contents
  <2>4. QED
    BY <2>1, <2>2, <2>3 DEF TypeInv, LayoutInv
<1>2. CASE Resize
  <2>1. /\ pc = "resize" /\ pc' = "zero" /\ next' = 0
        /\ image' = image /\ durable' = durable /\ formats' = formats
    BY <1>2, Zenon DEF Resize, Goto
  <2>2. 0 \in Block
    BY Layout
  <2>3. QED
    BY <2>1, <2>2 DEF TypeInv, LayoutInv
<1>3. CASE Zero
  <2>1. /\ Loop(TotalBlocks - 1, "zero", "super") /\ WriteBlock(next, Zeros)
        /\ formats' = formats
    BY <1>3, Zenon DEF Zero
  <2>2. image[next] = Zeros /\ Laid(image, 0)
    BY <2>1, Layout DEF Loop, TypeInv, LayoutInv, Laid
  <2>3. image' = image /\ durable' = durable
    BY <2>1, <2>2 DEF WriteBlock, TypeInv
  <2>4. next' \in Block
    BY <2>1, Layout DEF Loop, TypeInv
  <2>5. pc' = "zero" \/ (pc' = "super" /\ next' = 0)
    BY <2>1 DEF Loop
  <2>6. QED
    BY <2>1, <2>2, <2>3, <2>4, <2>5 DEF TypeInv, LayoutInv
\* One block laid out.
<1>4. ASSUME NEW b \in Block, NEW content, Laid(image, b), content = Fresh[b],
             WriteBlock(b, content)
      PROVE  /\ Laid(image', b + 1)
             /\ image' \in [Block -> Contents] /\ durable' \in [Block -> Contents]
  <2>1. image' = [image EXCEPT ![b] = Fresh[b]] /\ durable' = durable
    BY <1>4, Zenon DEF WriteBlock
  <2>2. Fresh[b] \in Contents
    BY FreshBlocks
  <2>3. image \in [Block -> Contents] /\ durable \in [Block -> Contents]
    BY DEF TypeInv
  <2>4. Laid(image', b + 1)
    BY <1>4, <2>1, <2>3, LaidNext
  <2>5. QED
    BY <2>1, <2>2, <2>3, <2>4
<1>5. CASE Put("super", "inode bitmap", SuperBlk, "clean")
  <2>1. /\ pc = "super" /\ pc' = "inode bitmap" /\ WriteBlock(SuperBlk, "clean")
        /\ next' = next /\ formats' = formats
    BY <1>5, Zenon DEF Put, Goto
  <2>2. SuperBlk \in Block /\ SuperBlk = 0 /\ SuperBlk + 1 = 1
    BY Layout
  <2>3. Laid(image, SuperBlk) /\ next = 0
    BY <2>1, <2>2 DEF LayoutInv
  <2>4. Fresh[SuperBlk] = "clean"
    BY <2>2, FreshBlocks
  <2>5. Laid(image', 1) /\ image' \in [Block -> Contents] /\ durable' \in [Block -> Contents]
    BY <1>4, <2>1, <2>2, <2>3, <2>4
  <2>6. QED
    BY <2>1, <2>3, <2>5 DEF TypeInv, LayoutInv
<1>6. CASE Put("inode bitmap", "block bitmap", InodeBitmapBlk, "inode bitmap")
  <2>1. /\ pc = "inode bitmap" /\ pc' = "block bitmap"
        /\ WriteBlock(InodeBitmapBlk, "inode bitmap") /\ next' = next /\ formats' = formats
    BY <1>6, Zenon DEF Put, Goto
  <2>2. InodeBitmapBlk \in Block /\ InodeBitmapBlk = 1 /\ InodeBitmapBlk + 1 = 2 + 0
    BY Layout
  <2>3. Laid(image, InodeBitmapBlk) /\ next = 0 /\ next' = 0
    BY <2>1, <2>2 DEF LayoutInv
  <2>4. Fresh[InodeBitmapBlk] = "inode bitmap"
    BY <2>2, FreshBlocks
  <2>5. /\ Laid(image', 2 + next')
        /\ image' \in [Block -> Contents] /\ durable' \in [Block -> Contents]
    BY <1>4, <2>1, <2>2, <2>3, <2>4
  <2>6. next' < BitmapBlocks
    BY <2>3, Layout
  <2>7. QED
    BY <2>1, <2>3, <2>5, <2>6 DEF TypeInv, LayoutInv
<1>7. CASE WriteBitmap
  <2>1. /\ Loop(BitmapBlocks - 1, "block bitmap", "root") /\ formats' = formats
        /\ WriteBlock(BitmapBlk(next), "block bitmap")
    BY <1>7, Zenon DEF WriteBitmap
  <2>2. pc = "block bitmap" /\ next < BitmapBlocks /\ Laid(image, 2 + next)
    BY <2>1 DEF Loop, LayoutInv
  <2>3. next \in Nat /\ BitmapBlk(next) = 2 + next
    BY Layout DEF TypeInv
  <2>4. 2 + next \in Block /\ 2 + next \in 2 .. TableBlk - 1
    BY <2>2, <2>3, BitmapLoop
  <2>5. /\ Laid(image', 2 + next + 1)
        /\ image' \in [Block -> Contents] /\ durable' \in [Block -> Contents]
    <3>1. Fresh[2 + next] = "block bitmap"
      BY <2>4, FreshBlocks
    <3>2. WriteBlock(2 + next, "block bitmap")
      BY <2>1, <2>3
    <3>3. QED
      BY <1>4, <2>2, <2>4, <3>1, <3>2
  <2>6. CASE next < BitmapBlocks - 1
    <3>1. pc' = "block bitmap" /\ next' = next + 1
      BY <2>1, <2>6 DEF Loop
    <3>2. next' < BitmapBlocks /\ 2 + next' = 2 + next + 1 /\ next' \in Block
      BY <2>3, <2>6, <3>1, BitmapLoop
    <3>3. QED
      BY <2>1, <2>5, <3>1, <3>2 DEF TypeInv, LayoutInv
  <2>7. CASE ~ (next < BitmapBlocks - 1)
    <3>1. pc' = "root" /\ next' = 0
      BY <2>1, <2>7 DEF Loop
    <3>2. 2 + next + 1 = TableBlk
      BY <2>2, <2>3, <2>7, BitmapLoop
    <3>3. 0 \in Block
      BY Layout
    <3>4. QED
      BY <2>1, <2>5, <3>1, <3>2, <3>3 DEF TypeInv, LayoutInv
  <2>8. QED
    BY <2>6, <2>7
<1>8. CASE Put("root", "sync", TableBlk, "root")
  <2>1. /\ pc = "root" /\ pc' = "sync" /\ WriteBlock(TableBlk, "root")
        /\ next' = next /\ formats' = formats
    BY <1>8, Zenon DEF Put, Goto
  <2>2. TableBlk \in Block
    BY Layout
  <2>3. Fresh[TableBlk] = "root"
    BY FreshBlocks
  <2>4. Laid(image, TableBlk)
    BY <2>1 DEF LayoutInv
  <2>5. /\ Laid(image', TableBlk + 1)
        /\ image' \in [Block -> Contents] /\ durable' \in [Block -> Contents]
    BY <1>4, <2>1, <2>2, <2>3, <2>4
  <2>6. QED
    BY <2>1, <2>5 DEF TypeInv, LayoutInv
<1>9. QED
  BY <1>1, <1>2, <1>3, <1>5, <1>6, <1>7, <1>8 DEF WriteMetadata

\* Nothing else is laid out while ufs_format runs.
LEMMA BlocksAreKept ==
    ASSUME BlockInv,
           Sync \/ Fail \/ Mount \/ MarkDirty \/ (\E b \in Block : Use(b)) \/ Unmount
           \/ Die \/ PowerFailure \/ KernelWriteback
    PROVE  BlockInv'
<1> USE DEF BlockInv
<1>1. CASE Fail \/ Mount \/ Die
  <2>1. pc' \in {"idle", "mark"} /\ UNCHANGED <<image, durable, next, formats>>
    BY <1>1 DEF Fail, Mount, Die, Goto
  <2>2. QED
    BY <2>1 DEF TypeInv, LayoutInv
<1>2. CASE MarkDirty \/ Unmount
  <2>1. PICK c \in {"clean", "dirty"} :
          /\ pc' \in {"idle", "mounted"} /\ image' = [image EXCEPT ![SuperBlk] = c]
          /\ durable' = image' /\ UNCHANGED <<next, formats>>
    BY <1>2 DEF MarkDirty, Unmount, Goto
  <2>2. QED
    BY <2>1 DEF TypeInv, LayoutInv, Contents
<1>3. CASE \E b \in Block : Use(b)
  <2>1. PICK b \in Block :
          /\ pc = "mounted" /\ pc' = pc /\ image' = [image EXCEPT ![b] = "used"]
          /\ durable' = durable /\ UNCHANGED <<next, formats>>
    BY <1>3 DEF Use, WriteBlock
  <2>2. QED
    BY <2>1 DEF TypeInv, LayoutInv, Contents
<1>4. CASE Sync \/ PowerFailure
  <2>1. /\ pc' = "idle" /\ UNCHANGED <<next, formats>>
        /\ image' \in {image, durable} /\ durable' \in {image, durable}
    BY <1>4 DEF Sync, SyncImage, PowerFailure, LosePageCache, Goto
  <2>2. QED
    BY <2>1 DEF TypeInv, LayoutInv
<1>5. CASE KernelWriteback
  <2>1. PICK b \in Block : /\ durable' = [durable EXCEPT ![b] = image[b]] /\ image' = image
                           /\ UNCHANGED <<pc, next, formats>>
    BY <1>5 DEF KernelWriteback, Writeback
  <2>2. QED
    BY <2>1 DEF TypeInv, LayoutInv, Laid
<1>6. QED
  BY <1>1, <1>2, <1>3, <1>4, <1>5

\* The file has its size while it is laid out and formatted.
LEMMA SizeStep == SizeInv /\ Next => SizeInv'
<1> SUFFICES ASSUME SizeInv, Next PROVE SizeInv'
  OBVIOUS
<1>1. CASE Open \/ Sync \/ Fail \/ Mount \/ MarkDirty \/ Unmount \/ Die
  BY <1>1 DEF Open, Sync, Fail, Mount, MarkDirty, Unmount, Die, Goto, SizeInv, sizeVars
<1>2. CASE Resize
  BY <1>2 DEF Resize, Goto, SizeInv
<1>3. CASE Zero \/ WriteMetadata
  BY <1>3 DEF Zero, WriteMetadata, WriteBitmap, Put, Loop, Goto, SizeInv, sizeVars
<1>4. CASE \E b \in Block : Use(b)
  BY <1>4 DEF Use, SizeInv, sizeVars
<1>5. CASE PowerFailure \/ KernelWriteback
  BY <1>5 DEF PowerFailure, KernelWriteback, SizeInv, sizeVars
<1>6. QED
  BY <1>1, <1>2, <1>3, <1>4, <1>5 DEF Next

\* A format that has succeeded is whole on the medium: its fsync takes everything
\* there, the size with it. What the kernel, a crash or an error does afterwards
\* leaves it as it is, and what changes the image forgets it.
LEMMA DoneStep == Inv /\ Next => DoneInv'
<1> SUFFICES ASSUME Inv, Next PROVE DoneInv'
  OBVIOUS
<1>1. CASE Open \/ Mount
  BY <1>1, Zenon DEF Open, Mount, DoneInv
<1>2. CASE Resize \/ Zero \/ WriteMetadata \/ MarkDirty \/ Unmount \/ Die \/ Fail
  <2>1. pc # "idle" /\ formatted' = formatted
    BY <1>2 DEF Resize, Zero, WriteMetadata, WriteBitmap, Put, Loop, Goto, MarkDirty, Unmount,
                Die, Fail
  <2>2. QED
    BY <2>1, Zenon DEF Inv, DoneInv
<1>3. CASE \E b \in Block : Use(b)
  <2>1. pc # "idle" /\ formatted' = formatted
    BY <1>3 DEF Use
  <2>2. QED
    BY <2>1, Zenon DEF Inv, DoneInv
<1>4. CASE Sync
  <2>1. pc = "sync" /\ pc' = "idle" /\ durable' = image /\ image' = image
    BY <1>4 DEF Sync, SyncImage, Goto
  <2>2. image = Fresh
    BY <2>1, LaidWhole DEF Inv, BlockInv, TypeInv, LayoutInv
  <2>3. whole /\ whole' /\ durableWhole'
    BY <1>4, <2>1 DEF Inv, SizeInv, Sync
  <2>4. QED
    BY <2>1, <2>2, <2>3, Zenon DEF DoneInv, FormatIsDurable
<1>5. CASE PowerFailure
  <2>1. pc' = "idle" /\ formatted' = formatted /\ image' = durable /\ durable' = durable
    BY <1>5 DEF PowerFailure, LosePageCache
  <2>2. whole' \in {whole, durableWhole} /\ durableWhole' = whole'
    BY <1>5 DEF PowerFailure
  <2>3. QED
    BY <2>1, <2>2, Zenon DEF Inv, DoneInv, FormatIsDurable
<1>6. CASE KernelWriteback
  BY <1>6, Zenon DEF KernelWriteback, Writeback, Inv, DoneInv, FormatIsDurable, sizeVars
<1>7. QED
  BY <1>1, <1>2, <1>3, <1>4, <1>5, <1>6 DEF Next

\* Every step keeps the invariant, whatever the kernel has written back.
LEMMA InvStep == Inv /\ [Next]_vars => Inv'
<1> SUFFICES ASSUME Inv, [Next]_vars PROVE Inv'
  OBVIOUS
<1>1. CASE Next
  BY <1>1, BlocksAreLaid, BlocksAreKept, SizeStep, DoneStep DEF Inv, Next
<1>2. CASE UNCHANGED vars
  <2>1. BlockInv'
    BY <1>2 DEF vars, Inv, BlockInv, TypeInv, LayoutInv, Laid
  <2>2. SizeInv' /\ DoneInv'
    BY <1>2, Zenon DEF vars, Inv, SizeInv, DoneInv, FormatIsDurable
  <2>3. QED
    BY <2>1, <2>2 DEF Inv
<1>3. QED
  BY <1>1, <1>2

\* A ufs_format that has returned success is on the medium whole, and nothing of
\* an older image with it, for an image and a bitmap of any size, any number of
\* formats and any of the faults.
THEOREM FormatsAreDurable == Spec => []FormatIsDurable
<1>1. Inv => FormatIsDurable
  BY DEF Inv, DoneInv, FormatIsDurable
<1>2. QED
  BY <1>1, InvInit, InvStep, PTL DEF Spec

\* The types.
THEOREM FormatTypes == Spec => []TypeOK
<1>1. Inv => TypeOK
  BY DEF Inv, BlockInv, TypeInv, SizeInv, TypeOK
<1>2. QED
  BY <1>1, InvInit, InvStep, PTL DEF Spec
----------------------------------------------------------------------------
\* Between the calls, an image with a superblock has a root.
RootInv ==
    /\ pc = "idle" /\ image[SuperBlk] \in {"clean", "dirty"} => image[TableBlk] = "root"
    /\ pc \in {"mark", "mounted"} => image[TableBlk] = "root"

\* ufs_format writes the superblock before the root, and ufs_mount looks at the
\* superblock: a mounted image without a root takes a format that was cut short.
\* With nothing failing there is none.
THEOREM RootsAreThere ==
    ASSUME Faults = {}
    PROVE  Spec => []RootIsThere
<1>1. Init => RootInv
  <2> SUFFICES ASSUME Init PROVE RootInv
    OBVIOUS
  <2>1. pc = "idle" /\ image = [b \in Block |-> Zeros]
    BY Zenon DEF Init
  <2>2. SuperBlk \in Block
    BY Layout
  <2>3. QED
    BY <2>1, <2>2 DEF RootInv, Zeros
<1>2. Inv /\ RootInv /\ [Next]_vars => RootInv'
  <2> SUFFICES ASSUME Inv, RootInv, [Next]_vars PROVE RootInv'
    OBVIOUS
  <2>1. /\ SuperBlk \in Block /\ TableBlk \in Block /\ SuperBlk # TableBlk
        /\ image \in [Block -> Contents]
    <3>1. SuperBlk \in Block /\ TableBlk \in Block /\ SuperBlk # TableBlk
      BY Layout
    <3>2. image \in [Block -> Contents]
      BY DEF Inv, BlockInv, TypeInv
    <3>3. QED
      BY <3>1, <3>2
  <2>2. CASE Open \/ Resize \/ Zero \/ WriteMetadata
    <3>1. pc' \notin {"idle", "mark", "mounted"}
      BY <2>2 DEF Open, Resize, Zero, WriteMetadata, WriteBitmap, Put, Loop, Goto
    <3>2. QED
      BY <3>1 DEF RootInv
  <2>3. CASE Sync
    <3>1. pc' = "idle" /\ image' = Fresh
      BY <2>3, LaidWhole DEF Sync, SyncImage, Goto, Inv, BlockInv, TypeInv, LayoutInv
    <3>2. QED
      BY <3>1, FreshBlocks DEF RootInv
  <2>4. CASE Mount
    <3>1. /\ pc = "idle" /\ image[SuperBlk] \in {"clean", "dirty"}
          /\ image' = image
      BY <2>4, Zenon DEF Mount, Goto
    <3>2. QED
      BY <3>1 DEF RootInv
  <2>5. CASE MarkDirty \/ Unmount
    <3>1. PICK c \in {"clean", "dirty"} :
            pc \in {"mark", "mounted"} /\ image' = [image EXCEPT ![SuperBlk] = c]
      BY <2>5 DEF MarkDirty, Unmount, Goto
    <3>2. QED
      BY <2>1, <3>1 DEF RootInv
  <2>6. CASE \E b \in Block : Use(b)
    <3>1. PICK b \in Block \ {SuperBlk, TableBlk} :
            pc = "mounted" /\ pc' = pc /\ image' = [image EXCEPT ![b] = "used"]
      BY <2>6 DEF Use, WriteBlock
    <3>2. QED
      BY <2>1, <3>1 DEF RootInv
  <2>7. CASE UNCHANGED vars
    BY <2>7 DEF vars, RootInv
  <2>8. ~ (Fail \/ Die \/ PowerFailure \/ KernelWriteback)
    BY DEF Fail, Die, PowerFailure, KernelWriteback
  <2>9. QED
    BY <2>2, <2>3, <2>4, <2>5, <2>6, <2>7, <2>8 DEF Next
<1>3. RootInv => RootIsThere
  BY DEF RootInv, RootIsThere
<1>4. QED
  BY <1>1, <1>2, <1>3, InvInit, InvStep, PTL DEF Spec
=============================================================================
