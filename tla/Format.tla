------------------------------- MODULE Format -------------------------------
(***************************************************************************)
(* ufs_format and what ufs_mount makes of an image it finds                *)
(* (src/src/userfs.c): block by block, over the page cache and the medium, *)
(* with death of the process, power failure and I/O errors at any step,    *)
(* over a file that is absent or holds an older image.                     *)
(*                                                                         *)
(* A block's content is abstracted to what it was written as.  Formatting  *)
(* and mounting take no lock; callers do one at a time.                    *)
(***************************************************************************)
EXTENDS ImageDevice, FiniteSets

CONSTANTS
    BitmapBlocks,   \* UFS_BLOCK_BITMAP_BLOCKS
    MaxFormats,     \* bound: calls of ufs_format
    Faults          \* the faults that happen, of {"death", "power", "error"}

SuperBlk == 0
InodeBitmapBlk == 1
BitmapBlk(i) == 2 + i
TableBlk == 2 + BitmapBlocks

ASSUME FormatAssumption ==
    /\ BitmapBlocks \in Nat \ {0} /\ MaxFormats \in Nat
    /\ TableBlk < TotalBlocks
    /\ Faults \subseteq {"death", "power", "error"}

VARIABLES
    whole,          \* whether the file has the size of an image
    durableWhole,   \* the same, on the medium
    pc,             \* what the process is about to do
    next,           \* the loop index of the step in progress
    formats,        \* bound: formats begun
    formatted       \* history: the last thing done to the image is a format
                    \* that has returned success

vars == <<image, durable, whole, durableWhole, pc, next, formats, formatted>>

Zeros == "zeros"
Contents == {Zeros, "clean", "dirty", "inode bitmap", "block bitmap", "root", "used"}

\* The image DESIGN section 4 describes: its other blocks are zero.
Fresh ==
    [b \in Block |-> CASE b = SuperBlk -> "clean"
                       [] b = InodeBitmapBlk -> "inode bitmap"
                       [] b \in {BitmapBlk(i) : i \in 0 .. BitmapBlocks - 1} -> "block bitmap"
                       [] b = TableBlk -> "root"
                       [] OTHER -> Zeros]

Init ==
    /\ image = [b \in Block |-> Zeros] /\ durable = image
    /\ whole = FALSE /\ durableWhole = FALSE
    /\ pc = "idle" /\ next = 0 /\ formats = 0 /\ formatted = FALSE

Goto(from, to) == pc = from /\ pc' = to

sizeVars == <<whole, durableWhole>>
----------------------------------------------------------------------------
(* ufs_format. *)

\* open with O_TRUNC: whatever the file held is gone.
Open ==
    /\ Goto("idle", "resize") /\ formats < MaxFormats
    /\ formats' = formats + 1 /\ formatted' = FALSE
    /\ image' = [b \in Block |-> Zeros] /\ whole' = FALSE
    /\ UNCHANGED <<durable, durableWhole, next>>

\* ftruncate
Resize ==
    /\ Goto("resize", "zero")
    /\ whole' = TRUE /\ next' = 0
    /\ UNCHANGED <<image, durable, durableWhole, formats, formatted>>

\* One turn of a loop over 0 .. last.
Loop(last, from, to) ==
    /\ pc = from
    /\ IF next < last THEN pc' = from /\ next' = next + 1 ELSE pc' = to /\ next' = 0

Zero ==
    /\ Loop(TotalBlocks - 1, "zero", "super")
    /\ WriteBlock(next, Zeros)
    /\ UNCHANGED <<sizeVars, formats, formatted>>

Put(from, to, b, content) ==
    /\ Goto(from, to) /\ WriteBlock(b, content)
    /\ UNCHANGED <<sizeVars, next, formats, formatted>>

WriteBitmap ==
    /\ Loop(BitmapBlocks - 1, "block bitmap", "root")
    /\ WriteBlock(BitmapBlk(next), "block bitmap")
    /\ UNCHANGED <<sizeVars, formats, formatted>>

\* The blocks of an empty file system, the superblock first.
WriteMetadata ==
    \/ Put("super", "inode bitmap", SuperBlk, "clean")
    \/ Put("inode bitmap", "block bitmap", InodeBitmapBlk, "inode bitmap")
    \/ WriteBitmap
    \/ Put("root", "sync", TableBlk, "root")

\* Mutant: success without fsync.
LazySync ==
    /\ Goto("sync", "idle") /\ formatted' = TRUE
    /\ UNCHANGED <<image, durable, sizeVars, next, formats>>

\* fsync; then ufs_format returns success.
Sync ==
    /\ Goto("sync", "idle") /\ formatted' = TRUE
    /\ SyncImage /\ durableWhole' = whole
    /\ UNCHANGED <<whole, next, formats>>

\* A step that fails ends ufs_format or ufs_mount, and undoes nothing.
Fail ==
    /\ "error" \in Faults /\ pc \notin {"idle", "mounted"}
    /\ pc' = "idle"
    /\ UNCHANGED <<image, durable, sizeVars, next, formats, formatted>>
----------------------------------------------------------------------------
(* ufs_mount, use, ufs_unmount. *)

\* The size and the superblock are what is looked at; recovery is the module
\* Journal's.
Mount ==
    /\ Goto("idle", "mark")
    /\ whole /\ image[SuperBlk] \in {"clean", "dirty"}
    /\ formatted' = FALSE
    /\ UNCHANGED <<image, durable, sizeVars, next, formats>>

MarkDirty ==
    /\ Goto("mark", "mounted")
    /\ image' = [image EXCEPT ![SuperBlk] = "dirty"] /\ durable' = image'
    /\ durableWhole' = whole
    /\ UNCHANGED <<whole, next, formats, formatted>>

\* Operations write to any block but keep the root in its place.
Use(b) ==
    /\ pc = "mounted" /\ b \notin {SuperBlk, TableBlk}
    /\ WriteBlock(b, "used")
    /\ UNCHANGED <<sizeVars, pc, next, formats, formatted>>

Unmount ==
    /\ Goto("mounted", "idle")
    /\ image' = [image EXCEPT ![SuperBlk] = "clean"] /\ durable' = image'
    /\ UNCHANGED <<sizeVars, next, formats, formatted>>
----------------------------------------------------------------------------
Die ==
    /\ "death" \in Faults /\ pc # "idle" /\ pc' = "idle"
    /\ UNCHANGED <<image, durable, sizeVars, next, formats, formatted>>

PowerFailure ==
    /\ "power" \in Faults /\ pc' = "idle"
    /\ LosePageCache
    /\ whole' \in {whole, durableWhole} /\ durableWhole' = whole'
    /\ UNCHANGED <<next, formats, formatted>>

KernelWriteback ==
    /\ "power" \in Faults
    /\ \E b \in Block : Writeback(b)
    /\ UNCHANGED <<sizeVars, pc, next, formats, formatted>>

Next ==
    \/ Open \/ Resize \/ Zero \/ WriteMetadata \/ Sync \/ Fail
    \/ Mount \/ MarkDirty \/ (\E b \in Block : Use(b)) \/ Unmount
    \/ Die \/ PowerFailure \/ KernelWriteback

Spec == Init /\ [][Next]_vars
----------------------------------------------------------------------------
TypeOK ==
    /\ {image, durable} \subseteq [Block -> Contents]
    /\ whole \in BOOLEAN /\ durableWhole \in BOOLEAN
    /\ next \in Block /\ formats \in 0 .. MaxFormats

\* A format that has returned success is there, and nothing of what the file
\* held before: in the page cache and on the medium, whatever fails afterwards.
FormatIsDurable ==
    formatted => /\ image = Fresh /\ durable = Fresh
                 /\ whole /\ durableWhole

\* DESIGN section 12.2: "Inode 0 always represents /".
RootIsThere == pc = "mounted" => image[TableBlk] = "root"
=============================================================================
