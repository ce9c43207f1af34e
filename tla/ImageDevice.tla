---------------------------- MODULE ImageDevice ----------------------------
(***************************************************************************)
(* The disk image: one regular Linux file read and written in 512-byte     *)
(* blocks (src/src/userfs.c).  `image' is what pread returns, the file as  *)
(* the page cache holds it; `durable' is what the storage medium holds.    *)
(* pwrite changes `image' only, fsync makes the two equal, the kernel may  *)
(* write any block back at any time, and a power failure leaves `durable'. *)
(* A 512-byte write is atomic: a block is the unit of the medium.          *)
(***************************************************************************)
EXTENDS Naturals

CONSTANT TotalBlocks        \* UFS_TOTAL_BLOCKS

ASSUME TotalBlocksAssumption == TotalBlocks \in Nat \ {0}

VARIABLES image, durable

deviceVars == <<image, durable>>

Block == 0 .. TotalBlocks - 1

\* ufs_write_block: the whole block is replaced in the page cache.
WriteBlock(b, content) ==
    /\ image' = [image EXCEPT ![b] = content]
    /\ UNCHANGED durable

\* ufs_sync_image: fsync returns once every written block is on the medium.
SyncImage ==
    /\ durable' = image
    /\ UNCHANGED image

\* The kernel writes one dirty block back before anybody asks for it.
Writeback(b) ==
    /\ image[b] # durable[b]
    /\ durable' = [durable EXCEPT ![b] = image[b]]
    /\ UNCHANGED image

\* A power failure loses what was never written back.
LosePageCache ==
    /\ image' = durable
    /\ UNCHANGED durable
=============================================================================
