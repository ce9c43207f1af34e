----------------------------- MODULE Namespace -----------------------------
(***************************************************************************)
(* Names and handles: directories, hard and symbolic links and path        *)
(* resolution (src/src/namespace.c), the descriptor table                  *)
(* (src/src/file_io.c) and the mapping table (src/src/mmap_io.c), in       *)
(* processes that mount the same image.                                    *)
(*                                                                         *)
(* Every operation holds the operation lock and the image lock, so it is   *)
(* one step, unless its process dies on the way: an operation is a trail   *)
(* of disks, and a death leaves one of them.  Data blocks are counted; the *)
(* module Storage says which ones they are.  An inode is torn when a death *)
(* left it with other blocks than it counts: those it lost may be lent to  *)
(* other files, which may suffer when it is written to, resized or removed *)
(* afterwards.  That is followed in Storage; here nobody does so.          *)
(* Permissions are those of the superuser, who passes every check.         *)
(***************************************************************************)
EXTENDS Naturals, Sequences, SequencesExt, FiniteSets, FiniteSetsExt

CONSTANTS
    Procs,              \* processes that mount the image
    Paths,              \* the absolute paths callers name: sequences of names
    Links,              \* the hard links callers make: <<existing path, new path>>
    Targets,            \* the texts callers make symbolic links of
    Ends,               \* the sizes, in blocks, that callers write or truncate to
    MaxInodes,          \* UFS_MAX_INODES
    EntriesPerBlock,    \* UFS_BLOCK_SIZE / UFS_DIRENT_SIZE
    DirectBlocks,       \* UFS_DIRECT_BLOCKS: the blocks of a directory
    DataBlocks,         \* UFS_DATA_REGION_BLOCKS
    MaxOpenFiles,       \* UFS_MAX_OPEN_FILES
    MaxMappings,        \* UFS_MAX_MAPPINGS
    MaxSymlinkDepth,    \* UFS_MAX_SYMLINK_DEPTH
    MaxGeneration,      \* bound: inode generations
    MayDie              \* whether processes die

Dots == ".."

ASSUME NamespaceAssumption ==
    /\ {MaxInodes, EntriesPerBlock, DirectBlocks, MaxSymlinkDepth, MaxGeneration}
          \subseteq Nat \ {0}
    /\ {DataBlocks, MaxOpenFiles, MaxMappings} \subseteq Nat
    /\ Ends \subseteq Nat /\ MayDie \in BOOLEAN
    /\ \A path \in Paths : Dots \notin ToSet(path)
    /\ Links \subseteq Paths \X Paths
    /\ \A target \in Targets : target.absolute \in BOOLEAN /\ target.path # <<>>

VARIABLES
    disk,       \* inodes, directory entries, clear bits, torn inodes
    mounted,    \* the processes that have the image mounted
    fds,        \* each process's descriptor_table
    maps        \* each process's mapping_table

vars == <<disk, mounted, fds, maps>>

Inode == 0 .. MaxInodes - 1
Root == 0
NoInode == MaxInodes
NoTarget == [absolute |-> TRUE, path |-> <<>>]

\* ufs_init_inode, with the generation its callers keep.
Blank(generation) ==
    [type |-> "none", links |-> 0, generation |-> generation, blocks |-> 0,
     target |-> NoTarget]

\* ufs_initialize_metadata; the text of a symbolic link fills its first block.
Node(type, generation, target) ==
    [type |-> type, links |-> 1, generation |-> generation,
     blocks |-> IF type = "symlink" THEN 1 ELSE 0, target |-> target]

\* ufs_format: an empty root directory.  free is the number of clear bits in the
\* block bitmap.
Formatted ==
    [used |-> {Root}, free |-> DataBlocks, entries |-> {}, torn |-> {},
     inode |-> [n \in Inode |-> IF n = Root THEN Node("dir", 1, NoTarget) ELSE Blank(0)]]
----------------------------------------------------------------------------
(* Directories: entries are triples <<directory, name, inode>>. *)

EntriesOf(d, dir) == {e \in d.entries : e[1] = dir}
NamesOf(d, n) == {e \in d.entries : e[3] = n}

\* directory_find: the inode of a name, NoInode if there is none.
DirectoryFind(d, dir, name) ==
    LET found == {e \in EntriesOf(d, dir) : e[2] = name}
    IN  IF d.inode[dir].type # "dir" \/ found = {} THEN NoInode
        ELSE (CHOOSE e \in found : TRUE)[3]

\* Mutant: an entry past the last slot.
GenerousSlot(d, dir) ==
    Cardinality(EntriesOf(d, dir)) <= d.inode[dir].blocks * EntriesPerBlock

FreeSlot(d, dir) ==
    Cardinality(EntriesOf(d, dir)) < d.inode[dir].blocks * EntriesPerBlock

HasRoom(d, dir) ==
    FreeSlot(d, dir) \/ (d.inode[dir].blocks < DirectBlocks /\ d.free > 0)

\* directory_add: a free slot, or the first one of a further block.
DirectoryAdd(d, dir, name, n) ==
    LET taken == [d EXCEPT !.free = @ - 1]
    IN  IF FreeSlot(d, dir)
        THEN << [d EXCEPT !.entries = @ \cup {<<dir, name, n>>}] >>
        ELSE << taken, [taken EXCEPT !.inode[dir].blocks = @ + 1,
                                     !.entries = @ \cup {<<dir, name, n>>}] >>

DirectoryRemove(d, dir, name) ==
    [d EXCEPT !.entries = {e \in @ : ~ (e[1] = dir /\ e[2] = name)}]
----------------------------------------------------------------------------
(* Path resolution. *)

\* A path through a symbolic link may hold "..": it goes out as text.
Normalize(path) ==
    LET Add(out, name) == IF name # Dots THEN Append(out, name)
                          ELSE IF out = <<>> THEN out ELSE Front(out)
    IN  FoldLeft(Add, <<>>, path)

\* Mutant: a relative target starts at the root.
RootedExpansion(path, i, target) == Normalize(target.path \o SubSeq(path, i + 1, Len(path)))

\* The path once component i, a symbolic link, is replaced by its target.
Expansion(path, i, target) ==
    Normalize((IF target.absolute THEN <<>> ELSE SubSeq(path, 1, i - 1))
              \o target.path \o SubSeq(path, i + 1, Len(path)))

\* From the root along the path: to its inode, to nowhere, or to the first
\* symbolic link that has to be followed.
Walk(d, path, followFinal) ==
    LET Component(s, i) ==
            LET n == DirectoryFind(d, s.at, path[i])
                final == i = Len(path)
            IN  IF s.at = NoInode \/ s.again THEN s
                ELSE IF n = NoInode THEN [s EXCEPT !.at = NoInode]
                ELSE IF d.inode[n].type = "symlink" /\ (followFinal \/ ~ final)
                THEN [at |-> n, again |-> TRUE,
                      path |-> Expansion(path, i, d.inode[n].target)]
                ELSE IF ~ final /\ d.inode[n].type # "dir" THEN [s EXCEPT !.at = NoInode]
                ELSE [s EXCEPT !.at = n]
    IN  FoldLeft(Component, [at |-> Root, again |-> FALSE, path |-> path],
                 [i \in 1 .. Len(path) |-> i])

\* Where a path leads with at most `walks' walks.
Followed(walks, d, path, followFinal) ==
    LET Again(s, k) == IF s.again THEN Walk(d, s.path, followFinal) ELSE s
    IN  FoldLeft(Again, [at |-> Root, again |-> TRUE, path |-> path],
                 [k \in 1 .. walks |-> k])

\* resolve_absolute: ELOOP after the last walk; read_inode refuses numbers that
\* are none of an inode's.
ResolveWithin(walks, d, path, followFinal) ==
    LET end == Followed(walks, d, path, followFinal)
    IN  IF ~ end.again /\ end.at \in Inode THEN end.at ELSE NoInode

Resolve(path) == ResolveWithin(MaxSymlinkDepth, disk, path, TRUE)
ResolveNoFollow(path) == ResolveWithin(MaxSymlinkDepth, disk, path, FALSE)

\* resolve_parent, and what the parent has under the last name.
Parent(path) == Resolve(Front(path))
Found(path) == IF Parent(path) = NoInode THEN NoInode
               ELSE DirectoryFind(disk, Parent(path), Last(path))

\* A path a new name can be made at.
Vacant(path) ==
    /\ path # <<>> /\ Parent(path) # NoInode
    /\ disk.inode[Parent(path)].type = "dir" /\ Parent(path) \notin disk.torn
    /\ Found(path) = NoInode
----------------------------------------------------------------------------
(* Handles. *)

Closed == [inode |-> NoInode, generation |-> 0, mode |-> "none"]
NoMapping == [inode |-> NoInode, generation |-> 0, end |-> 0, writes |-> FALSE]

Fd == 0 .. MaxOpenFiles - 1
Slot == 0 .. MaxMappings - 1

FreeFds(p) == {fd \in Fd : fds[p][fd] = Closed}
FreeSlots(p) == {m \in Slot : maps[p][m] = NoMapping}

NoFds == [fd \in Fd |-> Closed]
NoMaps == [m \in Slot |-> NoMapping]

\* inode_is_open and ufs_mmap_inode_is_mapped see this process's tables only.
InUse(p, n) == \/ \E fd \in Fd : fds[p][fd].inode = n
               \/ \E m \in Slot : maps[p][m].inode = n

Init ==
    /\ disk = Formatted
    /\ mounted = {}
    /\ fds = [p \in Procs |-> NoFds] /\ maps = [p \in Procs |-> NoMaps]

\* A process is gone, with its tables; its locks are released.
Gone(p) ==
    /\ mounted' = mounted \ {p}
    /\ fds' = [fds EXCEPT ![p] = NoFds] /\ maps' = [maps EXCEPT ![p] = NoMaps]

\* An operation of a process runs to the end of its trail, or dies before.
Do(p, trail) ==
    /\ p \in mounted
    /\ \/ disk' = Last(trail) /\ UNCHANGED <<mounted, fds, maps>>
       \/ /\ MayDie
          /\ \E i \in 1 .. Len(trail) - 1 : disk' = trail[i]
          /\ Gone(p)
----------------------------------------------------------------------------
(* Blocks of an inode. *)

\* Mutant: the blocks a file gives up stay in its inode.
StaleResizing(d, n, end) ==
    IF end <= d.inode[n].blocks + d.free
    THEN << [d EXCEPT !.free = @ + d.inode[n].blocks - end, !.inode[n].blocks = Max({@, end})] >>
    ELSE <<d>>

\* ufs_truncate_inode: one bit of the bitmap after the other, and the inode last.
\* Until then the inode is torn.  Growth that finds too few blocks takes them
\* all, gives them back in the same way, and leaves everything as it was.
Resizing(d, n, end) ==
    LET have == d.inode[n].blocks
        done == [d EXCEPT !.free = @ + have - end, !.inode[n].blocks = end]
        Torn(free) == [d EXCEPT !.free = free, !.torn = @ \cup {n}]
    IN  IF end <= have
        THEN [i \in 1 .. have - end |-> Torn(d.free + i)] \o <<done>>
        ELSE IF end <= have + d.free
        THEN [i \in 1 .. end - have |-> Torn(d.free - i)] \o <<done>>
        ELSE [i \in 1 .. d.free |-> Torn(d.free - i)] \o <<d>>

\* What a write up to `end' makes of the file.
Extending(d, n, end) == IF end > d.inode[n].blocks THEN Resizing(d, n, end) ELSE <<d>>

\* Mutant: the name of the inode goes, its blocks stay.
LossyFreeInode(d, n) ==
    LET blank == [d EXCEPT !.inode[n] = Blank(d.inode[n].generation)]
    IN  <<blank, [blank EXCEPT !.used = @ \ {n}]>>

\* The blocks, the inode, its bit.
FreeInode(d, n) ==
    LET emptying == Resizing(d, n, 0)
        blank == [Last(emptying) EXCEPT !.inode[n] = Blank(d.inode[n].generation),
                                        !.torn = @ \ {n}]
    IN  IF n \notin d.used THEN <<d>>
        ELSE emptying \o <<blank, [blank EXCEPT !.used = @ \ {n}]>>
----------------------------------------------------------------------------
(* Names. *)

\* Mutants: what is half made stays; a slot keeps its generation; the name
\* comes before the inode.
SloppyCreation(dir, name, type, target) ==
    LET n == Min(Inode \ disk.used)
        marked == [disk EXCEPT !.used = @ \cup {n}]
        made == [marked EXCEPT !.inode[n] = Node(type, disk.inode[n].generation + 1, target),
                               !.free = @ - Node(type, 0, target).blocks]
    IN  IF type = "symlink" /\ marked.free = 0 THEN <<marked>>
        ELSE IF ~ HasRoom(made, dir) THEN <<marked, made>>
        ELSE <<marked, made>> \o DirectoryAdd(made, dir, name, n)
AgelessCreation(dir, name, type, target) ==
    LET n == Min(Inode \ disk.used)
        marked == [disk EXCEPT !.used = @ \cup {n}]
        made == [marked EXCEPT !.inode[n] = Node(type, Max({1, disk.inode[n].generation}), target),
                               !.free = @ - Node(type, 0, target).blocks]
    IN  IF (type = "symlink" /\ marked.free = 0) \/ ~ HasRoom(made, dir) THEN <<disk>>
        ELSE DirectoryAdd(made, dir, name, n)
NameFirstCreation(dir, name, type, target) ==
    LET n == Min(Inode \ disk.used)
        node == Node(type, disk.inode[n].generation + 1, target)
        named == DirectoryAdd(disk, dir, name, n)
    IN  IF disk.free = 0 THEN <<disk>>
        ELSE named \o << [Last(named) EXCEPT !.used = @ \cup {n}, !.inode[n] = node] >>

\* allocate_inode, the new node, its name; what fails gives the inode back.
Creation(dir, name, type, target) ==
    LET n == Min(Inode \ disk.used)
        generation == disk.inode[n].generation + 1
        marked == [disk EXCEPT !.used = @ \cup {n}]
        blank == [marked EXCEPT !.inode[n] = Blank(generation), !.torn = @ \ {n}]
        taken == [blank EXCEPT !.free = @ - Node(type, generation, target).blocks]
        made == [taken EXCEPT !.inode[n] = Node(type, generation, target)]
    IN  IF type = "symlink" /\ blank.free = 0
        THEN <<marked, blank>> \o FreeInode(blank, n)
        ELSE <<marked, blank, taken, made>>
             \o (IF HasRoom(made, dir) THEN DirectoryAdd(made, dir, name, n)
                 ELSE FreeInode(made, n))

Create(p, path, type, target) ==
    /\ Vacant(path) /\ Inode \ disk.used # {}
    /\ disk.inode[Min(Inode \ disk.used)].generation < MaxGeneration
    /\ Do(p, Creation(Parent(path), Last(path), type, target))

\* Mutant: nobody asks whether the directory is empty.
CarelessRmdir(p, path) ==
    /\ path # <<>> /\ Found(path) # NoInode
    /\ disk.inode[Found(path)].type = "dir"
    /\ LET removed == DirectoryRemove(disk, Parent(path), Last(path))
       IN  Do(p, <<removed>> \o FreeInode(removed, Found(path)))

Rmdir(p, path) ==
    /\ path # <<>> /\ Found(path) # NoInode /\ Found(path) \notin disk.torn
    /\ disk.inode[Found(path)].type = "dir" /\ EntriesOf(disk, Found(path)) = {}
    /\ LET removed == DirectoryRemove(disk, Parent(path), Last(path))
       IN  Do(p, <<removed>> \o FreeInode(removed, Found(path)))

\* Mutant: the inode goes with any of its names.
HastyUnlinked(dir, name, n) ==
    LET removed == DirectoryRemove(disk, dir, name) IN <<removed>> \o FreeInode(removed, n)

\* The name goes first; the inode goes with its last name.
Unlinked(dir, name, n) ==
    LET removed == DirectoryRemove(disk, dir, name)
    IN  IF disk.inode[n].links = 0 THEN <<removed>> \o DirectoryAdd(removed, dir, name, n)
        ELSE IF disk.inode[n].links = 1 THEN <<removed>> \o FreeInode(removed, n)
        ELSE <<removed, [removed EXCEPT !.inode[n].links = @ - 1]>>

\* Mutant: nobody asks whether the file is open.
CarelessUnlink(p, path) ==
    /\ path # <<>> /\ Found(path) # NoInode
    /\ disk.inode[Found(path)].type \in {"file", "symlink"}
    /\ Do(p, Unlinked(Parent(path), Last(path), Found(path)))

Unlink(p, path) ==
    /\ path # <<>> /\ Found(path) # NoInode
    /\ disk.inode[Found(path)].type \in {"file", "symlink"}
    /\ ~ InUse(p, Found(path))
    /\ disk.inode[Found(path)].links = 1 => Found(path) \notin disk.torn
    /\ Do(p, Unlinked(Parent(path), Last(path), Found(path)))

\* The new name is written before the count.
Link(p, old, new) ==
    LET n == ResolveNoFollow(old)
        named == DirectoryAdd(disk, Parent(new), Last(new), n)
    IN  /\ n # NoInode /\ disk.inode[n].type \in {"file", "symlink"}
        /\ Vacant(new) /\ HasRoom(disk, Parent(new))
        /\ Do(p, named \o << [Last(named) EXCEPT !.inode[n].links = @ + 1] >>)
----------------------------------------------------------------------------
(* Files. *)

Truncate(p, path, end) ==
    LET n == Resolve(path) IN
    /\ n # NoInode /\ disk.inode[n].type = "file" /\ n \notin disk.torn
    /\ Do(p, Resizing(disk, n, end))

Open(p, path, mode) ==
    LET n == Resolve(path) IN
    /\ p \in mounted /\ n # NoInode /\ disk.inode[n].type = "file"
    /\ FreeFds(p) # {}
    /\ fds' = [fds EXCEPT ![p][Min(FreeFds(p))] =
                 [inode |-> n, generation |-> disk.inode[n].generation, mode |-> mode]]
    /\ UNCHANGED <<disk, mounted, maps>>

Close(p, fd) ==
    /\ p \in mounted /\ fds[p][fd] # Closed
    /\ fds' = [fds EXCEPT ![p][fd] = Closed]
    /\ UNCHANGED <<disk, mounted, maps>>

\* The generation has to match; the type is not looked at again.
Write(p, fd, end) ==
    LET h == fds[p][fd] IN
    /\ h.mode \in {"write", "both"}
    /\ disk.inode[h.inode].generation = h.generation /\ h.inode \notin disk.torn
    /\ Do(p, Extending(disk, h.inode, end))

Mmap(p, fd, end, shared, writable) ==
    LET h == fds[p][fd]
        writes == shared /\ writable
    IN  /\ p \in mounted /\ FreeSlots(p) # {} /\ end > 0
        /\ h.mode \in {"read", "both"} /\ (writes => h.mode = "both")
        /\ disk.inode[h.inode].generation = h.generation
        /\ disk.inode[h.inode].type = "file"
        /\ maps' = [maps EXCEPT ![p][Min(FreeSlots(p))] =
                      [inode |-> h.inode, generation |-> h.generation,
                       end |-> end, writes |-> writes]]
        /\ UNCHANGED <<disk, mounted, fds>>

\* sync_mapping finds the file of a mapping that is written back.
CanSync(map) ==
    map.writes => /\ disk.inode[map.inode].generation = map.generation
                  /\ disk.inode[map.inode].type = "file" /\ map.inode \notin disk.torn

\* It writes the first `end' blocks.
Synced(map, end) == IF map.writes THEN Extending(disk, map.inode, end) ELSE <<disk>>

Msync(p, m, end) ==
    LET map == maps[p][m] IN
    /\ map # NoMapping /\ end \in 1 .. map.end /\ CanSync(map)
    /\ Do(p, Synced(map, end))

\* A mapping that cannot be written back stays; a death in between leaves what
\* one in ufs_msync leaves.
Munmap(p, m) ==
    LET map == maps[p][m]
        trail == Synced(map, map.end)
    IN
    /\ p \in mounted /\ map # NoMapping /\ CanSync(map)
    /\ map.writes => map.end <= disk.inode[map.inode].blocks + disk.free
    /\ disk' = Last(trail)
    /\ maps' = [maps EXCEPT ![p][m] = NoMapping]
    /\ UNCHANGED <<mounted, fds>>
----------------------------------------------------------------------------
(* Processes. *)

Mount(p) ==
    /\ p \notin mounted
    /\ mounted' = mounted \cup {p}
    /\ fds' = [fds EXCEPT ![p] = NoFds]
    /\ UNCHANGED <<disk, maps>>

\* Descriptors are closed behind the caller's back, mappings are in the way.
Unmount(p) ==
    /\ p \in mounted /\ maps[p] = NoMaps
    /\ mounted' = mounted \ {p}
    /\ fds' = [fds EXCEPT ![p] = NoFds]
    /\ UNCHANGED <<disk, maps>>

Die(p) == MayDie /\ p \in mounted /\ Gone(p) /\ UNCHANGED disk

Naming(p) ==
    \/ \E path \in Paths :
          \/ \E type \in {"file", "dir"} : Create(p, path, type, NoTarget)
          \/ \E target \in Targets : Create(p, path, "symlink", target)
          \/ Rmdir(p, path) \/ Unlink(p, path)
    \/ \E pair \in Links : Link(p, pair[1], pair[2])

Handling(p) ==
    \/ \E path \in Paths :
          \/ \E mode \in {"read", "write", "both"} : Open(p, path, mode)
          \/ \E end \in Ends : Truncate(p, path, end)
    \/ \E fd \in Fd :
          \/ Close(p, fd)
          \/ \E end \in Ends :
                \/ Write(p, fd, end)
                \/ \E shared, writable \in BOOLEAN : Mmap(p, fd, end, shared, writable)
    \/ \E m \in Slot :
          \/ \E end \in Ends : Msync(p, m, end)
          \/ Munmap(p, m)

Next == \E p \in Procs : Naming(p) \/ Handling(p) \/ Mount(p) \/ Unmount(p) \/ Die(p)

Spec == Init /\ [][Next]_vars
----------------------------------------------------------------------------
TypeOK ==
    /\ disk.used \subseteq Inode /\ disk.free \in 0 .. DataBlocks /\ disk.torn \subseteq Inode
    /\ \A e \in disk.entries : e[1] \in Inode /\ e[3] \in Inode
    /\ \A n \in Inode :
          /\ disk.inode[n].type \in {"none", "file", "dir", "symlink"}
          /\ disk.inode[n].generation \in 0 .. MaxGeneration
          /\ disk.inode[n].blocks \in 0 .. DataBlocks
    /\ mounted \subseteq Procs
    /\ fds \in [Procs -> [Fd -> [inode : Inode \cup {NoInode}, generation : 0 .. MaxGeneration,
                                 mode : {"none", "read", "write", "both"}]]]
    /\ maps \in [Procs -> [Slot -> [inode : Inode \cup {NoInode}, generation : 0 .. MaxGeneration,
                                    end : Ends \cup {0}, writes : BOOLEAN]]]

\* DESIGN sections 12.9 and 12.10: a name refers to an allocated inode, and the
\* link count of an allocated inode is the number of its names.
LinksAreNames ==
    /\ \A e \in disk.entries : e[1] \in disk.used /\ e[3] \in disk.used
    /\ \A n \in disk.used \ {Root} :
          disk.inode[n].links = Cardinality(NamesOf(disk, n))

\* The directories a name of some inode of the set is in.
Above(d, set) == {e[1] : e \in {f \in d.entries : f[3] \in set}}

\* An inode, the directories above it, those above them, and so on.
Ancestors(d, n) ==
    {m \in Inode : \A set \in SUBSET Inode : n \in set /\ Above(d, set) \subseteq set => m \in set}

\* The directories are one tree and nothing is lost: from any allocated inode,
\* parents lead to the root, and never back.
OneTree ==
    \A n \in disk.used :
        /\ Root \in Ancestors(disk, n)
        /\ disk.inode[n].type = "dir" => Cardinality(NamesOf(disk, n)) <= 1
        /\ \A m \in Above(disk, {n}) : n \notin Ancestors(disk, m)

\* The blocks that inodes count, each under its inode.
Counted(inodes) == UNION {{n} \X (1 .. disk.inode[n].blocks) : n \in inodes}

\* Every block is free or counted in exactly one allocated inode.
BlocksAccounted == disk.free + Cardinality(Counted(disk.used)) = DataBlocks

\* Wherever processes die, the only blocks that may be free, or lent to another
\* file, while an allocated inode counts them are those of an inode whose resize a
\* death cut short.  However those are lent on, no block of another inode is free
\* or a third one's, though processes know nothing of each other's descriptors and
\* one writes to a file the other has removed: such a write may only lose blocks.
NothingCountedTwice ==
    disk.free + Cardinality(Counted(disk.used \ disk.torn)) <= DataBlocks

\* A directory never outgrows its blocks, and no directory has a name twice.
DirectoriesHold ==
    \A n \in disk.used :
        disk.inode[n].type = "dir" =>
            /\ Cardinality(EntriesOf(disk, n)) <= disk.inode[n].blocks * EntriesPerBlock
            /\ \A e, f \in EntriesOf(disk, n) : e[2] = f[2] => e = f

\* DESIGN section 6: "an open or actively mapped inode cannot be removed".
HandlesAreCurrent ==
    \A p \in mounted :
        LET Current(h) == h.inode # NoInode =>
                /\ h.inode \in disk.used
                /\ disk.inode[h.inode].type = "file"
                /\ disk.inode[h.inode].generation = h.generation
        IN  (\A fd \in Fd : Current(fds[p][fd])) /\ (\A m \in Slot : Current(maps[p][m]))

\* DESIGN section 4.2: when a slot is taken again, no handle of any process
\* that was opened on an earlier occupant matches the new one.
ReuseIsDetected ==
    [][\A n \in Inode : (n \notin disk.used /\ n \in disk'.used /\ mounted' = mounted) =>
          \A p \in Procs :
              /\ \A fd \in Fd : fds[p][fd].inode = n =>
                    fds[p][fd].generation # disk'.inode[n].generation
              /\ \A m \in Slot : maps[p][m].inode = n =>
                    maps[p][m].generation # disk'.inode[n].generation]_vars

\* DESIGN section 12.14: an operation that makes or removes no name takes or
\* frees no inode, and changes no link count: failures leave nothing behind.
FailureIsInvisible ==
    [][disk'.entries = disk.entries =>
          /\ disk'.used = disk.used
          /\ \A n \in disk.used : /\ disk'.inode[n].type = disk.inode[n].type
                                  /\ disk'.inode[n].links = disk.inode[n].links]_vars

\* Resolution from the root, text by text, reaches what a walk reaches that
\* goes on from where the link is; ".." there is the directory above.  The
\* texts are those in which ".." comes first: behind the name of a link it is
\* taken textually (normalize, src/src/namespace.c:110), not from where it leads.
Reference(path) ==
    LET Up(dirs) == IF Len(dirs) > 1 THEN Front(dirs) ELSE dirs
        Turn(s, k) ==
            LET name == Head(s.left)
                rest == Tail(s.left)
                n == DirectoryFind(disk, Last(s.dirs), name)
                target == disk.inode[n].target
            IN  IF s.left = <<>> THEN s
                ELSE IF disk.inode[Last(s.dirs)].type # "dir" THEN [s EXCEPT !.lost = TRUE]
                ELSE IF name = Dots THEN [s EXCEPT !.dirs = Up(@), !.left = rest]
                ELSE IF n = NoInode THEN [s EXCEPT !.lost = TRUE]
                ELSE IF disk.inode[n].type = "symlink"
                THEN [s EXCEPT !.dirs = IF target.absolute THEN <<Root>> ELSE @,
                               !.left = target.path \o rest]
                ELSE [s EXCEPT !.dirs = Append(@, n), !.left = rest]
        steps == Len(path) + 4 * MaxSymlinkDepth
        end == FoldLeft(LAMBDA s, k : IF s.lost THEN s ELSE Turn(s, k),
                        [dirs |-> <<Root>>, left |-> path, lost |-> FALSE],
                        [k \in 1 .. steps |-> k])
    IN  IF end.lost \/ end.left # <<>> THEN NoInode ELSE Last(end.dirs)

ResolvesAsWalked ==
    \A path \in Paths : Resolve(path) # NoInode => Resolve(path) = Reference(path)

\* DESIGN section 12.9 when processes die in the middle of operations: a name
\* refers to an allocated inode with at least as many links as names.
NamesAreBacked ==
    \A e \in disk.entries :
        /\ e[3] \in disk.used
        /\ e[3] # Root /\ Cardinality(NamesOf(disk, e[3])) <= disk.inode[e[3]].links

\* DESIGN section 12.9: "A directory entry marked used refers to an allocated
\* inode."
EntriesAreAllocated == \A e \in disk.entries : e[3] \in disk.used
=============================================================================
