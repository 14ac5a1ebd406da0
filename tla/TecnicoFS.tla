----------------------------- MODULE TecnicoFS ------------------------------
(***************************************************************************)
(* fs/operations.c and fs/state.c: TecnicoFS, the in-memory file system in *)
(* which the broker keeps one file per box.  Every operation runs under    *)
(* g_library_mutex from its first statement to its last, so each is one    *)
(* step.  A path name that fails valid_pathname makes tfs_open and         *)
(* tfs_unlink return -1 with nothing changed; such names are left out.     *)
(***************************************************************************)
EXTENDS Integers, Sequences, TLC

CONSTANTS Names,           \* names of files, without the leading '/'
          LongNames,       \* those of MAX_FILE_NAME or more characters
          Bytes,           \* bytes that are written
          Junk,            \* what malloc left in a byte never written
          NoName,          \* a cleared d_name
          InodeTableSize, DataBlocks, MaxOpenFiles, MaxDirEntries, BlockSize,
          Modes,           \* the modes tfs_open is called with
          MaxLen,          \* bound: largest buffer given to a read or write
          CloseFirst       \* do callers close every handle of a file before
                           \* it is unlinked or truncated?

ASSUME FSAssumption ==
    /\ LongNames \subseteq Names /\ NoName \notin Names
    /\ Junk \notin Bytes
    /\ InodeTableSize \in Nat \ {0} /\ DataBlocks \in Nat \ {0}
    /\ MaxOpenFiles \in Nat /\ MaxDirEntries \in Nat
    /\ BlockSize \in Nat \ {0} /\ MaxLen \in Nat
    /\ Modes \subseteq SUBSET {"CREAT", "TRUNC", "APPEND"}
    /\ CloseFirst \in BOOLEAN

Inums     == 0 .. InodeTableSize - 1
Blocks    == 0 .. DataBlocks - 1
Handles   == 0 .. MaxOpenFiles - 1
Entries   == 0 .. MaxDirEntries - 1
Positions == 0 .. BlockSize - 1
RootDirInum == 0
RootBlock   == 0   \* the block tfs_init allocates for the root directory

VARIABLES
    inode_table,      \* i_size and i_data_block of every inode
    inodes,           \* the inumbers that are TAKEN in freeinode_ts
    dir,              \* the entries in the root directory's block
    fs_data,          \* the bytes of every block
    blocks,           \* the block numbers that are TAKEN in free_blocks
    open_file_table,  \* of_inumber and of_offset of every handle
    handles,          \* the handles that are TAKEN
    orphans,          \* history: open handles whose file was unlinked
    process,          \* "running"; "exited" after PANIC; "undefined" after
                      \* an access outside the block it was meant for
    ret               \* what the last operation returned

disk == <<inode_table, inodes, dir, fs_data, blocks>>
oft  == <<open_file_table, handles, orphans>>
vars == <<disk, oft, process, ret>>

EmptyInode == [i_size |-> 0, i_data_block |-> -1]
EmptyEntry == [d_name |-> NoName, d_inumber |-> -1]

\* tfs_init.  The tables come from malloc: an inode, a handle and a d_name
\* have no value that is used before the code sets one.
Init ==
    /\ inode_table = [i \in Inums |->
            IF i = RootDirInum
            THEN [i_size |-> BlockSize, i_data_block |-> RootBlock]
            ELSE EmptyInode]
    /\ inodes = {RootDirInum}
    /\ dir = [e \in Entries |-> EmptyEntry]
    /\ fs_data = [b \in Blocks |-> [p \in Positions |-> Junk]]
    /\ blocks = {RootBlock}
    /\ open_file_table = [h \in Handles |-> [of_inumber |-> 0, of_offset |-> 0]]
    /\ handles = {} /\ orphans = {}
    /\ process = "running"
    /\ ret = [code |-> 0, data |-> <<>>]

Returns(code) == ret' = [code |-> code, data |-> <<>>]
Fail == Returns(-1)

Running == process = "running"

\* The loops that allocate take the first free number.
IsFirst(n, free) == n \in free /\ \A m \in free : n <= m

UsedEntries == {e \in Entries : dir[e].d_inumber # -1}
FreeEntries == Entries \ UsedEntries

\* find_in_dir and tfs_lookup: entry e is the first one named name.
Finds(name, e) ==
    IsFirst(e, {f \in UsedEntries : dir[f].d_name = name})
Exists(name) == \E e \in UsedEntries : dir[e].d_name = name

HasOpenHandle(inum) == \E h \in handles : open_file_table[h].of_inumber = inum

-----------------------------------------------------------------------------
(* The operations of state.c.                                              *)

\* Seeded fault: size and block of the inode's last file are left in it.
InodeCreateStale(inum) ==
    /\ IsFirst(inum, Inums \ inodes)
    /\ inodes' = inodes \cup {inum}
    /\ UNCHANGED inode_table

InodeCreate(inum) ==
    /\ IsFirst(inum, Inums \ inodes)
    /\ inodes' = inodes \cup {inum}
    /\ inode_table' = [inode_table EXCEPT ![inum] = EmptyInode]

DataBlockAlloc(b) ==
    /\ IsFirst(b, Blocks \ blocks)
    /\ blocks' = blocks \cup {b}

\* Seeded fault: the block is not freed.
DataBlockKept(b) == blocks

DataBlockFree(b) == blocks \ {b}

\* A file that has bytes has a block to free.  Deleting an inode that is not
\* TAKEN is a PANIC.
InodeDelete(inum) ==
    /\ process' = IF inum \in inodes THEN process ELSE "exited"
    /\ inodes' = inodes \ {inum}
    /\ blocks' = IF inode_table[inum].i_size > 0
                 THEN DataBlockFree(inode_table[inum].i_data_block)
                 ELSE blocks

AddDirEntry(e, name, inum) ==
    /\ name \notin LongNames /\ IsFirst(e, FreeEntries)
    /\ dir' = [dir EXCEPT ![e] = [d_name |-> name, d_inumber |-> inum]]

\* The first entry of that name, in use or not.
ClearDirEntry(f, name) ==
    /\ IsFirst(f, {g \in Entries : dir[g].d_name = name})
    /\ dir' = [dir EXCEPT ![f] = EmptyEntry]

\* add_to_open_file_table, the end of tfs_open: without a free entry the
\* file is not opened but stays created or truncated.
AddToOpenFileTable(inum, offset) ==
    \/ /\ handles = Handles
       /\ Fail
       /\ UNCHANGED oft
    \/ \E h \in Handles :
         /\ IsFirst(h, Handles \ handles)
         /\ open_file_table' = [open_file_table EXCEPT
                ![h] = [of_inumber |-> inum, of_offset |-> offset]]
         /\ handles' = handles \cup {h}
         /\ Returns(h)
         /\ UNCHANGED orphans

RemoveFromOpenFileTable(h) ==
    /\ handles' = handles \ {h} /\ orphans' = orphans \ {h}
    /\ UNCHANGED open_file_table

-----------------------------------------------------------------------------
(* tfs_open.                                                               *)

\* An existing file, truncated on request: its block is freed and its size
\* set to 0, whatever offsets other handles hold.
OpenExisting(name, mode) == \E e \in Entries :
    /\ Running
    /\ Finds(name, e)
    /\ LET inum     == dir[e].d_inumber
           inode    == inode_table[inum]
           truncate == "TRUNC" \in mode /\ inode.i_size > 0
       IN  /\ CloseFirst /\ "TRUNC" \in mode => ~HasOpenHandle(inum)
           /\ inode_table' = IF truncate
                             THEN [inode_table EXCEPT ![inum].i_size = 0]
                             ELSE inode_table
           /\ blocks' = IF truncate THEN DataBlockFree(inode.i_data_block)
                        ELSE blocks
           /\ AddToOpenFileTable(inum, IF "APPEND" \in mode
                                       THEN inode_table'[inum].i_size ELSE 0)
    /\ UNCHANGED <<inodes, dir, fs_data, process>>

\* Seeded fault: a file whose name cannot be entered keeps its inode.
CreateFailsLeak(name, mode) == \E inum \in Inums :
    /\ Running
    /\ ~Exists(name) /\ "CREAT" \in mode
    /\ IsFirst(inum, Inums \ inodes)
    /\ name \in LongNames \/ FreeEntries = {}
    /\ inode_table' = [inode_table EXCEPT ![inum] = EmptyInode]
    /\ inodes' = inodes \cup {inum}
    /\ Fail
    /\ UNCHANGED <<dir, fs_data, blocks, oft, process>>

\* add_dir_entry refuses the name or finds the directory full: the new inode
\* is deleted again, already initialised.
CreateFails(name, mode) == \E inum \in Inums :
    /\ Running
    /\ ~Exists(name) /\ "CREAT" \in mode
    /\ IsFirst(inum, Inums \ inodes)
    /\ name \in LongNames \/ FreeEntries = {}
    /\ inode_table' = [inode_table EXCEPT ![inum] = EmptyInode]
    /\ Fail
    /\ UNCHANGED <<inodes, dir, fs_data, blocks, oft, process>>

OpenNew(name, mode) == \E inum \in Inums, e \in Entries :
    /\ Running
    /\ ~Exists(name) /\ "CREAT" \in mode
    /\ InodeCreate(inum)
    /\ AddDirEntry(e, name, inum)
    /\ AddToOpenFileTable(inum, 0)
    /\ UNCHANGED <<fs_data, blocks, process>>

\* The file does not exist and is not to be created, or there is no inode.
OpenRefused(name, mode) ==
    /\ Running
    /\ ~Exists(name) /\ ("CREAT" \in mode => inodes = Inums)
    /\ Fail
    /\ UNCHANGED <<disk, oft, process>>

-----------------------------------------------------------------------------
(* tfs_close, tfs_write, tfs_read, tfs_unlink.                             *)

Close(h) ==
    /\ Running
    /\ h \in handles
    /\ RemoveFromOpenFileTable(h)
    /\ Returns(0)
    /\ UNCHANGED <<disk, process>>

\* get_open_file_entry returns NULL: tfs_close, tfs_write and tfs_read fail.
BadHandle ==
    /\ Running
    /\ handles # Handles
    /\ Fail
    /\ UNCHANGED <<disk, oft, process>>

\* Seeded fault: a write is never shortened.
ToWriteUnclamped(h, buffer) == Len(buffer)

\* What fits between the handle's offset and the end of the block.
ToWrite(h, buffer) ==
    LET room == BlockSize - open_file_table[h].of_offset
    IN  IF Len(buffer) > room THEN room ELSE Len(buffer)

\* Seeded fault: only the first write sets i_size.
GrownOnce(size, end) == IF size = 0 THEN end ELSE size

Grown(size, end) == IF end > size THEN end ELSE size

WriteBytes(h, block, buffer) ==
    LET file == open_file_table[h]
        n    == ToWrite(h, buffer)
        end  == file.of_offset + n
    IN  /\ fs_data' = [fs_data EXCEPT ![block] = [p \in Positions |->
                IF p \in file.of_offset .. end - 1
                THEN buffer[p - file.of_offset + 1] ELSE @[p]]]
        /\ open_file_table' = [open_file_table EXCEPT ![h].of_offset = end]
        /\ inode_table' = [inode_table EXCEPT ![file.of_inumber] =
                [i_size |-> Grown(@.i_size, end),
                 i_data_block |-> block]]
        /\ Returns(n)
        /\ UNCHANGED <<inodes, dir, handles, orphans, process>>

\* A file of size 0 gets a block first, even if its inode is no longer
\* TAKEN; any other is written through its i_data_block.
Write(h, buffer) ==
    /\ Running
    /\ h \in handles
    /\ LET inode == inode_table[open_file_table[h].of_inumber] IN
       \/ /\ ToWrite(h, buffer) = 0
          /\ Returns(0)
          /\ UNCHANGED <<disk, oft, process>>
       \/ /\ ToWrite(h, buffer) > 0 /\ inode.i_size > 0
          /\ WriteBytes(h, inode.i_data_block, buffer)
          /\ UNCHANGED blocks
       \/ /\ ToWrite(h, buffer) > 0 /\ inode.i_size = 0
          /\ \E b \in Blocks :
               /\ DataBlockAlloc(b)
               /\ WriteBytes(h, b, buffer)
       \/ /\ ToWrite(h, buffer) > 0 /\ inode.i_size = 0
          /\ blocks = Blocks
          /\ Fail
          /\ UNCHANGED <<disk, oft, process>>

\* Seeded fault: the handle's offset is not subtracted from the size.
ToReadWholeSize(h, len) ==
    LET size == inode_table[open_file_table[h].of_inumber].i_size
    IN  IF size > len THEN len ELSE size

\* i_size - of_offset is a size_t: with the offset past the size it is huge,
\* and the whole buffer is read.
ToRead(h, len) ==
    LET file == open_file_table[h]
        left == inode_table[file.of_inumber].i_size - file.of_offset
    IN  IF left < 0 \/ left > len THEN len ELSE left

\* The bytes come from wherever i_data_block points.  A block that does not
\* exist is a PANIC; beyond the end of the block the memory is another
\* block's, or nobody's.
Read(h, len) ==
    /\ Running
    /\ h \in handles
    /\ LET file  == open_file_table[h]
           block == inode_table[file.of_inumber].i_data_block
           n     == ToRead(h, len)
           end   == file.of_offset + n
       IN  \/ /\ n = 0 \/ (block \in Blocks /\ end <= BlockSize)
              /\ ret' = [code |-> n, data |-> [k \in 1 .. n |->
                            fs_data[block][file.of_offset + k - 1]]]
              /\ open_file_table' = [open_file_table EXCEPT
                                         ![h].of_offset = end]
              /\ UNCHANGED process
           \/ /\ n > 0 /\ ~(block \in Blocks /\ end <= BlockSize)
              /\ process' = IF block \in Blocks THEN "undefined" ELSE "exited"
              /\ UNCHANGED <<open_file_table, ret>>
    /\ UNCHANGED <<disk, handles, orphans>>

\* tfs_unlink: inode_delete, then clear_dir_entry, which clears the first
\* entry of that name.  Handles on the file stay open.
Unlink(name) == \E e, f \in Entries :
    /\ Running
    /\ Finds(name, e)
    /\ ClearDirEntry(f, name)
    /\ LET inum == dir[e].d_inumber
       IN  /\ CloseFirst => ~HasOpenHandle(inum)
           /\ InodeDelete(inum)
           /\ orphans' = orphans \cup
                  {h \in handles : open_file_table[h].of_inumber = inum}
    /\ Returns(0)
    /\ UNCHANGED <<inode_table, fs_data, open_file_table, handles>>

UnlinkRefused(name) ==
    /\ Running
    /\ ~Exists(name)
    /\ Fail
    /\ UNCHANGED <<disk, oft, process>>

Buffers == UNION {[1 .. n -> Bytes] : n \in 0 .. MaxLen}

Next ==
    \/ \E name \in Names, mode \in Modes :
         \/ OpenExisting(name, mode) \/ OpenNew(name, mode)
         \/ CreateFails(name, mode) \/ OpenRefused(name, mode)
    \/ BadHandle
    \/ \E h \in Handles :
         \/ Close(h)
         \/ \E buffer \in Buffers : Write(h, buffer)
         \/ \E len \in 0 .. MaxLen : Read(h, len)
    \/ \E name \in Names : Unlink(name) \/ UnlinkRefused(name)

Spec == Init /\ [][Next]_vars

-----------------------------------------------------------------------------
\* The shape of the tables.  While the process runs, no offset leaves the
\* block: the memcpy of tfs_write stays inside fs_data.
TypeOK ==
    /\ inode_table \in [Inums -> [i_size : 0 .. BlockSize,
                                  i_data_block : Blocks \cup {-1}]]
    /\ inodes \subseteq Inums /\ blocks \subseteq Blocks
    /\ dir \in [Entries -> [d_name : Names \cup {NoName},
                            d_inumber : Inums \cup {-1}]]
    /\ fs_data \in [Blocks -> [Positions -> Bytes \cup {Junk}]]
    /\ open_file_table \in [Handles -> [of_inumber : Inums,
                                        of_offset : 0 .. BlockSize]]
    /\ handles \subseteq Handles /\ orphans \subseteq handles
    /\ process \in {"running", "exited", "undefined"}

\* The directory and the inode table agree, also after an open that failed
\* half way: every file has one name and one entry, and every inode other
\* than the root's that is TAKEN can be reached by a name.
DirectoryConsistent ==
    /\ \A e, f \in UsedEntries :
         e # f => /\ dir[e].d_name # dir[f].d_name
                  /\ dir[e].d_inumber # dir[f].d_inumber
    /\ {dir[e].d_inumber : e \in UsedEntries} = inodes \ {RootDirInum}
    /\ \A e \in FreeEntries : dir[e].d_name = NoName

Sized == {i \in inodes : inode_table[i].i_size > 0}

\* Existing files never share a block, with each other or the root directory,
\* and their blocks are not free: no sequence of open, write, truncate,
\* unlink and re-creation, not even through stale handles, lets the block of
\* one file be given to another.
BlocksOwned ==
    /\ \A i \in Sized : inode_table[i].i_data_block \in blocks
    /\ \A i, j \in Sized :
         inode_table[i].i_data_block = inode_table[j].i_data_block => i = j

\* Every block that is TAKEN belongs to a file: none is leaked.  Holds when
\* handles are closed before their file goes away (CloseFirst).
NoBlockLeaked ==
    CloseFirst => blocks = {inode_table[i].i_data_block : i \in Sized}

\* Without truncation, a handle whose file was not unlinked never gets ahead
\* of the file's size, so that only handles on unlinked files can make the
\* process exit or touch memory outside their block.
OnlyOrphansFault ==
    (\A mode \in Modes : "TRUNC" \notin mode) =>
        /\ \A h \in handles \ orphans :
             /\ open_file_table[h].of_inumber \in inodes
             /\ open_file_table[h].of_offset
                   <= inode_table[open_file_table[h].of_inumber].i_size
        /\ process # "running" => orphans # {}
=============================================================================
