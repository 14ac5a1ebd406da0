-------------------------- MODULE TecnicoFSProofs ---------------------------
(***************************************************************************)
(* Proofs about TecnicoFS for every size of its tables and every choice of *)
(* names, bytes and modes, and the proof that it implements FileStore when *)
(* every handle is closed before its file is truncated or unlinked.        *)
(***************************************************************************)
EXTENDS TecnicoFSStore, SequenceTheorems, TLAPS

\* The operations of state.c are expanded wherever they occur.
USE DEF InodeCreate, InodeDelete, DataBlockAlloc, DataBlockFree, AddDirEntry,
        ClearDirEntry, RemoveFromOpenFileTable, Grown

-----------------------------------------------------------------------------
(* Type correctness.                                                       *)

\* A buffer given to tfs_write is a sequence of bytes.
LEMMA BufferIsSeq ==
    ASSUME NEW buffer \in Buffers
    PROVE  buffer \in Seq(Bytes)
<1>1. PICK n \in 0 .. MaxLen : buffer \in [1 .. n -> Bytes]
  BY DEF Buffers
<1>2. n \in Nat
  BY FSAssumption
<1> QED
  BY <1>1, <1>2, SeqDef

\* What is written fits in the block and in the buffer.
LEMMA ToWriteFits ==
    ASSUME TypeOK, NEW h \in Handles, NEW buffer \in Buffers
    PROVE  /\ Len(buffer) \in Nat
           /\ ToWrite(h, buffer) \in 0 .. Len(buffer)
           /\ open_file_table[h].of_offset + ToWrite(h, buffer)
                \in open_file_table[h].of_offset .. BlockSize
<1>1. Len(buffer) \in Nat
  BY BufferIsSeq, LenProperties
<1>2. open_file_table[h].of_offset \in 0 .. BlockSize
  BY DEF TypeOK
<1> QED
  BY <1>1, <1>2, FSAssumption DEF ToWrite

LEMMA InitType == Init => TypeOK
  BY FSAssumption
     DEF Init, TypeOK, Inums, Blocks, Handles, Entries, Positions,
         RootDirInum, RootBlock, EmptyInode, EmptyEntry

\* Writing into a block that exists keeps the types.
LEMMA WriteBytesType ==
    ASSUME TypeOK, NEW h \in handles, NEW buffer \in Buffers,
           NEW block \in Blocks \cup {-1},
           WriteBytes(h, block, buffer), blocks' \subseteq Blocks
    PROVE  TypeOK'
<1> DEFINE file == open_file_table[h]
           n    == ToWrite(h, buffer)
           end  == file.of_offset + n
<1>1. /\ h \in Handles
      /\ file.of_offset \in 0 .. BlockSize /\ file.of_inumber \in Inums
      /\ n \in 0 .. Len(buffer) /\ Len(buffer) \in Nat
      /\ end \in file.of_offset .. BlockSize
  BY ToWriteFits DEF TypeOK
<1>2. \A p \in Positions : p \in file.of_offset .. end - 1
        => buffer[p - file.of_offset + 1] \in Bytes
  <2> SUFFICES ASSUME NEW p \in Positions, p \in file.of_offset .. end - 1
               PROVE  buffer[p - file.of_offset + 1] \in Bytes
    OBVIOUS
  <2>1. p - file.of_offset + 1 \in 1 .. Len(buffer)
    BY <1>1
  <2> QED
    BY <2>1, BufferIsSeq, ElementOfSeq
<1>3. fs_data' \in [Blocks -> [Positions -> Bytes \cup {Junk}]]
  BY <1>2 DEF WriteBytes, TypeOK
<1>4. open_file_table' \in [Handles -> [of_inumber : Inums,
                                        of_offset : 0 .. BlockSize]]
  <2>1. end \in 0 .. BlockSize
    BY <1>1, FSAssumption
  <2> HIDE DEF end
  <2>2. open_file_table' = [open_file_table EXCEPT ![h].of_offset = end]
    BY DEF WriteBytes, end
  <2> QED
    BY <2>1, <2>2 DEF TypeOK
<1>5. inode_table' \in [Inums -> [i_size : 0 .. BlockSize,
                                  i_data_block : Blocks \cup {-1}]]
  <2>1. end \in 0 .. BlockSize
    BY <1>1, FSAssumption
  <2> HIDE DEF end
  <2>2. inode_table' = [inode_table EXCEPT ![file.of_inumber] =
              [i_size |-> IF end > @.i_size THEN end ELSE @.i_size,
               i_data_block |-> block]]
    BY DEF WriteBytes, end
  <2> QED
    BY <2>1, <2>2 DEF TypeOK
<1> QED
  BY <1>3, <1>4, <1>5 DEF WriteBytes, TypeOK

\* Opening a file with an offset in its block keeps the handles typed.
LEMMA AddToOpenFileTableType ==
    ASSUME TypeOK, NEW inum \in Inums, NEW offset \in 0 .. BlockSize,
           AddToOpenFileTable(inum, offset)
    PROVE  /\ open_file_table' \in [Handles -> [of_inumber : Inums,
                                                of_offset : 0 .. BlockSize]]
           /\ handles' \subseteq Handles /\ orphans' \subseteq handles'
<1>1. CASE UNCHANGED oft
  BY <1>1 DEF TypeOK, oft
<1>2. ASSUME NEW h \in Handles,
             open_file_table' = [open_file_table EXCEPT
                 ![h] = [of_inumber |-> inum, of_offset |-> offset]],
             handles' = handles \cup {h}, UNCHANGED orphans
      PROVE  /\ open_file_table' \in [Handles -> [of_inumber : Inums,
                                                  of_offset : 0 .. BlockSize]]
             /\ handles' \subseteq Handles /\ orphans' \subseteq handles'
  BY <1>2 DEF TypeOK
<1> QED
  BY <1>1, <1>2 DEF AddToOpenFileTable

\* An entry in use names an inode.
LEMMA EntryNamesInode ==
    ASSUME TypeOK, NEW e \in UsedEntries
    PROVE  e \in Entries /\ dir[e].d_inumber \in Inums
  BY DEF TypeOK, UsedEntries

\* Every operation keeps the types.
LEMMA TypeStep ==
    ASSUME TypeOK, [Next]_vars
    PROVE  TypeOK'
<1> USE DEF Returns, Fail
<1>1. ASSUME NEW name \in Names, NEW mode \in Modes, OpenExisting(name, mode)
      PROVE  TypeOK'
  <2>1. PICK e \in UsedEntries : OpenExisting(name, mode)!(e)
    BY <1>1 DEF OpenExisting, Finds, IsFirst
  <2> DEFINE inum == dir[e].d_inumber
             offset == IF "APPEND" \in mode
                       THEN inode_table'[inum].i_size ELSE 0
  <2>2. inum \in Inums
    BY EntryNamesInode
  <2>3. inode_table' \in [Inums -> [i_size : 0 .. BlockSize,
                                    i_data_block : Blocks \cup {-1}]]
    BY <2>1, <2>2, FSAssumption DEF TypeOK
  <2>4. offset \in 0 .. BlockSize
    BY <2>2, <2>3, FSAssumption
  <2>5. AddToOpenFileTable(inum, offset)
    BY <2>1
  <2>6. blocks' \subseteq Blocks
    BY <2>1 DEF TypeOK
  <2> QED
    BY <2>1, <2>2, <2>3, <2>4, <2>5, <2>6, AddToOpenFileTableType DEF TypeOK
<1>2. ASSUME NEW name \in Names, NEW mode \in Modes, OpenNew(name, mode)
      PROVE  TypeOK'
  <2>1. PICK inum \in Inums, e \in Entries : OpenNew(name, mode)!(inum, e)
    BY <1>2 DEF OpenNew
  <2>2. inode_table' \in [Inums -> [i_size : 0 .. BlockSize,
                                    i_data_block : Blocks \cup {-1}]]
    BY <2>1, FSAssumption DEF TypeOK, EmptyInode
  <2>3. 0 \in 0 .. BlockSize
    BY FSAssumption
  <2>4. dir' \in [Entries -> [d_name : Names \cup {NoName},
                              d_inumber : Inums \cup {-1}]]
    BY <2>1 DEF TypeOK
  <2> QED
    BY <2>1, <2>2, <2>3, <2>4, AddToOpenFileTableType DEF TypeOK
<1>3. ASSUME NEW name \in Names, NEW mode \in Modes, CreateFails(name, mode)
      PROVE  TypeOK'
  BY <1>3, FSAssumption DEF CreateFails, EmptyInode, TypeOK, oft
<1>4. ASSUME NEW h \in Handles, Close(h)
      PROVE  TypeOK'
  BY <1>4 DEF Close, TypeOK, disk
<1>5. ASSUME NEW h \in Handles, NEW buffer \in Buffers, Write(h, buffer)
      PROVE  TypeOK'
  <2> DEFINE inode == inode_table[open_file_table[h].of_inumber]
  <2>1. h \in handles
    BY <1>5 DEF Write
  <2>2. inode.i_data_block \in Blocks \cup {-1}
    BY <2>1 DEF TypeOK
  <2>3. CASE WriteBytes(h, inode.i_data_block, buffer) /\ UNCHANGED blocks
    <3>1. blocks' \subseteq Blocks
      BY <2>3 DEF TypeOK
    <3> QED
      BY <2>1, <2>2, <2>3, <3>1, WriteBytesType
  <2>4. ASSUME NEW b \in Blocks, blocks' = blocks \cup {b},
               WriteBytes(h, b, buffer)
        PROVE  TypeOK'
    <3>1. blocks' \subseteq Blocks
      BY <2>4 DEF TypeOK
    <3> QED
      BY <2>1, <2>4, <3>1, WriteBytesType
  <2>5. CASE UNCHANGED <<disk, oft, process>>
    BY <2>5 DEF TypeOK, disk, oft
  <2> QED
    BY <1>5, <2>3, <2>4, <2>5 DEF Write
<1>6. ASSUME NEW h \in Handles, NEW len \in 0 .. MaxLen, Read(h, len)
      PROVE  TypeOK'
  <2> DEFINE end == open_file_table[h].of_offset + ToRead(h, len)
  <2>1. CASE UNCHANGED open_file_table
    BY <1>6, <2>1 DEF Read, TypeOK, disk
  <2>2. CASE /\ end \in 0 .. BlockSize
             /\ open_file_table' = [open_file_table EXCEPT ![h].of_offset = end]
             /\ UNCHANGED process
    <3> HIDE DEF end
    <3>1. open_file_table' \in [Handles -> [of_inumber : Inums,
                                            of_offset : 0 .. BlockSize]]
      BY <2>2 DEF TypeOK
    <3> QED
      BY <1>6, <2>2, <3>1 DEF Read, TypeOK, disk
  <2>3. ToRead(h, len) = 0 \/ end <= BlockSize => end \in 0 .. BlockSize
    BY <1>6, FSAssumption DEF ToRead, TypeOK
  <2> QED
    BY <1>6, <2>1, <2>2, <2>3 DEF Read
<1>7. ASSUME NEW name \in Names, Unlink(name)
      PROVE  TypeOK'
  BY <1>7, FSAssumption DEF Unlink, EmptyEntry, TypeOK
<1>8. CASE UNCHANGED <<disk, oft, process>>
  BY <1>8 DEF TypeOK, disk, oft
<1>9. CASE UNCHANGED vars
  BY <1>8, <1>9 DEF vars
<1> QED
  BY <1>1, <1>2, <1>3, <1>4, <1>5, <1>6, <1>7, <1>8, <1>9
     DEF Next, OpenRefused, BadHandle, UnlinkRefused

\* The tables keep their shape, and no handle's offset ever leaves the block
\* it writes to, with tables of any size.
THEOREM TypeCorrect == Spec => []TypeOK
  BY InitType, TypeStep, PTL DEF Spec
-----------------------------------------------------------------------------
(* The directory.  DirectoryConsistent is not inductive by itself: were the *)
(* root's inode free, a new file could get its number.                     *)
DirInv == DirectoryConsistent /\ RootDirInum \in inodes

LEMMA InitDir == Init => DirInv
  BY FSAssumption
     DEF Init, DirInv, DirectoryConsistent, UsedEntries, FreeEntries,
         EmptyEntry, RootDirInum

\* A file that is found is TAKEN and is not the root directory.
LEMMA EntryTaken ==
    ASSUME DirInv, NEW e \in UsedEntries
    PROVE  dir[e].d_inumber \in inodes \ {RootDirInum}
  BY DEF DirInv, DirectoryConsistent

\* Creating a file keeps the directory consistent: neither its name nor its
\* inode is in use.
LEMMA OpenNewDir ==
    ASSUME TypeOK, DirInv, NEW name \in Names, NEW mode \in Modes,
           OpenNew(name, mode)
    PROVE  DirInv'
<1>1. PICK inum \in Inums, e \in Entries : OpenNew(name, mode)!(inum, e)
  BY DEF OpenNew
<1>2. inum \notin inodes /\ inum # RootDirInum /\ inum # -1
  BY <1>1, FSAssumption DEF IsFirst, DirInv, Inums
<1>3. e \in FreeEntries /\ e \notin UsedEntries
  BY <1>1 DEF IsFirst, FreeEntries
<1>4. \A f \in Entries :
        dir'[f] = IF f = e THEN [d_name |-> name, d_inumber |-> inum]
                  ELSE dir[f]
  BY <1>1 DEF TypeOK
<1>5. UsedEntries' = UsedEntries \cup {e}
  BY <1>2, <1>3, <1>4 DEF UsedEntries
<1>6. FreeEntries' = FreeEntries \ {e}
  BY <1>5 DEF FreeEntries
<1>7. \A f \in UsedEntries :
        /\ dir'[f] = dir[f]
        /\ dir[f].d_name # name /\ dir[f].d_inumber # inum
  BY <1>1, <1>2, <1>3, <1>4, EntryTaken DEF Exists, UsedEntries
<1>8. dir'[e].d_name = name /\ dir'[e].d_inumber = inum
  BY <1>4
<1>9. inodes' = inodes \cup {inum}
  BY <1>1
<1>10. \A f, g \in UsedEntries' :
         f # g => /\ dir'[f].d_name # dir'[g].d_name
                  /\ dir'[f].d_inumber # dir'[g].d_inumber
  BY <1>5, <1>7, <1>8 DEF DirInv, DirectoryConsistent
<1>11. {dir'[f].d_inumber : f \in UsedEntries'} = inodes' \ {RootDirInum}
  <2>1. {dir'[f].d_inumber : f \in UsedEntries'}
          = {dir[f].d_inumber : f \in UsedEntries} \cup {inum}
    BY <1>5, <1>7, <1>8
  <2> QED
    BY <2>1, <1>2, <1>9 DEF DirInv, DirectoryConsistent
<1>12. \A f \in FreeEntries' : dir'[f].d_name = NoName
  BY <1>3, <1>4, <1>6 DEF DirInv, DirectoryConsistent, FreeEntries
<1> QED
  BY <1>9, <1>10, <1>11, <1>12 DEF DirInv, DirectoryConsistent

\* The entry that tfs_unlink clears is the one whose inode it deletes.
LEMMA UnlinkClearsFound ==
    ASSUME TypeOK, DirInv, NEW name \in Names,
           NEW e \in Entries, NEW f \in Entries, Finds(name, e),
           IsFirst(f, {g \in Entries : dir[g].d_name = name})
    PROVE  e \in UsedEntries /\ dir[e].d_name = name /\ f = e
<1>1. e \in UsedEntries /\ dir[e].d_name = name
  BY DEF Finds, IsFirst
<1>2. dir[f].d_name = name
  BY DEF IsFirst
<1>3. f \in UsedEntries
  BY <1>2, FSAssumption DEF DirInv, DirectoryConsistent, FreeEntries
<1> QED
  BY <1>1, <1>2, <1>3 DEF DirInv, DirectoryConsistent

\* Unlinking a file keeps the directory consistent: name and inode go
\* together.
LEMMA UnlinkDir ==
    ASSUME TypeOK, DirInv, NEW name \in Names, Unlink(name)
    PROVE  DirInv'
<1>1. PICK e \in Entries, f \in Entries : Unlink(name)!(e, f)
  BY DEF Unlink
<1> DEFINE inum == dir[e].d_inumber
<1>2. e \in UsedEntries /\ f = e
  BY <1>1, UnlinkClearsFound
<1>3. inum \in inodes /\ inum # RootDirInum
  BY <1>2, EntryTaken
<1>4. \A g \in Entries : dir'[g] = IF g = e THEN EmptyEntry ELSE dir[g]
  BY <1>1, <1>2 DEF TypeOK
<1>5. UsedEntries' = UsedEntries \ {e}
  BY <1>4 DEF UsedEntries, EmptyEntry
<1>6. FreeEntries' = FreeEntries \cup {e}
  BY <1>1, <1>5 DEF FreeEntries
<1>7. \A g \in UsedEntries' : g \in UsedEntries /\ g # e /\ dir'[g] = dir[g]
  BY <1>4, <1>5 DEF UsedEntries
<1>8. inodes' = inodes \ {inum}
  BY <1>1
<1>9. \A g, h \in UsedEntries' :
        g # h => /\ dir'[g].d_name # dir'[h].d_name
                 /\ dir'[g].d_inumber # dir'[h].d_inumber
  BY <1>7 DEF DirInv, DirectoryConsistent
<1>10. {dir'[g].d_inumber : g \in UsedEntries'} = inodes' \ {RootDirInum}
  <2>1. {dir'[g].d_inumber : g \in UsedEntries'}
          = {dir[g].d_inumber : g \in UsedEntries} \ {inum}
    <3>1. \A g \in UsedEntries : g # e => dir[g].d_inumber # inum
      BY <1>2 DEF DirInv, DirectoryConsistent
    <3> QED
      BY <1>2, <1>5, <1>7, <3>1
  <2> QED
    BY <2>1, <1>8 DEF DirInv, DirectoryConsistent
<1>11. \A g \in FreeEntries' : dir'[g].d_name = NoName
  BY <1>4, <1>6 DEF DirInv, DirectoryConsistent, FreeEntries, EmptyEntry
<1> QED
  BY <1>3, <1>8, <1>9, <1>10, <1>11 DEF DirInv, DirectoryConsistent

LEMMA UnchangedDir ==
    ASSUME DirInv, UNCHANGED <<dir, inodes>>
    PROVE  DirInv'
  BY DEF DirInv, DirectoryConsistent, UsedEntries, FreeEntries

\* Only creating and unlinking files touch the directory or the inode map.
LEMMA DirStep ==
    ASSUME TypeOK, DirInv, [Next]_vars
    PROVE  DirInv'
<1>1. ASSUME NEW name \in Names, NEW mode \in Modes, OpenExisting(name, mode)
      PROVE  UNCHANGED <<dir, inodes>>
  BY <1>1 DEF OpenExisting
<1>2. ASSUME NEW name \in Names, NEW mode \in Modes, CreateFails(name, mode)
      PROVE  UNCHANGED <<dir, inodes>>
  BY <1>2 DEF CreateFails
<1>3. ASSUME NEW h \in Handles, NEW buffer \in Buffers, Write(h, buffer)
      PROVE  UNCHANGED <<dir, inodes>>
  BY <1>3 DEF Write, WriteBytes, disk
<1>4. ASSUME UNCHANGED disk
      PROVE  UNCHANGED <<dir, inodes>>
  BY <1>4 DEF disk
<1> QED
  BY <1>1, <1>2, <1>3, <1>4, OpenNewDir, UnlinkDir, UnchangedDir
     DEF Next, OpenRefused, BadHandle, UnlinkRefused, Close, Read, vars

\* Files have one name and one entry each, and every inode that is TAKEN has
\* a name, in directories and inode tables of any size, also after calls that
\* failed half way and whatever handles are open.
THEOREM DirectoryAgrees == Spec => []DirectoryConsistent
<1>1. DirInv => DirectoryConsistent
  BY DEF DirInv
<1> QED
  BY <1>1, InitDir, DirStep, TypeCorrect, PTL DEF Spec

-----------------------------------------------------------------------------
(* Blocks.  BlocksOwned needs no strengthening but the directory: an inode     *)
(* whose block is freed is TAKEN, and a new file's is not.                  *)

LEMMA InitOwned == Init => BlocksOwned
  BY FSAssumption
     DEF Init, BlocksOwned, Sized, RootDirInum, RootBlock, Inums, EmptyInode

\* Freeing the block of an existing file and no longer counting the file
\* leaves the blocks of the others alone.
LEMMA FreeBlockOwned ==
    ASSUME BlocksOwned, NEW inum \in Sized,
           blocks' = blocks \ {inode_table[inum].i_data_block},
           Sized' \subseteq Sized \ {inum},
           \A i \in Sized \ {inum} : inode_table'[i] = inode_table[i]
    PROVE  BlocksOwned'
  BY DEF BlocksOwned

\* Without a block being freed, files may only stop being counted.
LEMMA KeepBlocksOwned ==
    ASSUME BlocksOwned, blocks \subseteq blocks', Sized' \subseteq Sized,
           \A i \in Sized' :
               inode_table'[i].i_data_block = inode_table[i].i_data_block
    PROVE  BlocksOwned'
  BY DEF BlocksOwned

LEMMA OpenExistingOwned ==
    ASSUME TypeOK, DirInv, BlocksOwned, NEW name \in Names, NEW mode \in Modes,
           OpenExisting(name, mode)
    PROVE  BlocksOwned'
<1>1. PICK e \in UsedEntries : OpenExisting(name, mode)!(e)
  BY DEF OpenExisting, Finds, IsFirst
<1> DEFINE inum == dir[e].d_inumber
<1>2. inum \in inodes /\ inum \in Inums
  BY EntryTaken, EntryNamesInode
<1>3. CASE UNCHANGED <<inode_table, blocks, inodes>>
  BY <1>3 DEF BlocksOwned, Sized
<1>4. CASE /\ inode_table[inum].i_size > 0
           /\ inode_table' = [inode_table EXCEPT ![inum].i_size = 0]
           /\ blocks' = blocks \ {inode_table[inum].i_data_block}
           /\ UNCHANGED inodes
  <2>1. inum \in Sized
    BY <1>2, <1>4 DEF Sized
  <2>2. inode_table'[inum].i_size = 0
    BY <1>2, <1>4 DEF TypeOK
  <2>3. \A i \in Inums : i # inum => inode_table'[i] = inode_table[i]
    BY <1>2, <1>4 DEF TypeOK
  <2>4. Sized' \subseteq Sized \ {inum}
    BY <1>4, <2>2, <2>3 DEF Sized, TypeOK
  <2>5. \A i \in Sized \ {inum} : inode_table'[i] = inode_table[i]
    BY <2>3 DEF Sized, TypeOK
  <2> QED
    BY <1>4, <2>1, <2>4, <2>5, FreeBlockOwned
<1> QED
  BY <1>1, <1>3, <1>4

\* An inode that is not TAKEN may be cleared: no file is counted for it.
LEMMA ClearInodeOwned ==
    ASSUME TypeOK, BlocksOwned, NEW inum \in Inums \ inodes,
           inode_table' = [inode_table EXCEPT ![inum] = EmptyInode],
           inodes' \subseteq inodes \cup {inum}, UNCHANGED blocks
    PROVE  BlocksOwned'
<1>1. inode_table'[inum].i_size = 0
  BY DEF TypeOK, EmptyInode
<1>2. \A i \in Inums : i # inum => inode_table'[i] = inode_table[i]
  BY DEF TypeOK
<1>3. Sized' \subseteq Sized /\ inum \notin Sized'
  BY <1>1, <1>2 DEF Sized, TypeOK
<1> QED
  BY <1>2, <1>3, KeepBlocksOwned DEF Sized, TypeOK

LEMMA UnlinkOwned ==
    ASSUME TypeOK, DirInv, BlocksOwned, NEW name \in Names, Unlink(name)
    PROVE  BlocksOwned'
<1>1. PICK e \in Entries, f \in Entries : Unlink(name)!(e, f)
  BY DEF Unlink
<1> DEFINE inum == dir[e].d_inumber
<1>2. inum \in inodes
  BY <1>1, UnlinkClearsFound, EntryTaken
<1>3. inodes' = inodes \ {inum} /\ UNCHANGED inode_table
  BY <1>1
<1>4. Sized' = Sized \ {inum}
  BY <1>3 DEF Sized
<1>5. CASE /\ inode_table[inum].i_size > 0
           /\ blocks' = blocks \ {inode_table[inum].i_data_block}
  <2>1. inum \in Sized
    BY <1>2, <1>5 DEF Sized
  <2> QED
    BY <1>3, <1>4, <1>5, <2>1, FreeBlockOwned
<1>6. CASE UNCHANGED blocks
  BY <1>3, <1>4, <1>6, KeepBlocksOwned
<1> QED
  BY <1>1, <1>5, <1>6

\* A write keeps the block of a file that has one, and gives one that is
\* free to a file that has none, or to an inode that is no file.
LEMMA WriteOwned ==
    ASSUME TypeOK, BlocksOwned, NEW h \in Handles, NEW buffer \in Buffers,
           Write(h, buffer)
    PROVE  BlocksOwned'
<1> DEFINE inum == open_file_table[h].of_inumber
<1>1. inum \in Inums
  BY DEF TypeOK
<1>2. CASE UNCHANGED <<disk, oft, process>>
  BY <1>2 DEF BlocksOwned, Sized, disk
<1>3. ASSUME NEW b \in Blocks \cup {-1}, WriteBytes(h, b, buffer)
      PROVE  /\ inode_table'[inum].i_data_block = b
             /\ \A i \in Inums : i # inum => inode_table'[i] = inode_table[i]
             /\ inodes' = inodes
  BY <1>1, <1>3 DEF WriteBytes, TypeOK
<1>4. CASE /\ inode_table[inum].i_size > 0
           /\ WriteBytes(h, inode_table[inum].i_data_block, buffer)
           /\ UNCHANGED blocks
  <2>1. inode_table[inum].i_data_block \in Blocks \cup {-1}
    BY <1>1 DEF TypeOK
  <2>2. \A i \in Inums :
          inode_table'[i].i_data_block = inode_table[i].i_data_block
    BY <1>3, <1>4, <2>1
  <2>3. Sized' \subseteq Sized
    BY <1>3, <1>4, <2>1 DEF Sized, TypeOK
  <2> QED
    BY <1>4, <2>2, <2>3, KeepBlocksOwned DEF Sized, TypeOK
<1>5. ASSUME NEW b \in Blocks \ blocks, blocks' = blocks \cup {b},
             inode_table[inum].i_size = 0, WriteBytes(h, b, buffer)
      PROVE  BlocksOwned'
  <2>1. /\ inode_table'[inum].i_data_block = b
        /\ \A i \in Inums : i # inum => inode_table'[i] = inode_table[i]
        /\ inodes' = inodes
    BY <1>3, <1>5
  <2>2. Sized' \subseteq Sized \cup {inum}
    BY <2>1 DEF Sized, TypeOK
  <2>3. \A i \in Sized' : i # inum =>
          /\ i \in Sized
          /\ inode_table'[i].i_data_block = inode_table[i].i_data_block
          /\ inode_table[i].i_data_block \in blocks
    BY <2>1, <2>2 DEF BlocksOwned, Sized, TypeOK
  <2> QED
    BY <1>5, <2>1, <2>3 DEF BlocksOwned
<1> QED
  BY <1>2, <1>4, <1>5 DEF Write, IsFirst

LEMMA OwnedStep ==
    ASSUME TypeOK, DirInv, BlocksOwned, [Next]_vars
    PROVE  BlocksOwned'
<1>1. ASSUME NEW name \in Names, NEW mode \in Modes,
             CreateFails(name, mode) \/ OpenNew(name, mode)
      PROVE  BlocksOwned'
  <2>1. PICK inum \in Inums \ inodes :
          /\ inode_table' = [inode_table EXCEPT ![inum] = EmptyInode]
          /\ inodes' \subseteq inodes \cup {inum}
          /\ UNCHANGED blocks
    BY <1>1 DEF CreateFails, OpenNew, IsFirst
  <2> QED
    BY <2>1, ClearInodeOwned
<1>2. ASSUME UNCHANGED disk
      PROVE  BlocksOwned'
  BY <1>2 DEF disk, BlocksOwned, Sized
<1> QED
  BY <1>1, <1>2, OpenExistingOwned, UnlinkOwned, WriteOwned
     DEF Next, OpenRefused, BadHandle, UnlinkRefused, Close, Read, vars

\* No two files share a block and no file's block is free, for tables of any
\* size and whatever stale handles write: not even a write through a handle
\* whose inode was freed, or given to another file, takes a block of a file.
THEOREM BlocksNeverShared == Spec => []BlocksOwned
  BY InitType, InitDir, InitOwned, TypeStep, DirStep, OwnedStep, PTL DEF Spec

\* What the asserts of tfs_write and tfs_read say ("inode of open file
\* deleted"): the inode of an open file exists.
OpenInodeExists ==
    \A h \in handles : open_file_table[h].of_inumber \in inodes

-----------------------------------------------------------------------------
(* Leaks.  When every handle of a file is closed before the file goes away, *)
(* handles are only open on files that exist, so that a write never takes a *)
(* block for an inode that is free.                                        *)
LeakInv == CloseFirst => OpenInodeExists /\ NoBlockLeaked

LEMMA InitLeak == Init => LeakInv
  BY FSAssumption
     DEF Init, LeakInv, OpenInodeExists, NoBlockLeaked, Sized, RootDirInum,
         RootBlock, Inums, EmptyInode

\* An open adds at most one handle and leaves the others as they are.
LEMMA OpenAddsHandle ==
    ASSUME TypeOK, NEW inum, NEW offset, AddToOpenFileTable(inum, offset)
    PROVE  /\ orphans' = orphans
           /\ \A h \in handles' :
                \/ /\ h \in handles
                   /\ open_file_table'[h] = open_file_table[h]
                \/ /\ h \notin handles
                   /\ open_file_table'[h].of_inumber = inum
                   /\ open_file_table'[h].of_offset = offset
  BY DEF AddToOpenFileTable, IsFirst, TypeOK, oft

\* A write moves its handle and changes the size and block of its inode.
LEMMA WriteBytesEffect ==
    ASSUME TypeOK, NEW h \in handles, NEW buffer \in Buffers,
           NEW b \in Blocks \cup {-1}, WriteBytes(h, b, buffer)
    PROVE  LET inum == open_file_table[h].of_inumber
               end  == open_file_table[h].of_offset + ToWrite(h, buffer)
           IN  /\ open_file_table' =
                     [open_file_table EXCEPT ![h].of_offset = end]
               /\ inode_table'[inum] =
                     [i_size |-> IF end > inode_table[inum].i_size THEN end
                                 ELSE inode_table[inum].i_size,
                      i_data_block |-> b]
               /\ \A i \in Inums : i # inum => inode_table'[i] = inode_table[i]
               /\ UNCHANGED <<inodes, handles, orphans, process>>
<1> DEFINE inum == open_file_table[h].of_inumber
           end  == open_file_table[h].of_offset + ToWrite(h, buffer)
<1>1. inum \in Inums
  BY DEF TypeOK
<1>2. /\ open_file_table' = [open_file_table EXCEPT ![h].of_offset = end]
      /\ inode_table' = [inode_table EXCEPT ![inum] =
              [i_size |-> IF end > @.i_size THEN end ELSE @.i_size,
               i_data_block |-> b]]
      /\ UNCHANGED <<inodes, handles, orphans, process>>
  BY DEF WriteBytes
<1> HIDE DEF end, inum
<1>3. /\ inode_table'[inum] =
            [i_size |-> IF end > inode_table[inum].i_size THEN end
                        ELSE inode_table[inum].i_size,
             i_data_block |-> b]
      /\ \A i \in Inums : i # inum => inode_table'[i] = inode_table[i]
  BY <1>1, <1>2 DEF TypeOK
<1> QED
  BY <1>2, <1>3 DEF inum, end

\* Freeing a file's block and no longer counting the file.
LEMMA FreeBlockLeak ==
    ASSUME BlocksOwned, NoBlockLeaked, CloseFirst, NEW inum \in Sized,
           blocks' = blocks \ {inode_table[inum].i_data_block},
           Sized' = Sized \ {inum},
           \A i \in Sized \ {inum} : inode_table'[i] = inode_table[i]
    PROVE  NoBlockLeaked'
<1>1. \A i \in Sized \ {inum} :
        inode_table[i].i_data_block # inode_table[inum].i_data_block
  BY DEF BlocksOwned
<1> QED
  BY <1>1 DEF NoBlockLeaked

\* Nothing freed and the same files counted.
LEMMA KeepBlockLeak ==
    ASSUME NoBlockLeaked, CloseFirst, blocks' = blocks, Sized' = Sized,
           \A i \in Sized :
               inode_table'[i].i_data_block = inode_table[i].i_data_block
    PROVE  NoBlockLeaked'
  BY DEF NoBlockLeaked

LEMMA OpenExistingLeak ==
    ASSUME TypeOK, DirInv, BlocksOwned, LeakInv, CloseFirst,
           NEW name \in Names, NEW mode \in Modes, OpenExisting(name, mode)
    PROVE  OpenInodeExists' /\ NoBlockLeaked'
<1>1. PICK e \in UsedEntries : OpenExisting(name, mode)!(e)
  BY DEF OpenExisting, Finds, IsFirst
<1> DEFINE inum == dir[e].d_inumber
<1>2. inum \in inodes /\ inum \in Inums
  BY EntryTaken, EntryNamesInode
<1>3. OpenInodeExists'
  <2>1. PICK offset : AddToOpenFileTable(inum, offset)
    BY <1>1
  <2>2. \A h \in handles' :
          \/ h \in handles /\ open_file_table'[h] = open_file_table[h]
          \/ open_file_table'[h].of_inumber = inum
    BY <2>1, OpenAddsHandle
  <2>3. UNCHANGED inodes
    BY <1>1
  <2> QED
    BY <1>2, <2>2, <2>3 DEF LeakInv, OpenInodeExists
<1>4. CASE UNCHANGED <<inode_table, blocks, inodes>>
  BY <1>3, <1>4 DEF LeakInv, NoBlockLeaked, Sized
<1>5. CASE /\ inode_table[inum].i_size > 0
           /\ inode_table' = [inode_table EXCEPT ![inum].i_size = 0]
           /\ blocks' = blocks \ {inode_table[inum].i_data_block}
           /\ UNCHANGED inodes
  <2>1. inum \in Sized
    BY <1>2, <1>5 DEF Sized
  <2>2. inode_table'[inum].i_size = 0
    BY <1>2, <1>5 DEF TypeOK
  <2>3. \A i \in Inums : i # inum => inode_table'[i] = inode_table[i]
    BY <1>2, <1>5 DEF TypeOK
  <2>4. Sized' = Sized \ {inum}
    BY <1>5, <2>2, <2>3 DEF Sized, TypeOK
  <2>5. \A i \in Sized \ {inum} : inode_table'[i] = inode_table[i]
    BY <2>3 DEF Sized, TypeOK
  <2> QED
    BY <1>3, <1>5, <2>1, <2>4, <2>5, FreeBlockLeak DEF LeakInv
<1> QED
  BY <1>1, <1>3, <1>4, <1>5

LEMMA NewInodeLeak ==
    ASSUME TypeOK, LeakInv, CloseFirst, NEW name \in Names, NEW mode \in Modes,
           CreateFails(name, mode) \/ OpenNew(name, mode)
    PROVE  OpenInodeExists' /\ NoBlockLeaked'
<1>1. PICK inum \in Inums \ inodes :
        /\ inode_table' = [inode_table EXCEPT ![inum] = EmptyInode]
        /\ UNCHANGED blocks
        /\ \/ /\ inodes' = inodes
              /\ UNCHANGED oft
           \/ /\ inodes' = inodes \cup {inum}
              /\ AddToOpenFileTable(inum, 0)
  BY DEF CreateFails, OpenNew, IsFirst
<1>2. OpenInodeExists'
  <2>1. CASE inodes' = inodes /\ UNCHANGED oft
    BY <2>1 DEF LeakInv, OpenInodeExists, oft
  <2>2. CASE inodes' = inodes \cup {inum} /\ AddToOpenFileTable(inum, 0)
    <3>1. \A h \in handles' :
            \/ h \in handles /\ open_file_table'[h] = open_file_table[h]
            \/ open_file_table'[h].of_inumber = inum
      BY <2>2, OpenAddsHandle
    <3> QED
      BY <2>2, <3>1 DEF LeakInv, OpenInodeExists
  <2> QED
    BY <1>1, <2>1, <2>2
<1>3. inode_table'[inum].i_size = 0
  BY <1>1 DEF TypeOK, EmptyInode
<1>4. \A i \in Inums : i # inum => inode_table'[i] = inode_table[i]
  BY <1>1 DEF TypeOK
<1>5. Sized' = Sized /\ inum \notin Sized
  BY <1>1, <1>3, <1>4 DEF Sized, TypeOK
<1> QED
  BY <1>1, <1>2, <1>4, <1>5, KeepBlockLeak DEF LeakInv, Sized, TypeOK

LEMMA UnlinkLeak ==
    ASSUME TypeOK, DirInv, BlocksOwned, LeakInv, CloseFirst,
           NEW name \in Names, Unlink(name)
    PROVE  OpenInodeExists' /\ NoBlockLeaked'
<1>1. PICK e \in Entries, f \in Entries : Unlink(name)!(e, f)
  BY DEF Unlink
<1> DEFINE inum == dir[e].d_inumber
<1>2. inum \in inodes
  BY <1>1, UnlinkClearsFound, EntryTaken
<1>3. /\ inodes' = inodes \ {inum}
      /\ UNCHANGED <<inode_table, open_file_table, handles>>
      /\ ~HasOpenHandle(inum)
  BY <1>1
<1>4. OpenInodeExists'
  BY <1>3 DEF LeakInv, OpenInodeExists, HasOpenHandle
<1>5. Sized' = Sized \ {inum}
  BY <1>3 DEF Sized
<1>6. CASE /\ inode_table[inum].i_size > 0
           /\ blocks' = blocks \ {inode_table[inum].i_data_block}
  <2>1. inum \in Sized
    BY <1>2, <1>6 DEF Sized
  <2> QED
    BY <1>3, <1>4, <1>5, <1>6, <2>1, FreeBlockLeak DEF LeakInv
<1>7. CASE ~(inode_table[inum].i_size > 0) /\ UNCHANGED blocks
  <2>1. Sized' = Sized
    BY <1>5, <1>7 DEF Sized
  <2> QED
    BY <1>3, <1>4, <1>7, <2>1, KeepBlockLeak DEF LeakInv
<1> QED
  BY <1>1, <1>6, <1>7

LEMMA WriteLeak ==
    ASSUME TypeOK, LeakInv, CloseFirst, NEW h \in Handles,
           NEW buffer \in Buffers, Write(h, buffer)
    PROVE  OpenInodeExists' /\ NoBlockLeaked'
<1> DEFINE inum == open_file_table[h].of_inumber
           end  == open_file_table[h].of_offset + ToWrite(h, buffer)
<1>1. h \in handles /\ inum \in Inums /\ inum \in inodes
  BY DEF Write, TypeOK, LeakInv, OpenInodeExists
<1>2. CASE UNCHANGED <<disk, oft, process>>
  BY <1>2 DEF LeakInv, OpenInodeExists, NoBlockLeaked, Sized, disk, oft
<1>3. ASSUME NEW b \in Blocks \cup {-1}, ToWrite(h, buffer) > 0,
             WriteBytes(h, b, buffer)
      PROVE  /\ OpenInodeExists'
             /\ inode_table'[inum].i_data_block = b
             /\ \A i \in Inums : i # inum => inode_table'[i] = inode_table[i]
             /\ Sized' = Sized \cup {inum}
  <2>1. /\ open_file_table[h].of_offset \in 0 .. BlockSize
        /\ ToWrite(h, buffer) \in Nat /\ end \in Nat /\ end > 0
    BY <1>1, <1>3, ToWriteFits, FSAssumption DEF TypeOK
  <2> HIDE DEF end
  <2>2. /\ open_file_table' = [open_file_table EXCEPT ![h].of_offset = end]
        /\ inode_table'[inum] =
              [i_size |-> IF end > inode_table[inum].i_size THEN end
                          ELSE inode_table[inum].i_size,
               i_data_block |-> b]
        /\ \A i \in Inums : i # inum => inode_table'[i] = inode_table[i]
        /\ UNCHANGED <<inodes, handles>>
    BY <1>1, <1>3, WriteBytesEffect DEF end
  <2>3. OpenInodeExists'
    BY <2>2 DEF LeakInv, OpenInodeExists, TypeOK
  <2>4. inode_table'[inum].i_size > 0
    <3>1. inode_table[inum].i_size \in Nat
      BY <1>1, FSAssumption DEF TypeOK
    <3> QED
      BY <2>1, <2>2, <3>1
  <2> QED
    BY <1>1, <2>2, <2>3, <2>4 DEF Sized, TypeOK
<1>4. CASE /\ ToWrite(h, buffer) > 0 /\ inode_table[inum].i_size > 0
           /\ WriteBytes(h, inode_table[inum].i_data_block, buffer)
           /\ UNCHANGED blocks
  <2>1. inode_table[inum].i_data_block \in Blocks \cup {-1}
    BY <1>1 DEF TypeOK
  <2>2. Sized' = Sized /\ OpenInodeExists'
    BY <1>1, <1>3, <1>4, <2>1 DEF Sized
  <2>3. \A i \in Sized :
          inode_table'[i].i_data_block = inode_table[i].i_data_block
    BY <1>3, <1>4, <2>1 DEF Sized, TypeOK
  <2> QED
    BY <1>4, <2>2, <2>3, KeepBlockLeak DEF LeakInv
<1>5. ASSUME NEW b \in Blocks, blocks' = blocks \cup {b},
             ToWrite(h, buffer) > 0, inode_table[inum].i_size = 0,
             WriteBytes(h, b, buffer)
      PROVE  OpenInodeExists' /\ NoBlockLeaked'
  <2>1. /\ OpenInodeExists'
        /\ inode_table'[inum].i_data_block = b
        /\ \A i \in Inums : i # inum => inode_table'[i] = inode_table[i]
        /\ Sized' = Sized \cup {inum}
    BY <1>3, <1>5
  <2>2. inum \notin Sized
    BY <1>5 DEF Sized
  <2>3. \A i \in Sized :
          inode_table'[i].i_data_block = inode_table[i].i_data_block
    BY <2>1, <2>2 DEF Sized, TypeOK
  <2> QED
    BY <1>5, <2>1, <2>3 DEF LeakInv, NoBlockLeaked
<1> QED
  BY <1>2, <1>4, <1>5 DEF Write

LEMMA LeakStep ==
    ASSUME TypeOK, DirInv, BlocksOwned, LeakInv, [Next]_vars
    PROVE  LeakInv'
<1> SUFFICES ASSUME CloseFirst
             PROVE  OpenInodeExists' /\ NoBlockLeaked'
  BY DEF LeakInv
<1>1. ASSUME NEW h \in Handles, Close(h)
      PROVE  OpenInodeExists' /\ NoBlockLeaked'
  BY <1>1 DEF Close, disk, LeakInv, OpenInodeExists, NoBlockLeaked, Sized
<1>2. ASSUME NEW h \in Handles, NEW len \in 0 .. MaxLen, Read(h, len)
      PROVE  OpenInodeExists' /\ NoBlockLeaked'
  <2>1. /\ UNCHANGED <<disk, handles>>
        /\ \/ UNCHANGED open_file_table
           \/ \E end : open_file_table' =
                  [open_file_table EXCEPT ![h].of_offset = end]
    BY <1>2 DEF Read
  <2>2. \A g \in handles :
          open_file_table'[g].of_inumber = open_file_table[g].of_inumber
    BY <2>1 DEF TypeOK
  <2> QED
    BY <2>1, <2>2 DEF disk, LeakInv, OpenInodeExists, NoBlockLeaked, Sized
<1>3. ASSUME UNCHANGED <<disk, oft>>
      PROVE  OpenInodeExists' /\ NoBlockLeaked'
  BY <1>3 DEF disk, oft, LeakInv, OpenInodeExists, NoBlockLeaked, Sized
<1> QED
  BY <1>1, <1>2, <1>3, OpenExistingLeak, NewInodeLeak, UnlinkLeak, WriteLeak
     DEF Next, OpenRefused, BadHandle, UnlinkRefused, vars

\* When handles are closed before their file is unlinked or truncated, the
\* blocks in use are exactly those of the files that have a size, for tables
\* of any size: no sequence of calls loses a block.
THEOREM NoBlockIsLost == Spec => []NoBlockLeaked
<1>1. LeakInv => NoBlockLeaked
  BY DEF LeakInv, NoBlockLeaked
<1> QED
  BY <1>1, InitType, InitDir, InitOwned, InitLeak, TypeStep, DirStep,
     OwnedStep, LeakStep, PTL DEF Spec

-----------------------------------------------------------------------------
(* Faults.  A handle whose file was not unlinked is on a file that exists    *)
(* and not past its end; such a handle cannot read outside its block.       *)
NoTruncation == \A mode \in Modes : "TRUNC" \notin mode

HandlesFit ==
    \A h \in handles \ orphans :
        /\ open_file_table[h].of_inumber \in inodes
        /\ open_file_table[h].of_offset
              <= inode_table[open_file_table[h].of_inumber].i_size

LEMMA OnlyOrphansFaultParts ==
    OnlyOrphansFault <=>
        (NoTruncation => HandlesFit /\ (process # "running" => orphans # {}))
  BY DEF OnlyOrphansFault, NoTruncation, HandlesFit

\* Opened without truncation, a file keeps its size, and the new handle
\* starts at its beginning or at its end.
LEMMA OpenExistingFit ==
    ASSUME TypeOK, DirInv, NoTruncation, HandlesFit,
           NEW name \in Names, NEW mode \in Modes, OpenExisting(name, mode)
    PROVE  HandlesFit' /\ UNCHANGED <<process, orphans>>
<1>1. PICK e \in UsedEntries : OpenExisting(name, mode)!(e)
  BY DEF OpenExisting, Finds, IsFirst
<1> DEFINE inum == dir[e].d_inumber
           offset == IF "APPEND" \in mode
                     THEN inode_table'[inum].i_size ELSE 0
<1>2. inum \in inodes /\ inum \in Inums
  BY EntryTaken, EntryNamesInode
<1>3. UNCHANGED <<inode_table, inodes, process>>
  BY <1>1 DEF NoTruncation
<1>4. AddToOpenFileTable(inum, offset)
  BY <1>1
<1>5. offset <= inode_table[inum].i_size
  <2>1. inode_table[inum].i_size \in 0 .. BlockSize
    BY <1>2 DEF TypeOK
  <2> QED
    BY <1>3, <2>1, FSAssumption
<1> HIDE DEF offset
<1>6. /\ orphans' = orphans
      /\ \A h \in handles' :
           \/ h \in handles /\ open_file_table'[h] = open_file_table[h]
           \/ /\ open_file_table'[h].of_inumber = inum
              /\ open_file_table'[h].of_offset = offset
  BY <1>4, OpenAddsHandle
<1> QED
  BY <1>2, <1>3, <1>5, <1>6 DEF HandlesFit

\* A new file has an inode no other file has.
LEMMA NewInodeFit ==
    ASSUME TypeOK, HandlesFit, NEW name \in Names, NEW mode \in Modes,
           CreateFails(name, mode) \/ OpenNew(name, mode)
    PROVE  HandlesFit' /\ UNCHANGED <<process, orphans>>
<1>1. PICK inum \in Inums \ inodes :
        /\ inode_table' = [inode_table EXCEPT ![inum] = EmptyInode]
        /\ UNCHANGED process
        /\ \/ /\ inodes' = inodes
              /\ UNCHANGED oft
           \/ /\ inodes' = inodes \cup {inum}
              /\ AddToOpenFileTable(inum, 0)
  BY DEF CreateFails, OpenNew, IsFirst
<1>2. inode_table'[inum].i_size = 0
  BY <1>1 DEF TypeOK, EmptyInode
<1>3. \A i \in inodes : i # inum /\ inode_table'[i] = inode_table[i]
  BY <1>1 DEF TypeOK
<1>4. CASE inodes' = inodes /\ UNCHANGED oft
  BY <1>1, <1>3, <1>4 DEF HandlesFit, oft
<1>5. CASE inodes' = inodes \cup {inum} /\ AddToOpenFileTable(inum, 0)
  <2>1. /\ orphans' = orphans
        /\ \A h \in handles' :
             \/ h \in handles /\ open_file_table'[h] = open_file_table[h]
             \/ /\ open_file_table'[h].of_inumber = inum
                /\ open_file_table'[h].of_offset = 0
    BY <1>5, OpenAddsHandle
  <2> QED
    BY <1>1, <1>2, <1>3, <1>5, <2>1 DEF HandlesFit
<1> QED
  BY <1>1, <1>4, <1>5

\* Unlinking makes orphans of the handles on the file.
LEMMA UnlinkFit ==
    ASSUME TypeOK, DirInv, HandlesFit, NEW name \in Names, Unlink(name)
    PROVE  HandlesFit' /\ UNCHANGED process /\ orphans \subseteq orphans'
<1>1. PICK e \in Entries, f \in Entries : Unlink(name)!(e, f)
  BY DEF Unlink
<1> DEFINE inum == dir[e].d_inumber
<1>2. inum \in inodes
  BY <1>1, UnlinkClearsFound, EntryTaken
<1>3. /\ inodes' = inodes \ {inum}
      /\ UNCHANGED <<inode_table, open_file_table, handles, process>>
      /\ orphans' = orphans \cup
            {h \in handles : open_file_table[h].of_inumber = inum}
  BY <1>1, <1>2
<1> QED
  BY <1>3 DEF HandlesFit

\* A write never shrinks a file and leaves its handle within it.
LEMMA WriteFit ==
    ASSUME TypeOK, HandlesFit, NEW h \in Handles, NEW buffer \in Buffers,
           Write(h, buffer)
    PROVE  HandlesFit' /\ UNCHANGED <<process, orphans>>
<1> DEFINE inum == open_file_table[h].of_inumber
           end  == open_file_table[h].of_offset + ToWrite(h, buffer)
<1>1. h \in handles /\ inum \in Inums
  BY DEF Write, TypeOK
<1>2. CASE UNCHANGED <<disk, oft, process>>
  BY <1>2 DEF HandlesFit, disk, oft
<1>3. ASSUME NEW b \in Blocks \cup {-1}, WriteBytes(h, b, buffer)
      PROVE  HandlesFit' /\ UNCHANGED <<process, orphans>>
  <2>1. end \in Nat /\ inode_table[inum].i_size \in Nat
    BY <1>1, ToWriteFits, FSAssumption DEF TypeOK
  <2> HIDE DEF end
  <2>2. /\ open_file_table' = [open_file_table EXCEPT ![h].of_offset = end]
        /\ inode_table'[inum] =
              [i_size |-> IF end > inode_table[inum].i_size THEN end
                          ELSE inode_table[inum].i_size,
               i_data_block |-> b]
        /\ \A i \in Inums : i # inum => inode_table'[i] = inode_table[i]
        /\ UNCHANGED <<inodes, handles, orphans, process>>
    BY <1>1, <1>3, WriteBytesEffect DEF end
  <2>3. /\ end <= inode_table'[inum].i_size
        /\ inode_table[inum].i_size <= inode_table'[inum].i_size
        /\ inode_table'[inum].i_size \in Nat
    BY <2>1, <2>2
  <2>4. ASSUME NEW g \in handles \ orphans
        PROVE  /\ open_file_table'[g].of_inumber \in inodes
               /\ open_file_table'[g].of_offset
                     <= inode_table'[open_file_table'[g].of_inumber].i_size
    <3> DEFINE i == open_file_table[g].of_inumber
    <3>1. /\ g \in Handles /\ i \in Inums /\ i \in inodes
          /\ open_file_table[g].of_offset <= inode_table[i].i_size
      BY DEF TypeOK, HandlesFit
    <3>2. open_file_table'[g].of_inumber = i
      BY <2>2, <3>1 DEF TypeOK
    <3>3. CASE g = h
      <4>1. open_file_table'[g].of_offset = end
        BY <2>2, <3>3, <3>1 DEF TypeOK
      <4> QED
        BY <2>3, <3>1, <3>2, <3>3, <4>1
    <3>4. CASE g # h
      <4>1. open_file_table'[g] = open_file_table[g]
        BY <2>2, <3>4, <3>1 DEF TypeOK
      <4>2. inode_table[i].i_size <= inode_table'[i].i_size
        <5>1. CASE i = inum
          BY <2>3, <5>1
        <5>2. CASE i # inum
          <6>1. inode_table[i].i_size \in Nat
            BY <3>1, FSAssumption DEF TypeOK
          <6> QED
            BY <2>2, <3>1, <5>2, <6>1
        <5> QED
          BY <5>1, <5>2
      <4>3. /\ open_file_table[g].of_offset \in Int
            /\ inode_table[i].i_size \in Int
            /\ inode_table'[i].i_size \in Int
        BY <2>2, <2>3, <3>1, FSAssumption DEF TypeOK
      <4> QED
        BY <3>1, <3>2, <4>1, <4>2, <4>3
    <3> QED
      BY <3>3, <3>4
  <2> QED
    BY <2>2, <2>4 DEF HandlesFit
<1>4. inode_table[inum].i_data_block \in Blocks \cup {-1}
  BY <1>1 DEF TypeOK
<1> QED
  BY <1>2, <1>3, <1>4 DEF Write

\* A read that leaves its block, or finds none, is through an orphan; any
\* other leaves the handle within its file.
LEMMA ReadFit ==
    ASSUME TypeOK, BlocksOwned, HandlesFit, NEW h \in Handles,
           NEW len \in 0 .. MaxLen, Read(h, len)
    PROVE  /\ HandlesFit'
           /\ process' # "running" => orphans' # {}
<1> DEFINE inum == open_file_table[h].of_inumber
           n    == ToRead(h, len)
           end  == open_file_table[h].of_offset + n
<1>1. /\ h \in handles /\ inum \in Inums /\ process = "running"
      /\ open_file_table[h].of_offset \in Nat
      /\ inode_table[inum].i_size \in 0 .. BlockSize
      /\ len \in Nat /\ BlockSize \in Nat
      /\ UNCHANGED <<inode_table, inodes, handles, orphans>>
  BY FSAssumption DEF Read, Running, TypeOK, disk
<1>2. h \notin orphans => /\ inum \in inodes
                          /\ n \in Nat /\ end <= inode_table[inum].i_size
                          /\ n > 0 => inode_table[inum].i_size > 0
  BY <1>1 DEF HandlesFit, ToRead
<1>3. CASE /\ open_file_table' = [open_file_table EXCEPT ![h].of_offset = end]
           /\ UNCHANGED process
  <2> HIDE DEF end
  <2>1. open_file_table'[h].of_inumber = inum
        /\ open_file_table'[h].of_offset = end
    BY <1>1, <1>3 DEF TypeOK
  <2>2. \A g \in handles : g # h => open_file_table'[g] = open_file_table[g]
    BY <1>3 DEF TypeOK
  <2> QED
    BY <1>1, <1>2, <1>3, <2>1, <2>2 DEF HandlesFit
<1>4. CASE /\ n > 0
           /\ ~(inode_table[inum].i_data_block \in Blocks /\ end <= BlockSize)
           /\ UNCHANGED open_file_table
  <2>1. ASSUME h \notin orphans
        PROVE  FALSE
    <3>1. inum \in Sized
      BY <1>2, <1>4, <2>1 DEF Sized
    <3>2. inode_table[inum].i_data_block \in Blocks
      BY <3>1 DEF BlocksOwned, TypeOK
    <3>3. end <= BlockSize
      BY <1>1, <1>2, <2>1
    <3> QED
      BY <1>4, <3>2, <3>3
  <2> QED
    BY <1>1, <1>4, <2>1 DEF HandlesFit
<1> QED
  BY <1>3, <1>4 DEF Read

LEMMA InitFault == Init => OnlyOrphansFault
  BY DEF Init, OnlyOrphansFault

LEMMA FaultStep ==
    ASSUME TypeOK, DirInv, BlocksOwned, OnlyOrphansFault, [Next]_vars
    PROVE  OnlyOrphansFault'
<1> DEFINE Fault == process # "running" => orphans # {}
<1> SUFFICES ASSUME NoTruncation
             PROVE  HandlesFit' /\ Fault'
  <2>1. OnlyOrphansFault' <=> (NoTruncation => HandlesFit' /\ Fault')
    BY DEF OnlyOrphansFault, NoTruncation, HandlesFit
  <2> QED
    BY <2>1
<1>1. HandlesFit /\ Fault
  BY OnlyOrphansFaultParts
<1>2. ASSUME NEW name \in Names, NEW mode \in Modes,
             OpenExisting(name, mode) \/ CreateFails(name, mode)
               \/ OpenNew(name, mode)
      PROVE  HandlesFit' /\ Fault'
  BY <1>1, <1>2, OpenExistingFit, NewInodeFit
<1>3. ASSUME NEW name \in Names, Unlink(name)
      PROVE  HandlesFit' /\ Fault'
  BY <1>1, <1>3, UnlinkFit
<1>4. ASSUME NEW h \in Handles, Close(h)
      PROVE  HandlesFit' /\ Fault'
  BY <1>1, <1>4 DEF Close, Running, disk, HandlesFit
<1>5. ASSUME NEW h \in Handles, NEW buffer \in Buffers, Write(h, buffer)
      PROVE  HandlesFit' /\ Fault'
  BY <1>1, <1>5, WriteFit
<1>6. ASSUME NEW h \in Handles, NEW len \in 0 .. MaxLen, Read(h, len)
      PROVE  HandlesFit' /\ Fault'
  BY <1>1, <1>6, ReadFit
<1>7. ASSUME UNCHANGED <<disk, oft, process>>
      PROVE  HandlesFit' /\ Fault'
  BY <1>1, <1>7 DEF HandlesFit, disk, oft
<1> QED
  BY <1>2, <1>3, <1>4, <1>5, <1>6, <1>7
     DEF Next, OpenRefused, BadHandle, UnlinkRefused, vars

\* As the broker uses TecnicoFS, without truncation and without closing, only
\* a handle left open on a file that was unlinked can make the process exit
\* or touch memory outside its block: a handle on an existing file never does,
\* whatever the other handles did before.
THEOREM FaultsNeedOrphans == Spec => []OnlyOrphansFault
  BY InitType, InitDir, InitOwned, InitFault, TypeStep, DirStep, OwnedStep,
     FaultStep, PTL DEF Spec

-----------------------------------------------------------------------------
(* The file store.  With CloseFirst no handle is an orphan and none is past *)
(* the end of its file, not even after a truncation.                       *)

Files == inodes \ {RootDirInum}

StoreInv ==
    /\ process = "running" /\ orphans = {} /\ HandlesFit
    /\ \A h \in handles : open_file_table[h].of_inumber \in Files
    /\ \A e \in UsedEntries : dir[e].d_name \in Names

FSInv == TypeOK /\ DirInv /\ BlocksOwned /\ StoreInv

\* Names and inodes are two ways to say which file.
LEMMA EntryIsFile ==
    ASSUME DirInv, NEW e \in UsedEntries
    PROVE  /\ InumOf(dir[e].d_name) = dir[e].d_inumber
           /\ NameOf(dir[e].d_inumber) = dir[e].d_name
<1>1. \A f \in UsedEntries :
        /\ dir[f].d_name = dir[e].d_name => f = e
        /\ dir[f].d_inumber = dir[e].d_inumber => f = e
  BY DEF DirInv, DirectoryConsistent
<1>2. (CHOOSE f \in UsedEntries : dir[f].d_name = dir[e].d_name) = e
  BY <1>1
<1>3. (CHOOSE f \in UsedEntries : dir[f].d_inumber = dir[e].d_inumber) = e
  BY <1>1
<1> QED
  BY <1>2, <1>3 DEF InumOf, NameOf

LEMMA NamesAreInums ==
    ASSUME DirInv
    PROVE  /\ \A n : Exists(n) => InumOf(n) \in Files /\ NameOf(InumOf(n)) = n
           /\ \A i \in Files : Exists(NameOf(i)) /\ InumOf(NameOf(i)) = i
<1>1. ASSUME NEW n, Exists(n)
      PROVE  InumOf(n) \in Files /\ NameOf(InumOf(n)) = n
  <2>1. PICK e \in UsedEntries : dir[e].d_name = n
    BY <1>1 DEF Exists
  <2> QED
    BY <2>1, EntryIsFile, EntryTaken DEF Files
<1>2. ASSUME NEW i \in Files
      PROVE  Exists(NameOf(i)) /\ InumOf(NameOf(i)) = i
  <2>1. PICK e \in UsedEntries : dir[e].d_inumber = i
    BY DEF Files, DirInv, DirectoryConsistent
  <2> QED
    BY <2>1, EntryIsFile DEF Exists
<1> QED
  BY <1>1, <1>2

LEMMA FileTypes ==
    ASSUME FSInv, NEW i \in Files
    PROVE  /\ i \in Inums /\ i \in inodes /\ inode_table[i].i_size \in Nat
           /\ inode_table[i].i_size <= BlockSize /\ BlockSize \in Nat
           /\ inode_table[i].i_size > 0 =>
                inode_table[i].i_data_block \in Blocks
<1>1. i \in Inums /\ i \in inodes
  BY DEF FSInv, TypeOK, Files
<1>2. inode_table[i].i_size \in 0 .. BlockSize /\ BlockSize \in Nat
  BY <1>1, FSAssumption DEF FSInv, TypeOK
<1>3. inode_table[i].i_size > 0 => inode_table[i].i_data_block \in Blocks
  BY <1>1 DEF FSInv, TypeOK, BlocksOwned, Sized
<1> QED
  BY <1>1, <1>2, <1>3

\* A file holds as many bytes as i_size says.
LEMMA ContentsIsSeq ==
    ASSUME FSInv, NEW i \in Files
    PROVE  /\ Contents(i) \in Seq(Bytes \cup {Junk})
           /\ Len(Contents(i)) = inode_table[i].i_size
           /\ \A k \in 1 .. inode_table[i].i_size :
                Contents(i)[k] = fs_data[inode_table[i].i_data_block][k - 1]
<1> DEFINE size == inode_table[i].i_size
           b == inode_table[i].i_data_block
<1>1. size \in Nat /\ size <= BlockSize /\ BlockSize \in Nat
  BY FileTypes
<1>2. ASSUME NEW k \in 1 .. size
      PROVE  fs_data[b][k - 1] \in Bytes \cup {Junk}
  <2>1. b \in Blocks
    BY <1>1, FileTypes
  <2>2. k - 1 \in Positions
    BY <1>1 DEF Positions
  <2> QED
    BY <2>1, <2>2 DEF FSInv, TypeOK
<1>3. Contents(i) = [k \in 1 .. size |-> fs_data[b][k - 1]]
  BY DEF Contents
<1> HIDE DEF size, b
<1>4. Contents(i) \in [1 .. size -> Bytes \cup {Junk}]
  BY <1>2, <1>3
<1>5. Contents(i) \in Seq(Bytes \cup {Junk})
  BY <1>1, <1>4, SeqDef
<1>6. Len(Contents(i)) = size
  BY <1>1, <1>4
<1> QED
  BY <1>3, <1>5, <1>6 DEF size, b

\* What a file holds changes only with its inode and its block.
LEMMA ContentsKept ==
    ASSUME FSInv, NEW i \in Files, inode_table'[i] = inode_table[i],
           inode_table[i].i_size > 0 =>
             fs_data'[inode_table[i].i_data_block] =
               fs_data[inode_table[i].i_data_block]
    PROVE  Contents(i)' = Contents(i)
<1> DEFINE size == inode_table[i].i_size
           b == inode_table[i].i_data_block
<1>1. size \in Nat
  BY FileTypes
<1>2. Contents(i)' = [k \in 1 .. size |-> fs_data'[b][k - 1]]
  BY DEF Contents
<1>3. \A k \in 1 .. size : fs_data'[b][k - 1] = fs_data[b][k - 1]
  BY <1>1
<1>4. Contents(i) = [k \in 1 .. size |-> fs_data[b][k - 1]]
  BY DEF Contents
<1> HIDE DEF size, b
<1> QED
  BY <1>2, <1>3, <1>4

LEMMA SameNames ==
    ASSUME UNCHANGED dir
    PROVE  /\ \A n : Exists(n)' <=> Exists(n)
           /\ \A n : InumOf(n)' = InumOf(n)
           /\ \A i : NameOf(i)' = NameOf(i)
  BY DEF Exists, InumOf, NameOf, UsedEntries

LEMMA StoredFilesAre ==
    /\ DOMAIN StoredFiles = {n \in Names : Exists(n)}
    /\ \A n \in Names : Exists(n) => StoredFiles[n] = Contents(InumOf(n))
  BY DEF StoredFiles

\* One file is changed.
LEMMA FilePut ==
    ASSUME FSInv, UNCHANGED dir, NEW j \in Files,
           \A i \in Files \ {j} : Contents(i)' = Contents(i)
    PROVE  StoredFiles' = Store!Put(StoredFiles, NameOf(j), Contents(j)')
<1>1. DirInv
  BY DEF FSInv
<1>2. NameOf(j) \in Names /\ Exists(NameOf(j))
  BY <1>1, NamesAreInums DEF FSInv, StoreInv, Exists
<1> DEFINE D == {n \in Names : Exists(n)}
<1>3. StoredFiles' = [n \in D |-> Contents(InumOf(n))']
  BY SameNames DEF StoredFiles
<1>4. ASSUME NEW n \in D
      PROVE  Contents(InumOf(n))' = IF n = NameOf(j) THEN Contents(j)'
                                    ELSE StoredFiles[n]
  <2>1. InumOf(n) \in Files /\ NameOf(InumOf(n)) = n
    BY <1>1, NamesAreInums
  <2>2. StoredFiles[n] = Contents(InumOf(n))
    BY StoredFilesAre
  <2>3. ASSUME NEW i, i = InumOf(n) PROVE Contents(InumOf(n))' = Contents(i)'
    BY <2>3, SameNames
  <2> QED
    BY <1>1, <2>1, <2>2, <2>3, NamesAreInums
<1> QED
  BY <1>2, <1>3, <1>4, StoredFilesAre DEF Store!Put

LEMMA FilesSame ==
    ASSUME FSInv, UNCHANGED dir, \A i \in Files : Contents(i)' = Contents(i)
    PROVE  StoredFiles' = StoredFiles
<1> DEFINE D == {n \in Names : Exists(n)}
<1>1. StoredFiles' = [n \in D |-> Contents(InumOf(n))']
  BY SameNames DEF StoredFiles
<1>2. ASSUME NEW n \in D
      PROVE  Contents(InumOf(n))' = Contents(InumOf(n))
  <2>1. InumOf(n) \in Files
    BY NamesAreInums DEF FSInv
  <2>2. ASSUME NEW i, i = InumOf(n) PROVE Contents(InumOf(n))' = Contents(i)'
    BY <2>2, SameNames
  <2> QED
    BY <2>1, <2>2
<1> QED
  BY <1>1, <1>2 DEF StoredFiles

LEMMA StoredHandlesAre ==
    /\ DOMAIN StoredHandles = handles
    /\ \A h \in handles :
         StoredHandles[h] = [name |-> NameOf(open_file_table[h].of_inumber),
                             offset |-> open_file_table[h].of_offset]
  BY DEF StoredHandles

\* What an open handle is on.
LEMMA HandleTypes ==
    ASSUME FSInv, NEW h \in handles
    PROVE  /\ h \in Handles /\ open_file_table[h].of_inumber \in Files
           /\ open_file_table[h].of_offset \in Nat
           /\ open_file_table[h].of_offset <=
                inode_table[open_file_table[h].of_inumber].i_size
<1>1. h \in Handles /\ open_file_table[h].of_offset \in 0 .. BlockSize
  BY DEF FSInv, TypeOK
<1>2. BlockSize \in Nat
  BY FSAssumption
<1> QED
  BY <1>1, <1>2 DEF FSInv, StoreInv, HandlesFit

\* The handles that were open are on the files they were on.
LEMMA HandleKept ==
    ASSUME FSInv, NEW h \in handles, open_file_table'[h] = open_file_table[h],
           \A i \in Files : HasOpenHandle(i) => NameOf(i)' = NameOf(i)
    PROVE  [name |-> NameOf(open_file_table[h].of_inumber),
            offset |-> open_file_table[h].of_offset]' = StoredHandles[h]
<1> DEFINE i == open_file_table[h].of_inumber
<1>1. i \in Files /\ HasOpenHandle(i)
  BY HandleTypes DEF HasOpenHandle
<1>2. ASSUME NEW j, j = i
      PROVE  NameOf(open_file_table[h].of_inumber)' = NameOf(j)'
  BY <1>2
<1> QED
  BY <1>1, <1>2, StoredHandlesAre

LEMMA HandlesSame ==
    ASSUME FSInv, UNCHANGED <<open_file_table, handles>>,
           \A i \in Files : HasOpenHandle(i) => NameOf(i)' = NameOf(i)
    PROVE  StoredHandles' = StoredHandles
<1>1. \A h \in handles :
        [name |-> NameOf(open_file_table[h].of_inumber),
         offset |-> open_file_table[h].of_offset]' = StoredHandles[h]
  BY HandleKept
<1>2. StoredHandles' = [h \in handles |->
        [name |-> NameOf(open_file_table[h].of_inumber),
         offset |-> open_file_table[h].of_offset]']
  BY DEF StoredHandles
<1> QED
  BY <1>1, <1>2, StoredHandlesAre DEF StoredHandles

\* add_to_open_file_table.
LEMMA HandleTaken ==
    ASSUME FSInv, NEW inum, NEW offset, AddToOpenFileTable(inum, offset),
           \A i \in Files : HasOpenHandle(i) => NameOf(i)' = NameOf(i)
    PROVE  Store!TakeHandle(NameOf(inum)', offset)
<1>1. CASE handles = Handles /\ Fail /\ UNCHANGED oft
  <2>1. StoredHandles' = StoredHandles
    BY <1>1, HandlesSame DEF oft
  <2> QED
    BY <1>1, <2>1, StoredHandlesAre
       DEF Store!TakeHandle, Store!Handles, Handles, Fail, Returns,
           Store!Returns
<1>2. ASSUME NEW h \in Handles, IsFirst(h, Handles \ handles),
             open_file_table' = [open_file_table EXCEPT
                 ![h] = [of_inumber |-> inum, of_offset |-> offset]],
             handles' = handles \cup {h}, Returns(h)
      PROVE  Store!TakeHandle(NameOf(inum)', offset)
  <2>1. h \in Handles \ handles
    BY <1>2 DEF IsFirst
  <2>2. open_file_table'[h] = [of_inumber |-> inum, of_offset |-> offset]
    BY <1>2 DEF FSInv, TypeOK
  <2>3. \A g \in handles : open_file_table'[g] = open_file_table[g]
    BY <1>2, <2>1 DEF FSInv, TypeOK
  <2>4. \A g \in handles :
          [name |-> NameOf(open_file_table[g].of_inumber),
           offset |-> open_file_table[g].of_offset]' = StoredHandles[g]
    BY <2>3, HandleKept
  <2>5. ASSUME NEW j, j = open_file_table'[h].of_inumber
        PROVE  NameOf(open_file_table[h].of_inumber)' = NameOf(j)'
    BY <2>5
  <2>6. [name |-> NameOf(open_file_table[h].of_inumber),
         offset |-> open_file_table[h].of_offset]' =
           [name |-> NameOf(inum)', offset |-> offset]
    BY <2>2, <2>5
  <2>7. StoredHandles' = [g \in handles \cup {h} |->
          [name |-> NameOf(open_file_table[g].of_inumber),
           offset |-> open_file_table[g].of_offset]']
    BY <1>2 DEF StoredHandles
  <2>8. StoredHandles' = Store!Put(StoredHandles, h,
          [name |-> NameOf(inum)', offset |-> offset])
    BY <2>1, <2>4, <2>6, <2>7, StoredHandlesAre DEF Store!Put
  <2> QED
    BY <1>2, <2>1, <2>8, StoredHandlesAre
       DEF Store!TakeHandle, Store!Handles, Handles, Returns, Store!Returns
<1> QED
  BY <1>1, <1>2 DEF AddToOpenFileTable

\* Opening leaves every handle within its file if the new one is.
LEMMA OpenFits ==
    ASSUME FSInv, TypeOK', NEW inum \in Files', NEW offset,
           AddToOpenFileTable(inum, offset), UNCHANGED process,
           Files \subseteq Files',
           offset <= inode_table'[inum].i_size,
           \A i \in Files :
             HasOpenHandle(i) => inode_table'[i] = inode_table[i],
           \A e \in UsedEntries' : dir'[e].d_name \in Names
    PROVE  StoreInv'
<1>1. /\ orphans' = orphans
      /\ \A h \in handles' :
           \/ h \in handles /\ open_file_table'[h] = open_file_table[h]
           \/ /\ open_file_table'[h].of_inumber = inum
              /\ open_file_table'[h].of_offset = offset
  BY OpenAddsHandle DEF FSInv
<1>2. ASSUME NEW h \in handles'
      PROVE  /\ open_file_table'[h].of_inumber \in Files'
             /\ open_file_table'[h].of_offset <=
                  inode_table'[open_file_table'[h].of_inumber].i_size
  <2>1. CASE h \in handles /\ open_file_table'[h] = open_file_table[h]
    BY <2>1, HandleTypes DEF HasOpenHandle
  <2> QED
    BY <1>1, <2>1
<1> QED
  BY <1>1, <1>2 DEF FSInv, StoreInv, HandlesFit, Files

LEMMA EmptyIsNoBytes ==
    ASSUME NEW i, inode_table'[i].i_size = 0
    PROVE  Contents(i)' = <<>>
<1>1. Contents(i)' \in [1 .. 0 -> {}]
  BY DEF Contents
<1>2. Contents(i)' \in Seq({})
  BY <1>1, SeqDef
<1>3. Len(Contents(i)') = 0
  BY <1>1
<1> QED
  BY <1>2, <1>3, EmptySeq

-----------------------------------------------------------------------------
(* The calls, one at a time.                                               *)

\* A call that is a step of the file store, and leaves it so.
StoreStep == StoreInv' /\ Store!Next

LEMMA OpenExistingIsStoreStep ==
    ASSUME FSInv, TypeOK', CloseFirst, NEW name \in Names, NEW mode \in Modes,
           OpenExisting(name, mode)
    PROVE  StoreStep
<1>1. PICK e \in UsedEntries, inum \in Inums :
        /\ dir[e].d_name = name /\ dir[e].d_inumber = inum
        /\ OpenExisting(name, mode)!(e)
  BY EntryNamesInode DEF OpenExisting, Finds, IsFirst, FSInv
<1> DEFINE size == inode_table'[inum].i_size
           offset == IF "APPEND" \in mode THEN size ELSE 0
<1>2. /\ DirInv /\ inum \in Files /\ NameOf(inum) = name
      /\ InumOf(name) = inum /\ Exists(name)
  BY <1>1, EntryIsFile, EntryTaken DEF FSInv, Files, Exists
<1>3. inum \in Inums /\ inode_table[inum].i_size \in Nat
  BY <1>2, FileTypes
<1>4. /\ UNCHANGED <<inodes, dir, fs_data, process>>
      /\ AddToOpenFileTable(inum, offset)
      /\ "TRUNC" \in mode => ~HasOpenHandle(inum) /\ size = 0
      /\ "TRUNC" \notin mode => inode_table'[inum] = inode_table[inum]
      /\ \A i \in Inums : i # inum => inode_table'[i] = inode_table[i]
  <2>1. /\ "TRUNC" \in mode => ~HasOpenHandle(inum)
        /\ UNCHANGED <<inodes, dir, fs_data, process>>
        /\ AddToOpenFileTable(inum, offset)
    BY <1>1
  <2>2. inode_table' = IF "TRUNC" \in mode /\ inode_table[inum].i_size > 0
                       THEN [inode_table EXCEPT ![inum].i_size = 0]
                       ELSE inode_table
    BY <1>1
  <2>3. inode_table \in [Inums -> [i_size : 0 .. BlockSize,
                                   i_data_block : Blocks \cup {-1}]]
    BY DEF FSInv, TypeOK
  <2> QED
    BY <1>3, <2>1, <2>2, <2>3
<1>5. \A i \in Files : i \in Inums
  BY FileTypes
<1>6. size \in Nat
  BY <1>3, <1>4
<1>7. StoreInv'
  <2>1. offset <= size
    BY <1>6
  <2>2. Files' = Files /\ \A f \in UsedEntries' : dir'[f].d_name \in Names
    BY <1>4 DEF Files, FSInv, StoreInv, UsedEntries
  <2> HIDE DEF offset
  <2> QED
    BY <1>2, <1>4, <1>5, <2>1, <2>2, OpenFits DEF HasOpenHandle
<1>8. \A i \in Files \ {inum} : Contents(i)' = Contents(i)
  BY <1>4, <1>5, ContentsKept
<1>9. Store!TakeHandle(name, offset)
  <2>1. NameOf(inum)' = name /\ \A i \in Files : NameOf(i)' = NameOf(i)
    BY <1>2, <1>4, SameNames
  <2> HIDE DEF offset
  <2> QED
    BY <1>4, <2>1, HandleTaken
<1>10. name \in DOMAIN StoredFiles
  BY <1>2, StoredFilesAre
<1>11. CASE "TRUNC" \in mode
  <2>1. Contents(inum)' = <<>>
    BY <1>4, <1>11, EmptyIsNoBytes
  <2>2. StoredFiles' = Store!Put(StoredFiles, name, <<>>)
    BY <1>2, <1>4, <1>8, <2>1, FilePut
  <2>3. StoredFiles'[name] = <<>> /\ Len(StoredFiles'[name]) = size
    BY <1>4, <1>10, <1>11, <2>2 DEF Store!Put
  <2>4. Store!OpenExisting(name, mode)
    BY <1>9, <1>10, <1>11, <2>2, <2>3 DEF Store!OpenExisting
  <2> QED
    BY <1>7, <2>4 DEF StoreStep, Store!Next
<1>12. CASE "TRUNC" \notin mode
  <2>1. Contents(inum)' = Contents(inum)
    BY <1>2, <1>4, <1>12, ContentsKept
  <2>2. StoredFiles' = StoredFiles
    BY <1>4, <1>8, <2>1, FilesSame
  <2>3. Len(StoredFiles'[name]) = size
    BY <1>2, <1>4, <1>12, <2>2, StoredFilesAre, ContentsIsSeq
  <2>4. Store!OpenExisting(name, mode)
    BY <1>9, <1>10, <1>12, <2>2, <2>3 DEF Store!OpenExisting
  <2> QED
    BY <1>7, <2>4 DEF StoreStep, Store!Next
<1> QED
  BY <1>11, <1>12

\* An entry that is not touched says the same of the same file.
EntriesOK ==
    \A e \in UsedEntries : /\ InumOf(dir[e].d_name) = dir[e].d_inumber
                          /\ NameOf(dir[e].d_inumber) = dir[e].d_name

LEMMA EntriesAreFiles == DirInv => EntriesOK
  BY EntryIsFile DEF EntriesOK

LEMMA EntryKept ==
    ASSUME DirInv, DirInv', NEW e \in UsedEntries, e \in UsedEntries',
           dir'[e] = dir[e]
    PROVE  /\ InumOf(dir[e].d_name)' = InumOf(dir[e].d_name)
           /\ NameOf(dir[e].d_inumber)' = NameOf(dir[e].d_inumber)
<1>1. DirInv' => EntriesOK'
  BY EntriesAreFiles, PTL
<1> QED
  BY <1>1, EntryIsFile DEF EntriesOK

\* The inode of a new file is no other file's.
LEMMA NewInodeKeepsContents ==
    ASSUME FSInv, NEW inum \in Inums \ inodes, UNCHANGED fs_data,
           inode_table' = [inode_table EXCEPT ![inum] = EmptyInode]
    PROVE  /\ \A i \in Files : /\ inode_table'[i] = inode_table[i]
                               /\ Contents(i)' = Contents(i)
           /\ Contents(inum)' = <<>> /\ inode_table'[inum].i_size = 0
<1>1. \A i \in Files : inode_table'[i] = inode_table[i]
  BY FileTypes DEF FSInv, TypeOK, Files
<1>2. inode_table'[inum].i_size = 0
  BY DEF FSInv, TypeOK, EmptyInode
<1> QED
  BY <1>1, <1>2, ContentsKept, EmptyIsNoBytes

LEMMA OpenNewIsStoreStep ==
    ASSUME FSInv, TypeOK', DirInv', NEW name \in Names, NEW mode \in Modes,
           OpenNew(name, mode)
    PROVE  StoreStep
<1>1. PICK inum \in Inums \ inodes, e \in FreeEntries :
        /\ ~Exists(name) /\ "CREAT" \in mode
        /\ inodes' = inodes \cup {inum}
        /\ inode_table' = [inode_table EXCEPT ![inum] = EmptyInode]
        /\ dir' = [dir EXCEPT ![e] = [d_name |-> name, d_inumber |-> inum]]
        /\ AddToOpenFileTable(inum, 0)
        /\ UNCHANGED <<fs_data, process>>
  BY DEF OpenNew, IsFirst
<1>2. DirInv /\ TypeOK /\ RootDirInum \in inodes
  BY DEF FSInv, DirInv
<1>3. /\ \A i \in Files : /\ inode_table'[i] = inode_table[i]
                          /\ Contents(i)' = Contents(i)
      /\ Contents(inum)' = <<>> /\ inode_table'[inum].i_size = 0
  BY <1>1, NewInodeKeepsContents
<1>4. /\ e \in Entries /\ inum # -1
      /\ dir'[e] = [d_name |-> name, d_inumber |-> inum]
      /\ \A f \in Entries : f # e => dir'[f] = dir[f]
      /\ UsedEntries' = UsedEntries \cup {e} /\ e \notin UsedEntries
  <2>1. e \in Entries /\ e \notin UsedEntries /\ inum # -1
    BY DEF FreeEntries, Inums
  <2>2. /\ dir'[e] = [d_name |-> name, d_inumber |-> inum]
        /\ \A f \in Entries : f # e => dir'[f] = dir[f]
    BY <1>1, <1>2, <2>1 DEF TypeOK
  <2> QED
    BY <2>1, <2>2 DEF UsedEntries
<1>5. \A f \in UsedEntries : /\ f \in UsedEntries' /\ dir'[f] = dir[f]
  BY <1>4 DEF UsedEntries
<1>6. \A n : Exists(n)' <=> Exists(n) \/ n = name
  BY <1>4, <1>5 DEF Exists
<1>7. ASSUME NEW n, Exists(n)
      PROVE  InumOf(n)' = InumOf(n)
  <2>1. PICK f \in UsedEntries : dir[f].d_name = n
    BY <1>7 DEF Exists
  <2>2. InumOf(dir[f].d_name)' = InumOf(n)'
    BY <1>5, <2>1
  <2> QED
    BY <1>2, <1>5, <2>1, <2>2, EntryKept
<1>8. ASSUME NEW i \in Files
      PROVE  NameOf(i)' = NameOf(i)
  <2>1. PICK f \in UsedEntries : dir[f].d_inumber = i
    BY <1>2 DEF Files, DirInv, DirectoryConsistent
  <2>2. NameOf(dir[f].d_inumber)' = NameOf(i)'
    BY <1>5, <2>1
  <2> QED
    BY <1>2, <1>5, <2>1, <2>2, EntryKept
<1>9. InumOf(name)' = inum /\ NameOf(inum)' = name
  <2>1. DirInv' => EntriesOK'
    BY EntriesAreFiles, PTL
  <2>2. /\ InumOf(dir[e].d_name)' = dir'[e].d_inumber
        /\ NameOf(dir[e].d_inumber)' = dir'[e].d_name
    BY <1>4, <2>1 DEF EntriesOK
  <2>3. /\ InumOf(dir[e].d_name)' = InumOf(name)'
        /\ NameOf(dir[e].d_inumber)' = NameOf(inum)'
    BY <1>4
  <2> QED
    BY <1>4, <2>2, <2>3
<1>10. StoreInv'
  <2>1. /\ inum \in Files' /\ Files \subseteq Files'
        /\ \A f \in UsedEntries' : dir'[f].d_name \in Names
    BY <1>1, <1>2, <1>4, <1>5 DEF Files, FSInv, StoreInv
  <2> QED
    BY <1>1, <1>3, <2>1, OpenFits
<1>11. Store!TakeHandle(name, 0)
  BY <1>1, <1>8, <1>9, HandleTaken
<1>12. StoredFiles' = Store!Put(StoredFiles, name, <<>>)
  <2>1. ASSUME NEW n, Exists(n)
        PROVE  Contents(InumOf(n))' = Contents(InumOf(n))
    <3>1. InumOf(n) \in Files
      BY <1>2, <2>1, NamesAreInums
    <3>2. ASSUME NEW i, i = InumOf(n)
          PROVE  Contents(InumOf(n))' = Contents(i)'
      BY <1>7, <2>1, <3>2
    <3> QED
      BY <1>3, <3>1, <3>2
  <2>2. Contents(InumOf(name))' = <<>>
    <3>1. Contents(InumOf(name))' = Contents(inum)'
      BY <1>9
    <3> QED
      BY <1>3, <3>1
  <2>3. StoredFiles' = [n \in {n \in Names : Exists(n)} \cup {name} |->
                          Contents(InumOf(n))']
    BY <1>6 DEF StoredFiles
  <2> QED
    BY <1>1, <2>1, <2>2, <2>3, StoredFilesAre DEF Store!Put
<1>13. Store!OpenNew(name, mode)
  BY <1>1, <1>11, <1>12, StoredFilesAre DEF Store!OpenNew
<1> QED
  BY <1>10, <1>13 DEF StoreStep, Store!Next

LEMMA UnlinkIsStoreStep ==
    ASSUME FSInv, DirInv', CloseFirst, NEW name \in Names, Unlink(name)
    PROVE  StoreStep
<1>1. PICK e \in UsedEntries, inum \in Inums :
        /\ dir[e].d_name = name /\ dir[e].d_inumber = inum
        /\ dir' = [dir EXCEPT ![e] = EmptyEntry]
        /\ ~HasOpenHandle(inum)
        /\ process' = IF inum \in inodes THEN process ELSE "exited"
        /\ inodes' = inodes \ {inum}
        /\ orphans' = orphans \cup
             {h \in handles : open_file_table[h].of_inumber = inum}
        /\ Returns(0)
        /\ UNCHANGED <<inode_table, fs_data, open_file_table, handles>>
  <2>1. PICK e \in Entries, f \in Entries : Unlink(name)!(e, f)
    BY DEF Unlink
  <2>2. e \in UsedEntries /\ dir[e].d_name = name /\ f = e
    BY <2>1, UnlinkClearsFound DEF FSInv
  <2> QED
    BY <2>1, <2>2, EntryNamesInode DEF FSInv
<1>2. /\ DirInv /\ TypeOK /\ inum \in Files
      /\ \A f \in UsedEntries : f # e => /\ dir[f].d_name # name
                                         /\ dir[f].d_inumber # inum
  BY <1>1, EntryTaken DEF FSInv, Files, DirInv, DirectoryConsistent
<1>3. /\ e \in Entries /\ dir'[e] = EmptyEntry
      /\ \A f \in Entries : f # e => dir'[f] = dir[f]
      /\ UsedEntries' = UsedEntries \ {e}
  <2>1. e \in Entries
    BY DEF UsedEntries
  <2>2. dir'[e] = EmptyEntry /\ \A f \in Entries : f # e => dir'[f] = dir[f]
    BY <1>1, <1>2, <2>1 DEF TypeOK
  <2> QED
    BY <2>1, <2>2 DEF UsedEntries, EmptyEntry
<1>4. \A f \in UsedEntries \ {e} : f \in UsedEntries' /\ dir'[f] = dir[f]
  BY <1>3 DEF UsedEntries
<1>5. \A n : Exists(n)' <=> Exists(n) /\ n # name
  BY <1>1, <1>2, <1>3, <1>4 DEF Exists
<1>6. ASSUME NEW n, Exists(n), n # name
      PROVE  InumOf(n)' = InumOf(n) /\ InumOf(n) \in Files
  <2>1. PICK f \in UsedEntries \ {e} : dir[f].d_name = n
    BY <1>1, <1>6 DEF Exists
  <2>2. InumOf(dir[f].d_name)' = InumOf(n)'
    BY <1>4, <2>1
  <2> QED
    BY <1>2, <1>4, <1>6, <2>1, <2>2, EntryKept, NamesAreInums
<1>7. ASSUME NEW i \in Files \ {inum}
      PROVE  NameOf(i)' = NameOf(i)
  <2>1. PICK f \in UsedEntries : dir[f].d_inumber = i
    BY <1>2 DEF Files, DirInv, DirectoryConsistent
  <2>2. NameOf(dir[f].d_inumber)' = NameOf(i)' /\ f # e
    BY <1>1, <1>4, <2>1
  <2> QED
    BY <1>2, <1>4, <2>1, <2>2, EntryKept
<1>8. StoreInv'
  <2>1. process' = "running" /\ orphans' = {}
    BY <1>1, <1>2 DEF FSInv, StoreInv, HasOpenHandle, Files
  <2>2. \A h \in handles : open_file_table[h].of_inumber # inum
    BY <1>1 DEF HasOpenHandle
  <2>3. \A f \in UsedEntries' : dir'[f].d_name \in Names
    BY <1>3, <1>4 DEF FSInv, StoreInv
  <2> QED
    BY <1>1, <2>1, <2>2, <2>3 DEF FSInv, StoreInv, HandlesFit, Files
<1>9. StoredHandles' = StoredHandles
  BY <1>1, <1>7, HandlesSame
<1>10. StoredFiles' = Store!Drop(StoredFiles, name)
  <2>1. ASSUME NEW n, Exists(n), n # name
        PROVE  Contents(InumOf(n))' = Contents(InumOf(n))
    <3>1. ASSUME NEW i, i = InumOf(n)
          PROVE  Contents(InumOf(n))' = Contents(i)'
      BY <1>6, <2>1, <3>1
    <3> QED
      BY <1>1, <1>6, <2>1, <3>1, ContentsKept
  <2>2. StoredFiles' = [n \in {n \in Names : Exists(n)} \ {name} |->
                          Contents(InumOf(n))']
    BY <1>5 DEF StoredFiles
  <2> QED
    BY <2>1, <2>2, StoredFilesAre DEF Store!Drop
<1>11. Store!Unlink(name)
  BY <1>1, <1>9, <1>10, StoredFilesAre
     DEF Store!Unlink, Returns, Store!Returns, Exists
<1> QED
  BY <1>8, <1>11 DEF StoreStep, Store!Next

LEMMA RefusalIsStoreStep ==
    ASSUME FSInv, UNCHANGED <<dir, inodes, oft, process>>, Fail,
           \A i \in Files : /\ inode_table'[i] = inode_table[i]
                            /\ Contents(i)' = Contents(i)
    PROVE  StoreStep
<1>1. StoredFiles' = StoredFiles /\ StoredHandles' = StoredHandles
  BY FilesSame, HandlesSame, SameNames DEF oft
<1>2. StoreInv'
  BY DEF FSInv, StoreInv, HandlesFit, UsedEntries, Files, oft
<1> QED
  BY <1>1, <1>2
     DEF StoreStep, Store!Next, Store!Refuse, Fail, Returns, Store!Returns

LEMMA CreateFailsIsStoreStep ==
    ASSUME FSInv, NEW name \in Names, NEW mode \in Modes,
           CreateFails(name, mode)
    PROVE  StoreStep
<1>1. PICK inum \in Inums \ inodes :
        /\ inode_table' = [inode_table EXCEPT ![inum] = EmptyInode]
        /\ Fail /\ UNCHANGED <<inodes, dir, fs_data, oft, process>>
  BY DEF CreateFails, IsFirst
<1>2. \A i \in Files : /\ inode_table'[i] = inode_table[i]
                       /\ Contents(i)' = Contents(i)
  BY <1>1, NewInodeKeepsContents
<1> QED
  BY <1>1, <1>2, RefusalIsStoreStep

LEMMA NothingIsStoreStep ==
    ASSUME FSInv, UNCHANGED <<disk, oft, process>>, Fail
    PROVE  StoreStep
<1>1. \A i \in Files : Contents(i)' = Contents(i)
  BY ContentsKept DEF disk
<1> QED
  BY <1>1, RefusalIsStoreStep DEF disk

LEMMA CloseIsStoreStep ==
    ASSUME FSInv, NEW h \in Handles, Close(h)
    PROVE  StoreStep
<1>1. /\ h \in handles /\ handles' = handles \ {h} /\ orphans' = orphans \ {h}
      /\ UNCHANGED <<disk, open_file_table, process>> /\ Returns(0)
  BY DEF Close
<1>2. StoreInv'
  BY <1>1 DEF FSInv, StoreInv, HandlesFit, UsedEntries, Files, disk
<1>3. StoredFiles' = StoredFiles
  BY <1>1, FilesSame, ContentsKept DEF disk
<1>4. \A g \in handles :
        [name |-> NameOf(open_file_table[g].of_inumber),
         offset |-> open_file_table[g].of_offset]' = StoredHandles[g]
  BY <1>1, HandleKept, SameNames DEF disk
<1>5. StoredHandles' = [g \in handles \ {h} |->
        [name |-> NameOf(open_file_table[g].of_inumber),
         offset |-> open_file_table[g].of_offset]']
  BY <1>1 DEF StoredHandles
<1>6. StoredHandles' = Store!Drop(StoredHandles, h)
  BY <1>4, <1>5, StoredHandlesAre DEF Store!Drop
<1>7. Store!Close(h)
  BY <1>1, <1>3, <1>6, StoredHandlesAre
     DEF Store!Close, Returns, Store!Returns
<1> QED
  BY <1>2, <1>7 DEF StoreStep, Store!Next, Store!Handles, Handles

\* A handle moves on.
LEMMA HandleMoved ==
    ASSUME FSInv, NEW h \in handles, NEW n, UNCHANGED <<dir, handles>>,
           open_file_table' = [open_file_table EXCEPT
               ![h].of_offset = open_file_table[h].of_offset + n]
    PROVE  /\ StoredHandles' = [StoredHandles EXCEPT ![h].offset = @ + n]
           /\ \A g \in handles : open_file_table'[g].of_inumber =
                                   open_file_table[g].of_inumber
<1>1. /\ h \in Handles /\ handles \subseteq Handles
      /\ open_file_table \in [Handles -> [of_inumber : Inums,
                                          of_offset : 0 .. BlockSize]]
  BY DEF FSInv, TypeOK
<1>2. /\ open_file_table'[h].of_inumber = open_file_table[h].of_inumber
      /\ open_file_table'[h].of_offset = open_file_table[h].of_offset + n
      /\ \A g \in handles \ {h} : open_file_table'[g] = open_file_table[g]
  BY <1>1
<1>3. \A g \in handles \ {h} :
        [name |-> NameOf(open_file_table[g].of_inumber),
         offset |-> open_file_table[g].of_offset]' = StoredHandles[g]
  BY <1>2, HandleKept, SameNames
<1>4. [name |-> NameOf(open_file_table[h].of_inumber),
       offset |-> open_file_table[h].of_offset]' =
         [StoredHandles[h] EXCEPT !.offset = @ + n]
  <2>1. NameOf(open_file_table[h].of_inumber)' =
          NameOf(open_file_table[h].of_inumber)
    <3>1. ASSUME NEW i, i = open_file_table[h].of_inumber
          PROVE  NameOf(open_file_table[h].of_inumber)' = NameOf(i)'
      BY <1>2, <3>1
    <3> QED
      BY <3>1, SameNames
  <2> QED
    BY <1>2, <2>1, StoredHandlesAre
<1>5. StoredHandles' = [g \in handles |->
        [name |-> NameOf(open_file_table[g].of_inumber),
         offset |-> open_file_table[g].of_offset]']
  BY DEF StoredHandles
<1>6. StoredHandles' = [StoredHandles EXCEPT ![h].offset = @ + n]
  <2>1. StoredHandles' = [g \in handles |->
          IF g = h THEN [StoredHandles[h] EXCEPT !.offset = @ + n]
          ELSE StoredHandles[g]]
    BY <1>3, <1>4, <1>5
  <2>2. [StoredHandles EXCEPT ![h].offset = @ + n] = [g \in handles |->
          IF g = h THEN [StoredHandles[h] EXCEPT !.offset = @ + n]
          ELSE StoredHandles[g]]
    BY StoredHandlesAre DEF StoredHandles
  <2> QED
    BY <2>1, <2>2
<1> QED
  BY <1>2, <1>6

LEMMA ReadIsStoreStep ==
    ASSUME FSInv, NEW h \in Handles, NEW len \in 0 .. MaxLen, Read(h, len)
    PROVE  StoreStep
<1>1. PICK inum \in Files, off \in Nat :
        /\ h \in handles /\ open_file_table[h].of_inumber = inum
        /\ open_file_table[h].of_offset = off
        /\ off <= inode_table[inum].i_size
  BY HandleTypes DEF Read
<1> DEFINE n == ToRead(h, len)
           b == inode_table[inum].i_data_block
           size == inode_table[inum].i_size
           data == [k \in 1 .. n |-> fs_data[b][off + k - 1]]
<1>2. /\ HandlesFit' /\ process' = "running" /\ orphans' = {}
      /\ UNCHANGED <<disk, handles>>
  BY ReadFit DEF FSInv, StoreInv, Read
<1>3. /\ ret' = [code |-> n, data |-> data]
      /\ open_file_table' = [open_file_table EXCEPT ![h].of_offset = off + n]
  BY <1>1, <1>2 DEF Read
<1>4. /\ size \in Nat /\ len \in Nat /\ n \in Nat /\ off + n <= size
      /\ n = IF size - off > len THEN len ELSE size - off
  BY <1>1, FileTypes, FSAssumption DEF ToRead
<1>5. /\ Contents(inum) \in Seq(Bytes \cup {Junk})
      /\ Len(Contents(inum)) = size
      /\ \A k \in 1 .. size : Contents(inum)[k] = fs_data[b][k - 1]
  BY ContentsIsSeq
<1> HIDE DEF n, b, size
<1>6. data = SubSeq(Contents(inum), off + 1, off + n)
  <2> DEFINE sub == SubSeq(Contents(inum), off + 1, off + n)
  <2>1. \A k \in off + 1 .. off + n : Contents(inum)[k] \in Bytes \cup {Junk}
    BY <1>4, <1>5, ElementOfSeq
  <2>2. /\ sub \in Seq(Bytes \cup {Junk}) /\ Len(sub) = n
        /\ \A k \in 1 .. n : sub[k] = Contents(inum)[off + 1 + k - 1]
    BY <1>1, <1>4, <2>1, SubSeqProperties
  <2> HIDE DEF sub
  <2>3. \A k \in 1 .. n : sub[k] = data[k] /\ data[k] \in Bytes \cup {Junk}
    <3> SUFFICES ASSUME NEW k \in 1 .. n
                 PROVE  sub[k] = data[k] /\ data[k] \in Bytes \cup {Junk}
      OBVIOUS
    <3>1. /\ off + k \in 1 .. size /\ off + 1 + k - 1 = off + k
          /\ off + k \in off + 1 .. off + n
      BY <1>1, <1>4
    <3>2. sub[k] = Contents(inum)[off + k]
      BY <2>2, <3>1
    <3>3. Contents(inum)[off + k] = data[k]
      BY <1>5, <3>1
    <3> QED
      BY <2>1, <3>1, <3>2, <3>3
  <2>4. data \in Seq(Bytes \cup {Junk}) /\ Len(data) = n
    <3>1. data \in [1 .. n -> Bytes \cup {Junk}]
      BY <2>3
    <3> HIDE DEF data
    <3> QED
      BY <1>4, <3>1, SeqDef
  <2> QED
    BY <2>2, <2>3, <2>4, SeqEqual DEF sub
<1>7. /\ StoredHandles' = [StoredHandles EXCEPT ![h].offset = @ + n]
      /\ \A g \in handles : open_file_table'[g].of_inumber =
                              open_file_table[g].of_inumber
  BY <1>1, <1>2, <1>3, HandleMoved DEF disk
<1>8. StoreInv'
  BY <1>2, <1>7 DEF FSInv, StoreInv, UsedEntries, Files, disk
<1>9. StoredFiles' = StoredFiles
  BY <1>2, FilesSame, ContentsKept DEF disk
<1>10. /\ StoredHandles[h].name = NameOf(inum)
       /\ StoredHandles[h].offset = off /\ h \in DOMAIN StoredHandles
  BY <1>1, StoredHandlesAre
<1>11. StoredFiles[NameOf(inum)] = Contents(inum)
  BY NamesAreInums, StoredFilesAre DEF FSInv, StoreInv, Exists
<1> HIDE DEF data
<1>12. Store!Read(h, len)
  BY <1>3, <1>4, <1>5, <1>6, <1>7, <1>9, <1>10, <1>11 DEF Store!Read
<1> QED
  BY <1>8, <1>12 DEF StoreStep, Store!Next, Store!Handles, Handles

\* The bytes of a file after a write.
LEMMA OverwrittenIs ==
    ASSUME NEW S, NEW content, NEW off \in Nat,
           NEW buffer \in Seq(S), NEW w \in 0 .. Len(buffer)
    PROVE  Store!Overwritten(content, off, SubSeq(buffer, 1, w)) =
             [i \in 1 .. (IF off + w > Len(content) THEN off + w
                          ELSE Len(content)) |->
                IF i \in off + 1 .. off + w THEN buffer[i - off]
                ELSE content[i]]
<1> DEFINE sub == SubSeq(buffer, 1, w)
<1>1. w \in Nat /\ Len(buffer) \in Nat /\ w <= Len(buffer)
  BY LenProperties
<1>2. \A k \in 1 .. w : buffer[k] \in S
  BY <1>1, ElementOfSeq
<1>3. Len(sub) = w /\ \A k \in 1 .. w : sub[k] = buffer[k]
  BY <1>1, <1>2, SubSeqProperties
<1>4. \A i \in off + 1 .. off + w : sub[i - off] = buffer[i - off]
  <2>1. \A i \in off + 1 .. off + w : i - off \in 1 .. w
    BY <1>1
  <2> QED
    BY <1>3, <2>1
<1> HIDE DEF sub
<1>5. Store!Overwritten(content, off, sub) =
        [i \in 1 .. (IF off + w > Len(content) THEN off + w
                     ELSE Len(content)) |->
           IF i \in off + 1 .. off + w THEN sub[i - off] ELSE content[i]]
  BY <1>3 DEF Store!Overwritten
<1> QED
  BY <1>4, <1>5 DEF sub

\* A write through a handle that is within its file, to the file's block or
\* a new one.
LEMMA WriteBytesContents ==
    ASSUME FSInv, NEW h \in handles, NEW buffer \in Buffers, NEW b \in Blocks,
           WriteBytes(h, b, buffer), NEW inum \in Files,
           open_file_table[h].of_inumber = inum,
           inode_table[inum].i_size > 0 => inode_table[inum].i_data_block = b
    PROVE  Contents(inum)' =
             Store!Overwritten(Contents(inum), open_file_table[h].of_offset,
                               SubSeq(buffer, 1, ToWrite(h, buffer)))
<1>1. PICK off \in Nat, w \in 0 .. Len(buffer), size \in Nat :
        /\ off = open_file_table[h].of_offset /\ w = ToWrite(h, buffer)
        /\ size = inode_table[inum].i_size
        /\ h \in Handles /\ off <= size /\ size <= BlockSize
        /\ BlockSize \in Nat /\ inum \in Inums /\ off + w <= BlockSize
  BY HandleTypes, FileTypes, BufferIsSeq, ToWriteFits DEF FSInv
<1>2. buffer \in Seq(Bytes) /\ w \in Nat /\ Len(buffer) \in Nat
  BY BufferIsSeq, LenProperties
<1> DEFINE grown == IF off + w > size THEN off + w ELSE size
<1>3. /\ inode_table'[inum].i_size = grown
      /\ inode_table'[inum].i_data_block = b
  <2>1. b \in Blocks \cup {-1} /\ TypeOK
    BY DEF FSInv
  <2>2. inode_table'[inum] = [i_size |-> grown, i_data_block |-> b]
    BY <1>1, <2>1, WriteBytesEffect
  <2> QED
    BY <2>2
<1>4. \A p \in Positions : fs_data'[b][p] =
        IF p \in off .. (off + w) - 1 THEN buffer[p - off + 1]
        ELSE fs_data[b][p]
  <2>1. fs_data' = [fs_data EXCEPT ![b] = [p \in Positions |->
          IF p \in open_file_table[h].of_offset ..
                    (open_file_table[h].of_offset + ToWrite(h, buffer)) - 1
          THEN buffer[p - open_file_table[h].of_offset + 1]
          ELSE fs_data[b][p]]]
    BY Zenon DEF WriteBytes
  <2>2. fs_data'[b] = [p \in Positions |->
          IF p \in off .. (off + w) - 1 THEN buffer[p - off + 1]
          ELSE fs_data[b][p]]
    BY <1>1, <2>1 DEF FSInv, TypeOK
  <2> QED
    BY <2>2
<1>5. /\ Len(Contents(inum)) = size
      /\ \A k \in 1 .. size :
           Contents(inum)[k] = fs_data[inode_table[inum].i_data_block][k - 1]
  BY <1>1, ContentsIsSeq
<1>6. Contents(inum)' = [k \in 1 .. grown |-> fs_data'[b][k - 1]]
  BY <1>3 DEF Contents
<1>7. ASSUME NEW k \in 1 .. grown
      PROVE  fs_data'[b][k - 1] =
               IF k \in off + 1 .. off + w THEN buffer[k - off]
               ELSE Contents(inum)[k]
  <2>1. k - 1 \in Positions
    BY <1>1, <1>2 DEF Positions
  <2>2. CASE k \in off + 1 .. off + w
    <3>1. k - 1 \in off .. (off + w) - 1 /\ k - 1 - off + 1 = k - off
      BY <1>1, <1>2, <2>2
    <3> QED
      BY <1>4, <2>1, <2>2, <3>1
  <2>3. CASE k \notin off + 1 .. off + w
    <3>1. k - 1 \notin off .. (off + w) - 1 /\ k \in 1 .. size /\ size > 0
      BY <1>1, <1>2, <2>3
    <3>2. inode_table[inum].i_data_block = b
      BY <1>1, <3>1
    <3> QED
      BY <1>4, <1>5, <2>1, <2>3, <3>1, <3>2
  <2> QED
    BY <2>2, <2>3
<1>8. Store!Overwritten(Contents(inum), off, SubSeq(buffer, 1, w)) =
        [k \in 1 .. grown |-> IF k \in off + 1 .. off + w THEN buffer[k - off]
                              ELSE Contents(inum)[k]]
  <2> DEFINE content == Contents(inum)
  <2> HIDE DEF content
  <2>1. Len(content) = size
    BY <1>5 DEF content
  <2>2. Store!Overwritten(content, off, SubSeq(buffer, 1, w)) =
          [k \in 1 .. (IF off + w > Len(content) THEN off + w
                       ELSE Len(content)) |->
             IF k \in off + 1 .. off + w THEN buffer[k - off]
             ELSE content[k]]
    <3>1. off \in Nat /\ w \in 0 .. Len(buffer) /\ buffer \in Seq(Bytes)
      BY <1>1, <1>2
    <3> HIDE DEF grown
    <3> QED
      BY <3>1, OverwrittenIs, SMTT(30)
  <2> QED
    BY <2>1, <2>2 DEF content
<1> HIDE DEF grown
<1> QED
  BY <1>1, <1>6, <1>7, <1>8

LEMMA WriteIsStoreStep ==
    ASSUME FSInv, NEW h \in Handles, NEW buffer \in Buffers, Write(h, buffer)
    PROVE  StoreStep
<1>1. PICK inum \in Files, off \in Nat :
        /\ h \in handles /\ open_file_table[h].of_inumber = inum
        /\ open_file_table[h].of_offset = off
        /\ off <= inode_table[inum].i_size
  BY HandleTypes DEF Write
<1> DEFINE w == ToWrite(h, buffer)
           inode == inode_table[inum]
           new == Store!Overwritten(Contents(inum), off,
                                    SubSeq(buffer, 1, w))
<1>2. /\ buffer \in Seq(Bytes) /\ w \in 0 .. Len(buffer) /\ w \in Nat
      /\ Len(buffer) \in Nat /\ inode.i_size \in Nat /\ inum \in Inums
  BY BufferIsSeq, ToWriteFits, FileTypes DEF FSInv
<1>3. CASE blocks = Blocks /\ Fail /\ UNCHANGED <<disk, oft, process>>
  BY <1>3, NothingIsStoreStep
<1>4. ASSUME UNCHANGED dir, UNCHANGED handles, Returns(w),
             Contents(inum)' = new,
             open_file_table' =
               [open_file_table EXCEPT ![h].of_offset = off + w],
             \A i \in Files \ {inum} : Contents(i)' = Contents(i)
      PROVE  StoreStep
  <2>1. /\ HandlesFit' /\ process' = process /\ orphans' = orphans
        /\ Files' = Files
    <3>1. UNCHANGED inodes
      BY DEF Write, WriteBytes, disk
    <3> QED
      BY <3>1, WriteFit DEF FSInv, StoreInv, Files
  <2>2. /\ StoredHandles' = [StoredHandles EXCEPT ![h].offset = @ + w]
        /\ \A g \in handles : open_file_table'[g].of_inumber =
                                open_file_table[g].of_inumber
    BY <1>1, <1>4, HandleMoved
  <2>3. StoreInv'
    BY <1>4, <2>1, <2>2 DEF FSInv, StoreInv, UsedEntries
  <2>4. StoredFiles' = Store!Put(StoredFiles, NameOf(inum), new)
    BY <1>4, FilePut
  <2>5. /\ StoredHandles[h].name = NameOf(inum)
        /\ StoredHandles[h].offset = off /\ h \in DOMAIN StoredHandles
    BY <1>1, StoredHandlesAre
  <2>6. StoredFiles[NameOf(inum)] = Contents(inum)
    BY NamesAreInums, StoredFilesAre DEF FSInv, StoreInv, Exists
  <2>7. w = IF Len(buffer) > BlockSize - off THEN BlockSize - off
            ELSE Len(buffer)
    BY <1>1 DEF ToWrite
  <2> HIDE DEF w
  <2>8. Store!Write(h, buffer)
    BY <1>4, <2>2, <2>4, <2>5, <2>6, <2>7
       DEF Store!Write, Returns, Store!Returns
  <2>9. PICK len \in 0 .. MaxLen : buffer \in [1 .. len -> Bytes]
    BY DEF Buffers
  <2> QED
    BY <2>3, <2>8, <2>9 DEF StoreStep, Store!Next, Store!Handles, Handles
<1>5. CASE w = 0 /\ Returns(0) /\ UNCHANGED <<disk, oft, process>>
  <2>1. \A i \in Files : Contents(i)' = Contents(i)
    BY <1>5, ContentsKept DEF disk
  <2>2. new = Contents(inum)
    <3>1. /\ Contents(inum) \in Seq(Bytes \cup {Junk})
          /\ Len(Contents(inum)) = inode.i_size
      BY ContentsIsSeq
    <3>2. /\ Contents(inum) = [k \in 1 .. inode.i_size |-> Contents(inum)[k]]
      BY <3>1, LenProperties
    <3>3. new = [k \in 1 .. inode.i_size |-> Contents(inum)[k]]
      <4> HIDE DEF w
      <4>1. new = [k \in 1 .. (IF off + w > Len(Contents(inum)) THEN off + w
                               ELSE Len(Contents(inum))) |->
                     IF k \in off + 1 .. off + w THEN buffer[k - off]
                     ELSE Contents(inum)[k]]
        <5> DEFINE content == Contents(inum)
        <5> HIDE DEF content
        <5>1. Store!Overwritten(content, off, SubSeq(buffer, 1, w)) =
                [k \in 1 .. (IF off + w > Len(content) THEN off + w
                             ELSE Len(content)) |->
                   IF k \in off + 1 .. off + w THEN buffer[k - off]
                   ELSE content[k]]
          <6>1. off \in Nat /\ w \in 0 .. Len(buffer) /\ buffer \in Seq(Bytes)
            BY <1>1, <1>2
          <6> HIDE DEF new, inode
          <6> QED
            BY <6>1, OverwrittenIs, SMTT(30)
        <5> QED
          BY <5>1 DEF content
      <4> QED
        BY <1>1, <1>2, <1>5, <3>1, <4>1
    <3> QED
      BY <3>2, <3>3
  <2>3. open_file_table' = [open_file_table EXCEPT ![h].of_offset = off + w]
    <3> HIDE DEF w
    <3>1. open_file_table[h].of_offset = off + w
      BY <1>1, <1>5
    <3>2. open_file_table' = open_file_table
      BY <1>5 DEF oft
    <3> QED
      BY <1>1, <3>1, <3>2 DEF FSInv, TypeOK
  <2> QED
    BY <1>4, <1>5, <2>1, <2>2, <2>3 DEF disk, oft
<1>6. ASSUME NEW b \in Blocks, WriteBytes(h, b, buffer),
             inode.i_size > 0 => inode.i_data_block = b,
             \A i \in Files \ {inum} : inode_table[i].i_size > 0 =>
                                         inode_table[i].i_data_block # b
      PROVE  StoreStep
  <2>1. Contents(inum)' = new
    BY <1>1, <1>6, WriteBytesContents
  <2>2. \A i \in Inums : i # inum => inode_table'[i] = inode_table[i]
    BY <1>1, <1>6, WriteBytesEffect DEF FSInv
  <2>3. /\ UNCHANGED <<dir, handles>> /\ Returns(w)
        /\ open_file_table' =
             [open_file_table EXCEPT ![h].of_offset = off + w]
    BY <1>1, <1>6 DEF WriteBytes
  <2>4. \A c \in Blocks : c # b => fs_data'[c] = fs_data[c]
    BY <1>6 DEF WriteBytes, FSInv, TypeOK
  <2>5. \A i \in Files \ {inum} : Contents(i)' = Contents(i)
    BY <1>6, <2>2, <2>4, FileTypes, ContentsKept
  <2> HIDE DEF w, new
  <2> QED
    BY <1>4, <2>1, <2>3, <2>5
<1>7. CASE /\ inode.i_size > 0 /\ WriteBytes(h, inode.i_data_block, buffer)
  <2>1. inode.i_data_block \in Blocks
    BY <1>7, FileTypes
  <2>2. \A i \in Files \ {inum} : inode_table[i].i_size > 0 =>
                                    inode_table[i].i_data_block
                                      # inode.i_data_block
    BY <1>7 DEF FSInv, BlocksOwned, Sized, Files
  <2> QED
    BY <1>6, <1>7, <2>1, <2>2
<1>8. CASE /\ inode.i_size = 0
           /\ \E b \in Blocks : DataBlockAlloc(b) /\ WriteBytes(h, b, buffer)
  <2>1. PICK b \in Blocks : b \notin blocks /\ WriteBytes(h, b, buffer)
    BY <1>8 DEF IsFirst
  <2>2. \A i \in Files : inode_table[i].i_size > 0 =>
                           inode_table[i].i_data_block # b
    BY <2>1 DEF FSInv, BlocksOwned, Sized, Files
  <2> QED
    BY <1>6, <1>8, <2>1, <2>2
<1> QED
  BY <1>1, <1>3, <1>5, <1>7, <1>8 DEF Write

LEMMA InitStore == Init => StoreInv /\ Store!Init
<1> SUFFICES ASSUME Init PROVE StoreInv /\ Store!Init
  OBVIOUS
<1>1. /\ UsedEntries = {} /\ handles = {} /\ orphans = {}
      /\ process = "running" /\ ret = [code |-> 0, data |-> <<>>]
  BY DEF Init, UsedEntries, EmptyEntry
<1>2. {n \in Names : Exists(n)} = {}
  BY <1>1 DEF Exists
<1>3. StoredFiles = [n \in {} |-> <<>>]
  BY <1>2 DEF StoredFiles
<1>4. StoredHandles = [h \in {} |-> 0]
  BY <1>1 DEF StoredHandles
<1>5. StoreInv
  BY <1>1 DEF StoreInv, HandlesFit
<1> QED
  BY <1>1, <1>3, <1>4, <1>5 DEF Store!Init

LEMMA StoreNext ==
    ASSUME FSInv, CloseFirst, [Next]_vars
    PROVE  StoreInv' /\ [Store!Next]_(Store!vars)
<1>1. TypeOK' /\ DirInv'
  BY TypeStep, DirStep DEF FSInv
<1>2. ASSUME StoreStep
      PROVE  StoreInv' /\ [Store!Next]_(Store!vars)
  BY <1>2 DEF StoreStep
<1>3. ASSUME NEW name \in Names, NEW mode \in Modes,
             \/ OpenExisting(name, mode) \/ OpenNew(name, mode)
             \/ CreateFails(name, mode)
      PROVE  StoreStep
  BY <1>1, <1>3, OpenExistingIsStoreStep, OpenNewIsStoreStep,
     CreateFailsIsStoreStep
<1>4. ASSUME NEW h \in Handles,
             \/ Close(h) \/ \E buffer \in Buffers : Write(h, buffer)
             \/ \E len \in 0 .. MaxLen : Read(h, len)
      PROVE  StoreStep
  BY <1>4, CloseIsStoreStep, WriteIsStoreStep, ReadIsStoreStep
<1>5. ASSUME NEW name \in Names, Unlink(name)
      PROVE  StoreStep
  BY <1>1, <1>5, UnlinkIsStoreStep
<1>6. CASE \/ BadHandle
           \/ \E name \in Names, mode \in Modes : OpenRefused(name, mode)
           \/ \E name \in Names : UnlinkRefused(name)
  <2>1. UNCHANGED <<disk, oft, process>> /\ Fail
    BY <1>6 DEF BadHandle, OpenRefused, UnlinkRefused
  <2> QED
    BY <1>2, <2>1, NothingIsStoreStep
<1>7. CASE UNCHANGED vars
  <2>1. UNCHANGED <<disk, oft, process, ret>>
    BY <1>7 DEF vars
  <2>2. \A i \in Files : Contents(i)' = Contents(i)
    BY <2>1, ContentsKept DEF disk
  <2>3. StoredFiles' = StoredFiles /\ StoredHandles' = StoredHandles
    BY <2>1, <2>2, FilesSame, HandlesSame, SameNames DEF disk, oft
  <2>4. StoreInv'
    BY <2>1 DEF FSInv, StoreInv, HandlesFit, Files, UsedEntries, disk, oft
  <2> QED
    BY <2>1, <2>3, <2>4 DEF Store!vars
<1> QED
  BY <1>2, <1>3, <1>4, <1>5, <1>6, <1>7 DEF Next

\* As long as no file is truncated or unlinked while a handle on it is open,
\* every call of tfs_open, tfs_close, tfs_write, tfs_read and tfs_unlink
\* returns and does what the file store of operations.h allows: the inodes,
\* the blocks, the directory and the open file table of state.c, and how they
\* are re-used, cannot be seen through them.
THEOREM TecnicoFSIsFileStore == CloseFirst => (Spec => ImplementsFileStore)
<1> SUFFICES ASSUME CloseFirst PROVE Spec => ImplementsFileStore
  OBVIOUS
<1>1. FSInv /\ [Next]_vars => FSInv' /\ [Store!Next]_(Store!vars)
  BY TypeStep, DirStep, OwnedStep, StoreNext DEF FSInv
<1>2. Init => FSInv /\ Store!Init
  BY InitType, InitDir, InitOwned, InitStore DEF FSInv
<1> QED
  BY <1>1, <1>2, PTL DEF Spec, ImplementsFileStore, Store!Spec
=============================================================================
