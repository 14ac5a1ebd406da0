--------------------------- MODULE TecnicoFSStore ---------------------------
(***************************************************************************)
(* With CloseFirst, TecnicoFS is the file store of operations.h: what a    *)
(* file holds is the first i_size bytes of its block.                      *)
(***************************************************************************)
EXTENDS TecnicoFS

InumOf(name) == dir[CHOOSE e \in UsedEntries : dir[e].d_name = name].d_inumber
NameOf(inum) == dir[CHOOSE e \in UsedEntries : dir[e].d_inumber = inum].d_name
Contents(inum) ==
    [k \in 1 .. inode_table[inum].i_size |->
        fs_data[inode_table[inum].i_data_block][k - 1]]

\* What the file store of operations.h keeps, in terms of this state.
StoredFiles == [name \in {n \in Names : Exists(n)} |-> Contents(InumOf(name))]
StoredHandles ==
    [h \in handles |-> [name   |-> NameOf(open_file_table[h].of_inumber),
                        offset |-> open_file_table[h].of_offset]]

Store == INSTANCE FileStore WITH files <- StoredFiles, desc <- StoredHandles

\* Every call of operations.h returns and does what the file store allows:
\* reads give back exactly what was written to the file of that name, through
\* any handles, whatever blocks and inodes were re-used in between.
ImplementsFileStore == Store!Spec
=============================================================================
