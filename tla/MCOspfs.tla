------------------------------- MODULE MCOspfs ------------------------------
(* Model values for the runs of OSPFS.                                     *)
EXTENDS Ospfs

Symmetry == Permutations(Procs) \cup Permutations(Names)

(* Two states that differ in words nobody reads before they are written    *)
(* are one to TLC: all but directory entries, used words of indirect       *)
(* blocks, and what an append under way has written.  (All words, once a   *)
(* file has had a doubly indirect block.)                                  *)
Read(i) == {<<BlockNo(disk, i, off), off % NINDIRECT>> : off \in 0 .. disk.inode[i].size-1}
Appended(p) == {<<BlockNo(disk, fd[p], off), off % NINDIRECT>> :
                  off \in {o \in write[p].span : o < write[p].pos}}
Pointers(i) ==
  LET n == Size2NBlocks(disk.inode[i].size)
  IN  IF IsFile(i) /\ n > NDIRECT
      THEN {<<disk.inode[i].indirect, k>> : k \in 0 .. n-NDIRECT-1} ELSE {}
Words == IF large THEN Block \X Word ELSE
  Read(ROOT_INO)
  \cup UNION {Pointers(i) : i \in Ino}
  \cup UNION {Appended(p) : p \in {q \in Procs : write[q].alone}}
View == <<disk.free, disk.inode, disk.wild, fd, write, ls, large,
          [w \in Words |-> GetWord(disk, w[1], w[2])],
          {<<EntryName(disk, off), off>> : off \in Used}>>
=============================================================================
