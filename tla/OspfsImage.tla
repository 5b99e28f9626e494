----------------------------- MODULE OspfsImage -----------------------------
(***************************************************************************)
(* ospfsformat writes an image, and the module ospfs mounts it: what the   *)
(* one has laid out the other finds.  Ospfs knows the root directory only, *)
(* so that a tree with subdirectories is looked at, but not used.          *)
(***************************************************************************)
EXTENDS Ospfs, OspfsFormat

CONSTANT
  MaxMounted   \* bound on the inodes of an image that is used

imageVars == <<vars, formatVars>>

(* No disk is mounted.                                                     *)
NoDisk ==
  [free |-> {}, inode |-> [i \in Ino |-> NoFile],
   words |-> [b \in Block |-> Blank], names |-> [b \in Block |-> [i \in Word |-> NoName]],
   wild |-> FALSE]

ImageInit ==
  /\ FormatInit
  /\ disk = NoDisk
  /\ fd = [p \in Procs |-> 0]
  /\ write = [p \in Procs |-> NotWriting]
  /\ ls = NotListing
  /\ large = FALSE

Formats == FormatNext /\ UNCHANGED vars

(* mount: the formatter has exited, and what remains of it is the image.   *)
Mount ==
  /\ stage = "done"
  /\ \A e \in written : e.is # "DIR"
  /\ img.nextinode <= MaxMounted /\ ~Large(Image(img))
  /\ disk' = Image(img)
  /\ stage' = "mounted"
  /\ img' = [img EXCEPT !.cache = Cache!EmptyCache, !.nextb = 0, !.nextinode = 0,
                        !.hardlinks = {}]
  /\ written' = {}
  /\ link_contents' = FALSE
  /\ UNCHANGED <<dirs, fd, write, ls, large>>

Uses == stage = "mounted" /\ Next /\ UNCHANGED formatVars

ImageNext == Formats \/ Mount \/ Uses

ImageSpec == ImageInit /\ [][ImageNext]_imageVars

-----------------------------------------------------------------------------
TheImage == Image(img)

(* The blocks of directory or file ino in the image, the pointers' too.    *)
Pointed(ino) ==
  LET oi == TheImage.inode[ino]
      n == Size2NBlocks(oi.size)
      second == n - NDIRECT - NINDIRECT
  IN  IF oi.ftype = "SYMLINK" THEN {}
      ELSE {<<ino, k, BlockNo(TheImage, ino, k * NINDIRECT)>> : k \in 0 .. n-1}
        \cup (IF n > NDIRECT THEN {<<ino, -1, oi.indirect>>} ELSE {})
        \cup (IF second > 0
              THEN {<<ino, -2, oi.indirect2>>} \cup
                   {<<ino, -3-k, GetWord(TheImage, oi.indirect2, k)>> :
                      k \in 0 .. (second - 1) \div NINDIRECT}
              ELSE {})

EntriesOf(dir) == 0 .. TheImage.inode[dir].size - 1
InoAt(dir, off) == GetWord(TheImage, BlockNo(TheImage, dir, off), off % NINDIRECT)
NameAt(dir, off) == TheImage.names[BlockNo(TheImage, dir, off)][off % NINDIRECT]

(* The module's own ospfs_inode_blockno() finds every entry and every word *)
(* of every file in the image, past the indirect and doubly indirect       *)
(* blocks and the evictions from the cache (ospfsformat.c:319-360, :503).  *)
FilesReadBack ==
  \A e \in written : \E off \in EntriesOf(e.dir) :
    LET ino == InoAt(e.dir, off) oi == TheImage.inode[ino] IN
    /\ NameAt(e.dir, off) = e.name
    /\ oi.ftype = e.is
    /\ e.is = "DIR" => ino = e.x
    /\ e.is = "REG" =>
         /\ oi.size = Size[e.x]
         /\ \A k \in 0 .. oi.size-1 :
              GetWord(TheImage, BlockNo(TheImage, ino, k), k % NINDIRECT) = Datum(e.x, k)

(* No block has two uses, and the bitmap marks as free exactly the blocks  *)
(* without one (:684-695).                                                 *)
NoBlockTwice ==
  LET places == UNION {Pointed(i) : i \in {j \in Ino : TheImage.inode[j].nlink > 0}}
      used == {p[3] : p \in places}
  IN  /\ Cardinality(used) = Cardinality(places)
      /\ TheImage.free = Block \ (0 .. os_firstinob + ninodeblock - 1 \cup used)

(* oi_nlink counts the entries of every file, with hard links of the host  *)
(* and with those that -c makes of equal contents (:491).                  *)
CountsAgree ==
  LET dirInos == {i \in Ino : TheImage.inode[i].ftype = "DIR"}
      naming(i) == {<<d, off>> \in dirInos \X (0 .. NBLOCKS * NINDIRECT) :
                      off \in EntriesOf(d) /\ InoAt(d, off) = i}
  IN  \A i \in Ino \ (0 .. ROOT_INO) :
        i \notin dirInos => TheImage.inode[i].nlink = Cardinality(naming(i))

(* Whatever tree was given, the finished image holds it, as a sound file   *)
(* system in which the module reads what the formatter wrote.              *)
ImageHoldsTree == stage = "done" => FilesReadBack /\ NoBlockTwice /\ CountsAgree
=============================================================================
