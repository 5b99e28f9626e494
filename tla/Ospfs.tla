-------------------------------- MODULE Ospfs -------------------------------
(***************************************************************************)
(* OSPFS in use (lab3/ospfsmod.c): the callbacks that Linux makes for the  *)
(* files of the root directory.  Linux holds the directory's mutex in      *)
(* create, link, symlink, unlink and readdir, and none of them sleeps, so  *)
(* each is one step.  So is the growing of a file, but ospfs_write() then  *)
(* copies block by block from user memory, where it may sleep once it has  *)
(* looked the block up: other callbacks, for the same file too, run in     *)
(* between, and may free the block or give it to somebody else.            *)
(***************************************************************************)
EXTENDS OspfsDisk

CONSTANTS
  Procs,     \* the processes that write
  Offsets,   \* where a write that does not append begins
  Counts,    \* how many words a write has
  Sizes,     \* what a file is truncated to
  Listing,   \* whether a process lists the directory
  Room,      \* how many entries a buffer of readdir has room for
  MaxDirLinks \* bound on the link count of the root directory

ASSUME UseAssumption ==
  /\ NBLOCKS > FREEMAP_BLK + 3
  /\ \A p \in Procs : p \notin Int
  /\ NoName \notin Names
  /\ Offsets \cup Sizes \subseteq Nat /\ Counts \subseteq Nat \ {0}
  /\ Listing \in BOOLEAN /\ Room \in Nat \ {0, 1}

VARIABLES
  disk,
  fd,      \* fd[p]: the inode of the file that p has open, 0 without one
  write,   \* write[p]: what is left of p's ospfs_write()
  ls,      \* the process that lists the directory
  large    \* history: a file has outgrown its indirect block, if only in passing

vars == <<disk, fd, write, ls, large>>

NoFile == [size |-> 0, ftype |-> "REG", nlink |-> 0,
           direct |-> [k \in 0 .. NDIRECT-1 |-> 0], indirect |-> 0, indirect2 |-> 0]

NewFile == [NoFile EXCEPT !.nlink = 1]
Blank == [i \in Word |-> 0]

(* What p writes: p itself, which is no block's number.                    *)
Mark(p) == p

OSPFS_DIRENTRY_SIZE == 128

NotWriting == [pos |-> 0, left |-> 0, to |-> 0, span |-> {}, alone |-> FALSE]
NotListing == [on |-> FALSE, f_pos |-> 0, due |-> {}, listed |-> {}]

(* The image of ospfsformat -r with one file in the base directory, whose  *)
(* one block is the last that is taken.                                    *)
Init ==
  \E name \in Names :
    LET dirb == FREEMAP_BLK + 2  fileb == FREEMAP_BLK + 3 IN
    /\ disk = [free  |-> fileb+1 .. NBLOCKS-1,
               inode |-> [i \in Ino |->
                 IF i = 0 THEN NewFile
                 ELSE IF i = ROOT_INO THEN [NewFile EXCEPT !.ftype = "DIR",
                            !.size = NINDIRECT, !.direct[0] = dirb]
                 ELSE IF i = 2 THEN [NewFile EXCEPT !.size = 1, !.direct[0] = fileb]
                 ELSE NoFile],
               words |-> [b \in Block |-> IF b = dirb THEN [Blank EXCEPT ![0] = 2] ELSE Blank],
               names |-> [b \in Block |-> [i \in Word |->
                           IF b = dirb /\ i = 0 THEN name ELSE NoName]],
               wild  |-> FALSE]
    /\ fd = [p \in Procs |-> 0]
    /\ write = [p \in Procs |-> NotWriting]
    /\ ls = NotListing
    /\ large = FALSE

Writing(p) == write[p] # NotWriting
Nlink(i) == disk.inode[i].nlink
IsFile(i) == disk.inode[i].ftype = "REG"
Large(d) == \E i \in Ino : d.inode[i].size > (NDIRECT + NINDIRECT) * NINDIRECT

(* The disk when change_size() has grown the file as far as it goes; if    *)
(* that is not far enough, it shrinks again.                               *)
Fullest(ino, size) == GrowTo(disk, ino, Size2NBlocks(size)).disk

(* The disk becomes d, having been at its fullest so; the writers of the   *)
(* inodes in S are no longer alone.                                        *)
BecomesFor(d, fullest, S) ==
  /\ disk' = d
  /\ large' = (large \/ Large(fullest))
  /\ write' = [p \in Procs |->
       IF fd[p] \in S /\ Writing(p) THEN [write[p] EXCEPT !.alone = FALSE] ELSE write[p]]

-----------------------------------------------------------------------------
(* ospfs_dir_lookup() for open(), and close().                             *)
Lookup(name) == EntryIno(disk, Min(Named(disk, name)))

Open(p, name) ==
  /\ fd[p] = 0 /\ Named(disk, name) # {} /\ IsFile(Lookup(name))
  /\ fd' = [fd EXCEPT ![p] = Lookup(name)]
  /\ UNCHANGED <<disk, write, ls, large>>

Close(p) ==
  /\ fd[p] # 0 /\ ~Writing(p)
  /\ fd' = [fd EXCEPT ![p] = 0]
  /\ UNCHANGED <<disk, write, ls, large>>

(* change_size() for a file.  The inode of an open file that was unlinked  *)
(* may have been reused for a symbolic link, whose target then counts as   *)
(* block numbers.                                                          *)
Resized(ino, size) ==
  IF IsFile(ino) THEN ChangeSize(disk, ino, size) ELSE Returns("EIO", Strayed(disk))

(* ospfs_notify_change() with ATTR_SIZE.                                   *)
Truncate(ino, size) ==
  /\ ino \in Ino \ 0 .. ROOT_INO
  /\ (IsFile(ino) /\ Nlink(ino) > 0) \/ \E p \in Procs : fd[p] = ino
  /\ BecomesFor(Resized(ino, size).disk, Fullest(ino, size), {ino})
  /\ UNCHANGED <<fd, ls>>

-----------------------------------------------------------------------------
(* ospfs_write(): each turn of its loop looks the block up, or ends with   *)
(* -EIO when there is none.                                                *)
Turn(d, ino, w) ==
  LET b == BlockNo(d, ino, w.pos)
  IN  IF w.left = 0 \/ b = 0 THEN NotWriting ELSE [w EXCEPT !.to = b]

(* The position, the size and the first turn.  Two parts are history:      *)
(* where the file ends (span), and whether the writer is alone: nothing    *)
(* but undisturbed appends to the file is under way.                       *)
Begins(p, pos, count, append) ==
  LET ino == fd[p]
      others == {q \in Procs \ {p} : fd[q] = ino /\ Writing(q)}
      size == disk.inode[ino].size
      changed == IF pos + count <= size THEN Returns("ok", disk)
                 ELSE Resized(ino, pos + count)
      begun == [pos |-> pos, left |-> count, to |-> 0, span |-> size .. size+count-1,
                alone |-> append /\ \A q \in others : write[q].alone]
  IN  /\ ino # 0 /\ ~Writing(p)
      /\ disk' = changed.disk
      /\ large' = (large \/ Large(Fullest(ino, pos + count)))
      /\ write' = [q \in Procs |->
           IF q = p /\ changed.ret = "ok" THEN Turn(changed.disk, ino, begun)
           ELSE IF q \in others /\ ~append THEN [write[q] EXCEPT !.alone = FALSE]
           ELSE write[q]]
      /\ UNCHANGED <<fd, ls>>

(* Fault: O_APPEND is not looked at.                                       *)
AppendAtStart(p, count) == Begins(p, 0, count, TRUE)

AppendWrite(p, count) == Begins(p, disk.inode[fd[p]].size, count, TRUE)

WriteAt(p, pos, count) == Begins(p, pos, count, FALSE)

Copied(p, b, n) ==
  LET first == write[p].pos % NINDIRECT
  IN  [disk EXCEPT !.words[b] = [i \in Word |->
         IF i \in first .. first+n-1 THEN Mark(p) ELSE @[i]]]

(* The blocks of a file, by the place that records each.                   *)
Places(d, i) ==
  LET n == Size2NBlocks(d.inode[i].size)
      holds == {<<i, k, BlockNo(d, i, k * NINDIRECT)>> : k \in 0 .. n-1}
  IN  IF d.inode[i].ftype = "SYMLINK" THEN {}
      ELSE holds \cup (IF n > NDIRECT THEN {<<i, -1, d.inode[i].indirect>>} ELSE {})

Owned(S) == {place[3] : place \in S}

(* The blocks that hold entries or numbers of blocks.                      *)
Structure ==
  {At(disk, off)[1] : off \in Entries(disk)}
    \cup {disk.inode[i].indirect : i \in Ino} \cup {disk.inode[i].indirect2 : i \in Ino}

(* copy_from_user() returns, and the next turn follows.  The words go      *)
(* where the block was when the turn began, whatever it is now; another    *)
(* file that has got it is no longer undisturbed, and when it serves the   *)
(* file system itself nothing is known any more.                           *)
Copies(p) ==
  LET b == write[p].to
      n == Min({NINDIRECT - (write[p].pos % NINDIRECT), write[p].left})
      copied == IF b \in Block \ Structure THEN Copied(p, b, n) ELSE Strayed(disk)
      rest == [write[p] EXCEPT !.pos = @ + n, !.left = @ - n]
  IN  /\ Writing(p)
      /\ disk' = copied
      /\ write' = [q \in Procs |->
           IF q = p THEN Turn(copied, fd[p], rest)
           ELSE IF Writing(q) /\ fd[q] # fd[p] /\ b \in Owned(Places(disk, fd[q]))
           THEN [write[q] EXCEPT !.alone = FALSE]
           ELSE write[q]]
      /\ UNCHANGED <<fd, ls, large>>

(* copy_from_user() returns -EFAULT.                                       *)
GivesUp(p) ==
  /\ Writing(p)
  /\ write' = [write EXCEPT ![p] = NotWriting]
  /\ UNCHANGED <<disk, fd, ls, large>>

-----------------------------------------------------------------------------
(* ospfs_create(), ospfs_symlink() and ospfs_link() enter a name for the   *)
(* inode ino, which becomes oi.  Their error returns change nothing (in a  *)
(* directory of direct and indirect blocks) and are absent, but for one:   *)
(* when Linux has no memory for its own inode, create and symlink return   *)
(* -ENOMEM (:1430, :1519) with the entry and the inode in place.  On the   *)
(* disk this is the same step as a success.                                *)
Enters(name, ino, oi, dirLinks) ==
  LET blank == BlankDirentry(disk)
      named == [SetEntry(blank.disk, blank.off, ino, name) EXCEPT !.inode[ino] = oi]
      entered == [named EXCEPT !.inode[ROOT_INO].nlink = @ + dirLinks]
  IN
  /\ Named(disk, name) = {} /\ blank.ret = "ok"
  /\ BecomesFor(entered, entered, IF Nlink(ino) = 0 THEN {ino} ELSE {})
  /\ UNCHANGED <<fd, ls>>

FreeInodes == {i \in Ino : i >= 2 /\ Nlink(i) = 0}

Create(name) == FreeInodes # {} /\ Enters(name, Min(FreeInodes), NewFile, 0)

(* The target is written over the mode and the block pointers, which       *)
(* nothing reads in a symbolic link (but see Resized).                     *)
Symlink(name) ==
  /\ FreeInodes # {} /\ Nlink(ROOT_INO) < MaxDirLinks
  /\ Enters(name, Min(FreeInodes), [NewFile EXCEPT !.size = 1, !.ftype = "SYMLINK"], 1)

Link(name, new) ==
  /\ Named(disk, name) # {}
  /\ LET ino == Lookup(name)
     IN  Enters(new, ino, [disk.inode[ino] EXCEPT !.nlink = @ + 1], 0)

(* Fault: the count of links is decremented only for the last name.        *)
UnlinkedKeeping(ino, off) == SetEntry(disk, off, 0, NoName)

(* ospfs_unlink(); the blocks of the file stay with the inode.             *)
Unlinked(ino, off) == [SetEntry(disk, off, 0, NoName) EXCEPT !.inode[ino].nlink = @ - 1]

Unlink(name) ==
  /\ Named(disk, name) # {}
  /\ BecomesFor(Unlinked(Lookup(name), Min(Named(disk, name))), disk, {})
  /\ ls' = [ls EXCEPT !.due = @ \ {<<name, Min(Named(disk, name))>>}]
  /\ UNCHANGED fd

-----------------------------------------------------------------------------
(* ospfs_dir_readdir(), call by call.                                      *)
Used == {off \in Entries(disk) : EntryIno(disk, off) # 0}

ListBegins ==
  /\ Listing /\ ~ls.on
  /\ ls' = [on |-> TRUE, f_pos |-> 0, listed |-> {},
            due |-> {<<EntryName(disk, off), off>> : off \in Used}]
  /\ UNCHANGED <<disk, fd, write, large>>

(* The entries from f_pos on, f_pos being used as the number of an entry   *)
(* once the two dots have been listed.                                     *)
Ahead(f_pos) == {off \in Used : off >= Max({f_pos, 2})}

(* Those of them for which filldir() finds room, the dots coming first.    *)
Fitting(f_pos) ==
  LET room == Room - Max({0, 2 - f_pos})
  IN  {off \in Ahead(f_pos) : Cardinality({o \in Ahead(f_pos) : o <= off}) <= room}

(* Fault: the file position stays at the entry listed last.                *)
StaysAt(f_pos) == Max(Fitting(f_pos) \cup {2})

(* f_pos is incremented past an entry that did not fit as well, and at the *)
(* end up to the size of the directory in bytes.                           *)
NextPos(f_pos) ==
  LET refused == Ahead(f_pos) \ Fitting(f_pos)
  IN  IF refused = {} THEN OSPFS_DIRENTRY_SIZE * disk.inode[ROOT_INO].size
      ELSE Min(refused) + 1

Listed == ls.on /\ ls.f_pos >= 2 /\ Ahead(ls.f_pos) = {}

ListCall ==
  /\ ls.on /\ ~Listed
  /\ ls' = [ls EXCEPT !.f_pos = NextPos(@),
                      !.listed = @ \cup {<<EntryName(disk, off), off>> :
                                           off \in Fitting(ls.f_pos)}]
  /\ UNCHANGED <<disk, fd, write, large>>

(* A call that delivers nothing is the last.                               *)
ListEnds ==
  /\ Listed /\ ls' = NotListing
  /\ UNCHANGED <<disk, fd, write, large>>

-----------------------------------------------------------------------------
(* The model ends where memory outside the disk has been used, or an entry *)
(* no longer names an inode.                                               *)
Sane ==
  /\ ~disk.wild
  /\ \A off \in Entries(disk) : At(disk, off)[1] \in Block /\ EntryIno(disk, off) \in Ino

FileCalls ==
  \E p \in Procs :
    \/ \E name \in Names : Open(p, name)
    \/ Close(p)
    \/ \E count \in Counts : AppendWrite(p, count)
    \/ \E count \in Counts, pos \in Offsets : WriteAt(p, pos, count)
    \/ Copies(p)
    \/ GivesUp(p)

DirCalls ==
  \/ \E ino \in Ino, size \in Sizes : Truncate(ino, size)
  \/ \E name \in Names : Create(name) \/ Symlink(name) \/ Unlink(name)
  \/ \E name, new \in Names : Link(name, new)
  \/ ListBegins
  \/ ListCall
  \/ ListEnds

Next == Sane /\ (FileCalls \/ DirCalls)

Spec == Init /\ [][Next]_vars
-----------------------------------------------------------------------------
Held(d) == UNION {Places(d, i) : i \in Ino}

(* Unless a file outgrows its indirect block, every block below a file's   *)
(* size is there, is marked allocated and belongs to no other place of any *)
(* file, however files grow, shrink, fail to grow and are reused           *)
(* (add_block and remove_block).                                           *)
BlocksApart ==
  ~large =>
    /\ Owned(Held(disk)) \subseteq DataBlock \ disk.free
    /\ Cardinality(Owned(Held(disk))) = Cardinality(Held(disk))

Lost(d) == DataBlock \ (d.free \cup Owned(Held(d)))

(* The only blocks that are never found again are those of an inode whose  *)
(* last name was unlinked and that is then reused: ospfs_unlink frees      *)
(* nothing, everything else gives back what it took.                       *)
OnlyReuseLoses ==
  [][~large' => Lost(disk') \ Lost(disk) \subseteq
       UNION {Owned(Places(disk, i)) : i \in FreeInodes}]_disk

(* oi_nlink counts the names of an inode, so that none with a name is      *)
(* taken for a free one, and no name is given twice.                       *)
LinksCounted ==
  ~large =>
    /\ \A i \in Ino \ 0 .. ROOT_INO :
         Nlink(i) = Cardinality({off \in Entries(disk) : EntryIno(disk, off) = i})
    /\ \A name \in Names : Cardinality(Named(disk, name)) <= 1

(* A growth that returns -ENOSPC leaves files and bitmap as they were      *)
(* (ospfsmod.c:938), whatever it was to, unless the file outgrows its      *)
(* indirect block before the disk is full.  (Growing by more fails like    *)
(* growing to one block more than that, or outgrows it.)                   *)
NoSpaceNoChange ==
  ~large => \A i \in {i \in Ino : IsFile(i)}, nblocks \in 1 .. NDIRECT+NINDIRECT+1 :
    LET size == nblocks * NINDIRECT
        r == ChangeSize(disk, i, size)
    IN  r.ret = "ENOSPC" /\ ~Large(Fullest(i, size)) =>
          r.disk.inode = disk.inode /\ r.disk.free = disk.free

(* When the last block of an append is copied, all that was to be added    *)
(* where the file ended is the writer's, whatever others appended to the   *)
(* file in the meantime (O_APPEND, ospfsmod.c:1137).                       *)
AppendsArrive ==
  [][\A p \in Procs :
       Copies(p) /\ write[p].alone /\ write'[p] = NotWriting /\ ~large =>
         \A off \in write[p].span :
           GetWord(disk', BlockNo(disk', fd[p], off), off % NINDIRECT) = Mark(p)]_vars

(* While a directory is listed in several calls, names come and go, but    *)
(* none that stays is listed twice.                                        *)
ListedOnce ==
  \A entry \in ls.listed \cap ls.due : entry[2] \notin Fitting(ls.f_pos)

(* ospfsmod.c:404: "This function should call 'filldir' once for each      *)
(* directory entry": what was there all along has been listed in the end.  *)
EveryEntryListed == Listed => ls.due \subseteq ls.listed
=============================================================================
