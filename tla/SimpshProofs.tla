---------------------------- MODULE SimpshProofs ----------------------------
(***************************************************************************)
(* Proofs about simpsh, for every command line: its exit status, and where *)
(* the streams of the commands lead although descriptors are closed and    *)
(* their numbers given out again.                                          *)
(***************************************************************************)
EXTENDS Simpsh, SequenceTheorems, FiniteSetTheorems, WellFoundedInduction, TLAPS

Options == UNION {OptionsOf(l) : l \in Lines}
Names == {op.name : op \in Options}
Flags == {op.flag : op \in Options}

Thing == [is : {"none", "tty"} \cup Objects, id : Nat \cup Names,
          flags : SUBSET Flags, acc : 0 .. 3]
Slot == [fd : Fds \cup {Closed}, pipe : BOOLEAN, over : BOOLEAN]
Kid == [state : {"live", "zombie", "waited", "named"}, streams : Thing \X Thing \X Thing,
        holds : SUBSET Thing, status : Nat \cup {Killed}, told : Nat \X Nat \X Nat,
        named : SUBSET Thing]

LineTyped == line \in Lines /\ optind \in 0 .. line.max

ModeTyped ==
  /\ mode \in [is : {"run", "wait", "wait for", "pause", "exited", "caught", "killed"},
               of : Int]
  /\ mode.is = "wait for" => mode.of \in 1 .. Len(kids)

ShellTyped ==
  /\ sfd \in [Fds -> Thing]
  /\ table \in Seq(Slot) /\ opened \in Seq(Thing) /\ Len(table) = Len(opened)
  /\ pipes \in Nat

FlagsTyped ==
  oflag \in [flags : SUBSET Flags, acc : 0 .. 3] /\ asked \in SUBSET Flags

KidsInSeq == kids \in Seq(Kid)

Typed ==
  /\ LineTyped /\ ModeTyped /\ ShellTyped /\ FlagsTyped /\ KidsInSeq
  /\ exit_status \in Nat /\ DOMAIN disp = {2, 11}

LEMMA Ends3 ==
  /\ None \in Thing /\ Tty \in Thing
  /\ \A k \in Nat : ReadEnd(k) \in Thing /\ WriteEnd(k) \in Thing
  /\ \A k : ReadEnd(k) = [is |-> "read", id |-> k, flags |-> {}, acc |-> 0]
  /\ \A k : WriteEnd(k) = [is |-> "write", id |-> k, flags |-> {}, acc |-> 0]
  /\ None.is = "none" /\ Tty.is = "tty"
<1>1. None \in Thing /\ None.is = "none"
  BY DEF None, Thing
<1>2. Tty = [is |-> "tty", id |-> 0, flags |-> {}, acc |-> 0]
  BY DEF Tty, None
<1>3. Tty \in Thing /\ Tty.is = "tty"
  BY <1>2 DEF Thing
<1>4. \A k : ReadEnd(k) = [is |-> "read", id |-> k, flags |-> {}, acc |-> 0]
  BY DEF ReadEnd, PipeEnd
<1>5. \A k : WriteEnd(k) = [is |-> "write", id |-> k, flags |-> {}, acc |-> 0]
  BY DEF WriteEnd, PipeEnd
<1>6. \A k \in Nat : ReadEnd(k) \in Thing
  BY <1>4 DEF Thing, Objects
<1>7. \A k \in Nat : WriteEnd(k) \in Thing
  BY <1>5 DEF Thing, Objects
<1> QED BY <1>1, <1>3, <1>4, <1>5, <1>6, <1>7

LEMMA OptionTyped ==
  ASSUME Typed, NEW op \in OptionsOf(line)
  PROVE  /\ op \in Options
         /\ op.op = "open" => op.acc \in 0 .. 2
         /\ op.op \in {"close", "wait for"} => op.n \in Nat
         /\ op.op = "command" => {op.i, op.o, op.e} \subseteq Nat
  BY LinesAssumption DEF Typed, LineTyped, Options

LEMMA OptindTyped ==
  ASSUME Typed, NEW op, Option(op)
  PROVE  line' \in Lines /\ optind' \in 0 .. line'.max
<1>1. line' = line /\ line \in Lines /\ optind' = optind + 1 /\ optind \in 0 .. line.max
  BY DEF Typed, LineTyped, Option
<1>2. line.max \in Nat /\ Len(line.first) \in 0 .. line.max
  BY <1>1, LinesAssumption
<1>3. optind < line.max
  BY <1>1, <1>2 DEF Option
<1> QED BY <1>1, <1>2, <1>3

LEMMA OrAccessTyped == \A a, b \in 0 .. 3 : OrAccess(a, b) \in 0 .. 3
  BY DEF OrAccess

-----------------------------------------------------------------------------
(* The smallest of some descriptors: the sets {m \in S : m < n} have a     *)
(* smallest one.                                                           *)
LEMMA SmallestExists ==
  ASSUME NEW S, S \subseteq Fds, S # {}
  PROVE  \E n \in S : \A m \in S : n <= m
<1> DEFINE Below(n) == {m \in S : m < n}
           B == {Below(n) : n \in S}
<1>1. IsFiniteSet(S) /\ S \subseteq Nat
  BY FdsAssumption, FS_Subset
<1>2. IsWellFoundedOn(StrictSubsetOrdering(S), SUBSET S)
  BY <1>1, FS_StrictSubsetOrderingWellFounded, FS_FiniteSubsetsOfFinite
<1>3. B \subseteq SUBSET S /\ B # {}
  OBVIOUS
<1>4. PICK U \in B : \A V \in B : ~(<<V, U>> \in StrictSubsetOrdering(S))
  BY <1>2, <1>3, WFMin
<1>5. PICK n \in S : U = Below(n)
  BY <1>4
<1>6. ASSUME NEW m \in S, ~(n <= m) PROVE FALSE
  <2>1. m < n /\ m \in Nat /\ n \in Nat
    BY <1>1, <1>6
  <2>2. Below(m) \subseteq Below(n)
    <3> SUFFICES ASSUME NEW k \in S, k < m PROVE k < n
      OBVIOUS
    <3> QED BY <1>1, <2>1
  <2>3. m \in Below(n) /\ m \notin Below(m)
    BY <2>1
  <2>4. <<Below(m), Below(n)>> \in StrictSubsetOrdering(S)
    BY <2>2, <2>3, Zenon DEF StrictSubsetOrdering
  <2>5. Below(m) \in B
    OBVIOUS
  <2> QED BY <1>4, <1>5, <2>4, <2>5
<1> QED BY <1>6

(* open and pipe get a descriptor that is free, and change no other.       *)
LEMMA FreeTaken ==
  ASSUME NEW t \in [Fds -> Thing], NEW what \in Thing, Free(t) > 0
  PROVE  /\ LowestFree(t) \in Fds /\ t[LowestFree(t)] = None
         /\ Take(t, what) \in [Fds -> Thing]
         /\ Take(t, what) = [t EXCEPT ![LowestFree(t)] = what]
<1> DEFINE S == {n \in Fds : t[n] = None}
<1>1. S # {}
  BY FS_EmptySet DEF Free
<1>2. PICK n \in S : \A m \in S : n <= m
  BY <1>1, SmallestExists
<1>3. n \in Fds /\ t[n] = None /\ \A m \in Fds : t[m] = None => n <= m
  BY <1>2
<1>4. LowestFree(t) \in Fds /\ t[LowestFree(t)] = None
  BY <1>3 DEF LowestFree
<1> QED BY <1>4 DEF Take

(* Two free descriptors, one of them taken, leave one.                     *)
LEMMA FreeLeft ==
  ASSUME NEW t \in [Fds -> Thing], NEW what \in Thing, what # None, Free(t) > 1
  PROVE  Free(t) > 0 /\ Free(Take(t, what)) > 0
<1> DEFINE S == {n \in Fds : t[n] = None}
           u == Take(t, what)
           T == {n \in Fds : u[n] = None}
           n == LowestFree(t)
<1>1. IsFiniteSet(S) /\ Cardinality(S) \in Nat /\ IsFiniteSet(T) /\ Cardinality(T) \in Nat
  BY FdsAssumption, FS_Subset, FS_CardinalityType
<1>2. Cardinality(S) > 1
  BY DEF Free
<1>3. Free(t) > 0
  BY <1>1, <1>2 DEF Free
<1>4. n \in S /\ u = [t EXCEPT ![n] = what]
  BY <1>3, FreeTaken
<1>5. T = S \ {n}
  BY <1>4
<1>6. Cardinality(T) = Cardinality(S) - 1
  BY <1>1, <1>4, <1>5, FS_RemoveElement
<1> QED BY <1>1, <1>2, <1>3, <1>6 DEF Free

-----------------------------------------------------------------------------
LEMMA TableTyped ==
  ASSUME Typed
  PROVE  /\ table \in Seq(Slot) /\ opened \in Seq(Thing) /\ Len(table) = Len(opened)
         /\ Len(table) \in Nat /\ DOMAIN table = 1 .. Len(table)
         /\ DOMAIN opened = 1 .. Len(table)
         /\ \A j \in 1 .. Len(table) : table[j] \in Slot /\ opened[j] \in Thing
<1>1. table \in Seq(Slot) /\ opened \in Seq(Thing) /\ Len(table) = Len(opened)
  BY Zenon DEF Typed, ShellTyped
<1> QED BY <1>1

LEMMA SfdTyped == ASSUME Typed PROVE sfd \in [Fds -> Thing] /\ None \in Thing /\ Tty \in Thing
<1>1. sfd \in [Fds -> Thing]
  BY Zenon DEF Typed, ShellTyped
<1> QED BY <1>1, Ends3

LEMMA OpenTyped ==
  ASSUME Typed, NEW op \in OptionsOf(line), Open(op)
  PROVE  /\ sfd' \in [Fds -> Thing]
         /\ table' \in Seq(Slot) /\ opened' \in Seq(Thing) /\ Len(table') = Len(opened')
         /\ oflag' \in [flags : SUBSET Flags, acc : 0 .. 3] /\ asked' \in SUBSET Flags
         /\ LET n == LowestFree(sfd)
                file == File(op.name, oflag.flags, OrAccess(oflag.acc, op.acc))
            IN  /\ n \in Fds /\ sfd[n] = None /\ sfd' = [sfd EXCEPT ![n] = file]
                /\ NewEntry(n, FALSE) \in Slot
                /\ File(op.name, asked, op.acc) \in Thing
<1> DEFINE n == LowestFree(sfd)
           file == File(op.name, oflag.flags, OrAccess(oflag.acc, op.acc))
<1>1. op \in Options /\ op.acc \in 0 .. 2 /\ op.name \in Names
  BY OptionTyped DEF Open, Names
<1>2. file \in Thing /\ File(op.name, asked, op.acc) \in Thing
  <2>0. oflag \in [flags : SUBSET Flags, acc : 0 .. 3] /\ asked \in SUBSET Flags
    BY Zenon DEF Typed, FlagsTyped
  <2>1. /\ oflag.flags \in SUBSET Flags
        /\ oflag.acc \in 0 .. 3 /\ op.acc \in 0 .. 3
    BY <1>1, <2>0
  <2>2. OrAccess(oflag.acc, op.acc) \in 0 .. 3
    BY <2>1, OrAccessTyped
  <2> QED BY <1>1, <2>0, <2>1, <2>2 DEF Thing, File, Objects
<1>3. n \in Fds /\ sfd[n] = None /\ sfd' \in [Fds -> Thing] /\ sfd' = [sfd EXCEPT ![n] = file]
  BY <1>2, SfdTyped, FreeTaken DEF Open
<1>4. NewEntry(n, FALSE) \in Slot
  BY <1>3 DEF NewEntry, Slot
<1>5. table' = Append(table, NewEntry(n, FALSE)) /\ opened' = Append(opened, File(op.name, asked, op.acc))
  BY DEF Open
<1>6. /\ table' \in Seq(Slot) /\ opened' \in Seq(Thing) /\ Len(table') = Len(opened')
  <2>1. table' \in Seq(Slot) /\ Len(table') = Len(table) + 1
    BY <1>4, <1>5, TableTyped, AppendProperties
  <2>2. opened' \in Seq(Thing) /\ Len(opened') = Len(opened) + 1
    BY <1>2, <1>5, TableTyped, AppendProperties
  <2> QED BY <2>1, <2>2, TableTyped
<1>7. oflag' \in [flags : SUBSET Flags, acc : 0 .. 3] /\ asked' \in SUBSET Flags
  BY DEF Open
<1> QED BY <1>2, <1>3, <1>4, <1>6, <1>7

LEMMA PairSeq ==
  ASSUME NEW S, NEW a \in S, NEW b \in S
  PROVE  /\ <<a, b>> \in Seq(S) /\ Len(<<a, b>>) = 2
         /\ <<a, b>>[1] = a /\ <<a, b>>[2] = b
  OBVIOUS

LEMMA PipeTyped ==
  ASSUME Typed, NEW op \in OptionsOf(line), Pipe(op)
  PROVE  \E r, w \in Fds :
           /\ r # w /\ sfd[r] = None /\ sfd[w] = None
           /\ sfd' = [sfd EXCEPT ![r] = ReadEnd(pipes), ![w] = WriteEnd(pipes)]
           /\ table' = table \o <<NewEntry(r, TRUE), NewEntry(w, TRUE)>>
           /\ <<NewEntry(r, TRUE), NewEntry(w, TRUE)>> \in Seq(Slot)
           /\ <<ReadEnd(pipes), WriteEnd(pipes)>> \in Seq(Thing)
           /\ sfd' \in [Fds -> Thing]
           /\ table' \in Seq(Slot) /\ opened' \in Seq(Thing)
           /\ Len(table') = Len(table) + 2 /\ Len(opened') = Len(table')
<1> DEFINE r == LowestFree(sfd)
           withReader == Take(sfd, ReadEnd(pipes))
           w == LowestFree(withReader)
<1>1. sfd \in [Fds -> Thing] /\ pipes \in Nat /\ Free(sfd) > 1
  BY DEF Typed, ShellTyped, Pipe
<1>2. ReadEnd(pipes) \in Thing /\ WriteEnd(pipes) \in Thing /\ ReadEnd(pipes) # None
  BY <1>1, Ends3
<1>3. Free(sfd) > 0 /\ Free(withReader) > 0
  BY <1>1, <1>2, FreeLeft
<1>4. /\ r \in Fds /\ sfd[r] = None /\ withReader \in [Fds -> Thing]
      /\ withReader = [sfd EXCEPT ![r] = ReadEnd(pipes)]
  BY <1>1, <1>2, <1>3, FreeTaken
<1> HIDE DEF withReader, r
<1>5. /\ w \in Fds /\ withReader[w] = None
      /\ Take(withReader, WriteEnd(pipes)) \in [Fds -> Thing]
      /\ Take(withReader, WriteEnd(pipes)) = [withReader EXCEPT ![w] = WriteEnd(pipes)]
  BY <1>2, <1>3, <1>4, FreeTaken
<1> HIDE DEF w
<1>6. w # r /\ sfd[w] = None
  BY <1>1, <1>2, <1>4, <1>5
<1>7. /\ sfd' = Take(withReader, WriteEnd(pipes))
      /\ table' = table \o <<NewEntry(r, TRUE), NewEntry(w, TRUE)>>
      /\ opened' = opened \o <<ReadEnd(pipes), WriteEnd(pipes)>>
  BY DEF Pipe, w, r, withReader
<1>8. sfd' = [sfd EXCEPT ![r] = ReadEnd(pipes), ![w] = WriteEnd(pipes)]
  BY <1>4, <1>5, <1>7
<1>9. NewEntry(r, TRUE) \in Slot /\ NewEntry(w, TRUE) \in Slot
  BY <1>4, <1>5 DEF NewEntry, Slot
<1>10. /\ <<NewEntry(r, TRUE), NewEntry(w, TRUE)>> \in Seq(Slot)
       /\ Len(<<NewEntry(r, TRUE), NewEntry(w, TRUE)>>) = 2
       /\ <<ReadEnd(pipes), WriteEnd(pipes)>> \in Seq(Thing)
       /\ Len(<<ReadEnd(pipes), WriteEnd(pipes)>>) = 2
  BY <1>2, <1>9, PairSeq
<1>11. /\ table' \in Seq(Slot) /\ opened' \in Seq(Thing)
       /\ Len(table') = Len(table) + 2 /\ Len(opened') = Len(table')
  <2>1. table' \in Seq(Slot) /\ Len(table') = Len(table) + 2
    BY <1>7, <1>10, TableTyped, ConcatProperties
  <2>2. opened' \in Seq(Thing) /\ Len(opened') = Len(opened) + 2
    BY <1>7, <1>10, TableTyped, ConcatProperties
  <2> QED BY <2>1, <2>2, TableTyped
<1> QED BY <1>4, <1>5, <1>6, <1>7, <1>8, <1>10, <1>11

LEMMA CloseTyped ==
  ASSUME Typed, NEW op \in OptionsOf(line), Close(op)
  PROVE  /\ sfd' \in [Fds -> Thing]
         /\ op.n + 1 \in 1 .. Len(table)
         /\ table' \in Seq(Slot) /\ Len(table') = Len(table)
         /\ table'[op.n + 1] = [fd |-> Closed, pipe |-> table[op.n + 1].pipe, over |-> TRUE]
         /\ \A j \in 1 .. Len(table) : j # op.n + 1 => table'[j] = table[j]
         /\ Entry(op.n).fd \in Fds
         /\ \A n \in Fds : sfd'[n] = IF n = Entry(op.n).fd THEN None ELSE sfd[n]
<1> DEFINE j == op.n + 1
           slot == [fd |-> Closed, pipe |-> table[j].pipe, over |-> TRUE]
<1>1. op.n \in Nat /\ op.n < Len(table) /\ Entry(op.n).fd # Closed
  BY OptionTyped DEF Close, validFd
<1>2. j \in 1 .. Len(table) /\ table[j] \in Slot
  BY <1>1, TableTyped
<1>3. Entry(op.n).fd \in Fds
  BY <1>1, <1>2 DEF Entry, Slot
<1>4. slot \in Slot /\ table' = [table EXCEPT ![j] = slot]
  BY <1>2 DEF Slot, Close
<1>5. /\ table' \in Seq(Slot) /\ Len(table') = Len(table) /\ table'[j] = slot
      /\ \A i \in 1 .. Len(table) : i # j => table'[i] = table[i]
  <2> HIDE DEF slot, j
  <2> QED BY <1>2, <1>4, TableTyped, ExceptSeq
<1>6. sfd' = [n \in Fds |-> IF n \in {Entry(op.n).fd} THEN None ELSE sfd[n]]
  BY DEF Close, Release
<1>7. sfd \in [Fds -> Thing] /\ None \in Thing
  BY SfdTyped
<1> QED BY <1>2, <1>3, <1>5, <1>6, <1>7

LEMMA PassedTyped ==
  ASSUME Typed, NEW i, NEW o, NEW e
  PROVE  /\ Passed(i, o, e) \in Seq(Slot) /\ Len(Passed(i, o, e)) = Len(table)
         /\ \A j \in 1 .. Len(table) :
              /\ Passed(i, o, e)[j].pipe = table[j].pipe
              /\ Passed(i, o, e)[j].fd =
                   IF j = i + 1 /\ PipeFds(i, o, e) # {} THEN Closed ELSE table[j].fd
              /\ Passed(i, o, e)[j].over <=>
                   table[j].over \/ (j - 1 \in {i, o, e} /\ table[j].pipe)
<1> DEFINE S(j) == [fd |-> IF j = i + 1 /\ PipeFds(i, o, e) # {} THEN Closed ELSE table[j].fd,
                    pipe |-> table[j].pipe,
                    over |-> table[j].over \/ (j - 1 \in {i, o, e} /\ table[j].pipe)]
<1>1. Passed(i, o, e) = [j \in 1 .. Len(table) |-> S(j)]
  BY TableTyped DEF Passed
<1>2. \A j \in 1 .. Len(table) : S(j) \in Slot
  BY TableTyped DEF Slot
<1>3. Passed(i, o, e) \in [1 .. Len(table) -> Slot]
  BY <1>1, <1>2
<1>4. Passed(i, o, e) \in Seq(Slot) /\ Len(Passed(i, o, e)) = Len(table)
  BY <1>3, TableTyped
<1> HIDE DEF S
<1>5. \A j \in 1 .. Len(table) : Passed(i, o, e)[j] = S(j)
  BY <1>1
<1>6. \A j \in 1 .. Len(table) :
        /\ S(j).pipe = table[j].pipe
        /\ S(j).fd = IF j = i + 1 /\ PipeFds(i, o, e) # {} THEN Closed ELSE table[j].fd
  BY DEF S
<1>7. \A j \in 1 .. Len(table) :
        S(j).over <=> table[j].over \/ (j - 1 \in {i, o, e} /\ table[j].pipe)
  BY DEF S
<1> QED BY <1>4, <1>5, <1>6, <1>7

LEMMA KidsTyped ==
  ASSUME Typed
  PROVE  /\ kids \in Seq(Kid) /\ Len(kids) \in Nat /\ DOMAIN kids = 1 .. Len(kids)
         /\ \A c \in 1 .. Len(kids) : kids[c] \in Kid
<1>1. kids \in Seq(Kid)
  BY Zenon DEF Typed, KidsInSeq
<1> QED BY <1>1

LEMMA CommandTyped ==
  ASSUME Typed, NEW op \in OptionsOf(line), Command(op)
  PROVE  LET kid == Child(op.i, op.o, op.e, Named(table'))
         IN  /\ \A j \in {op.i, op.o, op.e} :
                  j \in Nat /\ j + 1 \in 1 .. Len(table) /\ table[j + 1].fd \in Fds
             /\ sfd' \in [Fds -> Thing]
             /\ \A n \in Fds :
                  sfd'[n] = IF n \in PipeFds(op.i, op.o, op.e) THEN None ELSE sfd[n]
             /\ table' \in Seq(Slot) /\ Len(table') = Len(table)
             /\ kids' \in Seq(Kid) /\ Len(kids') = Len(kids) + 1
             /\ \A c \in 1 .. Len(kids) : kids'[c] = kids[c]
             /\ kids'[Len(kids) + 1] = kid /\ kid \in Kid
             /\ kid.streams = <<Dup(op.i), Dup(op.o), Dup(op.e)>>
             /\ kid.told = <<op.i, op.o, op.e>>
             /\ kid.state = "live"
             /\ kid.holds = ({sfd[n] : n \in Fds \ ChildCloses(op.i, op.o, op.e)} \ {None})
                              \cup {Dup(op.i), Dup(op.o), Dup(op.e)}
<1> DEFINE kid == Child(op.i, op.o, op.e, Named(table'))
<1>1. {op.i, op.o, op.e} \subseteq Nat
  BY OptionTyped DEF Command
<1>2. \A j \in {op.i, op.o, op.e} :
        j \in Nat /\ j + 1 \in 1 .. Len(table) /\ table[j + 1].fd \in Fds
  <2> SUFFICES ASSUME NEW j \in {op.i, op.o, op.e}
               PROVE  j \in Nat /\ j + 1 \in 1 .. Len(table) /\ table[j + 1].fd \in Fds
    OBVIOUS
  <2>1. j \in Nat /\ j < Len(table) /\ table[j + 1].fd # Closed
    BY <1>1 DEF Command, validFd, Entry
  <2>2. j + 1 \in 1 .. Len(table)
    BY <2>1, TableTyped
  <2>3. table[j + 1] \in Slot
    BY <2>2, TableTyped
  <2> QED BY <2>1, <2>2, <2>3 DEF Slot
<1>3. sfd' = [n \in Fds |-> IF n \in PipeFds(op.i, op.o, op.e) THEN None ELSE sfd[n]]
  BY DEF Command, Release
<1>4. table' \in Seq(Slot) /\ Len(table') = Len(table)
  <2>1. table' = Passed(op.i, op.o, op.e)
    BY DEF Command
  <2> QED BY <2>1, PassedTyped
<1>5. \A j \in {op.i, op.o, op.e} : Dup(j) \in Thing
  BY <1>2, SfdTyped DEF Dup, Entry
<1>6. Named(table') \in SUBSET Thing
  BY <1>4, TableTyped DEF Named
<1>7. /\ kid.streams = <<Dup(op.i), Dup(op.o), Dup(op.e)>>
      /\ kid.told = <<op.i, op.o, op.e>>
      /\ kid.state = "live" /\ kid.status = 0
      /\ kid.named = Named(table')
      /\ kid.holds = ({sfd[n] : n \in Fds \ ChildCloses(op.i, op.o, op.e)} \ {None})
                       \cup {Dup(op.i), Dup(op.o), Dup(op.e)}
      /\ kid = [state |-> kid.state, streams |-> kid.streams, holds |-> kid.holds,
                status |-> kid.status, told |-> kid.told, named |-> kid.named]
  BY DEF Child
<1>8. kid \in Kid
  <2> HIDE DEF kid
  <2>1. kid.streams \in Thing \X Thing \X Thing /\ kid.told \in Nat \X Nat \X Nat
    BY <1>1, <1>5, <1>7
  <2>2. kid.holds \in SUBSET Thing
    BY <1>5, <1>7, SfdTyped
  <2> QED BY <1>6, <1>7, <2>1, <2>2 DEF Kid
<1>9. kids' = Append(kids, kid)
  BY DEF Command
<1> HIDE DEF kid
<1>10. /\ kids' \in Seq(Kid) /\ Len(kids') = Len(kids) + 1
       /\ \A c \in 1 .. Len(kids) : kids'[c] = kids[c]
       /\ kids'[Len(kids) + 1] = kid
  BY <1>8, <1>9, KidsTyped, AppendProperties
<1>11. sfd' \in [Fds -> Thing]
  BY <1>3, SfdTyped
<1> QED BY <1>2, <1>3, <1>4, <1>7, <1>8, <1>10, <1>11 DEF kid

(* The commands run on or are waited for: only their states change.        *)
Same(c) ==
  /\ kids'[c].streams = kids[c].streams /\ kids'[c].holds = kids[c].holds
  /\ kids'[c].told = kids[c].told

StatesChange ==
  /\ kids' \in Seq(Kid) /\ Len(kids') = Len(kids)
  /\ \A c \in 1 .. Len(kids) : Same(c)

LEMMA EndsTyped ==
  ASSUME Typed, NEW c \in DOMAIN kids, Ends(c)
  PROVE  /\ StatesChange
         /\ \A d \in 1 .. Len(kids) : d # c => kids'[d] = kids[d]
         /\ kids[c].state = "live" /\ kids'[c].state = "zombie"
<1>1. PICK status \in line.statuses :
        kids' = [kids EXCEPT ![c].state = "zombie", ![c].status = status]
  BY DEF Ends
<1>2. status \in Nat \cup {Killed}
  BY LinesAssumption DEF Typed, LineTyped, Killed
<1>3. c \in 1 .. Len(kids) /\ kids[c] \in Kid
  BY KidsTyped
<1> DEFINE e == [kids[c] EXCEPT !.state = "zombie", !.status = status]
<1>4. kids' = [kids EXCEPT ![c] = e]
  BY <1>1, <1>3, KidsTyped
<1>5. e \in Kid
  BY <1>2, <1>3 DEF Kid
<1>6. /\ e.state = "zombie" /\ e.streams = kids[c].streams
      /\ e.holds = kids[c].holds /\ e.told = kids[c].told
  BY <1>2, <1>3 DEF Kid
<1>7. kids[c].state = "live"
  BY DEF Ends, Live
<1> HIDE DEF e
<1>8. /\ kids' \in Seq(Kid) /\ Len(kids') = Len(kids) /\ kids'[c] = e
      /\ \A d \in 1 .. Len(kids) : d # c => kids'[d] = kids[d]
  BY <1>3, <1>4, <1>5, KidsTyped, ExceptSeq
<1> QED BY <1>3, <1>6, <1>7, <1>8 DEF StatesChange, Same

LEMMA WaitedTyped ==
  ASSUME Typed, NEW c \in DOMAIN kids, Waited(c)
  PROVE  /\ StatesChange
         /\ \A d \in 1 .. Len(kids) : d # c => kids'[d] = kids[d]
         /\ kids[c].state = "zombie" /\ kids'[c].state = "waited"
         /\ kids'[c].status = kids[c].status
<1> DEFINE e == [kids[c] EXCEPT !.state = "waited"]
<1>1. c \in 1 .. Len(kids) /\ kids[c] \in Kid /\ kids[c].state = "zombie"
  BY KidsTyped DEF Waited
<1>2. kids' = [kids EXCEPT ![c] = e]
  BY DEF Waited
<1>3. /\ e \in Kid /\ e.state = "waited" /\ e.status = kids[c].status
      /\ e.streams = kids[c].streams /\ e.holds = kids[c].holds /\ e.told = kids[c].told
  BY <1>1 DEF Kid
<1> HIDE DEF e
<1>4. /\ kids' \in Seq(Kid) /\ Len(kids') = Len(kids) /\ kids'[c] = e
      /\ \A d \in 1 .. Len(kids) : d # c => kids'[d] = kids[d]
  BY <1>1, <1>2, <1>3, KidsTyped, ExceptSeq
<1> QED BY <1>1, <1>3, <1>4 DEF StatesChange, Same

LEMMA WaitedForTyped ==
  ASSUME Typed, WaitedFor
  PROVE  /\ StatesChange
         /\ \A d \in 1 .. Len(kids) :
              /\ kids'[d].status = kids[d].status
              /\ kids'[d].state = "waited" <=> kids[d].state = "waited"
<1> DEFINE c == mode.of
           s == IF kids[c].state = "zombie" THEN "named" ELSE kids[c].state
           e == [kids[c] EXCEPT !.state = s]
<1>1. c \in 1 .. Len(kids) /\ kids[c] \in Kid
  <2>1. c \in 1 .. Len(kids)
    BY DEF WaitedFor, Typed, ModeTyped
  <2> QED BY <2>1, KidsTyped
<1>2. kids' = [kids EXCEPT ![c] = e]
  BY DEF WaitedFor
<1>3. s \in {"live", "zombie", "waited", "named"} /\ (s = "waited" <=> kids[c].state = "waited")
  BY <1>1 DEF Kid
<1> HIDE DEF s
<1>4. /\ e \in Kid /\ e.state = s /\ e.status = kids[c].status
      /\ e.streams = kids[c].streams /\ e.holds = kids[c].holds /\ e.told = kids[c].told
  BY <1>1, <1>3 DEF Kid
<1> HIDE DEF e, c
<1>5. /\ kids' \in Seq(Kid) /\ Len(kids') = Len(kids) /\ kids'[c] = e
      /\ \A d \in 1 .. Len(kids) : d # c => kids'[d] = kids[d]
  BY <1>1, <1>2, <1>4, KidsTyped, ExceptSeq
<1> QED BY <1>1, <1>3, <1>4, <1>5 DEF StatesChange, Same

-----------------------------------------------------------------------------
(* What the other steps leave of the shell: what it has opened stays, or   *)
(* the shell is gone and holds nothing.                                    *)
Stays ==
  /\ UNCHANGED <<table, pipes, opened>> /\ slips \subseteq slips'
  /\ kids' = kids \/ StatesChange
  /\ \/ UNCHANGED sfd
     \/ sfd' = [n \in Fds |-> None] /\ ~There'
  /\ There' => There /\ UNCHANGED sfd

FlagsKept == UNCHANGED <<oflag, asked>>

LEMMA IntervalInt == \A n \in Nat : \A k \in 1 .. n : k \in Int
  OBVIOUS

LEMMA SameKids ==
  ASSUME Typed, kids' = kids \/ StatesChange
  PROVE  KidsInSeq' /\ Len(kids') = Len(kids)
  BY DEF Typed, KidsInSeq, StatesChange

(* A step is typed that changes the mode and nothing else of the shell.    *)
LEMMA StaysTyped ==
  ASSUME Typed, Stays, LineTyped', FlagsTyped', exit_status' \in Nat,
         \/ UNCHANGED mode
         \/ mode' \in [is : {"run", "wait", "pause", "exited", "caught", "killed"}, of : Int]
         \/ mode' \in [is : {"wait for"}, of : 1 .. Len(kids)],
         DOMAIN disp' = DOMAIN disp
  PROVE  Typed'
<1>1. KidsInSeq' /\ Len(kids') = Len(kids) /\ Len(kids) \in Nat
  BY SameKids, KidsTyped DEF Stays
<1>2. ModeTyped'
  <2>1. CASE UNCHANGED mode
    BY <1>1, <2>1 DEF Typed, ModeTyped
  <2>2. CASE mode' \in [is : {"run", "wait", "pause", "exited", "caught", "killed"}, of : Int]
    <3>1. mode'.is # "wait for"
      BY <2>2
    <3> QED BY <2>2, <3>1 DEF ModeTyped
  <2>3. CASE mode' \in [is : {"wait for"}, of : 1 .. Len(kids)]
    <3>1. mode'.is = "wait for" /\ mode'.of \in 1 .. Len(kids)
      BY <2>3
    <3>2. mode' = [is |-> mode'.is, of |-> mode'.of]
      BY <2>3
    <3>3. mode'.of \in Int
      BY <1>1, <3>1, IntervalInt
    <3>4. mode' \in [is : {"run", "wait", "wait for", "pause", "exited", "caught", "killed"},
                      of : Int]
      BY <3>1, <3>2, <3>3
    <3> QED BY <1>1, <3>1, <3>4 DEF ModeTyped
  <2> QED BY <2>1, <2>2, <2>3
<1>3. ShellTyped'
  <2>1. sfd' \in [Fds -> Thing]
    BY SfdTyped DEF Stays
  <2> QED BY <2>1, Zenon DEF Typed, ShellTyped, Stays
<1> QED BY <1>1, <1>2, <1>3, Zenon DEF Typed

LEMMA GoneStays ==
  ASSUME Typed, There, UNCHANGED <<opened, kids, slips>>, NEW code \in Int,
         Gone("exited", code) \/ Gone("caught", code) \/ Gone("killed", code)
  PROVE  /\ Stays
         /\ mode' \in [is : {"run", "wait", "pause", "exited", "caught", "killed"}, of : Int]
         /\ mode'.is = "exited" => Gone("exited", code)
<1>1. UNCHANGED <<table, pipes>> /\ sfd' = [n \in Fds |-> None]
  BY DEF Gone, Release
<1>2. mode' \in [is : {"exited", "caught", "killed"}, of : Int]
  BY DEF Gone
<1>3. ~There'
  BY <1>2 DEF There
<1>4. mode'.is = "exited" => Gone("exited", code)
  BY DEF Gone
<1> QED BY <1>1, <1>2, <1>3, <1>4 DEF Stays

LEMMA DeliveredStays ==
  ASSUME Typed, There, UNCHANGED <<opened, kids, slips>>, NEW sig \in Int, Delivered(sig)
  PROVE  /\ Stays
         /\ \/ UNCHANGED mode
            \/ mode' \in [is : {"run", "wait", "pause", "exited", "caught", "killed"}, of : Int]
         /\ mode'.is # "exited"
<1>1. Gone("caught", sig) \/ Gone("killed", sig) \/ UNCHANGED <<mode, shell>>
  BY DEF Delivered
<1>2. CASE UNCHANGED <<mode, shell>>
  BY <1>2 DEF Stays, There, shell
<1>3. CASE Gone("caught", sig) \/ Gone("killed", sig)
  <2>1. mode'.is # "exited"
    BY <1>3 DEF Gone
  <2> QED BY <1>3, <2>1, GoneStays
<1> QED BY <1>1, <1>2, <1>3

LEMMA LineKept ==
  ASSUME Typed, UNCHANGED <<line, optind>>
  PROVE  LineTyped'
  BY DEF Typed, LineTyped

LEMMA FlagsStay ==
  ASSUME Typed, FlagsKept
  PROVE  FlagsTyped'
  BY Zenon DEF Typed, FlagsTyped, FlagsKept

LEMMA Refused ==
  ASSUME Typed, NEW op, Raise \/ UNCHANGED exit_status, Complain(op) \/ UNCHANGED slips
  PROVE  exit_status' \in Nat /\ slips \subseteq slips'
  BY DEF Typed, Raise, Complain, Worst

(* The options that open and start nothing.                                *)
LEMMA OptionStays ==
  ASSUME Typed, NEW op \in OptionsOf(line), Option(op),
         \/ CloseRefused(op) \/ CommandRefused(op) \/ Malformed(op) \/ Quiet(op)
         \/ Wait(op) \/ WaitFor(op) \/ Abort(op) \/ Sigaction(op) \/ Pause(op)
  PROVE  Typed' /\ Stays /\ FlagsKept /\ mode'.is # "exited" /\ UNCHANGED kids
<1>1. LineTyped'
  BY OptindTyped DEF LineTyped
<1>2. There /\ mode.is = "run"
  BY DEF Option, There
<1>3. exit_status \in Nat /\ DOMAIN disp = {2, 11}
  BY DEF Typed
<1>4. ASSUME FlagsKept, UNCHANGED <<shell, opened, kids, disp>>, exit_status' \in Nat,
             slips \subseteq slips', There',
             \/ UNCHANGED mode
             \/ mode' \in [is : {"run", "wait", "pause", "exited", "caught", "killed"}, of : Int]
             \/ mode' \in [is : {"wait for"}, of : 1 .. Len(kids)]
      PROVE  Typed' /\ Stays /\ mode'.is # "exited"
  <2>1. Stays
    BY <1>2, <1>4 DEF Stays, shell
  <2>2. mode'.is # "exited"
    BY <1>4 DEF There
  <2> QED BY <1>1, <1>4, <2>1, <2>2, FlagsStay, StaysTyped
<1>5. CASE CloseRefused(op) \/ CommandRefused(op) \/ Malformed(op) \/ Quiet(op)
  <2>1. /\ UNCHANGED <<mode, shell, oflag, asked, opened, kids, signals>>
        /\ Raise \/ UNCHANGED exit_status
        /\ Complain(op) \/ UNCHANGED slips
    BY <1>5 DEF CloseRefused, CommandRefused, Malformed, Quiet, history
  <2> QED BY <1>2, <1>4, <2>1, Refused DEF FlagsKept, There, signals
<1>6. CASE Wait(op) \/ Pause(op)
  <2>1. /\ UNCHANGED <<shell, oflag, asked, opened, kids, signals, exit_status, slips>>
        /\ mode' = [is |-> "wait", of |-> 0] \/ mode' = [is |-> "pause", of |-> 0]
    BY <1>6 DEF Wait, Pause, history
  <2>2. /\ mode' \in [is : {"run", "wait", "pause", "exited", "caught", "killed"}, of : Int]
        /\ mode'.is \in {"wait", "pause"}
    BY <2>1
  <2> QED BY <1>3, <1>4, <2>1, <2>2 DEF FlagsKept, There, signals
<1>7. CASE WaitFor(op)
  <2>1. /\ UNCHANGED <<shell, oflag, asked, opened, kids, signals>>
        /\ Raise \/ UNCHANGED exit_status
        /\ Complain(op) \/ UNCHANGED slips
        /\ mode' = IF op.n < Len(kids) THEN [is |-> "wait for", of |-> op.n + 1] ELSE mode
        /\ op.n \in Nat
    BY <1>7, OptionTyped DEF WaitFor
  <2>2. UNCHANGED mode \/ mode' \in [is : {"wait for"}, of : 1 .. Len(kids)]
    <3>1. ASSUME op.n < Len(kids) PROVE op.n + 1 \in 1 .. Len(kids)
      <4>1. op.n \in Nat /\ Len(kids) \in Nat
        BY <2>1, KidsTyped
      <4> QED BY <3>1, <4>1
    <3> QED BY <2>1, <3>1
  <2>3. There'
    BY <1>2, <2>1 DEF There
  <2> QED BY <1>4, <2>1, <2>2, <2>3, Refused DEF FlagsKept, signals
<1>8. CASE Sigaction(op)
  <2>1. /\ UNCHANGED <<mode, shell, oflag, asked, opened, kids>>
        /\ Raise \/ UNCHANGED exit_status
        /\ Complain(op) \/ UNCHANGED slips
        /\ DOMAIN disp' = DOMAIN disp
    BY <1>8 DEF Sigaction
  <2>2. Stays
    BY <1>2, <2>1, Refused DEF Stays, shell, There
  <2>3. Typed'
    BY <1>1, <2>1, <2>2, Refused, FlagsStay, StaysTyped DEF FlagsKept
  <2> QED BY <1>2, <2>1, <2>2, <2>3 DEF FlagsKept
<1>9. CASE Abort(op)
  <2>1. UNCHANGED <<oflag, asked, opened, kids, signals, exit_status, slips>>
    BY <1>9 DEF Abort, history
  <2>2. CASE UNCHANGED <<mode, shell>>
    BY <1>2, <1>3, <1>4, <2>1, <2>2 DEF FlagsKept, There, signals
  <2>3. CASE Delivered(11)
    <3>1. /\ Stays /\ mode'.is # "exited"
          /\ \/ UNCHANGED mode
             \/ mode' \in [is : {"run", "wait", "pause", "exited", "caught", "killed"}, of : Int]
      BY <1>2, <2>1, <2>3, DeliveredStays
    <3> QED BY <1>1, <1>3, <2>1, <3>1, FlagsStay, StaysTyped DEF FlagsKept, signals
  <2> QED BY <1>9, <2>2, <2>3 DEF Abort
<1>10. UNCHANGED kids
  BY DEF CloseRefused, CommandRefused, Malformed, Quiet, Wait, WaitFor, Abort, Sigaction, Pause
<1>11. FlagsKept
  BY DEF FlagsKept, CloseRefused, CommandRefused, Malformed, Quiet, Wait, WaitFor, Abort,
         Sigaction, Pause, history
<1> QED BY <1>5, <1>6, <1>7, <1>8, <1>9, <1>10, <1>11

LEMMA FlagStays ==
  ASSUME Typed, NEW op \in OptionsOf(line), Option(op), Flag(op)
  PROVE  Typed' /\ Stays /\ UNCHANGED <<mode, kids, exit_status, slips>>
<1>1. LineTyped' /\ There
  BY OptindTyped DEF LineTyped, Option, There
<1>2. op.flag \in Flags
  BY OptionTyped DEF Flags
<1>3. FlagsTyped'
  <2>1. oflag \in [flags : SUBSET Flags, acc : 0 .. 3] /\ asked \in SUBSET Flags
    BY Zenon DEF Typed, FlagsTyped
  <2>2. oflag.flags \cup {op.flag} \in SUBSET Flags
    BY <1>2, <2>1
  <2>3. oflag' = [oflag EXCEPT !.flags = oflag.flags \cup {op.flag}]
    BY DEF Flag
  <2>4. oflag' \in [flags : SUBSET Flags, acc : 0 .. 3]
    BY <2>1, <2>2, <2>3
  <2>5. asked' \in SUBSET Flags
    BY <1>2, <2>1 DEF Flag
  <2> QED BY <2>4, <2>5 DEF FlagsTyped
<1>4. UNCHANGED <<mode, shell, signals, exit_status, kids, opened, slips>>
  BY DEF Flag
<1>5. Stays
  BY <1>1, <1>4 DEF Stays, shell, There
<1>6. exit_status' \in Nat /\ DOMAIN disp' = DOMAIN disp
  BY <1>4 DEF Typed, signals
<1> QED BY <1>1, <1>3, <1>4, <1>5, <1>6, StaysTyped

LEMMA OpenFailsStays ==
  ASSUME Typed, NEW op \in OptionsOf(line), Option(op), OpenFails(op)
  PROVE  Typed' /\ Stays /\ UNCHANGED <<mode, kids>> /\ "open failed" \in slips'
<1>1. LineTyped' /\ There
  BY OptindTyped DEF LineTyped, Option, There
<1>2. op.acc \in 0 .. 3
  <2>1. op.op = "open"
    BY DEF OpenFails
  <2>2. op.acc \in 0 .. 2
    BY <2>1, OptionTyped
  <2> QED BY <2>2
<1>3. FlagsTyped'
  <2>1. oflag \in [flags : SUBSET Flags, acc : 0 .. 3]
    BY Zenon DEF Typed, FlagsTyped
  <2>2. OrAccess(oflag.acc, op.acc) \in 0 .. 3
    BY <1>2, <2>1, OrAccessTyped
  <2>3. oflag' = [oflag EXCEPT !.acc = OrAccess(oflag.acc, op.acc)]
    BY DEF OpenFails
  <2>4. oflag' \in [flags : SUBSET Flags, acc : 0 .. 3]
    BY <2>1, <2>2, <2>3
  <2>5. asked' \in SUBSET Flags
    BY DEF OpenFails
  <2> QED BY <2>4, <2>5 DEF FlagsTyped
<1>4. UNCHANGED <<mode, shell, signals, kids, opened>> /\ slips \subseteq slips'
  BY DEF OpenFails
<1>5. Stays
  BY <1>1, <1>4 DEF Stays, shell, There
<1>6. exit_status' \in Nat /\ DOMAIN disp' = DOMAIN disp
  BY <1>4 DEF Typed, signals, OpenFails, Raise, Worst
<1>7. "open failed" \in slips'
  BY DEF OpenFails
<1> QED BY <1>1, <1>3, <1>4, <1>5, <1>6, <1>7, StaysTyped

(* The options that open, close and start.                                 *)
LEMMA OpensTyped ==
  ASSUME Typed, NEW op \in OptionsOf(line), Option(op),
         Open(op) \/ Pipe(op) \/ Close(op) \/ Command(op)
  PROVE  Typed' /\ slips \subseteq slips' /\ UNCHANGED <<mode, exit_status>>
<1>1. LineTyped'
  BY OptindTyped DEF LineTyped
<1>2. UNCHANGED <<mode, exit_status, disp>>
  BY DEF Open, Pipe, Close, Command, signals
<1>3. exit_status' \in Nat /\ DOMAIN disp' = {2, 11}
  BY <1>2 DEF Typed
<1>4. mode.is = "run" /\ mode.is # "wait for"
  BY DEF Option
<1>5. ModeTyped'
  BY <1>2, <1>4 DEF Typed, ModeTyped
<1>6. pipes \in Nat /\ KidsInSeq /\ FlagsTyped
  BY DEF Typed, ShellTyped
<1>7. slips \subseteq slips'
  BY DEF Open, Pipe, Close, Command
<1>8. CASE Open(op)
  <2>1. UNCHANGED <<pipes, kids>>
    BY <1>8 DEF Open
  <2>2. ShellTyped' /\ FlagsTyped'
    BY <1>6, <1>8, <2>1, OpenTyped DEF ShellTyped, FlagsTyped
  <2>3. KidsInSeq'
    BY <1>6, <2>1 DEF KidsInSeq
  <2> QED BY <1>1, <1>2, <1>3, <1>5, <1>7, <2>2, <2>3 DEF Typed
<1>9. CASE Pipe(op)
  <2>1. UNCHANGED <<oflag, asked, kids>> /\ pipes' = pipes + 1
    BY <1>9 DEF Pipe
  <2>2. sfd' \in [Fds -> Thing] /\ table' \in Seq(Slot) /\ opened' \in Seq(Thing)
        /\ Len(table') = Len(opened')
    BY <1>9, PipeTyped
  <2>3. ShellTyped'
    BY <1>6, <2>1, <2>2 DEF ShellTyped
  <2>4. KidsInSeq' /\ FlagsTyped'
    BY <1>6, <2>1, FlagsStay DEF KidsInSeq, FlagsKept
  <2> QED BY <1>1, <1>2, <1>3, <1>5, <1>7, <2>3, <2>4 DEF Typed
<1>10. CASE Close(op)
  <2>1. UNCHANGED <<oflag, asked, kids, pipes, opened>>
    BY <1>10 DEF Close
  <2>2. sfd' \in [Fds -> Thing] /\ table' \in Seq(Slot) /\ Len(table') = Len(table)
    BY <1>10, CloseTyped
  <2>3. ShellTyped'
    BY <1>6, <2>1, <2>2, TableTyped DEF ShellTyped
  <2>4. KidsInSeq' /\ FlagsTyped'
    BY <1>6, <2>1, FlagsStay DEF KidsInSeq, FlagsKept
  <2> QED BY <1>1, <1>2, <1>3, <1>5, <1>7, <2>3, <2>4 DEF Typed
<1>11. CASE Command(op)
  <2>1. UNCHANGED <<oflag, asked, pipes, opened>>
    BY <1>11 DEF Command
  <2>2. /\ sfd' \in [Fds -> Thing] /\ table' \in Seq(Slot) /\ Len(table') = Len(table)
        /\ kids' \in Seq(Kid)
    BY <1>11, CommandTyped
  <2>3. ShellTyped'
    BY <1>6, <2>1, <2>2, TableTyped DEF ShellTyped
  <2>4. KidsInSeq' /\ FlagsTyped'
    BY <1>6, <2>1, <2>2, FlagsStay DEF KidsInSeq, FlagsKept
  <2> QED BY <1>1, <1>2, <1>3, <1>5, <1>7, <2>3, <2>4 DEF Typed
<1> QED BY <1>8, <1>9, <1>10, <1>11

(* Steps that read no option.                                              *)
LEMMA OtherStays ==
  ASSUME Typed,
         \/ \E c \in DOMAIN kids : Ends(c)
         \/ Collect
         \/ \E sig \in DOMAIN disp : Signal(sig)
         \/ Exit
         \/ UNCHANGED vars
  PROVE  Typed' /\ Stays /\ FlagsKept
<1>1. exit_status \in Nat /\ DOMAIN disp = {2, 11}
  BY DEF Typed
<1>2. ASSUME Stays, FlagsKept, UNCHANGED <<line, optind, disp>>, exit_status' \in Nat,
             \/ UNCHANGED mode
             \/ mode' \in [is : {"run", "wait", "pause", "exited", "caught", "killed"}, of : Int]
      PROVE  Typed' /\ Stays /\ FlagsKept
  BY <1>2, LineKept, FlagsStay, StaysTyped
<1>3. ASSUME NEW c \in DOMAIN kids, Ends(c) PROVE Typed' /\ Stays /\ FlagsKept
  <2>1. /\ UNCHANGED <<line, optind, mode, shell, oflag, signals, exit_status, opened, asked>>
        /\ slips \subseteq slips'
    BY <1>3 DEF Ends
  <2>2. Stays
    BY <1>3, <2>1, EndsTyped DEF Stays, shell, There
  <2> QED BY <1>1, <1>2, <2>1, <2>2 DEF FlagsKept, signals
<1>4. ASSUME NEW c \in DOMAIN kids, Waited(c) PROVE Typed' /\ Stays /\ FlagsKept
  <2>1. UNCHANGED <<line, optind, mode, shell, oflag, signals, history>>
    BY <1>4 DEF Waited
  <2>2. Stays
    BY <1>4, <2>1, WaitedTyped DEF Stays, shell, There, history
  <2>3. exit_status' \in Nat
    <3>1. kids[c].status \in Nat \cup {Killed}
      BY KidsTyped DEF Kid
    <3> QED BY <1>1, <1>4, <3>1 DEF Waited, Worst, WEXITSTATUS, Killed
  <2> QED BY <1>1, <1>2, <2>1, <2>2, <2>3 DEF FlagsKept, signals, history
<1>5. CASE WaitOver
  <2>1. UNCHANGED <<line, optind, shell, oflag, signals, exit_status, kids, history>>
    BY <1>5 DEF WaitOver
  <2>2. mode' \in [is : {"run", "wait", "pause", "exited", "caught", "killed"}, of : Int]
        /\ mode'.is = "run" /\ There
    BY <1>5 DEF WaitOver, There
  <2>3. Stays
    BY <2>1, <2>2 DEF Stays, shell, There, history
  <2> QED BY <1>1, <1>2, <2>1, <2>2, <2>3 DEF FlagsKept, signals, history
<1>6. CASE WaitedFor
  <2>1. UNCHANGED <<line, optind, shell, oflag, signals, exit_status, history>>
    BY <1>6 DEF WaitedFor
  <2>2. mode.is = "wait for"
    BY <1>6 DEF WaitedFor
  <2>3. mode' = [is |-> "run", of |-> 0]
    BY <1>6 DEF WaitedFor
  <2>4. There
    BY <2>2 DEF There
  <2>5. mode' \in [is : {"run", "wait", "pause", "exited", "caught", "killed"}, of : Int]
        /\ mode'.is = "run"
    BY <2>3
  <2>6. Stays
    BY <1>6, <2>1, <2>4, <2>5, WaitedForTyped DEF Stays, shell, There, history
  <2> QED BY <1>1, <1>2, <2>1, <2>5, <2>6 DEF FlagsKept, signals, history
<1>7. ASSUME NEW sig \in DOMAIN disp, Signal(sig) PROVE Typed' /\ Stays /\ FlagsKept
  <2>1. /\ UNCHANGED <<line, optind, oflag, signals, exit_status, kids, history>>
        /\ There /\ Delivered(sig)
    BY <1>7 DEF Signal
  <2>2. sig \in Int
    BY <1>1
  <2>3. /\ Stays
        /\ \/ UNCHANGED mode
           \/ mode' \in [is : {"run", "wait", "pause", "exited", "caught", "killed"}, of : Int]
    BY <2>1, <2>2, DeliveredStays DEF history
  <2> QED BY <1>1, <1>2, <2>1, <2>3 DEF FlagsKept, signals, history
<1>8. CASE Exit
  <2>1. /\ UNCHANGED <<line, optind, oflag, signals, exit_status, kids, history>>
        /\ There /\ Gone("exited", exit_status)
    BY <1>8 DEF Exit, There
  <2>2. exit_status \in Int
    BY <1>1
  <2>3. /\ Stays
        /\ mode' \in [is : {"run", "wait", "pause", "exited", "caught", "killed"}, of : Int]
    BY <2>1, <2>2, GoneStays DEF history
  <2> QED BY <1>1, <1>2, <2>1, <2>3 DEF FlagsKept, signals, history
<1>9. CASE UNCHANGED vars
  <2>1. Stays /\ FlagsKept
    BY <1>9 DEF vars, shell, signals, history, Stays, There, FlagsKept
  <2> QED BY <1>1, <1>2, <1>9, <2>1 DEF vars, signals
<1> QED BY <1>3, <1>4, <1>5, <1>6, <1>7, <1>8, <1>9 DEF Collect

(* The kinds of steps.                                                     *)
Opens ==
  \E op \in OptionsOf(line) :
    Option(op) /\ (Open(op) \/ Pipe(op) \/ Close(op) \/ Command(op))

LEMMA Steps ==
  ASSUME Typed, [Next]_vars
  PROVE  /\ Typed' /\ slips \subseteq slips'
         /\ \/ Stays /\ FlagsKept
            \/ Stays /\ \E op \in OptionsOf(line) : Flag(op)
            \/ Stays /\ "open failed" \in slips'
            \/ Opens
<1>1. CASE NextOption
  <2>1. PICK op \in OptionsOf(line) : Option(op) /\ CarryOut(op)
    BY <1>1 DEF NextOption
  <2>2. CASE Flag(op)
    BY <2>1, <2>2, FlagStays DEF Stays
  <2>3. CASE OpenFails(op)
    BY <2>1, <2>3, OpenFailsStays DEF Stays
  <2>4. CASE Open(op) \/ Pipe(op) \/ Close(op) \/ Command(op)
    BY <2>1, <2>4, OpensTyped DEF Opens
  <2>5. CASE \/ CloseRefused(op) \/ CommandRefused(op) \/ Malformed(op) \/ Quiet(op)
             \/ Wait(op) \/ WaitFor(op) \/ Abort(op) \/ Sigaction(op) \/ Pause(op)
    BY <2>1, <2>5, OptionStays DEF Stays
  <2> QED BY <2>1, <2>2, <2>3, <2>4, <2>5 DEF CarryOut
<1>2. CASE \/ \E c \in DOMAIN kids : Ends(c)
           \/ Collect
           \/ \E sig \in DOMAIN disp : Signal(sig)
           \/ Exit
           \/ UNCHANGED vars
  BY <1>2, OtherStays DEF Stays
<1> QED BY <1>1, <1>2 DEF Next

LEMMA InitTyped == Init => Typed
<1> SUFFICES ASSUME Init PROVE Typed
  OBVIOUS
<1>1. LineTyped
  <2>1. line \in Lines /\ optind = 0
    BY DEF Init
  <2>2. line.max \in Nat
    BY <2>1, LinesAssumption
  <2> QED BY <2>1, <2>2 DEF LineTyped
<1>2. ModeTyped
  BY DEF Init, ModeTyped
<1>3. sfd \in [Fds -> Thing] /\ pipes \in Nat /\ table = <<>> /\ opened = <<>>
  BY Ends3 DEF Init
<1>4. ShellTyped /\ KidsInSeq
  <2>1. kids = <<>>
    BY DEF Init
  <2> QED BY <1>3, <2>1 DEF ShellTyped, KidsInSeq
<1>5. FlagsTyped /\ exit_status \in Nat /\ DOMAIN disp = {2, 11}
  BY DEF Init, FlagsTyped
<1> QED BY <1>1, <1>2, <1>4, <1>5 DEF Typed

THEOREM TypedAlways == Spec => []Typed
<1>1. Typed /\ [Next]_vars => Typed'
  BY Steps
<1> QED BY <1>1, InitTyped, PTL DEF Spec

-----------------------------------------------------------------------------
(* The exit status: it is at every moment the worst of what was seen.      *)
Statuses == {WEXITSTATUS(kids[c].status) : c \in {d \in DOMAIN kids : kids[d].state = "waited"}}

Seen == Statuses \cup (IF slips \subseteq Untold THEN {0} ELSE {1})

WorstSoFar ==
  /\ Statuses \subseteq Nat
  /\ exit_status \in Seen /\ \A n \in Seen : n <= exit_status
  /\ mode.is = "exited" => mode.of = exit_status

NothingSeen ==
  /\ exit_status' = exit_status /\ Statuses' = Statuses
  /\ slips' \subseteq Untold <=> slips \subseteq Untold

LEMMA SameStatuses ==
  ASSUME Typed, kids' \in Seq(Kid), Len(kids') >= Len(kids),
         \A c \in 1 .. Len(kids) : kids[c].state = "waited" =>
           kids'[c].state = "waited" /\ kids'[c].status = kids[c].status,
         \A c \in 1 .. Len(kids') : kids'[c].state = "waited" =>
           c \in 1 .. Len(kids) /\ kids[c].state = "waited"
  PROVE  Statuses' = Statuses
<1>1. DOMAIN kids = 1 .. Len(kids) /\ DOMAIN kids' = 1 .. Len(kids') /\ Len(kids) \in Nat
      /\ Len(kids') \in Nat
  BY KidsTyped
<1>2. \A c \in DOMAIN kids : c \in DOMAIN kids'
  BY <1>1
<1>3. \A c \in {d \in DOMAIN kids : kids[d].state = "waited"} :
        c \in {d \in DOMAIN kids' : kids'[d].state = "waited"} /\ kids'[c].status = kids[c].status
  BY <1>1, <1>2
<1>4. \A c \in {d \in DOMAIN kids' : kids'[d].state = "waited"} :
        c \in {d \in DOMAIN kids : kids[d].state = "waited"} /\ kids'[c].status = kids[c].status
  BY <1>1
<1> QED BY <1>3, <1>4 DEF Statuses

(* Nothing told of, something refused, or a command waited for.            *)
LEMMA NothingSeenWorst ==
  ASSUME Typed, WorstSoFar, NothingSeen, mode'.is = "exited" => mode'.of = exit_status
  PROVE  WorstSoFar'
  BY DEF WorstSoFar, NothingSeen, Seen

LEMMA RefusedWorst ==
  ASSUME Typed, WorstSoFar, exit_status' = Worst(exit_status, 1), Statuses' = Statuses,
         ~(slips' \subseteq Untold), mode'.is # "exited"
  PROVE  WorstSoFar'
<1>1. exit_status \in Nat /\ Seen' = Statuses \cup {1}
  BY DEF Typed, Seen
<1>2. exit_status \in Statuses \/ exit_status \in {0, 1}
  BY DEF WorstSoFar, Seen
<1>3. \A n \in Statuses : n \in Nat /\ n <= exit_status
  BY DEF WorstSoFar, Seen
<1>4. CASE exit_status > 1
  <2>1. exit_status' = exit_status /\ exit_status \in Statuses
    BY <1>1, <1>2, <1>4 DEF Worst
  <2>2. \A n \in Seen' : n <= exit_status'
    BY <1>1, <1>3, <1>4, <2>1
  <2> QED BY <1>1, <1>3, <2>1, <2>2 DEF WorstSoFar
<1>5. CASE ~(exit_status > 1)
  <2>1. exit_status' = 1
    BY <1>5 DEF Worst
  <2>2. \A n \in Seen' : n <= exit_status'
    BY <1>1, <1>3, <1>5, <2>1
  <2> QED BY <1>1, <1>3, <2>1, <2>2 DEF WorstSoFar
<1> QED BY <1>4, <1>5

LEMMA WaitedWorst ==
  ASSUME Typed, WorstSoFar, NEW c \in DOMAIN kids, Waited(c)
  PROVE  WorstSoFar'
<1> DEFINE x == WEXITSTATUS(kids[c].status)
<1>1. /\ kids' \in Seq(Kid) /\ Len(kids') = Len(kids)
      /\ \A d \in 1 .. Len(kids) : d # c => kids'[d] = kids[d]
      /\ kids[c].state = "zombie" /\ kids'[c].state = "waited"
      /\ kids'[c].status = kids[c].status
  BY WaitedTyped DEF StatesChange
<1>2. DOMAIN kids = 1 .. Len(kids) /\ DOMAIN kids' = 1 .. Len(kids) /\ c \in 1 .. Len(kids)
  BY <1>1, KidsTyped
<1>3. Statuses' = Statuses \cup {x}
  <2>1. {d \in DOMAIN kids' : kids'[d].state = "waited"}
          = {d \in DOMAIN kids : kids[d].state = "waited"} \cup {c}
    BY <1>1, <1>2
  <2>2. \A d \in DOMAIN kids' : kids'[d].status = kids[d].status
    BY <1>1, <1>2
  <2> QED BY <2>1, <2>2 DEF Statuses
<1>4. exit_status' = Worst(exit_status, x) /\ UNCHANGED <<mode, slips>> /\ mode.is = "wait"
  BY DEF Waited, history
<1>5. x \in Nat /\ exit_status \in Nat
  <2>1. kids[c].status \in Nat \cup {Killed}
    BY <1>2, KidsTyped DEF Kid
  <2> QED BY <2>1 DEF WEXITSTATUS, Typed, Killed
<1> HIDE DEF x
<1>6. Seen' = Seen \cup {x} /\ Seen \subseteq Nat
  BY <1>3, <1>4 DEF Seen, WorstSoFar
<1>7. exit_status' \in Seen' /\ \A n \in Seen' : n <= exit_status'
  BY <1>4, <1>5, <1>6 DEF Worst, WorstSoFar
<1> QED BY <1>3, <1>4, <1>5, <1>7 DEF WorstSoFar

LEMMA WorstStep == Typed /\ WorstSoFar /\ [Next]_vars => WorstSoFar'
<1> SUFFICES ASSUME Typed, WorstSoFar, [Next]_vars PROVE WorstSoFar'
  OBVIOUS
<1>1. mode.is = "exited" => mode.of = exit_status
  BY DEF WorstSoFar
<1>2. ASSUME UNCHANGED kids PROVE Statuses' = Statuses
  BY <1>2 DEF Statuses
<1>3. ASSUME NEW op \in OptionsOf(line), Option(op), CarryOut(op) PROVE WorstSoFar'
  <2>1. mode.is = "run"
    BY <1>3 DEF Option
  <2>2. CASE Flag(op) \/ Open(op) \/ Pipe(op) \/ Close(op)
    <3>1. UNCHANGED <<kids, mode, exit_status>> /\ (slips' \subseteq Untold <=> slips \subseteq Untold)
      BY <2>2 DEF Flag, Open, Pipe, Close, Untold
    <3> QED BY <1>1, <1>2, <3>1, NothingSeenWorst DEF NothingSeen
  <2>3. CASE OpenFails(op)
    <3>1. UNCHANGED <<kids, mode>> /\ exit_status' = Worst(exit_status, 1)
          /\ ~(slips' \subseteq Untold)
      BY <2>3 DEF OpenFails, Raise, Untold
    <3> QED BY <1>2, <2>1, <3>1, RefusedWorst
  <2>4. CASE Command(op)
    <3>1. UNCHANGED <<mode, exit_status>> /\ (slips' \subseteq Untold <=> slips \subseteq Untold)
      BY <2>4 DEF Command, Untold
    <3>2. /\ kids' \in Seq(Kid) /\ Len(kids') = Len(kids) + 1
          /\ \A c \in 1 .. Len(kids) : kids'[c] = kids[c]
          /\ kids'[Len(kids) + 1].state = "live"
      BY <2>4, CommandTyped
    <3>3. Len(kids) \in Nat
      BY KidsTyped
    <3>4. \A c \in 1 .. Len(kids') : c \in 1 .. Len(kids) \/ c = Len(kids) + 1
      BY <3>2, <3>3
    <3>5. Statuses' = Statuses
      <4>1. \A c \in 1 .. Len(kids') : kids'[c].state = "waited" =>
              c \in 1 .. Len(kids) /\ kids[c].state = "waited"
        BY <3>2, <3>4
      <4>2. Len(kids') >= Len(kids)
        BY <3>2, <3>3
      <4> QED BY <3>2, <4>1, <4>2, SameStatuses
    <3> QED BY <1>1, <3>1, <3>5, NothingSeenWorst DEF NothingSeen
  <2>5. CASE \/ CloseRefused(op) \/ CommandRefused(op) \/ Malformed(op) \/ Quiet(op)
             \/ Wait(op) \/ WaitFor(op) \/ Abort(op) \/ Sigaction(op) \/ Pause(op)
    <3>1. UNCHANGED kids /\ mode'.is # "exited"
      BY <1>3, <2>5, OptionStays
    <3>2. \/ Raise /\ ~(slips' \subseteq Untold)
          \/ UNCHANGED exit_status /\ (slips' \subseteq Untold <=> slips \subseteq Untold)
      <4>1. CASE CloseRefused(op) \/ CommandRefused(op) \/ Malformed(op)
        BY <4>1 DEF CloseRefused, CommandRefused, Malformed, Complain, Untold
      <4>2. CASE WaitFor(op) \/ Sigaction(op)
        BY <4>2 DEF WaitFor, Sigaction, Complain, Untold
      <4>3. CASE Quiet(op) \/ Wait(op) \/ Abort(op) \/ Pause(op)
        BY <4>3 DEF Quiet, Wait, Abort, Pause, history
      <4> QED BY <2>5, <4>1, <4>2, <4>3
    <3>3. CASE Raise /\ ~(slips' \subseteq Untold)
      BY <1>2, <3>1, <3>3, RefusedWorst DEF Raise
    <3>4. CASE UNCHANGED exit_status /\ (slips' \subseteq Untold <=> slips \subseteq Untold)
      BY <1>1, <1>2, <3>1, <3>4, NothingSeenWorst DEF NothingSeen
    <3> QED BY <3>2, <3>3, <3>4
  <2> QED BY <1>3, <2>2, <2>3, <2>4, <2>5 DEF CarryOut
<1>4. ASSUME NEW c \in DOMAIN kids, Ends(c) PROVE WorstSoFar'
  <2>1. UNCHANGED <<mode, exit_status>> /\ (slips' \subseteq Untold <=> slips \subseteq Untold)
    BY <1>4 DEF Ends, Untold
  <2>2. /\ kids' \in Seq(Kid) /\ Len(kids') = Len(kids)
        /\ \A d \in 1 .. Len(kids) : d # c => kids'[d] = kids[d]
        /\ kids[c].state = "live" /\ kids'[c].state = "zombie" /\ Len(kids) \in Nat
    BY <1>4, EndsTyped, KidsTyped DEF StatesChange
  <2>3. Statuses' = Statuses
    BY <2>2, SameStatuses
  <2> QED BY <1>1, <2>1, <2>3, NothingSeenWorst DEF NothingSeen
<1>5. CASE WaitOver
  <2>1. UNCHANGED <<kids, exit_status, slips>> /\ mode'.is # "exited"
    BY <1>5 DEF WaitOver, history
  <2> QED BY <1>2, <2>1, NothingSeenWorst DEF NothingSeen
<1>6. CASE WaitedFor
  <2>1. UNCHANGED <<exit_status, slips>> /\ mode'.is # "exited"
    BY <1>6 DEF WaitedFor, history
  <2>2. /\ kids' \in Seq(Kid) /\ Len(kids') = Len(kids) /\ Len(kids) \in Nat
        /\ \A d \in 1 .. Len(kids) :
             /\ kids'[d].status = kids[d].status
             /\ kids'[d].state = "waited" <=> kids[d].state = "waited"
    BY <1>6, WaitedForTyped, KidsTyped DEF StatesChange
  <2>3. Statuses' = Statuses
    BY <2>2, SameStatuses
  <2> QED BY <2>1, <2>3, NothingSeenWorst DEF NothingSeen
<1>7. ASSUME NEW sig \in DOMAIN disp, Signal(sig) PROVE WorstSoFar'
  <2>1. UNCHANGED <<kids, exit_status, slips, opened>> /\ There /\ Delivered(sig) /\ sig \in Int
    BY <1>7 DEF Signal, history, Typed
  <2>2. mode'.is # "exited"
    BY <2>1, DeliveredStays
  <2> QED BY <1>2, <2>1, <2>2, NothingSeenWorst DEF NothingSeen
<1>8. CASE Exit
  <2>1. UNCHANGED <<kids, exit_status, slips>> /\ mode'.of = exit_status
    BY <1>8 DEF Exit, Gone, history
  <2> QED BY <1>2, <2>1, NothingSeenWorst DEF NothingSeen
<1>9. CASE UNCHANGED vars
  BY <1>1, <1>2, <1>9, NothingSeenWorst DEF NothingSeen, vars
<1> QED BY <1>3, <1>4, <1>5, <1>6, <1>7, <1>8, <1>9, WaitedWorst DEF Next, NextOption, Collect

(* Whatever the line, the commands and the signals: the exit status is the *)
(* worst of what the shell's --wait collected, and at least 1 if it        *)
(* refused an option, but for the two refusals of Untold (main.c:406-410,  *)
(* :519; :271-278 and :743 leave the status as it is).                     *)
THEOREM ExitTellsTheWorst == Spec => []ExitIsWorst
<1>1. Init => WorstSoFar
  <2> SUFFICES ASSUME Init PROVE WorstSoFar
    OBVIOUS
  <2>1. kids = <<>> /\ exit_status = 0 /\ slips = {} /\ mode.is = "run"
    BY DEF Init
  <2>2. Statuses = {}
    BY <2>1 DEF Statuses
  <2> QED BY <2>1, <2>2 DEF WorstSoFar, Seen
<1>2. WorstSoFar => ExitIsWorst
  BY DEF WorstSoFar, ExitIsWorst, Seen, Statuses
<1> QED BY <1>1, <1>2, WorstStep, TypedAlways, PTL DEF Spec

-----------------------------------------------------------------------------
(* Where descriptors lead.  A logical number is in use until it is closed  *)
(* or, if it is a pipe end, given to a command.                            *)
InUse(j) == ~table[j].over /\ table[j].fd # Closed

Match(a, b) == a.is = b.is /\ a.id = b.id

PipeKinds == {"read", "write"}

AllWell == "open failed" \notin slips

(* The flags put together are those of the next file.                      *)
FlagsAsAsked == AllWell => oflag.flags = asked /\ oflag.acc = 0

(* The write end of a pipe is the neighbour of its read end, and no number *)
(* is the same end as another.                                             *)
Layout ==
  \A j \in 1 .. Len(table) :
    /\ table[j].pipe <=> opened[j].is \in PipeKinds
    /\ opened[j].is \in Objects
    /\ table[j].pipe => opened[j].id \in 0 .. pipes - 1
    /\ opened[j].is = "read" =>
         j < Len(table) /\ opened[j + 1].is = "write" /\ opened[j + 1].id = opened[j].id
    /\ \A k \in 1 .. Len(table) : table[j].pipe /\ Match(opened[j], opened[k]) => j = k

(* A number in use leads to what was opened under it, by a descriptor of   *)
(* its own ...                                                             *)
Leads ==
  \A j \in 1 .. Len(table) : InUse(j) =>
    /\ Match(sfd[table[j].fd], opened[j])
    /\ AllWell => sfd[table[j].fd] = opened[j]
    /\ \A k \in 1 .. Len(table) : InUse(k) /\ table[k].fd = table[j].fd => k = j

(* ... and the shell holds a pipe end only by a number in use.             *)
Held ==
  \A n \in Fds : sfd[n].is \in PipeKinds =>
    \E j \in 1 .. Len(table) : InUse(j) /\ table[j].fd = n /\ Match(sfd[n], opened[j])

(* A command has what it was told, and a pipe end it has is used up.       *)
HasWhatItWasTold(kid) ==
  \A s \in 1 .. 3 :
    LET t == kid.told[s] + 1
    IN  /\ t \in 1 .. Len(table)
        /\ Match(kid.streams[s], opened[t])
        /\ AllWell => kid.streams[s] = opened[t]
        /\ table[t].pipe => table[t].over

(* A command that reads a pipe has the write end only as it was told.      *)
WritesWhatItReads(kid) ==
  \A k : kid.streams[1] = ReadEnd(k) /\ WriteEnd(k) \in kid.holds =>
           \E s \in {2, 3} : kid.streams[s] = WriteEnd(k)

KidsInOrder == \A c \in 1 .. Len(kids) : HasWhatItWasTold(kids[c]) /\ WritesWhatItReads(kids[c])

Orders ==
  /\ FlagsAsAsked /\ Layout
  /\ "named again" \notin slips => (There => Leads) /\ Held /\ KidsInOrder

LEMMA FlagsKeptAsAsked ==
  ASSUME Typed, FlagsAsAsked, slips \subseteq slips',
         \/ FlagsKept
         \/ \E op \in OptionsOf(line) : Flag(op) \/ Open(op)
         \/ "open failed" \in slips'
  PROVE  FlagsAsAsked'
<1>1. CASE FlagsKept
  BY <1>1 DEF FlagsAsAsked, AllWell, FlagsKept
<1>2. ASSUME NEW op, Flag(op) PROVE FlagsAsAsked'
  <2>1. /\ oflag' = [oflag EXCEPT !.flags = oflag.flags \cup {op.flag}]
        /\ asked' = asked \cup {op.flag} /\ slips' = slips
    BY <1>2 DEF Flag
  <2>2. oflag \in [flags : SUBSET Flags, acc : 0 .. 3]
    BY Zenon DEF Typed, FlagsTyped
  <2>3. oflag'.flags = oflag.flags \cup {op.flag} /\ oflag'.acc = oflag.acc
    BY <2>1, <2>2
  <2> QED BY <2>1, <2>3 DEF FlagsAsAsked, AllWell
<1>3. ASSUME NEW op, Open(op) PROVE FlagsAsAsked'
  BY <1>3 DEF FlagsAsAsked, AllWell, Open
<1>4. CASE "open failed" \in slips'
  BY <1>4 DEF FlagsAsAsked, AllWell
<1> QED BY <1>1, <1>2, <1>3, <1>4

(* The commands keep what they have when only their states change.         *)
LEMMA KidsStayInOrder ==
  ASSUME Typed, KidsInOrder, slips \subseteq slips', Len(kids') = Len(kids),
         \A c \in 1 .. Len(kids) : Same(c),
         UNCHANGED <<table, opened>>
  PROVE  KidsInOrder'
<1> SUFFICES ASSUME NEW c \in 1 .. Len(kids)
             PROVE  (HasWhatItWasTold(kids[c]) /\ WritesWhatItReads(kids[c]))'
  BY DEF KidsInOrder
<1>1. HasWhatItWasTold(kids[c]) /\ WritesWhatItReads(kids[c]) /\ Same(c)
  BY DEF KidsInOrder
<1>2. HasWhatItWasTold(kids[c])'
  BY <1>1 DEF HasWhatItWasTold, Same, AllWell, Match
<1>3. WritesWhatItReads(kids[c])'
  BY <1>1 DEF WritesWhatItReads, Same
<1> QED BY <1>2, <1>3

LEMMA StaysInOrder ==
  ASSUME Typed, Orders, Stays, FlagsAsAsked'
  PROVE  Orders'
<1>1. UNCHANGED <<table, pipes, opened>> /\ slips \subseteq slips'
  BY DEF Stays
<1>2. Layout'
  BY <1>1 DEF Orders, Layout
<1>3. ASSUME "named again" \notin slips' PROVE (There => Leads)' /\ Held' /\ KidsInOrder'
  <2>1. (There => Leads) /\ Held /\ KidsInOrder
    BY <1>1, <1>3 DEF Orders
  <2>2. ASSUME There' PROVE Leads'
    <3>1. There /\ UNCHANGED sfd
      BY <2>2 DEF Stays
    <3> QED BY <1>1, <2>1, <3>1 DEF Leads, InUse, AllWell, Match
  <2>3. Held'
    <3>1. CASE UNCHANGED sfd
      BY <1>1, <2>1, <3>1 DEF Held, InUse, Match
    <3>2. CASE sfd' = [n \in Fds |-> None]
      BY <3>2, Ends3 DEF Held, PipeKinds
    <3> QED BY <3>1, <3>2 DEF Stays
  <2>4. Len(kids') = Len(kids) /\ \A c \in 1 .. Len(kids) : Same(c)
    BY DEF Stays, StatesChange, Same
  <2>5. KidsInOrder'
    BY <1>1, <2>1, <2>4, KidsStayInOrder
  <2> QED BY <2>2, <2>3, <2>5
<1> QED BY <1>2, <1>3 DEF Orders

(* New numbers lead to what is put under descriptors that were free.       *)
Adds ==
  /\ Len(table') \in Nat /\ Len(table') >= Len(table)
  /\ \A j \in 1 .. Len(table) : table'[j] = table[j] /\ opened'[j] = opened[j]
  /\ \A n \in Fds :
       \/ sfd'[n] = sfd[n]
       \/ sfd[n] = None /\ \E j \in Len(table) + 1 .. Len(table') : table'[j].fd = n
  /\ \A j \in Len(table) + 1 .. Len(table') :
       /\ table'[j].fd \in Fds /\ sfd[table'[j].fd] = None /\ ~table'[j].over
       /\ Match(sfd'[table'[j].fd], opened'[j])
       /\ AllWell => sfd'[table'[j].fd] = opened'[j]
       /\ \A k \in Len(table) + 1 .. Len(table') : table'[k].fd = table'[j].fd => k = j
  /\ UNCHANGED <<kids, slips>>

LEMMA AddsInOrder ==
  ASSUME Typed, Adds, Layout, Leads, Held, KidsInOrder
  PROVE  Leads' /\ Held' /\ KidsInOrder'
<1> DEFINE L == Len(table)
           M == Len(table')
<1>1. L \in Nat /\ M \in Nat /\ M >= L /\ \A j \in 1 .. L : table[j] \in Slot
  BY TableTyped DEF Adds
<1>2. \A j \in 1 .. M : j \in 1 .. L \/ j \in L + 1 .. M
  BY <1>1
<1>3. AllWell' <=> AllWell
  BY DEF Adds, AllWell
<1>4. \A j \in 1 .. L : (InUse(j)' <=> InUse(j)) /\ table'[j] = table[j] /\ opened'[j] = opened[j]
  BY DEF InUse, Adds
<1>5. \A j \in 1 .. L : InUse(j) =>
        table[j].fd \in Fds /\ sfd[table[j].fd] # None /\ sfd'[table[j].fd] = sfd[table[j].fd]
  <2> SUFFICES ASSUME NEW j \in 1 .. L, InUse(j)
               PROVE  table[j].fd \in Fds /\ sfd[table[j].fd] # None
                      /\ sfd'[table[j].fd] = sfd[table[j].fd]
    OBVIOUS
  <2>1. table[j].fd \in Fds
    BY <1>1 DEF InUse, Slot
  <2>2. Match(sfd[table[j].fd], opened[j]) /\ opened[j].is \in Objects
    BY DEF Leads, Layout
  <2>3. sfd[table[j].fd] # None
    BY <2>2, Ends3 DEF Match, Objects
  <2> QED BY <2>1, <2>3 DEF Adds
<1>6. \A j \in L + 1 .. M :
        /\ table'[j].fd \in Fds /\ sfd[table'[j].fd] = None /\ ~table'[j].over
        /\ Match(sfd'[table'[j].fd], opened'[j])
        /\ AllWell => sfd'[table'[j].fd] = opened'[j]
        /\ \A k \in L + 1 .. M : table'[k].fd = table'[j].fd => k = j
  BY DEF Adds
<1>7. Leads'
  <2> SUFFICES ASSUME NEW j \in 1 .. M, InUse(j)'
               PROVE  /\ Match(sfd'[table'[j].fd], opened'[j])
                      /\ AllWell' => sfd'[table'[j].fd] = opened'[j]
                      /\ \A k \in 1 .. M : InUse(k)' /\ table'[k].fd = table'[j].fd => k = j
    BY DEF Leads, Match
  <2>1. CASE j \in 1 .. L
    <3>1. InUse(j) /\ table'[j] = table[j] /\ opened'[j] = opened[j]
      BY <1>4, <2>1
    <3>2. /\ Match(sfd'[table'[j].fd], opened'[j])
          /\ AllWell' => sfd'[table'[j].fd] = opened'[j]
      BY <1>3, <1>5, <2>1, <3>1 DEF Leads
    <3>3. \A k \in 1 .. L : InUse(k)' /\ table'[k].fd = table'[j].fd => k = j
      BY <1>4, <2>1, <3>1 DEF Leads
    <3>4. \A k \in L + 1 .. M : table'[k].fd # table'[j].fd
      BY <1>5, <1>6, <2>1, <3>1
    <3> QED BY <1>2, <3>2, <3>3, <3>4
  <2>2. CASE j \in L + 1 .. M
    <3>1. \A k \in 1 .. L : InUse(k)' => table'[k].fd # table'[j].fd
      BY <1>4, <1>5, <1>6, <2>2
    <3> QED BY <1>2, <1>3, <1>6, <2>2, <3>1
  <2> QED BY <1>2, <2>1, <2>2
<1>8. Held'
  <2> SUFFICES ASSUME NEW n \in Fds, sfd'[n].is \in PipeKinds
               PROVE  \E j \in 1 .. M : InUse(j)' /\ table'[j].fd = n /\ Match(sfd'[n], opened'[j])
    BY DEF Held, Match
  <2>1. CASE sfd'[n] = sfd[n]
    <3>1. PICK j \in 1 .. L : InUse(j) /\ table[j].fd = n /\ Match(sfd[n], opened[j])
      BY <2>1 DEF Held
    <3> QED BY <1>1, <1>4, <2>1, <3>1
  <2>2. CASE sfd'[n] # sfd[n]
    <3>1. PICK j \in L + 1 .. M : table'[j].fd = n
      BY <2>2 DEF Adds
    <3>2. InUse(j)'
      <4>1. n # Closed
        BY FdsAssumption DEF Closed
      <4> QED BY <1>6, <3>1, <4>1 DEF InUse
    <3> QED BY <1>1, <1>6, <3>1, <3>2
  <2> QED BY <2>1, <2>2
<1>9. KidsInOrder'
  <2> SUFFICES ASSUME NEW c \in 1 .. Len(kids)
               PROVE  (HasWhatItWasTold(kids[c]) /\ WritesWhatItReads(kids[c]))'
    BY DEF KidsInOrder, Adds
  <2>1. HasWhatItWasTold(kids[c]) /\ WritesWhatItReads(kids[c]) /\ kids'[c] = kids[c]
    BY DEF KidsInOrder, Adds
  <2>2. HasWhatItWasTold(kids[c])'
    <3> SUFFICES ASSUME NEW s \in 1 .. 3
                 PROVE  LET t == kids'[c].told[s] + 1
                        IN  /\ t \in 1 .. M
                            /\ Match(kids'[c].streams[s], opened'[t])
                            /\ AllWell' => kids'[c].streams[s] = opened'[t]
                            /\ table'[t].pipe => table'[t].over
      BY DEF HasWhatItWasTold, Match
    <3> DEFINE t == kids[c].told[s] + 1
    <3>1. /\ t \in 1 .. L /\ Match(kids[c].streams[s], opened[t])
          /\ AllWell => kids[c].streams[s] = opened[t]
          /\ table[t].pipe => table[t].over
      BY <2>1 DEF HasWhatItWasTold
    <3> HIDE DEF t
    <3>2. t \in 1 .. M /\ table'[t] = table[t] /\ opened'[t] = opened[t]
      BY <1>1, <1>4, <3>1
    <3> QED BY <1>3, <2>1, <3>1, <3>2 DEF t
  <2>3. WritesWhatItReads(kids[c])'
    BY <2>1 DEF WritesWhatItReads
  <2> QED BY <2>2, <2>3
<1> QED BY <1>7, <1>8, <1>9

LEMMA AddedOrders ==
  ASSUME Typed, Orders, There, Adds, Layout', FlagsAsAsked'
  PROVE  Orders'
<1>1. CASE "named again" \in slips
  BY <1>1 DEF Orders, Adds
<1>2. CASE "named again" \notin slips
  <2>1. Layout /\ Leads /\ Held /\ KidsInOrder
    BY <1>2 DEF Orders
  <2>2. Leads' /\ Held' /\ KidsInOrder'
    BY <2>1, AddsInOrder
  <2> QED BY <2>2 DEF Orders
<1> QED BY <1>1, <1>2

LEMMA OpenInOrder ==
  ASSUME Typed, Orders, NEW op \in OptionsOf(line), Option(op), Open(op)
  PROVE  Orders'
<1> DEFINE L == Len(table)
           n == LowestFree(sfd)
           file == File(op.name, oflag.flags, OrAccess(oflag.acc, op.acc))
           asTold == File(op.name, asked, op.acc)
           entry == NewEntry(n, FALSE)
<1>1. /\ n \in Fds /\ sfd[n] = None /\ sfd' = [sfd EXCEPT ![n] = file]
      /\ entry \in Slot /\ asTold \in Thing
  BY OpenTyped
<1>2. entry = [fd |-> n, pipe |-> FALSE, over |-> FALSE]
  BY DEF NewEntry
<1>3. /\ file = [is |-> "file", id |-> op.name, flags |-> oflag.flags,
                 acc |-> OrAccess(oflag.acc, op.acc)]
      /\ asTold = [is |-> "file", id |-> op.name, flags |-> asked, acc |-> op.acc]
  BY DEF File
<1>4. table' = Append(table, entry) /\ opened' = Append(opened, asTold)
      /\ UNCHANGED <<pipes, kids, slips>>
  BY DEF Open
<1>5. L \in Nat /\ table \in Seq(Slot) /\ opened \in Seq(Thing) /\ Len(opened) = L
  BY TableTyped
<1>6. AllWell => file = asTold
  <2> SUFFICES ASSUME AllWell PROVE file = asTold
    OBVIOUS
  <2>1. oflag.flags = asked /\ oflag.acc = 0
    BY DEF Orders, FlagsAsAsked
  <2>2. OrAccess(0, op.acc) = op.acc
    BY DEF OrAccess
  <2> QED BY <1>3, <2>1, <2>2
<1>7. Match(file, asTold) /\ asTold.is = "file" /\ ~entry.pipe /\ ~entry.over /\ entry.fd = n
  <2> HIDE DEF n, file, asTold, entry
  <2>1. entry.fd = n /\ entry.pipe = FALSE /\ entry.over = FALSE
    BY <1>2
  <2>2. file.is = "file" /\ asTold.is = "file" /\ file.id = op.name /\ asTold.id = op.name
    BY <1>3
  <2> QED BY <2>1, <2>2 DEF Match
<1> HIDE DEF n, file, asTold, entry, L
<1>8. /\ Len(table') = L + 1 /\ table'[L + 1] = entry /\ opened'[L + 1] = asTold
      /\ \A j \in 1 .. L : table'[j] = table[j] /\ opened'[j] = opened[j]
  BY <1>1, <1>4, <1>5, AppendProperties DEF L
<1>9. \A j \in L + 1 .. Len(table') : j = L + 1
  BY <1>5, <1>8
<1>10. \A j \in 1 .. Len(table') : j \in 1 .. L \/ j = L + 1
  BY <1>5, <1>8
<1>11. sfd \in [Fds -> Thing] /\ sfd'[n] = file
  BY <1>1, SfdTyped
<1>12. \A m \in Fds : m # n => sfd'[m] = sfd[m]
  BY <1>1, <1>11
<1>13. Adds
  <2>1. Len(table') \in Nat /\ Len(table') >= L /\ L + 1 \in L + 1 .. Len(table')
    BY <1>5, <1>8
  <2>2. \A m \in Fds :
          \/ sfd'[m] = sfd[m]
          \/ sfd[m] = None /\ \E j \in L + 1 .. Len(table') : table'[j].fd = m
    BY <1>1, <1>7, <1>8, <1>12, <2>1
  <2>3. \A j \in L + 1 .. Len(table') :
          /\ table'[j].fd \in Fds /\ sfd[table'[j].fd] = None /\ ~table'[j].over
          /\ Match(sfd'[table'[j].fd], opened'[j])
          /\ AllWell => sfd'[table'[j].fd] = opened'[j]
          /\ \A k \in L + 1 .. Len(table') : table'[k].fd = table'[j].fd => k = j
    BY <1>1, <1>6, <1>7, <1>8, <1>9, <1>11
  <2> QED BY <1>4, <1>8, <2>1, <2>2, <2>3 DEF Adds, L
<1>14. Layout'
  <2> SUFFICES ASSUME NEW j \in 1 .. Len(table')
               PROVE  /\ table'[j].pipe <=> opened'[j].is \in PipeKinds
                      /\ opened'[j].is \in Objects
                      /\ table'[j].pipe => opened'[j].id \in 0 .. pipes - 1
                      /\ opened'[j].is = "read" =>
                           /\ j < Len(table') /\ opened'[j + 1].is = "write"
                           /\ opened'[j + 1].id = opened'[j].id
                      /\ \A k \in 1 .. Len(table') :
                           table'[j].pipe /\ Match(opened'[j], opened'[k]) => j = k
    BY <1>4 DEF Layout, Match
  <2>1. CASE j = L + 1
    BY <1>7, <1>8, <2>1 DEF PipeKinds, Objects
  <2>2. CASE j \in 1 .. L
    <3>1. /\ table[j].pipe <=> opened[j].is \in PipeKinds
          /\ opened[j].is \in Objects
          /\ table[j].pipe => opened[j].id \in 0 .. pipes - 1
          /\ opened[j].is = "read" =>
               j < L /\ opened[j + 1].is = "write" /\ opened[j + 1].id = opened[j].id
          /\ \A k \in 1 .. L : table[j].pipe /\ Match(opened[j], opened[k]) => j = k
      BY <2>2 DEF Orders, Layout, L
    <3>2. j < L => j + 1 \in 1 .. L /\ j < Len(table')
      BY <1>5, <1>8, <2>2
    <3>3. table[j].pipe => ~Match(opened[j], asTold)
      BY <1>7, <3>1 DEF Match, PipeKinds
    <3> QED BY <1>8, <1>10, <2>2, <3>1, <3>2, <3>3
  <2> QED BY <1>10, <2>1, <2>2
<1>15. FlagsAsAsked' /\ There
  BY <1>4, FlagsKeptAsAsked DEF Orders, There, Option
<1> QED BY <1>13, <1>14, <1>15, AddedOrders

LEMMA PipeInOrder ==
  ASSUME Typed, Orders, NEW op \in OptionsOf(line), Option(op), Pipe(op)
  PROVE  Orders'
<1> DEFINE L == Len(table)
<1>1. PICK r, w \in Fds :
        /\ r # w /\ sfd[r] = None /\ sfd[w] = None
        /\ sfd' = [sfd EXCEPT ![r] = ReadEnd(pipes), ![w] = WriteEnd(pipes)]
        /\ table' = table \o <<NewEntry(r, TRUE), NewEntry(w, TRUE)>>
        /\ <<NewEntry(r, TRUE), NewEntry(w, TRUE)>> \in Seq(Slot)
        /\ <<ReadEnd(pipes), WriteEnd(pipes)>> \in Seq(Thing)
  BY PipeTyped
<1> DEFINE er == NewEntry(r, TRUE)
           ew == NewEntry(w, TRUE)
           re == ReadEnd(pipes)
           we == WriteEnd(pipes)
<1>2. /\ er.fd = r /\ er.pipe /\ ~er.over /\ ew.fd = w /\ ew.pipe /\ ~ew.over
      /\ re.is = "read" /\ we.is = "write" /\ re.id = pipes /\ we.id = pipes
  BY Ends3 DEF NewEntry
<1>3. /\ opened' = opened \o <<re, we>>
      /\ UNCHANGED <<kids, slips, oflag, asked>> /\ pipes' = pipes + 1
  BY DEF Pipe
<1>4. L \in Nat /\ table \in Seq(Slot) /\ opened \in Seq(Thing) /\ Len(opened) = L
      /\ pipes \in Nat
  BY TableTyped DEF Typed, ShellTyped
<1>5. sfd \in [Fds -> Thing] /\ sfd' = [sfd EXCEPT ![r] = re, ![w] = we]
  BY <1>1, SfdTyped
<1>6. table' = table \o <<er, ew>> /\ <<er, ew>> \in Seq(Slot) /\ <<re, we>> \in Seq(Thing)
  BY <1>1
<1> HIDE DEF er, ew, re, we, L
<1>7. /\ Len(table') = L + 2
      /\ table'[L + 1] = er /\ table'[L + 2] = ew /\ opened'[L + 1] = re /\ opened'[L + 2] = we
      /\ \A j \in 1 .. L : table'[j] = table[j] /\ opened'[j] = opened[j]
  <2>1. Len(<<er, ew>>) = 2 /\ <<er, ew>>[1] = er /\ <<er, ew>>[2] = ew
    OBVIOUS
  <2>2. Len(<<re, we>>) = 2 /\ <<re, we>>[1] = re /\ <<re, we>>[2] = we
    OBVIOUS
  <2>3. /\ Len(table') = L + 2 /\ table'[L + 1] = er /\ table'[L + 2] = ew
        /\ \A j \in 1 .. L : table'[j] = table[j]
    BY <1>4, <1>6, <2>1, ConcatProperties DEF L
  <2>4. /\ opened'[L + 1] = re /\ opened'[L + 2] = we
        /\ \A j \in 1 .. L : opened'[j] = opened[j]
    BY <1>3, <1>4, <1>6, <2>2, ConcatProperties
  <2> QED BY <2>3, <2>4
<1>8. \A j \in L + 1 .. Len(table') : j \in {L + 1, L + 2}
  BY <1>4, <1>7
<1>9. \A j \in 1 .. Len(table') : j \in 1 .. L \/ j = L + 1 \/ j = L + 2
  BY <1>4, <1>7
<1>10. sfd'[r] = re /\ sfd'[w] = we /\ \A m \in Fds : m # r /\ m # w => sfd'[m] = sfd[m]
  BY <1>1, <1>5
<1>11. Adds
  <2>1. /\ Len(table') \in Nat /\ Len(table') >= L
        /\ L + 1 \in L + 1 .. Len(table') /\ L + 2 \in L + 1 .. Len(table')
    BY <1>4, <1>7
  <2>2. \A m \in Fds :
          \/ sfd'[m] = sfd[m]
          \/ sfd[m] = None /\ \E j \in L + 1 .. Len(table') : table'[j].fd = m
    BY <1>1, <1>2, <1>7, <1>10, <2>1
  <2>3. \A j \in {L + 1, L + 2} :
          /\ table'[j].fd \in Fds /\ sfd[table'[j].fd] = None /\ ~table'[j].over
          /\ sfd'[table'[j].fd] = opened'[j]
    BY <1>1, <1>2, <1>7, <1>10
  <2>4. \A j, k \in {L + 1, L + 2} : table'[k].fd = table'[j].fd => k = j
    <3>1. table'[L + 1].fd = r /\ table'[L + 2].fd = w
      BY <1>2, <1>7
    <3>2. r # w
      BY <1>1
    <3> QED BY <3>1, <3>2
  <2>5. \A j \in L + 1 .. Len(table') :
          /\ table'[j].fd \in Fds /\ sfd[table'[j].fd] = None /\ ~table'[j].over
          /\ Match(sfd'[table'[j].fd], opened'[j])
          /\ AllWell => sfd'[table'[j].fd] = opened'[j]
          /\ \A k \in L + 1 .. Len(table') : table'[k].fd = table'[j].fd => k = j
    BY <1>8, <2>3, <2>4 DEF Match
  <2> QED BY <1>3, <1>7, <2>1, <2>2, <2>5 DEF Adds, L
<1>12. Layout'
  <2> SUFFICES ASSUME NEW j \in 1 .. Len(table')
               PROVE  /\ table'[j].pipe <=> opened'[j].is \in PipeKinds
                      /\ opened'[j].is \in Objects
                      /\ table'[j].pipe => opened'[j].id \in 0 .. pipes' - 1
                      /\ opened'[j].is = "read" =>
                           /\ j < Len(table') /\ opened'[j + 1].is = "write"
                           /\ opened'[j + 1].id = opened'[j].id
                      /\ \A k \in 1 .. Len(table') :
                           table'[j].pipe /\ Match(opened'[j], opened'[k]) => j = k
    BY DEF Layout, Match
  <2>1. \A k \in 1 .. L : table[k].pipe => opened[k].id \in 0 .. pipes - 1
    BY DEF Orders, Layout, L
  <2>2. \A k \in 1 .. L : table[k].pipe <=> opened[k].is \in PipeKinds
    BY DEF Orders, Layout, L
  <2>3. \A k \in 1 .. L : ~Match(opened[k], re) /\ ~Match(opened[k], we)
                          /\ ~Match(re, opened[k]) /\ ~Match(we, opened[k])
    <3> SUFFICES ASSUME NEW k \in 1 .. L, opened[k].is \in PipeKinds
                 PROVE  opened[k].id # pipes
      BY <1>2 DEF Match, PipeKinds
    <3>1. opened[k].id \in 0 .. pipes - 1
      BY <2>1, <2>2
    <3> QED BY <1>4, <3>1
  <2>4. pipes \in 0 .. pipes' - 1 /\ \A i \in 0 .. pipes - 1 : i \in 0 .. pipes' - 1
    BY <1>3, <1>4
  <2>5. CASE j = L + 1
    <3>1. j + 1 = L + 2 /\ j < Len(table')
      BY <1>4, <1>7, <2>5
    <3>2. ~Match(re, we)
      BY <1>2 DEF Match
    <3> QED BY <1>2, <1>7, <1>9, <2>3, <2>4, <2>5, <3>1, <3>2 DEF PipeKinds, Objects
  <2>6. CASE j = L + 2
    <3>1. ~Match(we, re)
      BY <1>2 DEF Match
    <3> QED BY <1>2, <1>7, <1>9, <2>3, <2>4, <2>6, <3>1 DEF PipeKinds, Objects
  <2>7. CASE j \in 1 .. L
    <3>1. /\ table[j].pipe <=> opened[j].is \in PipeKinds
          /\ opened[j].is \in Objects
          /\ table[j].pipe => opened[j].id \in 0 .. pipes - 1
          /\ opened[j].is = "read" =>
               j < L /\ opened[j + 1].is = "write" /\ opened[j + 1].id = opened[j].id
          /\ \A k \in 1 .. L : table[j].pipe /\ Match(opened[j], opened[k]) => j = k
      BY <2>7 DEF Orders, Layout, L
    <3>2. j < L => j + 1 \in 1 .. L /\ j < Len(table')
      BY <1>4, <1>7, <2>7
    <3> QED BY <1>7, <1>9, <2>3, <2>4, <2>7, <3>1, <3>2
  <2> QED BY <1>9, <2>5, <2>6, <2>7
<1>13. FlagsAsAsked' /\ There
  <2>1. FlagsKept /\ slips \subseteq slips' /\ FlagsAsAsked
    BY <1>3 DEF FlagsKept, Orders
  <2>2. There
    BY DEF There, Option
  <2> QED BY <2>1, <2>2, FlagsKeptAsAsked
<1> QED BY <1>11, <1>12, <1>13, AddedOrders

(* Numbers go out of use, and the descriptors of those are given up.       *)
Drops ==
  /\ Len(table') = Len(table) /\ UNCHANGED <<opened, pipes>> /\ slips \subseteq slips'
  /\ \A j \in 1 .. Len(table) :
       /\ table'[j].pipe = table[j].pipe
       /\ table[j].over => table'[j].over
       /\ InUse(j)' => InUse(j) /\ table'[j].fd = table[j].fd

Given ==
  /\ \A j \in 1 .. Len(table) : InUse(j)' => sfd'[table[j].fd] = sfd[table[j].fd]
  /\ \A n \in Fds : sfd'[n].is \in PipeKinds =>
       /\ sfd'[n] = sfd[n]
       /\ \A j \in 1 .. Len(table) : InUse(j) /\ table[j].fd = n => InUse(j)'

LEMMA DropsLayout == ASSUME Drops, Layout PROVE Layout'
  BY DEF Drops, Layout, Match

LEMMA DropsInOrder ==
  ASSUME Drops, Given, Layout, Leads, Held
  PROVE  Leads' /\ Held'
<1>1. Len(table') = Len(table) /\ UNCHANGED opened /\ (AllWell' => AllWell)
  BY DEF Drops, AllWell
<1>2. \A j \in 1 .. Len(table) : InUse(j)' =>
        InUse(j) /\ table'[j].fd = table[j].fd /\ sfd'[table[j].fd] = sfd[table[j].fd]
  BY DEF Drops, Given
<1>3. Leads'
  <2> SUFFICES ASSUME NEW j \in 1 .. Len(table), InUse(j)'
               PROVE  /\ Match(sfd'[table'[j].fd], opened[j])
                      /\ AllWell' => sfd'[table'[j].fd] = opened[j]
                      /\ \A k \in 1 .. Len(table) :
                           InUse(k)' /\ table'[k].fd = table'[j].fd => k = j
    BY <1>1 DEF Leads, Match
  <2>1. InUse(j) /\ table'[j].fd = table[j].fd /\ sfd'[table[j].fd] = sfd[table[j].fd]
    BY <1>2
  <2>2. /\ Match(sfd[table[j].fd], opened[j])
        /\ AllWell => sfd[table[j].fd] = opened[j]
        /\ \A k \in 1 .. Len(table) : InUse(k) /\ table[k].fd = table[j].fd => k = j
    BY <2>1 DEF Leads
  <2> QED BY <1>1, <1>2, <2>1, <2>2
<1>4. Held'
  <2> SUFFICES ASSUME NEW n \in Fds, sfd'[n].is \in PipeKinds
               PROVE  \E j \in 1 .. Len(table) :
                        InUse(j)' /\ table'[j].fd = n /\ Match(sfd'[n], opened[j])
    BY <1>1 DEF Held, Match
  <2>1. sfd'[n] = sfd[n]
    BY DEF Given
  <2>2. PICK j \in 1 .. Len(table) : InUse(j) /\ table[j].fd = n /\ Match(sfd[n], opened[j])
    BY <2>1 DEF Held
  <2>3. InUse(j)'
    BY <2>2 DEF Given
  <2> QED BY <1>2, <2>1, <2>2, <2>3
<1> QED BY <1>3, <1>4

(* The commands started before keep what they have.                        *)
LEMMA DropsKids ==
  ASSUME Typed, Drops, NEW c \in 1 .. Len(kids), HasWhatItWasTold(kids[c]),
         WritesWhatItReads(kids[c]), kids'[c] = kids[c]
  PROVE  (HasWhatItWasTold(kids[c]) /\ WritesWhatItReads(kids[c]))'
<1>1. Len(table') = Len(table) /\ UNCHANGED opened /\ (AllWell' => AllWell)
  BY DEF Drops, AllWell
<1>2. HasWhatItWasTold(kids[c])'
  <2> SUFFICES ASSUME NEW s \in 1 .. 3
               PROVE  LET t == kids[c].told[s] + 1
                      IN  /\ t \in 1 .. Len(table)
                          /\ Match(kids[c].streams[s], opened[t])
                          /\ AllWell' => kids[c].streams[s] = opened[t]
                          /\ table'[t].pipe => table'[t].over
    BY <1>1 DEF HasWhatItWasTold, Match
  <2> DEFINE t == kids[c].told[s] + 1
  <2>1. /\ t \in 1 .. Len(table) /\ Match(kids[c].streams[s], opened[t])
        /\ AllWell => kids[c].streams[s] = opened[t]
        /\ table[t].pipe => table[t].over
    BY DEF HasWhatItWasTold
  <2>2. table'[t].pipe = table[t].pipe /\ (table[t].over => table'[t].over)
    BY <2>1 DEF Drops
  <2> QED BY <1>1, <2>1, <2>2
<1>3. WritesWhatItReads(kids[c])'
  BY DEF WritesWhatItReads
<1> QED BY <1>2, <1>3

LEMMA CloseInOrder ==
  ASSUME Typed, Orders, NEW op \in OptionsOf(line), Option(op), Close(op)
  PROVE  Orders'
<1> DEFINE m == op.n + 1
           fd == table[m].fd
<1>1. /\ m \in 1 .. Len(table) /\ Len(table') = Len(table) /\ fd \in Fds
      /\ table'[m] = [fd |-> Closed, pipe |-> table[m].pipe, over |-> TRUE]
      /\ \A j \in 1 .. Len(table) : j # m => table'[j] = table[j]
      /\ \A n \in Fds : sfd'[n] = IF n = fd THEN None ELSE sfd[n]
  BY CloseTyped DEF Entry
<1>2. UNCHANGED <<opened, pipes, kids, oflag, asked>> /\ slips \subseteq slips'
      /\ (table[m].over => "named again" \in slips')
  <2>1. UsedUp(op.n) <=> table[m].over
    BY DEF UsedUp, Entry, Close, validFd
  <2> QED BY <2>1 DEF Close
<1> HIDE DEF fd, m
<1>3. table'[m].over /\ table'[m].fd = Closed /\ table'[m].pipe = table[m].pipe
  BY <1>1
<1>4. ~InUse(m)' /\ \A j \in 1 .. Len(table) : j # m => (InUse(j)' <=> InUse(j))
  BY <1>1, <1>3 DEF InUse
<1>5. Drops
  BY <1>1, <1>2, <1>3, <1>4 DEF Drops
<1>6. Layout' /\ FlagsAsAsked'
  BY <1>2, <1>5, DropsLayout, FlagsKeptAsAsked DEF Orders, FlagsKept
<1>7. ASSUME "named again" \notin slips' PROVE Leads' /\ Held' /\ KidsInOrder'
  <2>1. Leads /\ Held /\ KidsInOrder /\ Layout
    BY <1>2, <1>7 DEF Orders, Option, There
  <2>2. InUse(m)
    <3>1. fd # Closed
      BY <1>1, FdsAssumption DEF Closed
    <3> QED BY <1>2, <1>7, <3>1 DEF InUse, fd
  <2>3. \A j \in 1 .. Len(table) : InUse(j) /\ table[j].fd = fd => j = m
    BY <1>1, <2>1, <2>2 DEF Leads, fd
  <2>4. Given
    <3>1. \A j \in 1 .. Len(table) : InUse(j)' => sfd'[table[j].fd] = sfd[table[j].fd]
      <4> SUFFICES ASSUME NEW j \in 1 .. Len(table), InUse(j)'
                   PROVE  sfd'[table[j].fd] = sfd[table[j].fd]
        OBVIOUS
      <4>1. InUse(j) /\ j # m /\ table[j] \in Slot
        BY <1>4, TableTyped
      <4>2. table[j].fd # fd /\ table[j].fd \in Fds
        BY <2>3, <4>1 DEF InUse, Slot
      <4> QED BY <1>1, <4>2
    <3>2. \A n \in Fds : sfd'[n].is \in PipeKinds => sfd'[n] = sfd[n] /\ n # fd
      BY <1>1, Ends3 DEF PipeKinds
    <3>3. \A n \in Fds : n # fd =>
            \A j \in 1 .. Len(table) : InUse(j) /\ table[j].fd = n => InUse(j)'
      BY <1>4 DEF fd
    <3> QED BY <3>1, <3>2, <3>3 DEF Given
  <2>5. Leads' /\ Held'
    BY <1>5, <2>1, <2>4, DropsInOrder
  <2>6. KidsInOrder'
    BY <1>2, <1>5, <2>1, DropsKids DEF KidsInOrder
  <2> QED BY <2>5, <2>6
<1> QED BY <1>6, <1>7 DEF Orders

(* What a command gets when the numbers it is told are in use.             *)
LEMMA CommandGets ==
  ASSUME Typed, Layout, Leads, NEW m \in Nat, m + 1 \in 1 .. Len(table), InUse(m + 1)
  PROVE  /\ Dup(m) = sfd[table[m + 1].fd] /\ Match(Dup(m), opened[m + 1])
         /\ AllWell => Dup(m) = opened[m + 1]
<1>1. Match(sfd[table[m + 1].fd], opened[m + 1]) /\ opened[m + 1].is \in Objects
      /\ (AllWell => sfd[table[m + 1].fd] = opened[m + 1])
  BY DEF Leads, Layout
<1>2. sfd[table[m + 1].fd] # None
  BY <1>1, Ends3 DEF Match, Objects
<1> QED BY <1>1, <1>2 DEF Dup, Entry

Inherits(i, o, e) ==
  ({sfd[n] : n \in Fds \ ChildCloses(i, o, e)} \ {None}) \cup {Dup(i), Dup(o), Dup(e)}

LEMMA ChildWritesWhatItReads ==
  ASSUME Typed, Layout, Leads, Held, NEW i, NEW o, NEW e, NEW kid,
         \A j \in {i, o, e} : j \in Nat /\ j + 1 \in 1 .. Len(table) /\ InUse(j + 1),
         kid.streams = <<Dup(i), Dup(o), Dup(e)>>,
         kid.holds = Inherits(i, o, e)
  PROVE  WritesWhatItReads(kid)
<1> SUFFICES ASSUME NEW k, kid.streams[1] = ReadEnd(k), WriteEnd(k) \in kid.holds
             PROVE  \E s \in {2, 3} : kid.streams[s] = WriteEnd(k)
  BY DEF WritesWhatItReads
<1>1. kid.streams[1] = Dup(i) /\ kid.streams[2] = Dup(o) /\ kid.streams[3] = Dup(e)
  OBVIOUS
<1>2. /\ ReadEnd(k).is = "read" /\ ReadEnd(k).id = k
      /\ WriteEnd(k).is = "write" /\ WriteEnd(k).id = k
  BY Ends3
<1>3. i \in Nat /\ i + 1 \in 1 .. Len(table) /\ Match(Dup(i), opened[i + 1]) /\ Len(table) \in Nat
  BY CommandGets, TableTyped
<1>4. opened[i + 1].is = "read" /\ opened[i + 1].id = k
  BY <1>1, <1>2, <1>3 DEF Match
<1>5. /\ table[i + 1].pipe /\ i + 2 \in 1 .. Len(table)
      /\ opened[i + 2].is = "write" /\ opened[i + 2].id = k
  <2>1. i + 1 < Len(table) /\ opened[i + 1 + 1].is = "write" /\ opened[i + 1 + 1].id = k
    BY <1>3, <1>4 DEF Layout
  <2>2. i + 1 + 1 = i + 2 /\ i + 2 \in 1 .. Len(table)
    BY <1>3, <2>1
  <2> QED BY <1>3, <1>4, <2>1, <2>2 DEF Layout, PipeKinds
<1>6. table[i + 2].fd \in ChildCloses(i, o, e)
  <2>1. Entry(i).pipe /\ Entry(i + 1).fd = table[i + 2].fd
    <3>1. i + 1 + 1 = i + 2
      BY <1>3
    <3> QED BY <1>5, <3>1 DEF Entry
  <2> QED BY <2>1 DEF ChildCloses, Neighbour
<1>7. WriteEnd(k) \notin {sfd[n] : n \in Fds \ ChildCloses(i, o, e)}
  <2> SUFFICES ASSUME NEW n \in Fds, n \notin ChildCloses(i, o, e), sfd[n] = WriteEnd(k)
               PROVE  FALSE
    OBVIOUS
  <2>1. PICK j \in 1 .. Len(table) : table[j].fd = n /\ Match(sfd[n], opened[j])
    BY <1>2 DEF Held, PipeKinds
  <2>2. opened[j].is = "write" /\ opened[j].id = k
    BY <1>2, <2>1 DEF Match
  <2>3. table[i + 2].pipe /\ Match(opened[i + 2], opened[j])
    BY <1>5, <2>2 DEF Layout, Match, PipeKinds
  <2>4. j = i + 2
    BY <1>5, <2>3 DEF Layout
  <2> QED BY <1>6, <2>1, <2>4
<1>8. WriteEnd(k) \in {Dup(i), Dup(o), Dup(e)}
  BY <1>7 DEF Inherits
<1>9. WriteEnd(k) # Dup(i)
  BY <1>1, <1>2
<1> QED BY <1>1, <1>8, <1>9

LEMMA CommandInOrder ==
  ASSUME Typed, Orders, NEW op \in OptionsOf(line), Option(op), Command(op)
  PROVE  Orders'
<1> DEFINE i == op.i
           o == op.o
           e == op.e
           kid == Child(i, o, e, Named(table'))
           given == PipeFds(i, o, e)
<1>1. /\ \A j \in {i, o, e} : j \in Nat /\ j + 1 \in 1 .. Len(table) /\ table[j + 1].fd \in Fds
      /\ \A n \in Fds : sfd'[n] = IF n \in given THEN None ELSE sfd[n]
      /\ Len(table') = Len(table) /\ Len(kids') = Len(kids) + 1
      /\ \A c \in 1 .. Len(kids) : kids'[c] = kids[c]
      /\ kids'[Len(kids) + 1] = kid
      /\ kid.streams = <<Dup(i), Dup(o), Dup(e)>> /\ kid.told = <<i, o, e>>
      /\ kid.holds = ({sfd[n] : n \in Fds \ ChildCloses(i, o, e)} \ {None})
                       \cup {Dup(i), Dup(o), Dup(e)}
  BY CommandTyped
<1>2. UNCHANGED <<opened, pipes, oflag, asked>> /\ slips \subseteq slips'
      /\ table' = Passed(i, o, e)
      /\ \A j \in {i, o, e} : UsedUp(j) => "named again" \in slips'
  BY DEF Command
<1>3. \A n : n \in given <=> \E j \in {i, o, e} : table[j + 1].pipe /\ n = table[j + 1].fd
  BY DEF PipeFds, Entry
<1> HIDE DEF i, o, e, kid, given
<1>4. \A j \in 1 .. Len(table) :
        /\ table'[j].pipe = table[j].pipe
        /\ table'[j].fd = IF j = i + 1 /\ given # {} THEN Closed ELSE table[j].fd
        /\ table'[j].over <=> table[j].over \/ (j - 1 \in {i, o, e} /\ table[j].pipe)
  <2>1. \A j \in 1 .. Len(table) :
          /\ Passed(i, o, e)[j].pipe = table[j].pipe
          /\ Passed(i, o, e)[j].fd =
               IF j = i + 1 /\ PipeFds(i, o, e) # {} THEN Closed ELSE table[j].fd
          /\ Passed(i, o, e)[j].over <=>
               table[j].over \/ (j - 1 \in {i, o, e} /\ table[j].pipe)
    BY PassedTyped, Zenon
  <2> QED BY <1>2, <2>1, Zenon DEF given
<1>5. Drops
  BY <1>1, <1>2, <1>4 DEF Drops, InUse
<1>6. Layout' /\ FlagsAsAsked'
  BY <1>2, <1>5, DropsLayout, FlagsKeptAsAsked DEF Orders, FlagsKept
<1>7. ASSUME "named again" \notin slips' PROVE Leads' /\ Held' /\ KidsInOrder'
  <2>1. Leads /\ Held /\ KidsInOrder /\ Layout
    BY <1>2, <1>7 DEF Orders, Option, There
  <2>2. \A j \in {i, o, e} : InUse(j + 1)
    <3> SUFFICES ASSUME NEW j \in {i, o, e} PROVE InUse(j + 1)
      OBVIOUS
    <3>1. j \in Nat /\ j + 1 \in 1 .. Len(table) /\ table[j + 1].fd \in Fds /\ Len(table) \in Nat
      BY <1>1, TableTyped
    <3>2. table[j + 1].fd # Closed
      BY <3>1, FdsAssumption DEF Closed
    <3>3. ~table[j + 1].over
      <4>1. j < Len(table)
        BY <3>1
      <4>2. ~UsedUp(j)
        BY <1>2, <1>7
      <4> QED BY <4>1, <4>2 DEF UsedUp, Entry
    <3> QED BY <3>2, <3>3 DEF InUse
  <2>3. \A j \in {i, o, e} : table[j + 1].pipe => table'[j + 1].over
    <3> SUFFICES ASSUME NEW j \in {i, o, e}, table[j + 1].pipe PROVE table'[j + 1].over
      OBVIOUS
    <3>1. j \in Nat /\ j + 1 \in 1 .. Len(table)
      BY <1>1
    <3>2. (j + 1) - 1 = j
      BY <3>1
    <3> QED BY <1>4, <3>1, <3>2
  <2>4. ASSUME NEW j \in 1 .. Len(table), InUse(j)'
        PROVE  sfd'[table[j].fd] = sfd[table[j].fd]
    <3>1. InUse(j) /\ table[j].fd \in Fds
      BY <1>5, <2>4, TableTyped DEF Drops, InUse, Slot
    <3>2. ASSUME table[j].fd \in given PROVE FALSE
      <4>1. PICK m \in {i, o, e} : table[m + 1].pipe /\ table[j].fd = table[m + 1].fd
        BY <1>3, <3>2
      <4>2. j = m + 1
        BY <1>1, <2>1, <2>2, <3>1, <4>1 DEF Leads
      <4>3. table'[j].over
        BY <2>3, <4>1, <4>2
      <4> QED BY <2>4, <4>3 DEF InUse
    <3> QED BY <1>1, <3>1, <3>2
  <2>5. ASSUME NEW n \in Fds, sfd'[n].is \in PipeKinds
        PROVE  /\ sfd'[n] = sfd[n]
               /\ \A j \in 1 .. Len(table) : InUse(j) /\ table[j].fd = n => InUse(j)'
    <3>1. n \notin given /\ sfd'[n] = sfd[n]
      BY <1>1, <2>5, Ends3 DEF PipeKinds
    <3>2. ASSUME NEW j \in 1 .. Len(table), InUse(j), table[j].fd = n PROVE InUse(j)'
      <4>1. Match(sfd[n], opened[j])
        BY <2>1, <3>2 DEF Leads
      <4>2. table[j].pipe
        BY <2>1, <2>5, <3>1, <4>1 DEF Layout, Match
      <4>3. ~(j - 1 \in {i, o, e})
        <5>1. (j - 1) + 1 = j
          OBVIOUS
        <5> QED BY <1>3, <3>1, <3>2, <4>2, <5>1
      <4>4. j # i + 1
        <5>1. i \in Nat
          BY <1>1
        <5> QED BY <4>3, <5>1
      <4> QED BY <1>4, <3>2, <4>3, <4>4 DEF InUse
    <3> QED BY <3>1, <3>2
  <2>6. Leads' /\ Held'
    <3>1. Given
      BY <2>4, <2>5 DEF Given
    <3> QED BY <1>5, <2>1, <3>1, DropsInOrder
  <2>7. ASSUME NEW c \in 1 .. Len(kids'), c = Len(kids) + 1
        PROVE  (HasWhatItWasTold(kids[c]) /\ WritesWhatItReads(kids[c]))'
    <3>1. \A m \in {i, o, e} :
            /\ m + 1 \in 1 .. Len(table)
            /\ Match(Dup(m), opened[m + 1])
            /\ AllWell => Dup(m) = opened[m + 1]
            /\ table'[m + 1].pipe => table'[m + 1].over
      BY <1>1, <1>4, <2>1, <2>2, <2>3, CommandGets
    <3>2. AllWell' => AllWell
      BY <1>2 DEF AllWell
    <3>3. /\ kids'[c].streams = <<Dup(i), Dup(o), Dup(e)>> /\ kids'[c].told = <<i, o, e>>
          /\ kids'[c].holds = ({sfd[n] : n \in Fds \ ChildCloses(i, o, e)} \ {None})
                                \cup {Dup(i), Dup(o), Dup(e)}
      BY <1>1, <2>7
    <3>4. ASSUME NEW s \in 1 .. 3
          PROVE  \E m \in {i, o, e} : kids'[c].told[s] = m /\ kids'[c].streams[s] = Dup(m)
      <4>1. s \in {1, 2, 3}
        OBVIOUS
      <4> QED BY <3>3, <4>1
    <3>5. HasWhatItWasTold(kids[c])'
      <4> SUFFICES ASSUME NEW s \in 1 .. 3
                   PROVE  LET t == kids'[c].told[s] + 1
                          IN  /\ t \in 1 .. Len(table)
                              /\ Match(kids'[c].streams[s], opened[t])
                              /\ AllWell' => kids'[c].streams[s] = opened[t]
                              /\ table'[t].pipe => table'[t].over
        BY <1>1, <1>2 DEF HasWhatItWasTold, Match
      <4>1. PICK m \in {i, o, e} : kids'[c].told[s] = m /\ kids'[c].streams[s] = Dup(m)
        BY <3>4
      <4> QED BY <3>1, <3>2, <4>1
    <3>6. WritesWhatItReads(kids'[c])
      <4>1. \A j \in {i, o, e} : j \in Nat /\ j + 1 \in 1 .. Len(table) /\ InUse(j + 1)
        BY <1>1, <2>2
      <4>2. kids'[c].holds = Inherits(i, o, e)
        BY <3>3 DEF Inherits
      <4>3. kids'[c].streams = <<Dup(i), Dup(o), Dup(e)>>
        BY <3>3
      <4> QED BY <2>1, <4>1, <4>2, <4>3, ChildWritesWhatItReads
    <3>7. WritesWhatItReads(kids[c])'
      BY <3>6 DEF WritesWhatItReads
    <3> QED BY <3>5, <3>7
  <2>8. ASSUME NEW c \in 1 .. Len(kids)
        PROVE  (HasWhatItWasTold(kids[c]) /\ WritesWhatItReads(kids[c]))'
    BY <1>1, <1>5, <2>1, DropsKids DEF KidsInOrder
  <2>9. \A c \in 1 .. Len(kids') : c \in 1 .. Len(kids) \/ c = Len(kids) + 1
    BY <1>1, KidsTyped
  <2>10. KidsInOrder'
    BY <2>7, <2>8, <2>9 DEF KidsInOrder
  <2> QED BY <2>6, <2>10
<1> QED BY <1>6, <1>7 DEF Orders

LEMMA OrdersStep == Typed /\ Orders /\ [Next]_vars => Orders'
<1> SUFFICES ASSUME Typed, Orders, [Next]_vars PROVE Orders'
  OBVIOUS
<1>1. slips \subseteq slips' /\ FlagsAsAsked
  BY Steps DEF Orders
<1>2. CASE Stays /\ FlagsKept
  BY <1>1, <1>2, FlagsKeptAsAsked, StaysInOrder
<1>3. CASE Stays /\ \E op \in OptionsOf(line) : Flag(op)
  BY <1>1, <1>3, FlagsKeptAsAsked, StaysInOrder
<1>4. CASE Stays /\ "open failed" \in slips'
  BY <1>1, <1>4, FlagsKeptAsAsked, StaysInOrder
<1>5. CASE Opens
  BY <1>5, OpenInOrder, PipeInOrder, CloseInOrder, CommandInOrder DEF Opens
<1> QED BY <1>2, <1>3, <1>4, <1>5, Steps

LEMMA InitInOrder == Init => Orders
<1> SUFFICES ASSUME Init PROVE Orders
  OBVIOUS
<1>1. /\ table = <<>> /\ kids = <<>> /\ oflag = [flags |-> {}, acc |-> 0] /\ asked = {}
      /\ sfd = [n \in Fds |-> None]
  BY DEF Init
<1>2. \A j \in 1 .. Len(table) : FALSE
  BY <1>1
<1>3. \A c \in 1 .. Len(kids) : FALSE
  BY <1>1
<1>4. FlagsAsAsked
  BY <1>1 DEF FlagsAsAsked
<1>5. Held
  BY <1>1, Ends3 DEF Held, PipeKinds
<1> QED BY <1>2, <1>3, <1>4, <1>5 DEF Orders, Layout, Leads, KidsInOrder

THEOREM OrdersAlways == Spec => [](Typed /\ Orders)
  BY InitInOrder, OrdersStep, TypedAlways, PTL DEF Spec

(* Each command has as its standard streams what was opened under the      *)
(* numbers it was started with, and files have the flags and the mode of   *)
(* their own options (main.c:335-369, :492-535, :602).                     *)
THEOREM StreamsLeadAsTold == Spec => []StreamsAsTold
<1>1. Typed /\ Orders => StreamsAsTold
  <2> SUFFICES ASSUME Typed, Orders, "named again" \notin slips,
                      NEW c \in DOMAIN kids, NEW s \in 1 .. 3
               PROVE  LET is == kids[c].streams[s]
                          told == opened[kids[c].told[s] + 1]
                      IN /\ is.is = told.is /\ is.id = told.id
                         /\ "open failed" \notin slips => is = told
    BY DEF StreamsAsTold
  <2>1. c \in 1 .. Len(kids)
    BY KidsTyped
  <2>2. HasWhatItWasTold(kids[c])
    BY <2>1 DEF Orders, KidsInOrder
  <2> QED BY <2>2 DEF HasWhatItWasTold, Match, AllWell
<1> QED BY <1>1, OrdersAlways, PTL

(* A pipe end that a command has taken is held by the shell no more        *)
(* (main.c:356-368), and no command that reads a pipe has kept that pipe's *)
(* write end from the shell (main.c:340-349).                              *)
THEOREM EndsAreLetGo == Spec => []PipeEndsLetGo
<1>1. Typed /\ Orders => ShellLetsGo
  <2> SUFFICES ASSUME Typed, Orders, "named again" \notin slips,
                      NEW c \in DOMAIN kids, NEW s \in 1 .. 3,
                      kids[c].streams[s].is \in {"read", "write"},
                      NEW n \in Fds, sfd[n] = kids[c].streams[s]
               PROVE  FALSE
    BY DEF ShellLetsGo
  <2> DEFINE t == kids[c].told[s] + 1
  <2>1. c \in 1 .. Len(kids)
    BY KidsTyped
  <2>2. Layout /\ Held /\ HasWhatItWasTold(kids[c])
    BY <2>1 DEF Orders, KidsInOrder
  <2>3. /\ t \in 1 .. Len(table) /\ Match(kids[c].streams[s], opened[t])
        /\ table[t].pipe => table[t].over
    BY <2>2 DEF HasWhatItWasTold
  <2> HIDE DEF t
  <2>4. PICK j \in 1 .. Len(table) : InUse(j) /\ Match(sfd[n], opened[j])
    BY <2>2 DEF Held, PipeKinds
  <2>5. table[j].pipe /\ Match(opened[j], opened[t])
    BY <2>2, <2>3, <2>4 DEF Layout, Match, PipeKinds
  <2>6. j = t
    BY <2>2, <2>3, <2>5 DEF Layout
  <2> QED BY <2>3, <2>4, <2>5, <2>6 DEF InUse
<1>2. Typed /\ Orders => NobodyWaitsForItself
  <2> SUFFICES ASSUME Typed, Orders, "named again" \notin slips,
                      NEW c \in DOMAIN kids, NEW k \in 0 .. pipes - 1,
                      Reads(c, k), WriteEnd(k) \in kids[c].holds
               PROVE  k \in Writes(c)
    BY DEF NobodyWaitsForItself
  <2>1. c \in 1 .. Len(kids)
    BY KidsTyped
  <2>2. WritesWhatItReads(kids[c])
    BY <2>1 DEF Orders, KidsInOrder
  <2> QED BY <2>2 DEF WritesWhatItReads, Reads, Writes
<1> QED BY <1>1, <1>2, OrdersAlways, PTL DEF PipeEndsLetGo

(* No descriptor but the three standard ones is the terminal.              *)
NoTty == \A n \in Fds : sfd[n].is # "tty"

LEMMA NoTtyStep == Typed /\ NoTty /\ [Next]_vars => NoTty'
<1> SUFFICES ASSUME Typed, NoTty, [Next]_vars PROVE NoTty'
  OBVIOUS
<1>1. CASE Stays
  BY <1>1, Ends3 DEF Stays, NoTty
<1>2. ASSUME NEW op \in OptionsOf(line), Open(op) PROVE NoTty'
  <2>1. PICK n, file : n \in Fds /\ sfd' = [sfd EXCEPT ![n] = file] /\ file.is = "file"
    <3> DEFINE n == LowestFree(sfd)
               file == File(op.name, oflag.flags, OrAccess(oflag.acc, op.acc))
    <3>1. n \in Fds /\ sfd' = [sfd EXCEPT ![n] = file]
      BY <1>2, OpenTyped
    <3>2. file.is = "file"
      BY DEF File
    <3> HIDE DEF n, file
    <3> QED BY <3>1, <3>2
  <2> QED BY <2>1, SfdTyped DEF NoTty
<1>3. ASSUME NEW op \in OptionsOf(line), Pipe(op) PROVE NoTty'
  <2>1. PICK r, w \in Fds :
          sfd' = [sfd EXCEPT ![r] = ReadEnd(pipes), ![w] = WriteEnd(pipes)]
    BY <1>3, PipeTyped
  <2>2. ReadEnd(pipes).is = "read" /\ WriteEnd(pipes).is = "write"
    BY Ends3
  <2> QED BY <2>1, <2>2, SfdTyped DEF NoTty
<1>4. ASSUME NEW op \in OptionsOf(line), Close(op) \/ Command(op) PROVE NoTty'
  <2>1. \A n \in Fds : sfd'[n] \in {None, sfd[n]}
    BY <1>4, CloseTyped, CommandTyped
  <2> QED BY <2>1, Ends3 DEF NoTty
<1> QED BY <1>1, <1>2, <1>3, <1>4, Steps DEF Opens

(* The types of the shell's state, for every command line.                 *)
THEOREM TypeCorrect == Spec => []TypeOK
<1>1. Typed /\ NoTty => TypeOK
  <2> SUFFICES ASSUME Typed, NoTty PROVE TypeOK
    OBVIOUS
  <2>1. optind \in 0 .. line.max
    BY Zenon DEF Typed, LineTyped
  <2>2. mode.is \in {"run", "wait", "wait for", "pause", "exited", "caught", "killed"}
    BY DEF Typed, ModeTyped
  <2>3. \A n \in Fds : sfd[n].is \in Objects \cup {"none"}
    BY SfdTyped DEF Thing, NoTty
  <2>4. \A j \in DOMAIN table : table[j].fd \in Fds \cup {Closed}
    BY TableTyped DEF Slot
  <2>5. \A c \in DOMAIN kids : kids[c].state \in {"live", "zombie", "waited", "named"}
    BY KidsTyped DEF Kid
  <2> QED BY <2>1, <2>2, <2>3, <2>4, <2>5, TableTyped DEF TypeOK
<1>2. Init => NoTty
  BY Ends3 DEF Init, NoTty
<1> QED BY <1>1, <1>2, NoTtyStep, TypedAlways, PTL DEF Spec
=============================================================================
