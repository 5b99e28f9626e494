------------------------------- MODULE Simpsh -------------------------------
(***************************************************************************)
(* simpsh (lab1-sunnieKim/main.c): a shell whose command line is a list of *)
(* options, carried out one after the other.  Files and pipes are opened   *)
(* under logical numbers; commands are started with three of them as their *)
(* standard streams and run on while the shell reads on.  WaitFor is the   *)
(* one option that only lab1-SunnieSo_designProblem/main.c has.            *)
(*                                                                         *)
(* fork, dup2 and pipe succeed, and each pipe end is named as the stream   *)
(* it can serve (InDirection).  What the shell prints is left out.         *)
(***************************************************************************)
EXTENDS Integers, Sequences, FiniteSets

CONSTANTS
  Fds,         \* the descriptors above the three standard ones
  Lines        \* the command lines and what surrounds them: [first: the options they begin
               \* with, then: those they may go on with, max: their length, signals: whether
               \* signals arrive, statuses: the ways commands end (exit code, or Killed)]

(* The options a line may have.                                            *)
OptionsOf(l) == l.then \cup {l.first[n] : n \in DOMAIN l.first}

ASSUME FdsAssumption == Fds \subseteq Nat /\ IsFiniteSet(Fds)
ASSUME LinesAssumption ==
  \A l \in Lines :
    /\ l.max \in Nat /\ Len(l.first) \in 0 .. l.max
    /\ l.statuses \subseteq Nat \cup {-1}
    /\ \A op \in OptionsOf(l) :
         /\ op.op = "open" => op.acc \in 0 .. 2
         /\ op.op \in {"close", "wait for"} => op.n \in Nat
         /\ op.op = "command" => {op.i, op.o, op.e} \subseteq Nat

VARIABLES
  line,        \* the command line the shell was given
  optind,      \* the number of options read
  mode,        \* what the shell is doing
  sfd,         \* the kernel's table: what each of the shell's descriptors stands for
  table,       \* fd_array and fd_isPipe
  pipes,       \* the number of pipes created
  oflag,       \* flags and access mode for the next open
  ignoreAbort,
  disp,        \* the shell's signal dispositions
  exit_status,
  kids,        \* the commands started, in order (wait_info)
  opened,      \* history: what each logical number was opened as
  asked,       \* history: flags given since the last option that opens
  slips        \* history: what the user or the file system got wrong, and the shell refused

vars == <<line, optind, mode, sfd, table, pipes, oflag, ignoreAbort, disp,
          exit_status, kids, opened, asked, slips>>

shell == <<sfd, table, pipes>>
signals == <<ignoreAbort, disp>>
history == <<opened, asked, slips>>

Closed == -1
Killed == -1
None == [is |-> "none", id |-> 0, flags |-> {}, acc |-> 0]
Tty == [None EXCEPT !.is = "tty"]
PipeEnd(is, k) == [is |-> is, id |-> k, flags |-> {}, acc |-> 0]
ReadEnd(k) == PipeEnd("read", k)
WriteEnd(k) == PipeEnd("write", k)
File(name, flags, acc) == [is |-> "file", id |-> name, flags |-> flags, acc |-> acc]

(* O_RDONLY, O_WRONLY and O_RDWR are 0, 1 and 2, put together bit by bit.  *)
OrAccess(a, b) == IF a = b \/ b = 0 THEN a ELSE IF a = 0 THEN b ELSE 3

Worst(a, b) == IF a > b THEN a ELSE b
WEXITSTATUS(status) == IF status = Killed THEN 0 ELSE status

Init ==
  /\ line \in Lines
  /\ optind = 0
  /\ mode = [is |-> "run", of |-> 0]
  /\ sfd = [n \in Fds |-> None]
  /\ table = <<>>
  /\ pipes = 0
  /\ oflag = [flags |-> {}, acc |-> 0]
  /\ ignoreAbort = FALSE
  /\ disp \in [{2, 11} -> {"default"}]
  /\ exit_status = 0
  /\ kids = <<>>
  /\ opened = <<>>
  /\ asked = {}
  /\ slips = {}

-----------------------------------------------------------------------------
(* Logical numbers, from 0 up.                                             *)
Entry(j) == table[j + 1]
IsOpenAs(j, kinds) == opened[j + 1].is \in kinds

InDirection(i, o, e) ==
  /\ i < Len(opened) => IsOpenAs(i, {"file", "read"})
  /\ \A j \in {o, e} : j < Len(opened) => IsOpenAs(j, {"file", "write"})

validFd(j) == j < Len(table) /\ Entry(j).fd # Closed

(* A number whose descriptor the shell has given up: closed, or a pipe end *)
(* that a command already has.                                             *)
UsedUp(j) == j < Len(table) /\ Entry(j).over

LowestFree(t) == CHOOSE n \in Fds : t[n] = None /\ \A m \in Fds : t[m] = None => n <= m
Take(t, what) == [t EXCEPT ![LowestFree(t)] = what]
Release(t, numbers) == [n \in Fds |-> IF n \in numbers THEN None ELSE t[n]]
Free(t) == Cardinality({n \in Fds : t[n] = None})

(* getopt_long: the next option of the line.                               *)
Option(op) ==
  /\ mode.is = "run"
  /\ IF optind < Len(line.first)
     THEN op = line.first[optind + 1]
     ELSE optind < line.max /\ op \in line.then
  /\ optind' = optind + 1
  /\ UNCHANGED line

(* What has been closed or given to a command, by a table.                 *)
Named(t) == {opened[j] : j \in {n \in DOMAIN t : t[n].over}}

(* What the shell does with an option it refuses: it prints an error,      *)
(* which slips records, and most often raises the exit status as well.     *)
Complain(op) == slips' = slips \cup {op.op}
Raise == exit_status' = Worst(exit_status, 1)

-----------------------------------------------------------------------------
(* Files and pipes.                                                        *)
Flag(op) ==
  /\ op.op = "flag"
  /\ oflag' = [oflag EXCEPT !.flags = @ \cup {op.flag}]
  /\ asked' = asked \cup {op.flag}
  /\ UNCHANGED <<mode, shell, signals, exit_status, kids, opened, slips>>

NewEntry(n, isPipe) == [fd |-> n, pipe |-> isPipe, over |-> FALSE]

(* Fault: the flags stay set for the next file.                            *)
OpenKeepsFlags(op) ==
  /\ op.op = "open"
  /\ Free(sfd) > 0
  /\ LET acc == OrAccess(oflag.acc, op.acc)
         file == File(op.name, oflag.flags, acc)
     IN /\ sfd' = Take(sfd, file)
        /\ table' = Append(table, NewEntry(LowestFree(sfd), FALSE))
  /\ opened' = Append(opened, File(op.name, asked, op.acc))
  /\ asked' = {}
  /\ UNCHANGED <<mode, pipes, oflag, signals, exit_status, kids, slips>>

(* A file that is opened; the kernel gives it the lowest free descriptor.  *)
Open(op) ==
  /\ op.op = "open"
  /\ Free(sfd) > 0
  /\ LET acc == OrAccess(oflag.acc, op.acc)
         file == File(op.name, oflag.flags, acc)
     IN /\ sfd' = Take(sfd, file)
        /\ table' = Append(table, NewEntry(LowestFree(sfd), FALSE))
  /\ oflag' = [flags |-> {}, acc |-> 0]
  /\ opened' = Append(opened, File(op.name, asked, op.acc))
  /\ asked' = {}
  /\ UNCHANGED <<mode, pipes, signals, exit_status, kids, slips>>

(* open fails: no logical number is used, and oflag stays as it is.        *)
OpenFails(op) ==
  /\ op.op = "open"
  /\ oflag' = [oflag EXCEPT !.acc = OrAccess(@, op.acc)]
  /\ Raise
  /\ asked' = {}
  /\ slips' = slips \cup {"open failed"}
  /\ UNCHANGED <<mode, shell, signals, kids, opened>>

Pipe(op) ==
  /\ op.op = "pipe"
  /\ Free(sfd) > 1
  /\ LET r == LowestFree(sfd)
         withReader == Take(sfd, ReadEnd(pipes))
         w == LowestFree(withReader)
     IN /\ sfd' = Take(withReader, WriteEnd(pipes))
        /\ table' = table \o <<NewEntry(r, TRUE), NewEntry(w, TRUE)>>
  /\ pipes' = pipes + 1
  /\ opened' = opened \o <<ReadEnd(pipes), WriteEnd(pipes)>>
  /\ UNCHANGED <<mode, oflag, signals, exit_status, kids, asked, slips>>

Close(op) ==
  /\ op.op = "close"
  /\ validFd(op.n)
  /\ sfd' = Release(sfd, {Entry(op.n).fd})
  /\ table' = [table EXCEPT ![op.n + 1] = [fd |-> Closed, pipe |-> @.pipe, over |-> TRUE]]
  /\ slips' = IF UsedUp(op.n) THEN slips \cup {"named again"} ELSE slips
  /\ UNCHANGED <<mode, pipes, oflag, signals, exit_status, kids, opened, asked>>

CloseRefused(op) ==
  /\ op.op = "close"
  /\ ~validFd(op.n)
  /\ Raise /\ Complain(op)
  /\ UNCHANGED <<mode, shell, oflag, signals, kids, opened, asked>>

-----------------------------------------------------------------------------
(* --command i o e.                                                        *)

(* Fault: a child closes what it has duplicated, and nothing else.         *)
NeighbourStays(j, step) == {}

Neighbour(j, step) == IF Entry(j).pipe THEN {Entry(j + step).fd} ELSE {}

(* What the child closes after dup2: the other ends of its pipes, and the  *)
(* three descriptors it has duplicated.                                    *)
ChildCloses(i, o, e) ==
  Neighbour(i, 1) \cup Neighbour(o, -1) \cup Neighbour(e, -1)
    \cup {Entry(j).fd : j \in {i, o, e}}

(* dup2 of a descriptor that stands for nothing leaves the inherited one.  *)
Dup(j) == LET what == sfd[Entry(j).fd] IN IF what = None THEN Tty ELSE what

(* The fields told and named are histories: named are the pipe ends that   *)
(* had been given to commands, or closed, when this one was started.       *)
Child(i, o, e, named) ==
  LET streams == <<Dup(i), Dup(o), Dup(e)>>
      kept == {sfd[n] : n \in Fds \ ChildCloses(i, o, e)} \ {None}
  IN [state |-> "live", streams |-> streams,
      holds |-> kept \cup {streams[1], streams[2], streams[3]},
      status |-> 0, told |-> <<i, o, e>>, named |-> named]

(* Fault: only the input is looked at.                                     *)
PipeFdsIn(i, o, e) == {Entry(j).fd : j \in {n \in {i} : Entry(n).pipe}}

PipeFds(i, o, e) == {Entry(j).fd : j \in {n \in {i, o, e} : Entry(n).pipe}}

(* The shell closes the pipe ends it has passed on, but marks fd_array[i]  *)
(* as closed whichever of the three was a pipe.                            *)
Passed(i, o, e) ==
  [j \in DOMAIN table |->
     [fd |-> IF j = i + 1 /\ PipeFds(i, o, e) # {} THEN Closed ELSE table[j].fd,
      pipe |-> table[j].pipe,
      over |-> table[j].over \/ (j - 1 \in {i, o, e} /\ table[j].pipe)]]

Command(op) ==
  /\ op.op = "command"
  /\ InDirection(op.i, op.o, op.e)
  /\ validFd(op.i) /\ validFd(op.o) /\ validFd(op.e)
  /\ sfd' = Release(sfd, PipeFds(op.i, op.o, op.e))
  /\ table' = Passed(op.i, op.o, op.e)
  /\ kids' = Append(kids, Child(op.i, op.o, op.e, Named(table')))
  /\ slips' = IF \E j \in {op.i, op.o, op.e} : UsedUp(j)
              THEN slips \cup {"named again"} ELSE slips
  /\ UNCHANGED <<mode, pipes, oflag, signals, exit_status, opened, asked>>

CommandRefused(op) ==
  /\ op.op = "command"
  /\ InDirection(op.i, op.o, op.e)
  /\ ~(validFd(op.i) /\ validFd(op.o) /\ validFd(op.e))
  /\ Raise /\ Complain(op)
  /\ UNCHANGED <<mode, shell, oflag, signals, kids, opened, asked>>

(* Arguments missing or no numbers, and an option the shell does not know. *)
(* An error is printed every time, but the exit status stays as it is when *)
(* a --command has not three numbers (:271-278) and when getopt_long does  *)
(* not know the option (:743).                                             *)
Malformed(op) ==
  /\ op.op \in {"command without name", "command without numbers", "number expected",
                "unknown option"}
  /\ Complain(op)
  /\ IF op.op \in {"command without numbers", "unknown option"}
     THEN UNCHANGED exit_status
     ELSE Raise
  /\ UNCHANGED <<mode, shell, oflag, signals, kids, opened, asked>>

Quiet(op) ==
  /\ op.op \in {"verbose", "profile"}
  /\ UNCHANGED <<mode, shell, oflag, signals, exit_status, kids, history>>

-----------------------------------------------------------------------------
(* Commands as they run.                                                   *)
Live == {c \in DOMAIN kids : kids[c].state = "live"}

Holds(what) == (\E n \in Fds : sfd[n] = what) \/ (\E c \in Live : what \in kids[c].holds)

Reads(c, k) == kids[c].streams[1] = ReadEnd(k)
Writes(c) == {k \in 0 .. pipes - 1 : \E s \in {2, 3} : kids[c].streams[s] = WriteEnd(k)}

(* The pipes that never fill up: nobody can read them any more, so that a  *)
(* writer is ended by the kernel, or a reader goes on reading.  A reader   *)
(* that itself writes into a full pipe does not.                           *)
Drained ==
  LET f[n \in Nat] ==
        IF n = 0 THEN {k \in 0 .. pipes - 1 : ~Holds(ReadEnd(k))}
        ELSE {k \in 0 .. pipes - 1 :
                \/ k \in f[n - 1]
                \/ \E c \in Live : Reads(c, k) /\ Writes(c) \subseteq f[n - 1]}
  IN f[pipes]

InputGoesOn(c) == \E k \in 0 .. pipes - 1 : Reads(c, k) /\ Holds(WriteEnd(k))

(* A command is bound to end once its input has come to its end and its    *)
(* output finds room; nothing is known of one that reads the terminal.     *)
MustEnd(c) ==
  /\ kids[c].streams[1] # Tty
  /\ ~InputGoesOn(c)
  /\ Writes(c) \subseteq Drained

(* It may end before that as well: exec fails, it has read enough, ...     *)
Ends(c) ==
  /\ c \in Live
  /\ slips' = IF InputGoesOn(c) THEN slips \cup {"stopped reading"} ELSE slips
  /\ \E status \in line.statuses :
       kids' = [kids EXCEPT ![c].state = "zombie", ![c].status = status]
  /\ UNCHANGED <<line, optind, mode, shell, oflag, signals, exit_status, opened, asked>>

-----------------------------------------------------------------------------
(* Waiting.                                                                *)
Wait(op) ==
  /\ op.op = "wait"
  /\ mode' = [is |-> "wait", of |-> 0]
  /\ UNCHANGED <<shell, oflag, signals, exit_status, kids, history>>

(* Fault: the last status instead of the worst.                            *)
WaitedLast(c) ==
  /\ mode.is = "wait"
  /\ kids[c].state = "zombie"
  /\ kids' = [kids EXCEPT ![c].state = "waited"]
  /\ exit_status' = WEXITSTATUS(kids[c].status)
  /\ UNCHANGED <<line, optind, mode, shell, oflag, signals, history>>

(* waitpid(0, ...) returns some command that has ended.                    *)
Waited(c) ==
  /\ mode.is = "wait"
  /\ kids[c].state = "zombie"
  /\ kids' = [kids EXCEPT ![c].state = "waited"]
  /\ exit_status' = Worst(exit_status, WEXITSTATUS(kids[c].status))
  /\ UNCHANGED <<line, optind, mode, shell, oflag, signals, history>>

(* ... and -1 when no command is left.                                     *)
WaitOver ==
  /\ mode.is = "wait"
  /\ \A c \in DOMAIN kids : kids[c].state \in {"waited", "named"}
  /\ mode' = [is |-> "run", of |-> 0]
  /\ UNCHANGED <<line, optind, shell, oflag, signals, exit_status, kids, history>>

(* --wait n of the design problem.  Text that is no number counts as 0.    *)
(* The exit status of the command is printed and not kept.                 *)
WaitFor(op) ==
  /\ op.op = "wait for"
  /\ mode' = IF op.n < Len(kids) THEN [is |-> "wait for", of |-> op.n + 1] ELSE mode
  /\ IF op.text \/ op.n >= Len(kids)
     THEN Raise /\ Complain(op)
     ELSE UNCHANGED <<exit_status, slips>>
  /\ UNCHANGED <<shell, oflag, signals, kids, opened, asked>>

(* A command already waited for makes waitpid return -1 at once.           *)
WaitedFor ==
  /\ mode.is = "wait for"
  /\ kids[mode.of].state # "live"
  /\ kids' = [kids EXCEPT ![mode.of].state = IF @ = "zombie" THEN "named" ELSE @]
  /\ mode' = [is |-> "run", of |-> 0]
  /\ UNCHANGED <<line, optind, shell, oflag, signals, exit_status, history>>

-----------------------------------------------------------------------------
(* Signals, and the end.  When the shell is gone the kernel has closed     *)
(* what it held.                                                           *)
Gone(how, code) ==
  /\ mode' = [is |-> how, of |-> code]
  /\ sfd' = Release(sfd, Fds)
  /\ UNCHANGED <<table, pipes>>

(* catch_handler ends the shell with the signal's number.                  *)
Delivered(sig) ==
  CASE disp[sig] = "catch"   -> Gone("caught", sig)
    [] disp[sig] = "default" -> Gone("killed", sig)
    [] OTHER                 -> UNCHANGED <<mode, shell>>

Abort(op) ==
  /\ op.op = "abort"
  /\ IF ignoreAbort THEN UNCHANGED <<mode, shell>> ELSE Delivered(11)
  /\ UNCHANGED <<oflag, signals, exit_status, kids, history>>

(* --catch, --ignore and --default.  Only --ignore touches ignoreAbort.    *)
Sigaction(op) ==
  /\ op.op \in {"catch", "ignore", "default"}
  /\ IF op.sig \in DOMAIN disp
     THEN disp' = [disp EXCEPT ![op.sig] = op.op] /\ UNCHANGED <<exit_status, slips>>
     ELSE Raise /\ Complain(op) /\ UNCHANGED disp
  /\ ignoreAbort' = (ignoreAbort \/ (op.op = "ignore" /\ op.sig = 11))
  /\ UNCHANGED <<mode, shell, oflag, kids, opened, asked>>

Pause(op) ==
  /\ op.op = "pause"
  /\ mode' = [is |-> "pause", of |-> 0]
  /\ UNCHANGED <<shell, oflag, signals, exit_status, kids, history>>

There == mode.is \in {"run", "wait", "wait for", "pause"}

(* A signal from outside.  No handler returns, so that pause does not.     *)
Signal(sig) ==
  /\ There /\ line.signals
  /\ disp[sig] # "ignore"
  /\ Delivered(sig)
  /\ UNCHANGED <<line, optind, oflag, signals, exit_status, kids, history>>

Exit ==
  /\ mode.is = "run"
  /\ optind >= Len(line.first)
  /\ Gone("exited", exit_status)
  /\ UNCHANGED <<line, optind, oflag, signals, exit_status, kids, history>>

-----------------------------------------------------------------------------
CarryOut(op) ==
  \/ Flag(op) \/ Open(op) \/ OpenFails(op) \/ Pipe(op)
  \/ Close(op) \/ CloseRefused(op)
  \/ Command(op) \/ CommandRefused(op) \/ Malformed(op) \/ Quiet(op)
  \/ Wait(op) \/ WaitFor(op)
  \/ Abort(op) \/ Sigaction(op) \/ Pause(op)

NextOption ==
  \E op \in OptionsOf(line) : Option(op) /\ CarryOut(op)

Collect == \/ \E c \in DOMAIN kids : Waited(c)
           \/ WaitOver
           \/ WaitedFor

Next ==
  \/ NextOption
  \/ \E c \in DOMAIN kids : Ends(c)
  \/ Collect
  \/ \E sig \in DOMAIN disp : Signal(sig)
  \/ Exit

(* Bound: more commands than any line of Lines can start.                  *)
MaxKids == 8

(* The shell, waiting, is scheduled, and a command that is bound to end    *)
(* ends; the next option need not follow, nor a command end early.         *)
Fairness ==
  /\ WF_vars(Collect)
  /\ \A c \in 1 .. MaxKids : WF_vars(c \in DOMAIN kids /\ MustEnd(c) /\ Ends(c))

Spec == Init /\ [][Next]_vars /\ Fairness

-----------------------------------------------------------------------------
Objects == {"file", "read", "write"}

TypeOK ==
  /\ optind \in 0 .. line.max
  /\ mode.is \in {"run", "wait", "wait for", "pause", "exited", "caught", "killed"}
  /\ \A n \in Fds : sfd[n].is \in Objects \cup {"none"}
  /\ \A j \in DOMAIN table : table[j].fd \in Fds \cup {Closed}
  /\ Len(table) = Len(opened)
  /\ \A c \in DOMAIN kids : kids[c].state \in {"live", "zombie", "waited", "named"}

(* Each command has as its standard streams what was opened under the      *)
(* numbers it was started with, although descriptors are closed and their  *)
(* numbers given out again all the while (main.c:335-369, :602), and files *)
(* have the flags and the mode of their own options (main.c:492-535).      *)
(* There are two exceptions: a pipe end named that another command already *)
(* had, and a failed open, whose flags go to the next file (main.c:520).   *)
StreamsAsTold ==
  "named again" \notin slips =>
    \A c \in DOMAIN kids : \A s \in 1 .. 3 :
      LET is == kids[c].streams[s]
          told == opened[kids[c].told[s] + 1]
      IN /\ is.is = told.is /\ is.id = told.id
         /\ "open failed" \notin slips => is = told

(* A pipe end that a command has taken is held by the shell no more        *)
(* (main.c:356-368), unless a line has named one that was already gone ... *)
ShellLetsGo ==
  "named again" \notin slips =>
    \A c \in DOMAIN kids : \A s \in 1 .. 3 :
      kids[c].streams[s].is \in {"read", "write"} =>
        \A n \in Fds : sfd[n] # kids[c].streams[s]

(* ... and no command that reads a pipe has kept that pipe's write end     *)
(* from the shell (main.c:340-349), which would make it wait for itself.   *)
NobodyWaitsForItself ==
  "named again" \notin slips =>
    \A c \in DOMAIN kids, k \in 0 .. pipes - 1 :
      Reads(c, k) /\ WriteEnd(k) \in kids[c].holds => k \in Writes(c)

(* So that a reader can see the end of its data: of the write end's        *)
(* holders neither the shell nor the reader is one.                        *)
PipeEndsLetGo == ShellLetsGo /\ NobodyWaitsForItself

(* What the exit status does not tell of: the shell has printed an error   *)
(* and forgotten it, or did not notice.                                    *)
Untold == {"command without numbers", "unknown option", "named again", "stopped reading"}

(* The shell's exit status is the worst WEXITSTATUS of the commands that a *)
(* --wait collected, and at least 1 if the shell refused an option, or a   *)
(* file did not open (main.c:406-410, :519), whatever order these came in. *)
(* It does not tell of every refusal: a --command without three numbers    *)
(* (:271-278) and an unknown option (:743) leave it as it is.  Nor does    *)
(* zero mean that every command did well: one that a signal killed counts  *)
(* as 0 (:406), and one that no --wait collected does not count.           *)
ExitIsWorst ==
  mode.is = "exited" =>
    LET seen == {WEXITSTATUS(kids[c].status) : c \in {d \in DOMAIN kids : kids[d].state = "waited"}}
                  \cup (IF slips \subseteq Untold THEN {0} ELSE {1})
    IN mode.of \in seen /\ \A n \in seen : n <= mode.of

(* The write end of a pipe is used, or closed, before a command that reads *)
(* it is started, and no read end is left over.                            *)
Orderly ==
  /\ "named again" \notin slips
  /\ \A c \in DOMAIN kids, k \in 0 .. pipes - 1 :
       Reads(c, k) => WriteEnd(k) \in kids[c].named /\ k \notin Writes(c)
  /\ \A k \in 0 .. pipes - 1 : ReadEnd(k) \in Named(table)

(* --wait comes to an end when the commands were given in the order of the *)
(* data and each reads its input to the end, although a command inherits   *)
(* ends of the pipes of others (main.c:340-349).  Given in the opposite    *)
(* order, they may keep each other's pipes open and all wait for ever; and *)
(* if the last one stops early, the first, which holds the read end of a   *)
(* pipe it has nothing to do with, keeps the one between from being ended. *)
WaitReturns ==
  (mode.is = "wait" /\ Orderly) ~> (mode.is # "wait" \/ "stopped reading" \in slips)
=============================================================================
