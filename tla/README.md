# Verification of the CS111 labs

TLA+ models, TLC runs and TLAPS proofs for the programs of this repository.
The repository is a term of operating-systems labs; it is not one program but
five systems that do not call each other. What they share is the subject:
processes, threads, schedulers and files, all of which go wrong in orders of
events that a test seldom produces.

    tlc -config MCMpos.cfg MCMpos.tla        a run (all are listed below)
    tlapm MposProofs.tla                     the proofs of a module

`PROJECT.json` maps every definition to the source lines it stands for, and
lists the runs, the mutated definitions that show each property can fail, the
hazards and the theorems.

## Inventory

| Part | Source | State it keeps | Operations | Modules |
|---|---|---|---|---|
| MiniprocOS kernel | `weensyos1-sunnie/mpos-kern.c` | process table: state, saved registers, exit status, `p_waitOn`; `current`; the stacks | `sys_getpid`, `fork`, `yield`, `exit`, `wait`, `kill`, `newthread`; `schedule()` | `Mpos`, `MposProofs` |
| MiniprocOS applications | `mpos-app.c`, `mpos-app2.c` | locals on the stack, `counter` | start, fork children, wait for them | `MposApps`, `MposProofs` |
| SchedOS kernel | `weensyos2/schedos-kern.c` | process table: state, priority, share, share count; `cursorpos` | clock interrupt, `sys_yield`, `exit`, `priority`, `share`, `print`; four algorithms | `SchedOS`, `SchedOSProofs` |
| SchedOS applications | `schedos-1.c` to `-4.c` | none | print, yield, exit | calls of `SchedOS` |
| addtest | `lab4/addtest.c` | a shared counter, a mutex, a spin lock | add and subtract in four ways | `AddTest`, `AddTestProofs`, `Tally` |
| sltest | `lab4/sltest.c` | doubly linked lists with a lock each, a lock for the length | insert, length, lookup, delete | `SortedList`, `SortedListProofs`, `ListPool`, `ListPoolProofs` |
| OSPFS | `lab3/ospfsmod.c` | the disk: bitmap, inodes, blocks; open files | lookup, create, link, symlink, unlink, readdir, write, truncate, read | `OspfsDisk`, `Ospfs`, `OspfsProofs` |
| ospfsformat | `lab3/ospfsformat.c` | block cache, next block, next inode, hard links | read the host tree entry by entry, store blocks, write the bitmap, flush | `BlockCache`, `OspfsFormat`, `OspfsFormatProofs`, `OspfsImage` |
| simpsh | `lab1-sunnieKim/main.c`, and a variant in `lab1-SunnieSo_designProblem` | the kernel's descriptors, `fd_array`, `oflag`, children, signal dispositions, exit status | one per option; commands end; signals arrive | `Simpsh`, `SimpshProofs` |
| machine layers, loaders, build files, scripts, texts | the rest | - | - | not modelled |

How the parts interact: the MiniprocOS applications act on their kernel by
interrupts, so `MposApps` extends `Mpos` and each of its actions conjoins a
kernel action. SchedOS is called by processes and by the clock. The threads of
addtest and sltest share memory. OSPFS is called back by Linux on behalf of
several processes; its callbacks do not sleep except while copying from or to
user memory. The disk it mounts is what `ospfsformat` wrote, so `OspfsImage`
composes the two. simpsh acts on its commands through the descriptors they
inherit, and waits for them.

What is hard, and where the properties come from:

- *MiniprocOS*: a wake-up that gets lost between `wait`, `exit` and `kill`;
  a status handed out twice or never; an entry reused too early; a process
  that goes on after its death; two processes on one stack; a scheduler that
  passes somebody over, or stops although somebody could run.
- *SchedOS*: a clock interrupt between any two instructions; a priority or
  share changed by the process that runs; cycles of shares that never end or
  give somebody too much; nobody left to run.
- *addtest*: lost updates; a lock not released; the `int` in which
  compare-and-swap keeps a `long long`.
- *sltest*: races of insertions and deletions pointer by pointer; the length
  of several lists at one moment; many locks taken at once; the lookup that
  takes the wrong element.
- *OSPFS*: a block with two owners or none over long sequences of calls;
  growing that fails half-way; names and link counts; two writers of a file
  that is truncated, unlinked or reused between looking a block up and copying
  into it; a listing in several calls while names come and go.
- *ospfsformat*: pointers into cached blocks across calls that may evict them;
  the cache at its limit; blocks beyond the direct and the indirect ones; hard
  links of the host and of equal contents.
- *simpsh*: pipe ends held open by shell and children, so that a reader and
  `--wait` never see the end; closed descriptors that stay in the table and
  are taken for others; flags that carry over; an exit status that must be the
  worst of many.

The full list, each at its line, is under "hazards" in `PROJECT.json`.

## Modules

**Mpos.** `p_state`, `p_exit_status`, `p_waitOn` and `current` are the
kernel's own. Of the saved registers two are kept: `eax`, which carries
arguments and results, and `stack`, the number of the stack region `%esp`
points into (region p belongs to pid p). `cpu` says whether a process runs, or
`schedule()` spins, or the machine is lost in an unknown interrupt ("hang") or
a copy over memory that is no stack ("wild"). The kernel is entered with
interrupts off and on one processor, so a whole interrupt up to `run()` is one
action: `Fork`, `NewThread`, `Yield`, `Exit`, `Wait` (with its three outcomes),
`Kill`, `GetPid`, `UserInterrupt`. `Schedule` is the loop of `schedule()`; it
is part of the actions whose handler calls it. The application is any sequence
of calls; which calls it has is chosen at the start (`calls`, one of the sets in
the constant `Programs`).

**MposApps.** The two programs on that kernel. `pc` is the place in the
program, `frame[r]` are the locals in stack region r, so a child shares nothing
with its parent exactly if `copy_stack` works. Sizes are those of the source.

**SchedOS.** The process table, the algorithm (a constant of the program, so
chosen in `Init`), `cpu` as above, the list of who printed the characters on
the console, and the history variable `quanta`. `Reschedule` is the clock or
`sys_yield`. `Dispatch` is `run()`; the entry past the end of `proc_array`,
which algorithms 1 and 3 dispatch when nobody is runnable, is "wild". At boot
`schedule()` reads `current->p_pid` through a null pointer (`:264`): the word is
any of `FirstWords`, which the theorems leave to be any integers. `Boot` follows
it through the searches of algorithms 0 and 2 (`StartOf` has the remainder that C
computes) and the charge of algorithm 3 (`ChargesOne`, `ChargesNobody`). A word
outside the table may besides make the kernel use memory outside it
(`LeavesTable`); that is the outcome "stray", where the model stops.

**AddTest, Tally.** One action per access to shared memory. `sync` is the
`--sync` option. A mutex and a spin lock have the same shape. `ToInt` is the
truncation to the `int` `orig`, with a width that the runs make small. `Tally`
is what the counter promises: an integer to which operations are applied one
at a time.

**SortedList, ListPool.** `next` and `prev` are the pointers; each action is
one access to them, with the program counter of the thread. `segv` marks that
a null pointer was followed. A list that a race has tied into a knot makes
`SortedList_length` loop for ever: the count stops at `CountMax`. `ListPool`
is what the program relies on: indivisible operations on sets, in which a
lookup takes *any* element of the list (what the code's lookup does).

**OspfsDisk.** The functions on the disk that run without sleeping, as
operators from the disk found to `Returns(value, disk left)`. Sizes are in
words of 4 bytes, a block holds `NINDIRECT` of them, and a directory entry is
one word instead of 32. `BlockNo` is `ospfs_inode_blockno`; `AddBlock` and
`RemoveBlock` have the three cases of the code, including what it does beyond
the first indirect block; `GrowTo` and `ShrinkTo` are the loops of
`change_size`. `wild` marks that memory outside the disk was used. There the
model stops (`Sane`).

**Ospfs.** The callbacks: `Truncate`, `Create`, `Symlink`, `Link`, `Unlink`,
`ListCall` are whole callbacks; a write is `Begins` (position and size) and
then one `Copies` per block, since `copy_from_user` may sleep, or `GivesUp`.
An action ends where the code may sleep, so that a block is looked up in one
step (`Turn`) and written in the next: by then it may be free or another file's.
`large` is history: some file went beyond its first indirect block, if only
on the way to a size it then could not get (`Fullest`): `change_size` shrinks it
back, but the indirect block it had is gone by then. `Truncate` is for any inode
but 0 and the root's, which Linux does not truncate. The model stops where an
entry no longer names an inode, too.
Processes also open, close, and start and end a listing, which OSPFS does not
see but depends on. All is in the root directory. The error returns that
change nothing (`-EEXIST`, `-ENOSPC`, `-ENAMETOOLONG`) are absent steps; `-ENOMEM`
(`:1430`, `:1519`) comes when the entry and the inode are in place already, so on
the disk it is the same step as a success (`Enters`).

**BlockCache.** `getblk`, `putblk`, `flushb` and `flushdisk` as operators from a
cache to a cache; `abort()` leaves its reason in the field `abort`, after which
nothing changes. The time stamps are kept as ranks. Dereferencing a pointer
whose slot is not lent out is an abort of its own ("stray pointer"), so that the
absence of such uses can be stated.

**OspfsFormat.** The formatter as a machine whose steps are the entries of the
host tree, chosen as they are read: a file (with the two ways of linking instead
of copying), a symbolic link, a directory entered or left, then `Finish` (bitmap
and flush). A step is the whole function with every `getblk` and `putblk` in the
order of the code, since that order decides what is evicted. File contents are
an index into `Size`, and `Datum(x, k)` is word k of contents x; equal md5 sums
are equal contents.

**OspfsImage.** It extends both `OspfsFormat` and `Ospfs`, on the same constants of
the disk: the formatter runs, exits, and `Mount` hands the flushed image to
`Ospfs`, whose operators (`BlockNo`, `GetWord`) are also the ones with which the
properties read it. After the mount nothing is left of the cache.

**Simpsh.** `sfd` is the kernel's table of the shell (each descriptor stands for
a file, a pipe end or the terminal), `table` is `fd_array` with `fd_isPipe`, and
each command has the streams it was started with and what else it still holds,
so that end-of-file is a consequence of who holds what. One action per option,
one for the end of a command, one for each way of waiting, one for a signal.
`WaitFor` is the design problem's `--wait n`. `opened`, `asked`, `slips` and the
fields `told` and `named` are history: `slips` has every option the shell printed
an error for (`Complain`), whether or not it raised the exit status (`Raise`).
A pipe end is only named as the stream it
can serve (`InDirection`): what a read end does as somebody's output is left out.

## Runs

Every run explores its state space completely.

| Run | Bounds | What it shows |
|---|---|---|
| `mpos_kernel` | 4 entries (3 processes), two statuses; all calls, or only fork, yield, exit and wait | `TypeOK`, `RunningEntry`, `NoLostWakeup`, `SpinMeansStuck`, `StacksPrivate`, `ReapedWithStatus`, `RunnableRuns` |
| `mpos_apps` | the source's sizes: 16 entries, 1025 processes, 20 yields | `ChildStatusArrives`, `RoundsLeaveOneZombie`, `MainFinishes` |
| `schedos` | 3 processes, four algorithms, 2 characters, first words from -5 to 5 and the extremes of `int` | `TypeOK`, `OutputSorted`, `TopPriorityRuns`, `RunsOnItsShare`, `NeverGivesUpEarly`, `CycleIsFair`, `EntitledRuns` |
| `addtest` | 3 threads, 1 iteration, an `int` up to 3 | `FitsInt`, `NothingLost`, `RaceBounded`, `ImplementsTally`, `AllThreadsEnd` |
| `sortedlist` | 2 threads, 2 elements each, equal keys, 2 lists | `ListsSound`, `LengthIsSnapshot`, `ChecksPass`, `ImplementsListPool`, `AllThreadsEnd` |
| `ospfs_files` | 2 writers, 2 names, 2 file inodes, 2 free blocks of 2 words | `BlocksApart`, `NoSpaceNoChange`, `OnlyReuseLoses`, `AppendsArrive` |
| `ospfs_names` | ospfsformat with 6 slots, 5 inodes and 20 blocks of 2 words; trees of up to 4 entries; then 3 names and a buffer of 3 entries | `ImageHoldsTree`, `CacheSuffices`, `LinksCounted`, `ListedOnce` |
| `simpsh` | four families of command lines, 5 to 8 options, 8 descriptors | `StreamsAsTold`, `PipeEndsLetGo`, `ExitIsWorst`, `WaitReturns` |

Four runs end in a counterexample, and each is a finding:

- `mpos_wait_once`: two processes that wait for the same third one are both given
  its exit status (`mpos-kern.c:178`), of which `mpos-app.h:143` says that only
  one of them will return it.
- `schedos_equal_shares`: with equal shares the first process of the table
  runs on after its share is used up (`schedos-kern.c:347`), against the
  comment at `:320`.
- `sortedlist_lookup`: the lookup returns the first element whatever its key,
  for want of braces (`sltest.c:103`, `SortedList.h:64`).
- `ospfs_readdir`: a listing leaves out entries (`ospfsmod.c:481`, `:508`;
  comment at `:404`). The file position, which begins at 2, is used as the
  number of the entry, so the first two never show; and it is moved past an
  entry for which there was no room.

*Why the bounds suffice.* Processes and threads interact in pairs, with a
third needed where two wait for, or race with, one: three processes, three
threads. The list run has equal keys, a list shared by the threads and one
not. In `mpos_kernel` the view leaves out `%eax` outside a call and the stale
fields of entries, which the kernel never reads, so that states of one view go on
alike; `ReapedWithStatus` is evaluated on every step found, before the view is
applied. `RunnableRuns` speaks only of what the view keeps, and so does its
fairness where it matters: as long as a second process is runnable, the steps of
`Relinquish` are exactly those that change `current`. Three processes are enough
for two to wait for the third, for a cycle of waits with one left out, and for an
entry to be reused; that all the safety properties of this run hold for tables of any
size is proved. In the OSPFS runs
the view leaves out words that are overwritten before they are read, and equal
names and writers are symmetric. Blocks of two words with one direct pointer
make every boundary of the code come close: a file of two words is direct, of
three needs the indirect block, and of seven leaves it. In `ospfs_files` two
free blocks are exactly what a first indirect block takes, so every way of
running out occurs, and copies do reach blocks that meanwhile belong to
another file. Symbolic links are left to `ospfs_names`, for their reuse under a
writer only leads to where the model ends; a late copy into an indirect block
would need one more block than the run has.
In `ospfs_names` host files have 6 or 9 words: one fills its direct and indirect
blocks to the last word, one needs a doubly indirect block and ends within a
block, so that all branches of `storeblk`, both ends of the loop of `writefile`
and the module's reading of all this are checked against each other. Six slots are
few enough that blocks are evicted all the time and that the cache does run full at
depth 2. Images with at most three
inodes, in the root directory and without a large file, are mounted and used
(`MaxMounted`), since the properties of the mounted directory depend on its
entries and not on the files behind them; its directory grows beyond its direct
block. `AddDoubly` and `RemoveDoubly` are modelled, but no run has a disk large
enough to get there: `add_block` itself goes wrong one block earlier (the hazard
at `ospfsmod.c:692`), which is where the OSPFS properties end (`large`).
The lines of `simpsh` are: two pipes between two files with the commands in any
order (which holds the pipeline of `test.sh`); descriptors that come and go;
refusals and flags; signals. Eight descriptors are more than these lines open at
a time, and a line of eight options starts commands on both sides of two pipes.
Named bounds: `MaxPrints`, `MaxDirLinks`, `CountMax`, `MaxKids`, `MaxEntries`,
`MaxDepth`, `MaxMounted`, the `max` of a command line, and the argument sets
(`PidArg`, `Statuses`, `PriorityArgs`, `ShareArgs`, `Counts`, `Offsets`,
`Sizes`, `HostInos`).

*Fairness.* Mpos: a running process sooner or later makes a call that ends in
`schedule()`; the kernel is cooperative (`mpos-kern.c:159`), so this is an
assumption on the applications and is stated as such (`FairSpec`). MposApps:
the processor does not stop while it has something to execute. SchedOS: only
the boot and the clock are fair. addtest and sltest: each thread that can take
a step takes one eventually (the kernel schedules threads); no fairness of
locks is assumed. simpsh: while it waits, the shell takes what has ended
(`Collect`: `waitpid` does not overlook a zombie), and a command that is bound to
end ends (`MustEnd`: its input is at its end, because nobody holds the write end
any more, and what it writes finds a reader or none). Nothing says that a
command ends sooner, or that one reading the terminal ends. The OSPFS
specifications claim no liveness.

*Deadlock* is checked in addtest and sltest. Elsewhere the system really
stops: `schedule()` spins for good, the program ends (a command line, an
`abort()`), or the OSPFS model ends where memory outside the disk has been used.

## Proofs

For every value of the constants, checked by TLAPS:

- `MposProofs`: the inductive invariant is `TypeOK /\ RunningEntry /\
  NoLostWakeup /\ SpinIdle`. `NoLostWakeup` is not inductive alone: `sys_wait`
  refuses only `current` and empty entries, so the caller must be known to
  exist, and with it entry 0 must be known to stay empty, since `schedule()`
  looks at it. Each handler keeps the invariant (one lemma per handler, all
  through `ThroughSchedule`). From it follow `TypeCorrect`, `CurrentExists`,
  `WakeupsNotLost`, `SpinsOnlyWhenStuck` and `ReapingTakesStatus`. Of an
  application without threads, `ForkKeepsStacksPrivate`: a process's stack pointer
  stays in its own region. Of one without `kill`, `ExitWakesWithStatus`: every
  waiter, be it one or several, gets the status (`WaiterGetsStatus`). Only one
  should, says the header, which the run `mpos_wait_once` refutes.
- `MposProofs`, the applications, for tables of any size: `AppsRefineKernel`
  says that their specification implies the kernel's, so that all of the above
  holds of them; and as they create no threads, `AppStacksPrivate` (`OwnStack`, the
  invariant behind `StacksPrivate`). Of mpos-app, `MainGetsChildStatus`: the
  invariant follows main and its one child through their phases (not forked,
  running, blocked on, ended, reaped) with what is in each one's frame, register
  and table entry, so that the number main ends with is the one the child exited
  with, whoever ran first. Of mpos-app2, `RoundsCleanUp` and `AllProcessesRun`:
  entries are taken in ascending order, the children of a round run in that
  order as well and main waits for the first, so that only the child in entry 2
  can have been passed over when a round begins (`OnlyEntryTwo`); counting says
  that `TotalProcs` have run in the end. The latter needs four entries: with
  three, `fork` fails in the middle of the program, and TLC shows it.
- `SchedOSProofs`: for any number of processes, any word read at boot, clock
  interrupts anywhere and whatever the applications pass to the kernel, `TypeCorrect` and, for algorithm
  1, `SortedOutput` (what was printed is by processes not above the lowest one
  still runnable, so whoever prints next comes after them). The code does not
  check what it is passed, so the rest has hypotheses that are about the
  applications: no negative priority (`TopRunsAlways`: with one, `topPriority`,
  which starts at 0, finds nobody and `schedule()` spins), and no negative share
  besides (`GivesUpOnlyWhenNoneIsLeft`: `Largest` starts at -1). With shares that
  are positive and distinct, `ShareLasts` and `CyclesAreFair`; their invariant
  (`Turns`) says that in the cycle under way everybody but the process that runs
  has had all its quanta or none (`Whole`). For equal shares both are false,
  as the run `schedos_equal_shares` shows.
- `AddTestProofs`: `LockExcludes` without any assumption on sizes; `UpdatesKept`
  and `CounterIsTally` (the refinement of `Tally`) as long as the counter fits
  an `int`. That it does is proved where iterations times threads fits one
  (`CountFits`), which the program does not check its options against:
  `CountFitsInt`, `RacesAreBounded` and `UpdatesKeptIfCountFits`. The invariant
  adds to the lock's exclusion that a sum read under it stays fresh (`Fresh`);
  for `RaceBounded`, that no counter, and no sum a thread still holds, is above
  the number of increments made so far or below minus that of decrements,
  as sets of rounds whose cardinality grows by one (`OneMore`).
- `SortedListProofs`: with a lock, for any number of threads, elements and
  lists. The inductive invariant `IInv` says of each list that there are a
  number s and a sequence f from head to head that `next` follows forwards and
  `prev` backwards, except at the one element between the two writes of an
  insertion or deletion (`Chain`, `Mending`); where in f the thread at work has
  got to (`Placed`); how far a count has come (`Counting`); and that s is what
  was inserted minus what was served. `DeletesFindTheirNeighbours`,
  `LengthsAreSnapshots`, `FreeListsAreSound` and `NoTurnIsMissed` follow, and
  `ListsAreAtomic`: each write that matters is one step of `ListPool`, every
  other a stutter. `ListsSound` walks a list by a recursive function;
  that the walk returns f is proved by induction over a set of numbers.
- `ListPoolProofs`: `LookupsFindSomething` and `ListsBalanced`, as long as every
  element is hashed to a list that exists (`Hashing`). The idea is
  counting: whichever element a lookup takes, one element is gone and one turn
  is over, so a turn still to come finds a non-empty list. Together with
  `ListsAreAtomic` this is why "should never be here" is dead code although the
  lookup is wrong.
- `OspfsFormatProofs`: the cache of ospfsformat is transparent, and it suffices.
  `GetBlkIsTransparent`: a `getblk` that does not abort lends out the block asked
  for, changes no other, and evicts none that is lent out. `CacheIsTransparent`:
  after any sequence of calls and writes, with any number of slots, each block
  holds what was last written to it, whether that is in a slot or on the disk;
  and so does the flushed image (`ImageHoldsWhatWasWritten`). What makes the
  invariant inductive (`Sound`) is that no two slots in use hold the same block:
  it needs that a block is loaded only when no slot has it, and that flushing
  comes before loading (`LoadKeeps`).
  `CacheLargeEnough` is about the formatter's own calls, for every host tree and
  every size of the disk, the cache and the blocks. It follows a bag of blocks
  that are lent out (`Lends`) through each of its functions, with a bound on how
  many there are (`AtMost`): a directory adds two, an entry five more at the worst
  moment, in a doubly indirect block. That no block is borrowed as two different
  things needs that the formatter follows pointers to blocks of the right kind
  only, so a ghost labelling tells of each block who owns it and as what (`Good`):
  indirect blocks that an inode names are its own, and the last block of a
  directory still being read can be found through them (`Ended`). Labels are given
  once, when a block is allocated (`Relabels`); the blocks from `nextb` on have
  none yet, which is why the block that `writefile()` fetches before it knows
  whether the file is over does no harm. `FormatInvariant` is the inductive
  invariant: between two entries, what is lent out are the inode of the root and,
  for each directory entered, the blocks of its entry and of its inode (`Lending`).
  The theorem is about the formatter by itself (`FormatSpec`); the run has it in
  `OspfsImage`, where the mount adds an empty cache.
  The loops over a file's blocks and over the blocks of inodes are recursive
  functions, whose existence (`Turns`) and turns (`Reached`) are shown by
  induction over sets of numbers.
- `OspfsProofs`: for disks, directories and buffers of any size and any number
  of writers. `Sound` says that each place of a file (its k-th block, or its
  indirect block) that its size requires records a data block, marked allocated,
  and that no two places record the same one (`OneUse`); `Tidy` that pointers
  not in use are 0, without which a later growth would take an old pointer for
  its own. `DirSound` says that the root directory's entries name files, that
  `oi_nlink` counts them and no name is there twice. Each function of
  `OspfsDisk` is shown to keep this: `AddKeeps`, `RemoveKeeps`, `GrowKeeps` and
  `ShrinkKeeps` for the loops (by induction over the turns), `ChangeKeeps` for
  `change_size`, then `BlankKeeps`, `EntersKeeps`, `UnlinkedKeeps`, `CopiedKeeps`.
  Growing and shrinking also keep the *pool*, the blocks free or in use, the
  same set (`Reshapes`), so that a block lost would have to have been lost
  elsewhere, and only reuse does it (`Kept`). From the invariant `Inv` follow
  `NoBlockTwice`, `LinksAreNames`, `LosesOnlyByReuse`, `NothingListedTwice` (what
  has been listed is behind the file position) and `FailsCleanly`, whose lemma
  `FailedGrowth` covers every size, where the run has the sizes up to one block
  past the indirect one. `AppendsWholly` needs an invariant of its own
  (`AppendInv`): what an undisturbed append has still to copy is inside the file
  and adjoins its position, what is behind it is the writer's, and the block it
  looked up is still the one there (`Progress`); of the writes to one file all
  are undisturbed or none is, and their parts of the file are apart (`Appends`).
  Each callback is shown to leave every other file's words in their places
  (`Stays`), and its own too where the file does not shrink; a copy reaches
  another file's words only by marking that file's writers as disturbed.
  All are for files that stay within their indirect block (`large`); beyond it
  the code breaks them.
- `SimpshProofs`: for every command line. `ExitTellsTheWorst` needs that the
  status so far is the worst of those seen, and that each refusal outside `Untold`
  is followed by its raising. `StreamsLeadAsTold` and
  `EndsAreLetGo` rest on `Orders`: a logical number in use leads, by a descriptor
  of its own, to what was opened under it (`Leads`), and the shell holds a pipe
  end only by such a number (`Held`). Both need that the line names no pipe end
  twice. The attempt to prove that the shell lets go of every pipe end without
  this condition failed for a good reason: a number that is used up stays valid
  in the table, may by then lead to a descriptor opened in its place, and
  naming it again makes the shell forget a pipe end it still holds. The property
  `ShellLetsGo` has the condition since.

Assumptions on constants are named in the modules: tables of at least two
entries, finite sets of elements, calls among those that exist, a word read at boot that is an integer, programs whose
loops have natural numbers of turns, a block of at least two words whose number
divides 2^32, a disk with room for the blocks that `ospfsformat` takes, a cache of
at least one slot, files whose sizes are natural numbers. Induction is over sets
of numbers (`Reached`, `Repeated`, `LeastExists` in `OspfsProofs`), which needs no
operator as a parameter.

Only model-checked: all liveness (`RunnableRuns`, `MainFinishes`, `EntitledRuns`,
`AllThreadsEnd`, `WaitReturns`), which TLAPS does not prove; and that the image
holds the tree (`ImageHoldsTree`), which compares whole trees of host files with
what the module reads, block by block, and would need an induction over each.

## What the models show of the code besides

Not stated as a property of a run, but visible in the definitions:

- `sys_wait`: after two processes blocked on one pid have both got its status
  (the finding above), the zombie remains for a third. A waiter woken by `kill` gets the pid it waited for
  (`:223`). `kill` overwrites a zombie's status (`:228`). A process that kills
  itself runs on (`:232`). Forking in, or after, a thread copies the wrong
  stack (`:311`).
- SchedOS: with nobody runnable, algorithms 1 and 3 run what lies behind the
  table, where `:253` says "spins forever"; `NeverGivesUpEarly` only says
  that it happens in no other case. At boot the word read through the null pointer
  may lead outside the table in algorithms 0, 2 and 3 (`LeavesTable`): of what
  happens then nothing is claimed ("stray"). `schedule()` would also give up with
  a negative priority (algorithm 2 spins) or a share below -1 (algorithm 3 runs
  off the table) of everybody runnable, which nothing excludes but the
  applications.
- OSPFS: `-EIO` instead of `-ENOSPC` when the indirect block finds no room
  (`ospfsmod.c:794`); blocks beyond the first indirect one are recorded in the
  wrong place (`:692`, `:827`). A growth that passes the first indirect block
  and then finds the disk full is undone by `change_size`, but not without a
  trace, as `:938` asks: block `NDIRECT+NINDIRECT` has replaced `oi_indirect`, so
  shrinking frees the replacement, and the file's old indirect block is lost with
  what it names.
  `NoSpaceNoChange` as first stated had to be narrowed for that. Besides,
  unlinking frees no block (`:553`, quantified by `OnlyReuseLoses`); an unlinked
  file still open loses its inode to the next file (`:1392`); new blocks are not cleared; a write that sleeps in
  `copy_from_user` (`:1178`) while its file is truncated or reused writes into
  a block that is free or another file's (`AppendsArrive` claims nothing for a
  file this happens to).
- ospfsformat: its blocks beyond the indirect one are read back correctly, as
  `ImageHoldsTree` shows; the module does not extend such a file correctly
  (above). With sixteen slots the cache suffices for directories
  five levels below the root, whatever is in them (`CacheLargeEnough`).
- simpsh: a command marks only its input as closed, whichever of the three was a
  pipe (`main.c:363`), so an input file is refused from then on when output or
  error went to a pipe, and the number of a pipe end given away stays valid and
  may later name a descriptor opened in its place. `--default 11` does not undo
  what `--ignore 11` did to `--abort` (`:631`). The flags of a failed open carry
  over to the next (`:520`). A child closes only the neighbours of its own pipe
  ends (`:341`): `PipeEndsLetGo` and `WaitReturns` say for which command lines
  nobody is kept waiting; they leave out a pipeline started in reverse order and
  one whose last command stops reading early. The design problem's `--wait n`
  does not raise the exit status. Exit status 0 does not mean that all went well:
  a `--command` without three numbers (`:271-278`) and an unknown option (`:743`)
  print an error and leave it as it is, a command killed by a signal counts as 0
  (`:406`), and one that no `--wait` collected does not count; `ExitIsWorst` says
  what remains. An argument after `--pipe` is complained of, but the pipe is
  created (`:560`).

## Not modelled

- OSPFS: `ospfs_read` and `ospfs_follow_link`, which change nothing on the disk
  (that a reader may see the old contents of new blocks is noted as a hazard
  without a property, at `ospfsmod.c:1145`: the code excludes it nowhere);
  subdirectories, which the module cannot make; the Linux inode cache; a copy
  that fails part-way through a block.
- ospfsformat: I/O errors of the host, the null pointer for a name that is too
  long, the 32 bits in which a host inode number is kept, md5 (equal sums are
  equal contents), images of more than one bitmap block (`main` takes at most 8192
  blocks). Directories that need a doubly indirect block are in the model but
  not in the bounds of the run.
- simpsh: the growing of its arrays, what `--verbose` and `--profile` print,
  failing `fork`, `dup2` and `pipe`, pipe ends used against their direction.
- SchedOS: an unknown scheduling algorithm (`schedos-kern.c:363-366`);
  `Algorithms` is a subset of 0 to 3, the ones the kernel can be started with.
- Option parsing, timing and output of the other programs; hardware set-up,
  program loading and the boot sectors; `fsimgtoc`, `truncate`, the test scripts,
  build files and texts.

## Plan

1. *Done*: all the modules above with their runs; the proofs above.
2. Proofs: that the image holds the tree (`ImageHoldsTree`), from the labelling
   that `OspfsFormatProofs` has for the blocks.
3. OSPFS: `ospfs_read` racing with a write, conditional symbolic links. An
   abstract file system (names to files to contents) that `Ospfs` implements for
   small files.

The project keeps to twelve runs and forty properties, so that all of them can
be repeated, faults included, in about an hour. For simpsh and the formatter the
plainest made room: what only restated an assignment, or is proved in general
(the exclusion by addtest's locks, the balance of `ListPool`'s lists), is no
longer run.
