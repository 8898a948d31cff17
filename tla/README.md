# A verification project for os-concepts

The repository holds three independent C programs, each a small instance of an
operating-system idea: a user-level **thread scheduler** with two kernel threads
(`src/mini thread scheduler`), an interactive **shell** with jobs and signals
(`src/mini shell`) and an inode **file system** on an emulated disk
(`src/mini file system`). This directory holds TLA+ modules that model them, the
TLC configurations that check them on small instances, and theorems proved with
TLAPS for every value of the constants.

## 1. Inventory

### Thread scheduler (sut.c, queue.c)

| part | state | operations |
|---|---|---|
| main thread | where it is in `sut_init` / its own code / `sut_shutdown` | `sut_init`, `sut_create`, `sut_shutdown` |
| C-EXEC (`cexecScheduler`) | `cexecCurrentRunningTask` (global, unprotected), local `taskAtFrontOfReadyQueue` | loop: peek, claim, pop, swap into the task, requeue; idle: look at both queues, test for exit |
| user tasks | an entry each: context, `isTaskActive`, `ioOperation` | `sut_yield`, `sut_exit`, `sut_open/read/write/close`, `sut_create`, all run on C-EXEC's thread |
| I-EXEC (`iexecScheduler`) | `iexecCurrentRunningTask` (global, unprotected), local `taskAtFrontOfWaitQueue` | loop: peek, claim, pop, system call, clear the request, requeue; idle as C-EXEC |
| queues (`queue.c`) | `taskReadyQueue`, `waitQueue`, under one mutex | init, insert, peek, pop on STAILQ lists |

Interaction: main and tasks insert into the ready queue; C-EXEC moves tasks from
the ready queue to the processor and on to either queue; I-EXEC moves them from
the wait queue back. `isShutdown` and the two "current task" pointers are read
and written without the lock. Hard behaviours: the peek/pop gap, stale looks in
the exit test, tasks handed over during a shutdown, `sut_init` storing into
pointers whose owners already run, and arguments and results of I/O requests
carried through fields of the task entry. Correct means: no task lost or
doubled, FIFO service, each request served once with its own arguments and
result, every task eventually finishing, and `sut_shutdown` returning exactly
when the work is done.

### File system (sfs_api.c, disk_emu.c, fuse_wrap_*.c)

| part | state | operations |
|---|---|---|
| disk (`disk_emu.c`) | blocks of a host file, the host file position | `init_fresh_disk`, `init_disk`, `read_blocks`, `write_blocks`, `close_disk` |
| volume, in memory and on disk | super block, inode table, root directory, free bit map | `mksfs`, `allocateBlock` |
| open files | `openFileDescriptorTable`: inode and read-write pointer per open file | `sfs_fopen`, `sfs_fclose`, `sfs_fseek` |
| files | size and block pointers in the inode | `sfs_fread`, `sfs_fwrite`, `sfs_remove`, `sfs_getfilesize`, `sfs_getnextfilename` |
| fuse wrappers | none of their own | one `sfs_*` sequence per FUSE operation |

Interaction: every operation changes the in-memory tables and writes parts of
them to the disk, several blocks per call, in an order of its own; `mksfs(0)`
reads them back. Hard behaviours: running out of blocks, inodes or directory
slots in the middle of a call, the process dying between two block writes,
pointers at the end of a file and beyond, names at their length limit, state
that an error path leaves half updated. Correct means: a block belongs to one
file and is allocated exactly while it does, the directory, the inodes and the
open-file table agree, what is read is what was written, and a remount finds
what was there.

### Shell (shelly.c)

| part | state | operations |
|---|---|---|
| main loop | `jobsQueue` of 5 pids, `fgPid`, `bg` flag | read a line, run a built-in or fork, wait for a foreground child |
| built-ins | working directory | `echo`, `cd`, `pwd`, `exit`, `fg`, `jobs` |
| signal handlers | share `jobsQueue` and `fgPid` with the loop | SIGINT kills the foreground child, SIGTSTP is ignored in the shell |
| children | process state | run, pipe or redirect, finish, stop, be reaped |

Hard behaviours: the SIGINT handler running between any two statements of the
loop, children that end before they are recorded, a job table that only grows,
a child that stops instead of ending, job numbers that do not name a job. Correct
means: `exit` leaves no child, SIGINT kills the foreground child and nothing
else, `fg` waits for the job asked for, the prompt comes back.

Tests, data, build files and editor settings carry no logic of their own and are
not modelled.

## 2. Plan

Order: the scheduler first (the only concurrent program, where most can go wrong
between two threads), then the file system (the largest), then the shell.

| module | models | state |
|---|---|---|
| `TaskQueue`, `SutScheduler`, `SutTasks`, `SutSchedulerProofs` | scheduler, its abstract promise, theorems | done |
| `SutIo`, `SutIoProofs` | I/O arguments and results, composed with the scheduler, theorems | done |
| `Sfs`, `SfsFiles`, `SfsProofs` | file system on its disk, files by name; shapes, pointers and blocks with one purpose, for any disk | done |
| `SfsFilesProofs` | every file is whole, and `Sfs` implements `SfsFiles`, for any disk | done |
| `SfsRestartProofs` | what a restart between two writes leaves of the files, for any disk | done |
| `SfsFuse`, `SfsPaths` | FUSE handlers on the file system with restarts, files by path | done |
| `Extrema` | facts about `Min` and `Max` that the proofs share | done |
| `Shelly`, `ShellyProofs` | job control and signals, theorems | done |
| `ShellPipe`, `ShellPipeProofs` | arguments, redirection, the two processes and the ends of a pipe, theorems | done |
| `SutSessions` | a second `sut_init` after `sut_shutdown` | later |

Compositions: `SutIo` extends `SutScheduler`, `SfsFuse` extends `Sfs`. `SutScheduler`
implements `SutTasks`, `Sfs` implements `SfsFiles` and `SfsFuse` implements
`SfsPaths`, each through a refinement mapping. The proof modules build on one
another where the models do: `SutIoProofs` takes the scheduler's theorems over by
showing that every step of `SutIo` is a step of the scheduler, `SfsFilesProofs`
starts from `SfsProofs`, since a file stays whole because nobody else is given its
blocks, and `SfsRestartProofs` from both, since a process that ends must have kept this
of every disk on the way.

Each checked module contains operators marked *Slip*: a definition of the code with
one plausible mistake in it. They are used by no specification; they are
there to show, property by property, that the runs would notice the mistake.
## 3. The thread scheduler

### Modules

* `TaskQueue` — the queue operations of queue.c on sequences.
* `SutScheduler` — main, the two executors and the tasks. `mainPc`, `cexecPc` and
  `iexecPc` say where each thread is; the other variables are the globals, the
  locals and the entry fields of sut.c, under their names. One action is one
  critical section or one store to an unprotected global that another thread
  reads. `cexecPc = "task"` means that C-EXEC's thread runs user code; the calls
  of that code are the actions of `TaskStep`. `"check"` is the state between the
  look at the queues that found both empty and the rest of the exit test.
* `SutTasks` — the abstract promise: ready, running and blocked tasks, FIFO.
* `SutIo` — SutScheduler with the arguments and results of the I/O calls: the
  fields `openFile.returnVal`, `readFile.fd`, `writeFile.fd`, `closeFile.fd` and
  `readFile.returnVal` (`returnVal`: whether it is NULL) of an entry, the process's
  descriptor table, and the task's own variables for what `sut_open` (`fd`) and
  `sut_read` (`text`) return. `asked`, `served` and `gave` are history: the call a task
  is in, the system call made for it and what that returned. Every step is a step of
  `SutScheduler` that also moves these.
* `MCSutIo` — the symmetry set for TLC.
* `SutSchedulerProofs`, `SutIoProofs` — the theorems.

Merging the reads of the exit test into one step is sound because `isShutdown`
never goes back to false and an executor's own pointer is written by nobody else
once it is set, so the only read whose moment matters is that of the other
executor's pointer. The build uses no optimisation (`Makefile`), so each C
statement reads and writes memory; a store buffer only delays the `= NULL` stores,
which is the same as running the reset step later.

### Runs

| run | instance | what it shows |
|---|---|---|
| `sut_safety` | 3 tasks, 2 calls per task, fair | types, peek/pop, pointer agreement, conservation, one service per request, no started task abandoned; implements `SutTasks`; tasks finish while the executors run; a quiet shutdown returns |
| `sut_io` | 2 tasks, 4 request types, 3 calls, descriptors 0 to 2 | reads and writes are made with the task's own arguments, `sut_open` and `sut_read` return the results of the task's own request |
| `sut_lost_task` | 2 tasks | **violated**: `sut_shutdown` returns with a created task never executed |
| `sut_hang` | 1 task, fair | **violated**: `sut_shutdown` never returns |

Three tasks are one on each executor and one in a queue, or three in one queue, or one
created during the shutdown of two others; two calls are enough for a task to be
requeued, blocked and to create another task, and every task may exit early. The
scheduler does not look at which I/O operation is asked for, so one type stands
for four. In `sut_io` three calls are open, use and close, and with two free
descriptors an open also finds none. The fields of an entry come from malloc: in the
runs they are all zeros or all ones (`garbage`), so that an entry never written to names
either an open descriptor or none; the theorems of `SutIoProofs` hold for these two.

Fairness: the two executors are kernel threads, scheduled for ever, and the lock is
held for a few instructions; `sut_init` and the joins run to their end. Nothing
obliges main to create tasks or to shut down. A task is assumed to make finitely
many calls (`MaxCalls`) and then to call `sut_exit`, as all of test1.c to test5.c
do; a task that returns instead ends the process (its context has no successor).

### The two disagreements

*Lost task.* Both executors find both queues empty; main creates a task and sets
`isShutdown`; both executors go on to the second half of their exit test, see
`isShutdown` and leave. The task stays in the ready queue and `sut_shutdown`
returns. sut.h:52-54 makes C-EXEC responsible for executing it.

*Hang.* C-EXEC finds both queues empty while I-EXEC serves the only task; I-EXEC
puts the task in the ready queue and clears its pointer; C-EXEC reads that pointer,
sees `isShutdown` and leaves. I-EXEC now sees a non-empty ready queue for ever, and
the second join never returns. The mirror image (I-EXEC leaves, a task then asks
for I/O) hangs the same way.

What does hold, and is proved, is that a shutdown that returns has left no task
in the middle of its run (`StartedTaskNeverAbandoned`).

Two more are in the model, and no property covers them. `sut_close` stores its
descriptor in `writeFile.fd` while I-EXEC closes `closeFile.fd` (sut.c:172, 274), which
nobody sets: the file stays open, and another descriptor may be closed, though
sut.h:113-114 promises the close of `fd`. And I-EXEC stores the result of `open` only
when it is not negative (sut.c:144), so `sut_open` returns what malloc or an earlier
open left in the field, and the test of test4.c:8-9 passes over the failure. `sut_read`
does store its failure, as NULL, and `ReadReturnsItsOutcome` holds.

### Proofs

The theorems of `SutSchedulerProofs` are about `Spec`, for every set of tasks and of
requests and every `MaxCalls`, from the three assumptions on the constants.
`TypeCorrect` and `PoppedIsPeeked` come first. `OnlyCreatedTasks` (no task exists
before `sut_init` has ended, and only created tasks are queued or held) gives
`PointersAgree`. `Conservation` needs these: the pop must take the task that was
peeked at, and the test of `isTaskActive` must be about the task that is requeued. It
is inductive relative to them. `RequestServedOnce` and the refinement
`ImplementsTasks` then need only that the entry a step changes is in no other place.
`StartedTaskNeverAbandoned` is not inductive: it speaks of the end only. Its
strengthening `LeavingInv` says that once both executors have seen the queues empty,
in whatever order, the wait queue is empty and the ready queue holds only tasks that
have not started; this is inductive because the later of the two looks covers what the
other executor could have handed over since the earlier one.

`SutIoProofs` first shows that a step of `SutIo` is a step of the scheduler
(`RefinesScheduler`), which carries all of the above over. `ServedAsAsked`,
`OpenReturnsIt` and `ReadReturnsIt` then need one more invariant, `FieldsInv`, for any number of tasks,
calls and descriptors: the entry of a task that has asked for a read or a write holds
that call's descriptor until I-EXEC takes it, and the descriptor of an open that
succeeded, or the outcome of a read, is in its `returnVal` until the task resumes. It is inductive because
the entry that a task writes to, `cexecCurrentRunningTask`, is its own
(`PointersAgree`), and I-EXEC writes only to the entry it holds, whose task is in no
other place (`Conservation`).

Liveness stays with TLC.

## 4. The file system

### Modules

* `Sfs` — sfs_api.c on disk_emu.c. `directoryEntries`, `iNodes`, `freeBlocks` and
  `read_writePointers` are the caches of sfs_api.c:3-10; `disk` is the host file,
  block by block. A call changes the tables and issues its writes, in the code's
  order, into `pending`; `Flush` performs the oldest. The next step of the call
  waits until they are done. `sfs_fwrite` is one step per block of the file
  (`WriteBegins`, the `Writing` steps, `WriteEnds` or an error return); each other
  call is one step. `Restart` ends the process between any two writes and mounts
  the disk in a new one, `Remount` mounts it again in the same one, and
  `mksfs_fresh` formats it.
* `SfsFiles` — the abstract promise of sfs_api.h: contents by name, positions of
  open files, the bytes a read returns.
* `SfsProofs`, `SfsFilesProofs`, `SfsRestartProofs` — the theorems, each module
  building on the one before; `Extrema` — the facts about `Min` and `Max` they use.
* `SfsFuse` — the handlers of fuse_wrap_*.c. A handler is the sequence of its sfs calls;
  `request`, `at` and `fd` are where it is, and `FuseRestart` may come between any
  two block writes of any of its calls. It also has the two calls only the handlers
  make, `sfs_getfilesize` and `sfs_getnextfilename`. The promise of descriptors
  is not used again: a handler that fails leaves its descriptor open and the next
  one finds it so.
* `SfsPaths` — the abstract promise to the kernel: a request is one operation on the
  file at its path, at the moment the handler returns, and `Leftover` lists what a
  restart in the middle may leave of that file.
* `MCSfs`, `MCSfsFuse` — the symmetry sets for TLC.

Abstractions, and what they leave out:

* A table that the code writes with one `write_blocks` call is one block whose write
  is atomic. A restart inside such a call, and one write of the directory that
  splits a name across two blocks, are left out. `linkCount` is never read.
* `mksfs(1)` is one step: a process that ends while it formats leaves a disk of which
  nothing is promised, neither the old files nor a file system, and which the model does
  not mount.
* The super block is written once and its contents never decide anything. `mksfs(0)`
  reads its block of 1024 bytes into the smaller `superBlockCache` (sfs_api.c:97). What is
  overwritten depends on the layout of the program: with gcc it is the i-node table,
  which lies behind it and is read from the disk next (sfs_api.c:98), so nothing is
  left of it. Other layouts are not modelled.
* The ends of the tables that are never saved (slots from `DirSlotsOnDisk`, i-nodes
  from `InodesOnDisk`) are in the model: `Remount` keeps what memory holds, a new
  process has empty names and i-nodes of zeros (`ZeroInode`). In the program the
  numbers are 146 and 204 of 300; the runs take 2 of 2, and a reader who sets them
  lower sees files vanish.
* Once data have replaced a table on the disk, or an indirect block, reading it
  gives garbage that the model does not invent: `Mountable` and `Readable` stop
  there. Memory from malloc is `Junk`.
* Descriptors and seek locations are those in range; integers do not wrap.

In the program `FirstFree` is 18, `RootDirectoryIndex` 301, `FreeBlockListIndex`
1023, a block has 1024 bytes, and an i-node 12 direct and 256 indirect pointers.
The relations between them that the model uses are its assumptions.

### Runs

| run | instance | what it shows |
|---|---|---|
| `sfs_api` | 2 names (one of full length), at most 1 byte a write, 1 direct and 2 indirect pointers, 4 blocks to allocate | types, no shared block, owned blocks are occupied, pointers lie within files |
| `sfs_files` | 2 names, 2 byte values, at most 1 byte a write, blocks of 2 bytes, 3 blocks to allocate, no restart | `Sfs` implements `SfsFiles` |
| `sfs_restart` | handlers, 2 names, 2 byte values, at most 1 byte a write, 1 direct and 1 indirect pointer, 3 blocks to allocate, restarts | the same block properties, files whole, other files spared, an append undone as a whole; `SfsFuse` implements `SfsPaths` |
| `sfs_root_directory` | as `sfs_api` | **violated**: the directory on the disk is overwritten |
| `sfs_full_disk` | as `sfs_api` | **violated**: a failing write damages another file |

A file of one direct and two indirect blocks reaches each of the four places where
`sfs_fwrite` allocates; two files of three data blocks and a block of pointers
each need eight, so the disk fills up in each of those places. Two names give one
file that is written while another must stay as it is. `sfs_fwrite` writes
every block of the file again whatever it is given, so a write of one byte goes
through several blocks and allocates in any of them. Blocks of one byte are
enough where only blocks matter; `sfs_files` uses two bytes, so that there are
partly filled blocks and writes across a block's end.

`sfs_restart` runs the handlers, not the bare calls. Descriptors do not survive a
process, so as far as the tables and the disk go a restart meets the same
calls: handlers open, write at any offset within the file, remove and close. What
they cannot do is write to one descriptor while another file is open in the
middle of its own call, which no sfs call allows either. With one indirect pointer
the block of pointers is created, written and freed, not extended; `sfs_api`, with
two, extends it without restarts.

`SfsPaths` is a weak promise where the code makes it weak: a read or an open of a
missing path creates the file, truncating to any size empties it, a failure
may be reported as success because the sfs calls do not set `errno`, and after
`fuse_create` the file may not exist. A write that finds no block left is not
in this run: the last free block is the directory's, and `Room` stops before it.

`sfs_files` and `sfs_restart` have the state constraint `Room`: no file has been
given the block of the root directory. It cuts off what follows from the first
finding below, and with it every full disk: the directory's block is marked free, so
the disk cannot be full before a file has got that block, in these runs and in the
theorems that assume `Room`. Full disks are in `sfs_api`, in the two violated runs and
in the theorems of `SfsProofs`, which have no such constraint. `sfs_restart` also stops after a restart that fell
between the last two writes of `sfs_remove` (`interrupted`): there the code leaves
an i-node that points to blocks marked free, and sharing is to be expected.

### The two disagreements

*Root directory.* `mksfs` takes blocks 12 to 17 for the directory and writes it to
block 301 and on, which stay marked free. Once files need that many blocks one gets
them and its data replace the directory.

*Full disk.* A file outgrows its direct pointers when no block is left.
`write_blocks(-1, ...)` passes the bound check of disk_emu.c:120, its `fseek` fails,
and the block of pointers goes where the host file's position is: behind the last
direct block, into whatever file is there.

Seen while modelling, without a run of their own: `sfs_remove` keeps the indirect
block marked occupied (sfs_api.c:469); a name of 35 characters has no terminator and
is not found once the next slot is used, so opening it makes a second file
(sfs_api.c:186); files and i-nodes beyond the saved part of their tables are lost in
a new process, and an i-node of zeros writes to block 0 (sfs_api.c:98, 191);
`sfs_getnextfilename` never ends, or ends at once (sfs_api.c:125), and so does the
listing of `fuse_readdir`; `fuse_truncate` can lose the file in a restart between its
two calls (fuse_wrap_new.c:139-143).

### Theorems

`SfsProofs` proves `TypeCorrect` and `PointersWithinFiles` for `Spec`, restarts
included, for any number of files, blocks, pointers and bytes that satisfies the
assumptions of `Sfs`. No state constraint applies to them: they also cover what
`Room` and `SoundRoom` keep out of the runs.

Neither property is inductive alone. `IInv` adds, as `DiskOK`, that the blocks of the
disk and the pending writes have their shape one by one (`TypeOK` speaks of the
two together, a restart takes them apart), and that no pointer leads to the last
block: the write that goes astray on a full disk lands one block further and
must still be on the disk. `CallOK` adds what `sfs_fwrite` knows between two
iterations: the buffer covers the blocks still to be written, the descriptor is open,
at most as many blocks as an i-node has pointers were passed, and the indirect block
exists once the direct pointers were passed. With that the size stored at the end is
one that the blocks can hold (`SizeOfBlocks`), which makes every later index
of `Content` a pointer of the file (`BlockOfByte`).

It also proves `NoSharedBlocks` and `OwnedBlocksOccupied` for `ProcessSpec`:
any calls and any number of `mksfs`, but no end of the process. There is no state
constraint here either: full disks, writes that go astray, and data that replace the
directory are covered. A block is looked at by its *role*: `Held` gives the block that
slot `s` has as its r-th block of data, or as its block of pointers. `BlockInv` says
that a block other than -1 has one role in one slot and is marked occupied (`Sound`),
that the saved i-node table is the one in memory but for pointers it does not have yet
(`TableSaved`), and that the saved map, if nothing has replaced it, is the one in
memory (`MapSaved`). The last two are what `mksfs(0)` needs, which reads the tables
back while files are half written: `sfs_fwrite` that fails keeps the blocks it
allocated, the i-node in memory has them and the saved one does not. What makes the
induction go through is that the block of pointers lives on the disk: a write to some
other block must not change what an indirect role holds, so every step needs that the
block it writes has no role but the one it is given. The write that goes astray when
no block is left is the hard case: it lands behind the file's last block, perhaps on
another file's pointers, and the proof has to show that the pointers it puts there are
all -1, so that roles are lost but none is gained.

`SfsFilesProofs` proves `FilesWhole` of `ProcessSpec` as long as `Room` holds, the state
constraint of the runs (without it the first finding gives a file whose blocks hold
a directory). `FilesInv` adds to `BlockInv` that the directory is saved, that every file
of the directory is whole, block by block, in the table in memory and in the one
saved, and that `sfs_fwrite` leaves whole the blocks it has passed, so that the
size it stores at the end is one whose blocks are all there. `Keeps` is the
step that all actions share: a slot loses none of its blocks of data.

The module's second theorem, `FilesImplemented`, is the refinement that `sfs_files`
checks: `ProcessSpec` implements `SfsFiles` for any disk, under `FilesByName` and
`PositionsByName`. A file that `sfs_fwrite` is at work on counts as unchanged until
the call returns, so the steps of a write and its flushes are stutters and its last
step is the abstract one. Besides the invariants above it takes `NamesInv` (two
slots never hold one name, so that a name has one slot, whichever `sfs_fopen`
and `sfs_remove` find first) and `WriteInv`: what the call holds in memory is the old
file with the buffer laid over it (`Laid`), the blocks it has passed hold their part
of that, and every other block of the file holds what it held. At `WriteEnds` the
file is then the one the caller meant (`OverBytes` says which byte comes from
where), and at an error return it has its old size and a first part of the buffer laid over
it, as `WriteFails` of `SfsFiles` says. The other files
are untouched because no block has two roles: the refinement rests on
`NoSharedBlocks` at every write.

It assumes two things of the execution. `[]Room` is as above. `[]ShortNames` says that
no name in the directory is so long that it has no terminator: such a name may not be
found again, a second slot is made for it, and there is no file by that name any
more. `EmptyAssumption` only keeps the value for "no name" and "no file" apart from
the contents of a file.

The theorems of `SfsFilesProofs` and those about blocks in `SfsProofs` are stated for a
process that does not end. `SfsRestartProofs` proves what is left when it does, between
any two writes to the disk, for any disk: `OtherFilesSpared`
(`RestartSparesOtherFiles`), `AppendsSurvive` (`AppendSurvivesRestart`),
`RestartsLeaveFilesWhole` (`FilesWhole` of `Spec`) and `RestartsShareNoBlock`. They
assume `Within` of every state, as long as the process was not interrupted before the
last write of `sfs_remove` (after that nothing is promised):

* `Room`, as above;
* `TablesFit`: every file has one of the `SavedSlots`, whose directory entry and i-node
  the blocks of the tables hold. It speaks of the execution and not of the constants,
  since the code's own are 146 entries and 204 i-nodes of 300: files beyond the 146th
  slot are lost in a new process. What `mksfs(0)` reads for the other slots, i-nodes of zeros that
  all point to block 0, is then of no consequence, and this is why `BlockInv` and
  the lemmas on roles take the set of slots they speak of as a parameter. That no two
  slots share a block is proved of `SavedSlots`, and of all slots
  (`NoSharedBlocks`, `OwnedBlocksOccupied`) where these are all, as in `sfs_restart`.

The invariant is `CrashInv`: each of the disks that the pending writes lead through,
one by one, could be mounted (`CanMount`: the tables are there and every name of
the directory has a whole file), holds every file but that of the call in
progress as memory has it (`SparedOn`), holds the file that `sfs_fwrite` is at work on
with its old size and in each place its old byte or the one to be written (`WrittenOn`),
and has no block in two roles, but for the disk before the last write of
`sfs_remove` (`SoundOn`). An action issues at most four writes, so its proof looks
at up to five disks; the order of the code's writes decides whether each is as it must be.
`sfs_fopen` saves the i-node before the name, and `sfs_remove` the directory without the
name before it frees the blocks. `sfs_fwrite` saves a pointer before the data it
leads to, but the saved size does not reach that block until the last write of the call.
A `Flush` takes the first disk of the list away and a restart mounts it
(`RestartReads`), so neither needs to know which call it interrupts.
## 5. The shell

### Modules

`Shelly` has the main loop (`pc`), its globals and locals under their names, and
`process`, what each process id stands for: a child that is `starting`, `running`,
`stopped` or a `zombie`, a `free` number, or a `foreign` process that was given the
number after the shell had waited for the child. `stale` and `untracked` are
history: pids left in the table by an `fg` out of range, and children started when
the table was full. `MCShelly` holds the symmetry set.

`handle_sigint` may run at any moment; the loop does not run meanwhile, so
it is one step. The terminal's CTRL-C and CTRL-Z reach the children too, since the
shell puts nobody in a process group of their own; a SIGINT from elsewhere
reaches the shell only. `echo`, `cd`, `pwd`, `jobs` and errors of `fg` change none of
this state. `fg` without a number, and a store out of the table's range, may end
the shell.

`ShellPipe` is one child of the shell from the line to the end of its command:
`NextArgument` and `LoopLeft` are the loop of main, then comes redirection_shelly,
or piping_shelly with its second process, "left". `stdin`, `stdout` and `pipefd` are
the descriptors of each, and every close, dup2 and exec is a step of its own. The
kernel's pipe and what the commands do with it are external. close and dup2 of
descriptors that are open do not fail; pipe, fork, open and execvp do. To `Shelly`
all of this is one child on its way to its command.

### Runs

| run | instance | what it shows |
|---|---|---|
| `shell_jobs` | 3 pids, 2 slots | the table holds children only, none is forgotten, `exit` ends them, the prompt comes back |
| `shell_pipe` | lines of up to 5 tokens, 4 arguments, 2 writes, a pipe that holds 1, fair | commands get their words and descriptors, a pipe that was not set up starts no right side, no early end of input, both processes end |
| `shell_stranger` | 3 pids, 2 slots | **violated**: `exit` terminates a process that is not the shell's |

Three children and two slots give a full table, an untracked child, holes at either
end, and a pid that is given away again while the table still holds it.

Fairness (`FairSpec`): the shell is scheduled, a child gets to its exec, and a command
that is not stopped ends. The last is an assumption about the commands; without
it no shell could promise a prompt.

In `ShellPipe` a word, an operator, a word, and room for one token too many give every
form the welcome message names and the malformed ones; a pipe of one write makes the
writer wait, and two writes make it wait more than once. Its fairness is that the
kernel runs both processes when they can run; a command ends once it has written what
it writes and, if it reads to the end, has seen the end.

What the model shows of the code besides: a redirection whose open fails runs the
command on the terminal with `>` among its arguments; behind a `|` no `>` is looked
for; tokens beyond the fourth are dropped; and the shell waits for the right
command only, so the prompt may return while the left one, which nobody waits
for, still runs.

### The disagreement

The loop of `fg` that takes any available job declares its own `jobNum`; the store after
`waitpid` uses the outer one, the number out of range. So the pid stays in the table,
though `fg` is to remove the job (shelly.c:148-150). Once the kernel has given the pid
to another process, `exit` terminates that one.

Three more are in the model and excepted by the properties, which say that nothing
else goes wrong:

* Between the `waitpid` of `fg` and the store that clears the slot, the pid is the
  kernel's to give away too, and a SIGINT then makes the handler signal whoever has it.
  `JobsAreChildren` excepts just this window and what an `fg` out of range leaves.
* A background command that finds the table full gets no slot, and `exit`, which is to
  terminate all running jobs (shelly.c:140-141), does not know of it. `NoChildForgotten`
  and `ExitEndsJobs` except such children only (and `ExitEndsJobs` stopped ones).
* CTRL-Z stops the foreground command, and the shell keeps waiting for it; shelly.c:109-110
  says that the user can press Enter to continue. `PromptComesBack` excepts the
  process the shell waits for when it is stopped, and only that one: when the
  command is continued, the prompt must come back after all.

### Proofs

`ShellyProofs` proves `TypeOK`, `JobsAreChildren`, `NoChildForgotten` and
`ExitEndsJobs` of `Spec`, for every size of the table and every set of process ids,
from the two assumptions on the constants. The first three are inductive only
together with `Foreground`: what the loop knows at each point about the process
it waits for. Without it the handler could clear the slot of a child that nobody
waits for, and `fg` could clear a slot that holds another job. `ExitEndsJobs`
follows from `NoChildForgotten` at the prompt: a child that is not in the table then
was refused a slot. `PromptComesBack` is liveness and stays with TLC.

`ShellPipeProofs` proves `TypeOK`, `RightNeedsLeft` and `EndMeansLeftEnded` of
`ShellPipe` for lines, arrays and buffers of any size. The last two follow from what
each process has open at each point: `ChildHasItsEnds` (a child past the fork has a
left process and the read end or its copy) and `LeftHasItsEnds` (until it is over, the
left process has the write end or its copy, and one that is over with writes still to
make left no reader). So when no process has a write end, the left one is over, and
the reader that sees this is the reader it wrote everything for. `RunsAsWritten`
(`CommandsAsWritten`) is about a line of words around at most one operator and calls
that all succeed. It follows from `AsTyped`, which says what was made of the line at
each point: `args` is the line until an operator is found at `i`, then the line with
NULL there (and, for `>`, at the file's name); the array no longer changes when the
left process exists, so it does not matter which of the two is faster; and the right
process starts at `i + 1`, everybody else at 1. `PipelineEnds` is liveness and stays
with TLC.

## 6. What stays with TLC, and what is not modelled

Liveness (`TaskFinishesWhileExecutorsRun`, `QuietShutdownReturns`, `PromptComesBack`,
`PipelineEnds`) is model-checked only: the proof system has no rules for fairness and
ENABLED. Of the safety properties, the refinement `AbstractPaths` is model-checked only;
all others are proved. No module uses a recursive operator.

Not modelled: FUSE handlers on several threads, which race in every table of
sfs_api.c (the wrappers do not compile as they stand, since `MAXFILENAME` is
defined nowhere; the model takes it for the length of names in sfs_api.h); what a
directory listing holds; host files that cannot be opened; a second session of
the scheduler; memory exhaustion; the tests and build files.
