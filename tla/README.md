# A verification development for XV6Project

The repository holds the xv6 teaching kernel twice. `src/RR` schedules round
robin, `src/Lottery` by lottery; `proc.c` is the only C file of the kernel in
which the two differ. Both add to stock xv6 run-time statistics of processes, a
history of system calls and a few calls that print it. This directory models
the kernel in TLA+, the programs that run on it as far as they exercise it, and
the tool that makes its disk; it model-checks them with TLC and proves with
TLAPS the safety of the process table, the spinlocks, the pipes, the buffer
cache, the log, console input, the lottery, the system call history and the
reference counts and inode locks of the system calls, and that pipes, cache, log and console implement their abstract specifications.

Line numbers refer to the files of `src/RR` unless `Lottery/` is written.

## 1. Inventory

| Component | State | Operations | What is hard | What makes it correct |
|---|---|---|---|---|
| Processes (`proc.c`, `sysproc.c`) | `ptable`, `nextpid`, per CPU `c->proc` | `allocproc fork exit wait kill sleep wakeup yield sched scheduler` | a process frees another one's stack, lock handed across `swtch()`, wakeups that race sleeps, failing allocations | no CPU on a freed stack, no lost wakeup, no orphan without a parent, killed processes exit |
| Traps, timer (`trap.c`, `syscall.c`) | `ticks`, `tickslock` | `trap`, `syscall` | interrupts at any instruction with no spinlock held | ticks reach sleepers; locks are ordered |
| Spinlocks (`spinlock.c`) | `locked`, `ncli`, `intena` | `acquire release pushcli popcli` | interrupts off while a lock is held | mutual exclusion, no interrupt under a lock |
| Lottery draw (`Lottery/proc.c`, `rand.c`) | tickets, random generator | `scheduler`, `random_at_most` | tickets counted without the lock, truncated division | even draw, the holder of the ticket wins, no starvation |
| System call history (`proc.c`, `syscall.c`) | `syscalls_history`, `rscount`, `tscount` | `register_syscall`, `set_last_syscall_info`, `log_syscalls` | compaction of a full table, arguments noted before a call blocks, in a record of ten with no check | recent calls listed once, in order |
| Log (`log.c`) | `log`, log area of the disk | `begin_op log_write end_op commit recover_from_log` | a crash between any two disk writes, recovery included; grouping of calls | groups of calls are atomic, nobody waits for nothing |
| Buffer cache, sleep locks, disk (`bio.c`, `sleeplock.c`, `ide.c`) | `bcache`, buffer locks, `idequeue` | `bread bwrite brelse`, `acquiresleep releasesleep`, `iderw ideintr` | lock dropped between lookup and lock, request queue shared with interrupts, spurious wakeups by `kill()` | one buffer per block, one holder, no lost change, no lost request |
| Pipes (`pipe.c`) | ring buffer, `nread`, `nwrite`, open flags | `pipewrite piperead pipeclose` | wrapping counters, sleeping on both sides, ends closed by different processes | FIFO stream, honest results, page freed once |
| Open files (`file.c`, `sysfile.c`) | `ftable`, `ofile[]` | `filealloc filedup fileclose`, the calls on files | reference counts, work after the lock is dropped, calls undone half way | the last reference closes, nothing leaks |
| Inodes (`fs.c`) | `icache`, bitmap, dinodes, directories | `ialloc iget ilock iput bmap itrunc dirlookup dirlink namex` | reference and link counts, free on last `iput`, lock order along paths | no use of a freed inode or block, tree and bitmap agree |
| Memory (`kalloc.c`, `vm.c`) | free list, page tables, `sz` | `kalloc kfree allocuvm deallocuvm copyuvm freevm` | undo of half-done growth | every page owned once |
| exec (`exec.c`) | the new image until it is committed | `exec` | every step can fail with an inode locked and pages allocated | the old image or the new one, never a leak |
| Console (`console.c`, `kbd.c`, `uart.c`) | edit buffer, `cons.lock` | `consoleintr consoleread consolewrite` | interrupt against reader, lock order with `ptable.lock` | lines delivered once, no deadlock |
| User library and programs (`ulib.c`, `umalloc.c`, `printf.c`, `sh.c`, `init.c`, `cat.c`, `ls.c`, `grep.c`, ...) | heap, parser, buffers | `malloc free printint matchhere parsecmd runcmd` | rings, buffers and recursion at their edges | the text, tree or block asked for |
| Tests (`usertests.c`, `forktest.c`, `stressfs.c`) | – | sequences of calls | what they expect is the nearest thing to a specification of the calls | the expectations hold at every interleaving |
| mkfs (`mkfs.c`) | `freeinode`, `freeblock` | `ialloc iappend balloc` | bitmap and sizes written last | a consistent first image |
| boot, interrupt controllers, generated code | – | – | device programming | – |

How they interact. Everything that waits calls `sleep()` and is woken by
`wakeup()` of the process component, under a lock of its own that `sleep()`
exchanges for `ptable.lock`. System calls enter through `trap()`, pass the file
layer to pipes, the console or inodes, and inodes reach the disk through the
log, the cache and the IDE driver. The timer interrupt drives `ticks` and
`yield()`. `kill()` reaches into every sleep. `register_syscall()` runs on the
way out of every call and, through an index one past the end of
`syscall_count[]`, into the tickets of the lottery.

## 2. Modules

| Module | Models | Kind |
|---|---|---|
| `Proc` | processes, schedulers, traps, `sys_sleep` | component |
| `ProcProofs` | theorems about `Proc` | proofs |
| `Lottery` | ticket count, draw and pass of the lottery scheduler | component |
| `SyscallLog` | system call history | component |
| `AtomicDisk` | what the log promises | abstract specification |
| `Log` | log, the cache it pins its blocks in, disk, crashes | component, refines `AtomicDisk` |
| `BlockStore` | what the buffer cache promises | abstract specification |
| `Bcache` | buffer cache + sleep locks + IDE queue, composed | component, refines `BlockStore` |
| `ByteStream` | what a pipe promises | abstract specification |
| `Pipe` | a pipe, its two ends and their processes | component, refines `ByteStream` |
| `Spinlock` | `spinlock.c`: locks, nesting of `pushcli`, what `sched()` does with `intena` | component |
| `LineStream` | what console input promises | abstract specification |
| `Console` | console input + spinlocks + scheduler + interrupts, composed | component, refines `LineStream` and implements the rules of `Spinlock` |
| `Inodes` | the disk layout of `fs.c` as a value | pure functions |
| `Mkfs` | `mkfs.c`: the first image | pure functions |
| `Memory` | `kalloc.c`, `vm.c` as values | pure functions |
| `Calls` | system calls on files, directories, pipes, memory and families of processes, over `Inodes` and `Memory` | component |
| `UserTests` | `usertests.c`, `init.c`, further races and limits, as sequences of calls | programs of `Calls` |
| `Programs` | `sh.c` with its parser, and the small programs | programs of `Calls` |
| `Library` | grep, lexer, strings, numbers, `umalloc.c`, `kbdgetc()`, `bootmain()`, the generator's refill, each beside what it is for | pure algorithms |
| `LogProofs`, `BcacheProofs`, `PipeProofs`, `LotteryProofs`, `SyscallLogProofs`, `CallsProofs` | theorems about the module of that name | proofs |
| `ConsoleProofs` | theorems about `Spinlock` and `Console` | proofs |
| `MC*` | model values and symmetry for TLC | model checking |

Names of variables and actions are those of the C code where there is one.
Definitions called `M_...` are mutants: plausible bugs of the definition they
are named for. They are used in no specification; putting one in the place of
its original must make the property named in `PROJECT.json` fail.

### Proc

`state pid parent chan killed kstack` are the fields of `struct proc`, indexed by
slot, `proc[c]` is `c->proc`, `ptlock` and `tickslock` hold the CPU that holds
the lock. `pc[p]` is where process p is in its kernel code, and `mode[c]` what
the CPU does about interrupts. Grain: a critical section that takes one lock is
one step; a lock kept while another is acquired, or kept across `swtch()`,
stays held over a step boundary. So `exit()` is `Exit` (up to ZOMBIE, with
`ptable.lock`) and `ExitSched` (which needs `tickslock`, for the turn-around
time this project adds); `sleep(&ticks, &tickslock)` is `SleepOnTicks`,
`Resume`, `SysSleepAgain`; `fork()` is four steps since its child is visible as
EMBRYO to every other CPU in between and can be named by `kill()`.
Allocation fails nondeterministically. `Lottery = TRUE` lets a pass of the
scheduler begin with any RUNNABLE process, which covers every outcome of the
draw and round robin too; `FALSE` is `RR/proc.c`, which begins with the first.
Both go on from the slot they stopped at. User programs are arbitrary.
`ticks` appears as the ticks each sleeper has left (a relative count, so the
model needs no bound on time). A panic halts its CPU, and every other CPU stops
at its next console output.

### Lottery

The scheduler of each CPU: `Count` (one table entry per step, without
`ptable.lock`), `Draw`, `AcquireTable`, then `Skip` or `Dispatch` per entry,
`SwitchBack`, `EndPass`. The process side is abstract (RUNNABLE, RUNNING,
SLEEPING). `Giving(v, max)` is the set of generator values for which
`random_at_most(max)` returns v. `genrand()` may yield anything.

### SyscallLog

`sf[0 .. RSCOUNTMAX-1]` with `rscount`, `tscount`; calls are numbered in order
of registration, a record's arguments are the processes that noted them, at most
`MAXARGS` (`args[10]`, `proc.c:18`). `set_last_syscall_info()` does not compare
`args_c` with anything: an argument more goes over `args_c`, which lies behind
`args[]`, and out of the record. That is `overrun`, and the model stops there, as
memory may hold anything from then on. A `read()` with bad arguments notes none.
`Moved` and `RestartAt` are the compaction of `register_syscall()`. Counting
call number `MAXSYSCALL` writes past `syscall_count[]` into `ticket`, as the
layout of `struct proc` has it (`Counted`).

### Log

Processes run `BeginOp`/`BeginSleep`, `Change` (a locked buffer),
`LogWriteCheck` and `LogWrite` (the size test is made before `log.lock` is
taken, so they are two steps), `EndOp`, and the last one out `WriteLog`,
`Commit`, `InstallTrans`, `Erase`, `EndCommit`, one disk write per step. `Crash`
may come between any two steps and keeps only `disk`, `dlog`, `dhead`;
`RecoverHead`, `RecoverInstall`, `RecoverErase` are `recover_from_log()`.
`Evict` and `ReadBlock` are the cache acting on unpinned buffers.
Refinement to `AtomicDisk`: memory is what `bread()` returns, the disk is what
a reboot would restore (`AfterReboot`), the active calls are those between
`begin_op()` and `end_op()`. `WriteLog`, `InstallTrans`, `Erase` and recovery
map to stuttering, `Commit` to the atomic commit.

### Bcache

`bget()` (hit, recycle, panic) is atomic under `bcache.lock`; the sleep lock is
taken in a later step, so another process can come in between. `Iderw` appends
to the queue and sleeps, `IdeIntr` completes the head, wakes its owner and
starts the next. `Kill` wakes any sleeper, which must test again. Any unused
buffer may be recycled, not only the least recently used one. The disk makes no
errors (`ide.c:118`). Refinement to
`BlockStore`: a block's contents are those of its valid buffer or of the disk,
its holder the owner of its buffer's lock.

### Pipe

One page with its ring buffer and the counters modulo `W`; `p->lock` is held
over step boundaries, so that `kill()`, which does not take it, comes between
the test of `killed` and `sleep()`. `Close` is `fileclose()`: the reference is
dropped first, `PipeClose` follows in a step of its own. The uninitialised
page gives arbitrary initial bytes. Refinement to `ByteStream`: the queue is
the part of the ring between the counters.

### Spinlock and Console

`Spinlock` has `lock[l]`, `ncli[c]`, `intena[c]` and the interrupt flag `on[c]`;
`acquire` is `pushcli` followed by the wait for the lock, `release` ends with
`popcli`, `Switch` is `sched()` saving and restoring `intena` around `swtch()`.
The specification `Spinlocks` lets CPUs take and give locks in any nesting,
provided they give back what they have.
`Console` is made of those operators: `spin[c]` is the lock a CPU waits for, and
every action that takes a lock is one action of `AcquireAt`/`ReleaseAt`. Readers
run `ReadEnter`, `ReadEmpty`, `ReadSleep`, `ReadAwake`, `ReadByte`, `ReadDone`
(`sleep()` with its exchange of locks in full), are preempted (`Timer`,
`Yield`), move between CPUs (`Dispatch`, `Forkret`), and exit when killed, which
prints under `ptable.lock`. `consoleintr()` is `Interrupt`, `IntrAcquire`, one
`Key` per character, `Wakeup`, `IntrEnd`, `procdump`, on top of whatever CPU 1
does. Abstractions: an `acquire` that finds the lock free is one step; `intena`
counts as FALSE where `ncli` is 0 and nobody reads it; processes exit when they
are killed (a voluntary exit acts the same); the timer comes at user code
only; only `cons.lock` and `ptable.lock` are there. Refinement to `LineStream`:
the queue is the ring between `r` and `w`, the line being edited that between
`w` and `e`.

### Calls, Inodes, Memory, Mkfs

`disk` is a value with the functions of `fs.c` on it (`Bmap`, `Writei`,
`Dirlink`, `Itrunc`, ...), starting from `Image` of `Mkfs`; `mem` likewise with
those of `kalloc.c` and `vm.c`. A size counts units, a directory entry, a word
of data or an entry of an indirect block being one. `ic` and `ft` are `icache`
and `ftable`, `proc[p]` a process with its descriptors, cwd and address space,
`loc[p]` the locals of the call it is in. Grain: what a call does from the
moment it has an inode's sleep lock up to its next wait for one is a step, and
so is every update of a reference count under a spinlock. So `namex()` is one
`WalkElem` per element, `create()`, `link()` and `unlink()` are as many steps as
they lock inodes, and `iput()` is `IputLock`, `IputFree`, `IputDeref`. The log,
the cache and the sleeping are seen through what `AtomicDisk`, `BlockStore` and
`Proc` promise. `todo[p]` is what the process still has to do; an element is a
call with the results its caller accepts (`want`), what it is to see (`see`)
and what it does on failure (`alt`).
`UserTests` writes each test of `usertests.c` as such a sequence; a loop runs
as often as it takes to fill a block, a pipe, a table or a cache of the small
instance. `Programs` parses command lines as `sh.c` does and makes the
sequences of the processes that run them.

### Library

Recursive C functions are RECURSIVE operators (no theorem is about this module),
arrays are functions, and a NUL is "". Each group ends with a property over
all small inputs: `GrepMatches` compares `match()` with the set of words a
pattern stands for, `HeapParted` follows all short sequences of `malloc()` and
`free()`, `KeysDecoded` all pairs of scan codes, and so on; `LibraryRight` of
`MCConsole` conjoins them and is evaluated once.

## 3. Runs

| Run | Checks | Bounds | Result |
|---|---|---|---|
| `Proc_safety` | `SwitchSafe StackLive WaitJustified SleepJustified ParentAlive ReapedByParent` | 3 slots, 2 CPUs, pids to 3, `kill` of 0, 1, 2, sleeps of one tick, any schedule | holds |
| `Proc_live` | `RunnableRuns KilledExits SleepEnds OrphansReaped` | 3 slots, 1 CPU, round robin, `kill(2)` | holds |
| `Proc_stale_kill` | `NewProcNotKilled` | 3 slots, 1 CPU, `kill(0)` | **violated** |
| `Proc_deadlock` | `NoLockCycle` | 2 slots, 2 CPUs | **violated** |
| `Lottery` | `DrawUniform WinnerHoldsTicket RestOfPassRuns RunnableRuns` | 2 processes, 2 CPUs, 1 to 3 tickets, generator 0 .. 10 | holds |
| `SyscallLog` | `HistoryKept` | 2 processes, table of 6, reads of 2 arguments, records with room for 2, 8 calls | holds |
| `Log` | `LogNotReused SleepersHaveWaker ImplementsAtomicDisk WriteAhead SleeperCanEnter` | 2 processes, 2 blocks, 2 contents, 2 crashes | holds |
| `Pipe` | `SleepersJustified NotUsedAfterFree ImplementsByteStream HonestReturns` | 3 processes, 2 byte values, buffer of 2, counters modulo 4, counts to 2 | holds |
| `Bcache` | `BufferStable SleepersJustified ImplementsBlockStore BreadProceeds` | 2 processes, 2 buffers, 3 blocks, 2 contents | holds |
| `Console` | `LibraryRight SleepersJustified SpinCyclesNeedExit ImplementsLineStream Spinlocks` | 2 readers, 2 CPUs, buffer of 3, counters modulo 6, reads of 2, 3 of the keys a, Enter, ^D, ^H, ^U, ^P, 1 kill; texts of up to 6 characters, heap of 9 units | holds |
| `Calls` | `RefsMatchHolders LocksExclude DiskConsistent PagesOwnedOnce LockCyclesNeedIput NoPanic CallsReturnAsTested` | 4 processes, 15 inodes, 30 blocks of 4 units, cache of 7 inodes, 6 files, 5 descriptors, 44 pages | holds |
| `Calls_deadlock` | `NoLockCycle` | the same, `linkunlink()` of `usertests.c` | **violated** |

Why the bounds are enough to be interesting. Three slots are init, a process and
its child: the smallest family in which a parent exits before its child.
Two CPUs are what the `Makefile` gives QEMU (`CPUS := 2`). Pids are never
reused within a run except by the reuse of slots, so `MaxPid` bounds the number
of forks. In `Log` a transaction of two blocks is the least that can be torn;
two crashes allow one in recovery; `NLOG = 3` puts the size limit of
`log_write()` within reach, so that its panic is part of the run. In `Bcache`
three blocks for two buffers force recycling. In `Pipe` the counters wrap after
two rounds of the ring. `SyscallLog` compacts its table twice,
and its records are as tight as they can be: one read fills one, a second argument of
anybody overruns it (six arguments and room for ten in the code). In `Console` the
ring and its counters wrap, a line can fill the buffer, and the second reader
can take what the first was woken for. In `Calls` every table can be filled: a file outgrows its
direct blocks, the inode cache, the files, the inodes, the blocks and the pages
run out, a directory grows past a block; two processes race in every pair of
calls of `Races`.

`CHECK_DEADLOCK FALSE` stands where the system may stop: in `Proc` (a panic, or
all pids used up), `Log` (panic), `Bcache` (`bget: no buffers`), `Pipe` (both
ends closed), `SyscallLog` (the bound on calls) and `Console` (the lock cycle of
`exit()`). `Lottery` and `Calls` are checked for deadlock; in `Calls` the action
`Done` says when processes may stop: after the last call, a panic, or in a lock
cycle.

### What the violated runs show

- `Proc_stale_kill`: `kill()` looks at the pid of free slots too and `allocproc()`
  does not clear `killed`, so `kill(0)`, or a `kill()` of a pid whose `fork()`
  failed, makes the next process in that slot die at birth.
- `Proc_deadlock`: `exit()` (this project's turn-around time) takes `tickslock`
  under `ptable.lock`, the timer interrupt and `sys_sleep()` the other way round;
  with two CPUs both wait for ever with interrupts off.
- `Calls_deadlock`: `iput()` acquires the sleep lock of an inode it only wants to
  dereference. `open(O_CREATE)` of a new name has locked the new inode
  (`sysfile.c:296`), entered its name and unlocked the directory, and waits in
  `iput()` for the directory (`sysfile.c:313`), which `unlink()` of that name has
  locked in between and keeps while it waits for the inode (`sysfile.c:241`). For a
  name that exists `create()` drops the directory before it locks the inode
  (`sysfile.c:285`), and there is no cycle. `LockCyclesNeedIput`, which holds, says that
  every cycle has somebody in `iput()`. `linkunlink()` of `usertests.c` was written to
  look for such deadlocks.

### What else was met

These are part of the models and the subject of no run: nothing in the
repository promises otherwise, or a property states the exception, or, as with
`iput()`, the properties checked are about what the leak does not disturb.

- After the first compaction of the history `rscount` is one too high and one record
  is listed twice from then on (`proc.c:93`; `ListedInOrder` leaves the slot out).
- `args[]` of a record in the history is overrun: by two readers blocked while the same
  record is next, or by reads in the record at which a compaction goes on, whose `args_c`
  is not cleared (`proc.c:94`). `HistoryKept` says that these are the two ways, and what
  holds until then.
- A process killed between its test of `killed` and `sleep()` in `piperead()`,
  `pipewrite()`, `consoleread()` or `sys_sleep()` is not woken by the `kill()`; a
  killed writer on a full pipe returns without waking the readers.
- `iput()` looks at `ref` and decrements it in two critical sections of `icache.lock`
  (`fs.c:337-339`, `:350-352`). A `close()` and an `unlink()` that have the last two
  references of an inode without links can both see 2, and the inode is never freed,
  against the comment above `iput()` (`fs.c:328`). `linkunlink()` of `usertests.c` reaches it.
- `create()` and `link()` can enter a name in a directory that was removed after
  `nameiparent()`; the inode leaks (`astray` in `DiskConsistent`).
- `link(f, "d/.")` finds the name `.`, and `dirlink()` then puts the very inode it has
  locked (`fs.c:561`): the process waits for itself.
- A removed directory keeps its `..`; when the parent is gone too, a lookup panics
  (`fs.c:311`). A directory that cannot grow panics in `dirlink` (`fs.c:576`).
- `sbrk(-sz)` frees everything and returns -1 (`proc.c:265`).
- `mkfs` gives the root a block more than its entries need when they fill their
  blocks (`mkfs.c:161`).
- `grep` forgets a partial line that a short read leaves at the start of its buffer
  (`grep.c:29`); `>>` of the shell writes at the start of the file (`sh.c:392`);
  `itoa()` of `sysfile.c:71` writes the digits backwards; `io_intensive` opens "".
- The size check of `log_write()` is made outside `log.lock`, and the log area is a
  block shorter than the reservation of `begin_op()` assumes; the calls of this
  file system cannot reach either. That the reservation makes up for the early
  check, so that `log.lh.block[]` is never overrun, is part of the theorem
  `NoLostWakeup` of `LogProofs`.

### Fairness

`Proc`: each CPU's scheduler and timer go on (`SF` on `SchedStep`, `TimerStep`,
`TickWakeup`; strong, since a spinlock that others take in between becomes free
again and again), and a process in the kernel that gets the CPU again and again
gets a step done between two timer interrupts. User code is under no fairness:
a process may loop for ever in user mode, which is what makes `RunnableRuns`
depend on the timer. `OrphansReaped` assumes in addition that init keeps
calling `wait()`, as `init.c` does. All four properties are up to `Stuck`, the
two ways in which this kernel stops by itself: a panic, and the lock cycle
above. `Log`: calls end and commits proceed. `Bcache`: the disk answers, who has a
buffer goes on and releases it. In neither is anybody promised to get in:
`wakeup()` only makes a process RUNNABLE, and another one may enter and commit, or
lock the buffer and wait for the disk, before it runs, again and again. So
`SleeperCanEnter` and `BreadProceeds` say that who sleeps is awake at last at a
moment when the log, or the buffer, is free, and that a request to the disk
is answered and `iderw()` returns. `Lottery`: CPUs run, processes give the CPU back,
and the number 0 is drawn again and again, as a generator that does not avoid a
value does. `Pipe`, `Calls`, `Console` and `SyscallLog` are checked for safety only
and assume none.

## 4. Proofs

Every component with a proof module has an inductive invariant `IInv`, proved from
the one named assumption of its module about its constants; `Invariant` is
`Spec => []IInv` (in `SyscallLogProofs` and for `Spinlocks` it is closed inside the
theorems, in `CallsProofs` it is called `InvHolds`). Each is about every value of the constants: any numbers of processes,
CPUs, buffers, blocks, crashes or keys, any size of a ring or a table.

| Theorem | Statement | Run that checks it |
|---|---|---|
| `ProcProofs.TypeCorrect` | `Spec => []TypeOK` | `Proc_safety` |
| `ProcProofs.SwitchSafety`, `StackSafety` | `Spec => []SwitchSafe`, `Spec => []StackLive` | `Proc_safety` |
| `ProcProofs.Parenthood`, `ReapSafety` | `Spec => []ParentAlive`, `Spec => ReapedByParent` | `Proc_safety` |
| `ProcProofs.PidUniqueness` | `Spec => []PidsUnique` | – |
| `ProcProofs.NoLostWakeup`, `NoLostTick` | `Spec => []WaitJustified`, `Spec => []SleepJustified` | `Proc_safety` |
| `LogProofs.NoLostWakeup` | `Spec => [](SleepersHaveWaker /\ Len(head) <= LOGSIZE)` | `Log` |
| `LogProofs.NotReused`, `WritesAhead` | `Spec => []LogNotReused`, `Spec => WriteAhead` | `Log` |
| `LogProofs.DiskRefinement` | `Spec => ImplementsAtomicDisk` | `Log` |
| `BcacheProofs.Stability`, `NoLostRequest` | `Spec => []BufferStable`, `Spec => []SleepersJustified` | `Bcache` |
| `BcacheProofs.StoreRefinement` | `Spec => ImplementsBlockStore` | `Bcache` |
| `PipeProofs.PageSafety`, `NoLostWakeup`, `ReturnsHonest` | `Spec => []NotUsedAfterFree`, `Spec => []SleepersJustified`, `Spec => HonestReturns` | `Pipe` |
| `PipeProofs.StreamRefinement` | `Spec => ImplementsByteStream` | `Pipe` |
| `ConsoleProofs.InterruptsOff`, `NoSpinPanic` | `Spinlocks => []HeldOff`, `Spinlocks => []~panicked` | `Console` checks `Spinlocks` |
| `ConsoleProofs.UsesSpinlocks` | `Spec => Spinlocks` | `Console` |
| `ConsoleProofs.NoLostWakeup`, `CyclesNeedExit` | `Spec => []SleepersJustified`, `Spec => []SpinCyclesNeedExit` | `Console` |
| `ConsoleProofs.LineRefinement` | `Spec => ImplementsLineStream` | `Console` |
| `LotteryProofs.EvenDraw`, `WinnerIsHolder`, `RestRuns` | `Spec => []DrawUniform`, `Spec => WinnerHoldsTicket`, `Spec => RestOfPassRuns` | `Lottery` |
| `SyscallLogProofs.HistoryIsKept` | `Spec => []HistoryKept` | `SyscallLog` |
| `CallsProofs.RefCounts`, `LocksExclusive` | `Spec => []RefsMatchHolders`, `Spec => []LocksExclude` | `Calls` |
| `CallsProofs.LockCycles` | `Spec => []CycleOfDirectories` | `Calls` checks the stronger `LockCyclesNeedIput` |

In the proof that a step keeps `IInv` there is a lemma or a step per action, and
below it one per conjunct that the action can disturb.

### Assumptions

They say what the code has, and no more: sets of processes are finite where they
are counted (`ptable` has `NPROC` slots); markers such as `NoProc` are not
processes; `PIPESIZE` and `INPUT_BUF` divide the range `W` of the counters, which
are `uint`s, as the powers of two of `pipe.c` and `console.c` do 2^32;
`MAXOPBLOCKS` is at most `LOGSIZE`, which is three times that in `param.h`; the
end of a line is none of the editing keys; the tickets of all slots together are
at most `RAND_MAX`.

### Proc

None of the invariants is inductive alone. `IInv` conjoins them with what they lean
on:

- `ForkInv`: a process in `fork()` owns its EMBRYO slot alone and fills its
  fields in the order of the code. Without it `ForkFail`, which runs without
  `ptable.lock`, could free somebody else's slot.
- `PcInv`: where a process can be, given its state (a sleeper is in `wait()` on
  itself or in `sys_sleep()` on `&ticks`; a zombie is in `exit()` or beyond).
- `CpuLive`, `InitAlive`, `ParentInv`: a CPU is in a live slot, init stays, init has
  no parent and nobody is his own.
- `TickInv`: who holds `tickslock`, and that it keeps its CPU. `SleepJustified`
  needs it: a tick cannot be counted between the test in `sys_sleep()` and the
  sleep.

`SwitchSafe` carries the weight: `ptable.lock` is held by the CPU whose process is
no longer RUNNING, hence the zombie that `wait()` frees, under `ptable.lock`, is on
no CPU.

### Log

- `CountInv`, `PhaseInv`: `log.outstanding` counts the calls, and a commit has the
  log for itself; a sleeper in `begin_op()` has a commit or a call to wait for.
- `HeldInv`, `RoomInv`: each call in progress may still add as many blocks as it has
  not yet used of its `MAXOPBLOCKS`, and with `log.lh` these fit in `LOGSIZE`. The
  blocks to come are counted as pairs of a call and a number, so that two calls
  changing one block, absorption, and the end of a call that used less are steps
  on sets. It is why `LogWrite` needs no second look after `LogWriteCheck`.
- `HeadInv`, `TailInv`, `DirtyInv`: the header on the disk names blocks only from
  `Commit` to `Erase`, exactly those of `log.lh`, which are pinned as far as they
  are not installed.
- `CleanInv`, `LogInv`: the unpinned part of the cache is the disk, the log is the
  cache as far as `write_log()` has come, and the home locations are the log as
  far as `install_trans()`, before or after a crash, has come.

For the refinement, what a reboot would restore (`AfterReboot`) is shown to be
the same before and after every step but `Commit`, where it becomes the memory.

### Bcache

- `RefInv`: `refcnt` is the number of processes on the buffer, so what `bget()`
  recycles belongs to nobody; `BufInv`: those who are on it want its block;
  `OneBuffer`: no block has two.
- `OwnInv`, `SleepInv`: the sleep lock is with the process between
  `acquiresleep()` and `releasesleep()`, and who sleeps for it waits for somebody.
- `FlagInv`, `QueueInv`: a request in the queue is there once, its process waits for
  it, and a process that waits has its request there or answered; the head of
  the queue is what the disk works on.
- `CleanInv`: valid and not dirty is equal to the disk, unless its holder is changing
  it. With `OwnInv` it makes the contents of a block well-defined at `brelse()`.

### Pipe

- `LockInv`: the five places in a critical section are those that have `p->lock`.
- `EndInv`: a process in a call has its end open; the two processes on their way
  into `pipeclose()` are the last of their end. Hence the page is freed once.
- `CountInv` and the lemmas about counters modulo `W` (`Wrap`, `Distance` and those
  after it): the ring is never overrun when the counters pass 2^32, and the
  queue after a write is that before it with a byte appended.
- `SleepInv`, `FoundInv`: a sleeper has been passed over only by a critical section
  that is about to wake it, or was left by a writer that had been killed.

### Spinlock and Console

`InterruptsOff` and `NoSpinPanic`: however locks are nested, `ncli` is the number of
locks a CPU has or waits for, interrupts are off while there is one, and no panic
of `spinlock.c` is reached. The invariant is `SpinType /\ HeldOff` itself;
`HeldMore` and `HeldFewer` follow the cardinality of the set of locks held.
`UsesSpinlocks` shows every step of `Console` to be one of `Spinlocks` or to leave
the locks alone, hence both hold of the kernel around console input.

The invariant of `Console`:

- `LockInv`, `SpinInv`: from where its thread is, or the interrupt on top of it,
  follows what a CPU has locked and what it waits for. `CyclesNeedExit` follows:
  of the CPUs in a cycle one has `ptable.lock` and waits, and only `exit()` does.
- `ThreadInv`: one CPU per process, and a process that has none is in `sched()`.
  Without it two CPUs could share a thread and its locks.
- `WaitInv`: on the way to sleep the ring is empty as long as `cons.lock` is held;
  afterwards a line can be finished only by a `consoleintr()` that then wakes.
- `RingInv`, `LineInv`, `LeftInv`: the indices are in order around the ring, at most
  `INPUT_BUF` apart; the line being edited has no end of line in it, which is
  why `^U` stops at `w`; who reads has something left to read.

For `LineRefinement` the ring is read as text (`Text(b, i, m)`); the lemmas say what
taking, putting and dropping a character do to it (`TextGet`, `TextPut`, `TextDrop`)
and that line and queue join (`TextJoin`), wherever the indices wrap.

### Lottery

`Bins` shows that the preimages of a value under `random_at_most()` are an interval
of `BinSize` numbers, from the division with remainder alone; `CountInv` that every
total counted is in the generator's range. For the winner, `LockInv` and `RunInv` say
that during a pass nobody becomes or stops being RUNNABLE, and that tickets are
gained only by processes that run, so that `passed_tickets` is the number of
tickets in front of the slot (`PassedInv`). `Forgotten` gives `RestRuns`: the rest of
a pass has `chance = 0`, and nobody loses any more.

### SyscallLog

Two things are shown: that the calls are listed as they should be while no record
has been overrun, and when one is. `IInv` gives every slot its call: until the first compaction slot s has call s + 1
(`Fresh`); afterwards the slots run on in sequence, but for the slots 0 and `Half`,
which share one old call (`Compacted`). `RegisterIInv` shows that a compaction makes
the second of either. The size of the table is even.
For the arguments, `ClearAhead` says that the records to come are clear but for the one
after a compaction, and `OwnNoted` that the record in use, unless it is that one,
has of each process only what it has noted since it entered its read. As a read notes
no more than a record has room for, a full record then has arguments of another read
in progress (`NoteOverrun`).

### Calls

The theorems hold for any number of processes, descriptors, files, cache entries,
inodes and pages, any first image and any sequences of calls (`Scenarios`), the
programs of `UserTests` and `Programs` being one choice. `RefsMatchHolders` counts
the references in the file table, the working directories, the descriptors
and the locals of calls on their way; by itself it says nothing of which locals
those are. `IInv` adds:

- `IcOK`, `FtOK`, `ProcOK`, `LocOK`: the fields that references are kept in, and that
  a file in no use and a pipe refer to no entry. The data of the disk, of the
  pages and of address spaces are left open: no reference depends on them.
- `PlacesOK`: at every label of a call, which locals may hold a reference (`Fits`:
  `ip` at `IpAt`, `dp` at `DpAt`, `cur` in `namex()` only), where a call goes on after
  `iput()` (`Resume`), and when the working directory is already given up (`Ends`).
  Without it a step that sets a local could drop what was in it.
- `LocksOK`: an entry is locked by p exactly if it is the one p keeps at its label
  (`Kept`) or is freeing in `iput()` (`Freeing`), and never both.
- `OneEntryPerInode`, which `iget()` keeps because it takes a free entry only if
  no entry in use has the inode.

`LocalsOf`, `FilesOf`, `CwdsOf` and `FdsOf` are the holders as sets. `AnyStep` is
the argument all actions share: a step of p that changes the references of p
and at most one file, and `ref` by the same difference, keeps the counts; the
lemmas before it follow cardinalities when one member comes or goes. `Fork` fills two
processes and is counted for itself (`ForkIs`).
`HeldLocks` follows: what is kept or freed is referred to by a local, hence
`ref` is positive, and `iget()` recycles nothing that is locked; with `OneEntry` that is
`LocksExclusive`.

`LockCycles` is as far as these facts go: who waits without being in `iput()`
and has something locked is in `create()` or `unlink()`, has `dp` and wants `ip`.
That such processes cannot wait in a circle, because directories form a tree,
is the rest of `LockCyclesNeedIput` and rests on the contents of the disk.

TLC checked the conjuncts of `IInv` and `CycleOfDirectories` on the instance of
`Calls` first. The proof found two alternatives of `Found` that overlapped for the
second path of `link()`; the model now has their conditions disjoint, as the
call that a path belongs to makes them in the code.

### Only model-checked

Liveness and the properties stated with fairness (the prover has neither
fairness nor ENABLED): `RunnableRuns`, `KilledExits`, `SleepEnds`, `OrphansReaped`,
`SleeperCanEnter`, `BreadProceeds`.

Of `Calls`: `DiskConsistent` and `PagesOwnedOnce`, and with them the tree order that
`LockCyclesNeedIput` has beyond `LockCycles`. `writei()`, `itrunc()`, `allocuvm()`,
`copyuvm()`, `deallocuvm()` and `freevm()` are loops over blocks and pages, here
folds; what a fold computes for every input needs induction over data, which is out
of the prover's reach. `NoPanic` and `CallsReturnAsTested` are about the programs
of `MCScenarios`: other sequences of calls, as legal as these, do panic (section 3).

`Library` and `Programs` declare RECURSIVE operators, which the prover does not
take. And of course the three properties that do not hold.

## 5. Not modelled, and why

- The run-time statistics of processes and the calls that print them: no other
  state depends on them. The `tickslock` that one of them takes in `exit()` is
  modelled.
- Start-up but for `bootmain()`, interrupt controllers, device registers, trap
  frames, `seginit` and the loading of page tables into the processor: device
  programming in a fixed order or hardware layout.
- What is printed, on the screen or on the serial line; the locks taken to print
  are modelled where they matter (`Console`).
- `fsfull()` of `usertests.c`, which its `main()` does not call; what is measured in
  time. A loop of a test runs as often as the small instance needs.
- Crashes together with directories: `Log` has crashes and blocks, `Calls` has
  directories and no crashes. What a crash leaves of an unlinked open file, which
  no code looks for, is in neither.
- `vectors.S` and other generated files.
- Data races of C: `genrand()` is called by all CPUs without a lock and is taken to
  yield any value.

## 6. Plan

Done, in this order: `Proc` (everything else sleeps and is scheduled by it), `Log`,
`Pipe`, `SyscallLog`, `Bcache`, `Lottery`; then `Inodes`, `Memory` and `Mkfs` under
`Calls` with its programs, `Library`, `Spinlock` and `Console`.

Proved: invariants of all of these state machines, the four refinements, that
`Console` keeps to `Spinlocks`, and of `Calls` the reference counts, the cache
entries and who has which inode locked.

Left: `DiskConsistent` and `PagesOwnedOnce` for every value of the constants, which
need what the functions of `Inodes` and `Memory` compute and so induction over
data; and, as work on the model, crashes together with directories.
