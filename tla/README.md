# A TLA+ model of the OSTEP course labs

The repository holds a student's solutions to four operating-system labs. Each
lab changes a few files of an xv6 kernel (x86 in Lab2, RISC-V in Lab3 and Lab4)
or adds user programs (Lab1); the rest of xv6 is not in the repository. These
modules model the parts that carry the logic of the labs: the buffer cache with
per-bucket locks (Lab4), user memory and the process table (Lab3), the process
table, the lottery scheduler, the system calls and the boot table (Lab2), and the
programs that use processes and pipes (Lab1).

## Inventory

| part | state | operations | depends on |
|---|---|---|---|
| Lab4 `bio.c`, buffer cache | buffers (`used`, key, `valid`, `refcnt`, data, sleep lock), bucket lists, one spin lock per bucket | `binit` `bget` `bread` `bwrite` `brelse` `bpin` `bunpin` | disk (virtio), log and file system as callers |
| Lab2 `proc.c`, process table | `ptable`, `ptable.lock`, `nextpid`, contexts, `cpu->proc` | `allocproc` `userinit` `fork` `exit` `wait` `scheduler` `sched` `yield` `forkret` `sleep` `wakeup` `kill` | `trap.c` (timer, killed check), `sys_sleep` |
| Lab2 lottery: `scheduler`, `settickets`, `rand.c` | tickets, slices, seed | draw, search for the winner, `settickets`, `fork` | process table |
| Lab2 `syscall.c`, `sysproc.c`, `growproc` | size and pages of a process | argument fetching, dispatch, `sbrk` `settickets` `getpinfo` | user memory |
| Lab2 `mp.c` | CPU table | `mpsearch` `mpconfig` `mpinit` | firmware |
| Lab3 `vm.c`, `exec.c`, memory part of `proc.c` | page tables, free pages, sizes, trapframe and usyscall pages | `walk` `mappages` `uvmunmap` `uvmalloc` `uvmdealloc` `uvmcopy` `uvmfree` `freewalk` `uvmclear` `proc_pagetable` `exec` `growproc` `fork` `freeproc` | `kalloc`/`kfree` |
| Lab3 `copyin` `copyout` `copyinstr` | | copy by pages | page tables |
| Lab3 `proc.c`, process table | as Lab2, with `p->lock` per process and `wait_lock` for the parents | as Lab2, `reparent` `setkilled` `killed` | `trap.c` |
| Lab1 programs | pipes, descriptors, argument vector | `pingpong` `primes` `find` `xargs` `sleep` | system calls, shell |

Parts interact by calls under locks (Lab4, Lab2, Lab3), through the timer
interrupt and `swtch` (Lab2, Lab3), through the shared pool of free pages (Lab3),
and through pipes, `fork` and `wait` (Lab1). What is hard:

* Lab4: a buffer is claimed for a bucket by an atomic test-and-set without any
  lock over all buffers; locks are dropped between the lookup and the sleep
  lock and between the sleep lock and the bucket lock of `brelse`.
* Lab2: `ptable.lock` is taken by one thread and released by another, across
  `swtch`; `sleep` hands over from one lock to another; `kill` hits a process
  at any point; slots are given back by a failing `fork` without the lock.
* Lab2 lottery: two loops over the table must agree, in `int` arithmetic.
* Lab3: every function allocates in several steps, any of which can fail and
  must be undone exactly; the lab adds a third special mapping to every place
  that builds or tears down a page table.
* Lab3 process table: two kinds of locks, taken in one order and released in
  another, one of them across `swtch`; `kill` holds only one of them.
* Lab1: who has which end of which pipe open decides whether anybody ever sees
  the end of a stream; pipes fill up, `fork` may fail.
* System calls: addresses and sizes come from the process, and the tests on them
  are unsigned sums that can wrap around.

## Modules

| module | models | |
|---|---|---|
| `BufferCache` | `bio.c` | detailed specification |
| `BlockStore` | what callers of `bread`/`brelse` rely on | abstract specification |
| `BufferCacheProofs` | | inductive invariant and theorems |
| `ProcTable` | Lab2 `proc.c`, `sys_sleep`, timer tick | |
| `ProcTableProofs` | | inductive invariant and theorems |
| `Lottery` | Lab2 tickets, draw, `rand.c` | |
| `LotteryProofs` | | the draw, for every table of processes |
| `AddressSpace` | Lab3 `vm.c`, `exec.c`, memory part of `proc.c` | |
| `AddressSpaceProofs` | | inductive invariant, counting of pages, theorems |
| `ProcLocks` | Lab3 `proc.c`, process table | |
| `ProcLocksProofs` | | inductive invariant and theorems |
| `Pipes` | pipes, descriptors, `fork`, `wait`, `exit` | external, as the programs use them |
| `Primes`, `PingPong`, `FindXargs` | the programs of Lab1 | use `Pipes` |
| `Programs` | | composes the three above |
| `ProgramsProofs` | | the invariants of the programs and theorems |
| `Mp`, `Syscalls` | Lab2 `mp.c`; `syscall.c`, `sysproc.c`, `growproc`, `getpinfo` | |
| `UserCopy` | Lab3 `copyin`, `copyout`, `copyinstr` | |
| `Kernel` | | composes the three above |
| `KernelProofs` | | theorems about `Mp`, `Syscalls` and `UserCopy` |
| `NatFacts` | | the lemmas that the proofs share: on numbers, on functions defined by recursion up to a bound |
| `MC...` | instances for TLC | |

Operators that exist only as a mutated form of another one are marked
"Mutant" in the modules: each is a plausible slip in the code (a forgotten
reset, a dropped lock, an off-by-one), and every property of a passing run has
one that breaks it. `TypeOK` of `ProcTable`, `ProcLocks`, `AddressSpace` and `Kernel` only
documents the types of the variables; no run lists it. In `ProcTable` its parts have names:
`TableOK` for the table and `ClockOK` for the clock.

### BufferCache

An element of `Procs` is one use of a buffer, from `bread` to the end of
`brelse`; a process that holds two buffers at a time is two of them. The
variables are the fields of `struct buf`, `next` and `prev` of buffers and
bucket heads, the owners of bucket locks, and the locals of each call (`pc`,
`want` = (dev, blockno), `at` = the buffer or the scan index, `hv` = the
bucket). A critical section under a bucket lock is one step unless it touches
memory which that lock does not protect: the scan over `used` is one step per
buffer, claiming is one, and `brelse` clears `used` in a step of its own. The
plain read of `used` at line 77 and the test-and-set at line 78 are one step: a
read that finds the flag set, or a test-and-set that does, has the effect
`BgetSkip`. `brelse` reads `b->blockno` between two locks in a step of its own.
A panicking thread stops with its bucket lock held.

`Load` counts the calls that have or want a buffer and the pinned blocks; `param.h` has
`LOGSIZE` = `NBUF` = 30, so nothing keeps it below the number of buffers.

The log and the file system are not in the repository. Their use of the
cache is `Modify`, `bwrite`, `bpin`, `bunpin`: a holder changes the data, writes
it or pins it before `brelse`; the log pins a block once, at most `LOGSIZE`
blocks, and unpins it while it holds it and after it is written.

`BlockStore` is a map from blocks to contents with exclusive sessions. The
mapping takes the content of a block from its valid buffer, if it has one, else
from the disk.

### ProcTable

One step is a critical section of `ptable.lock` up to a `swtch` or to the
release, or a stretch of code outside of it. `ctx` is where `swtch` will resume
a thread, `on[c]` the thread whose stack CPU `c` is on. Between `sched` (the
state is no longer RUNNING) and `swtch` the thread still is on its stack while
`plock` belongs to its CPU. `fork` is split where the code releases the lock:
claim of the slot, stack, copy, RUNNABLE; allocation can fail at each point.
Which runnable process is chosen is open. The timer interrupt (`trap.c`,
external) increments `ticks` under `tickslock` and then calls `wakeup`.
`ticks` has `TickW` bits. `trap` (external) is the check of `killed` on the way
from user code.

### ProcLocks

The same life cycle in Lab3. `lock[p]` and `wait_lock` are the CPUs that hold
them. A step is a stretch between two acquisitions or releases that another CPU
could get in between; in particular the scans of `wait` and `reparent`
take one step per slot (`pp`), the two wakeups of `exit` and its change to ZOMBIE are
steps, and a zombie stays on its stack, its own lock held, until `swtch`.
`allocproc`'s scan for a free slot is one step: it holds one lock at a time and
passes over slots that are in use. A CPU that holds a lock takes no interrupt
(`Interruptible`).

### Lottery

`counter` and `total` are the two loops of `scheduler` in two's
complement with `UINT` values (2^32 in the code), `Won(w)` the slot at which the search stops, `next_rand` and
`random_at_most` those of `rand.c`. Processes come, go and change their tickets
freely. `scheduler` draws from the generator, also when nobody wins;
`rand_init` is a step of every further CPU, which sets `seed` without the lock. (If it
falls between the read and the write of `next_rand` on another CPU, the effect is
that of a restart just before it.) With a smaller `UINT` the seed is its low bits,
which evolve independently of the high ones.

### AddressSpace

A page table is the set of its table pages, each named by the indices that lead
to it, and the leaf entries by virtual page (what they map to, and flags).
Pages are counted, not numbered: `free` is the length of the free list, and
`kalloc` fails exactly when it is 0. Since a page that is lost or freed twice
makes the number of free pages differ from the number of unused ones, nothing
is lost by counting, and the state space has no permutations of pages. A step
is the code around one `kalloc`; so a failure can come between any two
allocations, when another process has taken the last page. Stretches that only
call `kfree` are one step. `th[p]` holds the locals of the system call that
process `p` is in, `space[New(p)]` the table that `exec` builds. A panic of
`vm.c` or `exec.c` sets `panic`. A program is a sequence of segments that pass the
tests of `exec` (`Segment`); `Reject` is the failure of a test or of a read. An address
has one of `UINT64` values. The user virtual address space is larger than
memory (`SpaceAssumption`), as on the machine, so growing never reaches the
special pages. A pid is any number not in use. `copyout` is what `wait` and, through
`either_copyout`, every call that returns data do to user memory: only the usyscall page
has a content that matters, its pid, and `Copied` stands for any other bytes.

### Pipes, Primes, PingPong, FindXargs, Programs

Process `i + 1` is the child of process `i`, and pipe `i` the one that process `i`
creates. `pc` is the next statement of a process, `fds` the pipe ends it has open, `buf`
the messages in a pipe. `read` returns the end of the stream when no process has
the writing end open; `write` blocks when the pipe is full and fails when nobody can
read. `fork` may fail anywhere; `pipe` is taken to succeed. A message is one
`write`: four bytes in `primes`, sixteen in `pingpong`, both of which divide the size
of a pipe, so the kernel never splits one.

`find` runs over a fixed tree (`Dirs`). `stack` are its nested calls, each with its
directory open; `stat` needs a further descriptor and a path within `MAXPATH`. Of the
calls, which have frames of more than 550 bytes each, `Depth` fit on the one page of a
user stack (six or so in the code, fewer than the 13 descriptors): one more meets the guard page
and the process is killed (`Overflow`), and whether what the last one calls still fits is left open. Whether `strcmp` finds a name of
`DIRSIZ` characters equal depends on what lies behind the entry, so both results are
possible. `xargs` reuses `argv` for every line; what earlier lines left in it stays there.
A line is one message, with its words; lines fit the buffer of `xargs`. The command that
`xargs` runs only exits.

### Mp, Syscalls, UserCopy, Kernel

`Mp` has the memory of the firmware as its input: for each of four places (the
EBDA, base memory, and the two halves of the ROM, of which `mpsearch` looks at one) the
pointer is missing, does not sum to zero, or is good, and a table is a sequence of
entries of which `MPPROC` is five units long and the others two. An unknown entry
leaves `p` where it is: the `break` of the default case only leaves the `switch`.

`Syscalls` follows one process. Stack pointer, arguments and buffers are arbitrary
numbers below `UINT`, an `int` has `INT` bytes. `stray` collects the addresses that the
kernel uses for the process and that are not mapped at that time. `allocuvm` and
`deallocuvm` are external. A process that has given back its first page cannot
make another call.

`UserCopy` is one step per round of the loops. `copied` is the sequence of user
addresses in the order of the kernel's side.

## Runs

| run | instance | shows |
|---|---|---|
| `bcache` | 2 uses, 2 buffers, 3 blocks in 2 buckets (two share one), 2 values, 2 pins | the structural invariants and `ImplementsBlockStore`; the uses and the pins exceed the buffers, so the panic is among the behaviours; `PanicOnlyFull`: it does not come before uses and pins together are more than the buffers; `BucketProgress` until then |
| `proc_life` | 2 CPUs, 4 slots, pids up to 4, `kill` of 0, 1, 2 | `OneCPU` `StackInUse` `SlotsOwned` `ParentsLive` `NoLostExit` |
| `proc_ticks` | 2 CPUs, 2 slots, 1-bit ticks, `sleep(1)` | `NoLostTick`, across the wrap of the counter, and `KilledDies` |
| `proc_born_killed` | 1 CPU, 2 slots, `kill(0)` | violated: `NotBornKilled` |
| `lottery` | 3 slots, 5-bit int, tickets 0, 1, 3 and the default 5, 2 CPUs | `ShareExact` `SomeoneWins` without overflow, and `WindowFair` for every table and seed reached |
| `lottery_overflow` | 2 slots, 5-bit int, tickets 1, 15 and the default 5 | violated: `SomeoneWins` |
| `space_pages` | 2 processes, 20 pages, 3 entries per table page, 2-byte pages | `NoPanic` `PagesCounted` `SizeExact` `UsyscallOwn` `CopyFaithful` |
| `plocks` | 2 CPUs, 3 slots, pids up to 3, `kill(2)` | `OneCPU` `SchedLocks` `NoLostExit` `ParentsLive` `WaitLockReleased`; no deadlock |
| `lost_kill` | as above | violated: `NoLostKill` |
| `programs` | sieve up to 19, pipes of 3 messages, 5 directories, 5 lines | `PrimesExact` `GotOther` `FoundAll` `LinesRun` `Terminates` |
| `find_misses` | 4 nested directories, 3 calls fit, a name of `DIRSIZ` characters | violated: `AllFound` |
| `calls` | tables of up to 4 entries, 5-bit addresses, 2-byte int, 4-byte pages; copies of up to 9 bytes in 4-bit addresses | `CpusListed` `Boots` `TouchesMapped` `SizeMapped` `CopyExact` |

Why the bounds are enough. Conflicts in the cache are between two calls, in one
bucket or over one free buffer; the theorems below cover any number. Two CPUs
and four slots give a chain of three below init, so `exit` can hand a zombie to
an init that is not its own parent; a slot reused while another is being forked and a
stack freed under another CPU happen too. A counter modulo 2 wraps during every
other sleep. `proc_ticks` needs two CPUs: the race of interest, `kill` between the
test of `killed` and the sleep, falls in a stretch with interrupts disabled, so the
killer must run on another CPU. It has one child because fairness is costly to check.
The three slots of `plocks` are init, a child and its child, so that orphans change
hands while their new parent waits. In `space_pages` the
first process occupies 8 pages, a child at least 5, an image of `exec` 10 or more (the
smallest program with its guard page), so a process that runs the smallest program
can fork and its child gets a copy of the guard page; and still memory runs out at every allocation of `fork`, `exec` and `growproc`; sizes are
not page-aligned; user memory crosses from one lowest-level table to the next;
one program has overlapping segments, one an empty first segment, one a single page. Three entries
per table page are the least that keep the three special pages in one table page,
which is what makes the third mapping of `proc_pagetable` unable to fail. The sieve
up to 19 has eight stages, and pipes shorter than the stream, so that writers block. The
tree of `find` is one level deeper than its stack, with descriptors to spare, as in the code; the argument's
length varies, so that in some behaviours the kernel refuses the path of the deepest directory, and `find` is not killed,
and in some that of the first one; the lines of `xargs` have several words,
none, more than fit, and an empty one in the middle. In `calls` the address space has twice
the size of the part below `KERNBASE`, as on x86, so that sums wrap; all values of
stack pointer, argument and size are tried. There are more processors in some tables than
`NCPU`, and entries of both sizes in every order.

Bounds of the models, not of the code: `MaxPid` (pids handed out), `MaxTicks`
(slices counted), `LOGSIZE`, `MaxEntries`, `MaxLen`, `LIMIT` (35 in the code),
`PIPESIZE`, `NFree`, `Depth`, `MAXPATH`, `PathMax`, `MAXARG`, and the sizes of words: `TickW` (bits),
`UINT` and `UINT64` (numbers of values).

Deadlock is checked except where the system may stop: `bcache` (all callers behind
a panicked one), `Lottery` (slices are bounded), `Programs` (a program ends; that
all of them do is `Terminates`) and `Kernel` (panic, a dead process, a finished copy).

## Fairness

`BufferCache!FairSpec` has weak fairness of each call's own steps (processors do
not stop inside the kernel and the disk answers), and of `bwrite` and `Brelse`: a
holder gives its buffer back. A single call can starve, since neither spin locks
nor sleep locks are fair in xv6; so `BucketProgress` claims that somebody in
the bucket is served.

`ProcTable!FairSpec` has weak fairness of `swtch` and `Resume`, and strong
fairness of the timer (it interrupts again and again), of its wakeup, of preemption
on each CPU, of each process's own steps (spin locks are released again and again and
each waiter gets one eventually; `acquire` disables interrupts before it spins, which
is why `Pushcli` is a step of its own: without it a process could lose every slice
to a held `tickslock`), and of being scheduled: every runnable process has a ticket, so in a
fair lottery it wins again and again. The last one is an assumption about `rand.c`
for arbitrary tickets; `WindowFair` supports it where the total is a power of two.

`ProcLocks!FairSpec` is for `WaitLockReleased`: a CPU that is in the kernel with a lock
goes on, and a spin lock that is free again and again is obtained in the end.
`Programs!FairSpec` has weak fairness of every process: the kernel schedules each one
that can go on. `Kernel!FairSpec` has weak fairness of the booting CPU.

## Theorems

The theorems hold for every value of the constants that satisfies the assumptions of
the modules. For each component an invariant is inductive (`IInv`, or a named one for each of the
composed programs), with a lemma for the initial states, one for each action, and one that puts
them together, and the properties follow from it. None of the properties is inductive by itself.

### BufferCacheProofs

For every finite number of uses, blocks, buffers and buckets, from
`ConstantsAssumption` alone: `TypeCorrect`, `ListsCorrect` (`RingsOK`), `NoDuplicates`
(`OneBufPerBlock`), `CountsExact` (`RefcntExact`), `ReferencesHold` (`ReferenceStable`),
`SleepLocksOwned` (`SleepLockOwned`), `BuffersNotLost` (`NoLeak`). The invariant `IInv` adds:

* `LockInv`: a call that is in a critical section owns the lock of its bucket;
* `HashInv`: `hv` is the bucket of the wanted block; `FreshInv`: while a call
  scans or fills, its block is in no linked buffer, which is what keeps the
  second caller from caching it again;
* `ClaimInv`: a claimed or a cleared buffer belongs to one call, with count
  zero and no users;
* `RefInv`, `LinkInv`: a call's buffer is linked and holds its block, and a linked
  buffer is used, for a block and with a positive count; `HoldInv`, `PinInv`: held
  and pinned buffers are valid;
* `RingInv`: the list of a bucket is a ring with `next` and `prev` inverse on it,
  stated without induction as "every set closed under `next` that contains the head
  contains every linked buffer of the bucket".

The ring is the difficult part: `RingInsert` and `RingRemove` show that the pointer
writes of lines 85-88 and 135-137 keep it a ring, and `RingFrame` that a step in
one bucket leaves the rings of the others alone, because the nodes of two rings
are disjoint. `UsersFinite` and the cardinality facts of the library give the
counts.

`BuffersSuffice` (`PanicOnlyFull`) has no hypothesis about the constants: a behaviour in which calls
and pinned blocks never were more than the buffers (`~Overload`) has no panic. That hypothesis is
about the behaviour, and with the constants of `param.h` not all behaviours satisfy it. The scan of `bget` sees each buffer at another time, so it is not
enough to count the buffers in use. `CapacityInv` says that from every index `i` on there is a
free buffer for each call that is scanning there: a call goes on only past a buffer that is in
use. Taking a buffer in front of a scan takes a scanning call away as well.

`CacheRefines` (`ImplementsBlockStore`): every step of the cache is a step of `BlockStore` under
the mapping, or leaves its variables alone. It needs two more facts: a valid buffer that nobody
holds and the log has not pinned has what the disk has (`CleanInv`), and the mapping's choice of a
buffer is the only one (`ContentExact`, from `OneBufPerBlock`).

### ProcTableProofs, ProcLocksProofs

For every number of CPUs and slots: `RunsOnOneCPU` (`OneCPU`), `ParentsStayLive`
(`ParentsLive`), `ExitsNoticed` (`NoLostExit`) in both labs; `StacksKept` (`StackInUse`),
`SlotsHaveOwners` (`SlotsOwned`), `TicksNoticed` (`NoLostTick`) in Lab2; `SchedHoldsOneLock`
(`SchedLocks`) and `TypesKept` in Lab3.

What the locks mean is the core. In Lab2, `SwitchInv` says who has `ptable.lock`: exactly the CPU
that is between two threads, from the change of the state in `sched`, or by the scheduler, to the
release on the other side of `swtch`. In Lab3, `LockInv` says the same of each `p->lock`, with the
`fork` that sets up a child as the other holder, and `WaitLockInv` of `wait_lock`. `ContextInv`
and `ForkInv` say what a thread that is switched out, or a child that is being made, has so
far; `ParentInv` that `init` lives for ever and parents are alive.

In Lab2 `wait` scans and sleeps in one critical section. In Lab3 the scans are interrupted
at every slot, and `WakeInv` follows them: children that the scan of `wait` has passed have not
exited, and a parent that the wakeup of `exit` has passed is awake. The only sleeper with an exited
child is `init`, between the moment it is given one and the wakeup that follows.

### KernelProofs

For every size of the words, the pages and the memory: `KernelStaysInside` (`TouchesMapped`),
`SizeAgrees` (`SizeMapped`) and `CopiesExact` (`CopyExact`), and for every table of the firmware and
every `NCPU`: `CpusFound` (`CpusListed`). `CallInv` adds that the size lies in
1..`KERNBASE`, and so no sum that passes the tests of `fetchint` and `argptr` can wrap. `CopyInv` says
after each round of the loops which prefix of the user's bytes is copied, that all of it is in
user pages, how much is left and from where, and that the zero byte is not behind.

`MpInv` says that `p` always is where an entry begins, so that no entry is read from its middle, and
that the CPUs found are those of the entries before it, up to `NCPU` (`ReadTo`). Entries have two sizes,
so the place of entry `n` is a recursive function, `Behind`; that it grows with `n`, and that two entries
therefore never begin at one place, is by induction (`BehindGrows`).

### LotteryProofs

For every number of slots, every width of `int` up to 32 bits, every set of arguments of `settickets`
and every seed: `SharesExact` (`ShareExact`) and `EveryDrawWins` (`SomeoneWins`), each in all states in
which the tickets of the runnable processes add up to an `int` (`SumFits`). `lottery_overflow` is a
behaviour in which they do not and a draw has no winner, so the hypothesis cannot go; TLC checks
the same properties without it on an instance where no sum overflows.

`exact` is the sum without overflow. With `HasTicket` (a process has at least one ticket, which
`settickets` and `fork` keep so) `exact` grows at every runnable slot, and
equals `counter` as long as it fits (`CounterExact`, by induction over the slots). So the draws that a slot wins are the interval between its predecessor's sum and its own, these
intervals cover 0 to the total, and a draw below the total falls into one of them.

### ProgramsProofs

For every number of processes that the kernel allows, size of a pipe, limit of the sieve, tree of
directories and input, from the assumptions of `Pipes`, `Primes`, `FindXargs` and `Programs`. These say no
more than that a pipe holds a message, an entry of a directory is something `find` knows or another directory, and
the command of `xargs` fits its vector; a tree may have cycles.

* `MessagesCross` (`GotOther`): `pingpong` sends both messages through one pipe, so each side could
  read its own. `Phases` lists the combinations of both processes' places, the content of the pipe and
  what they have got: since the parent waits for the child before it reads, there are eleven.
* `CommandsRun` (`LinesRun`): `ShapeInv` has which process is where and which ends are open. `XInv` says
  that the commands that have run belong to the first lines of the input, that the pipe contains just the
  lines after those, and that in `argv`, where older lines leave their words, a line that has been read
  ends in a null pointer (`Ready`), so nothing of the older ones is seen.
* `FilesFound` (`FoundAll`): a place in the tree is a sequence of positions of entries, and the calls of
  `find` are the path to the entry it is at (`Chain`). At each step just the files left of that path, or
  below it, have been printed, in order (`FInv`). The steps forward and back keep this because no place
  lies between an entry and the next one (`LeftOfNext`), between a directory and its first entry
  (`PastFirst`), or between the last one and the directory's end (`PastLast`). A `find` that is killed
  leaves with its calls on the stack, and of it only the first half, soundness and order, is claimed.
* `PrimesFound` (`PrimesExact`): `CtlInv` has who runs and which ends are open. The processes with a
  prime are the first ones; at most one more is waiting for its own; a process sees the end of its stream
  only when all before it have ended and its pipe is empty; and when `main` has gone, all have. `DatInv` has the
  numbers on their way, in pipes and in hands: they increase from the end of the pipeline to its beginning,
  are larger than all primes printed, and no prime that they have passed divides them. Every
  number fed is printed, has a printed divisor, or is on its way. So a number that reaches the end of the pipeline
  is a prime: a divisor of it would be smaller, hence fed earlier, hence ahead of it. After a failed
  `fork` some numbers are lost; then what is printed still are the first primes.

### AddressSpaceProofs

For every number of processes, every memory of at least 8 pages (the first process) that is
smaller than the address space below the special pages, three or more entries per table page, every
set of programs and arguments of `sbrk` that do not wrap an address (`SpaceAssumption`; on the
machine an argument is an `int` and an address has 64 bits): `NeverPanics` (`NoPanic`),
`NoPageLost` (`PagesCounted`), `SizesExact` (`SizeExact`), `UsyscallsOwn` (`UsyscallOwn`),
`CopiesFaithful` (`CopyFaithful`).

`Shape(t, q, M, n)` is the form of a table on the way up and on the way down: the special mappings `M`
of process `q`, the first `n` pages of user memory, nothing else, and all table pages that lead there.
The invariant gives for each program counter the shape of each table:

* `Owner`: a live process or a zombie has all of its special mappings and as many pages as its size,
  or as `growproc` has come to;
* `Empty`, `Single`: a free slot has nothing, and a thread outside of `exec` has no second table;
* `Forks`, `Grows`, `Execs`: how far the child of `fork`, the growth in `uvmalloc` and the new
  image of `exec` have come, and what each error path has left to undo;
* `Unshared`: no two threads work on one child;
* `Counted`: `PagesCounted`, and the tables are finite.

The pages are counted as table pages and user pages of each table (`Weight`), and the trapframes,
usyscall pages and pages on their way into a table (`Loose`). A step changes one table, or two
when `exec` replaces the old image; `CountOne` and `CountTwo` say that it is enough to compare the weights
of those. `PileStep` gives the size of a union of tagged sets when one of them changes, without a sum
over all processes. The count also gives `RoomLeft`, memory runs out before user memory reaches
`USYSCALL`, and `Shape` that the error path of the third special mapping is not taken
(`MapFailStep`).

### Model-checked only

* Liveness: `BucketProgress`, `KilledDies`, `WaitLockReleased`, `Terminates`, `Boots`. The prover
  does not handle fairness.
* `WindowFair` of `Lottery`, that in as many draws as there are tickets each process wins as often as it
  has tickets, if the total is a power of two: it rests on the period of the generator in `rand.c`, a fact of number theory about its two
  constants.
* `TypeOK` of `AddressSpace` in full; `Types` of the proofs has what they need.

## What the violations show

* `proc_born_killed` (Lab2 `proc.c:526`): `kill` does not look at the state of the
  slot, and `allocproc` does not reset `killed`. `kill(0)`, or the pid left by a failed
  `fork`, marks a free slot, and the next process in it dies at its first trap.
* `lottery_overflow` (Lab2 `proc.c:350`): `settickets` has no upper limit; when the sum
  leaves `int`, a draw may have no winner and nobody is scheduled.
* `lost_kill` (Lab3 `proc.c:475`): `wait` tests `killed` and then sleeps; `kill` holds
  `p->lock` only, so it can come in between, finds the process RUNNING and wakes nobody.
  The killed process sleeps until a child exits.
* `find_misses` (Lab1 `find.c:82,87`): a name of `DIRSIZ` characters has no zero byte in the entry, and
  `strcmp` may find it different; and a tree of more levels than frames fit on the stack kills `find`. The
  report (line 269) says that all files with the name are found. `FoundAll`, which holds, has these
  exceptions and paths that are too long, and no others.

Four more places where the code does not do what a report or a comment says. The models do what the code
does; no property of the passing runs claims what is written:

* Lab3 `vm.c:122`: the usyscall page is mapped read-only, as the report (line 18) says, but `copyout` finds
  pages with `walkaddr`, which does not look at PTE_W: a process can let `wait` or `read` store over its
  own pid (`copyout` and `either_copyout` in `AddressSpace`). `UsyscallOwn` says what remains.
* Lab1 `xargs.c:73`: `read_line` returns 0 for an empty line as for the end of the input, and `xargs` stops
  (`InputEnd`). The report (lines 373-375) has a command for each line and 0 at the end of the file only.
  `LinesRun` claims that all lines are run only behind `find`, which writes no empty line.
* Lab2 `mp.c:66`: half of the ROM, and base memory below an EBDA, are not searched (`searched`), although
  the comment at lines 45-49 lists them: such a machine is taken for one without a table.
* Lab2 `mp.c:127`: the `break` leaves the `switch` only, and a table with an unknown entry keeps the booting
  CPU in the loop of `mpinit` (`Unknown`); the panic meant for it (lines 132-133) is not reached. `Boots`
  says that the boot stops nowhere else.

Also worth knowing, from `space_pages`: the error path of the third mapping in
`proc_pagetable` (`proc.c:234-239`) unmaps the page that could not be mapped and
leaves the other two; it would panic. It is dead code, because the page shares its table
pages with the two before it.

From `bcache`: the scan of `bget` looks at every buffer once, so with more concurrent
uses than buffers the panic "no buffers" can come while a buffer that the scan has passed is
free again; `PanicOnlyFull` says that it cannot come unless the calls and the pinned blocks were more
than the buffers at some time. With `LOGSIZE` = `NBUF` = 30 (`param.h:10-11`) the log alone can
pin all buffers, so the constants do not rule the panic out.

From `programs`: `pingpong` whose `fork` fails reads for ever from a pipe that only it can
write (the exception in `Terminates`). From `calls`: `sbrk(-sz)` frees
all pages, returns -1 and leaves the size (`growproc` takes the size 0 for a failure); the
process then dies of its next instruction (the exception in `SizeMapped`). The comment in
`pstat.h` calls `inuse` "runnable", and `getpinfo` sets it for every slot that is not
UNUSED.

## Not modelled

* Lab1 `sleep`: an argument check and one call.
* `procdump`, `vmprint`, `testTicket.c`, `testProcInfo.c`: reading and printing.
  What `getpinfo` reads is a copy under the lock; only where it writes is modelled.
* `kvminit`, `kvmmap`, `kvminithart`, `proc_mapstacks`: boot, no concurrency, and the
  addresses they map are constants.
* `either_copyin`: chooses between `memmove` and `copyin` of `UserCopy`.
* A line longer than the buffer of `xargs`; a file system that changes under `find`.
* Headers, build files, lecture notes.
* Spin locks, sleep locks, `swtch`, `kalloc`, disk and log: external, modelled by
  what the code relies on. Memory is sequentially consistent, as the locks and
  `__atomic` operations with their barriers make it.

## What is left

The modules are complete with respect to the repository's own logic. Every invariant that a
run checks is proved for all values of the constants, except `WindowFair`. To go further:

1. The liveness properties are checked on the instances of the runs only. The safety parts that
   they rest on are proved: who holds which lock (`SwitchInv`, `LockInv`), that wakeups are not lost
   (`NoLostExit`, `NoLostTick`), and who has which end of which pipe open (`CtlInv`).
2. `WindowFair` would need that the generator runs through all residues modulo every
   power of two before it repeats.
