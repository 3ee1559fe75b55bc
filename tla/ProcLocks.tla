----------------------------- MODULE ProcLocks -----------------------------
(***************************************************************************)
(* The process table of Lab3: fork, exit, wait, kill, sleep, wakeup, yield *)
(* and the scheduler of proc.c, under one spin lock for each process       *)
(* (p->lock) and wait_lock for the parent relation.  The memory of the     *)
(* processes is modelled in AddressSpace.                                  *)
(*                                                                         *)
(* p->lock is held across swtch: a thread that gives up its CPU takes it   *)
(* and the scheduler releases it, and the other way round.  A step is the  *)
(* code from one acquire to the next, or to the release if nothing is      *)
(* acquired in between.                                                    *)
(***************************************************************************)
EXTENDS Integers, FiniteSets

CONSTANTS CPUs,      \* processors
          NPROC,     \* slots of the table
          NoCPU,     \* the owner of a free lock
          MaxPid,    \* bound on the pids handed out
          KillPids   \* arguments of kill

ASSUME ProcLocksAssumption == /\ NPROC \in Nat \ {0} /\ MaxPid \in Nat
                              /\ KillPids \subseteq Nat /\ NoCPU \notin CPUs

VARIABLES state, pid, parent, killed, chan,  \* struct proc
          lock,       \* p->lock: the CPU that holds it
          wait_lock,  \* the CPU that holds it
          pp,         \* the loop index of the thread that holds wait_lock
          ctx,        \* where swtch resumes the kernel thread, or "run"
          at, np,     \* the code the thread is in; the child fork works on
          on,         \* the thread that CPU c executes; 0: its scheduler
          nextpid

proc == <<state, pid, parent, killed, chan>>
vars == <<state, pid, parent, killed, chan, lock, wait_lock, pp, ctx, at, np, on,
          nextpid>>

Slot     == 1..NPROC
NULL     == 0
initproc == 1

\* procinit and userinit, then one scheduler per CPU.
Init ==
  LET Set(x, y) == [p \in Slot |-> IF p = initproc THEN x ELSE y] IN
  /\ state = Set("RUNNABLE", "UNUSED") /\ pid = Set(1, 0)
  /\ ctx = Set("forkret", "none") /\ at = Set("user", "none")
  /\ parent = Set(NULL, NULL) /\ killed = Set(FALSE, FALSE)
  /\ chan = Set(NULL, NULL) /\ np = Set(NULL, NULL)
  /\ lock = Set(NoCPU, NoCPU) /\ wait_lock = NoCPU /\ pp = 1
  /\ on = [c \in CPUs |-> NULL]
  /\ nextpid = 2

----------------------------------------------------------------------------
(* Locks and context switches                                              *)

\* CPU c executes p, which is not about to leave it.
Runs(c, p) == on[c] = p /\ state[p] = "RUNNING" /\ ctx[p] = "run"
Goto(p, l) == at' = [at EXCEPT ![p] = l]

Free(p)       == lock[p] = NoCPU
acquire(p, c) == lock' = [lock EXCEPT ![p] = c]
release(p)    == lock' = [lock EXCEPT ![p] = NoCPU]

\* A CPU that holds a spin lock takes no interrupts.
Interruptible(c) == wait_lock # c /\ \A q \in Slot : lock[q] # c

\* sched: with its lock held and its state changed, p waits for swtch.
sched(c, p, l) == ctx' = [ctx EXCEPT ![p] = l]

scheduler(c, p) ==
  /\ on[c] = NULL /\ Free(p) /\ state[p] = "RUNNABLE"
  /\ acquire(p, c)
  /\ on' = [on EXCEPT ![c] = p]
  /\ state' = [state EXCEPT ![p] = "RUNNING"]
  /\ UNCHANGED <<pid, parent, killed, chan, wait_lock, pp, ctx, at, np, nextpid>>

\* swtch from p back to the scheduler of c, which releases p->lock.
swtch(c) ==
  /\ on[c] # NULL /\ state[on[c]] # "RUNNING"
  /\ on' = [on EXCEPT ![c] = NULL]
  /\ release(on[c])
  /\ UNCHANGED <<proc, wait_lock, pp, ctx, at, np, nextpid>>

\* p comes back from sched in yield or sleep, or starts at forkret.
Resume(c, p) ==
  /\ on[c] = p /\ state[p] = "RUNNING" /\ ctx[p] \in {"forkret", "yield", "sleep"}
  /\ ctx' = [ctx EXCEPT ![p] = "run"]
  /\ chan' = [chan EXCEPT ![p] = IF ctx[p] = "sleep" THEN NULL ELSE @]
  /\ release(p)
  /\ UNCHANGED <<state, pid, parent, killed, wait_lock, pp, at, np, on, nextpid>>

\* The timer interrupt takes the CPU from p.
yield(c, p) ==
  /\ Runs(c, p) /\ at[p] # "panic" /\ Interruptible(c) /\ Free(p)
  /\ acquire(p, c)
  /\ state' = [state EXCEPT ![p] = "RUNNABLE"]
  /\ sched(c, p, "yield")
  /\ UNCHANGED <<pid, parent, killed, chan, wait_lock, pp, at, np, on, nextpid>>

\* A trap from user code; a killed process goes to exit (trap.c).
usertrap(c, p) ==
  /\ Runs(c, p) /\ at[p] = "user" /\ Free(p)
  /\ Goto(p, IF killed[p] THEN "exit" ELSE "kernel")
  /\ UNCHANGED <<proc, lock, wait_lock, pp, ctx, np, on, nextpid>>

\* A fault of user code (trap.c) kills the process.
setkilled(c, p) ==
  /\ Runs(c, p) /\ at[p] = "user" /\ Free(p)
  /\ killed' = [killed EXCEPT ![p] = TRUE]
  /\ Goto(p, "exit")
  /\ UNCHANGED <<state, pid, parent, chan, lock, wait_lock, pp, ctx, np, on, nextpid>>

----------------------------------------------------------------------------
(* fork                                                                    *)

\* allocproc claims an unused slot and keeps its lock.  The scan takes one
\* lock after the other, so an earlier slot may have become free meanwhile.
allocproc(c, p, q) ==
  /\ Runs(c, p) /\ at[p] = "kernel"
  /\ Free(q) /\ state[q] = "UNUSED" /\ nextpid <= MaxPid
  /\ acquire(q, c)
  /\ state' = [state EXCEPT ![q] = "USED"]
  /\ pid' = [pid EXCEPT ![q] = nextpid]
  /\ nextpid' = nextpid + 1
  /\ ctx' = [ctx EXCEPT ![q] = "forkret"]
  /\ np' = [np EXCEPT ![p] = q]
  /\ Goto(p, "alloc")
  /\ UNCHANGED <<parent, killed, chan, wait_lock, pp, on>>

\* fork fails: the scan has found no unused slot (one may be free by now).
ForkFull(c, p) ==
  /\ Runs(c, p) /\ at[p] = "kernel" /\ \E q \in Slot \ {p} : state[q] # "UNUSED"
  /\ Goto(p, "user")
  /\ UNCHANGED <<proc, lock, wait_lock, pp, ctx, np, on, nextpid>>

freeproc(q) ==
  /\ pid' = [pid EXCEPT ![q] = 0]
  /\ parent' = [parent EXCEPT ![q] = NULL]
  /\ chan' = [chan EXCEPT ![q] = NULL]
  /\ killed' = [killed EXCEPT ![q] = FALSE]
  /\ state' = [state EXCEPT ![q] = "UNUSED"]

\* Memory runs out in allocproc or uvmcopy.
ForkFail(c, p) ==
  /\ Runs(c, p) /\ at[p] = "alloc"
  /\ freeproc(np[p])
  /\ release(np[p])
  /\ np' = [np EXCEPT ![p] = NULL]
  /\ Goto(p, "user")
  /\ UNCHANGED <<wait_lock, pp, ctx, on, nextpid>>

\* The copy is made and np->lock released.
ForkCopy(c, p) ==
  /\ Runs(c, p) /\ at[p] = "alloc"
  /\ release(np[p])
  /\ Goto(p, "parent")
  /\ UNCHANGED <<proc, wait_lock, pp, ctx, np, on, nextpid>>

\* The parent is set under wait_lock ...
ForkParent(c, p) ==
  /\ Runs(c, p) /\ at[p] = "parent" /\ wait_lock = NoCPU
  /\ parent' = [parent EXCEPT ![np[p]] = p]
  /\ Goto(p, "ready")
  /\ UNCHANGED <<state, pid, killed, chan, lock, wait_lock, pp, ctx, np, on, nextpid>>

\* ... and the child may run from here on.
ForkReady(c, p) ==
  /\ Runs(c, p) /\ at[p] = "ready" /\ Free(np[p])
  /\ state' = [state EXCEPT ![np[p]] = "RUNNABLE"]
  /\ at' = [at EXCEPT ![np[p]] = "user", ![p] = "user"]
  /\ np' = [np EXCEPT ![p] = NULL]
  /\ UNCHANGED <<pid, parent, killed, chan, lock, wait_lock, pp, ctx, on, nextpid>>

----------------------------------------------------------------------------
(* exit                                                                    *)

\* The system call exit; init never makes it.
sys_exit(c, p) ==
  /\ Runs(c, p) /\ at[p] = "kernel" /\ p # initproc
  /\ Goto(p, "exit")
  /\ UNCHANGED <<proc, lock, wait_lock, pp, ctx, np, on, nextpid>>

\* panic("init exiting"); the CPU spins for ever.
InitExiting(c) ==
  /\ Runs(c, initproc) /\ at[initproc] \in {"exit", "panic"}
  /\ Goto(initproc, "panic")
  /\ UNCHANGED <<proc, lock, wait_lock, pp, ctx, np, on, nextpid>>

\* The files are closed; exit takes wait_lock.
exit(c, p) ==
  /\ Runs(c, p) /\ at[p] = "exit" /\ p # initproc /\ wait_lock = NoCPU
  /\ wait_lock' = c
  /\ Goto(p, "reparent")
  /\ UNCHANGED <<proc, lock, pp, ctx, np, on, nextpid>>

Children(p) == {q \in Slot : parent[q] = p}
First(S)    == CHOOSE q \in S : \A r \in S : q <= r

\* The children that exit hands over.  Mutant: not those that have exited.
LiveOrphans(p) == {q \in Children(p) : state[q] # "ZOMBIE"}
Orphans(p)     == Children(p)

\* The loop of reparent: each child goes to init, with a wakeup for it.
reparent(c, p) ==
  /\ Runs(c, p) /\ at[p] = "reparent" /\ Orphans(p) # {}
  /\ parent' = [parent EXCEPT ![First(Orphans(p))] = initproc]
  /\ Goto(p, "wakeinit")
  /\ UNCHANGED <<state, pid, killed, chan, lock, wait_lock, pp, ctx, np, on, nextpid>>

Reparented(c, p) ==
  /\ Runs(c, p) /\ at[p] = "reparent" /\ Orphans(p) = {}
  /\ Goto(p, "wakeparent")
  /\ UNCHANGED <<proc, lock, wait_lock, pp, ctx, np, on, nextpid>>

\* The loop of wakeup(x) looks at slot pp under its lock, but not at p's own.
wakeup(c, p, x) ==
  /\ pp = p \/ Free(pp)
  /\ state' = [state EXCEPT ![pp] = IF pp # p /\ @ = "SLEEPING" /\ chan[pp] = x
                                     THEN "RUNNABLE" ELSE @]
  /\ pp' = IF pp = NPROC THEN 1 ELSE pp + 1

WakeInit(c, p) ==
  /\ Runs(c, p) /\ at[p] = "wakeinit"
  /\ wakeup(c, p, initproc)
  /\ Goto(p, IF pp = NPROC THEN "reparent" ELSE "wakeinit")
  /\ UNCHANGED <<pid, parent, killed, chan, lock, wait_lock, ctx, np, on, nextpid>>

\* exit does not let go of wait_lock until the process is a zombie.
\* Mutant: it does after the wakeup.
EarlyRelease == wait_lock' = NoCPU
LateRelease  == UNCHANGED wait_lock

WakeParent(c, p) ==
  /\ Runs(c, p) /\ at[p] = "wakeparent"
  /\ wakeup(c, p, parent[p])
  /\ \/ pp < NPROC /\ UNCHANGED <<at, wait_lock>>
     \/ pp = NPROC /\ Goto(p, "zombie") /\ LateRelease
  /\ UNCHANGED <<pid, parent, killed, chan, lock, ctx, np, on, nextpid>>

\* wait_lock is given back before sched.  Mutant: it is not.
HoldBoth   == UNCHANGED wait_lock
OnlyMyLock == wait_lock' = NoCPU

Zombie(c, p) ==
  /\ Runs(c, p) /\ at[p] = "zombie" /\ Free(p)
  /\ acquire(p, c)
  /\ state' = [state EXCEPT ![p] = "ZOMBIE"]
  /\ OnlyMyLock
  /\ sched(c, p, "dead")
  /\ UNCHANGED <<pid, parent, killed, chan, pp, at, np, on, nextpid>>

----------------------------------------------------------------------------
(* wait, kill                                                              *)

\* wait takes wait_lock, at its start or when sleep takes it again.
wait(c, p) ==
  /\ Runs(c, p) /\ at[p] \in {"kernel", "relock"} /\ wait_lock = NoCPU
  /\ wait_lock' = c
  /\ Goto(p, "scan")
  /\ UNCHANGED <<proc, lock, pp, ctx, np, on, nextpid>>

InScan(c, p) == Runs(c, p) /\ at[p] = "scan" /\ pp <= NPROC

\* Not a child, or one that has not exited.
WaitSkip(c, p) ==
  /\ InScan(c, p)
  /\ parent[pp] = p => Free(pp) /\ state[pp] # "ZOMBIE"
  /\ pp' = pp + 1
  /\ UNCHANGED <<proc, lock, wait_lock, ctx, at, np, on, nextpid>>

\* The test that a child's CPU has left it.  Mutant: no test.
Anyhow(q)  == TRUE
HasLeft(q) == Free(q)

\* wait gives up its lock; the next scan starts at the first slot.
WaitReturn(p) == wait_lock' = NoCPU /\ pp' = 1 /\ Goto(p, "user")

\* An exited child is freed.
WaitReap(c, p) ==
  /\ InScan(c, p) /\ parent[pp] = p /\ HasLeft(pp) /\ state[pp] = "ZOMBIE"
  /\ freeproc(pp)
  /\ WaitReturn(p)
  /\ UNCHANGED <<lock, ctx, np, on, nextpid>>

\* copyout of its status fails: it stays a zombie.
WaitCopyFail(c, p) ==
  /\ InScan(c, p) /\ parent[pp] = p /\ HasLeft(pp) /\ state[pp] = "ZOMBIE"
  /\ WaitReturn(p)
  /\ UNCHANGED <<proc, lock, ctx, np, on, nextpid>>

\* No child has exited: give up, or be about to sleep.
WaitFail(c, p) ==
  /\ Runs(c, p) /\ at[p] = "scan" /\ pp > NPROC
  /\ Children(p) = {} \/ (Free(p) /\ killed[p])
  /\ WaitReturn(p)
  /\ UNCHANGED <<proc, lock, ctx, np, on, nextpid>>

WaitCheck(c, p) ==
  /\ Runs(c, p) /\ at[p] = "scan" /\ pp > NPROC
  /\ Children(p) # {} /\ Free(p) /\ ~killed[p]
  /\ pp' = 1
  /\ Goto(p, "sleep")
  /\ UNCHANGED <<proc, lock, wait_lock, ctx, np, on, nextpid>>

\* sleep(p, &wait_lock): take p->lock, then release wait_lock.
\* Mutant: it is kept.
SleepLocked   == UNCHANGED wait_lock
SleepUnlocked == wait_lock' = NoCPU

sleep(c, p) ==
  /\ Runs(c, p) /\ at[p] = "sleep" /\ Free(p)
  /\ acquire(p, c)
  /\ SleepUnlocked
  /\ chan' = [chan EXCEPT ![p] = p]
  /\ state' = [state EXCEPT ![p] = "SLEEPING"]
  /\ sched(c, p, "sleep")
  /\ Goto(p, "relock")
  /\ UNCHANGED <<pid, parent, killed, pp, np, on, nextpid>>

\* kill finds the slot with the pid, whatever its state, or none.
kill(c, p, x) ==
  /\ Runs(c, p) /\ at[p] = "kernel"
  /\ \/ (\A q \in Slot : pid[q] # x) /\ UNCHANGED <<killed, state>>
     \/ \E q \in Slot :
          /\ pid[q] = x /\ Free(q)
          /\ killed' = [killed EXCEPT ![q] = TRUE]
          /\ state' = [state EXCEPT ![q] = IF @ = "SLEEPING" THEN "RUNNABLE" ELSE @]
  /\ Goto(p, "user")
  /\ UNCHANGED <<pid, parent, chan, lock, wait_lock, pp, ctx, np, on, nextpid>>

----------------------------------------------------------------------------
\* The steps of p's kernel thread on c.
Thread(c, p) ==
  \/ usertrap(c, p) \/ setkilled(c, p)
  \/ \E q \in Slot : allocproc(c, p, q)
  \/ ForkFull(c, p) \/ ForkFail(c, p) \/ ForkCopy(c, p) \/ ForkParent(c, p)
  \/ ForkReady(c, p)
  \/ sys_exit(c, p) \/ exit(c, p) \/ reparent(c, p) \/ Reparented(c, p)
  \/ WakeInit(c, p) \/ WakeParent(c, p) \/ Zombie(c, p)
  \/ wait(c, p) \/ WaitSkip(c, p) \/ WaitReap(c, p) \/ WaitCopyFail(c, p)
  \/ WaitFail(c, p) \/ WaitCheck(c, p) \/ sleep(c, p)
  \/ \E x \in KillPids : kill(c, p, x)

Next == \/ \E c \in CPUs, p \in Slot : \/ scheduler(c, p) \/ Resume(c, p)
                                       \/ yield(c, p) \/ Thread(c, p)
        \/ \E c \in CPUs : swtch(c) \/ InitExiting(c)

Spec == Init /\ [][Next]_vars

\* CPUs go on, and who waits for a spin lock gets it some time.
FairSpec ==
  /\ Spec
  /\ \A c \in CPUs : WF_vars(swtch(c)) /\ WF_vars(\E p \in Slot : Resume(c, p))
  /\ \A p \in Slot : SF_vars(\E c \in CPUs : Thread(c, p))

----------------------------------------------------------------------------
(* Properties                                                              *)

Live(p) == state[p] \in {"SLEEPING", "RUNNABLE", "RUNNING"}

\* Every variable has its type; every scan starts at the first slot.
TypeOK ==
  /\ state \in [Slot -> {"UNUSED", "USED", "SLEEPING", "RUNNABLE", "RUNNING", "ZOMBIE"}]
  /\ pid \in [Slot -> Nat] /\ parent \in [Slot -> Slot \cup {NULL}]
  /\ killed \in [Slot -> BOOLEAN] /\ chan \in [Slot -> Slot \cup {NULL}]
  /\ lock \in [Slot -> CPUs \cup {NoCPU}] /\ wait_lock \in CPUs \cup {NoCPU}
  /\ pp \in 1..(NPROC + 1) /\ (wait_lock = NoCPU => pp = 1)
  /\ ctx \in [Slot -> {"none", "forkret", "run", "yield", "sleep", "dead"}]
  /\ at \in [Slot -> {"none", "user", "kernel", "alloc", "parent", "ready", "exit",
                     "reparent", "wakeinit", "wakeparent", "zombie", "scan", "sleep",
                     "relock", "panic"}]
  /\ np \in [Slot -> Slot \cup {NULL}] /\ on \in [CPUs -> Slot \cup {NULL}]
  /\ nextpid \in Nat

\* The lock that is passed through swtch keeps a process on one CPU, and wait
\* from freeing one whose CPU still is on its stack (lines 446-447, 505-511).
OneCPU ==
  /\ \A c, d \in CPUs : on[c] # NULL /\ on[c] = on[d] => c = d
  /\ \A c \in CPUs : on[c] # NULL => state[on[c]] \notin {"UNUSED", "USED"}

\* sched's panics: a CPU that switches holds the lock of its process and no
\* other (lines 529-534).
SchedLocks == \A c \in CPUs :
  on[c] # NULL /\ state[on[c]] # "RUNNING"
    => {q \in Slot : lock[q] = c} = {on[c]} /\ wait_lock # c

\* Nobody sleeps in wait who has a child to reap: the wakeup comes before the
\* child is a zombie, but wait_lock is held until then (lines 410-423).
NoLostExit == wait_lock = NoCPU => \A p, q \in Slot :
  state[p] = "SLEEPING" /\ parent[q] = p => state[q] # "ZOMBIE"

\* Every process but init has a parent that can still wait for it.
ParentsLive == wait_lock = NoCPU => \A p \in Slot \ {initproc} :
  Live(p) \/ state[p] = "ZOMBIE" => parent[p] # NULL /\ Live(parent[p])

\* The comments at lines 26 and 608 order the locks.  So who holds wait_lock
\* and takes the locks of the processes one by one always gets to its end.
WaitLockReleased == \A c \in CPUs : wait_lock = c ~> wait_lock # c

\* The comment at line 637: kill wakes a process from sleep.
NoLostKill == \A p \in Slot : state[p] = "SLEEPING" => ~killed[p]
=============================================================================
