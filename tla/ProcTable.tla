----------------------------- MODULE ProcTable -----------------------------
(***************************************************************************)
(* The process table of Lab2: fork, exit, wait, kill, sleep, wakeup, yield *)
(* and the per-CPU scheduler of proc.c, and sys_sleep of sysproc.c, on     *)
(* several CPUs under the one lock ptable.lock.                            *)
(*                                                                         *)
(* ptable.lock is held across swtch: it is taken on a CPU by the thread    *)
(* that leaves and released by the thread that arrives.  A step is a       *)
(* critical section up to a swtch or to the release of the lock, or a      *)
(* stretch of code outside of it.  Which runnable process wins the lottery *)
(* is left open here; Lottery models the draw.                             *)
(***************************************************************************)
EXTENDS Integers, FiniteSets

CONSTANTS CPUs,      \* processors
          NPROC,     \* slots of the table
          NoCPU,     \* the owner of a free ptable.lock
          MaxPid,    \* bound on the pids handed out
          KillPids,  \* arguments of kill
          SleepNs,   \* arguments of sys_sleep
          TickW      \* width of ticks in bits

ASSUME ProcAssumption == /\ NPROC \in Nat \ {0} /\ MaxPid \in Nat /\ TickW \in Nat
                         /\ KillPids \subseteq Nat /\ SleepNs \subseteq Nat
                         /\ NoCPU \notin CPUs

VARIABLES state, pid, parent, killed, chan,  \* struct proc
          mem,        \* what kalloc and setupkvm gave the slot
          ctx,        \* where swtch resumes the kernel thread, or "run"
          at, np,     \* the code the thread is in; the child fork works on
          on,         \* c->proc, the thread that CPU c executes; 0: scheduler
          plock,      \* ptable.lock
          tlock, ticks, tick0, tickn,  \* tickslock and sys_sleep
          intr,       \* the CPU that is in the timer interrupt
          nextpid

proc  == <<state, pid, parent, killed, chan, mem>>
clock == <<tlock, ticks, tick0, tickn, intr>>
vars  == <<state, pid, parent, killed, chan, mem, ctx, at, np, on, plock,
           tlock, ticks, tick0, tickn, intr, nextpid>>

Slot     == 1..NPROC
NULL     == 0
initproc == 1
Timer    == NPROC + 1        \* the owner of tickslock in the timer interrupt
TICKS    == NPROC + 1        \* the channel &ticks
States   == {"UNUSED", "EMBRYO", "SLEEPING", "RUNNABLE", "RUNNING", "ZOMBIE"}

\* The loops over the table stop at the first slot that qualifies.
First(S) == CHOOSE p \in S : \A q \in S : p <= q

\* userinit, then one scheduler per CPU.
userinit ==
  LET Set(x, y) == [p \in Slot |-> IF p = initproc THEN x ELSE y] IN
  /\ state = Set("RUNNABLE", "UNUSED") /\ pid = Set(1, 0)
  /\ mem = Set({"kstack", "pgdir"}, {})
  /\ ctx = Set("forkret", "none") /\ at = Set("user", "none")
  /\ nextpid = 2

Init ==
  /\ userinit
  /\ parent = [p \in Slot |-> NULL] /\ chan = [p \in Slot |-> NULL]
  /\ killed = [p \in Slot |-> FALSE] /\ np = [p \in Slot |-> NULL]
  /\ on = [c \in CPUs |-> NULL] /\ plock = NoCPU
  /\ tlock = NULL /\ ticks = 0 /\ intr = NoCPU
  /\ tick0 = [p \in Slot |-> 0] /\ tickn = [p \in Slot |-> 0]

----------------------------------------------------------------------------
(* Context switches                                                        *)

\* CPU c executes p outside of ptable.lock.
Runs(c, p) == on[c] = p /\ intr # c /\ state[p] = "RUNNING" /\ ctx[p] = "run"
Goto(p, l) == at' = [at EXCEPT ![p] = l]

\* Code that runs with interrupts disabled: a lock is held or spun for.
IntrOff == {"tcheck", "tsleep", "spin", "panic"}

\* sched: p has changed its state under the lock and waits for swtch.
\* Mutant: the lock is released before swtch.
schedUnlocked(c, p, l) == ctx' = [ctx EXCEPT ![p] = l] /\ plock' = NoCPU
sched(c, p, l) == ctx' = [ctx EXCEPT ![p] = l] /\ plock' = c

\* The scheduler on c runs the winner p and passes it the lock.
scheduler(c, p) ==
  /\ on[c] = NULL /\ intr # c /\ plock = NoCPU /\ state[p] = "RUNNABLE"
  /\ plock' = c
  /\ on' = [on EXCEPT ![c] = p]
  /\ state' = [state EXCEPT ![p] = "RUNNING"]
  /\ UNCHANGED <<pid, parent, killed, chan, mem, ctx, at, np, clock, nextpid>>

\* swtch from p back to the scheduler of c, which releases the lock.
swtch(c) ==
  /\ on[c] # NULL /\ plock = c /\ state[on[c]] # "RUNNING"
  /\ on' = [on EXCEPT ![c] = NULL]
  /\ plock' = NoCPU
  /\ UNCHANGED <<proc, ctx, at, np, clock, nextpid>>

\* p comes back from sched in yield, or starts at forkret: release the lock.
Resume(c, p) ==
  /\ on[c] = p /\ plock = c /\ state[p] = "RUNNING"
  /\ ctx[p] \in {"forkret", "yield"}
  /\ ctx' = [ctx EXCEPT ![p] = "run"]
  /\ plock' = NoCPU
  /\ UNCHANGED <<proc, at, np, on, clock, nextpid>>

\* The timer interrupt takes the CPU from p, in user code or in the kernel
\* where no lock is held.
yield(c, p) ==
  /\ Runs(c, p) /\ at[p] \notin IntrOff /\ plock = NoCPU
  /\ state' = [state EXCEPT ![p] = "RUNNABLE"]
  /\ sched(c, p, "yield")
  /\ UNCHANGED <<pid, parent, killed, chan, mem, at, np, on, clock, nextpid>>

\* A trap from user code; a killed process goes to exit (trap.c).
trap(c, p) ==
  /\ Runs(c, p) /\ at[p] = "user"
  /\ Goto(p, IF killed[p] THEN "exit" ELSE "kernel")
  /\ UNCHANGED <<proc, ctx, np, on, plock, clock, nextpid>>

----------------------------------------------------------------------------
(* fork                                                                    *)

Unused == {q \in Slot : state[q] = "UNUSED"}

\* allocproc claims the first unused slot ...
allocproc(c, p) ==
  LET q == First(Unused) IN
  /\ Runs(c, p) /\ at[p] = "kernel" /\ plock = NoCPU
  /\ Unused # {} /\ nextpid <= MaxPid
  /\ state' = [state EXCEPT ![q] = "EMBRYO"]
  /\ pid' = [pid EXCEPT ![q] = nextpid]
  /\ nextpid' = nextpid + 1
  /\ np' = [np EXCEPT ![p] = q]
  /\ Goto(p, "alloc")
  /\ UNCHANGED <<parent, killed, chan, mem, ctx, on, plock, clock>>

\* ... or fork fails for want of one.
ForkFull(c, p) ==
  /\ Runs(c, p) /\ at[p] = "kernel" /\ plock = NoCPU /\ Unused = {}
  /\ Goto(p, "user")
  /\ UNCHANGED <<proc, ctx, np, on, plock, clock, nextpid>>

\* The kernel stack of the child.
AllocStack(c, p) ==
  /\ Runs(c, p) /\ at[p] = "alloc"
  /\ mem' = [mem EXCEPT ![np[p]] = {"kstack"}]
  /\ ctx' = [ctx EXCEPT ![np[p]] = "forkret"]
  /\ Goto(p, "copy")
  /\ UNCHANGED <<state, pid, parent, killed, chan, np, on, plock, clock, nextpid>>

\* Mutant: the child's kernel stack is not freed.
KeepStack(p) == UNCHANGED mem
FreeStack(p) == mem' = [mem EXCEPT ![np[p]] = {}]

\* No memory for the stack or for the page table: the slot is given back,
\* outside of the lock.
ForkFail(c, p) ==
  /\ Runs(c, p) /\ at[p] \in {"alloc", "copy"}
  /\ FreeStack(p)
  /\ state' = [state EXCEPT ![np[p]] = "UNUSED"]
  /\ np' = [np EXCEPT ![p] = NULL]
  /\ Goto(p, "user")
  /\ UNCHANGED <<pid, parent, killed, chan, ctx, on, plock, clock, nextpid>>

\* copyuvm and the rest of the child's copy.
ForkCopy(c, p) ==
  /\ Runs(c, p) /\ at[p] = "copy"
  /\ mem' = [mem EXCEPT ![np[p]] = @ \cup {"pgdir"}]
  /\ parent' = [parent EXCEPT ![np[p]] = p]
  /\ Goto(p, "ready")
  /\ UNCHANGED <<state, pid, killed, chan, ctx, np, on, plock, clock, nextpid>>

\* The child may run from here on.
ForkReady(c, p) ==
  /\ Runs(c, p) /\ at[p] = "ready" /\ plock = NoCPU
  /\ state' = [state EXCEPT ![np[p]] = "RUNNABLE"]
  /\ at' = [at EXCEPT ![np[p]] = "user", ![p] = "user"]
  /\ np' = [np EXCEPT ![p] = NULL]
  /\ UNCHANGED <<pid, parent, killed, chan, mem, ctx, on, plock, clock, nextpid>>

----------------------------------------------------------------------------
(* exit, wait, kill                                                        *)

\* The system call exit; init never makes it.
sys_exit(c, p) ==
  /\ Runs(c, p) /\ at[p] = "kernel" /\ p # initproc
  /\ Goto(p, "exit")
  /\ UNCHANGED <<proc, ctx, np, on, plock, clock, nextpid>>

Children(p) == {q \in Slot : parent[q] = p}
Zombies(p)  == {q \in Children(p) : state[q] = "ZOMBIE"}

\* The channels that exit of p wakes.  Mutant: not those of adopted zombies.
WakeParent(p) == {parent[p]}
Woken(p)      == {parent[p]} \cup (IF Zombies(p) # {} THEN {initproc} ELSE {})

\* Mutant: abandoned children stay with the dead process.
Abandon(p)  == UNCHANGED parent
Reparent(p) == parent' = [q \in Slot |-> IF q \in Children(p) THEN initproc
                                         ELSE parent[q]]

exit(c, p) ==
  /\ Runs(c, p) /\ at[p] = "exit" /\ p # initproc /\ plock = NoCPU
  /\ Reparent(p)
  /\ state' = [q \in Slot |->
       IF q = p THEN "ZOMBIE"
       ELSE IF state[q] = "SLEEPING" /\ chan[q] \in Woken(p) THEN "RUNNABLE"
       ELSE state[q]]
  /\ sched(c, p, "dead")
  /\ UNCHANGED <<pid, killed, chan, mem, at, np, on, clock, nextpid>>

\* panic("init exiting"); the CPU spins for ever.
InitExiting(c) ==
  /\ Runs(c, initproc) /\ at[initproc] \in {"exit", "panic"}
  /\ Goto(initproc, "panic")
  /\ UNCHANGED <<proc, ctx, np, on, plock, clock, nextpid>>

\* The loop of wait, at its start or after a wakeup, with the lock held.
InWait(c, p) ==
  \/ Runs(c, p) /\ at[p] = "kernel" /\ plock = NoCPU
  \/ on[c] = p /\ state[p] = "RUNNING" /\ ctx[p] = "wait" /\ plock = c

WaitReturn(p) ==
  /\ ctx' = [ctx EXCEPT ![p] = "run"]
  /\ chan' = [chan EXCEPT ![p] = NULL]
  /\ plock' = NoCPU
  /\ Goto(p, "user")

\* The first exited child is freed; its slot can be used again.
WaitReap(c, p) ==
  LET q == First(Zombies(p)) IN
  /\ InWait(c, p) /\ Zombies(p) # {}
  /\ mem' = [mem EXCEPT ![q] = {}]
  /\ pid' = [pid EXCEPT ![q] = 0]
  /\ parent' = [parent EXCEPT ![q] = NULL]
  /\ killed' = [killed EXCEPT ![q] = FALSE]
  /\ state' = [state EXCEPT ![q] = "UNUSED"]
  /\ WaitReturn(p)
  /\ UNCHANGED <<np, on, clock, nextpid>>

WaitFail(c, p) ==
  /\ InWait(c, p) /\ Zombies(p) = {}
  /\ Children(p) = {} \/ killed[p]
  /\ WaitReturn(p)
  /\ UNCHANGED <<state, pid, parent, killed, mem, np, on, clock, nextpid>>

\* wait calls sleep(curproc, &ptable.lock).
WaitSleep(c, p) ==
  /\ InWait(c, p) /\ Zombies(p) = {} /\ Children(p) # {} /\ ~killed[p]
  /\ chan' = [chan EXCEPT ![p] = p]
  /\ state' = [state EXCEPT ![p] = "SLEEPING"]
  /\ sched(c, p, "wait")
  /\ UNCHANGED <<pid, parent, killed, mem, at, np, on, clock, nextpid>>

\* kill ends a sleep.  Mutant: it does not.
KillWakesNone(q) == UNCHANGED state
KillWakes(q)     == state' = [state EXCEPT ![q] = IF @ = "SLEEPING" THEN "RUNNABLE" ELSE @]

\* kill does not look at the state of the slot it finds.
kill(c, p, x) ==
  LET S == {r \in Slot : pid[r] = x} IN
  /\ Runs(c, p) /\ at[p] = "kernel" /\ plock = NoCPU
  /\ \/ S = {} /\ UNCHANGED <<killed, state>>
     \/ S # {} /\ killed' = [killed EXCEPT ![First(S)] = TRUE] /\ KillWakes(First(S))
  /\ Goto(p, "user")
  /\ UNCHANGED <<pid, parent, chan, mem, ctx, np, on, plock, clock, nextpid>>

----------------------------------------------------------------------------
(* sys_sleep and the timer interrupt                                       *)

elapsed(p) == (ticks - tick0[p]) % 2^TickW

sys_sleep(c, p, n) ==
  /\ Runs(c, p) /\ at[p] = "kernel" /\ tlock = NULL
  /\ tlock' = p
  /\ tick0' = [tick0 EXCEPT ![p] = ticks]
  /\ tickn' = [tickn EXCEPT ![p] = n]
  /\ Goto(p, "tcheck")
  /\ UNCHANGED <<proc, ctx, np, on, plock, ticks, intr, nextpid>>

\* sleep is called with tickslock held.  Mutant: it is released before.
DropTickslock == tlock' = NULL
KeepTickslock == UNCHANGED tlock

\* The loop's test, with tickslock held.
TickCheck(c, p) ==
  /\ Runs(c, p) /\ at[p] = "tcheck"
  /\ \/ /\ elapsed(p) >= tickn[p] \/ killed[p]
        /\ tlock' = NULL /\ Goto(p, "user")
     \/ /\ elapsed(p) < tickn[p] /\ ~killed[p]
        /\ KeepTickslock /\ Goto(p, "tsleep")
  /\ UNCHANGED <<proc, ctx, np, on, plock, ticks, tick0, tickn, intr, nextpid>>

\* sleep(&ticks, &tickslock): take ptable.lock, then release tickslock.
sleep(c, p) ==
  /\ Runs(c, p) /\ at[p] = "tsleep" /\ plock = NoCPU
  /\ chan' = [chan EXCEPT ![p] = TICKS]
  /\ state' = [state EXCEPT ![p] = "SLEEPING"]
  /\ tlock' = NULL
  /\ sched(c, p, "sleep")
  /\ Goto(p, "relock")
  /\ UNCHANGED <<pid, parent, killed, mem, np, on, ticks, tick0, tickn, intr,
                 nextpid>>

\* sleep goes on after a wakeup: release ptable.lock ...
SleepReturn(c, p) ==
  /\ on[c] = p /\ plock = c /\ state[p] = "RUNNING" /\ ctx[p] = "sleep"
  /\ chan' = [chan EXCEPT ![p] = NULL]
  /\ ctx' = [ctx EXCEPT ![p] = "run"]
  /\ plock' = NoCPU
  /\ UNCHANGED <<state, pid, parent, killed, mem, at, np, on, clock, nextpid>>

\* ... and acquire tickslock again: interrupts go off, then the lock is spun for.
Pushcli(c, p) ==
  /\ Runs(c, p) /\ at[p] = "relock"
  /\ Goto(p, "spin")
  /\ UNCHANGED <<proc, ctx, np, on, plock, clock, nextpid>>

Relock(c, p) ==
  /\ Runs(c, p) /\ at[p] = "spin" /\ tlock = NULL
  /\ tlock' = p
  /\ Goto(p, "tcheck")
  /\ UNCHANGED <<proc, ctx, np, on, plock, ticks, tick0, tickn, intr, nextpid>>

\* ticks is a uint.
NextTick == (ticks + 1) % 2^TickW

\* The timer interrupt of trap.c, on a CPU with interrupts enabled: count the
\* tick, then wakeup(&ticks).
TimerTick(c) ==
  /\ intr = NoCPU /\ tlock = NULL /\ plock # c /\ SleepNs # {}
  /\ \A p \in Slot : on[c] = p => at[p] \notin IntrOff
  /\ tlock' = Timer
  /\ ticks' = NextTick
  /\ intr' = c
  /\ UNCHANGED <<proc, ctx, at, np, on, plock, tick0, tickn, nextpid>>

\* Mutant: nobody is woken.
wakeNone(x) == UNCHANGED state
wakeup1(x)  == state' = [q \in Slot |-> IF state[q] = "SLEEPING" /\ chan[q] = x
                                        THEN "RUNNABLE" ELSE state[q]]

wakeup(c) ==
  /\ intr = c /\ plock = NoCPU
  /\ wakeup1(TICKS)
  /\ tlock' = NULL
  /\ intr' = NoCPU
  /\ UNCHANGED <<pid, parent, killed, chan, mem, ctx, at, np, on, plock, ticks,
                 tick0, tickn, nextpid>>

----------------------------------------------------------------------------
\* The steps of p's kernel thread on c.
Thread(c, p) ==
  \/ Resume(c, p) \/ trap(c, p)
  \/ allocproc(c, p) \/ ForkFull(c, p) \/ AllocStack(c, p) \/ ForkFail(c, p)
  \/ ForkCopy(c, p) \/ ForkReady(c, p)
  \/ sys_exit(c, p) \/ exit(c, p)
  \/ WaitReap(c, p) \/ WaitFail(c, p) \/ WaitSleep(c, p)
  \/ \E x \in KillPids : kill(c, p, x)
  \/ \E n \in SleepNs : sys_sleep(c, p, n)
  \/ TickCheck(c, p) \/ sleep(c, p) \/ SleepReturn(c, p)
  \/ Pushcli(c, p) \/ Relock(c, p)

Next == \/ \E c \in CPUs, p \in Slot : scheduler(c, p) \/ yield(c, p) \/ Thread(c, p)
        \/ \E c \in CPUs : swtch(c) \/ InitExiting(c) \/ TimerTick(c) \/ wakeup(c)

Spec == Init /\ [][Next]_vars

\* What a CPU does with p's thread, other than switching to and from it.
Progress(p) == \E c \in CPUs : Thread(c, p) /\ ~Resume(c, p)

\* CPUs go on, the timer interrupts each of them again and again, a process
\* makes progress in the time it is given, and every runnable process wins
\* the lottery again and again (see Lottery).
FairSpec ==
  /\ Spec
  /\ WF_vars(\E c \in CPUs : swtch(c))
  /\ WF_vars(\E c \in CPUs, p \in Slot : Resume(c, p))
  /\ SF_vars(\E c \in CPUs : TimerTick(c)) /\ SF_vars(\E c \in CPUs : wakeup(c))
  /\ \A c \in CPUs : SF_vars(\E p \in Slot : yield(c, p))
  /\ \A p \in Slot : SF_vars(Progress(p)) /\ SF_vars(\E c \in CPUs : scheduler(c, p))

----------------------------------------------------------------------------
(* Properties                                                              *)

Live(p)    == state[p] \in {"SLEEPING", "RUNNABLE", "RUNNING"}
Forking(p) == Live(p) /\ at[p] \in {"alloc", "copy", "ready"}

\* Every variable has its type: those of the table, and those of the clock.
TableOK ==
  /\ state \in [Slot -> States] /\ pid \in [Slot -> Nat] /\ nextpid \in Nat
  /\ parent \in [Slot -> Slot \cup {NULL}] /\ killed \in [Slot -> BOOLEAN]
  /\ chan \in [Slot -> Slot \cup {NULL, TICKS}]
  /\ mem \in [Slot -> SUBSET {"kstack", "pgdir"}]
  /\ ctx \in [Slot -> {"none", "forkret", "run", "yield", "sleep", "wait", "dead"}]
  /\ at \in [Slot -> {"none", "user", "kernel", "alloc", "copy", "ready", "exit",
                      "tcheck", "tsleep", "relock", "spin", "panic"}]
  /\ np \in [Slot -> Slot \cup {NULL}]
  /\ on \in [CPUs -> Slot \cup {NULL}] /\ plock \in CPUs \cup {NoCPU}
  /\ tlock \in Slot \cup {NULL, Timer} /\ intr \in CPUs \cup {NoCPU}
ClockOK ==
  /\ ticks \in 0..(2^TickW - 1) /\ tick0 \in [Slot -> 0..(2^TickW - 1)]
  /\ tickn \in [Slot -> Nat]
TypeOK == TableOK /\ ClockOK

\* A process is executed by one CPU at most, also while it changes from
\* RUNNING to something else and still is on its stack (lines 386-394, 420).
OneCPU ==
  /\ \A c, d \in CPUs : on[c] # NULL /\ on[c] = on[d] => c = d
  /\ \A p \in Slot : state[p] = "RUNNING" => \E c \in CPUs : on[c] = p

\* wait frees no stack or page table that a CPU still uses (lines 273, 297).
StackInUse == \A c \in CPUs : on[c] # NULL => mem[on[c]] = {"kstack", "pgdir"}

\* A slot is free and without memory, or fully a process, or in the hands of
\* one fork, which writes it without the lock (lines 98-102, 197-218).
SlotsOwned == \A q \in Slot :
  /\ state[q] = "UNUSED" => mem[q] = {}
  /\ Live(q) \/ state[q] = "ZOMBIE" => mem[q] = {"kstack", "pgdir"}
  /\ state[q] = "EMBRYO" <=> \E p \in Slot : Forking(p) /\ np[p] = q
  /\ \A p, r \in Slot : Forking(p) /\ Forking(r) /\ np[p] = np[r] => p = r

\* Every process but init has a parent that can still wait for it.
ParentsLive == \A p \in Slot \ {initproc} :
  Live(p) \/ state[p] = "ZOMBIE" => parent[p] # NULL /\ Live(parent[p])

\* Nobody sleeps in wait who has a child to reap or has been killed.
NoLostExit == \A p \in Slot :
  state[p] = "SLEEPING" /\ chan[p] = p => Zombies(p) = {} /\ ~killed[p]

\* Nobody sleeps for ticks past his time, unless the tick's wakeup is due.
NoLostTick == \A p \in Slot :
  state[p] = "SLEEPING" /\ chan[p] = TICKS
    => elapsed(p) < tickn[p] \/ intr # NoCPU

\* A killed process ends, wherever it was when it was killed.
KilledDies == \A p \in Slot \ {initproc} :
  (Live(p) /\ killed[p]) ~> ~Live(p)

\* The comment at line 516: kill is for the process with the given pid; so
\* nobody is killed before he is created.
NotBornKilled == [][\A p \in Slot :
  state[p] = "UNUSED" /\ state'[p] = "EMBRYO" => ~killed'[p]]_vars
=============================================================================
