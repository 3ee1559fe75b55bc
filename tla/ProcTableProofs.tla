-------------------------- MODULE ProcTableProofs --------------------------
(***************************************************************************)
(* Safety of the process table of Lab2 for every number of CPUs and slots. *)
(***************************************************************************)
EXTENDS ProcTable, NatFacts, TLAPS

(* The inductive invariant                                                 *)

\* ptable.lock is held by the CPU that is between two threads: from the change
\* of the state in sched, or by the scheduler, to the release on the other side.
SwitchInv == \A c \in CPUs :
  plock = c <=> on[c] # NULL /\ ~(state[on[c]] = "RUNNING" /\ ctx[on[c]] = "run")

\* A thread that does not run has a context to go on from; a CPU executes only
\* what is a process.
ContextInv ==
  /\ \A p \in Slot : /\ state[p] \in {"RUNNABLE", "SLEEPING"} => ctx[p] # "run"
                     /\ Live(p) /\ ctx[p] = "wait" => at[p] = "kernel"
  /\ \A c \in CPUs : on[c] # NULL => state[on[c]] \notin {"UNUSED", "EMBRYO"}

\* What a fork has given its child so far.
ForkInv == \A p \in Slot : Forking(p) =>
  /\ np[p] \in Slot /\ state[np[p]] = "EMBRYO"
  /\ at[p] = "alloc" => mem[np[p]] = {}
  /\ at[p] = "copy"  => mem[np[p]] = {"kstack"} /\ ctx[np[p]] = "forkret"
  /\ at[p] = "ready" => /\ mem[np[p]] = {"kstack", "pgdir"} /\ ctx[np[p]] = "forkret"
                        /\ parent[np[p]] = p

\* init lives for ever; a parent is a live process, and another one.
ParentInv ==
  /\ Live(initproc) /\ parent[initproc] = NULL
  /\ \A p \in Slot : parent[p] # NULL => Live(parent[p]) /\ parent[p] # p

\* tickslock is held from the test in sys_sleep to the sleep, and from the
\* tick to its wakeup.
TickInv ==
  /\ intr # NoCPU => tlock = Timer
  /\ \A p \in Slot : Live(p) =>
       /\ at[p] \in {"tcheck", "tsleep"} => tlock = p
       /\ at[p] = "tsleep" => elapsed(p) < tickn[p]

IInv == /\ TableOK /\ OneCPU /\ SwitchInv /\ ContextInv /\ SlotsOwned /\ ForkInv
        /\ ParentsLive /\ ParentInv /\ NoLostExit /\ TickInv /\ NoLostTick
----------------------------------------------------------------------------
(* Each action keeps the invariant                                         *)

LEMMA ConstFacts == /\ NULL \notin Slot /\ initproc \in Slot
                    /\ TICKS \notin Slot \cup {NULL} /\ Timer \notin Slot \cup {NULL}
  BY ProcAssumption DEF Slot, NULL, TICKS, Timer, initproc

LEMMA FirstIn == ASSUME NEW S \in SUBSET Slot, S # {} PROVE First(S) \in S
<1>1. S \in SUBSET Nat
  BY DEF Slot
<1> QED BY <1>1, Least DEF First

\* Steps of a running thread that only go on in its code: a trap, the calls
\* that fail at once, the way to exit and to the spinning for tickslock.
Passing(p) == \E l \in {"user", "kernel", "exit", "panic", "spin"} :
  /\ at[p] \in {"user", "kernel", "exit", "panic", "relock"} /\ Goto(p, l)
  /\ UNCHANGED <<proc, ctx, np, on, plock, clock, nextpid>>

LEMMA PassingStep ==
  ASSUME IInv, NEW c \in CPUs, NEW p \in Slot, Runs(c, p), Passing(p)
  PROVE  IInv'
<1> USE ConstFacts, ProcAssumption DEF IInv, TableOK, proc, clock, Passing, Runs, Goto
<1>1. TableOK'
  BY DEF TableOK, States
<1>2. OneCPU' /\ SwitchInv' /\ ContextInv'
  BY DEF OneCPU, SwitchInv, ContextInv, ForkInv, Forking, Live
<1>3. SlotsOwned' /\ ForkInv'
  BY DEF SlotsOwned, ForkInv, OneCPU, SwitchInv, ContextInv, ParentInv, Forking, Live
<1>4. ParentsLive' /\ ParentInv' /\ NoLostExit'
  BY DEF ParentsLive, ParentInv, NoLostExit, OneCPU, SlotsOwned, ForkInv, Forking, Live,
         Zombies, Children
<1>5. TickInv' /\ NoLostTick'
  BY DEF TickInv, NoLostTick, SlotsOwned, ForkInv, Forking, Live, elapsed
<1> QED BY <1>1, <1>2, <1>3, <1>4, <1>5

LEMMA SchedulerStep ==
  ASSUME IInv, NEW c \in CPUs, NEW p \in Slot, scheduler(c, p)
  PROVE  IInv'
<1> USE ConstFacts, ProcAssumption DEF IInv, TableOK, proc, clock, scheduler
<1>1. TableOK'
  BY DEF TableOK, States
<1>2. OneCPU' /\ SwitchInv' /\ ContextInv'
  BY DEF OneCPU, SwitchInv, ContextInv, ForkInv, Forking, Live
<1>3. SlotsOwned' /\ ForkInv'
  BY DEF SlotsOwned, ForkInv, OneCPU, SwitchInv, ContextInv, ParentInv, Forking, Live
<1>4. ParentsLive' /\ ParentInv' /\ NoLostExit'
  BY DEF ParentsLive, ParentInv, NoLostExit, OneCPU, SlotsOwned, ForkInv, Forking, Live,
         Zombies, Children
<1>5. TickInv' /\ NoLostTick'
  BY DEF TickInv, NoLostTick, SlotsOwned, ForkInv, Forking, Live, elapsed
<1> QED BY <1>1, <1>2, <1>3, <1>4, <1>5

LEMMA SwtchStep ==
  ASSUME IInv, NEW c \in CPUs, swtch(c)
  PROVE  IInv'
<1> USE ConstFacts, ProcAssumption DEF IInv, TableOK, proc, clock, swtch
<1>1. TableOK'
  BY DEF TableOK, States
<1>2. OneCPU' /\ SwitchInv' /\ ContextInv'
  BY DEF OneCPU, SwitchInv, ContextInv, ForkInv, Forking, Live
<1>3. SlotsOwned' /\ ForkInv'
  BY DEF SlotsOwned, ForkInv, OneCPU, SwitchInv, ContextInv, ParentInv, Forking, Live
<1>4. ParentsLive' /\ ParentInv' /\ NoLostExit'
  BY DEF ParentsLive, ParentInv, NoLostExit, OneCPU, SlotsOwned, ForkInv, Forking, Live,
         Zombies, Children
<1>5. TickInv' /\ NoLostTick'
  BY DEF TickInv, NoLostTick, SlotsOwned, ForkInv, Forking, Live, elapsed
<1> QED BY <1>1, <1>2, <1>3, <1>4, <1>5

LEMMA ResumeStep ==
  ASSUME IInv, NEW c \in CPUs, NEW p \in Slot, Resume(c, p)
  PROVE  IInv'
<1> USE ConstFacts, ProcAssumption DEF IInv, TableOK, proc, clock, Resume
<1>1. TableOK'
  BY DEF TableOK, States
<1>2. OneCPU' /\ SwitchInv' /\ ContextInv'
  BY DEF OneCPU, SwitchInv, ContextInv, ForkInv, Forking, Live
<1>3. SlotsOwned' /\ ForkInv'
  BY DEF SlotsOwned, ForkInv, OneCPU, SwitchInv, ContextInv, ParentInv, Forking, Live
<1>4. ParentsLive' /\ ParentInv' /\ NoLostExit'
  BY DEF ParentsLive, ParentInv, NoLostExit, OneCPU, SlotsOwned, ForkInv, Forking, Live,
         Zombies, Children
<1>5. TickInv' /\ NoLostTick'
  BY DEF TickInv, NoLostTick, SlotsOwned, ForkInv, Forking, Live, elapsed
<1> QED BY <1>1, <1>2, <1>3, <1>4, <1>5

LEMMA YieldStep ==
  ASSUME IInv, NEW c \in CPUs, NEW p \in Slot, yield(c, p)
  PROVE  IInv'
<1> USE ConstFacts, ProcAssumption DEF IInv, TableOK, proc, clock, yield, Runs, sched
<1>1. TableOK'
  BY DEF TableOK, States
<1>2. OneCPU' /\ SwitchInv' /\ ContextInv'
  BY DEF OneCPU, SwitchInv, ContextInv, ForkInv, Forking, Live
<1>3. SlotsOwned' /\ ForkInv'
  BY DEF SlotsOwned, ForkInv, OneCPU, SwitchInv, ContextInv, ParentInv, Forking, Live
<1>4. ParentsLive' /\ ParentInv' /\ NoLostExit'
  BY DEF ParentsLive, ParentInv, NoLostExit, OneCPU, SlotsOwned, ForkInv, Forking, Live,
         Zombies, Children
<1>5. TickInv' /\ NoLostTick'
  BY DEF TickInv, NoLostTick, SlotsOwned, ForkInv, Forking, Live, elapsed
<1> QED BY <1>1, <1>2, <1>3, <1>4, <1>5

\* fork

LEMMA AllocprocStep ==
  ASSUME IInv, NEW c \in CPUs, NEW p \in Slot, allocproc(c, p)
  PROVE  IInv'
<1>1. First(Unused) \in Slot /\ state[First(Unused)] = "UNUSED"
  <2>1. Unused \in SUBSET Slot /\ Unused # {}
    BY DEF allocproc, Unused
  <2>2. First(Unused) \in Unused
    BY <2>1, FirstIn
  <2> QED BY <2>2 DEF Unused
<1> USE ConstFacts, ProcAssumption DEF IInv, TableOK, proc, clock, allocproc, Runs, Goto
<1>2. TableOK'
  BY <1>1 DEF TableOK, States
<1>3. OneCPU' /\ SwitchInv' /\ ContextInv'
  BY <1>1 DEF OneCPU, SwitchInv, ContextInv, ForkInv, Forking, Live
<1>4. SlotsOwned' /\ ForkInv'
  BY <1>1 DEF SlotsOwned, ForkInv, OneCPU, SwitchInv, ContextInv, ParentInv, Forking,
         Live
<1>5. ParentsLive' /\ ParentInv' /\ NoLostExit'
  BY <1>1 DEF ParentsLive, ParentInv, NoLostExit, OneCPU, SlotsOwned, ForkInv,
         Forking, Live,
         Zombies, Children
<1>6. TickInv' /\ NoLostTick'
  BY <1>1 DEF TickInv, NoLostTick, SlotsOwned, ForkInv, Forking, Live, elapsed
<1> QED BY <1>2, <1>3, <1>4, <1>5, <1>6

LEMMA AllocStackStep ==
  ASSUME IInv, NEW c \in CPUs, NEW p \in Slot, AllocStack(c, p)
  PROVE  IInv'
<1> USE ConstFacts, ProcAssumption DEF IInv, TableOK, proc, clock, AllocStack, Runs,
        Goto
<1>1. TableOK'
  BY DEF TableOK, States
<1>2. OneCPU' /\ SwitchInv' /\ ContextInv'
  BY DEF OneCPU, SwitchInv, ContextInv, ForkInv, Forking, Live
<1>3. SlotsOwned' /\ ForkInv'
  BY DEF SlotsOwned, ForkInv, OneCPU, SwitchInv, ContextInv, ParentInv, Forking, Live
<1>4. ParentsLive' /\ ParentInv' /\ NoLostExit'
  BY DEF ParentsLive, ParentInv, NoLostExit, OneCPU, SlotsOwned, ForkInv, Forking, Live,
         Zombies, Children
<1>5. TickInv' /\ NoLostTick'
  BY DEF TickInv, NoLostTick, SlotsOwned, ForkInv, Forking, Live, elapsed
<1> QED BY <1>1, <1>2, <1>3, <1>4, <1>5

LEMMA ForkFailStep ==
  ASSUME IInv, NEW c \in CPUs, NEW p \in Slot, ForkFail(c, p)
  PROVE  IInv'
<1> USE ConstFacts, ProcAssumption DEF IInv, TableOK, proc, clock, ForkFail,
        FreeStack, Runs, Goto
<1>1. TableOK'
  BY DEF TableOK, States
<1>2. OneCPU' /\ SwitchInv' /\ ContextInv'
  BY DEF OneCPU, SwitchInv, ContextInv, ForkInv, Forking, Live
<1>3. SlotsOwned' /\ ForkInv'
  BY DEF SlotsOwned, ForkInv, OneCPU, SwitchInv, ContextInv, ParentInv, Forking, Live
<1>4. ParentsLive' /\ ParentInv' /\ NoLostExit'
  BY DEF ParentsLive, ParentInv, NoLostExit, OneCPU, SlotsOwned, ForkInv, Forking, Live,
         Zombies, Children
<1>5. TickInv' /\ NoLostTick'
  BY DEF TickInv, NoLostTick, SlotsOwned, ForkInv, Forking, Live, elapsed
<1> QED BY <1>1, <1>2, <1>3, <1>4, <1>5

LEMMA ForkCopyStep ==
  ASSUME IInv, NEW c \in CPUs, NEW p \in Slot, ForkCopy(c, p)
  PROVE  IInv'
<1> USE ConstFacts, ProcAssumption DEF IInv, TableOK, proc, clock, ForkCopy, Runs, Goto
<1>1. TableOK'
  BY DEF TableOK, States
<1>2. OneCPU' /\ SwitchInv' /\ ContextInv'
  BY DEF OneCPU, SwitchInv, ContextInv, ForkInv, Forking, Live
<1>3. SlotsOwned' /\ ForkInv'
  BY DEF SlotsOwned, ForkInv, OneCPU, SwitchInv, ContextInv, ParentInv, Forking, Live
<1>4. ParentsLive' /\ ParentInv' /\ NoLostExit'
  BY DEF ParentsLive, ParentInv, NoLostExit, OneCPU, SlotsOwned, ForkInv, Forking, Live,
         Zombies, Children
<1>5. TickInv' /\ NoLostTick'
  BY DEF TickInv, NoLostTick, SlotsOwned, ForkInv, Forking, Live, elapsed
<1> QED BY <1>1, <1>2, <1>3, <1>4, <1>5

LEMMA ForkReadyStep ==
  ASSUME IInv, NEW c \in CPUs, NEW p \in Slot, ForkReady(c, p)
  PROVE  IInv'
<1> USE ConstFacts, ProcAssumption DEF IInv, TableOK, proc, clock, ForkReady, Runs
<1>1. TableOK'
  BY DEF TableOK, States
<1>2. OneCPU' /\ SwitchInv' /\ ContextInv'
  BY DEF OneCPU, SwitchInv, ContextInv, ForkInv, Forking, Live
<1>3. SlotsOwned' /\ ForkInv'
  BY DEF SlotsOwned, ForkInv, OneCPU, SwitchInv, ContextInv, ParentInv, Forking, Live
<1>4. ParentsLive' /\ ParentInv' /\ NoLostExit'
  BY DEF ParentsLive, ParentInv, NoLostExit, OneCPU, SlotsOwned, ForkInv, Forking, Live,
         Zombies, Children
<1>5. TickInv' /\ NoLostTick'
  BY DEF TickInv, NoLostTick, SlotsOwned, ForkInv, Forking, Live, elapsed
<1> QED BY <1>1, <1>2, <1>3, <1>4, <1>5

\* exit, wait, kill

LEMMA ExitStep ==
  ASSUME IInv, NEW c \in CPUs, NEW p \in Slot, exit(c, p)
  PROVE  IInv'
<1> USE ConstFacts, ProcAssumption DEF IInv, TableOK, proc, clock, exit, Reparent,
        Woken, Children, Zombies, sched, Runs
<1>1. TableOK'
  BY DEF TableOK, States
<1>2. OneCPU' /\ SwitchInv' /\ ContextInv'
  BY DEF OneCPU, SwitchInv, ContextInv, ForkInv, Forking, Live
<1>3. SlotsOwned' /\ ForkInv'
  BY DEF SlotsOwned, ForkInv, OneCPU, SwitchInv, ContextInv, ParentInv, Forking, Live
<1>4. ParentsLive' /\ ParentInv' /\ NoLostExit'
  BY DEF ParentsLive, ParentInv, NoLostExit, OneCPU, SlotsOwned, ForkInv, Forking, Live,
         Zombies, Children
<1>5. TickInv' /\ NoLostTick'
  BY DEF TickInv, NoLostTick, SlotsOwned, ForkInv, Forking, Live, elapsed
<1> QED BY <1>1, <1>2, <1>3, <1>4, <1>5

LEMMA WaitReapStep ==
  ASSUME IInv, NEW c \in CPUs, NEW p \in Slot, WaitReap(c, p)
  PROVE  IInv'
<1>1. First(Zombies(p)) \in Zombies(p)
  <2>1. Zombies(p) \in SUBSET Slot /\ Zombies(p) # {}
    BY DEF WaitReap, Zombies, Children
  <2> QED BY <2>1, FirstIn
<1>2. PICK q \in Slot :
        /\ state[q] = "ZOMBIE" /\ parent[q] = p /\ InWait(c, p)
        /\ mem' = [mem EXCEPT ![q] = {}] /\ pid' = [pid EXCEPT ![q] = 0]
        /\ parent' = [parent EXCEPT ![q] = NULL]
        /\ killed' = [killed EXCEPT ![q] = FALSE]
        /\ state' = [state EXCEPT ![q] = "UNUSED"]
        /\ WaitReturn(p) /\ UNCHANGED <<np, on, clock, nextpid>>
  BY <1>1 DEF WaitReap, Zombies, Children
<1> USE ConstFacts, ProcAssumption DEF IInv, TableOK, proc, clock, InWait,
        WaitReturn, Runs, Goto
<1>3. TableOK'
  BY <1>2 DEF TableOK, States
<1>4. OneCPU' /\ SwitchInv' /\ ContextInv'
  BY <1>2 DEF OneCPU, SwitchInv, ContextInv, ForkInv, Forking, Live
<1>5. SlotsOwned' /\ ForkInv'
  BY <1>2 DEF SlotsOwned, ForkInv, OneCPU, SwitchInv, ContextInv, ParentInv, Forking,
         Live
<1>6. ParentsLive' /\ ParentInv' /\ NoLostExit'
  BY <1>2 DEF ParentsLive, ParentInv, NoLostExit, OneCPU, SlotsOwned, ForkInv,
         Forking, Live,
         Zombies, Children
<1>7. TickInv' /\ NoLostTick'
  BY <1>2 DEF TickInv, NoLostTick, SlotsOwned, ForkInv, Forking, Live, elapsed
<1> QED BY <1>3, <1>4, <1>5, <1>6, <1>7

LEMMA WaitFailStep ==
  ASSUME IInv, NEW c \in CPUs, NEW p \in Slot, WaitFail(c, p)
  PROVE  IInv'
<1> USE ConstFacts, ProcAssumption DEF IInv, TableOK, proc, clock, WaitFail, InWait,
        WaitReturn, Runs, Goto
<1>1. TableOK'
  BY DEF TableOK, States
<1>2. OneCPU' /\ SwitchInv' /\ ContextInv'
  BY DEF OneCPU, SwitchInv, ContextInv, ForkInv, Forking, Live
<1>3. SlotsOwned' /\ ForkInv'
  BY DEF SlotsOwned, ForkInv, OneCPU, SwitchInv, ContextInv, ParentInv, Forking, Live
<1>4. ParentsLive' /\ ParentInv' /\ NoLostExit'
  BY DEF ParentsLive, ParentInv, NoLostExit, OneCPU, SlotsOwned, ForkInv, Forking, Live,
         Zombies, Children
<1>5. TickInv' /\ NoLostTick'
  BY DEF TickInv, NoLostTick, SlotsOwned, ForkInv, Forking, Live, elapsed
<1> QED BY <1>1, <1>2, <1>3, <1>4, <1>5

LEMMA WaitSleepStep ==
  ASSUME IInv, NEW c \in CPUs, NEW p \in Slot, WaitSleep(c, p)
  PROVE  IInv'
<1> USE ConstFacts, ProcAssumption DEF IInv, TableOK, proc, clock, WaitSleep, InWait,
        sched, Runs
<1>1. TableOK'
  BY DEF TableOK, States
<1>2. OneCPU' /\ SwitchInv' /\ ContextInv'
  BY DEF OneCPU, SwitchInv, ContextInv, ForkInv, Forking, Live
<1>3. SlotsOwned' /\ ForkInv'
  BY DEF SlotsOwned, ForkInv, OneCPU, SwitchInv, ContextInv, ParentInv, Forking, Live
<1>4. ParentsLive' /\ ParentInv' /\ NoLostExit'
  BY DEF ParentsLive, ParentInv, NoLostExit, OneCPU, SlotsOwned, ForkInv, Forking, Live,
         Zombies, Children
<1>5. TickInv' /\ NoLostTick'
  BY DEF TickInv, NoLostTick, SlotsOwned, ForkInv, Forking, Live, elapsed
<1> QED BY <1>1, <1>2, <1>3, <1>4, <1>5

LEMMA KillStep ==
  ASSUME IInv, NEW c \in CPUs, NEW p \in Slot, NEW x \in KillPids, kill(c, p, x)
  PROVE  IInv'
<1>1. PICK q \in Slot : \/ UNCHANGED <<killed, state>>
                        \/ killed' = [killed EXCEPT ![q] = TRUE] /\ KillWakes(q)
  <2> DEFINE S == {r \in Slot : pid[r] = x}
  <2>1. CASE S = {}
    BY <2>1, ConstFacts DEF kill
  <2>2. CASE S # {}
    <3>1. First(S) \in Slot
      BY <2>2, FirstIn
    <3> QED BY <2>2, <3>1 DEF kill
  <2> QED BY <2>1, <2>2
<1>2. /\ Runs(c, p) /\ at[p] = "kernel" /\ plock = NoCPU /\ Goto(p, "user")
      /\ UNCHANGED <<pid, parent, chan, mem, ctx, np, on, plock, clock, nextpid>>
  BY DEF kill
<1> USE ConstFacts, ProcAssumption DEF IInv, TableOK, proc, clock, KillWakes, Runs, Goto
<1>3. TableOK'
  <2>1. state' \in [Slot -> States]
    BY <1>1 DEF States
  <2>2. killed' \in [Slot -> BOOLEAN]
    BY <1>1
  <2> QED BY <1>2, <2>1, <2>2
<1>4. OneCPU' /\ SwitchInv' /\ ContextInv'
  BY <1>1, <1>2 DEF OneCPU, SwitchInv, ContextInv, ForkInv, Forking, Live
<1>5. SlotsOwned' /\ ForkInv'
  BY <1>1, <1>2 DEF SlotsOwned, ForkInv, OneCPU, SwitchInv, ContextInv, ParentInv,
         Forking, Live
<1>6. ParentsLive' /\ ParentInv' /\ NoLostExit'
  BY <1>1, <1>2 DEF ParentsLive, ParentInv, NoLostExit, OneCPU, SlotsOwned, ForkInv,
         Forking, Live,
         Zombies, Children
<1>7. TickInv' /\ NoLostTick'
  BY <1>1, <1>2 DEF TickInv, NoLostTick, SlotsOwned, ForkInv, Forking, Live, elapsed
<1> QED BY <1>3, <1>4, <1>5, <1>6, <1>7

\* sys_sleep and the timer

LEMMA SysSleepStep ==
  ASSUME IInv, NEW c \in CPUs, NEW p \in Slot, NEW n \in SleepNs, sys_sleep(c, p, n)
  PROVE  IInv'
<1> USE ConstFacts, ProcAssumption DEF IInv, TableOK, proc, clock, sys_sleep, Runs, Goto
<1>1. TableOK'
  BY DEF TableOK, States
<1>2. OneCPU' /\ SwitchInv' /\ ContextInv'
  BY DEF OneCPU, SwitchInv, ContextInv, ForkInv, Forking, Live
<1>3. SlotsOwned' /\ ForkInv'
  BY DEF SlotsOwned, ForkInv, OneCPU, SwitchInv, ContextInv, ParentInv, Forking, Live
<1>4. ParentsLive' /\ ParentInv' /\ NoLostExit'
  BY DEF ParentsLive, ParentInv, NoLostExit, OneCPU, SlotsOwned, ForkInv, Forking, Live,
         Zombies, Children
<1>5. TickInv' /\ NoLostTick'
  BY DEF TickInv, NoLostTick, SlotsOwned, ForkInv, Forking, Live, elapsed
<1> QED BY <1>1, <1>2, <1>3, <1>4, <1>5

LEMMA TickCheckStep ==
  ASSUME IInv, NEW c \in CPUs, NEW p \in Slot, TickCheck(c, p)
  PROVE  IInv'
<1> USE ConstFacts, ProcAssumption DEF IInv, TableOK, proc, clock, TickCheck,
        KeepTickslock, Runs, Goto
<1>1. TableOK'
  BY DEF TableOK, States
<1>2. OneCPU' /\ SwitchInv' /\ ContextInv'
  BY DEF OneCPU, SwitchInv, ContextInv, ForkInv, Forking, Live
<1>3. SlotsOwned' /\ ForkInv'
  BY DEF SlotsOwned, ForkInv, OneCPU, SwitchInv, ContextInv, ParentInv, Forking, Live
<1>4. ParentsLive' /\ ParentInv' /\ NoLostExit'
  BY DEF ParentsLive, ParentInv, NoLostExit, OneCPU, SlotsOwned, ForkInv, Forking, Live,
         Zombies, Children
<1>5. TickInv' /\ NoLostTick'
  BY DEF TickInv, NoLostTick, SlotsOwned, ForkInv, Forking, Live, elapsed
<1> QED BY <1>1, <1>2, <1>3, <1>4, <1>5

LEMMA SleepStep ==
  ASSUME IInv, NEW c \in CPUs, NEW p \in Slot, sleep(c, p)
  PROVE  IInv'
<1> USE ConstFacts, ProcAssumption DEF IInv, TableOK, proc, clock, sleep, sched,
        Runs, Goto
<1>1. TableOK'
  BY DEF TableOK, States
<1>2. OneCPU' /\ SwitchInv' /\ ContextInv'
  BY DEF OneCPU, SwitchInv, ContextInv, ForkInv, Forking, Live
<1>3. SlotsOwned' /\ ForkInv'
  BY DEF SlotsOwned, ForkInv, OneCPU, SwitchInv, ContextInv, ParentInv, Forking, Live
<1>4. ParentsLive' /\ ParentInv' /\ NoLostExit'
  BY DEF ParentsLive, ParentInv, NoLostExit, OneCPU, SlotsOwned, ForkInv, Forking, Live,
         Zombies, Children
<1>5. TickInv' /\ NoLostTick'
  BY DEF TickInv, NoLostTick, SlotsOwned, ForkInv, Forking, Live, elapsed
<1> QED BY <1>1, <1>2, <1>3, <1>4, <1>5

LEMMA SleepReturnStep ==
  ASSUME IInv, NEW c \in CPUs, NEW p \in Slot, SleepReturn(c, p)
  PROVE  IInv'
<1> USE ConstFacts, ProcAssumption DEF IInv, TableOK, proc, clock, SleepReturn
<1>1. TableOK'
  BY DEF TableOK, States
<1>2. OneCPU' /\ SwitchInv' /\ ContextInv'
  BY DEF OneCPU, SwitchInv, ContextInv, ForkInv, Forking, Live
<1>3. SlotsOwned' /\ ForkInv'
  BY DEF SlotsOwned, ForkInv, OneCPU, SwitchInv, ContextInv, ParentInv, Forking, Live
<1>4. ParentsLive' /\ ParentInv' /\ NoLostExit'
  BY DEF ParentsLive, ParentInv, NoLostExit, OneCPU, SlotsOwned, ForkInv, Forking, Live,
         Zombies, Children
<1>5. TickInv' /\ NoLostTick'
  BY DEF TickInv, NoLostTick, SlotsOwned, ForkInv, Forking, Live, elapsed
<1> QED BY <1>1, <1>2, <1>3, <1>4, <1>5

LEMMA RelockStep ==
  ASSUME IInv, NEW c \in CPUs, NEW p \in Slot, Relock(c, p)
  PROVE  IInv'
<1> USE ConstFacts, ProcAssumption DEF IInv, TableOK, proc, clock, Relock, Runs, Goto
<1>1. TableOK'
  BY DEF TableOK, States
<1>2. OneCPU' /\ SwitchInv' /\ ContextInv'
  BY DEF OneCPU, SwitchInv, ContextInv, ForkInv, Forking, Live
<1>3. SlotsOwned' /\ ForkInv'
  BY DEF SlotsOwned, ForkInv, OneCPU, SwitchInv, ContextInv, ParentInv, Forking, Live
<1>4. ParentsLive' /\ ParentInv' /\ NoLostExit'
  BY DEF ParentsLive, ParentInv, NoLostExit, OneCPU, SlotsOwned, ForkInv, Forking, Live,
         Zombies, Children
<1>5. TickInv' /\ NoLostTick'
  BY DEF TickInv, NoLostTick, SlotsOwned, ForkInv, Forking, Live, elapsed
<1> QED BY <1>1, <1>2, <1>3, <1>4, <1>5

LEMMA TimerTickStep ==
  ASSUME IInv, NEW c \in CPUs, TimerTick(c)
  PROVE  IInv'
<1> USE ConstFacts, ProcAssumption DEF IInv, TableOK, proc, clock, TimerTick
<1>1. TableOK'
  BY DEF TableOK, States
<1>2. OneCPU' /\ SwitchInv' /\ ContextInv'
  BY DEF OneCPU, SwitchInv, ContextInv, ForkInv, Forking, Live
<1>3. SlotsOwned' /\ ForkInv'
  BY DEF SlotsOwned, ForkInv, OneCPU, SwitchInv, ContextInv, ParentInv, Forking, Live
<1>4. ParentsLive' /\ ParentInv' /\ NoLostExit'
  BY DEF ParentsLive, ParentInv, NoLostExit, OneCPU, SlotsOwned, ForkInv, Forking, Live,
         Zombies, Children
<1>5. TickInv' /\ NoLostTick'
  BY DEF TickInv, NoLostTick, SlotsOwned, ForkInv, Forking, Live, elapsed
<1> QED BY <1>1, <1>2, <1>3, <1>4, <1>5

LEMMA WakeupStep ==
  ASSUME IInv, NEW c \in CPUs, wakeup(c)
  PROVE  IInv'
<1> USE ConstFacts, ProcAssumption DEF IInv, TableOK, proc, clock, wakeup, wakeup1
<1>1. TableOK'
  BY DEF TableOK, States
<1>2. OneCPU' /\ SwitchInv' /\ ContextInv'
  BY DEF OneCPU, SwitchInv, ContextInv, ForkInv, Forking, Live
<1>3. SlotsOwned' /\ ForkInv'
  BY DEF SlotsOwned, ForkInv, OneCPU, SwitchInv, ContextInv, ParentInv, Forking, Live
<1>4. ParentsLive' /\ ParentInv' /\ NoLostExit'
  BY DEF ParentsLive, ParentInv, NoLostExit, OneCPU, SlotsOwned, ForkInv, Forking, Live,
         Zombies, Children
<1>5. TickInv' /\ NoLostTick'
  BY DEF TickInv, NoLostTick, SlotsOwned, ForkInv, Forking, Live, elapsed
<1> QED BY <1>1, <1>2, <1>3, <1>4, <1>5

----------------------------------------------------------------------------
(* The theorems                                                            *)

LEMMA InitIInv == Init => IInv
<1> SUFFICES ASSUME Init PROVE IInv
  OBVIOUS
<1> USE ConstFacts, ProcAssumption DEF Init, userinit
<1>1. TableOK
  BY DEF TableOK, States
<1>2. OneCPU /\ SwitchInv /\ ContextInv
  BY DEF OneCPU, SwitchInv, ContextInv, Live
<1>3. SlotsOwned /\ ForkInv
  BY DEF SlotsOwned, ForkInv, Forking, Live
<1>4. ParentsLive /\ ParentInv /\ NoLostExit
  BY DEF ParentsLive, ParentInv, NoLostExit, Live
<1>5. TickInv /\ NoLostTick
  BY DEF TickInv, NoLostTick
<1> QED BY <1>1, <1>2, <1>3, <1>4, <1>5 DEF IInv

LEMMA StepIInv == IInv /\ [Next]_vars => IInv'
<1> SUFFICES ASSUME IInv, [Next]_vars PROVE IInv'
  OBVIOUS
<1>1. CASE UNCHANGED vars
  BY <1>1 DEF vars, IInv, TableOK, OneCPU, SwitchInv, ContextInv, SlotsOwned, ForkInv,
              ParentsLive, ParentInv, NoLostExit, TickInv, NoLostTick, Forking, Live,
              Zombies, Children, elapsed
<1>2. ASSUME NEW c \in CPUs, NEW p \in Slot,
             trap(c, p) \/ ForkFull(c, p) \/ sys_exit(c, p) \/ Pushcli(c, p)
      PROVE  IInv'
  <2>1. Runs(c, p) /\ Passing(p)
    BY <1>2 DEF trap, ForkFull, sys_exit, Pushcli, Passing
  <2> QED BY <2>1, PassingStep
<1>3. ASSUME NEW c \in CPUs, InitExiting(c) PROVE IInv'
  <2>1. Runs(c, initproc) /\ Passing(initproc)
    BY <1>3 DEF InitExiting, Passing
  <2> QED BY <2>1, ConstFacts, PassingStep
<1>4. ASSUME NEW c \in CPUs, swtch(c) \/ TimerTick(c) \/ wakeup(c) PROVE IInv'
  BY <1>4, SwtchStep, TimerTickStep, WakeupStep
<1>5. ASSUME NEW c \in CPUs, NEW p \in Slot,
             scheduler(c, p) \/ yield(c, p) \/ Resume(c, p)
      PROVE  IInv'
  BY <1>5, SchedulerStep, YieldStep, ResumeStep
<1>6. ASSUME NEW c \in CPUs, NEW p \in Slot,
             \/ allocproc(c, p) \/ AllocStack(c, p) \/ ForkFail(c, p)
             \/ ForkCopy(c, p) \/ ForkReady(c, p)
      PROVE  IInv'
  BY <1>6, AllocprocStep, AllocStackStep, ForkFailStep, ForkCopyStep, ForkReadyStep
<1>7. ASSUME NEW c \in CPUs, NEW p \in Slot,
             exit(c, p) \/ WaitReap(c, p) \/ WaitFail(c, p) \/ WaitSleep(c, p)
      PROVE  IInv'
  BY <1>7, ExitStep, WaitReapStep, WaitFailStep, WaitSleepStep
<1>8. ASSUME NEW c \in CPUs, NEW p \in Slot,
             \/ \E x \in KillPids : kill(c, p, x)
             \/ \E n \in SleepNs : sys_sleep(c, p, n)
      PROVE  IInv'
  BY <1>8, KillStep, SysSleepStep
<1>9. ASSUME NEW c \in CPUs, NEW p \in Slot,
             TickCheck(c, p) \/ sleep(c, p) \/ SleepReturn(c, p) \/ Relock(c, p)
      PROVE  IInv'
  BY <1>9, TickCheckStep, SleepStep, SleepReturnStep, RelockStep
<1> QED
  BY <1>1, <1>2, <1>3, <1>4, <1>5, <1>6, <1>7, <1>8, <1>9 DEF Next, Thread

LEMMA Inductive == Spec => []IInv
  BY InitIInv, StepIInv, PTL DEF Spec

\* A process is executed by at most one CPU, also while it leaves it in sched:
\* ptable.lock is passed on through swtch and never free in between.
THEOREM RunsOnOneCPU == Spec => []OneCPU
<1>1. IInv => OneCPU
  BY DEF IInv
<1> QED BY <1>1, Inductive, PTL

\* wait frees no kernel stack or page table that some CPU is executing on.
THEOREM StacksKept == Spec => []StackInUse
<1>1. IInv => StackInUse
  BY DEF IInv, StackInUse, ContextInv, SlotsOwned, TableOK, Live, States
<1> QED BY <1>1, Inductive, PTL

\* fork, which gives a slot back without the lock, and wait leave no slot with
\* half of its memory, and no two forks work on one slot.
THEOREM SlotsHaveOwners == Spec => []SlotsOwned
<1>1. IInv => SlotsOwned
  BY DEF IInv
<1> QED BY <1>1, Inductive, PTL

\* exit leaves no process with a parent that cannot wait for it.
THEOREM ParentsStayLive == Spec => []ParentsLive
<1>1. IInv => ParentsLive
  BY DEF IInv
<1> QED BY <1>1, Inductive, PTL

\* Nobody sleeps in wait who has an exited child, adopted ones included, or
\* has been killed.
THEOREM ExitsNoticed == Spec => []NoLostExit
<1>1. IInv => NoLostExit
  BY DEF IInv
<1> QED BY <1>1, Inductive, PTL

\* sys_sleep does not miss the tick that ends it between its test and its sleep,
\* for every width of the counter.
THEOREM TicksNoticed == Spec => []NoLostTick
<1>1. IInv => NoLostTick
  BY DEF IInv
<1> QED BY <1>1, Inductive, PTL
=============================================================================
