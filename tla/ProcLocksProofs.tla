-------------------------- MODULE ProcLocksProofs --------------------------
(***************************************************************************)
(* Safety of the process table of Lab3 for every number of CPUs and slots. *)
(***************************************************************************)
EXTENDS ProcLocks, NatFacts, TLAPS

(* The inductive invariant                                                 *)

\* p's code is being executed, by other code than sched and swtch.
Executing(p) == state[p] = "RUNNING" /\ ctx[p] = "run"

\* Where wait_lock is held, by exit and by wait.
Waiting == {"reparent", "wakeinit", "wakeparent", "zombie", "scan", "sleep"}

\* A CPU holds the lock of its process while it is between two threads, and
\* fork that of the child while it sets it up.
LockInv == \A c \in CPUs, q \in Slot :
  lock[q] = c <=> /\ on[c] # NULL
                  /\ \/ on[c] = q /\ ~Executing(q)
                     \/ Executing(on[c]) /\ at[on[c]] = "alloc" /\ np[on[c]] = q

\* wait_lock is held by the CPU that executes such code.
WaitLockInv == \A c \in CPUs :
  wait_lock = c <=> on[c] # NULL /\ Executing(on[c]) /\ at[on[c]] \in Waiting

\* A process that holds a lock is not taken off its CPU; one that is has a
\* context to go on from.
SwitchInv ==
  /\ \A p \in Slot : state[p] = "RUNNING" => \E c \in CPUs : on[c] = p
  /\ \A p \in Slot : /\ Live(p) /\ at[p] \in Waiting \cup {"alloc"} => Executing(p)
                     /\ state[p] \in {"RUNNABLE", "SLEEPING"} => ctx[p] # "run"

\* A slot that fork works on is that of one fork.
Forking(p) == Live(p) /\ at[p] \in {"alloc", "parent", "ready"}
ForkInv == \A p \in Slot : Forking(p) =>
  /\ np[p] \in Slot /\ state[np[p]] = "USED" /\ ctx[np[p]] = "forkret"
  /\ at[p] = "ready" => parent[np[p]] = p
  /\ \A r \in Slot : Forking(r) /\ np[r] = np[p] => r = p

\* init lives for ever; a parent is a live process, and another one.  Who exits
\* has no children any more when it wakes its parent.
ParentInv ==
  /\ Live(initproc) /\ parent[initproc] = NULL
  /\ \A p \in Slot : /\ parent[p] # NULL => Live(parent[p]) /\ parent[p] # p
                     /\ Live(p) /\ at[p] \in {"wakeparent", "zombie"} =>
                          p # initproc /\ Children(p) = {}
                     /\ Live(p) /\ at[p] \in {"reparent", "wakeinit"} => p # initproc
                     /\ (Live(p) \/ state[p] = "ZOMBIE") /\ p # initproc => parent[p] # NULL

\* The loops under wait_lock start at the first slot and stay in the table.
LoopInv == \A p \in Slot : Executing(p) =>
  /\ at[p] \in {"reparent", "zombie", "sleep"} => pp = 1
  /\ at[p] \in {"wakeinit", "wakeparent"} => pp <= NPROC

\* Who sleeps does so in wait.  The children that a scan has passed have not
\* exited, nor has any when wait goes to sleep; the parent of a process that
\* exits is awake once the wakeup has come to it.  So the only sleeper with an
\* exited child is init, when it has just been given one and is about to be
\* woken.
WakeInv ==
  /\ \A p \in Slot : state[p] = "SLEEPING" => chan[p] = p
  /\ \A p, q \in Slot : Executing(p) /\ parent[q] = p /\ state[q] = "ZOMBIE" =>
       at[p] # "sleep" /\ (at[p] = "scan" => q >= pp)
  /\ \A p, q \in Slot : Executing(p) /\ parent[p] = q /\ state[q] = "SLEEPING" =>
       at[p] # "zombie" /\ (at[p] = "wakeparent" => q >= pp)
  /\ \A p, q \in Slot : state[p] = "SLEEPING" /\ parent[q] = p /\ state[q] = "ZOMBIE" =>
       p = initproc /\ pp = 1 /\ \E r \in Slot : Executing(r) /\ at[r] = "wakeinit"

IInv == /\ TypeOK /\ OneCPU /\ LockInv /\ WaitLockInv /\ SwitchInv /\ ForkInv
        /\ ParentInv /\ LoopInv /\ WakeInv
----------------------------------------------------------------------------
(* Each action keeps the invariant                                         *)

LEMMA ConstFacts == /\ NULL \notin Slot /\ initproc \in Slot
                    /\ \A q \in Slot : q \in Nat /\ 1 <= q /\ q <= NPROC
  BY ProcLocksAssumption DEF Slot, NULL, initproc

LEMMA FirstIn == ASSUME NEW S \in SUBSET Slot, S # {} PROVE First(S) \in S
<1>1. S \in SUBSET Nat
  BY DEF Slot
<1> QED BY <1>1, Least DEF First

\* A CPU holds wait_lock for the one thread that executes code under it.
LEMMA OneWaiting ==
  ASSUME IInv, NEW p \in Slot, NEW r \in Slot, Executing(p), Executing(r),
         at[p] \in Waiting, at[r] \in Waiting
  PROVE  p = r
  BY ProcLocksAssumption, ConstFacts DEF IInv, TypeOK, OneCPU, WaitLockInv, SwitchInv, Executing

\* Steps of a running thread that only go on in its code.
Passing(p) == \E l \in {"user", "kernel", "exit", "panic"} :
  /\ at[p] \in {"user", "kernel", "exit", "panic"} /\ Goto(p, l)
  /\ UNCHANGED <<state, pid, parent, chan, lock, wait_lock, pp, ctx, np, on, nextpid>>
  /\ killed' \in [Slot -> BOOLEAN]

LEMMA PassingStep ==
  ASSUME IInv, NEW c \in CPUs, NEW p \in Slot, Runs(c, p), Passing(p)
  PROVE  IInv'
<1>1. PICK l \in {"user", "kernel", "exit", "panic"} : Goto(p, l)
  BY DEF Passing
<1> USE ConstFacts, ProcLocksAssumption DEF IInv, TypeOK, Passing, Runs, Goto
<1>2. TypeOK'
  <2>1. killed' \in [Slot -> BOOLEAN]
    BY DEF Passing
  <2> QED BY <1>1, <2>1
<1>3. OneCPU' /\ LockInv'
  BY <1>1 DEF OneCPU, LockInv, SwitchInv, ForkInv, Forking, Executing, Live
<1>4. WaitLockInv'
  BY <1>1 DEF OneCPU, WaitLockInv, LockInv, SwitchInv, ForkInv, Forking, Executing,
         Live, Waiting
<1>5. SwitchInv'
  BY <1>1 DEF OneCPU, LockInv, SwitchInv, WaitLockInv, ForkInv, Forking, Executing,
         Live, Waiting
<1>6. ForkInv'
  BY <1>1 DEF OneCPU, LockInv, SwitchInv, ForkInv, ParentInv, Forking, Executing,
         Live
<1>7. ParentInv'
  BY <1>1 DEF OneCPU, LockInv, SwitchInv, WaitLockInv, ForkInv, ParentInv, Forking,
         Executing, Live, Waiting, Children
<1>8. LoopInv'
  BY <1>1 DEF OneCPU, LockInv, SwitchInv, WaitLockInv, ForkInv, LoopInv, Forking,
         Executing, Live, Waiting
<1>9. WakeInv'
  BY <1>1 DEF OneCPU, LockInv, SwitchInv, WaitLockInv, ForkInv, ParentInv, LoopInv,
         WakeInv, Forking, Executing, Live, Waiting, Children
<1> QED BY <1>2, <1>3, <1>4, <1>5, <1>6, <1>7, <1>8, <1>9

LEMMA SchedulerStep ==
  ASSUME IInv, NEW c \in CPUs, NEW p \in Slot, scheduler(c, p)
  PROVE  IInv'
<1> USE ConstFacts, ProcLocksAssumption DEF IInv, TypeOK, scheduler, acquire, Free
<1>1. TypeOK'
  BY DEF TypeOK
<1>2. OneCPU' /\ LockInv'
  BY DEF OneCPU, LockInv, SwitchInv, ForkInv, Forking, Executing, Live
<1>3. WaitLockInv'
  BY DEF OneCPU, WaitLockInv, LockInv, SwitchInv, ForkInv, Forking, Executing, Live,
         Waiting
<1>4. SwitchInv'
  BY DEF OneCPU, LockInv, SwitchInv, WaitLockInv, ForkInv, Forking, Executing, Live,
         Waiting
<1>5. ForkInv'
  BY DEF OneCPU, LockInv, SwitchInv, ForkInv, ParentInv, Forking, Executing, Live
<1>6. ParentInv'
  BY DEF OneCPU, LockInv, SwitchInv, WaitLockInv, ForkInv, ParentInv, Forking,
         Executing, Live, Waiting, Children
<1>7. LoopInv'
  BY DEF OneCPU, LockInv, SwitchInv, WaitLockInv, ForkInv, LoopInv, Forking,
         Executing, Live, Waiting
<1>8. WakeInv'
  BY DEF OneCPU, LockInv, SwitchInv, WaitLockInv, ForkInv, ParentInv, LoopInv,
         WakeInv, Forking, Executing, Live, Waiting, Children
<1> QED BY <1>1, <1>2, <1>3, <1>4, <1>5, <1>6, <1>7, <1>8

LEMMA SwtchStep ==
  ASSUME IInv, NEW c \in CPUs, swtch(c)
  PROVE  IInv'
<1> USE ConstFacts, ProcLocksAssumption DEF IInv, TypeOK, swtch, release, proc
<1>1. TypeOK'
  BY DEF TypeOK
<1>2. OneCPU' /\ LockInv'
  BY DEF OneCPU, LockInv, SwitchInv, ForkInv, Forking, Executing, Live
<1>3. WaitLockInv'
  BY DEF OneCPU, WaitLockInv, LockInv, SwitchInv, ForkInv, Forking, Executing, Live,
         Waiting
<1>4. SwitchInv'
  BY DEF OneCPU, LockInv, SwitchInv, WaitLockInv, ForkInv, Forking, Executing, Live,
         Waiting
<1>5. ForkInv'
  BY DEF OneCPU, LockInv, SwitchInv, ForkInv, ParentInv, Forking, Executing, Live
<1>6. ParentInv'
  BY DEF OneCPU, LockInv, SwitchInv, WaitLockInv, ForkInv, ParentInv, Forking,
         Executing, Live, Waiting, Children
<1>7. LoopInv'
  BY DEF OneCPU, LockInv, SwitchInv, WaitLockInv, ForkInv, LoopInv, Forking,
         Executing, Live, Waiting
<1>8. WakeInv'
  BY DEF OneCPU, LockInv, SwitchInv, WaitLockInv, ForkInv, ParentInv, LoopInv,
         WakeInv, Forking, Executing, Live, Waiting, Children
<1> QED BY <1>1, <1>2, <1>3, <1>4, <1>5, <1>6, <1>7, <1>8

LEMMA ResumeStep ==
  ASSUME IInv, NEW c \in CPUs, NEW p \in Slot, Resume(c, p)
  PROVE  IInv'
<1> USE ConstFacts, ProcLocksAssumption DEF IInv, TypeOK, Resume, release
<1>1. TypeOK'
  BY DEF TypeOK
<1>2. OneCPU' /\ LockInv'
  BY DEF OneCPU, LockInv, SwitchInv, ForkInv, Forking, Executing, Live
<1>3. WaitLockInv'
  BY DEF OneCPU, WaitLockInv, LockInv, SwitchInv, ForkInv, Forking, Executing, Live,
         Waiting
<1>4. SwitchInv'
  BY DEF OneCPU, LockInv, SwitchInv, WaitLockInv, ForkInv, Forking, Executing, Live,
         Waiting
<1>5. ForkInv'
  BY DEF OneCPU, LockInv, SwitchInv, ForkInv, ParentInv, Forking, Executing, Live
<1>6. ParentInv'
  BY DEF OneCPU, LockInv, SwitchInv, WaitLockInv, ForkInv, ParentInv, Forking,
         Executing, Live, Waiting, Children
<1>7. LoopInv'
  BY DEF OneCPU, LockInv, SwitchInv, WaitLockInv, ForkInv, LoopInv, Forking,
         Executing, Live, Waiting
<1>8. WakeInv'
  BY DEF OneCPU, LockInv, SwitchInv, WaitLockInv, ForkInv, ParentInv, LoopInv,
         WakeInv, Forking, Executing, Live, Waiting, Children
<1> QED BY <1>1, <1>2, <1>3, <1>4, <1>5, <1>6, <1>7, <1>8

LEMMA YieldStep ==
  ASSUME IInv, NEW c \in CPUs, NEW p \in Slot, yield(c, p)
  PROVE  IInv'
<1>1. at[p] \notin Waiting /\ at[p] # "alloc"
  BY ConstFacts DEF yield, Interruptible, Runs, Free, IInv, TypeOK, LockInv, WaitLockInv, ForkInv,
     Forking, Executing, Live
<1> USE ConstFacts, ProcLocksAssumption DEF IInv, TypeOK, yield, acquire, Free,
        sched, Runs
<1>2. TypeOK'
  BY <1>1 DEF TypeOK
<1>3. OneCPU' /\ LockInv'
  BY <1>1 DEF OneCPU, LockInv, SwitchInv, ForkInv, Forking, Executing, Live
<1>4. WaitLockInv'
  BY <1>1 DEF OneCPU, WaitLockInv, LockInv, SwitchInv, ForkInv, Forking, Executing,
         Live, Waiting
<1>5. SwitchInv'
  BY <1>1 DEF OneCPU, LockInv, SwitchInv, WaitLockInv, ForkInv, Forking, Executing,
         Live, Waiting
<1>6. ForkInv'
  BY <1>1 DEF OneCPU, LockInv, SwitchInv, ForkInv, ParentInv, Forking, Executing,
         Live
<1>7. ParentInv'
  BY <1>1 DEF OneCPU, LockInv, SwitchInv, WaitLockInv, ForkInv, ParentInv, Forking,
         Executing, Live, Waiting, Children
<1>8. LoopInv'
  BY <1>1 DEF OneCPU, LockInv, SwitchInv, WaitLockInv, ForkInv, LoopInv, Forking,
         Executing, Live, Waiting
<1>9. WakeInv'
  BY <1>1 DEF OneCPU, LockInv, SwitchInv, WaitLockInv, ForkInv, ParentInv, LoopInv,
         WakeInv, Forking, Executing, Live, Waiting, Children
<1> QED BY <1>2, <1>3, <1>4, <1>5, <1>6, <1>7, <1>8, <1>9

\* fork

LEMMA AllocprocStep ==
  ASSUME IInv, NEW c \in CPUs, NEW p \in Slot, NEW q \in Slot, allocproc(c, p, q)
  PROVE  IInv'
<1> USE ConstFacts, ProcLocksAssumption DEF IInv, TypeOK, allocproc, acquire, Free,
        Runs, Goto
<1>1. TypeOK'
  BY DEF TypeOK
<1>2. OneCPU' /\ LockInv'
  BY DEF OneCPU, LockInv, SwitchInv, ForkInv, Forking, Executing, Live
<1>3. WaitLockInv'
  BY DEF OneCPU, WaitLockInv, LockInv, SwitchInv, ForkInv, Forking, Executing, Live,
         Waiting
<1>4. SwitchInv'
  BY DEF OneCPU, LockInv, SwitchInv, WaitLockInv, ForkInv, Forking, Executing, Live,
         Waiting
<1>5. ForkInv'
  BY DEF OneCPU, LockInv, SwitchInv, ForkInv, ParentInv, Forking, Executing, Live
<1>6. ParentInv'
  BY DEF OneCPU, LockInv, SwitchInv, WaitLockInv, ForkInv, ParentInv, Forking,
         Executing, Live, Waiting, Children
<1>7. LoopInv'
  BY DEF OneCPU, LockInv, SwitchInv, WaitLockInv, ForkInv, LoopInv, Forking,
         Executing, Live, Waiting
<1>8. WakeInv'
  BY DEF OneCPU, LockInv, SwitchInv, WaitLockInv, ForkInv, ParentInv, LoopInv,
         WakeInv, Forking, Executing, Live, Waiting, Children
<1> QED BY <1>1, <1>2, <1>3, <1>4, <1>5, <1>6, <1>7, <1>8

LEMMA ForkFailStep ==
  ASSUME IInv, NEW c \in CPUs, NEW p \in Slot, ForkFail(c, p)
  PROVE  IInv'
<1> USE ConstFacts, ProcLocksAssumption DEF IInv, TypeOK, ForkFail, release,
        freeproc, Runs, Goto
<1>1. TypeOK'
  BY DEF TypeOK
<1>2. OneCPU' /\ LockInv'
  BY DEF OneCPU, LockInv, SwitchInv, ForkInv, Forking, Executing, Live
<1>3. WaitLockInv'
  BY DEF OneCPU, WaitLockInv, LockInv, SwitchInv, ForkInv, Forking, Executing, Live,
         Waiting
<1>4. SwitchInv'
  BY DEF OneCPU, LockInv, SwitchInv, WaitLockInv, ForkInv, Forking, Executing, Live,
         Waiting
<1>5. ForkInv'
  BY DEF OneCPU, LockInv, SwitchInv, ForkInv, ParentInv, Forking, Executing, Live
<1>6. ParentInv'
  BY DEF OneCPU, LockInv, SwitchInv, WaitLockInv, ForkInv, ParentInv, Forking,
         Executing, Live, Waiting, Children
<1>7. LoopInv'
  BY DEF OneCPU, LockInv, SwitchInv, WaitLockInv, ForkInv, LoopInv, Forking,
         Executing, Live, Waiting
<1>8. WakeInv'
  BY DEF OneCPU, LockInv, SwitchInv, WaitLockInv, ForkInv, ParentInv, LoopInv,
         WakeInv, Forking, Executing, Live, Waiting, Children
<1> QED BY <1>1, <1>2, <1>3, <1>4, <1>5, <1>6, <1>7, <1>8

LEMMA ForkCopyStep ==
  ASSUME IInv, NEW c \in CPUs, NEW p \in Slot, ForkCopy(c, p)
  PROVE  IInv'
<1> USE ConstFacts, ProcLocksAssumption DEF IInv, TypeOK, ForkCopy, release, proc,
        Runs, Goto
<1>1. TypeOK'
  BY DEF TypeOK
<1>2. OneCPU' /\ LockInv'
  BY DEF OneCPU, LockInv, SwitchInv, ForkInv, Forking, Executing, Live
<1>3. WaitLockInv'
  BY DEF OneCPU, WaitLockInv, LockInv, SwitchInv, ForkInv, Forking, Executing, Live,
         Waiting
<1>4. SwitchInv'
  BY DEF OneCPU, LockInv, SwitchInv, WaitLockInv, ForkInv, Forking, Executing, Live,
         Waiting
<1>5. ForkInv'
  BY DEF OneCPU, LockInv, SwitchInv, ForkInv, ParentInv, Forking, Executing, Live
<1>6. ParentInv'
  BY DEF OneCPU, LockInv, SwitchInv, WaitLockInv, ForkInv, ParentInv, Forking,
         Executing, Live, Waiting, Children
<1>7. LoopInv'
  BY DEF OneCPU, LockInv, SwitchInv, WaitLockInv, ForkInv, LoopInv, Forking,
         Executing, Live, Waiting
<1>8. WakeInv'
  BY DEF OneCPU, LockInv, SwitchInv, WaitLockInv, ForkInv, ParentInv, LoopInv,
         WakeInv, Forking, Executing, Live, Waiting, Children
<1> QED BY <1>1, <1>2, <1>3, <1>4, <1>5, <1>6, <1>7, <1>8

LEMMA ForkParentStep ==
  ASSUME IInv, NEW c \in CPUs, NEW p \in Slot, ForkParent(c, p)
  PROVE  IInv'
<1> USE ConstFacts, ProcLocksAssumption DEF IInv, TypeOK, ForkParent, Runs, Goto
<1>1. TypeOK'
  BY DEF TypeOK
<1>2. OneCPU' /\ LockInv'
  BY DEF OneCPU, LockInv, SwitchInv, ForkInv, Forking, Executing, Live
<1>3. WaitLockInv'
  BY DEF OneCPU, WaitLockInv, LockInv, SwitchInv, ForkInv, Forking, Executing, Live,
         Waiting
<1>4. SwitchInv'
  BY DEF OneCPU, LockInv, SwitchInv, WaitLockInv, ForkInv, Forking, Executing, Live,
         Waiting
<1>5. ForkInv'
  BY DEF OneCPU, LockInv, SwitchInv, ForkInv, ParentInv, Forking, Executing, Live
<1>6. ParentInv'
  BY DEF OneCPU, LockInv, SwitchInv, WaitLockInv, ForkInv, ParentInv, Forking,
         Executing, Live, Waiting, Children
<1>7. LoopInv'
  BY DEF OneCPU, LockInv, SwitchInv, WaitLockInv, ForkInv, LoopInv, Forking,
         Executing, Live, Waiting
<1>8. WakeInv'
  BY DEF OneCPU, LockInv, SwitchInv, WaitLockInv, ForkInv, ParentInv, LoopInv,
         WakeInv, Forking, Executing, Live, Waiting, Children
<1> QED BY <1>1, <1>2, <1>3, <1>4, <1>5, <1>6, <1>7, <1>8

LEMMA ForkReadyStep ==
  ASSUME IInv, NEW c \in CPUs, NEW p \in Slot, ForkReady(c, p)
  PROVE  IInv'
<1>1. PICK q \in Slot : q = np[p] /\ q # p /\ state[q] = "USED"
  BY DEF ForkReady, Runs, IInv, ForkInv, Forking, Live
<1>2. /\ Runs(c, p) /\ at[p] = "ready" /\ Free(q)
      /\ state' = [state EXCEPT ![q] = "RUNNABLE"]
      /\ at' = [r \in Slot |-> IF r \in {p, q} THEN "user" ELSE at[r]]
      /\ np' = [np EXCEPT ![p] = NULL]
      /\ UNCHANGED <<pid, parent, killed, chan, lock, wait_lock, pp, ctx, on, nextpid>>
  BY <1>1 DEF ForkReady, IInv, TypeOK
<1> USE ConstFacts, ProcLocksAssumption DEF IInv, TypeOK, Free, Runs
<1>3. TypeOK'
  BY <1>1, <1>2 DEF TypeOK
<1>4. OneCPU' /\ LockInv'
  BY <1>1, <1>2 DEF OneCPU, LockInv, SwitchInv, ForkInv, Forking, Executing, Live
<1>5. WaitLockInv'
  BY <1>1, <1>2 DEF OneCPU, WaitLockInv, LockInv, SwitchInv, ForkInv, Forking,
         Executing, Live, Waiting
<1>6. SwitchInv'
  BY <1>1, <1>2 DEF OneCPU, LockInv, SwitchInv, WaitLockInv, ForkInv, Forking,
         Executing, Live, Waiting
<1>7. ForkInv'
  BY <1>1, <1>2 DEF OneCPU, LockInv, SwitchInv, ForkInv, ParentInv, Forking,
         Executing, Live
<1>8. ParentInv'
  BY <1>1, <1>2 DEF OneCPU, LockInv, SwitchInv, WaitLockInv, ForkInv, ParentInv,
         Forking, Executing, Live, Waiting, Children
<1>9. LoopInv'
  BY <1>1, <1>2 DEF OneCPU, LockInv, SwitchInv, WaitLockInv, ForkInv, LoopInv,
         Forking, Executing, Live, Waiting
<1>10. WakeInv'
  BY <1>1, <1>2 DEF OneCPU, LockInv, SwitchInv, WaitLockInv, ForkInv, ParentInv,
         LoopInv, WakeInv, Forking, Executing, Live, Waiting, Children
<1> QED BY <1>3, <1>4, <1>5, <1>6, <1>7, <1>8, <1>9, <1>10

\* exit

LEMMA ExitStep ==
  ASSUME IInv, NEW c \in CPUs, NEW p \in Slot, exit(c, p)
  PROVE  IInv'
<1> USE ConstFacts, ProcLocksAssumption DEF IInv, TypeOK, exit, proc, Runs, Goto
<1>1. TypeOK'
  BY DEF TypeOK
<1>2. OneCPU' /\ LockInv'
  BY DEF OneCPU, LockInv, SwitchInv, ForkInv, Forking, Executing, Live
<1>3. WaitLockInv'
  BY DEF OneCPU, WaitLockInv, LockInv, SwitchInv, ForkInv, Forking, Executing, Live,
         Waiting
<1>4. SwitchInv'
  BY DEF OneCPU, LockInv, SwitchInv, WaitLockInv, ForkInv, Forking, Executing, Live,
         Waiting
<1>5. ForkInv'
  BY DEF OneCPU, LockInv, SwitchInv, ForkInv, ParentInv, Forking, Executing, Live
<1>6. ParentInv'
  BY DEF OneCPU, LockInv, SwitchInv, WaitLockInv, ForkInv, ParentInv, Forking,
         Executing, Live, Waiting, Children
<1>7. LoopInv'
  BY DEF OneCPU, LockInv, SwitchInv, WaitLockInv, ForkInv, LoopInv, Forking,
         Executing, Live, Waiting
<1>8. WakeInv'
  BY DEF OneCPU, LockInv, SwitchInv, WaitLockInv, ForkInv, ParentInv, LoopInv,
         WakeInv, Forking, Executing, Live, Waiting, Children
<1> QED BY <1>1, <1>2, <1>3, <1>4, <1>5, <1>6, <1>7, <1>8

LEMMA ReparentStep ==
  ASSUME IInv, NEW c \in CPUs, NEW p \in Slot, reparent(c, p)
  PROVE  IInv'
<1>1. PICK q \in Slot : parent[q] = p /\ parent' = [parent EXCEPT ![q] = initproc]
  <2>1. Orphans(p) \in SUBSET Slot /\ Orphans(p) # {}
    BY DEF reparent, Orphans, Children
  <2>2. First(Orphans(p)) \in Orphans(p)
    BY <2>1, FirstIn
  <2> QED BY <2>2 DEF reparent, Orphans, Children
<1>2. /\ Runs(c, p) /\ at[p] = "reparent" /\ Goto(p, "wakeinit")
      /\ UNCHANGED <<state, pid, killed, chan, lock, wait_lock, pp, ctx, np, on, nextpid>>
  BY DEF reparent
<1> USE ConstFacts, ProcLocksAssumption DEF IInv, TypeOK, Runs, Goto
<1>3. TypeOK'
  BY <1>1, <1>2, OneWaiting DEF TypeOK
<1>4. OneCPU' /\ LockInv'
  BY <1>1, <1>2, OneWaiting DEF OneCPU, LockInv, SwitchInv, ForkInv, Forking,
         Executing, Live
<1>5. WaitLockInv'
  BY <1>1, <1>2, OneWaiting DEF OneCPU, WaitLockInv, LockInv, SwitchInv, ForkInv,
         Forking, Executing, Live, Waiting
<1>6. SwitchInv'
  BY <1>1, <1>2, OneWaiting DEF OneCPU, LockInv, SwitchInv, WaitLockInv, ForkInv,
         Forking, Executing, Live, Waiting
<1>7. ForkInv'
  BY <1>1, <1>2, OneWaiting DEF OneCPU, LockInv, SwitchInv, ForkInv, ParentInv,
         Forking, Executing, Live
<1>8. ParentInv'
  BY <1>1, <1>2, OneWaiting DEF OneCPU, LockInv, SwitchInv, WaitLockInv, ForkInv,
         ParentInv, Forking, Executing, Live, Waiting, Children
<1>9. LoopInv'
  BY <1>1, <1>2, OneWaiting DEF OneCPU, LockInv, SwitchInv, WaitLockInv, ForkInv,
         LoopInv, Forking, Executing, Live, Waiting
<1>10. WakeInv'
  BY <1>1, <1>2, OneWaiting DEF OneCPU, LockInv, SwitchInv, WaitLockInv, ForkInv,
         ParentInv, LoopInv, WakeInv, Forking, Executing, Live, Waiting, Children
<1> QED BY <1>3, <1>4, <1>5, <1>6, <1>7, <1>8, <1>9, <1>10

LEMMA ReparentedStep ==
  ASSUME IInv, NEW c \in CPUs, NEW p \in Slot, Reparented(c, p)
  PROVE  IInv'
<1> USE ConstFacts, ProcLocksAssumption DEF IInv, TypeOK, Reparented, Orphans, proc,
        Runs, Goto
<1>1. TypeOK'
  BY DEF TypeOK
<1>2. OneCPU' /\ LockInv'
  BY DEF OneCPU, LockInv, SwitchInv, ForkInv, Forking, Executing, Live
<1>3. WaitLockInv'
  BY DEF OneCPU, WaitLockInv, LockInv, SwitchInv, ForkInv, Forking, Executing, Live,
         Waiting
<1>4. SwitchInv'
  BY DEF OneCPU, LockInv, SwitchInv, WaitLockInv, ForkInv, Forking, Executing, Live,
         Waiting
<1>5. ForkInv'
  BY DEF OneCPU, LockInv, SwitchInv, ForkInv, ParentInv, Forking, Executing, Live
<1>6. ParentInv'
  BY DEF OneCPU, LockInv, SwitchInv, WaitLockInv, ForkInv, ParentInv, Forking,
         Executing, Live, Waiting, Children
<1>7. LoopInv'
  BY DEF OneCPU, LockInv, SwitchInv, WaitLockInv, ForkInv, LoopInv, Forking,
         Executing, Live, Waiting
<1>8. WakeInv'
  BY DEF OneCPU, LockInv, SwitchInv, WaitLockInv, ForkInv, ParentInv, LoopInv,
         WakeInv, Forking, Executing, Live, Waiting, Children
<1> QED BY <1>1, <1>2, <1>3, <1>4, <1>5, <1>6, <1>7, <1>8

LEMMA WakeInitStep ==
  ASSUME IInv, NEW c \in CPUs, NEW p \in Slot, WakeInit(c, p)
  PROVE  IInv'
<1>1. PICK k \in Slot :
        /\ k = pp /\ pp' = IF k = NPROC THEN 1 ELSE k + 1
        /\ state' = [state EXCEPT ![k] = IF k # p /\ @ = "SLEEPING" /\ chan[k] = initproc
                                         THEN "RUNNABLE" ELSE @]
  <2>1. pp \in Slot
    BY ProcLocksAssumption DEF WakeInit, Runs, Executing, IInv, TypeOK, LoopInv, Slot
  <2> QED BY <2>1 DEF WakeInit, wakeup
<1>2. /\ Runs(c, p) /\ at[p] = "wakeinit" /\ (k = p \/ Free(k))
      /\ Goto(p, IF k = NPROC THEN "reparent" ELSE "wakeinit")
      /\ UNCHANGED <<pid, parent, killed, chan, lock, wait_lock, ctx, np, on, nextpid>>
  BY <1>1 DEF WakeInit, wakeup
<1> USE ConstFacts, ProcLocksAssumption DEF IInv, TypeOK, Runs, Goto
<1>3. TypeOK'
  BY <1>1, <1>2, OneWaiting DEF TypeOK, WaitLockInv, Executing, Waiting
<1>4. OneCPU' /\ LockInv'
  BY <1>1, <1>2, OneWaiting DEF OneCPU, LockInv, SwitchInv, ForkInv, Forking,
         Executing, Live
<1>5. WaitLockInv'
  BY <1>1, <1>2, OneWaiting DEF OneCPU, WaitLockInv, LockInv, SwitchInv, ForkInv,
         Forking, Executing, Live, Waiting
<1>6. SwitchInv'
  BY <1>1, <1>2, OneWaiting DEF OneCPU, LockInv, SwitchInv, WaitLockInv, ForkInv,
         Forking, Executing, Live, Waiting
<1>7. ForkInv'
  BY <1>1, <1>2, OneWaiting DEF OneCPU, LockInv, SwitchInv, ForkInv, ParentInv,
         Forking, Executing, Live
<1>8. ParentInv'
  BY <1>1, <1>2, OneWaiting DEF OneCPU, LockInv, SwitchInv, WaitLockInv, ForkInv,
         ParentInv, Forking, Executing, Live, Waiting, Children
<1>9. LoopInv'
  BY <1>1, <1>2, OneWaiting DEF OneCPU, LockInv, SwitchInv, WaitLockInv, ForkInv,
         LoopInv, Forking, Executing, Live, Waiting
<1>10. WakeInv'
  <2> USE <1>1, <1>2 DEF OneCPU, LockInv, SwitchInv, WaitLockInv, ForkInv, ParentInv, LoopInv,
            Forking, Executing, Live, Waiting, Children
  <2>1. \A r \in Slot : state'[r] = "SLEEPING" => chan'[r] = r
    BY DEF WakeInv
  <2>2. \A r, q \in Slot : Executing(r)' /\ parent'[q] = r /\ state'[q] = "ZOMBIE" =>
          at'[r] # "sleep" /\ (at'[r] = "scan" => q >= pp')
    BY OneWaiting DEF WakeInv
  <2>3. \A r, q \in Slot : Executing(r)' /\ parent'[r] = q /\ state'[q] = "SLEEPING" =>
          at'[r] # "zombie" /\ (at'[r] = "wakeparent" => q >= pp')
    BY OneWaiting DEF WakeInv
  <2>4. \A r, q \in Slot : state'[r] = "SLEEPING" /\ parent'[q] = r => state'[q] # "ZOMBIE"
    BY OneWaiting DEF WakeInv, initproc
  <2> QED BY <2>1, <2>2, <2>3, <2>4 DEF WakeInv
<1> QED BY <1>3, <1>4, <1>5, <1>6, <1>7, <1>8, <1>9, <1>10

LEMMA WakeParentStep ==
  ASSUME IInv, NEW c \in CPUs, NEW p \in Slot, WakeParent(c, p)
  PROVE  IInv'
<1>1. PICK k \in Slot :
        /\ k = pp /\ pp' = IF k = NPROC THEN 1 ELSE k + 1
        /\ state' = [state EXCEPT ![k] = IF k # p /\ @ = "SLEEPING" /\ chan[k] = parent[p]
                                         THEN "RUNNABLE" ELSE @]
  <2>1. pp \in Slot
    BY ProcLocksAssumption DEF WakeParent, Runs, Executing, IInv, TypeOK, LoopInv, Slot
  <2> QED BY <2>1 DEF WakeParent, wakeup
<1>2. /\ Runs(c, p) /\ at[p] = "wakeparent" /\ (k = p \/ Free(k))
      /\ Goto(p, IF k = NPROC THEN "zombie" ELSE "wakeparent")
      /\ UNCHANGED <<pid, parent, killed, chan, lock, wait_lock, ctx, np, on, nextpid>>
  BY <1>1, ConstFacts, ProcLocksAssumption DEF WakeParent, wakeup, LateRelease, Goto, IInv, TypeOK
<1> USE ConstFacts, ProcLocksAssumption DEF IInv, TypeOK, Runs, Goto
<1>3. TypeOK'
  BY <1>1, <1>2, OneWaiting DEF TypeOK, WaitLockInv, Executing, Waiting
<1>4. OneCPU' /\ LockInv'
  BY <1>1, <1>2, OneWaiting DEF OneCPU, LockInv, SwitchInv, ForkInv, Forking,
         Executing, Live
<1>5. WaitLockInv'
  BY <1>1, <1>2, OneWaiting DEF OneCPU, WaitLockInv, LockInv, SwitchInv, ForkInv,
         Forking, Executing, Live, Waiting
<1>6. SwitchInv'
  BY <1>1, <1>2, OneWaiting DEF OneCPU, LockInv, SwitchInv, WaitLockInv, ForkInv,
         Forking, Executing, Live, Waiting
<1>7. ForkInv'
  BY <1>1, <1>2, OneWaiting DEF OneCPU, LockInv, SwitchInv, ForkInv, ParentInv,
         Forking, Executing, Live
<1>8. ParentInv'
  BY <1>1, <1>2, OneWaiting DEF OneCPU, LockInv, SwitchInv, WaitLockInv, ForkInv,
         ParentInv, Forking, Executing, Live, Waiting, Children
<1>9. LoopInv'
  BY <1>1, <1>2, OneWaiting DEF OneCPU, LockInv, SwitchInv, WaitLockInv, ForkInv,
         LoopInv, Forking, Executing, Live, Waiting
<1>10. WakeInv'
  <2> USE <1>1, <1>2 DEF OneCPU, LockInv, SwitchInv, WaitLockInv, ForkInv, ParentInv, LoopInv,
            Forking, Executing, Live, Waiting, Children
  <2>1. \A r \in Slot : state'[r] = "SLEEPING" => chan'[r] = r
    BY DEF WakeInv
  <2>2. \A r, q \in Slot : Executing(r)' /\ parent'[q] = r /\ state'[q] = "ZOMBIE" =>
          at'[r] # "sleep" /\ (at'[r] = "scan" => q >= pp')
    BY OneWaiting DEF WakeInv
  <2>3. \A r, q \in Slot : Executing(r)' /\ parent'[r] = q /\ state'[q] = "SLEEPING" =>
          at'[r] # "zombie" /\ (at'[r] = "wakeparent" => q >= pp')
    BY OneWaiting DEF WakeInv
  <2>4. \A r, q \in Slot : state'[r] = "SLEEPING" /\ parent'[q] = r => state'[q] # "ZOMBIE"
    BY OneWaiting DEF WakeInv, initproc
  <2> QED BY <2>1, <2>2, <2>3, <2>4 DEF WakeInv
<1> QED BY <1>3, <1>4, <1>5, <1>6, <1>7, <1>8, <1>9, <1>10

LEMMA ZombieStep ==
  ASSUME IInv, NEW c \in CPUs, NEW p \in Slot, Zombie(c, p)
  PROVE  IInv'
<1> USE ConstFacts, ProcLocksAssumption DEF IInv, TypeOK, Zombie, acquire, Free,
        OnlyMyLock, sched, Runs
<1>1. TypeOK'
  BY OneWaiting DEF TypeOK, WaitLockInv, LoopInv, Executing, Waiting
<1>2. OneCPU' /\ LockInv'
  BY OneWaiting DEF OneCPU, LockInv, SwitchInv, ForkInv, Forking, Executing, Live
<1>3. WaitLockInv'
  BY OneWaiting DEF OneCPU, WaitLockInv, LockInv, SwitchInv, ForkInv, Forking,
         Executing, Live, Waiting
<1>4. SwitchInv'
  BY OneWaiting DEF OneCPU, LockInv, SwitchInv, WaitLockInv, ForkInv, Forking,
         Executing, Live, Waiting
<1>5. ForkInv'
  BY OneWaiting DEF OneCPU, LockInv, SwitchInv, ForkInv, ParentInv, Forking,
         Executing, Live
<1>6. ParentInv'
  BY OneWaiting DEF OneCPU, LockInv, SwitchInv, WaitLockInv, ForkInv, ParentInv,
         Forking, Executing, Live, Waiting, Children
<1>7. LoopInv'
  BY OneWaiting DEF OneCPU, LockInv, SwitchInv, WaitLockInv, ForkInv, LoopInv,
         Forking, Executing, Live, Waiting
<1>8. WakeInv'
  BY OneWaiting DEF OneCPU, LockInv, SwitchInv, WaitLockInv, ForkInv, ParentInv,
         LoopInv, WakeInv, Forking, Executing, Live, Waiting, Children
<1> QED BY <1>1, <1>2, <1>3, <1>4, <1>5, <1>6, <1>7, <1>8

\* wait, kill

LEMMA WaitStep ==
  ASSUME IInv, NEW c \in CPUs, NEW p \in Slot, wait(c, p)
  PROVE  IInv'
<1> USE ConstFacts, ProcLocksAssumption DEF IInv, TypeOK, wait, proc, Runs, Goto
<1>1. TypeOK'
  BY DEF TypeOK
<1>2. OneCPU' /\ LockInv'
  BY DEF OneCPU, LockInv, SwitchInv, ForkInv, Forking, Executing, Live
<1>3. WaitLockInv'
  BY DEF OneCPU, WaitLockInv, LockInv, SwitchInv, ForkInv, Forking, Executing, Live,
         Waiting
<1>4. SwitchInv'
  BY DEF OneCPU, LockInv, SwitchInv, WaitLockInv, ForkInv, Forking, Executing, Live,
         Waiting
<1>5. ForkInv'
  BY DEF OneCPU, LockInv, SwitchInv, ForkInv, ParentInv, Forking, Executing, Live
<1>6. ParentInv'
  BY DEF OneCPU, LockInv, SwitchInv, WaitLockInv, ForkInv, ParentInv, Forking,
         Executing, Live, Waiting, Children
<1>7. LoopInv'
  BY DEF OneCPU, LockInv, SwitchInv, WaitLockInv, ForkInv, LoopInv, Forking,
         Executing, Live, Waiting
<1>8. WakeInv'
  BY DEF OneCPU, LockInv, SwitchInv, WaitLockInv, ForkInv, ParentInv, LoopInv,
         WakeInv, Forking, Executing, Live, Waiting, Children
<1> QED BY <1>1, <1>2, <1>3, <1>4, <1>5, <1>6, <1>7, <1>8

LEMMA WaitSkipStep ==
  ASSUME IInv, NEW c \in CPUs, NEW p \in Slot, WaitSkip(c, p)
  PROVE  IInv'
<1> USE ConstFacts, ProcLocksAssumption DEF IInv, TypeOK, WaitSkip, InScan, Free,
        Runs, proc
<1>1. TypeOK'
  BY OneWaiting DEF TypeOK, WaitLockInv, LoopInv, Executing, Waiting
<1>2. OneCPU' /\ LockInv'
  BY OneWaiting DEF OneCPU, LockInv, SwitchInv, ForkInv, Forking, Executing, Live
<1>3. WaitLockInv'
  BY OneWaiting DEF OneCPU, WaitLockInv, LockInv, SwitchInv, ForkInv, Forking,
         Executing, Live, Waiting
<1>4. SwitchInv'
  BY OneWaiting DEF OneCPU, LockInv, SwitchInv, WaitLockInv, ForkInv, Forking,
         Executing, Live, Waiting
<1>5. ForkInv'
  BY OneWaiting DEF OneCPU, LockInv, SwitchInv, ForkInv, ParentInv, Forking,
         Executing, Live
<1>6. ParentInv'
  BY OneWaiting DEF OneCPU, LockInv, SwitchInv, WaitLockInv, ForkInv, ParentInv,
         Forking, Executing, Live, Waiting, Children
<1>7. LoopInv'
  BY OneWaiting DEF OneCPU, LockInv, SwitchInv, WaitLockInv, ForkInv, LoopInv,
         Forking, Executing, Live, Waiting
<1>8. WakeInv'
  <2> USE DEF OneCPU, LockInv, SwitchInv, WaitLockInv, ForkInv, ParentInv, LoopInv,
            Forking, Executing, Live, Waiting, Children
  <2>1. \A r \in Slot : state'[r] = "SLEEPING" => chan'[r] = r
    BY DEF WakeInv
  <2>2. \A r, q \in Slot : Executing(r)' /\ parent'[q] = r /\ state'[q] = "ZOMBIE" =>
          at'[r] # "sleep" /\ (at'[r] = "scan" => q >= pp')
    <3> SUFFICES ASSUME NEW r \in Slot, NEW q \in Slot, Executing(r), parent[q] = r,
                        state[q] = "ZOMBIE"
                 PROVE  at[r] # "sleep" /\ (at[r] = "scan" => q >= pp + 1)
      OBVIOUS
    <3>1. at[r] # "sleep" /\ (at[r] = "scan" => q >= pp)
      BY DEF WakeInv
    <3>2. at[r] = "scan" => r = p
      BY OneWaiting
    <3>3. r = p => q # pp
      OBVIOUS
    <3>4. q \in Int /\ pp \in Int
      OBVIOUS
    <3>5. q >= pp /\ q # pp => q >= pp + 1
      BY ONLY <3>4
    <3> QED BY <3>1, <3>2, <3>3, <3>5
  <2>3. \A r, q \in Slot : Executing(r)' /\ parent'[r] = q /\ state'[q] = "SLEEPING" =>
          at'[r] # "zombie" /\ (at'[r] = "wakeparent" => q >= pp')
    BY OneWaiting DEF WakeInv
  <2>4. \A r, q \in Slot : state'[r] = "SLEEPING" /\ parent'[q] = r => state'[q] # "ZOMBIE"
    BY OneWaiting DEF WakeInv
  <2> QED BY <2>1, <2>2, <2>3, <2>4 DEF WakeInv
<1> QED BY <1>1, <1>2, <1>3, <1>4, <1>5, <1>6, <1>7, <1>8

LEMMA WaitReapStep ==
  ASSUME IInv, NEW c \in CPUs, NEW p \in Slot, WaitReap(c, p)
  PROVE  IInv'
<1>1. pp \in Slot /\ killed' \in [Slot -> BOOLEAN]
  BY DEF WaitReap, InScan, freeproc, IInv, TypeOK, Slot
<1> USE ConstFacts, ProcLocksAssumption DEF IInv, TypeOK, WaitReap, InScan, HasLeft,
        Free, freeproc, WaitReturn, Runs, Goto
<1>2. TypeOK'
  BY <1>1, OneWaiting DEF TypeOK, WaitLockInv, Executing, Waiting
<1>3. OneCPU' /\ LockInv'
  BY <1>1, OneWaiting DEF OneCPU, LockInv, SwitchInv, ForkInv, Forking, Executing,
         Live
<1>4. WaitLockInv'
  BY <1>1, OneWaiting DEF OneCPU, WaitLockInv, LockInv, SwitchInv, ForkInv, Forking,
         Executing, Live, Waiting
<1>5. SwitchInv'
  BY <1>1, OneWaiting DEF OneCPU, LockInv, SwitchInv, WaitLockInv, ForkInv, Forking,
         Executing, Live, Waiting
<1>6. ForkInv'
  BY <1>1, OneWaiting DEF OneCPU, LockInv, SwitchInv, ForkInv, ParentInv, Forking,
         Executing, Live
<1>7. ParentInv'
  BY <1>1, OneWaiting DEF OneCPU, LockInv, SwitchInv, WaitLockInv, ForkInv,
         ParentInv, Forking, Executing, Live, Waiting, Children
<1>8. LoopInv'
  BY <1>1, OneWaiting DEF OneCPU, LockInv, SwitchInv, WaitLockInv, ForkInv, LoopInv,
         Forking, Executing, Live, Waiting
<1>9. WakeInv'
  BY <1>1, OneWaiting DEF OneCPU, LockInv, SwitchInv, WaitLockInv, ForkInv,
         ParentInv, LoopInv, WakeInv, Forking, Executing, Live, Waiting, Children
<1> QED BY <1>2, <1>3, <1>4, <1>5, <1>6, <1>7, <1>8, <1>9

LEMMA WaitCopyFailStep ==
  ASSUME IInv, NEW c \in CPUs, NEW p \in Slot, WaitCopyFail(c, p)
  PROVE  IInv'
<1> USE ConstFacts, ProcLocksAssumption DEF IInv, TypeOK, WaitCopyFail, InScan,
        WaitReturn, proc, Runs, Goto
<1>1. TypeOK'
  BY OneWaiting DEF TypeOK
<1>2. OneCPU' /\ LockInv'
  BY OneWaiting DEF OneCPU, LockInv, SwitchInv, ForkInv, Forking, Executing, Live
<1>3. WaitLockInv'
  BY OneWaiting DEF OneCPU, WaitLockInv, LockInv, SwitchInv, ForkInv, Forking,
         Executing, Live, Waiting
<1>4. SwitchInv'
  BY OneWaiting DEF OneCPU, LockInv, SwitchInv, WaitLockInv, ForkInv, Forking,
         Executing, Live, Waiting
<1>5. ForkInv'
  BY OneWaiting DEF OneCPU, LockInv, SwitchInv, ForkInv, ParentInv, Forking,
         Executing, Live
<1>6. ParentInv'
  BY OneWaiting DEF OneCPU, LockInv, SwitchInv, WaitLockInv, ForkInv, ParentInv,
         Forking, Executing, Live, Waiting, Children
<1>7. LoopInv'
  BY OneWaiting DEF OneCPU, LockInv, SwitchInv, WaitLockInv, ForkInv, LoopInv,
         Forking, Executing, Live, Waiting
<1>8. WakeInv'
  BY OneWaiting DEF OneCPU, LockInv, SwitchInv, WaitLockInv, ForkInv, ParentInv,
         LoopInv, WakeInv, Forking, Executing, Live, Waiting, Children
<1> QED BY <1>1, <1>2, <1>3, <1>4, <1>5, <1>6, <1>7, <1>8

LEMMA WaitFailStep ==
  ASSUME IInv, NEW c \in CPUs, NEW p \in Slot, WaitFail(c, p)
  PROVE  IInv'
<1> USE ConstFacts, ProcLocksAssumption DEF IInv, TypeOK, WaitFail, WaitReturn,
        proc, Runs, Goto
<1>1. TypeOK'
  BY OneWaiting DEF TypeOK
<1>2. OneCPU' /\ LockInv'
  BY OneWaiting DEF OneCPU, LockInv, SwitchInv, ForkInv, Forking, Executing, Live
<1>3. WaitLockInv'
  BY OneWaiting DEF OneCPU, WaitLockInv, LockInv, SwitchInv, ForkInv, Forking,
         Executing, Live, Waiting
<1>4. SwitchInv'
  BY OneWaiting DEF OneCPU, LockInv, SwitchInv, WaitLockInv, ForkInv, Forking,
         Executing, Live, Waiting
<1>5. ForkInv'
  BY OneWaiting DEF OneCPU, LockInv, SwitchInv, ForkInv, ParentInv, Forking,
         Executing, Live
<1>6. ParentInv'
  BY OneWaiting DEF OneCPU, LockInv, SwitchInv, WaitLockInv, ForkInv, ParentInv,
         Forking, Executing, Live, Waiting, Children
<1>7. LoopInv'
  BY OneWaiting DEF OneCPU, LockInv, SwitchInv, WaitLockInv, ForkInv, LoopInv,
         Forking, Executing, Live, Waiting
<1>8. WakeInv'
  BY OneWaiting DEF OneCPU, LockInv, SwitchInv, WaitLockInv, ForkInv, ParentInv,
         LoopInv, WakeInv, Forking, Executing, Live, Waiting, Children
<1> QED BY <1>1, <1>2, <1>3, <1>4, <1>5, <1>6, <1>7, <1>8

LEMMA WaitCheckStep ==
  ASSUME IInv, NEW c \in CPUs, NEW p \in Slot, WaitCheck(c, p)
  PROVE  IInv'
<1> USE ConstFacts, ProcLocksAssumption DEF IInv, TypeOK, WaitCheck, proc, Runs,
        Goto
<1>1. TypeOK'
  BY OneWaiting DEF TypeOK
<1>2. OneCPU' /\ LockInv'
  BY OneWaiting DEF OneCPU, LockInv, SwitchInv, ForkInv, Forking, Executing, Live
<1>3. WaitLockInv'
  BY OneWaiting DEF OneCPU, WaitLockInv, LockInv, SwitchInv, ForkInv, Forking,
         Executing, Live, Waiting
<1>4. SwitchInv'
  BY OneWaiting DEF OneCPU, LockInv, SwitchInv, WaitLockInv, ForkInv, Forking,
         Executing, Live, Waiting
<1>5. ForkInv'
  BY OneWaiting DEF OneCPU, LockInv, SwitchInv, ForkInv, ParentInv, Forking,
         Executing, Live
<1>6. ParentInv'
  BY OneWaiting DEF OneCPU, LockInv, SwitchInv, WaitLockInv, ForkInv, ParentInv,
         Forking, Executing, Live, Waiting, Children
<1>7. LoopInv'
  BY OneWaiting DEF OneCPU, LockInv, SwitchInv, WaitLockInv, ForkInv, LoopInv,
         Forking, Executing, Live, Waiting
<1>8. WakeInv'
  BY OneWaiting DEF OneCPU, LockInv, SwitchInv, WaitLockInv, ForkInv, ParentInv,
         LoopInv, WakeInv, Forking, Executing, Live, Waiting, Children
<1> QED BY <1>1, <1>2, <1>3, <1>4, <1>5, <1>6, <1>7, <1>8

LEMMA SleepStep ==
  ASSUME IInv, NEW c \in CPUs, NEW p \in Slot, sleep(c, p)
  PROVE  IInv'
<1> USE ConstFacts, ProcLocksAssumption DEF IInv, TypeOK, sleep, acquire, Free,
        SleepUnlocked, sched, Runs, Goto
<1>1. TypeOK'
  BY OneWaiting DEF TypeOK, WaitLockInv, LoopInv, Executing, Waiting
<1>2. OneCPU' /\ LockInv'
  BY OneWaiting DEF OneCPU, LockInv, SwitchInv, ForkInv, Forking, Executing, Live
<1>3. WaitLockInv'
  BY OneWaiting DEF OneCPU, WaitLockInv, LockInv, SwitchInv, ForkInv, Forking,
         Executing, Live, Waiting
<1>4. SwitchInv'
  BY OneWaiting DEF OneCPU, LockInv, SwitchInv, WaitLockInv, ForkInv, Forking,
         Executing, Live, Waiting
<1>5. ForkInv'
  BY OneWaiting DEF OneCPU, LockInv, SwitchInv, ForkInv, ParentInv, Forking,
         Executing, Live
<1>6. ParentInv'
  BY OneWaiting DEF OneCPU, LockInv, SwitchInv, WaitLockInv, ForkInv, ParentInv,
         Forking, Executing, Live, Waiting, Children
<1>7. LoopInv'
  BY OneWaiting DEF OneCPU, LockInv, SwitchInv, WaitLockInv, ForkInv, LoopInv,
         Forking, Executing, Live, Waiting
<1>8. WakeInv'
  BY OneWaiting DEF OneCPU, LockInv, SwitchInv, WaitLockInv, ForkInv, ParentInv,
         LoopInv, WakeInv, Forking, Executing, Live, Waiting, Children
<1> QED BY <1>1, <1>2, <1>3, <1>4, <1>5, <1>6, <1>7, <1>8

LEMMA KillStep ==
  ASSUME IInv, NEW c \in CPUs, NEW p \in Slot, NEW x \in KillPids, kill(c, p, x)
  PROVE  IInv'
<1>1. PICK q \in Slot :
        state' = [state EXCEPT ![q] = IF @ = "SLEEPING" THEN "RUNNABLE" ELSE @]
  BY DEF kill, Runs, IInv, TypeOK
<1>2. /\ Runs(c, p) /\ at[p] = "kernel" /\ Goto(p, "user") /\ killed' \in [Slot -> BOOLEAN]
      /\ UNCHANGED <<pid, parent, chan, lock, wait_lock, pp, ctx, np, on, nextpid>>
  BY DEF kill, IInv, TypeOK
<1> USE ConstFacts, ProcLocksAssumption DEF IInv, TypeOK, Runs, Goto
<1>3. TypeOK'
  BY <1>1, <1>2 DEF TypeOK
<1>4. OneCPU' /\ LockInv'
  BY <1>1, <1>2 DEF OneCPU, LockInv, SwitchInv, ForkInv, Forking, Executing, Live
<1>5. WaitLockInv'
  BY <1>1, <1>2 DEF OneCPU, WaitLockInv, LockInv, SwitchInv, ForkInv, Forking,
         Executing, Live, Waiting
<1>6. SwitchInv'
  BY <1>1, <1>2 DEF OneCPU, LockInv, SwitchInv, WaitLockInv, ForkInv, Forking,
         Executing, Live, Waiting
<1>7. ForkInv'
  BY <1>1, <1>2 DEF OneCPU, LockInv, SwitchInv, ForkInv, ParentInv, Forking,
         Executing, Live
<1>8. ParentInv'
  BY <1>1, <1>2 DEF OneCPU, LockInv, SwitchInv, WaitLockInv, ForkInv, ParentInv,
         Forking, Executing, Live, Waiting, Children
<1>9. LoopInv'
  BY <1>1, <1>2 DEF OneCPU, LockInv, SwitchInv, WaitLockInv, ForkInv, LoopInv,
         Forking, Executing, Live, Waiting
<1>10. WakeInv'
  BY <1>1, <1>2 DEF OneCPU, LockInv, SwitchInv, WaitLockInv, ForkInv, ParentInv,
         LoopInv, WakeInv, Forking, Executing, Live, Waiting, Children
<1> QED BY <1>3, <1>4, <1>5, <1>6, <1>7, <1>8, <1>9, <1>10

LEMMA StutterStep == ASSUME IInv, UNCHANGED vars PROVE IInv'
  BY DEF vars, IInv, TypeOK, OneCPU, LockInv, WaitLockInv, SwitchInv, ForkInv, ParentInv,
         LoopInv, WakeInv, Forking, Executing, Live, Children

LEMMA InitIInv == ASSUME Init PROVE IInv
<1> USE ConstFacts, ProcLocksAssumption DEF Init
<1>1. TypeOK
  BY DEF TypeOK
<1>2. OneCPU /\ LockInv
  BY DEF OneCPU, LockInv, SwitchInv, ForkInv, Forking, Executing, Live
<1>3. WaitLockInv
  BY DEF OneCPU, WaitLockInv, LockInv, SwitchInv, ForkInv, Forking, Executing, Live,
         Waiting
<1>4. SwitchInv
  BY DEF OneCPU, LockInv, SwitchInv, WaitLockInv, ForkInv, Forking, Executing, Live,
         Waiting
<1>5. ForkInv
  BY DEF OneCPU, LockInv, SwitchInv, ForkInv, ParentInv, Forking, Executing, Live
<1>6. ParentInv
  BY DEF OneCPU, LockInv, SwitchInv, WaitLockInv, ForkInv, ParentInv, Forking,
         Executing, Live, Waiting, Children
<1>7. LoopInv
  BY DEF OneCPU, LockInv, SwitchInv, WaitLockInv, ForkInv, LoopInv, Forking,
         Executing, Live, Waiting
<1>8. WakeInv
  BY DEF OneCPU, LockInv, SwitchInv, WaitLockInv, ForkInv, ParentInv, LoopInv,
         WakeInv, Forking, Executing, Live, Waiting, Children
<1> QED BY <1>1, <1>2, <1>3, <1>4, <1>5, <1>6, <1>7, <1>8 DEF IInv

LEMMA StepIInv == ASSUME IInv, [Next]_vars PROVE IInv'
<1>1. CASE UNCHANGED vars
  BY <1>1, StutterStep
<1>2. ASSUME NEW c \in CPUs, swtch(c) PROVE IInv'
  BY <1>2, SwtchStep
<1>3. ASSUME NEW c \in CPUs, NEW p \in Slot, scheduler(c, p) \/ Resume(c, p) \/ yield(c, p)
      PROVE IInv'
  BY <1>3, SchedulerStep, ResumeStep, YieldStep
<1>4. ASSUME NEW c \in CPUs, InitExiting(c) PROVE IInv'
  <2>1. Runs(c, initproc) /\ Passing(initproc)
    BY <1>4 DEF InitExiting, Passing, Goto, Runs, proc, IInv, TypeOK
  <2> QED BY <2>1, PassingStep, ConstFacts
<1>5. ASSUME NEW c \in CPUs, NEW p \in Slot, Thread(c, p) PROVE IInv'
  <2>1. CASE usertrap(c, p) \/ setkilled(c, p) \/ ForkFull(c, p) \/ sys_exit(c, p)
    <3>1. killed' \in [Slot -> BOOLEAN]
      BY <2>1 DEF usertrap, setkilled, ForkFull, sys_exit, proc, IInv, TypeOK
    <3>2. Runs(c, p) /\ Passing(p)
      BY <2>1, <3>1 DEF usertrap, setkilled, ForkFull, sys_exit, Passing, Goto, Runs, proc
    <3> QED BY <3>2, PassingStep
  <2>2. ASSUME NEW q \in Slot, allocproc(c, p, q) PROVE IInv'
    BY <2>2, AllocprocStep
  <2>3. CASE ForkFail(c, p) \/ ForkCopy(c, p) \/ ForkParent(c, p) \/ ForkReady(c, p)
    BY <2>3, ForkFailStep, ForkCopyStep, ForkParentStep, ForkReadyStep
  <2>4. CASE exit(c, p) \/ reparent(c, p) \/ Reparented(c, p) \/ WakeInit(c, p)
    BY <2>4, ExitStep, ReparentStep, ReparentedStep, WakeInitStep
  <2>5. CASE WakeParent(c, p) \/ Zombie(c, p) \/ wait(c, p) \/ WaitSkip(c, p)
    BY <2>5, WakeParentStep, ZombieStep, WaitStep, WaitSkipStep
  <2>6. CASE WaitReap(c, p) \/ WaitCopyFail(c, p) \/ WaitFail(c, p) \/ WaitCheck(c, p)
    BY <2>6, WaitReapStep, WaitCopyFailStep, WaitFailStep, WaitCheckStep
  <2>7. CASE sleep(c, p)
    BY <2>7, SleepStep
  <2>8. ASSUME NEW x \in KillPids, kill(c, p, x) PROVE IInv'
    BY <2>8, KillStep
  <2> QED BY <1>5, <2>1, <2>2, <2>3, <2>4, <2>5, <2>6, <2>7, <2>8 DEF Thread
<1> QED BY <1>1, <1>2, <1>3, <1>4, <1>5 DEF Next

\* What the steps of the system keep.
THEOREM Inductive == Spec => []IInv
  BY InitIInv, StepIInv, PTL DEF Spec

----------------------------------------------------------------------------
(* The properties                                                          *)

\* Every variable keeps its type, and a scan of the table starts at its first slot
\* whenever wait_lock is taken.
THEOREM TypesKept == Spec => []TypeOK
<1>1. IInv => TypeOK
  BY DEF IInv
<1> QED BY <1>1, Inductive, PTL

\* No process is on two CPUs, and no slot is freed or allocated while a CPU is on
\* its stack: wait takes the lock that swtch hands to the scheduler.
THEOREM RunsOnOneCPU == Spec => []OneCPU
<1>1. IInv => OneCPU
  BY DEF IInv
<1> QED BY <1>1, Inductive, PTL

\* None of the panics in sched is reached: who calls it holds its own p->lock, no
\* other and not wait_lock.
THEOREM SchedHoldsOneLock == Spec => []SchedLocks
<1>1. IInv => SchedLocks
  BY ConstFacts DEF IInv, TypeOK, LockInv, WaitLockInv, SchedLocks, Executing
<1> QED BY <1>1, Inductive, PTL

\* The wakeup in exit is not lost: when wait_lock is free, no parent sleeps in wait
\* beside a child that has exited.
THEOREM ExitsNoticed == Spec => []NoLostExit
<1>1. IInv => NoLostExit
  <2> SUFFICES ASSUME IInv, wait_lock = NoCPU, NEW p \in Slot, NEW q \in Slot,
                      state[p] = "SLEEPING", parent[q] = p, state[q] = "ZOMBIE"
               PROVE  FALSE
    BY DEF NoLostExit
  <2>1. PICK r \in Slot : Executing(r) /\ at[r] = "wakeinit"
    BY DEF IInv, WakeInv
  <2>2. \E c \in CPUs : wait_lock = c
    BY <2>1, ConstFacts DEF IInv, SwitchInv, WaitLockInv, Executing, Waiting
  <2> QED BY <2>2, ProcLocksAssumption
<1> QED BY <1>1, Inductive, PTL

\* reparent leaves no orphan: when wait_lock is free, whoever lives or has exited,
\* init aside, has a parent that can still wait for it.
THEOREM ParentsStayLive == Spec => []ParentsLive
<1>1. IInv => ParentsLive
  BY DEF IInv, ParentInv, ParentsLive
<1> QED BY <1>1, Inductive, PTL

=============================================================================
