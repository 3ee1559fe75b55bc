------------------------------ MODULE Lottery ------------------------------
(***************************************************************************)
(* The lottery of Lab2: the tickets of the processes (allocproc, fork and  *)
(* settickets of proc.c), the draw and the search for the winner in        *)
(* scheduler, and the generator of rand.c.  Which processes are runnable   *)
(* is decided elsewhere (ProcTable); here they come and go freely.         *)
(*                                                                         *)
(* A uint has UINT values, a power of two.  With fewer than 2^32 of them   *)
(* next_rand computes the low bits of the seed, which do not depend on the *)
(* high ones.                                                              *)
(***************************************************************************)
EXTENDS Integers, FiniteSets

CONSTANTS NPROC,      \* slots of the process table
          UINT,       \* the values of a uint, 2^32 in the code
          TicketNs,   \* arguments of settickets
          NCPU,       \* CPUs, each of which starts its own scheduler
          MaxTicks    \* bound on the slices counted

ASSUME LotteryAssumption ==
  /\ NPROC \in Nat \ {0} /\ TicketNs \subseteq Int /\ MaxTicks \in Nat /\ NCPU \in Nat
  /\ UINT \in Nat \ {0} /\ \E k \in 1..32 : UINT = 2^k

VARIABLES state, tickets, ticks,  \* struct proc
          seed,
          started                 \* CPUs whose scheduler has started

vars == <<state, tickets, ticks, seed, started>>

Slot    == 1..NPROC
Default == 5

\* Two's complement.
int(x)  == ((x + UINT \div 2) % UINT) - UINT \div 2
uint(x) == x % UINT

Runnable(p) == state[p] = "RUNNABLE"

\* The value of counter after slot n, and of total_tickets after the last.
counter[n \in 0..NPROC] ==
  IF n = 0 THEN 0
  ELSE IF Runnable(n) THEN int(counter[n - 1] + tickets[n]) ELSE counter[n - 1]
total == counter[NPROC]

\* The generator.  Mutant: without its increment.
NoIncrement(s) == ((1664525 % UINT) * s) % UINT
next_rand(s)   == ((1664525 % UINT) * s + (1013904223 % UINT)) % UINT

\* random_at_most(max), when the generator returns r.
random_at_most(max, r) == IF max = 0 THEN 0 ELSE r % uint(max + 1)

\* The slots at which the search for the winner stops: one or none.
\* Mutant: the winner's ticket belongs to the slot before.
WonEarly(w) == {p \in Slot : /\ Runnable(p) /\ counter[p] >= w
                             /\ \A q \in 1..(p - 1) : ~(Runnable(q) /\ counter[q] >= w)}
Won(w)      == {p \in Slot : /\ Runnable(p) /\ counter[p] > w
                             /\ \A q \in 1..(p - 1) : ~(Runnable(q) /\ counter[q] > w)}

\* The winners of the draw r: one, or none.
Winners(r) == Won(int(random_at_most(uint(total - 1), r)))

\* The first process, when the first CPU has started its scheduler.
Init ==
  /\ state = [p \in Slot |-> IF p = 1 THEN "RUNNABLE" ELSE "UNUSED"]
  /\ tickets = [p \in Slot |-> IF p = 1 THEN Default ELSE 0]
  /\ ticks = [p \in Slot |-> 0]
  /\ seed = 1
  /\ started = 1

\* rand_init: a CPU that starts its scheduler starts the sequence again, no
\* lock held, for all of them.
rand_init ==
  /\ started < NCPU
  /\ started' = started + 1 /\ seed' = 1
  /\ UNCHANGED <<state, tickets, ticks>>

\* One round of the loop of scheduler, on any CPU.
scheduler ==
  /\ total # 0
  /\ LET r == next_rand(seed)
     IN  /\ \A p \in Winners(r) : ticks[p] < MaxTicks
         /\ ticks' = [p \in Slot |-> IF p \in Winners(r) THEN ticks[p] + 1 ELSE ticks[p]]
         /\ seed' = IF total = 1 THEN seed ELSE r
  /\ UNCHANGED <<state, tickets, started>>

\* fork by p into slot q: allocproc's default gives way to p's tickets.
fork(p, q) ==
  /\ Runnable(p) /\ state[q] = "UNUSED"
  /\ state' = [state EXCEPT ![q] = "RUNNABLE"]
  /\ tickets' = [tickets EXCEPT ![q] = tickets[p]]
  /\ ticks' = [ticks EXCEPT ![q] = 0]
  /\ UNCHANGED <<seed, started>>

\* The test of settickets.  Mutant: zero passes.
AllowsZero(n) == n >= 0
Allowed(n)    == n >= 1

settickets(p, n) ==
  /\ Runnable(p) /\ Allowed(n)
  /\ tickets' = [tickets EXCEPT ![p] = n]
  /\ UNCHANGED <<state, ticks, seed, started>>

\* The process sleeps, wakes up, or is gone, which leaves its tickets behind.
Block(p) ==
  /\ Runnable(p)
  /\ \E s \in {"SLEEPING", "UNUSED"} : state' = [state EXCEPT ![p] = s]
  /\ UNCHANGED <<tickets, ticks, seed, started>>
Wake(p) ==
  /\ state[p] = "SLEEPING"
  /\ state' = [state EXCEPT ![p] = "RUNNABLE"]
  /\ UNCHANGED <<tickets, ticks, seed, started>>

Next == \/ rand_init \/ scheduler
        \/ \E p \in Slot : \/ \E q \in Slot : fork(p, q)
                           \/ \E n \in TicketNs : settickets(p, n)
                           \/ Block(p) \/ Wake(p)
Spec == Init /\ [][Next]_vars

----------------------------------------------------------------------------
(* Properties                                                              *)

\* Each process is the winner for exactly as many draws as it has tickets if
\* it is runnable, and for none if not: the two loops over the table agree.
ShareExact == \A p \in Slot :
  Cardinality({w \in 0..(total - 1) : p \in Won(w)}) = IF Runnable(p) THEN tickets[p] ELSE 0

\* The comment at lines 324-325 of proc.c: the scheduler chooses a process to
\* run.  So whenever one is runnable, every draw has a winner.
SomeoneWins == (\E p \in Slot : Runnable(p)) =>
  total # 0 /\ \A r \in 0..(UINT - 1) : Winners(r) # {}

\* When the number of tickets is a power of two, which of them wins depends on
\* the low bits of the seed only, and those go through all values: wherever
\* the sequence stands, or is started again by another CPU, every process
\* runs exactly its share of the next slices, as many as there are tickets.
WindowFair ==
  LET draw[k \in 0..total] == IF k = 0 THEN seed ELSE next_rand(draw[k - 1])
  IN  total > 1 /\ UINT % total = 0 =>
        \A p \in Slot : Runnable(p) =>
          Cardinality({k \in 1..total : p \in Winners(draw[k])}) = tickets[p]
=============================================================================
