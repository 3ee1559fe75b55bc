------------------------------- MODULE Primes -------------------------------
(***************************************************************************)
(* The prime sieve of Lab1, primes.c: process 0 feeds the numbers 2 to     *)
(* LIMIT into a pipeline, every other process takes its first number for   *)
(* a prime and passes on what that does not divide, to a process it forks. *)
(***************************************************************************)
EXTENDS Pipes

CONSTANT LIMIT   \* the last number (35 in the code)

ASSUME PrimesAssumption == LIMIT \in Nat

VARIABLES num,    \* i, or the number a process is about to write
          prime,  \* the prime of a process
          left    \* the pipe it reads

locals == <<num, prime, left>>

PrimesInit ==
  /\ num = [p \in Proc |-> 2] /\ prime = [p \in Proc |-> 0]
  /\ left = [p \in Proc |-> 0]

\* pipe(p) of main, pipe(right_pipe) of a stage.
MakePipe(p) ==
  /\ pc[p] \in {"pipe", "right"}
  /\ pipe(p)
  /\ Goto(p, IF pc[p] = "pipe" THEN "fork" ELSE "split")
  /\ UNCHANGED <<buf, kids, failed, out, locals>>

\* The fork of main.  If it fails, main goes on like the child.
ForkFirst(p) ==
  /\ pc[p] = "fork"
  /\ fork(p, "closeR", "stage", "stage")
  /\ UNCHANGED <<buf, out, locals>>

\* Close the ends not needed by the feeder.
FeedClose(p) ==
  /\ pc[p] = "closeR"
  /\ close(p, R(p)) /\ Goto(p, "feed")
  /\ UNCHANGED <<buf, kids, failed, out, locals>>

Feed(p) ==
  /\ pc[p] = "feed" /\ num[p] <= LIMIT
  /\ write(p, num[p])
  /\ num' = [num EXCEPT ![p] = @ + 1]
  /\ UNCHANGED <<fds, pc, kids, failed, prime, left, out>>

FeedEnd(p) ==
  /\ pc[p] = "feed" /\ num[p] > LIMIT
  /\ close(p, W(p)) /\ Goto(p, "wait")
  /\ UNCHANGED <<buf, kids, failed, out, locals>>

\* The first child, with its descriptors in order.
Stage(p) ==
  /\ pc[p] = "stage"
  /\ close(p, W(0)) /\ Goto(p, "first")
  /\ left' = [left EXCEPT ![p] = 0]
  /\ UNCHANGED <<buf, kids, failed, num, prime, out>>

\* The head of the loop: a prime, or the end.
ReadPrime(p) ==
  /\ pc[p] = "first" /\ CanRead(left[p])
  /\ Take(left[p])
  /\ prime' = [prime EXCEPT ![p] = Head(buf[left[p]])]
  /\ out' = Append(out, Head(buf[left[p]]))
  /\ Goto(p, "right")
  /\ UNCHANGED <<fds, kids, failed, num, left>>

NoPrime(p) ==
  /\ pc[p] = "first" /\ AtEOF(left[p])
  /\ exit(p)
  /\ UNCHANGED <<buf, kids, failed, out, locals>>

\* The fork of a stage.  If it fails, there is nobody to read.
ForkNext(p) ==
  /\ pc[p] = "split"
  /\ fork(p, "unread", "next", "unread")
  /\ UNCHANGED <<buf, out, locals>>

\* What a new stage closes.  Mutant: not the writing end of its input.
KeepWrite(p) == {R(left[p - 1])}
Unneeded(p)  == {W(p - 1), R(left[p - 1])}

NextStage(p) ==
  /\ pc[p] = "next"
  /\ fds' = [fds EXCEPT ![p] = @ \ Unneeded(p)]
  /\ left' = [left EXCEPT ![p] = p - 1]
  /\ Goto(p, "first")
  /\ UNCHANGED <<buf, kids, failed, num, prime, out>>

CloseRead(p) ==
  /\ pc[p] = "unread"
  /\ close(p, R(p)) /\ Goto(p, "filter")
  /\ UNCHANGED <<buf, kids, failed, out, locals>>

\* The loop that filters.
Passes(p, n) == n % prime[p] # 0

Filter(p) ==
  /\ pc[p] = "filter" /\ CanRead(left[p])
  /\ Take(left[p])
  /\ num' = [num EXCEPT ![p] = Head(buf[left[p]])]
  /\ Goto(p, IF Passes(p, Head(buf[left[p]])) THEN "pass" ELSE "filter")
  /\ UNCHANGED <<fds, kids, failed, prime, left, out>>

PassOn(p) ==
  /\ pc[p] = "pass"
  /\ write(p, num[p])
  /\ Goto(p, "filter")
  /\ UNCHANGED <<fds, kids, failed, out, locals>>

FilterEnd(p) ==
  /\ pc[p] = "filter" /\ AtEOF(left[p])
  /\ fds' = [fds EXCEPT ![p] = @ \ {R(left[p]), W(p)}]
  /\ Goto(p, "wait")
  /\ UNCHANGED <<buf, kids, failed, out, locals>>

\* wait(0) and exit.  Mutant: no wait.
NoWait(p) == TRUE
Waits(p)  == CanWait(p)

WaitExit(p) ==
  /\ pc[p] = "wait" /\ Waits(p)
  /\ exit(p)
  /\ UNCHANGED <<buf, kids, failed, out, locals>>

PrimesStep(p) ==
  \/ MakePipe(p) \/ ForkFirst(p) \/ FeedClose(p) \/ Feed(p) \/ FeedEnd(p)
  \/ Stage(p) \/ ReadPrime(p) \/ NoPrime(p) \/ ForkNext(p) \/ NextStage(p)
  \/ CloseRead(p) \/ Filter(p) \/ PassOn(p) \/ FilterEnd(p) \/ WaitExit(p)
=============================================================================
