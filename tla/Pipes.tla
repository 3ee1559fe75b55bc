------------------------------- MODULE Pipes -------------------------------
(***************************************************************************)
(* Pipes, descriptors, fork, wait and exit as the programs of Lab1 use     *)
(* them.  The kernel behind these calls is not part of the repository.     *)
(*                                                                         *)
(* A message is one write of the programs; these divide the size of a     *)
(* pipe, so that none is ever split.                                       *)
(*                                                                         *)
(* Processes are numbered in the order of their creation, process i + 1    *)
(* being a child of process i, and pipe i is the one process i creates.    *)
(***************************************************************************)
EXTENDS Integers, Sequences, FiniteSets

CONSTANTS MaxProc,   \* the largest process number
          PIPESIZE   \* messages that fit into a pipe

ASSUME PipesAssumption == MaxProc \in Nat \ {0} /\ PIPESIZE \in Nat \ {0}

VARIABLES fds,   \* the pipe ends that a process has open
          buf,   \* what has been written to a pipe and not been read
          pc,    \* where a process is; "none": not created, "gone": exited
          kids,  \* has forked
          failed, \* some fork has failed
          out    \* what has been printed

kernel == <<fds, buf, pc, kids, failed, out>>

Proc   == 0..MaxProc
R(i)   == <<i, "r">>
W(i)   == <<i, "w">>
Ends   == {R(i) : i \in Proc} \cup {W(i) : i \in Proc}

Open(e)      == \E p \in Proc : e \in fds[p]
Goto(p, l)   == pc' = [pc EXCEPT ![p] = l]
close(p, e)  == fds' = [fds EXCEPT ![p] = @ \ {e}]
pipe(p)      == fds' = [fds EXCEPT ![p] = @ \cup {R(p), W(p)}]

\* read blocks while the pipe is empty and can still be written to.
CanRead(i) == buf[i] # <<>>
AtEOF(i)   == buf[i] = <<>> /\ ~Open(W(i))
Take(i)    == buf' = [buf EXCEPT ![i] = Tail(@)]

\* write blocks while the pipe is full, and fails when nobody can read it.
CanWrite(i) == ~Open(R(i)) \/ Len(buf[i]) < PIPESIZE
write(i, x) == /\ CanWrite(i)
               /\ buf' = IF Open(R(i)) THEN [buf EXCEPT ![i] = Append(@, x)] ELSE buf

\* fork: the caller goes on at l, its child at c with the same descriptors, or
\* there is no child and the caller goes on at e.
fork(p, l, c, e) ==
  \/ /\ p < MaxProc
     /\ pc' = [pc EXCEPT ![p] = l, ![p + 1] = c]
     /\ fds' = [fds EXCEPT ![p + 1] = fds[p]]
     /\ kids' = [kids EXCEPT ![p] = TRUE]
     /\ UNCHANGED failed
  \/ Goto(p, e) /\ failed' = TRUE /\ UNCHANGED <<fds, kids>>

\* wait blocks while there is a child that has not exited.
CanWait(p) == kids[p] => pc[p + 1] = "gone"

\* exit closes everything.
exit(p) == /\ pc' = [pc EXCEPT ![p] = "gone"]
           /\ fds' = [fds EXCEPT ![p] = {}]
=============================================================================
