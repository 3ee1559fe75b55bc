------------------------------ MODULE PingPong ------------------------------
(***************************************************************************)
(* pingpong.c of Lab1: parent and child exchange a message over one pipe   *)
(* that both have open in both directions.  Only the parent's wait keeps   *)
(* it from reading back its own message.                                   *)
(***************************************************************************)
EXTENDS Pipes

VARIABLE got   \* what a process has received

PingPongInit == got = [p \in Proc |-> "nothing"]

PPipe(p) ==
  /\ pc[p] = "pp_pipe"
  /\ pipe(p) /\ Goto(p, "pp_fork")
  /\ UNCHANGED <<buf, kids, failed, out, got>>

\* Without a child the process takes the branch of the child.
PFork(p) ==
  /\ pc[p] = "pp_fork"
  /\ fork(p, "ping", "child", "child")
  /\ UNCHANGED <<buf, out, got>>

\* Both write, and go on with what comes next in their branch.
Ping(p) ==
  /\ pc[p] \in {"ping", "pong"}
  /\ write(0, pc[p])
  /\ Goto(p, IF pc[p] = "ping" THEN "pp_wait" ELSE "pp_exit")
  /\ UNCHANGED <<fds, kids, failed, out, got>>

\* wait(NULL).  Mutant: no wait.
NoPWait(p) == pc[p] = "pp_wait" /\ Goto(p, "parent")
PWaits(p)  == pc[p] = "pp_wait" /\ CanWait(p) /\ Goto(p, "parent")
PWait(p)   == PWaits(p) /\ UNCHANGED <<fds, buf, kids, failed, out, got>>

\* Neither ever sees the end of the pipe: it has a writing end itself.
Receive(p) ==
  /\ pc[p] \in {"parent", "child"} /\ CanRead(0)
  /\ Take(0)
  /\ got' = [got EXCEPT ![p] = Head(buf[0])]
  /\ Goto(p, IF pc[p] = "child" THEN "pong" ELSE "pp_exit")
  /\ UNCHANGED <<fds, kids, failed, out>>

PExit(p) ==
  /\ pc[p] = "pp_exit"
  /\ exit(p)
  /\ UNCHANGED <<buf, kids, failed, out, got>>

PingPongStep(p) == PPipe(p) \/ PFork(p) \/ Ping(p) \/ PWait(p) \/ Receive(p) \/ PExit(p)
=============================================================================
