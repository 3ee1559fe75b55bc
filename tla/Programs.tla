------------------------------ MODULE Programs ------------------------------
(***************************************************************************)
(* The programs of Lab1 that use processes, one of them at a time.         *)
(***************************************************************************)
EXTENDS Primes, PingPong, FindXargs

CONSTANTS Names,   \* the programs that may be run
          Width    \* bound on the entries of a directory

ASSUME ProgramsAssumption == Width \in Nat

VARIABLE prog

vars == <<kernel, locals, got, findVars, xargsVars, prog>>

\* The first process, as the shell starts it; find and xargs with the pipe
\* between them, and xargs with a file as its input.
Start == [primes   |-> <<"pipe">>,
          pingpong |-> <<"pp_pipe">>,
          find     |-> <<"find", "xargs">>,
          xargs    |-> <<"gone", "xargs">>]

Init ==
  /\ prog \in Names
  /\ pc = [p \in Proc |-> IF p < Len(Start[prog]) THEN Start[prog][p + 1] ELSE "none"]
  /\ fds = [p \in Proc |-> CASE prog = "find" /\ p = 0 -> {W(0)}
                             [] prog \in {"find", "xargs"} /\ p = 1 -> {R(0)}
                             [] OTHER -> {}]
  /\ buf = [p \in Proc |-> IF prog = "xargs" /\ p = 0 THEN Lines ELSE <<>>]
  /\ kids = [p \in Proc |-> FALSE] /\ failed = FALSE /\ out = <<>>
  /\ PrimesInit /\ PingPongInit
  /\ FindXargsInit /\ (prog # "find" => arg = [is |-> "dir", len |-> 0])

Step(p) ==
  \/ PrimesStep(p) /\ UNCHANGED <<got, findVars, xargsVars, prog>>
  \/ PingPongStep(p) /\ UNCHANGED <<locals, findVars, xargsVars, prog>>
  \/ (FindStep(p) \/ XargsStep(p)) /\ UNCHANGED <<locals, got, prog>>

Next == \E p \in Proc : Step(p)
Spec == Init /\ [][Next]_vars

\* Every process is scheduled in the end.
FairSpec == Spec /\ \A p \in Proc : WF_vars(Step(p))

----------------------------------------------------------------------------
(* Properties                                                              *)

Gone(p) == pc[p] \in {"none", "gone"}

\* Every program ends: no process waits for ever to read from a pipe whose
\* writing end it, or a process that waits for it, has open, or to write into
\* one that is full.  Only pingpong without a child waits for itself.
Terminates == <>(\/ \A p \in Proc : Gone(p)
                 \/ prog = "pingpong" /\ failed)

\* The sieve prints the primes in order and leaves none out, whatever the
\* stages do in between, and unless it runs out of processes all of them are
\* out before main exits and the shell prompts again.
IsPrime(n)   == \A d \in 2..(n - 1) : n % d # 0
PrimesTo(n)  == \A x \in 2..n : IsPrime(x) => \E i \in DOMAIN out : out[i] = x
PrimesExact  == prog = "primes" =>
  /\ \A i \in DOMAIN out : out[i] \in 2..LIMIT /\ IsPrime(out[i]) /\ PrimesTo(out[i])
  /\ \A i, j \in DOMAIN out : i < j => out[i] < out[j]
  /\ pc[0] = "gone" /\ ~failed => PrimesTo(LIMIT)

\* A process of pingpong receives the message of the other, never its own.
GotOther == prog = "pingpong" =>
  /\ got[0] \in {"nothing", "pong"}
  /\ pc[0] = "gone" => got[0] = "pong" /\ got[1] = "ping"

\* What is at a path.
At(s) == LET at[k \in 0..Len(s)] ==
               IF k = 0 THEN "root"
               ELSE IF at[k - 1] \in DOMAIN Dirs /\ s[k] \in DOMAIN Dirs[at[k - 1]]
                    THEN Dirs[at[k - 1]][s[k]] ELSE "nothing"
         IN  at[Len(s)]
Before(s, t) == \E k \in DOMAIN t : /\ k \in DOMAIN s => s[k] < t[k]
                                    /\ SubSeq(s, 1, k - 1) = SubSeq(t, 1, k - 1)
Places == UNION {[1..n -> 1..Width] : n \in 1..(NFree - 1)}

Fits(s)    == arg.len + Len(s) <= MAXPATH /\ arg.len + Len(s) - 1 <= PathMax
Printed(s) == \E i \in DOMAIN out : out[i] = s

\* find prints only files with the name, each once and in the order of the
\* directories, also if it is killed; and if it gets to its end, all those with
\* a path that fits and a name shorter than DIRSIZ (AllFound has no exceptions).
FoundAll == prog = "find" =>
  /\ \A i \in DOMAIN out : At(out[i]) \in {"file", "full"}
  /\ \A i, j \in DOMAIN out : i < j => Before(out[i], out[j])
  /\ pc[0] = "gone" /\ arg.is = "dir" /\ stack = <<>> =>
       \A s \in Places : At(s) = "file" /\ Fits(s) => Printed(s)

\* The report of Lab1 (line 269): find finds all the files with the name in the
\* tree; here, all whose path fits.
AllFound == prog = "find" /\ pc[0] = "gone" /\ arg.is = "dir" =>
  \A s \in Places : At(s) \in {"file", "full"} /\ Fits(s) => Printed(s)

\* xargs runs its command for one line after the other, none left out between
\* them, with the arguments it was given and the words of that line only, as many
\* as fit; and behind find, unless a fork fails, for all that find printed.
Input    == IF prog = "find" THEN [i \in DOMAIN out |-> [n |-> 1, words |-> <<out[i]>>]]
                             ELSE Lines
LinesRun == prog \in {"find", "xargs"} =>
  /\ Len(ran) <= Len(Input)
  /\ \A i \in DOMAIN ran :
       ran[i] = SubSeq(Base \o Input[i].words, 1, Smaller(MAXARG - 1, Len(Base \o Input[i].words)))
  /\ prog = "find" /\ pc[1] = "gone" /\ ~failed => Len(ran) = Len(out)
=============================================================================
