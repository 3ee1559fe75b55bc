--------------------------- MODULE ProgramsProofs ---------------------------
(***************************************************************************)
(* What the programs of Lab1 print, receive and run, for every number of   *)
(* processes, size of a pipe, tree of directories and input.               *)
(***************************************************************************)
EXTENDS Programs, NatFacts, TLAPS

\* A label says which program a process runs.
PrimesAt   == {"pipe", "fork", "closeR", "feed", "wait", "stage", "first", "right", "split",
               "next", "unread", "filter", "pass", "none", "gone"}
PingPongAt == {"pp_pipe", "pp_fork", "ping", "pong", "pp_wait", "child", "parent", "pp_exit",
               "none", "gone"}
FindAt     == {"find", "entry", "print", "find_exit", "gone"}
XargsAt    == {"xargs", "xfork", "xwait", "xexit", "gone"}
CommandAt  == {"none", "exec", "command", "gone"}

LEMMA StartDef ==
  /\ Start.primes = <<"pipe">> /\ Start.pingpong = <<"pp_pipe">>
  /\ Start.find = <<"find", "xargs">> /\ Start.xargs = <<"gone", "xargs">>
  BY DEF Start

LEMMA ProcFacts == MaxProc \in Nat /\ 0 \in Proc /\ 1 \in Proc /\ PIPESIZE \in Nat \ {0}
                   /\ Proc \subseteq Nat
  BY PipesAssumption DEF Proc

\* Only the actions of the program that a process runs are possible.
LEMMA PingPongOnly ==
  ASSUME NEW q \in Proc, pc[q] \in PingPongAt, Step(q)
  PROVE  PingPongStep(q) /\ UNCHANGED prog
  BY DEF Step, PingPongAt, PrimesStep, MakePipe, ForkFirst, FeedClose, Feed, FeedEnd, Stage,
         ReadPrime, NoPrime, ForkNext, NextStage, CloseRead, Filter, PassOn, FilterEnd, WaitExit,
         FindStep, FindMain, Entry, FindPrint, Return, Overflow, FindExit,
         XargsStep, InputEnd, ReadLine, XFork, Exec, Command, XWait, XExit

LEMMA PrimesOnly ==
  ASSUME NEW q \in Proc, pc[q] \in PrimesAt, Step(q)
  PROVE  PrimesStep(q) /\ UNCHANGED prog
  BY DEF Step, PrimesAt, PingPongStep, PPipe, PFork, Ping, PWait, PWaits, Receive, PExit,
         FindStep, FindMain, Entry, FindPrint, Return, Overflow, FindExit,
         XargsStep, InputEnd, ReadLine, XFork, Exec, Command, XWait, XExit

LEMMA FindXargsOnly ==
  ASSUME NEW q \in Proc, pc[q] \in FindAt \cup XargsAt \cup CommandAt, Step(q)
  PROVE  (FindStep(q) \/ XargsStep(q)) /\ UNCHANGED prog
  BY DEF Step, FindAt, XargsAt, CommandAt, PingPongStep, PPipe, PFork, Ping, PWait, PWaits, Receive, PExit,
         PrimesStep, MakePipe, ForkFirst, FeedClose, Feed, FeedEnd, Stage,
         ReadPrime, NoPrime, ForkNext, NextStage, CloseRead, Filter, PassOn, FilterEnd, WaitExit

----------------------------------------------------------------------------
(* pingpong                                                                *)

\* How far both processes are, what is in the pipe and what they have got.
Phases == {<<"pp_pipe", "none",    <<>>,       "nothing", "nothing">>,
           <<"pp_fork", "none",    <<>>,       "nothing", "nothing">>,
           <<"child",   "none",    <<>>,       "nothing", "nothing">>,
           <<"ping",    "child",   <<>>,       "nothing", "nothing">>,
           <<"pp_wait", "child",   <<"ping">>, "nothing", "nothing">>,
           <<"pp_wait", "pong",    <<>>,       "nothing", "ping">>,
           <<"pp_wait", "pp_exit", <<"pong">>, "nothing", "ping">>,
           <<"pp_wait", "gone",    <<"pong">>, "nothing", "ping">>,
           <<"parent",  "gone",    <<"pong">>, "nothing", "ping">>,
           <<"pp_exit", "gone",    <<>>,       "pong",    "ping">>,
           <<"gone",    "gone",    <<>>,       "pong",    "ping">>}
PingPongInv == prog = "pingpong" =>
  /\ pc \in [Proc -> PingPongAt] /\ \A q \in Proc \ {0, 1} : pc[q] = "none"
  /\ DOMAIN buf = Proc /\ DOMAIN got = Proc /\ DOMAIN kids = Proc /\ DOMAIN fds = Proc
  /\ <<pc[0], pc[1], buf[0], got[0], got[1]>> \in Phases
  /\ pc[0] \notin {"pp_pipe", "gone"} => R(0) \in fds[0]
  /\ pc[1] # "none" => kids[0]

LEMMA OneMessage == ASSUME NEW m PROVE Head(<<m>>) = m /\ Tail(<<m>>) = <<>>
<1>1. Tail(<<m>>) \in Seq({m}) /\ Len(Tail(<<m>>)) = 0
  OBVIOUS
<1> QED BY <1>1

LEMMA PingPongStart == Init => PingPongInv
<1> SUFFICES ASSUME Init, prog = "pingpong" PROVE PingPongInv
  BY DEF PingPongInv
<1>1. Start[prog] = <<"pp_pipe">> /\ Len(Start[prog]) = 1 /\ Start[prog][1] = "pp_pipe"
  BY StartDef
<1>2. pc = [q \in Proc |-> IF q < 1 THEN Start[prog][q + 1] ELSE "none"]
  BY <1>1 DEF Init
<1>3. /\ pc \in [Proc -> PingPongAt] /\ pc[0] = "pp_pipe" /\ pc[1] = "none"
      /\ \A q \in Proc \ {0, 1} : pc[q] = "none"
  <2>1. \A q \in Proc : pc[q] = IF q = 0 THEN "pp_pipe" ELSE "none"
    BY <1>1, <1>2, ProcFacts
  <2> QED BY <1>2, <2>1, ProcFacts DEF PingPongAt
<1>4. /\ DOMAIN buf = Proc /\ DOMAIN got = Proc /\ DOMAIN kids = Proc /\ DOMAIN fds = Proc
      /\ buf[0] = <<>> /\ got[0] = "nothing" /\ got[1] = "nothing"
  BY ProcFacts DEF Init, PingPongInit
<1> QED BY <1>3, <1>4 DEF PingPongInv, Phases

LEMMA PingPongInductive == PingPongInv /\ [Next]_vars => PingPongInv'
<1> SUFFICES ASSUME PingPongInv, [Next]_vars PROVE PingPongInv'
  OBVIOUS
<1>1. CASE UNCHANGED vars
  BY <1>1 DEF vars, kernel, PingPongInv
<1>2. ASSUME NEW q \in Proc, Step(q), prog' = "pingpong" PROVE PingPongInv'
  <2>1. prog = "pingpong" /\ pc[q] \in PingPongAt /\ PingPongStep(q)
    <3>1. prog = "pingpong"
      BY <1>2 DEF Step
    <3> QED BY <1>2, <3>1, PingPongOnly DEF PingPongInv
  <2>2. q \in {0, 1} /\ q \in Proc
    BY <2>1 DEF PingPongInv, PingPongStep, PPipe, PFork, Ping, PWait, PWaits, Receive, PExit
  <2>3. /\ pc \in [Proc -> PingPongAt] /\ \A r \in Proc \ {0, 1} : pc[r] = "none"
        /\ DOMAIN buf = Proc /\ DOMAIN got = Proc /\ DOMAIN kids = Proc /\ DOMAIN fds = Proc
        /\ <<pc[0], pc[1], buf[0], got[0], got[1]>> \in Phases
        /\ pc[0] \notin {"pp_pipe", "gone"} => R(0) \in fds[0]
        /\ pc[1] # "none" => kids[0]
    BY <2>1 DEF PingPongInv
  <2>4. CASE PPipe(q)
    BY <2>2, <2>3, <2>4, ProcFacts DEF PPipe, pipe, Goto, Phases, PingPongInv, PingPongAt
  <2>5. CASE PFork(q)
    BY <2>2, <2>3, <2>5, ProcFacts DEF PFork, fork, Goto, Phases, PingPongInv, PingPongAt
  <2>6. CASE Ping(q)
    <3>1. Open(R(0))
      BY <2>2, <2>3, <2>6, ProcFacts DEF Ping, Phases, Open
    <3>2. buf[0] = <<>> /\ buf' = [buf EXCEPT ![0] = Append(@, pc[q])]
      BY <2>2, <2>3, <2>6, <3>1, ProcFacts DEF Ping, Phases, write
    <3>3. buf'[0] = <<pc[q]>> /\ DOMAIN buf' = Proc
      BY <2>3, <3>2, ProcFacts
    <3> QED BY <2>2, <2>3, <2>6, <3>3, ProcFacts DEF Ping, Goto, Phases, PingPongInv, PingPongAt
  <2>7. CASE PWait(q)
    BY <2>2, <2>3, <2>7, ProcFacts DEF PWait, PWaits, CanWait, Goto, Phases, PingPongInv, PingPongAt
  <2>8. CASE Receive(q)
    <3>1. PICK m \in {"ping", "pong"} : buf[0] = <<m>>
      BY <2>2, <2>3, <2>8 DEF Receive, CanRead, Phases
    <3>2. Head(buf[0]) = m /\ Tail(buf[0]) = <<>>
      <4>1. Head(<<m>>) = m /\ Tail(<<m>>) = <<>>
        BY OneMessage
      <4> QED BY <3>1, <4>1
    <3>3. buf'[0] = <<>> /\ DOMAIN buf' = Proc
      BY <2>3, <2>8, <3>2, ProcFacts DEF Receive, Take
    <3> QED BY <2>2, <2>3, <2>8, <3>1, <3>2, <3>3, ProcFacts
            DEF Receive, Goto, Phases, PingPongInv, PingPongAt
  <2>9. CASE PExit(q)
    BY <2>2, <2>3, <2>9, ProcFacts DEF PExit, exit, Phases, PingPongInv, PingPongAt
  <2> QED BY <2>1, <2>4, <2>5, <2>6, <2>7, <2>8, <2>9 DEF PingPongStep
<1> QED BY <1>1, <1>2 DEF Next, PingPongInv

\* With or without a child, no process of pingpong reads its own message.
THEOREM MessagesCross == Spec => []GotOther
<1>1. PingPongInv => GotOther
  BY DEF PingPongInv, GotOther, Phases
<1> QED BY <1>1, PingPongStart, PingPongInductive, PTL DEF Spec

----------------------------------------------------------------------------
(* find and xargs                                                          *)

Together == prog \in {"find", "xargs"}

Line    == [n : {0, 1}, words : Seq(Words)]
Call    == [dir : DOMAIN Dirs, at : Nat]
Running == 2 \in Proc /\ pc[2] \in {"exec", "command"}

\* Where the processes are, and the ends of the pipe that they still have.
Shape ==
  /\ DOMAIN pc = Proc /\ DOMAIN fds = Proc /\ DOMAIN buf = Proc /\ DOMAIN kids = Proc
  /\ pc[0] \in FindAt /\ pc[1] \in XargsAt /\ (2 \in Proc => pc[2] \in CommandAt)
  /\ \A q \in Proc \ {0, 1, 2} : pc[q] = "none"
  /\ prog = "xargs" => pc[0] = "gone"
  /\ prog = "find" /\ pc[0] # "gone" => W(0) \in fds[0]
  /\ pc[1] # "gone" => R(0) \in fds[1]
  /\ pc[1] = "xwait" => 2 \in Proc /\ kids[1] /\ pc[2] # "none"
  /\ Running => pc[1] = "xwait"
  /\ buf[0] \in Seq(Line) /\ out \in Seq(Words)
  /\ stack \in Seq(Call)
  /\ pc[0] \in {"entry", "print"} => stack # <<>>
ShapeInv == Together => Shape

\* A line that has been read, whose command has not run yet.
Pending == pc[1] = "xfork" \/ (2 \in Proc /\ pc[2] = "exec")
Taken   == Len(ran) + (IF Pending THEN 1 ELSE 0)

\* The arguments of the command for the words of a line, and that they are in
\* the vector.
All(ws)   == Base \o ws
Clip(ws)  == SubSeq(All(ws), 1, Smaller(MAXARG - 1, Len(All(ws))))
Ready(ws) == LET n == Filled(Len(Base), ws)
             IN  argv[n] = NULL /\ \A i \in 0..(n - 1) : argv[i] = All(ws)[i + 1]

\* There is no more to read, or an empty line.
Ended == \/ Len(ran) = Len(Input) /\ pc[0] = "gone"
         \/ Len(ran) + 1 \in DOMAIN Input /\ Input[Len(ran) + 1].n = 0

BaseIn == argv \in [0..(MAXARG - 1) -> Seq(Nat)] /\ \A i \in 0..(Len(Base) - 1) : argv[i] = Base[i + 1]
XInv ==
  /\ ran \in Seq(Seq(Words)) /\ BaseIn
  /\ \A i \in DOMAIN ran : i \in DOMAIN Input /\ ran[i] = Clip(Input[i].words)
  /\ pc[1] = "xargs" => argc = Len(Base)
  /\ failed => pc[1] \in {"xexit", "gone"}
  /\ pc[1] \in {"xexit", "gone"} => failed \/ Ended
  /\ pc[1] \notin {"xexit", "gone"} =>
       Taken <= Len(Input) /\ buf[0] = SubSeq(Input, Taken + 1, Len(Input))
  /\ Pending => Taken \in DOMAIN Input /\ Ready(Input[Taken].words)
LinesInv == Together => XInv

\* A path comes before another in the order of the directories, with all that
\* is below it; and it is or is below the other.
Left(s, c)  == \E k \in DOMAIN c : /\ k \in DOMAIN s /\ s[k] < c[k]
                                   /\ \A j \in 1..(k - 1) : s[j] = c[j]
Below(s, c) == Len(c) <= Len(s) /\ \A j \in DOMAIN c : s[j] = c[j]
Past(s, c)  == Left(s, c) \/ Below(s, c)

Goals == {s \in Places : At(s) = "file" /\ Fits(s)}

Chain ==
  /\ \A k \in DOMAIN stack : stack[k].at <= Len(Dirs[stack[k].dir])
  /\ stack # <<>> => stack[1].dir = "root"
  /\ \A k \in 1..(Len(stack) - 1) :
       stack[k].at >= 1 /\ stack[k + 1].dir = Dirs[stack[k].dir][stack[k].at]
Outs ==
  /\ \A i \in DOMAIN out : At(out[i]) \in {"file", "full"} /\ \A k \in DOMAIN out[i] : out[i][k] >= 1
  /\ \A i, j \in DOMAIN out : i < j => Before(out[i], out[j])
FInv ==
  /\ Chain /\ arg \in Args /\ Outs
  /\ stack # <<>> => Len(stack) <= NFree /\ arg.len + Len(stack) - 1 <= PathMax
  /\ pc[0] = "find" => out = <<>> /\ stack = <<>>
  /\ pc[0] = "print" => Top.at >= 1 /\ Dirs[Top.dir][Top.at] \in {"file", "full"}
  /\ pc[0] = "entry" => /\ \A i \in DOMAIN out : Past(out[i], Path)
                        /\ \A s \in Goals : Past(s, Path) => Printed(s)
  /\ pc[0] = "print" => /\ \A i \in DOMAIN out : Left(out[i], Path)
                        /\ \A s \in Goals : Left(s, Path) => Printed(s)
  /\ pc[0] \in {"find_exit", "gone"} /\ arg.is = "dir" /\ stack = <<>> => \A s \in Goals : Printed(s)
FoundInv == prog = "find" => FInv

LEMMA FXConsts ==
  /\ NFree \in Nat /\ Depth \in Nat \ {0} /\ MAXPATH \in Nat /\ PathMax \in Nat /\ MAXARG \in Nat
  /\ Base \in Seq(Words) /\ Len(Base) \in Nat /\ Len(Base) > 0 /\ Len(Base) < MAXARG - 1
  /\ Lines \in Seq(Line) /\ "root" \in DOMAIN Dirs
  /\ \A d \in DOMAIN Dirs : Dirs[d] \in Seq(Kinds \cup DOMAIN Dirs)
  /\ \A k \in Kinds : k \notin DOMAIN Dirs
  BY FindXargsAssumption DEF Line

LEMMA SeqFacts ==
  ASSUME NEW S, NEW s \in Seq(S)
  PROVE  /\ Len(s) \in Nat /\ DOMAIN s = 1..Len(s) /\ \A k \in 1..Len(s) : s[k] \in S
         /\ s # <<>> => Len(s) \in Nat \ {0} /\ Len(s) \in 1..Len(s)
  OBVIOUS

LEMMA SeqPut ==
  ASSUME NEW S, NEW s \in Seq(S), NEW k \in 1..Len(s), NEW x \in S
  PROVE  /\ [s EXCEPT ![k] = x] \in Seq(S) /\ Len([s EXCEPT ![k] = x]) = Len(s)
         /\ \A j \in 1..Len(s) : [s EXCEPT ![k] = x][j] = IF j = k THEN x ELSE s[j]
  OBVIOUS

LEMMA SeqFront ==
  ASSUME NEW S, NEW s \in Seq(S), s # <<>>
  PROVE  LET f == SubSeq(s, 1, Len(s) - 1)
         IN  f \in Seq(S) /\ Len(f) = Len(s) - 1 /\ \A j \in 1..(Len(s) - 1) : f[j] = s[j]
<1>1. Len(s) \in Nat \ {0} /\ \A j \in 1..(Len(s) - 1) : s[j] \in S
  BY SeqFacts
<1>2. PICK m \in Nat : m = Len(s) - 1
  <2>1. Len(s) \in Nat \ {0}
    BY <1>1
  <2> QED BY <2>1
<1> DEFINE f == [j \in 1..m |-> s[j]]
<1>3. SubSeq(s, 1, Len(s) - 1) = f
  BY <1>1, <1>2
<1>4. f \in [1..m -> S] /\ \A j \in 1..m : f[j] = s[j]
  BY <1>1, <1>2
<1> HIDE DEF f
<1>5. f \in Seq(S) /\ Len(f) = m
  BY <1>4
<1> QED BY <1>2, <1>3, <1>4, <1>5

LEMMA PathFacts ==
  ASSUME stack \in Seq(Call)
  PROVE  /\ Path \in Seq(Nat) /\ Len(Path) = Len(stack) /\ DOMAIN Path = 1..Len(stack)
         /\ \A k \in 1..Len(stack) : Path[k] = stack[k].at
         /\ stack # <<>> => Path \in Words /\ Len(stack) \in Nat \ {0}
<1>1. \A k \in 1..Len(stack) : stack[k] \in Call
  BY SeqFacts
<1>2. \A k \in 1..Len(stack) : stack[k].at \in Nat
  BY <1>1 DEF Call
<1>3. Len(stack) \in Nat
  OBVIOUS
<1>4. Path \in [1..Len(stack) -> Nat]
  BY <1>2 DEF Path
<1>5. Path \in Seq(Nat) /\ Len(Path) = Len(stack) /\ DOMAIN Path = 1..Len(stack)
  BY <1>3, <1>4
<1>6. stack # <<>> => Len(stack) # 0
  BY SeqFacts
<1>7. stack # <<>> => Path # <<>>
  BY <1>3, <1>5, <1>6
<1> QED BY <1>3, <1>4, <1>5, <1>6, <1>7 DEF Words, Path

LEMMA WordLine == ASSUME NEW w \in Words PROVE [n |-> 1, words |-> <<w>>] \in Line
<1>1. <<w>> \in Seq(Words)
  OBVIOUS
<1> QED BY <1>1 DEF Line

\* Which process can do what.
LEMMA WhoSteps ==
  ASSUME Shape, NEW q \in Proc, FindStep(q) \/ XargsStep(q)
  PROVE  \/ q = 0 /\ (FindMain(0) \/ Entry(0) \/ FindPrint(0) \/ Return(0) \/ Overflow(0) \/ FindExit(0))
         \/ q = 1 /\ (InputEnd(1) \/ ReadLine(1) \/ XFork(1) \/ XWait(1) \/ XExit(1))
         \/ q = 2 /\ (Exec(2) \/ Command(2))
<1>1. q \in {0, 1, 2}
  BY DEF Shape, FindStep, FindMain, Entry, FindPrint, Return, Overflow, FindExit,
         XargsStep, InputEnd, ReadLine, XFork, Exec, Command, XWait, XExit
<1>2. CASE q = 0
  BY <1>2 DEF Shape, FindAt, FindStep, XargsStep, InputEnd, ReadLine, XFork, Exec, Command, XWait, XExit
<1>3. CASE q = 1
  BY <1>3 DEF Shape, XargsAt, FindStep, FindMain, Entry, FindPrint, Return, Overflow, FindExit, XargsStep, Exec, Command
<1>4. CASE q = 2
  BY <1>4 DEF Shape, CommandAt, FindStep, FindMain, Entry, FindPrint, Return, Overflow, FindExit,
              XargsStep, InputEnd, ReadLine, XFork, XWait, XExit
<1> QED BY <1>1, <1>2, <1>3, <1>4

\* What a step does to the calls of find leaves them calls of find.
Advanced == [stack EXCEPT ![Len(stack)].at = @ + 1]

LEMMA CallsNext ==
  ASSUME stack \in Seq(Call), stack # <<>>
  PROVE  /\ Len(stack) \in Nat \ {0} /\ Top \in Call /\ Top.at + 1 \in Nat
         /\ Advanced \in Seq(Call) /\ Len(Advanced) = Len(stack)
         /\ \A k \in 1..Len(stack) :
              Advanced[k] = IF k = Len(stack) THEN [Top EXCEPT !.at = @ + 1] ELSE stack[k]
         /\ \A d \in DOMAIN Dirs : [dir |-> d, at |-> 0] \in Call
<1>1. Len(stack) \in Nat \ {0} /\ Len(stack) \in 1..Len(stack) /\ Top \in Call
  BY SeqFacts DEF Top
<1>2. [Top EXCEPT !.at = @ + 1] \in Call /\ Top.at + 1 \in Nat
  BY <1>1 DEF Call
<1>3. Advanced = [stack EXCEPT ![Len(stack)] = [Top EXCEPT !.at = @ + 1]]
  BY DEF Advanced, Top
<1> QED BY <1>1, <1>2, <1>3, SeqPut DEF Call

LEMMA ShapeStart == Init => ShapeInv
<1> SUFFICES ASSUME Init, Together PROVE Shape
  BY DEF ShapeInv
<1>1. Len(Start[prog]) = 2 /\ Start[prog][1] \in {"find", "gone"} /\ Start[prog][2] = "xargs"
      /\ (prog = "xargs" => Start[prog][1] = "gone")
  BY StartDef DEF Together
<1>2. \A q \in Proc : pc[q] = IF q = 0 THEN Start[prog][1] ELSE IF q = 1 THEN "xargs" ELSE "none"
  BY <1>1, ProcFacts DEF Init
<1>3. DOMAIN pc = Proc /\ DOMAIN fds = Proc /\ DOMAIN buf = Proc /\ DOMAIN kids = Proc
  BY DEF Init
<1>4. (prog = "find" => W(0) \in fds[0]) /\ R(0) \in fds[1]
  BY ProcFacts DEF Init, Together
<1>5. buf[0] \in Seq(Line) /\ out \in Seq(Words) /\ stack \in Seq(Call)
  <2>1. buf[0] = Lines \/ buf[0] = <<>>
    BY ProcFacts DEF Init
  <2>2. <<>> \in Seq(Line) /\ <<>> \in Seq(Words) /\ <<>> \in Seq(Call) /\ Lines \in Seq(Line)
    BY FXConsts
  <2>3. out = <<>> /\ stack = <<>>
    BY DEF Init, FindXargsInit
  <2> QED BY <2>1, <2>2, <2>3
<1> QED BY <1>1, <1>2, <1>3, <1>4, <1>5, ProcFacts DEF Shape, Running, FindAt, XargsAt, CommandAt, Together

LEMMA ShapeStep ==
  ASSUME Shape, NEW q \in Proc, FindStep(q) \/ XargsStep(q), UNCHANGED prog
  PROVE  Shape'
<1>1. /\ DOMAIN pc = Proc /\ DOMAIN fds = Proc /\ DOMAIN buf = Proc /\ DOMAIN kids = Proc
      /\ buf[0] \in Seq(Line) /\ out \in Seq(Words) /\ stack \in Seq(Call)
  BY DEF Shape
<1>2. CASE FindMain(0)
  <2>1. UNCHANGED <<fds, buf, kids, out>> /\ pc[0] = "find"
        /\ \/ pc' = [pc EXCEPT ![0] = "find_exit"] /\ stack' = stack
           \/ pc' = [pc EXCEPT ![0] = "entry"] /\ stack' = Append(stack, [dir |-> "root", at |-> 0])
    BY <1>2 DEF FindMain, Goto, Push
  <2>2. Append(stack, [dir |-> "root", at |-> 0]) \in Seq(Call) \ {<<>>}
    <3>1. [dir |-> "root", at |-> 0] \in Call
      BY FXConsts DEF Call
    <3> QED BY <1>1, <3>1
  <2>3. stack' \in Seq(Call) /\ pc'[0] \in {"find_exit", "entry"} /\ (pc'[0] = "entry" => stack' # <<>>)
    BY <1>1, <2>1, <2>2, ProcFacts
  <2>4. DOMAIN pc' = Proc /\ \A r \in Proc \ {0} : pc'[r] = pc[r]
    BY <1>1, <2>1
  <2> QED BY <1>1, <2>1, <2>3, <2>4, ProcFacts DEF Shape, Running, FindAt
<1>3. CASE Entry(0)
  <2>1. stack # <<>> /\ UNCHANGED <<fds, buf, kids, out>> /\ pc[0] = "entry"
    BY <1>3 DEF Entry
  <2>2. PICK d \in DOMAIN Dirs : /\ pc' = pc \/ pc' = [pc EXCEPT ![0] = "print"]
                                 /\ stack' = Advanced \/ stack' = Append(Advanced, [dir |-> d, at |-> 0])
    BY <1>3, FXConsts DEF Entry, Goto, Advanced
  <2>3. stack' \in Seq(Call) \ {<<>>}
    <3>1. Advanced \in Seq(Call) /\ Len(Advanced) \in Nat \ {0} /\ [dir |-> d, at |-> 0] \in Call
      BY <1>1, <2>1, CallsNext
    <3>2. Advanced # <<>>
      BY <3>1
    <3> QED BY <2>2, <3>1, <3>2
  <2>4. stack' \in Seq(Call) /\ pc'[0] \in {"entry", "print"} /\ stack' # <<>>
    BY <1>1, <2>1, <2>2, <2>3, ProcFacts
  <2>5. DOMAIN pc' = Proc /\ \A r \in Proc \ {0} : pc'[r] = pc[r]
    BY <1>1, <2>2
  <2> QED BY <1>1, <2>1, <2>4, <2>5, ProcFacts DEF Shape, Running, FindAt
<1>4. CASE FindPrint(0)
  <2>1. UNCHANGED <<fds, kids, stack>> /\ pc[0] = "print" /\ pc' = [pc EXCEPT ![0] = "entry"]
    BY <1>4 DEF FindPrint, Goto, findVars
  <2>2. stack # <<>>
    BY <2>1 DEF Shape
  <2>3. Path \in Words /\ [n |-> 1, words |-> <<Path>>] \in Line
    BY <1>1, <2>2, PathFacts, WordLine
  <2>4. out' \in Seq(Words)
    BY <1>1, <1>4, <2>3 DEF FindPrint
  <2>5. DOMAIN buf' = Proc /\ buf'[0] \in Seq(Line)
    BY <1>1, <1>4, <2>3, ProcFacts DEF FindPrint, write
  <2> QED BY <1>1, <2>1, <2>2, <2>4, <2>5, ProcFacts DEF Shape, Running, FindAt
<1>5. CASE Return(0)
  <2>1. /\ stack # <<>> /\ UNCHANGED <<fds, buf, kids, out>> /\ pc[0] = "entry"
        /\ stack' = SubSeq(stack, 1, Len(stack) - 1)
        /\ pc' = [pc EXCEPT ![0] = IF Len(stack) = 1 THEN "find_exit" ELSE "entry"]
    BY <1>5 DEF Return, Goto
  <2>2. stack' \in Seq(Call) /\ Len(stack') = Len(stack) - 1 /\ Len(stack) \in Nat \ {0}
    BY <1>1, <2>1, SeqFront, SeqFacts
  <2>3. Len(stack) # 1 => stack' # <<>>
    BY <2>2
  <2> QED BY <1>1, <2>1, <2>2, <2>3, ProcFacts DEF Shape, Running, FindAt
<1>6. CASE Overflow(0) \/ FindExit(0)
  BY <1>1, <1>6, ProcFacts DEF Overflow, Goto, FindExit, exit, findVars, Shape, Running, FindAt
<1>7. CASE InputEnd(1)
  BY <1>1, <1>7, ProcFacts DEF InputEnd, Goto, findVars, Shape, Running, XargsAt
<1>8. CASE ReadLine(1)
  <2>1. Tail(buf[0]) \in Seq(Line)
    BY <1>1, <1>8 DEF ReadLine, CanRead
  <2>2. DOMAIN buf' = Proc /\ buf'[0] = Tail(buf[0])
    BY <1>1, <1>8, ProcFacts DEF ReadLine, Take
  <2> QED BY <1>1, <1>8, <2>1, <2>2, ProcFacts DEF ReadLine, Goto, findVars, Shape, Running, XargsAt
<1>9. CASE XFork(1)
  <2>1. 1 < MaxProc => 2 \in Proc
    BY ProcFacts DEF Proc
  <2> QED BY <1>1, <1>9, <2>1, ProcFacts DEF XFork, fork, Goto, findVars, Shape, Running, XargsAt, CommandAt
<1>10. CASE XWait(1)
  BY <1>1, <1>10, ProcFacts DEF XWait, CanWait, Goto, findVars, Shape, Running, XargsAt
<1>11. CASE XExit(1)
  BY <1>1, <1>11, ProcFacts DEF XExit, exit, findVars, Shape, Running, XargsAt
<1>12. CASE q = 2 /\ Exec(2)
  BY <1>1, <1>12, ProcFacts DEF Exec, Goto, findVars, Shape, Running, CommandAt
<1>13. CASE q = 2 /\ Command(2)
  BY <1>1, <1>13, ProcFacts DEF Command, exit, findVars, Shape, Running, CommandAt
<1> QED BY WhoSteps, <1>2, <1>3, <1>4, <1>5, <1>6, <1>7, <1>8, <1>9, <1>10, <1>11, <1>12, <1>13

LEMMA ShapeInductive == ShapeInv /\ [Next]_vars => ShapeInv'
<1> SUFFICES ASSUME ShapeInv, [Next]_vars, Together' PROVE Shape'
  BY DEF ShapeInv
<1>1. CASE UNCHANGED vars
  BY <1>1 DEF vars, kernel, findVars, ShapeInv, Together, Shape, Running
<1>2. ASSUME NEW q \in Proc, Step(q) PROVE Shape'
  <2>1. Shape /\ UNCHANGED prog
    BY <1>2 DEF Step, ShapeInv, Together
  <2>2. FindStep(q) \/ XargsStep(q)
    <3>1. pc[q] \in FindAt \cup XargsAt \cup CommandAt
      BY <2>1 DEF Shape, CommandAt
    <3> QED BY <1>2, <3>1, FindXargsOnly
  <2> QED BY <2>1, <2>2, ShapeStep
<1> QED BY <1>1, <1>2 DEF Next

\* The lines of the input, and how find adds one.
LEMMA InputFacts ==
  ASSUME Shape
  PROVE  Input \in Seq(Line) /\ (prog = "find" => Len(Input) = Len(out))
<1>1. CASE prog = "find"
  <2>1. Len(out) \in Nat /\ DOMAIN out = 1..Len(out) /\ \A i \in 1..Len(out) : out[i] \in Words
    BY SeqFacts DEF Shape
  <2>2. Input = [i \in 1..Len(out) |-> [n |-> 1, words |-> <<out[i]>>]]
    BY <1>1, <2>1 DEF Input
  <2>3. Input \in [1..Len(out) -> Line]
    BY <2>1, <2>2, WordLine
  <2> QED BY <2>1, <2>3
<1>2. CASE prog # "find"
  BY <1>2, FXConsts DEF Input
<1> QED BY <1>1, <1>2

LEMMA InputSame == ASSUME UNCHANGED <<out, prog>> PROVE Input' = Input
  BY DEF Input

LEMMA InputGrows ==
  ASSUME Shape, prog = "find", UNCHANGED prog, NEW w \in Words, out' = Append(out, w)
  PROVE  Input' = Append(Input, [n |-> 1, words |-> <<w>>])
<1> DEFINE ln(x) == [n |-> 1, words |-> <<x>>]
           n == Len(out)
<1>1. n \in Nat /\ DOMAIN out = 1..n /\ out \in Seq(Words)
  BY SeqFacts DEF Shape
<1>2. out' \in Seq(Words) /\ DOMAIN out' = 1..(n + 1) /\ out'[n + 1] = w /\ \A i \in 1..n : out'[i] = out[i]
  BY <1>1
<1>3. Input = [i \in 1..n |-> ln(out[i])] /\ Input' = [i \in 1..(n + 1) |-> ln(out'[i])]
  BY <1>1, <1>2 DEF Input
<1> HIDE DEF n
<1>4. Input \in Seq(Line) /\ Len(Input) = n
  BY InputFacts DEF n
<1>5. Append(Input, ln(w)) = [i \in 1..(n + 1) |-> IF i = n + 1 THEN ln(w) ELSE Input[i]]
  BY <1>1, <1>4
<1>6. \A i \in 1..(n + 1) : ln(out'[i]) = IF i = n + 1 THEN ln(w) ELSE Input[i]
  BY <1>1, <1>2, <1>3
<1> HIDE DEF ln
<1>7. Input' = Append(Input, ln(w))
  BY <1>3, <1>5, <1>6
<1> QED BY <1>7 DEF ln

LEMMA TailIs ==
  ASSUME NEW S, NEW r \in Seq(S), r # <<>>
  PROVE  Tail(r) = [i \in 1..(Len(r) - 1) |-> r[i + 1]]
<1> DEFINE t == Tail(r)
<1>1. Len(r) \in Nat \ {0}
  BY SeqFacts
<1>2. t \in Seq(S) /\ Len(t) = Len(r) - 1
  BY <1>1
<1>3. \A i \in 1..(Len(r) - 1) : t[i] = r[i + 1]
  BY <1>1
<1> HIDE DEF t
<1>4. DOMAIN t = 1..(Len(r) - 1) /\ t = [i \in DOMAIN t |-> t[i]]
  BY <1>2
<1>5. t = [i \in 1..(Len(r) - 1) |-> r[i + 1]]
  BY <1>3, <1>4
<1> QED BY <1>5 DEF t

LEMMA AppendIs ==
  ASSUME NEW S, NEW r \in Seq(S), NEW x \in S
  PROVE  Append(r, x) = [i \in 1..(Len(r) + 1) |-> IF i = Len(r) + 1 THEN x ELSE r[i]]
<1> DEFINE t == Append(r, x)
<1>1. Len(r) \in Nat
  BY SeqFacts
<1>2. t \in Seq(S) /\ Len(t) = Len(r) + 1
  OBVIOUS
<1>3. \A i \in 1..(Len(r) + 1) : t[i] = IF i = Len(r) + 1 THEN x ELSE r[i]
  OBVIOUS
<1> HIDE DEF t
<1>4. DOMAIN t = 1..(Len(r) + 1) /\ t = [i \in DOMAIN t |-> t[i]]
  BY <1>2
<1>5. t = [i \in 1..(Len(r) + 1) |-> IF i = Len(r) + 1 THEN x ELSE r[i]]
  BY <1>3, <1>4
<1> QED BY <1>5 DEF t

\* The rest of a sequence, when it is read from and when it grows.
LEMMA RestRead ==
  ASSUME NEW S, NEW s \in Seq(S), NEW k \in 0..Len(s), SubSeq(s, k + 1, Len(s)) # <<>>
  PROVE  /\ k + 1 \in 1..Len(s) /\ Head(SubSeq(s, k + 1, Len(s))) = s[k + 1]
         /\ Tail(SubSeq(s, k + 1, Len(s))) = SubSeq(s, k + 2, Len(s))
<1> DEFINE r == SubSeq(s, k + 1, Len(s))
           n == Len(s)
<1>1. n \in Nat /\ \A i \in 1..n : s[i] \in S
  BY SeqFacts
<1>2. r = [i \in 1..(n - k) |-> s[i + k]]
  BY <1>1
<1> HIDE DEF n, r
<1>3. n - k \in Nat /\ r \in [1..(n - k) -> S]
  BY <1>1, <1>2 DEF n
<1>4. r \in Seq(S) /\ Len(r) = n - k
  BY <1>3
<1>5. n - k \in Nat \ {0}
  BY <1>3, <1>4 DEF r, n
<1>6. Head(r) = s[k + 1]
  BY <1>2, <1>4, <1>5
<1>7. Tail(r) = [i \in 1..(n - k - 1) |-> r[i + 1]]
  <2>1. r # <<>>
    BY <1>4, <1>5
  <2> QED BY <1>4, <2>1, TailIs
<1>8. \A i \in 1..(n - k - 1) : r[i + 1] = s[i + (k + 1)]
  <2> TAKE i \in 1..(n - k - 1)
  <2>1. i + 1 \in 1..(n - k) /\ (i + 1) + k = i + (k + 1)
    BY <1>1, <1>5
  <2> QED BY <1>2, <2>1
<1>9. SubSeq(s, k + 2, n) = [i \in 1..(n - k - 1) |-> s[i + (k + 1)]]
  <2>1. k + 2 \in Nat /\ n - (k + 2) + 1 = n - k - 1
    BY <1>1
  <2>2. \A i \in 1..(n - k - 1) : i + (k + 2) - 1 = i + (k + 1)
    BY <1>1
  <2> QED BY <1>1, <2>1, <2>2 DEF n
<1>10. Tail(r) = SubSeq(s, k + 2, n)
  BY <1>7, <1>8, <1>9
<1> QED BY <1>1, <1>5, <1>6, <1>10 DEF n, r

LEMMA RestGrows ==
  ASSUME NEW S, NEW s \in Seq(S), NEW k \in 0..Len(s), NEW x \in S
  PROVE  /\ Len(Append(s, x)) = Len(s) + 1
         /\ SubSeq(Append(s, x), k + 1, Len(s) + 1) = Append(SubSeq(s, k + 1, Len(s)), x)
<1> DEFINE n == Len(s)
           t == Append(s, x)
           r == SubSeq(s, k + 1, n)
<1>1. n \in Nat /\ \A i \in 1..n : s[i] \in S
  BY SeqFacts
<1>2. t \in Seq(S) /\ Len(t) = n + 1 /\ t[n + 1] = x /\ \A i \in 1..n : t[i] = s[i]
  BY <1>1
<1>3. r = [i \in 1..(n - k) |-> s[i + k]]
  BY <1>1
<1> HIDE DEF t
<1>4. SubSeq(t, k + 1, n + 1) = [i \in 1..(n - k + 1) |-> t[i + k]]
  <2>1. (n + 1) - (k + 1) + 1 = n - k + 1 /\ k + 1 \in Nat
    BY <1>1
  <2>2. \A i \in 1..(n - k + 1) : i + (k + 1) - 1 = i + k
    BY <1>1
  <2> HIDE DEF n
  <2> QED BY <1>1, <1>2, <2>1, <2>2
<1> HIDE DEF n, r
<1>5. n - k \in Nat /\ r \in [1..(n - k) -> S]
  BY <1>1, <1>3 DEF n
<1>6. r \in Seq(S) /\ Len(r) = n - k
  BY <1>5
<1>7. Append(r, x) = [i \in 1..(n - k + 1) |-> IF i = n - k + 1 THEN x ELSE r[i]]
  BY <1>6, AppendIs
<1>8. \A i \in 1..(n - k + 1) : t[i + k] = IF i = n - k + 1 THEN x ELSE r[i]
  <2> TAKE i \in 1..(n - k + 1)
  <2>1. CASE i = n - k + 1
    <3>1. i + k = n + 1
      BY <1>1, <2>1
    <3> QED BY <1>2, <2>1, <3>1
  <2>2. CASE i # n - k + 1
    <3>1. i \in 1..(n - k) /\ i + k \in 1..n
      BY <1>1, <1>5, <2>2
    <3> QED BY <1>2, <1>3, <2>2, <3>1
  <2> QED BY <2>1, <2>2
<1>9. SubSeq(t, k + 1, n + 1) = Append(r, x)
  BY <1>4, <1>7, <1>8
<1> QED BY <1>2, <1>9 DEF n, r, t

LEMMA WordFacts == NULL \in Seq(Nat) /\ \A w \in Words : w \in Seq(Nat) /\ w # NULL
  BY DEF Words, NULL

LEMMA AllFacts ==
  ASSUME NEW ws \in Seq(Words)
  PROVE  /\ All(ws) \in Seq(Words) /\ Len(All(ws)) = Len(Base) + Len(ws)
         /\ \A i \in 1..Len(Base) : All(ws)[i] = Base[i]
         /\ \A i \in (Len(Base) + 1)..(Len(Base) + Len(ws)) : All(ws)[i] = ws[i - Len(Base)]
         /\ \A i \in 1..Len(All(ws)) : All(ws)[i] \in Seq(Nat) /\ All(ws)[i] # NULL
<1>1. Base \in Seq(Words) /\ Len(Base) \in Nat /\ Len(ws) \in Nat
  BY FXConsts
<1>2. All(ws) \in Seq(Words) /\ Len(All(ws)) = Len(Base) + Len(ws)
  BY <1>1 DEF All
<1>3. \A i \in 1..(Len(Base) + Len(ws)) : All(ws)[i] = IF i <= Len(Base) THEN Base[i] ELSE ws[i - Len(Base)]
  BY <1>1 DEF All
<1>4. \A i \in 1..Len(All(ws)) : All(ws)[i] \in Words
  BY <1>2, SeqFacts
<1>5. \A i \in 1..Len(All(ws)) : All(ws)[i] \in Seq(Nat) /\ All(ws)[i] # NULL
  BY <1>4, WordFacts
<1>6. \A i \in 1..Len(Base) : i \in 1..(Len(Base) + Len(ws)) /\ i <= Len(Base)
  BY <1>1
<1>7. \A i \in (Len(Base) + 1)..(Len(Base) + Len(ws)) : i \in 1..(Len(Base) + Len(ws)) /\ ~(i <= Len(Base))
  BY <1>1
<1> QED BY <1>2, <1>3, <1>5, <1>6, <1>7

LEMMA FilledFacts ==
  ASSUME NEW ws \in Seq(Words)
  PROVE  LET n == Filled(Len(Base), ws)
         IN  /\ n \in Nat /\ Len(Base) <= n /\ n <= MAXARG - 1 /\ n <= Len(All(ws))
             /\ n = Smaller(MAXARG - 1, Len(All(ws)))
<1>1. Len(Base) \in Nat /\ Len(ws) \in Nat /\ Len(Base) < MAXARG - 1 /\ MAXARG \in Nat
  BY FXConsts
<1> QED BY <1>1, AllFacts DEF Filled, Smaller

\* parse_args leaves the words of the command where they are, puts those of the
\* line behind them, and ends the vector.
LEMMA ParseReady ==
  ASSUME BaseIn, argc = Len(Base), NEW ws \in Seq(Words), argv' = parse_args(argc, ws)
  PROVE  BaseIn' /\ Ready(ws)'
<1> DEFINE b == Len(Base)
           n == Filled(b, ws)
<1>1. b \in Nat /\ b > 0 /\ MAXARG \in Nat /\ DOMAIN argv = 0..(MAXARG - 1)
  BY FXConsts DEF BaseIn
<1>2. /\ n \in Nat /\ b <= n /\ n <= MAXARG - 1 /\ n <= Len(All(ws))
      /\ Len(All(ws)) = b + Len(ws) /\ Len(ws) \in Nat
  BY FilledFacts, AllFacts
<1>3. argv' = [i \in 0..(MAXARG - 1) |-> IF i = n THEN NULL
                 ELSE IF i >= b /\ i < n THEN ws[i - b + 1] ELSE argv[i]]
  BY <1>1 DEF parse_args
<1> HIDE DEF b, n
<1>4. n \in 0..(MAXARG - 1) /\ argv'[n] = NULL
  <2>1. n \in 0..(MAXARG - 1)
    BY <1>1, <1>2
  <2> QED BY <1>3, <2>1
<1>5. ASSUME NEW i \in 0..(n - 1) PROVE argv'[i] = All(ws)[i + 1]
  <2>1. i \in 0..(MAXARG - 1) /\ i # n /\ i < n /\ i + 1 \in 1..Len(All(ws))
    BY <1>1, <1>2
  <2>2. CASE i < b
    <3>1. argv'[i] = argv[i] /\ i \in 0..(b - 1) /\ i + 1 \in 1..b
      BY <1>1, <1>3, <2>1, <2>2
    <3> QED BY <3>1, AllFacts DEF BaseIn, b
  <2>3. CASE i >= b
    <3>1. argv'[i] = ws[i - b + 1] /\ i + 1 \in (b + 1)..(b + Len(ws)) /\ (i + 1) - b = i - b + 1
      BY <1>1, <1>2, <1>3, <2>1, <2>3
    <3> QED BY <3>1, AllFacts DEF b
  <2> QED BY <1>1, <2>2, <2>3
<1>6. argv' \in [0..(MAXARG - 1) -> Seq(Nat)]
  <2> SUFFICES ASSUME NEW i \in 0..(MAXARG - 1) PROVE argv'[i] \in Seq(Nat)
    BY <1>3
  <2>1. CASE i \in 0..(n - 1)
    <3>1. i + 1 \in 1..Len(All(ws))
      BY <1>1, <1>2, <2>1
    <3> QED BY <1>5, <2>1, <3>1, AllFacts
  <2>2. CASE i = n
    BY <1>4, <2>2, WordFacts
  <2>3. CASE i > n
    <3>1. argv'[i] = argv[i]
      BY <1>2, <1>3, <2>3
    <3> QED BY <3>1 DEF BaseIn
  <2> QED BY <1>2, <2>1, <2>2, <2>3
<1>7. \A i \in 0..(b - 1) : argv'[i] = Base[i + 1]
  <2> TAKE i \in 0..(b - 1)
  <2>1. i \in 0..(n - 1) /\ i + 1 \in 1..b
    BY <1>1, <1>2
  <2> QED BY <1>5, <2>1, AllFacts DEF b
<1> QED BY <1>4, <1>5, <1>6, <1>7 DEF BaseIn, Ready, b, n

\* So exec sees just the words of the line.
LEMMA VectorIs ==
  ASSUME NEW ws \in Seq(Words), Ready(ws)
  PROVE  Vector = Clip(ws) /\ Vector \in Seq(Words)
<1> DEFINE n == Filled(Len(Base), ws)
<1>1. /\ n \in Nat /\ n <= MAXARG - 1 /\ n <= Len(All(ws)) /\ n = Smaller(MAXARG - 1, Len(All(ws)))
      /\ MAXARG \in Nat /\ Len(All(ws)) \in Nat /\ All(ws) \in Seq(Words)
  BY FilledFacts, AllFacts, FXConsts
<1>2. argv[n] = NULL /\ \A i \in 0..(n - 1) : argv[i] = All(ws)[i + 1]
  BY DEF Ready
<1> HIDE DEF n
<1>3. \A i \in 0..(n - 1) : argv[i] # NULL
  <2> TAKE i \in 0..(n - 1)
  <2>1. i + 1 \in 1..Len(All(ws))
    BY <1>1
  <2> QED BY <1>2, <2>1, AllFacts
<1> DEFINE P(i) == /\ i = MAXARG \/ argv[i] = NULL
                   /\ \A j \in 0..(i - 1) : argv[j] # NULL
<1>4. n \in 0..MAXARG /\ P(n)
  BY <1>1, <1>2, <1>3
<1>5. \A i \in 0..MAXARG : P(i) => i = n
  <2> SUFFICES ASSUME NEW i \in 0..MAXARG, P(i), i # n PROVE FALSE
    OBVIOUS
  <2>1. CASE i < n
    <3>1. i \in 0..(n - 1) /\ i # MAXARG
      BY <1>1, <2>1
    <3> QED BY <1>3, <3>1
  <2>2. CASE i > n
    <3>1. n \in 0..(i - 1)
      BY <1>1, <2>2
    <3> QED BY <1>2, <3>1
  <2> QED BY <1>1, <2>1, <2>2
<1>6. (CHOOSE i \in 0..MAXARG : P(i)) = n
  <2> HIDE DEF P
  <2> QED BY <1>4, <1>5
<1>7. Vector = [k \in 1..n |-> argv[k - 1]]
  BY <1>6 DEF Vector
<1>8. \A k \in 1..n : argv[k - 1] = All(ws)[k] /\ All(ws)[k] \in Words
  <2> TAKE k \in 1..n
  <2>1. k - 1 \in 0..(n - 1) /\ (k - 1) + 1 = k /\ k \in 1..Len(All(ws))
    BY <1>1
  <2>2. argv[k - 1] = All(ws)[k]
    BY <1>2, <2>1
  <2> QED BY <1>1, <2>1, <2>2, SeqFacts
<1>9. SubSeq(All(ws), 1, n) = [k \in 1..n |-> All(ws)[k]]
  BY <1>1
<1>10. Vector = SubSeq(All(ws), 1, n)
  BY <1>7, <1>8, <1>9
<1>11. Vector \in [1..n -> Words]
  BY <1>7, <1>8
<1>12. Vector \in Seq(Words)
  BY <1>1, <1>11
<1> QED BY <1>1, <1>10, <1>12 DEF Clip

LEMMA LinesStart == Init => LinesInv
<1> SUFFICES ASSUME Init, Together PROVE XInv
  BY DEF LinesInv
<1>1. Shape
  BY ShapeStart DEF ShapeInv
<1>2. pc[1] = "xargs" /\ ~Pending /\ failed = FALSE /\ argc = Len(Base) /\ ran = <<>>
  <2>1. Len(Start[prog]) = 2 /\ Start[prog][2] = "xargs"
    BY StartDef DEF Together
  <2>2. pc[1] = "xargs" /\ (2 \in Proc => pc[2] = "none")
    BY <2>1, ProcFacts DEF Init
  <2> QED BY <2>2 DEF Init, FindXargsInit, Pending
<1>3. BaseIn
  <2>1. argv = [i \in 0..(MAXARG - 1) |-> IF i < Len(Base) THEN Base[i + 1] ELSE Junk]
    BY DEF Init, FindXargsInit
  <2>2. Junk \in Seq(Nat)
    BY DEF Junk
  <2>3. \A i \in 0..(MAXARG - 1) : i < Len(Base) => Base[i + 1] \in Seq(Nat)
    <3> TAKE i \in 0..(MAXARG - 1)
    <3> HAVE i < Len(Base)
    <3>1. i + 1 \in 1..Len(Base)
      BY FXConsts
    <3> QED BY <3>1, FXConsts, SeqFacts, WordFacts
  <2>4. \A i \in 0..(Len(Base) - 1) : i \in 0..(MAXARG - 1) /\ i < Len(Base)
    BY FXConsts
  <2> QED BY <2>1, <2>2, <2>3, <2>4 DEF BaseIn
<1>4. ran \in Seq(Seq(Words)) /\ Len(ran) = 0 /\ DOMAIN ran = {} /\ Taken = 0
  BY <1>2 DEF Taken
<1>5. buf[0] = Input
  <2>1. prog = "find" => Input = <<>>
    BY DEF Init, Input
  <2>2. prog = "xargs" => Input = Lines
    BY DEF Input
  <2> QED BY <2>1, <2>2, ProcFacts DEF Init, Together
<1>6. Input \in Seq(Line) /\ Len(Input) \in Nat /\ SubSeq(Input, 0 + 1, Len(Input)) = Input
  BY <1>1, InputFacts
<1> QED BY <1>2, <1>3, <1>4, <1>5, <1>6 DEF XInv

\* A step of find that prints nothing.
LEMMA LinesQuiet ==
  ASSUME Shape, XInv, UNCHANGED <<prog, out, buf, failed, ran, argv, argc>>,
         pc[0] # "gone", DOMAIN pc' = Proc, \A r \in Proc \ {0} : pc'[r] = pc[r]
  PROVE  XInv'
<1>1. Input' = Input
  BY InputSame
<1>2. pc'[1] = pc[1] /\ Pending' = Pending /\ Taken' = Taken /\ (Ended => Ended')
  BY <1>1, ProcFacts DEF Pending, Taken, Ended
<1>3. BaseIn' /\ \A ws : Ready(ws) => Ready(ws)'
  BY DEF XInv, BaseIn, Ready
<1> QED BY <1>1, <1>2, <1>3 DEF XInv

LEMMA LinesPrint ==
  ASSUME Shape, Together, XInv, FindPrint(0), UNCHANGED prog
  PROVE  XInv'
<1>1. pc[0] = "print" /\ stack # <<>> /\ prog = "find" /\ Together /\ stack \in Seq(Call)
      /\ UNCHANGED <<failed, ran, argv, argc, fds>>
      /\ out' = Append(out, Path) /\ pc' = [pc EXCEPT ![0] = "entry"]
      /\ DOMAIN pc = Proc
  BY DEF Shape, FindPrint, xargsVars, Goto, Together
<1> DEFINE ln == [n |-> 1, words |-> <<Path>>]
<1>2. Path \in Words /\ ln \in Line
  BY <1>1, PathFacts, WordLine
<1>3. Input \in Seq(Line) /\ Input' = Append(Input, ln)
  BY <1>1, <1>2, InputFacts, InputGrows
<1> HIDE DEF ln
<1>4. /\ Len(Input) \in Nat /\ DOMAIN Input = 1..Len(Input) /\ Len(Input') = Len(Input) + 1
      /\ DOMAIN Input' = 1..(Len(Input) + 1)
      /\ \A i \in 1..Len(Input) : Input'[i] = Input[i]
  BY <1>2, <1>3
<1>5. pc'[1] = pc[1] /\ Pending' = Pending /\ Taken' = Taken /\ (Ended => Ended')
  <2>1. pc'[1] = pc[1] /\ (2 \in Proc => pc'[2] = pc[2])
    BY <1>1, ProcFacts
  <2>2. Len(ran) + 1 \in DOMAIN Input => Len(ran) + 1 \in DOMAIN Input'
    BY <1>4
  <2> QED BY <1>1, <1>4, <2>1, <2>2 DEF Pending, Taken, Ended
<1>6. BaseIn' /\ \A ws : Ready(ws) => Ready(ws)'
  BY <1>1 DEF XInv, BaseIn, Ready
<1>7. ASSUME pc[1] \notin {"xexit", "gone"}
      PROVE  Taken <= Len(Input') /\ buf'[0] = SubSeq(Input', Taken + 1, Len(Input'))
  <2>1. Open(R(0))
    BY <1>7, ProcFacts DEF Shape, Open
  <2>2. buf'[0] = Append(buf[0], ln)
    BY <2>1, ProcFacts DEF FindPrint, write, Shape, ln
  <2>3. Taken \in Nat /\ Taken <= Len(Input) /\ buf[0] = SubSeq(Input, Taken + 1, Len(Input))
    <3>1. Len(ran) \in Nat
      BY DEF XInv
    <3>2. Taken \in Nat
      BY <3>1 DEF Taken
    <3> QED BY <1>7, <3>2 DEF XInv
  <2>4. Taken \in 0..Len(Input)
    BY <1>4, <2>3
  <2>5. SubSeq(Append(Input, ln), Taken + 1, Len(Input) + 1)
          = Append(SubSeq(Input, Taken + 1, Len(Input)), ln)
    BY <1>2, <1>3, <2>4, RestGrows
  <2>6. Taken <= Len(Input')
    BY <1>4, <2>3
  <2>7. buf'[0] = SubSeq(Input', Taken + 1, Len(Input) + 1)
    BY <1>3, <2>2, <2>3, <2>5
  <2> QED BY <1>4, <2>6, <2>7
<1>8. \A i \in DOMAIN ran : i \in DOMAIN Input' /\ ran[i] = Clip(Input'[i].words)
  BY <1>4 DEF XInv
<1>9. Pending => Taken \in DOMAIN Input' /\ Ready(Input'[Taken].words)
  BY <1>4 DEF XInv
<1> QED BY <1>1, <1>5, <1>6, <1>7, <1>8, <1>9 DEF XInv

LEMMA LinesEnd ==
  ASSUME Shape, Together, XInv, InputEnd(1), UNCHANGED prog
  PROVE  XInv'
<1>1. /\ pc[1] = "xargs" /\ pc' = [pc EXCEPT ![1] = "xexit"] /\ DOMAIN pc = Proc
      /\ UNCHANGED <<buf, failed, out, ran, argv, argc>>
      /\ AtEOF(0) \/ (CanRead(0) /\ Head(buf[0]).n = 0)
  BY DEF InputEnd, Goto, xargsVars, Shape
<1>2. Input' = Input /\ pc'[1] = "xexit" /\ pc'[0] = pc[0] /\ ~Pending /\ ~Pending'
  BY <1>1, InputSame, ProcFacts DEF Shape, Running, Pending
<1>3. /\ Taken = Len(ran) /\ Len(ran) \in Nat
      /\ Input \in Seq(Line) /\ Len(Input) \in Nat /\ DOMAIN Input = 1..Len(Input)
  BY <1>2, InputFacts DEF Taken, XInv
<1>4. Len(ran) \in 0..Len(Input) /\ buf[0] = SubSeq(Input, Len(ran) + 1, Len(Input))
  BY <1>1, <1>3 DEF XInv
<1>5. Ended
  <2>1. CASE AtEOF(0)
    <3>1. pc[0] = "gone"
      BY <2>1, ProcFacts DEF AtEOF, Open, Shape, Together
    <3>2. Len(SubSeq(Input, Len(ran) + 1, Len(Input))) = Len(Input) - Len(ran)
      BY <1>3, <1>4
    <3>3. Len(ran) = Len(Input)
      BY <1>3, <1>4, <2>1, <3>2 DEF AtEOF
    <3> QED BY <3>1, <3>3 DEF Ended
  <2>2. CASE CanRead(0) /\ Head(buf[0]).n = 0
    <3>1. Len(ran) + 1 \in 1..Len(Input) /\ Head(buf[0]) = Input[Len(ran) + 1]
      BY <1>3, <1>4, <2>2, RestRead DEF CanRead
    <3> QED BY <1>3, <2>2, <3>1 DEF Ended
  <2> QED BY <1>1, <2>1, <2>2
<1>6. Ended' /\ BaseIn'
  BY <1>1, <1>2, <1>5 DEF Ended, XInv, BaseIn
<1> QED BY <1>1, <1>2, <1>6 DEF XInv

LEMMA LinesRead ==
  ASSUME Shape, Together, XInv, ReadLine(1), UNCHANGED prog
  PROVE  XInv'
<1>1. /\ pc[1] = "xargs" /\ pc' = [pc EXCEPT ![1] = "xfork"] /\ DOMAIN pc = Proc /\ DOMAIN buf = Proc
      /\ UNCHANGED <<failed, out, ran>> /\ buf[0] # <<>> /\ buf' = [buf EXCEPT ![0] = Tail(@)]
      /\ argv' = parse_args(argc, Head(buf[0]).words)
  BY DEF ReadLine, Goto, Shape, CanRead, Take
<1>2. Input' = Input /\ pc'[1] = "xfork" /\ ~Pending /\ Pending' /\ buf'[0] = Tail(buf[0])
  BY <1>1, InputSame, ProcFacts DEF Shape, Running, Pending
<1>3. Taken = Len(ran) /\ Len(ran) \in Nat /\ Input \in Seq(Line) /\ Len(Input) \in Nat
      /\ DOMAIN Input = 1..Len(Input) /\ Taken' = Len(ran) + 1
  BY <1>1, <1>2, InputFacts DEF Taken, XInv
<1>4. Len(ran) \in 0..Len(Input) /\ buf[0] = SubSeq(Input, Len(ran) + 1, Len(Input))
  BY <1>1, <1>3 DEF XInv
<1>5. /\ Len(ran) + 1 \in 1..Len(Input) /\ Head(buf[0]) = Input[Len(ran) + 1]
      /\ Tail(buf[0]) = SubSeq(Input, Len(ran) + 2, Len(Input))
  BY <1>1, <1>3, <1>4, RestRead
<1>6. Head(buf[0]).words \in Seq(Words)
  <2>1. Input[Len(ran) + 1] \in Line
    BY <1>3, <1>5
  <2> QED BY <1>5, <2>1 DEF Line
<1>7. BaseIn' /\ Ready(Input[Len(ran) + 1].words)'
  <2>1. PICK ws \in Seq(Words) : ws = Head(buf[0]).words
    BY <1>6
  <2>2. BaseIn /\ argc = Len(Base)
    BY <1>1 DEF XInv
  <2>3. BaseIn' /\ Ready(ws)'
    BY <1>1, <2>1, <2>2, ParseReady
  <2>4. (Input[Len(ran) + 1].words)' = ws
    BY <1>1, <1>2, <1>5, <2>1
  <2> QED BY <2>3, <2>4 DEF Ready, All, Filled
<1>8. Len(ran) + 1 <= Len(Input) /\ (Len(ran) + 1) + 1 = Len(ran) + 2
  BY <1>3, <1>5
<1> QED BY <1>1, <1>2, <1>3, <1>5, <1>7, <1>8 DEF XInv

LEMMA LinesExec ==
  ASSUME Shape, Together, XInv, 2 \in Proc, Exec(2), UNCHANGED prog
  PROVE  XInv'
<1>1. /\ pc[2] = "exec" /\ pc' = [pc EXCEPT ![2] = "command"] /\ DOMAIN pc = Proc /\ pc[1] = "xwait"
      /\ UNCHANGED <<buf, failed, out, argv, argc>> /\ ran' = Append(ran, Vector) /\ ran \in Seq(Seq(Words))
  BY DEF Exec, Goto, Shape, Running, XInv
<1>2. Input' = Input /\ pc'[1] = "xwait" /\ pc'[0] = pc[0] /\ Pending /\ ~Pending'
  BY <1>1, InputSame, ProcFacts DEF Pending
<1>3. /\ Input \in Seq(Line) /\ Len(ran) \in Nat /\ Taken = Len(ran) + 1
      /\ Taken \in 1..Len(Input) /\ DOMAIN Input = 1..Len(Input) /\ Ready(Input[Taken].words)
  BY <1>1, <1>2, InputFacts DEF XInv, Taken
<1>4. Input[Taken] \in Line /\ Input[Taken].words \in Seq(Words)
  <2>1. Input[Taken] \in Line
    BY <1>3
  <2> QED BY <2>1 DEF Line
<1>5. Vector = Clip(Input[Taken].words) /\ Vector \in Seq(Words)
  BY <1>3, <1>4, VectorIs
<1>6. /\ ran' \in Seq(Seq(Words)) /\ Len(ran') = Len(ran) + 1 /\ DOMAIN ran' = 1..(Len(ran) + 1)
      /\ ran'[Len(ran) + 1] = Vector /\ \A i \in 1..Len(ran) : ran'[i] = ran[i]
  BY <1>1, <1>5
<1>7. Taken' = Taken
  BY <1>2, <1>3, <1>6 DEF Taken
<1>8. \A i \in DOMAIN ran' : i \in DOMAIN Input /\ ran'[i] = Clip(Input[i].words)
  <2> TAKE i \in DOMAIN ran'
  <2>1. CASE i = Len(ran) + 1
    BY <1>3, <1>5, <1>6, <2>1
  <2>2. CASE i \in 1..Len(ran)
    BY <1>1, <1>6, <2>2 DEF XInv
  <2> QED BY <1>3, <1>6, <2>1, <2>2
<1>9. BaseIn'
  BY <1>1 DEF XInv, BaseIn
<1> QED BY <1>1, <1>2, <1>3, <1>6, <1>7, <1>8, <1>9 DEF XInv

LEMMA LinesStep ==
  ASSUME Shape, Together, XInv, NEW q \in Proc, FindStep(q) \/ XargsStep(q), UNCHANGED prog
  PROVE  XInv'
<1>1. DOMAIN pc = Proc
  BY DEF Shape
<1>2. CASE FindMain(0) \/ Entry(0) \/ Return(0) \/ Overflow(0) \/ FindExit(0)
  <2>1. UNCHANGED <<out, buf, failed, ran, argv, argc>> /\ pc[0] # "gone"
    BY <1>2 DEF FindMain, Entry, Return, Overflow, FindExit, xargsVars, findVars
  <2>2. DOMAIN pc' = Proc /\ \A r \in Proc \ {0} : pc'[r] = pc[r]
    BY <1>1, <1>2 DEF FindMain, Entry, Return, Overflow, FindExit, Goto, exit
  <2> QED BY <2>1, <2>2, LinesQuiet
<1>3. CASE FindPrint(0)
  BY <1>3, LinesPrint
<1>4. CASE InputEnd(1)
  BY <1>4, LinesEnd
<1>5. CASE ReadLine(1)
  BY <1>5, LinesRead
<1>6. CASE XFork(1)
  <2>1. 1 < MaxProc <=> 2 \in Proc
    BY ProcFacts DEF Proc
  <2>2. pc[1] = "xfork" /\ UNCHANGED <<buf, out, ran, argv, argc>> /\ ~failed /\ ~Running
    BY <1>6 DEF XFork, xargsVars, XInv, Shape
  <2>3. CASE 1 < MaxProc /\ pc' = [pc EXCEPT ![1] = "xwait", ![1 + 1] = "exec"] /\ failed' = failed
    <3>1. pc'[0] = pc[0] /\ pc'[1] = "xwait" /\ pc'[2] = "exec" /\ 2 \in Proc
      BY <1>1, <2>1, <2>3, ProcFacts
    <3>2. Pending /\ Pending'
      BY <2>2, <3>1 DEF Pending
    <3>3. Input' = Input /\ Taken' = Taken
      BY <2>2, <3>2, InputSame DEF Taken
    <3>4. BaseIn' /\ \A ws : Ready(ws) => Ready(ws)'
      BY <2>2 DEF XInv, BaseIn, Ready
    <3> QED BY <2>2, <2>3, <3>1, <3>2, <3>3, <3>4 DEF XInv
  <2>4. CASE pc' = [pc EXCEPT ![1] = "xexit"] /\ failed' = TRUE
    <3>1. pc'[0] = pc[0] /\ pc'[1] = "xexit" /\ (2 \in Proc => pc'[2] = pc[2])
      BY <1>1, <2>4, ProcFacts
    <3>2. ~Pending'
      BY <2>2, <3>1 DEF Pending, Running
    <3>3. Input' = Input /\ BaseIn'
      BY <2>2, InputSame DEF XInv, BaseIn
    <3> QED BY <2>2, <2>4, <3>1, <3>2, <3>3 DEF XInv
  <2> QED BY <1>6, <2>3, <2>4 DEF XFork, fork, Goto
<1>7. CASE XWait(1)
  <2>1. /\ pc[1] = "xwait" /\ pc' = [pc EXCEPT ![1] = "xargs"] /\ argc' = Len(Base)
        /\ UNCHANGED <<buf, failed, out, ran, argv>> /\ pc[2] = "gone" /\ ~failed
    BY <1>7 DEF XWait, Goto, ResetArgs, CanWait, Shape, XInv
  <2>2. pc'[0] = pc[0] /\ pc'[1] = "xargs" /\ ~Pending /\ ~Pending'
    BY <1>1, <2>1, ProcFacts DEF Pending
  <2>3. Input' = Input /\ Taken' = Taken /\ BaseIn'
    BY <2>1, <2>2, InputSame DEF Taken, XInv, BaseIn
  <2> QED BY <2>1, <2>2, <2>3 DEF XInv
<1>8. CASE XExit(1)
  <2>1. /\ pc[1] = "xexit" /\ pc' = [pc EXCEPT ![1] = "gone"]
        /\ UNCHANGED <<buf, failed, out, ran, argv, argc>>
    BY <1>8 DEF XExit, exit, xargsVars
  <2>2. pc'[0] = pc[0] /\ pc'[1] = "gone" /\ ~Pending /\ ~Pending'
    BY <1>1, <2>1, ProcFacts DEF Pending, Shape, Running
  <2>3. Input' = Input /\ (Ended => Ended') /\ BaseIn'
    BY <2>1, <2>2, InputSame DEF XInv, BaseIn, Ended
  <2> QED BY <2>1, <2>2, <2>3 DEF XInv
<1>9. CASE q = 2 /\ Exec(2)
  BY <1>9, LinesExec
<1>10. CASE q = 2 /\ Command(2)
  <2>1. /\ pc[2] = "command" /\ pc' = [pc EXCEPT ![2] = "gone"]
        /\ UNCHANGED <<buf, failed, out, ran, argv, argc>> /\ pc[1] = "xwait"
    BY <1>10 DEF Command, exit, xargsVars, Shape, Running
  <2>2. pc'[0] = pc[0] /\ pc'[1] = "xwait" /\ ~Pending /\ ~Pending'
    BY <1>1, <1>10, <2>1, ProcFacts DEF Pending
  <2>3. Input' = Input /\ Taken' = Taken /\ BaseIn'
    BY <2>1, <2>2, InputSame DEF Taken, XInv, BaseIn
  <2> QED BY <2>1, <2>2, <2>3 DEF XInv
<1> QED BY WhoSteps, <1>2, <1>3, <1>4, <1>5, <1>6, <1>7, <1>8, <1>9, <1>10

LEMMA LinesInductive == ShapeInv /\ LinesInv /\ [Next]_vars => LinesInv'
<1> SUFFICES ASSUME ShapeInv, LinesInv, [Next]_vars, Together' PROVE XInv'
  BY DEF LinesInv
<1>1. CASE UNCHANGED vars
  BY <1>1 DEF vars, kernel, xargsVars, LinesInv, Together, XInv, BaseIn, Taken, Pending, Ended, Input, Ready
<1>2. ASSUME NEW q \in Proc, Step(q) PROVE XInv'
  <2>1. Shape /\ XInv /\ Together /\ UNCHANGED prog
    BY <1>2 DEF Step, ShapeInv, LinesInv, Together
  <2>2. pc[q] \in FindAt \cup XargsAt \cup CommandAt
    BY <2>1 DEF Shape, CommandAt
  <2>3. FindStep(q) \/ XargsStep(q)
    BY <1>2, <2>2, FindXargsOnly
  <2> QED BY <2>1, <2>3, LinesStep
<1> QED BY <1>1, <1>2 DEF Next

\* Whatever find prints and however the processes take turns, xargs runs its
\* command for one line after the other, with its own arguments and those of that
\* line, and for all the lines of find.
THEOREM CommandsRun == Spec => []LinesRun
<1>1. ShapeInv /\ LinesInv => LinesRun
  <2> SUFFICES ASSUME Shape, XInv, Together PROVE LinesRun
    BY DEF ShapeInv, LinesInv, LinesRun, Together
  <2>1. Len(ran) \in Nat /\ DOMAIN ran = 1..Len(ran) /\ Len(Input) \in Nat /\ DOMAIN Input = 1..Len(Input)
    BY InputFacts DEF XInv
  <2>2. \A i \in DOMAIN ran :
          ran[i] = SubSeq(Base \o Input[i].words, 1, Smaller(MAXARG - 1, Len(Base \o Input[i].words)))
    BY DEF XInv, Clip, All
  <2>3. Len(ran) <= Len(Input)
    <3>1. Len(ran) \in DOMAIN ran => Len(ran) \in DOMAIN Input
      BY DEF XInv
    <3> QED BY <2>1, <3>1
  <2>4. ASSUME prog = "find", pc[1] = "gone", ~failed PROVE Len(ran) = Len(out)
    <3>1. Ended /\ Len(Input) = Len(out)
      BY <2>4, InputFacts DEF XInv
    <3>2. \A i \in DOMAIN Input : Input[i].n = 1
      BY <2>4 DEF Input
    <3> QED BY <3>1, <3>2 DEF Ended
  <2> QED BY <2>2, <2>3, <2>4 DEF LinesRun
<1>2. Init => ShapeInv /\ LinesInv
  BY ShapeStart, LinesStart
<1>3. ShapeInv /\ LinesInv /\ [Next]_vars => (ShapeInv /\ LinesInv)'
  BY ShapeInductive, LinesInductive
<1> QED BY <1>1, <1>2, <1>3, PTL DEF Spec

----------------------------------------------------------------------------
(* The order in which find goes through the directories                    *)

\* What the walk along a path meets.
Walks(f, s) ==
  /\ f[0] = "root"
  /\ \A k \in 1..Len(s) :
       f[k] = IF f[k - 1] \in DOMAIN Dirs /\ s[k] \in DOMAIN Dirs[f[k - 1]]
              THEN Dirs[f[k - 1]][s[k]] ELSE "nothing"

LEMMA WalkExists ==
  ASSUME NEW s \in Seq(Nat)
  PROVE  \E f : Walks(f, s) /\ At(s) = f[Len(s)]
<1> DEFINE N == Len(s)
           V == DOMAIN Dirs \cup Kinds \cup {"nothing"}
           nx(n, v) == IF v \in DOMAIN Dirs /\ s[n] \in DOMAIN Dirs[v] THEN Dirs[v][s[n]] ELSE "nothing"
           H == [x \in (1..N) \X V |-> nx(x[1], x[2])]
           Is(f) == f = [k \in 0..N |-> IF k = 0 THEN "root" ELSE nx(k, f[k - 1])]
<1>0. N \in Nat /\ "root" \in V
  BY FXConsts
<1>1. H \in [(1..N) \X V -> V]
  <2> SUFFICES ASSUME NEW n \in 1..N, NEW v \in V PROVE nx(n, v) \in V
    OBVIOUS
  <2>1. CASE v \in DOMAIN Dirs /\ s[n] \in DOMAIN Dirs[v]
    <3>1. Dirs[v] \in Seq(Kinds \cup DOMAIN Dirs)
      BY <2>1, FXConsts
    <3>2. Dirs[v][s[n]] \in Kinds \cup DOMAIN Dirs
      BY <2>1, <3>1
    <3> QED BY <2>1, <3>2
  <2> QED BY <2>1
<1>2. PICK f : Recursive(f, N, V, "root", H)
  <2> HIDE DEF H, N, V
  <2> QED BY <1>0, <1>1, Recursion
<1>3. Is(f)
  <2> HIDE DEF N, V, nx
  <2>1. f \in [0..N -> V] /\ f[0] = "root"
    BY <1>2 DEF Recursive
  <2>2. ASSUME NEW n \in 1..N PROVE f[n] = nx(n, f[n - 1])
    <3>1. n - 1 \in 0..N
      BY <1>0
    <3>2. f[n - 1] \in V
      BY <2>1, <3>1
    <3> QED BY <1>2, <3>2 DEF Recursive
  <2> QED BY <1>0, <2>1, <2>2
<1>4. \E g : Is(g)
  BY <1>3
<1> DEFINE at == CHOOSE g : Is(g)
<1>5. At(s) = at[Len(s)]
  BY DEF At
<1>6. Is(at)
  <2> HIDE DEF Is
  <2> QED BY <1>4, Zenon
<1> HIDE DEF at
<1>7. Walks(at, s)
  <2>1. 0 \in 0..N /\ \A k \in 1..N : k \in 0..N /\ k # 0
    BY <1>0
  <2>2. at[0] = "root" /\ \A k \in 1..N : at[k] = nx(k, at[k - 1])
    <3> HIDE DEF N, nx
    <3> QED BY <1>6, <2>1
  <2> QED BY <2>2 DEF Walks
<1> QED BY <1>5, <1>7

\* A path that leads somewhere leads through directories.
LEMMA WalkDirs ==
  ASSUME NEW s \in Seq(Nat), NEW f, Walks(f, s), f[Len(s)] # "nothing", NEW k \in 0..(Len(s) - 1)
  PROVE  f[k] \in DOMAIN Dirs /\ s[k + 1] \in DOMAIN Dirs[f[k]]
<1> SUFFICES ASSUME ~(f[k] \in DOMAIN Dirs /\ s[k + 1] \in DOMAIN Dirs[f[k]]) PROVE FALSE
  OBVIOUS
<1> DEFINE N == Len(s)
           S == {j \in 0..N : j <= k \/ f[j] = "nothing"}
<1>1. N \in Nat /\ 0 \in S
  OBVIOUS
<1> HIDE DEF N
<1>2. ASSUME NEW j \in 1..N, j - 1 \in S PROVE j \in S
  <2>1. f[j] = IF f[j - 1] \in DOMAIN Dirs /\ s[j] \in DOMAIN Dirs[f[j - 1]]
               THEN Dirs[f[j - 1]][s[j]] ELSE "nothing"
    BY DEF Walks, N
  <2>2. CASE j <= k
    BY <1>1, <2>2
  <2>3. CASE j = k + 1
    <3>1. j - 1 = k
      BY <2>3
    <3> QED BY <1>1, <2>1, <2>3, <3>1
  <2>4. CASE j > k + 1
    <3>1. f[j - 1] = "nothing"
      BY <1>2, <2>4
    <3> QED BY <1>1, <2>1, <3>1, FindXargsAssumption
  <2> QED BY <1>1, <2>2, <2>3, <2>4
<1>3. \A j \in 0..N : j \in S
  <2> HIDE DEF S
  <2> QED BY <1>1, <1>2, UpTo
<1>4. N \in 0..N /\ ~(N <= k)
  BY <1>1 DEF N
<1> QED BY <1>3, <1>4 DEF N

\* A path that goes the way of the calls meets their directories.
LEMMA WalkStack ==
  ASSUME stack \in Seq(Call), Chain, stack # <<>>, NEW s \in Seq(Nat), NEW f, Walks(f, s),
         NEW m \in 0..(Len(stack) - 1), m <= Len(s), \A j \in 1..m : s[j] = stack[j].at
  PROVE  f[m] = stack[m + 1].dir
<1> DEFINE S == {i \in 0..m : f[i] = stack[i + 1].dir}
<1>0. m \in Nat /\ Len(stack) \in Nat /\ m < Len(stack) /\ Len(s) \in Nat
  OBVIOUS
<1>1. 0 \in S
  <2>1. f[0] = "root" /\ stack[0 + 1].dir = "root"
    BY DEF Walks, Chain
  <2> QED BY <1>0, <2>1
<1>2. ASSUME NEW i \in 1..m, i - 1 \in S PROVE i \in S
  <2>1. i \in 1..Len(s) /\ i \in 1..(Len(stack) - 1) /\ i \in DOMAIN stack /\ stack[i] \in Call
    BY <1>0, SeqFacts
  <2>2. (i - 1) + 1 = i /\ f[i - 1] = stack[i].dir
    BY <1>2
  <2>3. /\ stack[i].dir \in DOMAIN Dirs /\ stack[i].at \in Nat /\ stack[i].at >= 1
        /\ stack[i].at <= Len(Dirs[stack[i].dir]) /\ stack[i + 1].dir = Dirs[stack[i].dir][stack[i].at]
    BY <2>1 DEF Chain, Call
  <2>4. Dirs[stack[i].dir] \in Seq(Kinds \cup DOMAIN Dirs)
    BY <2>3, FXConsts
  <2>5. stack[i].at \in DOMAIN Dirs[stack[i].dir]
    BY <2>3, <2>4
  <2>6. f[i] = Dirs[stack[i].dir][stack[i].at]
    BY <2>1, <2>2, <2>3, <2>5 DEF Walks
  <2> QED BY <1>0, <2>3, <2>6
<1>3. \A i \in 0..m : i \in S
  <2> HIDE DEF S
  <2> QED BY <1>0, <1>1, <1>2, UpTo
<1> QED BY <1>0, <1>3

\* What is at a path that goes the way of the calls but the last.
LEMMA WalkTop ==
  ASSUME stack \in Seq(Call), Chain, stack # <<>>, NEW s \in Seq(Nat), Len(s) >= Len(stack) - 1,
         \A j \in 1..(Len(stack) - 1) : s[j] = stack[j].at
  PROVE  LET L == Len(stack)
             d == Dirs[Top.dir]
         IN  /\ Len(s) = L - 1 => At(s) = Top.dir
             /\ Len(s) = L /\ s[L] \in DOMAIN d => At(s) = d[s[L]]
             /\ Len(s) >= L /\ At(s) # "nothing" => s[L] \in DOMAIN d
             /\ Len(s) > L /\ At(s) # "nothing" => d[s[L]] \in DOMAIN Dirs
<1> DEFINE L == Len(stack)
           d == Dirs[Top.dir]
<1>1. PICK f : Walks(f, s) /\ At(s) = f[Len(s)]
  BY WalkExists
<1>2. L \in Nat \ {0} /\ Len(s) \in Nat /\ L - 1 \in 0..(L - 1) /\ (L - 1) + 1 = L
  BY SeqFacts
<1>3. f[L - 1] = Top.dir
  BY <1>1, <1>2, WalkStack DEF Top
<1>4. Top.dir \in DOMAIN Dirs
  <2>1. Top \in Call
    BY <1>2, SeqFacts DEF Top
  <2> QED BY <2>1 DEF Call
<1> HIDE DEF L
<1>5. ASSUME Len(s) >= L
      PROVE  /\ s[L] \in DOMAIN d => f[L] = d[s[L]]
             /\ At(s) # "nothing" => s[L] \in DOMAIN d
             /\ Len(s) > L /\ At(s) # "nothing" => d[s[L]] \in DOMAIN Dirs
  <2>1. L \in 1..Len(s) /\ L - 1 \in 0..(Len(s) - 1)
    BY <1>2, <1>5
  <2>2. f[L] = IF s[L] \in DOMAIN d THEN d[s[L]] ELSE "nothing"
    BY <1>1, <1>3, <1>4, <2>1 DEF Walks
  <2>3. At(s) # "nothing" => s[(L - 1) + 1] \in DOMAIN Dirs[f[L - 1]]
    BY <1>1, <2>1, WalkDirs
  <2>4. At(s) # "nothing" => s[L] \in DOMAIN d
    BY <1>2, <1>3, <2>3
  <2>5. Len(s) > L => L \in 0..(Len(s) - 1)
    BY <1>2
  <2>6. Len(s) > L /\ At(s) # "nothing" => f[L] \in DOMAIN Dirs
    BY <1>1, <2>5, WalkDirs
  <2> QED BY <2>2, <2>4, <2>6
<1>6. Len(s) = L - 1 => At(s) = Top.dir
  BY <1>1, <1>3
<1>7. Len(s) = L => Len(s) >= L /\ At(s) = f[L]
  BY <1>1, <1>2
<1>8. Len(s) > L => Len(s) >= L
  BY <1>2
<1> HIDE DEF d
<1> QED BY <1>5, <1>6, <1>7, <1>8 DEF L, d

LEMMA Close == \A x, y \in Nat : x < y + 1 /\ ~(x < y) => x = y
  OBVIOUS

LEMMA NatSeq ==
  ASSUME NEW s \in Seq(Nat)
  PROVE  DOMAIN s = 1..Len(s) /\ Len(s) \in Nat /\ \A k \in 1..Len(s) : s[k] \in Nat
  OBVIOUS

\* Behind everything below a path comes its right neighbour.
LEMMA LeftOfNext ==
  ASSUME NEW c \in Seq(Nat), NEW b \in Seq(Nat), NEW s \in Seq(Nat), Len(c) # 0, Len(b) = Len(c),
         \A j \in 1..(Len(c) - 1) : b[j] = c[j], b[Len(c)] = c[Len(c)] + 1
  PROVE  Left(s, b) <=> Past(s, c)
<1> DEFINE L == Len(c)
<1>1. L \in Nat \ {0} /\ DOMAIN c = 1..L /\ DOMAIN b = 1..L /\ DOMAIN s = 1..Len(s) /\ Len(s) \in Nat
  BY NatSeq
<1>2. /\ \A k \in 1..L : c[k] \in Nat /\ b[k] \in Nat
      /\ \A k \in 1..Len(s) : s[k] \in Nat
  BY NatSeq
<1> HIDE DEF L
<1>3. ASSUME Left(s, b) PROVE Past(s, c)
  <2>1. PICK k \in 1..L : k \in 1..Len(s) /\ s[k] < b[k] /\ \A j \in 1..(k - 1) : s[j] = b[j]
    BY <1>1, <1>3 DEF Left
  <2>2. \A j \in 1..(k - 1) : j \in 1..(L - 1)
    BY <1>1
  <2>3. \A j \in 1..(k - 1) : s[j] = c[j]
    BY <2>1, <2>2 DEF L
  <2>4. CASE k < L
    <3>0. k \in 1..(L - 1)
      BY <1>1, <2>4
    <3>1. b[k] = c[k]
      BY <3>0 DEF L
    <3> QED BY <1>1, <2>1, <2>3, <3>1 DEF Past, Left
  <2>5. CASE k = L /\ s[k] < c[k]
    BY <1>1, <2>1, <2>3, <2>5 DEF Past, Left
  <2>6. CASE k = L /\ ~(s[k] < c[k])
    <3>1. s[L] \in Nat /\ c[L] \in Nat /\ s[L] < c[L] + 1 /\ ~(s[L] < c[L])
      BY <1>1, <1>2, <2>1, <2>6 DEF L
    <3>2. s[L] = c[L]
      BY <3>1, Close
    <3>3. L <= Len(s) /\ \A j \in 1..L : s[j] = c[j]
      <4>1. \A j \in 1..L : j = L \/ j \in 1..(k - 1)
        BY <1>1, <2>6
      <4> QED BY <1>1, <2>1, <2>3, <2>6, <3>2, <4>1
    <3> QED BY <1>1, <3>3 DEF Past, Below, L
  <2> QED BY <1>1, <2>4, <2>5, <2>6
<1>4. ASSUME Left(s, c) PROVE Left(s, b)
  <2>1. PICK k \in 1..L : k \in 1..Len(s) /\ s[k] < c[k] /\ \A j \in 1..(k - 1) : s[j] = c[j]
    BY <1>1, <1>4 DEF Left
  <2>2. \A j \in 1..(k - 1) : j \in 1..(L - 1)
    BY <1>1
  <2>3. \A j \in 1..(k - 1) : s[j] = b[j]
    BY <2>1, <2>2 DEF L
  <2>4. c[k] <= b[k]
    <3>1. k = L \/ k \in 1..(L - 1)
      BY <1>1
    <3>2. b[L] = c[L] + 1 /\ (k \in 1..(L - 1) => b[k] = c[k])
      BY DEF L
    <3>3. c[k] \in Nat
      BY <1>2
    <3> QED BY <3>1, <3>2, <3>3
  <2>5. s[k] < b[k]
    <3>1. s[k] \in Nat /\ c[k] \in Nat /\ b[k] \in Nat /\ s[k] < c[k]
      BY <1>2, <2>1
    <3> QED BY <2>4, <3>1
  <2> QED BY <1>1, <2>1, <2>3, <2>5 DEF Left
<1>5. ASSUME Below(s, c) PROVE Left(s, b)
  <2>1. L <= Len(s) /\ \A j \in 1..L : s[j] = c[j]
    BY <1>1, <1>5 DEF Below, L
  <2>2. L \in 1..L /\ L \in 1..Len(s) /\ s[L] = c[L] /\ c[L] \in Nat
    BY <1>1, <1>2, <2>1
  <2>3. s[L] < b[L]
    BY <2>2 DEF L
  <2>4. \A j \in 1..(L - 1) : s[j] = b[j]
    BY <1>1, <2>1 DEF L
  <2> QED BY <1>1, <2>2, <2>3, <2>4 DEF Left
<1> QED BY <1>3, <1>4, <1>5 DEF Past

\* A call for a directory begins before its first entry.
LEMMA PastFirst ==
  ASSUME NEW b \in Seq(Nat), NEW s \in Seq(Nat), \A k \in 1..Len(s) : s[k] >= 1
  PROVE  Past(s, Append(b, 0)) <=> Left(s, b)
<1> DEFINE L == Len(b)
           a == Append(b, 0)
<1>1. /\ L \in Nat /\ DOMAIN b = 1..L /\ DOMAIN s = 1..Len(s) /\ Len(s) \in Nat
      /\ Len(a) = L + 1 /\ DOMAIN a = 1..(L + 1) /\ a[L + 1] = 0 /\ \A k \in 1..L : a[k] = b[k]
      /\ \A k \in 1..Len(s) : s[k] \in Nat
  OBVIOUS
<1> HIDE DEF L, a
<1>2. ASSUME Left(s, b) PROVE Left(s, a)
  <2>1. PICK k \in 1..L : k \in 1..Len(s) /\ s[k] < b[k] /\ \A j \in 1..(k - 1) : s[j] = b[j]
    BY <1>1, <1>2 DEF Left
  <2>2. k \in 1..(L + 1) /\ \A j \in 1..(k - 1) : j \in 1..L
    BY <1>1
  <2> QED BY <1>1, <2>1, <2>2 DEF Left
<1>3. ASSUME Left(s, a) PROVE Left(s, b)
  <2>1. PICK k \in 1..(L + 1) : k \in 1..Len(s) /\ s[k] < a[k] /\ \A j \in 1..(k - 1) : s[j] = a[j]
    BY <1>1, <1>3 DEF Left
  <2>2. k # L + 1
    BY <1>1, <2>1
  <2>3. k \in 1..L /\ \A j \in 1..(k - 1) : j \in 1..L
    BY <1>1, <2>2
  <2> QED BY <1>1, <2>1, <2>3 DEF Left
<1>4. ~Below(s, a)
  <2> SUFFICES ASSUME Below(s, a) PROVE FALSE
    OBVIOUS
  <2>1. L + 1 \in 1..Len(s) /\ s[L + 1] = 0
    BY <1>1 DEF Below
  <2> QED BY <2>1
<1> QED BY <1>2, <1>3, <1>4 DEF Past, a

\* At its end, what is below it is done.
LEMMA PastLast ==
  ASSUME NEW c \in Seq(Nat), Len(c) # 0, NEW f \in Seq(Nat), Len(f) = Len(c) - 1,
         \A j \in 1..(Len(c) - 1) : f[j] = c[j], NEW s \in Seq(Nat)
  PROVE  /\ Past(s, c) => Past(s, f)
         /\ Past(s, f) => Past(s, c) \/ Below(s, f)
         /\ Below(s, f) /\ Len(s) >= Len(c) /\ s[Len(c)] <= c[Len(c)] => Past(s, c)
<1> DEFINE L == Len(c)
<1>1. /\ L \in Nat \ {0} /\ DOMAIN c = 1..L /\ DOMAIN s = 1..Len(s) /\ Len(s) \in Nat
      /\ DOMAIN f = 1..(L - 1) /\ Len(f) = L - 1
      /\ \A k \in 1..L : c[k] \in Nat
      /\ \A k \in 1..Len(s) : s[k] \in Nat
  BY NatSeq
<1>2. \A j \in 1..(L - 1) : f[j] = c[j]
  OBVIOUS
<1> HIDE DEF L
<1>3. ASSUME Left(s, c) PROVE Past(s, f)
  <2>1. PICK k \in 1..L : k \in 1..Len(s) /\ s[k] < c[k] /\ \A j \in 1..(k - 1) : s[j] = c[j]
    BY <1>1, <1>3 DEF Left
  <2>2. \A j \in 1..(k - 1) : j \in 1..(L - 1)
    BY <1>1
  <2>3. CASE k = L
    <3>1. L - 1 <= Len(s) /\ \A j \in 1..(L - 1) : s[j] = f[j]
      BY <1>1, <1>2, <2>1, <2>3
    <3> QED BY <1>1, <3>1 DEF Past, Below
  <2>4. CASE k # L
    <3>1. k \in 1..(L - 1)
      BY <1>1, <2>4
    <3> QED BY <1>1, <1>2, <2>1, <2>2, <3>1 DEF Past, Left
  <2> QED BY <2>3, <2>4
<1>4. ASSUME Below(s, c) PROVE Below(s, f)
  <2>1. L <= Len(s) /\ \A j \in 1..L : s[j] = c[j]
    BY <1>1, <1>4 DEF Below, L
  <2>2. L - 1 <= Len(s) /\ \A j \in 1..(L - 1) : j \in 1..L
    BY <1>1, <2>1
  <2> QED BY <1>1, <1>2, <2>1, <2>2 DEF Below
<1>5. ASSUME Left(s, f) PROVE Left(s, c)
  <2>1. PICK k \in 1..(L - 1) : k \in 1..Len(s) /\ s[k] < f[k] /\ \A j \in 1..(k - 1) : s[j] = f[j]
    BY <1>1, <1>5 DEF Left
  <2>2. k \in 1..L /\ \A j \in 1..(k - 1) : j \in 1..(L - 1)
    BY <1>1
  <2> QED BY <1>1, <1>2, <2>1, <2>2 DEF Left
<1>6. ASSUME Below(s, f), Len(s) >= L, s[L] <= c[L] PROVE Past(s, c)
  <2>1. \A j \in 1..(L - 1) : s[j] = c[j]
    BY <1>1, <1>2, <1>6 DEF Below
  <2>2. L \in 1..L /\ L \in 1..Len(s) /\ s[L] \in Nat /\ c[L] \in Nat
    BY <1>1, <1>6
  <2>3. CASE s[L] < c[L]
    BY <1>1, <2>1, <2>2, <2>3 DEF Past, Left
  <2>4. CASE s[L] = c[L]
    <3>1. \A j \in 1..L : s[j] = c[j]
      <4>1. \A j \in 1..L : j = L \/ j \in 1..(L - 1)
        BY <1>1
      <4> QED BY <2>1, <2>4, <4>1
    <3> QED BY <1>1, <1>6, <3>1 DEF Past, Below, L
  <2> QED BY <1>6, <2>2, <2>3, <2>4
<1> QED BY <1>3, <1>4, <1>5, <1>6 DEF Past, L

LEMMA LeftBefore ==
  ASSUME NEW s \in Seq(Nat), NEW c \in Seq(Nat), Left(s, c)
  PROVE  Before(s, c)
<1>1. PICK k \in DOMAIN c : k \in DOMAIN s /\ s[k] < c[k] /\ \A j \in 1..(k - 1) : s[j] = c[j]
  BY DEF Left
<1>2. k \in Nat /\ k >= 1 /\ k <= Len(s) /\ k <= Len(c) /\ Len(s) \in Nat /\ Len(c) \in Nat
  BY <1>1
<1>3. SubSeq(s, 1, k - 1) = [j \in 1..(k - 1) |-> s[j]] /\ SubSeq(c, 1, k - 1) = [j \in 1..(k - 1) |-> c[j]]
  BY <1>2
<1>4. SubSeq(s, 1, k - 1) = SubSeq(c, 1, k - 1)
  BY <1>1, <1>3
<1> QED BY <1>1, <1>4 DEF Before

LEMMA GoalFacts ==
  ASSUME NEW s \in Goals
  PROVE  /\ s \in Seq(Nat) /\ Len(s) \in 1..(NFree - 1) /\ \A k \in 1..Len(s) : s[k] >= 1
         /\ At(s) = "file" /\ arg.len + Len(s) <= MAXPATH /\ arg.len + Len(s) - 1 <= PathMax
<1>1. PICK n \in 1..(NFree - 1) : s \in [1..n -> 1..Width]
  BY DEF Goals, Places
<1>2. n \in Nat /\ Width \in Nat
  BY <1>1, FXConsts, ProgramsAssumption
<1>3. s \in [1..n -> Nat] /\ \A k \in 1..n : s[k] >= 1
  BY <1>1, <1>2
<1>4. s \in Seq(Nat) /\ Len(s) = n
  BY <1>2, <1>3
<1> QED BY <1>1, <1>3, <1>4 DEF Goals, Fits

PathOf(st) == [i \in 1..Len(st) |-> st[i].at]

LEMMA PathOfFacts ==
  ASSUME NEW st \in Seq(Call)
  PROVE  /\ PathOf(st) \in Seq(Nat) /\ Len(PathOf(st)) = Len(st)
         /\ \A k \in 1..Len(st) : PathOf(st)[k] = st[k].at /\ st[k].at \in Nat
<1>1. Len(st) \in Nat /\ \A k \in 1..Len(st) : st[k] \in Call
  BY SeqFacts
<1>2. \A k \in 1..Len(st) : st[k].at \in Nat
  BY <1>1 DEF Call
<1>3. PathOf(st) \in [1..Len(st) -> Nat]
  BY <1>2 DEF PathOf
<1>4. PathOf(st) \in Seq(Nat) /\ Len(PathOf(st)) = Len(st)
  BY <1>1, <1>3
<1> QED BY <1>2, <1>4 DEF PathOf

LEMMA PathIs == Path = PathOf(stack) /\ Path' = PathOf(stack')
  BY DEF Path, PathOf

\* The next entry.
LEMMA Advance ==
  ASSUME stack \in Seq(Call), stack # <<>>, Chain, Top.at < Len(Dirs[Top.dir])
  PROVE  LET L == Len(stack)
             c == Path
             b == PathOf(Advanced)
         IN  /\ L \in Nat \ {0} /\ Len(c) = L /\ Len(b) = L /\ c \in Seq(Nat) /\ b \in Seq(Nat)
             /\ \A j \in 1..(L - 1) : b[j] = c[j] /\ b[j] = stack[j].at
             /\ b[L] = c[L] + 1 /\ b[L] = Top.at + 1
             /\ Advanced \in Seq(Call) /\ Len(Advanced) = L
             /\ \A j \in 1..(L - 1) : Advanced[j] = stack[j]
             /\ Advanced[L].dir = Top.dir /\ Advanced[L].at = Top.at + 1
             /\ Top.dir \in DOMAIN Dirs /\ Dirs[Top.dir] \in Seq(Kinds \cup DOMAIN Dirs)
             /\ Top.at + 1 \in DOMAIN Dirs[Top.dir]
<1> DEFINE L == Len(stack)
           c == Path
           b == PathOf(Advanced)
<1>1. /\ L \in Nat \ {0} /\ Top \in Call /\ Top.at + 1 \in Nat
      /\ Advanced \in Seq(Call) /\ Len(Advanced) = L
      /\ \A k \in 1..L : Advanced[k] = IF k = L THEN [Top EXCEPT !.at = @ + 1] ELSE stack[k]
  BY CallsNext
<1>2. Top.dir \in DOMAIN Dirs /\ Top.at \in Nat
  BY <1>1 DEF Call
<1>3. Dirs[Top.dir] \in Seq(Kinds \cup DOMAIN Dirs)
  BY <1>2, FXConsts
<1>4. Top.at + 1 \in DOMAIN Dirs[Top.dir]
  BY <1>2, <1>3
<1> HIDE DEF L
<1>5. L \in 1..L /\ \A j \in 1..(L - 1) : j \in 1..L /\ j # L
  BY <1>1
<1>6. Advanced[L] = [Top EXCEPT !.at = @ + 1] /\ \A j \in 1..(L - 1) : Advanced[j] = stack[j]
  BY <1>1, <1>5
<1>7. Advanced[L].dir = Top.dir /\ Advanced[L].at = Top.at + 1
  <2>1. [Top EXCEPT !.at = @ + 1].dir = Top.dir /\ [Top EXCEPT !.at = @ + 1].at = Top.at + 1
    BY <1>1 DEF Call
  <2> QED BY <1>6, <2>1
<1>8. /\ c \in Seq(Nat) /\ Len(c) = L /\ \A k \in 1..L : c[k] = stack[k].at
      /\ b \in Seq(Nat) /\ Len(b) = L /\ \A k \in 1..L : b[k] = Advanced[k].at
  BY <1>1, PathIs, PathOfFacts DEF L
<1>9. \A j \in 1..(L - 1) : b[j] = c[j] /\ b[j] = stack[j].at
  BY <1>5, <1>6, <1>8
<1>10. b[L] = c[L] + 1 /\ b[L] = Top.at + 1
  <2>1. c[L] = Top.at
    BY <1>5, <1>8 DEF Top, L
  <2> QED BY <1>5, <1>7, <1>8, <2>1
<1> QED BY <1>1, <1>2, <1>3, <1>4, <1>6, <1>7, <1>8, <1>9, <1>10 DEF L

\* A step to the next entry, which is printed next or passed by.
LEMMA ChainAdvance ==
  ASSUME stack \in Seq(Call), stack # <<>>, Chain, Top.at < Len(Dirs[Top.dir]), stack' = Advanced
  PROVE  Chain' /\ stack' # <<>> /\ Len(stack') = Len(stack) /\ Top'.dir = Top.dir /\ Top'.at = Top.at + 1
<1> DEFINE L == Len(stack)
<1>1. /\ L \in Nat \ {0} /\ Len(stack') = L /\ stack' \in Seq(Call)
      /\ \A j \in 1..(L - 1) : stack'[j] = stack[j]
      /\ stack'[L].dir = Top.dir /\ stack'[L].at = Top.at + 1
      /\ Top.at + 1 \in DOMAIN Dirs[Top.dir] /\ Dirs[Top.dir] \in Seq(Kinds \cup DOMAIN Dirs)
  BY Advance
<1>2. Top = stack[L] /\ Top' = stack'[L]
  BY <1>1 DEF Top
<1>3. DOMAIN stack = 1..L /\ DOMAIN stack' = 1..L
  BY <1>1
<1> HIDE DEF L
<1>4. \A k \in 1..L : stack'[k].at <= Len(Dirs[stack'[k].dir])
  <2> TAKE k \in 1..L
  <2>1. CASE k = L
    BY <1>1, <2>1
  <2>2. CASE k # L
    <3>1. k \in 1..(L - 1)
      BY <1>1, <2>2
    <3> QED BY <1>1, <1>3, <3>1 DEF Chain
  <2> QED BY <2>1, <2>2
<1>5. stack'[1].dir = "root"
  <2>1. stack[1].dir = "root"
    BY DEF Chain
  <2>2. 1 = L \/ 1 \in 1..(L - 1)
    BY <1>1
  <2> QED BY <1>1, <1>2, <2>1, <2>2
<1>6. \A k \in 1..(L - 1) : stack'[k].at >= 1 /\ stack'[k + 1].dir = Dirs[stack'[k].dir][stack'[k].at]
  <2> TAKE k \in 1..(L - 1)
  <2>1. stack[k].at >= 1 /\ stack[k + 1].dir = Dirs[stack[k].dir][stack[k].at]
    BY DEF Chain, L
  <2>2. stack'[k + 1].dir = stack[k + 1].dir
    <3>1. k + 1 = L \/ k + 1 \in 1..(L - 1)
      BY <1>1
    <3> QED BY <1>1, <1>2, <3>1
  <2> QED BY <1>1, <2>1, <2>2
<1>7. stack' # <<>>
  BY <1>1
<1> QED BY <1>1, <1>2, <1>3, <1>4, <1>5, <1>6, <1>7 DEF Chain, L

LEMMA OutFacts ==
  ASSUME Shape, FInv, NEW i \in DOMAIN out
  PROVE  out[i] \in Seq(Nat) /\ \A k \in 1..Len(out[i]) : out[i][k] >= 1
<1>1. out[i] \in Words
  BY SeqFacts DEF Shape
<1>2. out[i] \in Seq(Nat)
  BY <1>1, WordFacts
<1>3. DOMAIN out[i] = 1..Len(out[i])
  BY <1>2
<1> QED BY <1>2, <1>3 DEF FInv, Outs

LEMMA ArgFacts == ASSUME FInv PROVE arg.len \in Nat
  BY FXConsts DEF FInv, Args

\* What find passes by is no file with the name within its reach, and has none
\* below it.
LEMMA PassedBy ==
  ASSUME stack \in Seq(Call), stack # <<>>, Chain, Top.at < Len(Dirs[Top.dir]), FInv,
         NEW s \in Goals, Below(s, PathOf(Advanced)),
         LET e == Dirs[Top.dir][Top.at + 1]
         IN  \/ e = "free" \/ ~CanOpen
             \/ e # "file" /\ (e \notin DOMAIN Dirs \/ TooLong)
  PROVE  FALSE
<1> DEFINE L == Len(stack)
           b == PathOf(Advanced)
           e == Dirs[Top.dir][Top.at + 1]
<1>1. /\ L \in Nat \ {0} /\ Len(b) = L /\ b \in Seq(Nat) /\ b[L] = Top.at + 1
      /\ \A j \in 1..(L - 1) : b[j] = stack[j].at
      /\ Top.at + 1 \in DOMAIN Dirs[Top.dir]
  BY Advance
<1>2. /\ s \in Seq(Nat) /\ Len(s) \in 1..(NFree - 1) /\ NFree \in Nat
      /\ At(s) = "file" /\ arg.len + Len(s) <= MAXPATH /\ arg.len + Len(s) - 1 <= PathMax
  BY GoalFacts, FXConsts
<1> HIDE DEF b, L
<1>3. DOMAIN b = 1..L /\ L <= Len(s) /\ \A j \in 1..L : s[j] = b[j]
  <2>1. Below(s, b)
    BY DEF b
  <2>2. DOMAIN b = 1..L
    BY <1>1, NatSeq
  <2> QED BY <1>1, <2>1, <2>2 DEF Below
<1>4. s[L] = Top.at + 1 /\ \A j \in 1..(L - 1) : s[j] = stack[j].at
  <2>1. L \in 1..L /\ \A j \in 1..(L - 1) : j \in 1..L
    BY <1>1
  <2> QED BY <1>1, <1>3, <2>1
<1>5. Len(s) \in Nat /\ Len(s) >= L - 1 /\ Len(s) >= L
  BY <1>1, <1>2, <1>3
<1>6. /\ Len(s) = L => At(s) = e
      /\ Len(s) > L => e \in DOMAIN Dirs
  BY <1>1, <1>2, <1>4, <1>5, WalkTop DEF L
<1> HIDE DEF e
<1>7. CanOpen
  <2>1. arg.len \in Nat /\ MAXPATH \in Nat
    BY ArgFacts, FXConsts
  <2>2. L < NFree /\ arg.len + L <= MAXPATH
    BY <1>1, <1>2, <1>5, <2>1
  <2> QED BY <2>2 DEF CanOpen, L
<1>8. "free" \notin DOMAIN Dirs /\ "free" # "file"
  BY FXConsts DEF Kinds
<1>9. Len(s) = L \/ Len(s) > L
  BY <1>1, <1>5
<1>10. e # "free"
  BY <1>2, <1>6, <1>8, <1>9
<1>11. e # "file" /\ (e \notin DOMAIN Dirs \/ TooLong)
  BY <1>7, <1>10 DEF e
<1>12. Len(s) > L /\ TooLong
  BY <1>2, <1>6, <1>9, <1>11
<1>13. arg.len \in Nat /\ PathMax \in Nat
  BY ArgFacts, FXConsts
<1> QED BY <1>1, <1>2, <1>5, <1>12, <1>13 DEF TooLong, L

\* Goals and Printed are about arg and out only.
LEMMA SameGoals == ASSUME UNCHANGED <<arg, out>> PROVE Goals' = Goals /\ \A s : Printed(s)' <=> Printed(s)
  BY DEF Goals, Fits, Printed

LEMMA FoundAdvance ==
  ASSUME Shape, FInv, pc[0] = "entry", stack # <<>>, Top.at < Len(Dirs[Top.dir]),
         stack' = Advanced, UNCHANGED <<arg, out>>
  PROVE  /\ \A i \in DOMAIN out : Left(out[i], Path')
         /\ \A s \in Goals : Left(s, Path') => Printed(s)
<1>1. stack \in Seq(Call) /\ Chain /\ Path' = PathOf(Advanced)
  BY PathIs DEF Shape, FInv
<1>2. \A s \in Seq(Nat) : Left(s, Path') <=> Past(s, Path)
  <2> TAKE s \in Seq(Nat)
  <2> DEFINE c == Path
             b == PathOf(Advanced)
  <2>1. /\ c \in Seq(Nat) /\ b \in Seq(Nat) /\ Len(c) = Len(stack) /\ Len(b) = Len(c) /\ Len(stack) # 0
        /\ \A j \in 1..(Len(stack) - 1) : b[j] = c[j]
        /\ b[Len(stack)] = c[Len(stack)] + 1
    BY <1>1, Advance
  <2> HIDE DEF c, b
  <2>2. Left(s, b) <=> Past(s, c)
    BY <2>1, LeftOfNext
  <2> QED BY <1>1, <2>2 DEF c, b
<1>3. \A i \in DOMAIN out : out[i] \in Seq(Nat)
  BY OutFacts
<1>4. \A s \in Goals : s \in Seq(Nat)
  BY GoalFacts
<1> QED BY <1>2, <1>3, <1>4 DEF FInv

\* A directory is entered.
LEMMA FoundPush ==
  ASSUME Shape, FInv, pc[0] = "entry", stack # <<>>, Top.at < Len(Dirs[Top.dir]), UNCHANGED <<arg, out, pc>>,
         Dirs[Top.dir][Top.at + 1] \in DOMAIN Dirs, CanOpen, ~TooLong,
         stack' = Append(Advanced, [dir |-> Dirs[Top.dir][Top.at + 1], at |-> 0])
  PROVE  FInv'
<1> DEFINE e == Dirs[Top.dir][Top.at + 1]
           L == Len(stack)
           b == PathOf(Advanced)
           x == [dir |-> e, at |-> 0]
<1>1. stack \in Seq(Call) /\ Chain /\ arg.len \in Nat /\ PathMax \in Nat /\ NFree \in Nat
  BY ArgFacts, FXConsts DEF Shape, FInv
<1>2. /\ L \in Nat \ {0} /\ Len(b) = L /\ b \in Seq(Nat) /\ Advanced \in Seq(Call) /\ Len(Advanced) = L
      /\ \A j \in 1..(L - 1) : Advanced[j] = stack[j]
      /\ Advanced[L].dir = Top.dir /\ Advanced[L].at = Top.at + 1
      /\ Top.at + 1 \in DOMAIN Dirs[Top.dir] /\ Dirs[Top.dir] \in Seq(Kinds \cup DOMAIN Dirs)
  BY <1>1, Advance
<1>3. x \in Call /\ x.at = 0 /\ x.dir = e
  BY DEF Call
<1> HIDE DEF L, x
<1>4. /\ stack' \in Seq(Call) /\ Len(stack') = L + 1
      /\ stack'[L + 1] = x /\ \A j \in 1..L : stack'[j] = Advanced[j]
      /\ DOMAIN stack' = 1..(L + 1) /\ stack' # <<>>
  BY <1>2, <1>3 DEF x
<1>5. Path' = Append(b, 0)
  <2>1. \A j \in 1..L : b[j] = Advanced[j].at
    BY <1>2, PathOfFacts
  <2>2. \A j \in 1..(L + 1) : stack'[j].at = IF j = L + 1 THEN 0 ELSE b[j]
    <3> TAKE j \in 1..(L + 1)
    <3>1. j = L + 1 \/ j \in 1..L
      BY <1>2
    <3> HIDE DEF b
    <3> QED BY <1>2, <1>3, <1>4, <2>1, <3>1
  <2>3. Path' = [j \in 1..(L + 1) |-> stack'[j].at]
    BY <1>4, PathIs DEF PathOf
  <2> HIDE DEF b
  <2>4. Append(b, 0) = [j \in 1..(L + 1) |-> IF j = L + 1 THEN 0 ELSE b[j]]
    <3>1. b \in Seq(Nat) /\ Len(b) = L /\ 0 \in Nat
      BY <1>2
    <3> QED BY <3>1, AppendIs
  <2> QED BY <2>2, <2>3, <2>4
<1> HIDE DEF b
<1>6. ASSUME NEW s \in Seq(Nat), \A k \in 1..Len(s) : s[k] >= 1 PROVE Past(s, Path') <=> Past(s, Path)
  <2>1. Past(s, Path') <=> Left(s, b)
    BY <1>2, <1>5, <1>6, PastFirst
  <2> DEFINE c == Path
  <2>2. /\ c \in Seq(Nat) /\ Len(c) = L /\ Len(b) = Len(c)
        /\ \A j \in 1..(L - 1) : b[j] = c[j]
        /\ b[L] = c[L] + 1
    BY <1>1, Advance DEF b, L
  <2> HIDE DEF c
  <2>3. Left(s, b) <=> Past(s, c)
    BY <1>2, <2>2, LeftOfNext
  <2> QED BY <2>1, <2>3 DEF c
<1>7. /\ \A i \in DOMAIN out : Past(out[i], Path')
      /\ \A s \in Goals : Past(s, Path') => Printed(s)
  BY <1>6, OutFacts, GoalFacts DEF FInv
<1>8. Goals' = Goals /\ (\A s : Printed(s)' <=> Printed(s)) /\ Outs' /\ (arg \in Args)'
  BY SameGoals DEF FInv, Outs
<1>9. Len(stack') <= NFree /\ arg.len + Len(stack') - 1 <= PathMax
  BY <1>1, <1>2, <1>4 DEF CanOpen, TooLong, L
<1>10. Chain'
  <2>1. \A k \in 1..L : Advanced[k].at <= Len(Dirs[Advanced[k].dir])
    <3> TAKE k \in 1..L
    <3>1. k = L \/ k \in 1..(L - 1)
      BY <1>2
    <3>2. CASE k = L
      BY <1>2, <3>2
    <3>3. CASE k \in 1..(L - 1)
      <4>1. k \in DOMAIN stack
        BY <1>1, <1>2, <3>3 DEF L
      <4> QED BY <1>1, <1>2, <3>3, <4>1 DEF Chain
    <3> QED BY <3>1, <3>2, <3>3
  <2>2. x.at <= Len(Dirs[x.dir])
    BY <1>3, FXConsts
  <2>3. \A k \in 1..(L + 1) : stack'[k].at <= Len(Dirs[stack'[k].dir])
    <3> TAKE k \in 1..(L + 1)
    <3>1. k = L + 1 \/ k \in 1..L
      BY <1>2
    <3> QED BY <1>4, <2>1, <2>2, <3>1
  <2>4. stack'[1].dir = "root"
    <3>1. stack[1].dir = "root" /\ 1 \in 1..L /\ (1 = L \/ 1 \in 1..(L - 1)) /\ Top = stack[L]
      BY <1>1, <1>2 DEF Chain, Top, L
    <3> QED BY <1>2, <1>4, <3>1
  <2>5. \A k \in 1..L : stack'[k].at >= 1 /\ stack'[k + 1].dir = Dirs[stack'[k].dir][stack'[k].at]
    <3> TAKE k \in 1..L
    <3>1. CASE k = L
      <4>1. stack'[L] = Advanced[L] /\ stack'[L + 1].dir = e
        BY <1>2, <1>3, <1>4
      <4>2. Top.at + 1 >= 1
        BY <1>2
      <4> QED BY <1>2, <3>1, <4>1, <4>2
    <3>2. CASE k # L
      <4>1. k \in 1..(L - 1) /\ k + 1 \in 1..L
        BY <1>2, <3>2
      <4>2. stack[k].at >= 1 /\ stack[k + 1].dir = Dirs[stack[k].dir][stack[k].at]
        BY <1>1, <4>1 DEF Chain, L
      <4>3. Advanced[k + 1].dir = stack[k + 1].dir
        <5>1. k + 1 = L \/ k + 1 \in 1..(L - 1)
          BY <1>2, <4>1
        <5> QED BY <1>2, <5>1 DEF Top, L
      <4> QED BY <1>2, <1>4, <4>1, <4>2, <4>3
    <3> QED BY <3>1, <3>2
  <2>6. Len(stack') - 1 = L
    BY <1>2, <1>4
  <2> QED BY <1>4, <2>3, <2>4, <2>5, <2>6 DEF Chain
<1> QED BY <1>4, <1>7, <1>8, <1>9, <1>10 DEF FInv

LEMMA FoundEntry ==
  ASSUME Shape, FInv, Entry(0)
  PROVE  FInv'
<1> DEFINE e == Dirs[Top.dir][Top.at + 1]
           L == Len(stack)
           passed   == /\ stack' = Advanced /\ pc' = pc
                       /\ e = "free" \/ ~CanOpen \/ (e # "file" /\ (e \notin DOMAIN Dirs \/ TooLong))
           printing == stack' = Advanced /\ pc' = [pc EXCEPT ![0] = "print"] /\ e \in {"file", "full"}
           entered  == /\ stack' = Append(Advanced, [dir |-> e, at |-> 0]) /\ pc' = pc
                       /\ e \in DOMAIN Dirs /\ CanOpen /\ ~TooLong
<1>1. /\ pc[0] = "entry" /\ stack # <<>> /\ Top.at < Len(Dirs[Top.dir]) /\ UNCHANGED <<arg, out>>
      /\ stack \in Seq(Call) /\ Chain /\ DOMAIN pc = Proc /\ 0 \in Proc
  BY ProcFacts DEF Entry, Shape, FInv
<1>2. /\ L \in Nat \ {0} /\ L <= NFree /\ NFree \in Nat
      /\ arg.len \in Nat /\ arg.len + L - 1 <= PathMax /\ PathMax \in Nat
  BY <1>1, ArgFacts, SeqFacts, FXConsts DEF FInv
<1>3. Goals' = Goals /\ (\A s : Printed(s)' <=> Printed(s)) /\ Outs' /\ (arg \in Args)'
  BY <1>1, SameGoals DEF FInv, Outs
<1>4. CASE passed
  <2>1. /\ \A i \in DOMAIN out : Left(out[i], Path')
        /\ \A s \in Goals : Left(s, Path') => Printed(s)
    BY <1>1, <1>4, FoundAdvance
  <2>2. \A s \in Goals : ~Below(s, Path')
    BY <1>1, <1>4, PassedBy, PathIs
  <2>3. Chain' /\ Len(stack') = L
    BY <1>1, <1>4, ChainAdvance
  <2> QED BY <1>1, <1>2, <1>3, <1>4, <2>1, <2>2, <2>3 DEF FInv, Past
<1>5. CASE printing
  <2>1. /\ \A i \in DOMAIN out : Left(out[i], Path')
        /\ \A s \in Goals : Left(s, Path') => Printed(s)
    BY <1>1, <1>5, FoundAdvance
  <2>2. Chain' /\ Len(stack') = L /\ Top'.dir = Top.dir /\ Top'.at = Top.at + 1
    BY <1>1, <1>5, ChainAdvance
  <2>3. Top'.at >= 1 /\ Dirs[Top'.dir][Top'.at] \in {"file", "full"}
    <3>1. Top.at + 1 \in DOMAIN Dirs[Top.dir] /\ Dirs[Top.dir] \in Seq(Kinds \cup DOMAIN Dirs)
      BY <1>1, Advance
    <3> QED BY <1>5, <2>2, <3>1
  <2>4. pc'[0] = "print"
    BY <1>1, <1>5
  <2> QED BY <1>1, <1>2, <1>3, <2>1, <2>2, <2>3, <2>4 DEF FInv
<1>6. CASE entered
  BY <1>1, <1>6, FoundPush
<1>7. passed \/ printing \/ entered
  BY <1>1 DEF Entry, Goto, Advanced, Matches
<1> QED BY <1>4, <1>5, <1>6, <1>7

LEMMA FoundPrint ==
  ASSUME Shape, FInv, FindPrint(0)
  PROVE  FInv'
<1> DEFINE L == Len(stack)
           c == Path
<1>1. /\ pc[0] = "print" /\ stack # <<>> /\ stack \in Seq(Call) /\ Chain /\ DOMAIN pc = Proc /\ 0 \in Proc
      /\ UNCHANGED <<arg, stack>> /\ out' = Append(out, c) /\ pc' = [pc EXCEPT ![0] = "entry"]
      /\ out \in Seq(Words)
  BY ProcFacts DEF FindPrint, findVars, Goto, Shape, FInv
<1>2. /\ L \in Nat \ {0} /\ c \in Seq(Nat) /\ Len(c) = L /\ c \in Words
      /\ \A k \in 1..L : c[k] = stack[k].at /\ stack[k].at \in Nat
  BY <1>1, PathFacts, PathIs, PathOfFacts
<1>3. /\ Top \in Call /\ Top = stack[L] /\ c[L] = Top.at /\ Top.at >= 1
      /\ Dirs[Top.dir][Top.at] \in {"file", "full"}
  BY <1>1, <1>2, SeqFacts DEF Top, FInv
<1>4. Top.at \in DOMAIN Dirs[Top.dir] /\ Dirs[Top.dir][Top.at] \notin DOMAIN Dirs
  <2>1. Dirs[Top.dir] \in Seq(Kinds \cup DOMAIN Dirs) /\ Top.at \in Nat
    BY <1>3, FXConsts DEF Call
  <2>2. Top.at <= Len(Dirs[Top.dir])
    <3>1. L \in DOMAIN stack
      BY <1>1, <1>2
    <3> QED BY <1>1, <1>3, <3>1 DEF Chain
  <2>3. "file" \notin DOMAIN Dirs /\ "full" \notin DOMAIN Dirs
    BY FXConsts DEF Kinds
  <2> QED BY <1>3, <2>1, <2>2, <2>3
<1> HIDE DEF L, c
<1>5. L - 1 <= Len(c) /\ L \in 1..L /\ \A j \in 1..(L - 1) : j \in 1..L
  BY <1>2
<1>6. At(c) \in {"file", "full"}
  BY <1>1, <1>2, <1>3, <1>4, <1>5, WalkTop DEF L
<1>7. \A k \in 1..L : c[k] >= 1
  <2> TAKE k \in 1..L
  <2>1. CASE k = L
    BY <1>3, <2>1
  <2>2. CASE k # L
    <3>1. k \in 1..(L - 1)
      BY <1>2, <2>2
    <3> QED BY <1>1, <1>2, <3>1 DEF Chain, L
  <2> QED BY <2>1, <2>2
<1> DEFINE n == Len(out)
<1>8. /\ n \in Nat /\ DOMAIN out = 1..n /\ DOMAIN out' = 1..(n + 1) /\ out'[n + 1] = c
      /\ \A i \in 1..n : out'[i] = out[i]
  BY <1>1, <1>2
<1> HIDE DEF n
<1>9. \A i \in 1..(n + 1) : i = n + 1 \/ i \in 1..n
  BY <1>8
<1>10. \A i \in 1..n : Left(out[i], c) /\ Before(out[i], c)
  BY <1>1, <1>2, <1>8, OutFacts, LeftBefore DEF FInv, c
<1>11. Outs'
  <2>1. ASSUME NEW i \in DOMAIN out'
        PROVE  At(out'[i]) \in {"file", "full"} /\ \A k \in DOMAIN out'[i] : out'[i][k] >= 1
    <3>1. DOMAIN c = 1..L
      BY <1>2
    <3> QED BY <1>6, <1>7, <1>8, <1>9, <2>1, <3>1 DEF FInv, Outs
  <2>2. ASSUME NEW i \in DOMAIN out', NEW j \in DOMAIN out', i < j PROVE Before(out'[i], out'[j])
    <3>1. i \in 1..n /\ (j = n + 1 \/ j \in 1..n)
      BY <1>8, <2>2
    <3> QED BY <1>8, <1>10, <2>2, <3>1 DEF FInv, Outs
  <2> QED BY <2>1, <2>2 DEF Outs
<1>12. Goals' = Goals /\ Path' = c /\ pc'[0] = "entry"
  BY <1>1 DEF Goals, Fits, c, Path
<1>13. \A i \in DOMAIN out' : Past(out'[i], c)
  <2>1. Past(c, c)
    BY <1>2 DEF Past, Below
  <2> QED BY <1>8, <1>9, <1>10, <2>1 DEF Past
<1>14. ASSUME NEW s \in Goals, Past(s, c) PROVE \E i \in DOMAIN out' : out'[i] = s
  <2>1. CASE Left(s, c)
    <3>1. Printed(s)
      BY <1>1, <2>1 DEF FInv, c
    <3>2. PICK i \in 1..n : out[i] = s
      BY <1>8, <3>1 DEF Printed
    <3>3. i \in 1..(n + 1)
      BY <1>8
    <3> QED BY <1>8, <3>2, <3>3
  <2>2. CASE Below(s, c)
    <3>1. DOMAIN c = 1..L /\ s \in Seq(Nat) /\ Len(s) \in Nat /\ L <= Len(s) /\ \A j \in 1..L : s[j] = c[j]
      BY <1>2, <2>2, GoalFacts DEF Below
    <3>2. \A j \in 1..(L - 1) : s[j] = stack[j].at
      BY <1>2, <1>5, <3>1
    <3>3. At(s) = "file" /\ L - 1 <= Len(s)
      BY <1>2, <3>1, GoalFacts
    <3>4. Len(s) > L => Dirs[Top.dir][s[L]] \in DOMAIN Dirs
      BY <1>1, <3>1, <3>2, <3>3, WalkTop DEF L
    <3>5. Len(s) = L
      BY <1>2, <1>3, <1>4, <1>5, <3>1, <3>4
    <3>6. s = c
      <4>1. s = [j \in 1..L |-> s[j]] /\ c = [j \in 1..L |-> c[j]]
        BY <1>2, <3>1, <3>5
      <4> QED BY <3>1, <4>1
    <3>7. n + 1 \in 1..(n + 1)
      BY <1>8
    <3> QED BY <1>8, <3>6, <3>7
  <2> QED BY <1>14, <2>1, <2>2 DEF Past
<1>15. Chain' /\ (arg \in Args)' /\ Len(stack') <= NFree /\ arg'.len + Len(stack') - 1 <= PathMax
  BY <1>1 DEF FInv, Chain
<1> QED BY <1>11, <1>12, <1>13, <1>14, <1>15 DEF FInv, Printed

\* The end of a directory: all that is below it has been passed.
LEMMA FoundReturn ==
  ASSUME Shape, FInv, Return(0)
  PROVE  FInv'
<1> DEFINE L == Len(stack)
           c == Path
           f == PathOf(stack')
<1>1. /\ pc[0] = "entry" /\ stack # <<>> /\ stack \in Seq(Call) /\ Chain /\ DOMAIN pc = Proc /\ 0 \in Proc
      /\ UNCHANGED <<arg, out>> /\ stack' = SubSeq(stack, 1, Len(stack) - 1)
      /\ pc' = [pc EXCEPT ![0] = IF Len(stack) = 1 THEN "find_exit" ELSE "entry"]
      /\ Top.at = Len(Dirs[Top.dir])
  BY ProcFacts DEF Return, Goto, Shape, FInv
<1>2. /\ L \in Nat \ {0} /\ c \in Seq(Nat) /\ Len(c) = L /\ c[L] = Top.at
      /\ \A k \in 1..L : c[k] = stack[k].at
  BY <1>1, PathIs, PathOfFacts, SeqFacts DEF Top
<1>3. /\ stack' \in Seq(Call) /\ Len(stack') = L - 1 /\ \A j \in 1..(L - 1) : stack'[j] = stack[j]
  BY <1>1, SeqFront
<1>4. f \in Seq(Nat) /\ Len(f) = L - 1 /\ Path' = f /\ \A j \in 1..(L - 1) : f[j] = c[j]
  <2>1. f \in Seq(Nat) /\ Len(f) = L - 1 /\ \A j \in 1..(L - 1) : f[j] = stack'[j].at
    BY <1>3, PathOfFacts
  <2>2. \A j \in 1..(L - 1) : j \in 1..L
    BY <1>2
  <2> QED BY <1>2, <1>3, <2>1, <2>2, PathIs
<1>5. Dirs[Top.dir] \in Seq(Kinds \cup DOMAIN Dirs) /\ Top.dir \in DOMAIN Dirs /\ Top \in Call
  <2>1. Top \in Call
    BY <1>1, SeqFacts DEF Top
  <2> QED BY <2>1, FXConsts DEF Call
<1> HIDE DEF L, c, f
<1>6. ASSUME NEW s \in Goals, Below(s, f) PROVE Printed(s)
  <2>1. DOMAIN f = 1..(L - 1) /\ s \in Seq(Nat) /\ Len(s) \in Nat /\ L - 1 <= Len(s)
        /\ \A j \in 1..(L - 1) : s[j] = f[j]
    <3>1. DOMAIN f = 1..(L - 1) /\ s \in Seq(Nat)
      BY <1>4, GoalFacts, NatSeq
    <3>2. Len(s) \in Nat
      BY <3>1
    <3> QED BY <1>4, <1>6, <3>1, <3>2 DEF Below
  <2>2. \A j \in 1..(L - 1) : s[j] = stack[j].at
    <3>1. \A j \in 1..(L - 1) : j \in 1..L
      BY <1>2
    <3> QED BY <1>2, <1>4, <2>1, <3>1
  <2>3. At(s) = "file" /\ "file" \notin DOMAIN Dirs
    BY GoalFacts, FXConsts DEF Kinds
  <2>4. /\ Len(s) = L - 1 => At(s) = Top.dir
        /\ Len(s) >= L => s[L] \in DOMAIN Dirs[Top.dir]
    BY <1>1, <2>1, <2>2, <2>3, WalkTop DEF L
  <2>5. Len(s) >= L
    BY <1>2, <1>5, <2>1, <2>3, <2>4
  <2>6. s[L] <= c[L]
    BY <1>1, <1>2, <1>5, <2>4, <2>5
  <2>7. Past(s, c)
    BY <1>2, <1>4, <1>6, <2>1, <2>5, <2>6, PastLast
  <2> QED BY <1>1, <2>7 DEF FInv, c
<1>7. ASSUME NEW s \in Goals, Past(s, f) PROVE Printed(s)
  <2>1. Past(s, c) \/ Below(s, f)
    BY <1>2, <1>4, <1>7, GoalFacts, PastLast
  <2> QED BY <1>1, <1>6, <2>1 DEF FInv, c
<1>8. \A i \in DOMAIN out : Past(out[i], f)
  <2> TAKE i \in DOMAIN out
  <2>1. Past(out[i], c) /\ out[i] \in Seq(Nat)
    BY <1>1, OutFacts DEF FInv, c
  <2> QED BY <1>2, <1>4, <2>1, PastLast
<1>9. Goals' = Goals /\ (\A s : Printed(s)' <=> Printed(s)) /\ Outs' /\ (arg \in Args)'
  BY <1>1, SameGoals DEF FInv, Outs
<1>10. Chain'
  <2>1. DOMAIN stack = 1..L /\ DOMAIN stack' = 1..(L - 1)
    BY <1>1, <1>3 DEF L
  <2>2. \A k \in 1..(L - 1) : k \in 1..L
    BY <1>2
  <2>3. \A k \in 1..((L - 1) - 1) : k \in 1..(L - 1) /\ k + 1 \in 1..(L - 1)
    BY <1>2
  <2>4. stack' # <<>> => 1 \in 1..(L - 1)
    <3>1. stack' # <<>> => Len(stack') # 0
      BY <1>3
    <3> QED BY <1>2, <1>3, <3>1
  <2>5. \A k \in DOMAIN stack' : stack'[k].at <= Len(Dirs[stack'[k].dir])
    BY <1>1, <1>3, <2>1, <2>2 DEF Chain
  <2>6. stack' # <<>> => stack'[1].dir = "root"
    BY <1>1, <1>3, <2>4 DEF Chain
  <2>7. \A k \in 1..(Len(stack') - 1) :
          stack'[k].at >= 1 /\ stack'[k + 1].dir = Dirs[stack'[k].dir][stack'[k].at]
    BY <1>1, <1>3, <2>3 DEF Chain, L
  <2> QED BY <2>5, <2>6, <2>7 DEF Chain
<1>11. Len(stack') <= NFree /\ arg'.len + Len(stack') - 1 <= PathMax
  <2>1. L <= NFree /\ arg.len + L - 1 <= PathMax /\ arg.len \in Nat /\ NFree \in Nat /\ PathMax \in Nat
    BY <1>1, ArgFacts, FXConsts DEF FInv, L
  <2> QED BY <1>1, <1>2, <1>3, <2>1
<1>12. CASE L = 1
  <2>1. pc'[0] = "find_exit"
    BY <1>1, <1>12 DEF L
  <2>2. \A s \in Goals : Below(s, f)
    <3> TAKE s \in Goals
    <3>1. Len(s) \in Nat /\ Len(f) = 0 /\ DOMAIN f = {}
      BY <1>4, <1>12, GoalFacts
    <3> QED BY <3>1 DEF Below
  <2> QED BY <1>6, <1>9, <1>10, <1>11, <2>1, <2>2 DEF FInv
<1>13. CASE L # 1
  <2>1. pc'[0] = "entry"
    BY <1>1, <1>13 DEF L
  <2> QED BY <1>1, <1>4, <1>7, <1>8, <1>9, <1>10, <1>11, <2>1 DEF FInv
<1> QED BY <1>12, <1>13

LEMMA FoundMain ==
  ASSUME Shape, FInv, FindMain(0)
  PROVE  FInv'
<1>1. /\ pc[0] = "find" /\ UNCHANGED <<arg, out>> /\ out = <<>> /\ stack = <<>>
      /\ DOMAIN pc = Proc /\ 0 \in Proc
      /\ Len(stack) = 0
  BY ProcFacts DEF FindMain, Shape, FInv
<1>2. Goals' = Goals /\ (\A s : Printed(s)' <=> Printed(s)) /\ Outs' /\ (arg \in Args)'
  BY <1>1, SameGoals DEF FInv, Outs
<1>3. CASE arg.is # "dir" \/ ~CanOpen \/ TooLong
  <2>1. pc' = [pc EXCEPT ![0] = "find_exit"] /\ stack' = stack
    BY <1>3 DEF FindMain, Goto
  <2>2. pc'[0] = "find_exit"
    BY <1>1, <2>1
  <2>3. arg.is = "dir" => Goals = {}
    <3> SUFFICES ASSUME arg.is = "dir", NEW s \in Goals PROVE FALSE
      OBVIOUS
    <3>1. Len(s) \in 1..(NFree - 1) /\ arg.len + Len(s) <= MAXPATH /\ arg.len + Len(s) - 1 <= PathMax
      BY GoalFacts
    <3> QED BY <1>1, <1>3, <3>1, ArgFacts, FXConsts DEF CanOpen, TooLong
  <2> QED BY <1>1, <1>2, <2>1, <2>2, <2>3 DEF FInv, Chain
<1>4. CASE ~(arg.is # "dir" \/ ~CanOpen \/ TooLong)
  <2>1. pc' = [pc EXCEPT ![0] = "entry"] /\ stack' = Append(stack, [dir |-> "root", at |-> 0])
    BY <1>4 DEF FindMain, Goto, Push
  <2>2. pc'[0] = "entry" /\ stack' = <<[dir |-> "root", at |-> 0]>>
    BY <1>1, <2>1
  <2>3. /\ Len(stack') = 1 /\ DOMAIN stack' = {1} /\ stack'[1] = [dir |-> "root", at |-> 0] /\ 1..(1 - 1) = {}
    BY <2>2
  <2>4. Chain' /\ Len(stack') <= NFree /\ arg.len + Len(stack') - 1 <= PathMax
    <3>1. Len(Dirs["root"]) \in Nat
      BY FXConsts
    <3>2. NFree \in Nat /\ PathMax \in Nat /\ arg.len \in Nat /\ 0 < NFree /\ arg.len + 0 <= PathMax
      BY <1>1, <1>4, FXConsts, ArgFacts DEF CanOpen, TooLong
    <3> QED BY <2>3, <3>1, <3>2 DEF Chain
  <2>5. \A s \in Goals : ~Past(s, Path')
    <3> SUFFICES ASSUME NEW s \in Goals, Past(s, Path') PROVE FALSE
      OBVIOUS
    <3>1. Path' = [i \in 1..1 |-> stack'[i].at] /\ 1..1 = {1}
      BY <2>3, PathIs DEF PathOf
    <3>2. DOMAIN Path' = {1} /\ Path'[1] = 0
      BY <2>3, <3>1
    <3>3. s \in Seq(Nat) /\ 1 \in 1..Len(s) /\ s[1] >= 1 /\ s[1] \in Nat
      BY GoalFacts
    <3> QED BY <3>2, <3>3 DEF Past, Left, Below
  <2> QED BY <1>1, <1>2, <2>2, <2>4, <2>5 DEF FInv
<1> QED BY <1>3, <1>4

\* Killed, find keeps its calls, and promises nothing about what it left.
LEMMA FoundOverflow ==
  ASSUME Shape, FInv, Overflow(0)
  PROVE  FInv'
<1>1. /\ UNCHANGED <<out, arg, stack>> /\ Len(stack) = Depth
      /\ DOMAIN pc = Proc /\ 0 \in Proc /\ pc' = [pc EXCEPT ![0] = "find_exit"]
  BY ProcFacts DEF Overflow, findVars, Goto, Shape
<1>2. stack # <<>> /\ pc'[0] = "find_exit"
  BY <1>1, FXConsts
<1>3. Chain' /\ Outs' /\ (arg \in Args)'
  BY <1>1 DEF FInv, Chain, Outs
<1> QED BY <1>1, <1>2, <1>3 DEF FInv

\* A step that is not one of find, or by which it exits.
LEMMA FoundSame ==
  ASSUME FInv, UNCHANGED <<out, arg, stack>>, pc'[0] = pc[0] \/ (pc[0] = "find_exit" /\ pc'[0] = "gone")
  PROVE  FInv'
<1>1. Goals' = Goals /\ (\A s : Printed(s)' <=> Printed(s)) /\ Outs' /\ (arg \in Args)'
  BY SameGoals DEF FInv, Outs
<1>2. Path' = Path /\ Top' = Top /\ Chain'
  BY DEF Path, Top, FInv, Chain
<1> QED BY <1>1, <1>2 DEF FInv

LEMMA FoundStart == Init => FoundInv
<1> SUFFICES ASSUME Init, prog = "find" PROVE FInv
  BY DEF FoundInv
<1>1. Len(Start[prog]) = 2 /\ Start[prog][1] = "find"
  BY StartDef
<1>2. pc[0] = "find" /\ out = <<>> /\ stack = <<>> /\ arg \in Args
  BY <1>1, ProcFacts DEF Init, FindXargsInit
<1>3. DOMAIN out = {} /\ DOMAIN stack = {} /\ Len(stack) = 0 /\ 1..(0 - 1) = {}
  BY <1>2
<1> QED BY <1>2, <1>3 DEF FInv, Outs, Chain

LEMMA FoundInductive == ShapeInv /\ FoundInv /\ [Next]_vars => FoundInv'
<1> SUFFICES ASSUME ShapeInv, FoundInv, [Next]_vars, (prog = "find")' PROVE FInv'
  BY DEF FoundInv
<1>1. CASE UNCHANGED vars
  <2>1. UNCHANGED <<prog, out, arg, stack, pc>>
    BY <1>1 DEF vars, kernel, findVars
  <2> QED BY <2>1, FoundSame DEF FoundInv
<1>2. ASSUME NEW q \in Proc, Step(q) PROVE FInv'
  <2>1. Shape /\ FInv /\ UNCHANGED prog
    BY <1>2 DEF Step, ShapeInv, FoundInv, Together
  <2>2. pc[q] \in FindAt \cup XargsAt \cup CommandAt
    BY <2>1 DEF Shape, CommandAt
  <2>3. FindStep(q) \/ XargsStep(q)
    BY <1>2, <2>2, FindXargsOnly
  <2>4. DOMAIN pc = Proc /\ 0 \in Proc
    BY <2>1, ProcFacts DEF Shape
  <2>5. CASE \/ InputEnd(1) \/ ReadLine(1) \/ XFork(1) \/ XWait(1) \/ XExit(1)
             \/ Exec(2) \/ Command(2) \/ FindExit(0)
    <3>1. UNCHANGED <<out, arg, stack>>
      BY <2>5 DEF InputEnd, ReadLine, XFork, XWait, XExit, Exec, Command, FindExit, findVars
    <3>2. pc'[0] = pc[0] \/ (pc[0] = "find_exit" /\ pc'[0] = "gone")
      BY <2>4, <2>5 DEF InputEnd, ReadLine, XFork, XWait, XExit, Exec, Command, FindExit, Goto, exit, fork
    <3> QED BY <2>1, <3>1, <3>2, FoundSame
  <2> QED BY <2>1, <2>3, <2>5, WhoSteps, FoundMain, FoundEntry, FoundPrint, FoundReturn, FoundOverflow
<1> QED BY <1>1, <1>2 DEF Next

\* find prints only files with the name, once and in order, in every tree of
\* directories and for every depth of its stack; and if it is not killed, all
\* those with a path that fits and a name shorter than DIRSIZ.
THEOREM FilesFound == Spec => []FoundAll
<1>1. FoundInv => FoundAll
  BY DEF FoundInv, FInv, Outs, FoundAll, Goals
<1>2. Init => ShapeInv /\ FoundInv
  BY ShapeStart, FoundStart
<1>3. ShapeInv /\ FoundInv /\ [Next]_vars => (ShapeInv /\ FoundInv)'
  BY ShapeInductive, FoundInductive
<1> QED BY <1>1, <1>2, <1>3, PTL DEF Spec

----------------------------------------------------------------------------
(* primes                                                                  *)

\* The processes that have a prime are 1 to Last.
Last      == Len(out)
Forked(p) == IF p = 0 THEN pc[0] \in {"closeR", "feed", "wait", "gone"}
             ELSE p <= Last /\ pc[p] \in {"unread", "filter", "pass", "wait", "gone"}

\* Where the processes are: each with a prime has read it from the one before
\* it, there is at most one without, and none after a fork has failed.
Kept ==
  /\ DOMAIN pc = Proc /\ DOMAIN fds = Proc /\ kids \in [Proc -> BOOLEAN] /\ failed \in BOOLEAN
  /\ buf \in [Proc -> Seq(Nat)] /\ num \in [Proc -> Nat] /\ prime \in [Proc -> Nat]
  /\ left \in [Proc -> Nat] /\ out \in Seq(Nat) /\ Last \in Proc
Feeder ==
  /\ pc[0] \in {"pipe", "fork", "closeR", "feed", "wait", "gone", "stage", "first"}
  /\ pc[0] \in {"pipe", "fork", "stage", "first"} => Last = 0 /\ buf[0] = <<>>
  /\ pc[0] \in {"stage", "first"} => failed
  /\ left[0] = 0
Reader(p) ==
  /\ p <= Last => /\ pc[p] \in {"right", "split", "unread", "filter", "pass", "wait", "gone"}
                  /\ prime[p] = out[p]
  /\ p = Last + 1 => pc[p] \in {"none", "stage", "next", "first", "gone"}
  /\ p > Last + 1 \/ (p > Last /\ failed) => pc[p] = "none"
  /\ p <= Last \/ pc[p] = "first" => left[p] = p - 1
  /\ pc[p] = "stage" => p = 1
  /\ pc[p] = "next" => p > 1
  /\ pc[p] # "none" => Forked(p - 1)
  /\ pc[p] \in {"wait", "gone"} => buf[p - 1] = <<>> /\ pc[p - 1] \in {"wait", "gone"}
  /\ pc[p] \in {"stage", "next", "first", "right", "split", "unread", "filter", "pass"} =>
       R(p - 1) \in fds[p]
Writer(p) ==
  /\ pc[p] \in {"fork", "closeR", "feed", "split", "unread", "filter", "pass"} => W(p) \in fds[p]
  /\ pc[p] \in {"fork", "split"} => R(p) \in fds[p]
  /\ failed => pc[p] \notin {"pipe", "fork", "right", "split"}
  /\ p > Last => buf[p] = <<>>
  /\ ~failed /\ Forked(p) => p + 1 \in Proc /\ kids[p] /\ pc[p + 1] # "none"
  /\ ~failed /\ p <= Last /\ pc[p] = "gone" => pc[p + 1] = "gone"
Ctl == Kept /\ Feeder /\ (\A p \in Proc \ {0} : Reader(p)) /\ (\A p \in Proc : Writer(p))
CtlInv == prog = "primes" => Ctl

\* The numbers on their way in the hand of process i, or (c = 1) in pipe i.
Items(s)     == {s[a] : a \in DOMAIN s}
Flying(i, c) == IF c = 1 THEN Items(buf[i])
                ELSE {n \in {num[i]} : i > 0 /\ pc[i] = "pass"}

\* They are sorted along the pipeline; all have been fed and are larger than
\* the primes, and no prime that they have passed divides them.
Queues == \A i \in Proc : \A a, b \in DOMAIN buf[i] : a < b => buf[i][a] < buf[i][b]
Sorted == \A i, j \in Proc, c, d \in {0, 1} : 2 * i + c < 2 * j + d =>
            \A x \in Flying(i, c), y \in Flying(j, d) : y < x
Sieved == \A i \in Proc, c \in {0, 1} : \A x \in Flying(i, c) :
            /\ 2 <= x /\ x < num[0]
            /\ \A k \in DOMAIN out : out[k] < x /\ (k <= i => x % out[k] # 0)

\* Every number fed is a prime printed, has a divisor printed, or is on its
\* way, unless it came too late.
Settled(n) == \E k \in DOMAIN out : out[k] = n \/ (out[k] < n /\ n % out[k] = 0)
Late(n)    == failed /\ \A k \in DOMAIN out : out[k] < n
Covered(n) == Settled(n) \/ Late(n) \/ \E i \in Proc, c \in {0, 1} : n \in Flying(i, c)
Outputs ==
  /\ \A k \in DOMAIN out : out[k] \in 2..(num[0] - 1) /\ IsPrime(out[k])
  /\ \A k, l \in DOMAIN out : k < l => out[k] < out[l]
Dat ==
  /\ num[0] >= 2 /\ (num[0] = 2 \/ num[0] <= LIMIT + 1)
  /\ ~failed /\ pc[0] \in {"wait", "gone"} => num[0] > LIMIT
  /\ Queues /\ Sorted /\ Sieved /\ Outputs
  /\ \A n \in 2..(num[0] - 1) : Covered(n)
DatInv == prog = "primes" => Dat

LEMMA CtlStart == Init => CtlInv
<1> SUFFICES ASSUME Init, prog = "primes" PROVE Ctl
  BY DEF CtlInv
<1>1. Len(Start[prog]) = 1 /\ Start[prog][1] = "pipe"
  BY StartDef
<1>2. pc = [q \in Proc |-> IF q < 1 THEN Start[prog][q + 1] ELSE "none"]
  BY <1>1 DEF Init
<1>3. \A q \in Proc : pc[q] = IF q = 0 THEN "pipe" ELSE "none"
  BY <1>1, <1>2, ProcFacts
<1>4. /\ out = <<>> /\ Len(out) = 0 /\ failed = FALSE /\ buf = [q \in Proc |-> <<>>]
      /\ kids = [q \in Proc |-> FALSE] /\ DOMAIN fds = Proc
      /\ num = [q \in Proc |-> 2] /\ prime = [q \in Proc |-> 0] /\ left = [q \in Proc |-> 0]
  BY DEF Init, PrimesInit
<1>5. Kept
  BY <1>2, <1>4, ProcFacts DEF Kept, Last
<1>6. Feeder
  BY <1>3, <1>4, ProcFacts DEF Feeder, Last
<1>7. ASSUME NEW p \in Proc \ {0} PROVE Reader(p)
  BY <1>3, <1>4, ProcFacts DEF Reader, Last
<1>8. ASSUME NEW p \in Proc PROVE Writer(p)
  BY <1>3, <1>4, ProcFacts DEF Writer, Forked, Last
<1> QED BY <1>5, <1>6, <1>7, <1>8 DEF Ctl

\* The processes around a process q.
LEMMA Around ==
  ASSUME NEW q \in Proc
  PROVE  /\ q \in Nat /\ q <= MaxProc /\ MaxProc \in Nat
         /\ \A p \in Proc : p \in Nat /\ p <= MaxProc
         /\ q # 0 => q - 1 \in Proc
         /\ R(q) # W(q) /\ \A p, r \in Proc : R(p) # W(r) /\ (R(p) = R(r) => p = r) /\ (W(p) = W(r) => p = r)
  BY PipesAssumption DEF Proc, R, W

LEMMA CtlMakePipe == ASSUME Ctl, NEW q \in Proc, MakePipe(q) PROVE Ctl'
<1> USE Around, ProcFacts
<1>1. Kept /\ Feeder /\ (\A p \in Proc \ {0} : Reader(p)) /\ (\A p \in Proc : Writer(p))
  BY DEF Ctl
<1>2. /\ UNCHANGED <<buf, kids, failed, out, num, prime, left>> /\ Last' = Last
      /\ pc[q] \in {"pipe", "right"}
      /\ pc' = [pc EXCEPT ![q] = IF pc[q] = "pipe" THEN "fork" ELSE "split"]
      /\ fds' = [fds EXCEPT ![q] = @ \cup {R(q), W(q)}]
  BY DEF MakePipe, pipe, Goto, locals, Last
<1>3. Kept'
  BY <1>1, <1>2 DEF Kept
<1>4. Feeder'
  BY <1>1, <1>2 DEF Kept, Feeder, Reader
<1>5. ASSUME NEW p \in Proc \ {0} PROVE Reader(p)'
  BY <1>1, <1>2 DEF Kept, Feeder, Reader, Forked
<1>6. ASSUME NEW p \in Proc PROVE Writer(p)'
  BY <1>1, <1>2 DEF Kept, Feeder, Reader, Writer, Forked
<1> QED BY <1>3, <1>4, <1>5, <1>6 DEF Ctl

\* What a process that is at a label is.
LEMMA WhoIsAt ==
  ASSUME Ctl, NEW q \in Proc
  PROVE  /\ q \in Nat /\ Last \in Nat
         /\ pc[q] \in {"pipe", "fork", "closeR", "feed"} => q = 0
         /\ pc[q] \in {"right", "split", "unread", "filter", "pass"} => q > 0 /\ q <= Last /\ left[q] = q - 1
         /\ pc[q] = "wait" => q <= Last
         /\ pc[q] \in {"stage", "next", "first"} /\ q > 0 => q = Last + 1 /\ ~failed
         /\ pc[q] = "next" => q > 1
<1>1. /\ q \in Nat /\ Last \in Nat /\ Feeder /\ (q # 0 => Reader(q))
  BY Around DEF Ctl, Kept
<1>2. CASE q = 0
  BY <1>1, <1>2 DEF Feeder
<1>3. CASE q > 0 /\ q <= Last
  BY <1>1, <1>3 DEF Reader
<1>4. CASE q = Last + 1
  BY <1>1, <1>4 DEF Reader
<1>5. CASE q > Last + 1
  BY <1>1, <1>5 DEF Reader
<1> QED BY <1>1, <1>2, <1>3, <1>4, <1>5

LEMMA CtlFeedClose == ASSUME Ctl, NEW q \in Proc, FeedClose(q) PROVE Ctl'
<1>1. Kept /\ Feeder /\ (\A p \in Proc \ {0} : Reader(p)) /\ (\A p \in Proc : Writer(p))
  BY DEF Ctl
<1>2. /\ UNCHANGED <<buf, kids, failed, out, num, prime, left>> /\ Last' = Last
      /\ pc[q] = "closeR" /\ pc' = [pc EXCEPT ![q] = "feed"]
      /\ fds' = [fds EXCEPT ![q] = @ \ {R(q)}]
  BY DEF FeedClose, close, Goto, locals, Last
<1>3. Kept'
  BY <1>1, <1>2, WhoIsAt, ProcFacts DEF Kept
<1>4. Feeder'
  BY <1>1, <1>2, WhoIsAt, ProcFacts DEF Kept, Feeder
<1>5. ASSUME NEW p \in Proc \ {0} PROVE Reader(p)'
  <2>1. Reader(p) /\ Feeder /\ p - 1 \in Proc /\ p \in Nat \ {0} /\ q \in Nat /\ Last \in Nat
    BY <1>1, Around DEF Kept
  <2>2. /\ pc'[p] = IF p = q THEN "feed" ELSE pc[p]
        /\ pc'[p - 1] = IF p - 1 = q THEN "feed" ELSE pc[p - 1]
    BY <1>1, <1>2, <2>1 DEF Kept
  <2>3. R(p - 1) \in fds[p] /\ pc'[p] \notin {"gone", "wait"} => R(p - 1) \in fds'[p]
    <3>1. p = q => R(p - 1) # R(q) /\ R(p - 1) \notin {W(0), W(q), W(q - 1)}
      BY <2>1 DEF R, W
    <3> QED BY <1>1, <1>2, <2>1, <2>2, <3>1 DEF Kept
  <2> QED BY <1>2, <2>1, <2>2, <2>3, WhoIsAt DEF Feeder, Reader, Forked
<1>6. ASSUME NEW p \in Proc PROVE Writer(p)'
  <2>1. Writer(p) /\ Feeder /\ p \in Nat /\ q \in Nat /\ Last \in Nat /\ (q # 0 => Reader(q))
    BY <1>1, Around DEF Kept
  <2>2. /\ pc'[p] = IF p = q THEN "feed" ELSE pc[p]
        /\ p + 1 \in Proc => pc'[p + 1] = IF p + 1 = q THEN "feed" ELSE pc[p + 1]
    BY <1>1, <1>2, <2>1 DEF Kept
  <2>3. /\ W(p) \in fds[p] /\ pc'[p] \notin {"gone", "wait", "first"} => W(p) \in fds'[p]
        /\ R(p) \in fds[p] /\ pc'[p] \in {"fork", "split"} => R(p) \in fds'[p]
    <3>1. p = q => W(p) # R(q)
      BY DEF R, W
    <3> QED BY <1>1, <1>2, <2>1, <2>2, <3>1 DEF Kept
  <2>4. ~failed /\ p <= Last /\ pc[p] = "gone" => p + 1 \in Proc
    BY <2>1 DEF Writer, Forked
  <2> QED BY <1>2, <2>1, <2>2, <2>3, <2>4, WhoIsAt DEF Feeder, Reader, Writer, Forked
<1> QED BY <1>3, <1>4, <1>5, <1>6 DEF Ctl

LEMMA CtlFeedEnd == ASSUME Ctl, NEW q \in Proc, FeedEnd(q) PROVE Ctl'
<1>1. Kept /\ Feeder /\ (\A p \in Proc \ {0} : Reader(p)) /\ (\A p \in Proc : Writer(p))
  BY DEF Ctl
<1>2. /\ UNCHANGED <<buf, kids, failed, out, num, prime, left>> /\ Last' = Last
      /\ pc[q] = "feed" /\ pc' = [pc EXCEPT ![q] = "wait"]
      /\ fds' = [fds EXCEPT ![q] = @ \ {W(q)}]
  BY DEF FeedEnd, close, Goto, locals, Last
<1>3. Kept'
  BY <1>1, <1>2, WhoIsAt, ProcFacts DEF Kept
<1>4. Feeder'
  BY <1>1, <1>2, WhoIsAt, ProcFacts DEF Kept, Feeder
<1>5. ASSUME NEW p \in Proc \ {0} PROVE Reader(p)'
  <2>1. Reader(p) /\ Feeder /\ p - 1 \in Proc /\ p \in Nat \ {0} /\ q \in Nat /\ Last \in Nat
    BY <1>1, Around DEF Kept
  <2>2. /\ pc'[p] = IF p = q THEN "wait" ELSE pc[p]
        /\ pc'[p - 1] = IF p - 1 = q THEN "wait" ELSE pc[p - 1]
    BY <1>1, <1>2, <2>1 DEF Kept
  <2>3. R(p - 1) \in fds[p] /\ pc'[p] \notin {"gone", "wait"} => R(p - 1) \in fds'[p]
    <3>1. p = q => R(p - 1) # R(q) /\ R(p - 1) \notin {W(0), W(q), W(q - 1)}
      BY <2>1 DEF R, W
    <3> QED BY <1>1, <1>2, <2>1, <2>2, <3>1 DEF Kept
  <2> QED BY <1>2, <2>1, <2>2, <2>3, WhoIsAt DEF Feeder, Reader, Forked
<1>6. ASSUME NEW p \in Proc PROVE Writer(p)'
  <2>1. Writer(p) /\ Feeder /\ p \in Nat /\ q \in Nat /\ Last \in Nat /\ (q # 0 => Reader(q))
    BY <1>1, Around DEF Kept
  <2>2. /\ pc'[p] = IF p = q THEN "wait" ELSE pc[p]
        /\ p + 1 \in Proc => pc'[p + 1] = IF p + 1 = q THEN "wait" ELSE pc[p + 1]
    BY <1>1, <1>2, <2>1 DEF Kept
  <2>3. /\ W(p) \in fds[p] /\ pc'[p] \notin {"gone", "wait", "first"} => W(p) \in fds'[p]
        /\ R(p) \in fds[p] /\ pc'[p] \in {"fork", "split"} => R(p) \in fds'[p]
    <3>1. p = q => W(p) # R(q)
      BY DEF R, W
    <3> QED BY <1>1, <1>2, <2>1, <2>2, <3>1 DEF Kept
  <2>4. ~failed /\ p <= Last /\ pc[p] = "gone" => p + 1 \in Proc
    BY <2>1 DEF Writer, Forked
  <2> QED BY <1>2, <2>1, <2>2, <2>3, <2>4, WhoIsAt DEF Feeder, Reader, Writer, Forked
<1> QED BY <1>3, <1>4, <1>5, <1>6 DEF Ctl

LEMMA CtlCloseRead == ASSUME Ctl, NEW q \in Proc, CloseRead(q) PROVE Ctl'
<1>1. Kept /\ Feeder /\ (\A p \in Proc \ {0} : Reader(p)) /\ (\A p \in Proc : Writer(p))
  BY DEF Ctl
<1>2. /\ UNCHANGED <<buf, kids, failed, out, num, prime, left>> /\ Last' = Last
      /\ pc[q] = "unread" /\ pc' = [pc EXCEPT ![q] = "filter"]
      /\ fds' = [fds EXCEPT ![q] = @ \ {R(q)}]
  BY DEF CloseRead, close, Goto, locals, Last
<1>3. Kept'
  BY <1>1, <1>2, WhoIsAt, ProcFacts DEF Kept
<1>4. Feeder'
  BY <1>1, <1>2, WhoIsAt, ProcFacts DEF Kept, Feeder
<1>5. ASSUME NEW p \in Proc \ {0} PROVE Reader(p)'
  <2>1. Reader(p) /\ Feeder /\ p - 1 \in Proc /\ p \in Nat \ {0} /\ q \in Nat /\ Last \in Nat
    BY <1>1, Around DEF Kept
  <2>2. /\ pc'[p] = IF p = q THEN "filter" ELSE pc[p]
        /\ pc'[p - 1] = IF p - 1 = q THEN "filter" ELSE pc[p - 1]
    BY <1>1, <1>2, <2>1 DEF Kept
  <2>3. R(p - 1) \in fds[p] /\ pc'[p] \notin {"gone", "wait"} => R(p - 1) \in fds'[p]
    <3>1. p = q => R(p - 1) # R(q) /\ R(p - 1) \notin {W(0), W(q), W(q - 1)}
      BY <2>1 DEF R, W
    <3> QED BY <1>1, <1>2, <2>1, <2>2, <3>1 DEF Kept
  <2> QED BY <1>2, <2>1, <2>2, <2>3, WhoIsAt DEF Feeder, Reader, Forked
<1>6. ASSUME NEW p \in Proc PROVE Writer(p)'
  <2>1. Writer(p) /\ Feeder /\ p \in Nat /\ q \in Nat /\ Last \in Nat /\ (q # 0 => Reader(q))
    BY <1>1, Around DEF Kept
  <2>2. /\ pc'[p] = IF p = q THEN "filter" ELSE pc[p]
        /\ p + 1 \in Proc => pc'[p + 1] = IF p + 1 = q THEN "filter" ELSE pc[p + 1]
    BY <1>1, <1>2, <2>1 DEF Kept
  <2>3. /\ W(p) \in fds[p] /\ pc'[p] \notin {"gone", "wait", "first"} => W(p) \in fds'[p]
        /\ R(p) \in fds[p] /\ pc'[p] \in {"fork", "split"} => R(p) \in fds'[p]
    <3>1. p = q => W(p) # R(q)
      BY DEF R, W
    <3> QED BY <1>1, <1>2, <2>1, <2>2, <3>1 DEF Kept
  <2>4. ~failed /\ p <= Last /\ pc[p] = "gone" => p + 1 \in Proc
    BY <2>1 DEF Writer, Forked
  <2> QED BY <1>2, <2>1, <2>2, <2>3, <2>4, WhoIsAt DEF Feeder, Reader, Writer, Forked
<1> QED BY <1>3, <1>4, <1>5, <1>6 DEF Ctl

LEMMA CtlWaitExit == ASSUME Ctl, NEW q \in Proc, WaitExit(q) PROVE Ctl'
<1>1. Kept /\ Feeder /\ (\A p \in Proc \ {0} : Reader(p)) /\ (\A p \in Proc : Writer(p))
  BY DEF Ctl
<1>2. /\ UNCHANGED <<buf, kids, failed, out, num, prime, left>> /\ Last' = Last
      /\ pc[q] = "wait" /\ pc' = [pc EXCEPT ![q] = "gone"] /\ (kids[q] => pc[q + 1] = "gone")
      /\ fds' = [fds EXCEPT ![q] = {}]
  BY DEF WaitExit, Waits, CanWait, exit, locals, Last
<1>3. Kept'
  BY <1>1, <1>2, WhoIsAt, ProcFacts DEF Kept
<1>4. Feeder'
  BY <1>1, <1>2, WhoIsAt, ProcFacts DEF Kept, Feeder
<1>5. ASSUME NEW p \in Proc \ {0} PROVE Reader(p)'
  <2>1. Reader(p) /\ Feeder /\ p - 1 \in Proc /\ p \in Nat \ {0} /\ q \in Nat /\ Last \in Nat
    BY <1>1, Around DEF Kept
  <2>2. /\ pc'[p] = IF p = q THEN "gone" ELSE pc[p]
        /\ pc'[p - 1] = IF p - 1 = q THEN "gone" ELSE pc[p - 1]
    BY <1>1, <1>2, <2>1 DEF Kept
  <2>3. R(p - 1) \in fds[p] /\ pc'[p] \notin {"gone", "wait"} => R(p - 1) \in fds'[p]
    <3>1. p = q => R(p - 1) # R(q) /\ R(p - 1) \notin {W(0), W(q), W(q - 1)}
      BY <2>1 DEF R, W
    <3> QED BY <1>1, <1>2, <2>1, <2>2, <3>1 DEF Kept
  <2> QED BY <1>2, <2>1, <2>2, <2>3, WhoIsAt DEF Feeder, Reader, Forked
<1>6. ASSUME NEW p \in Proc PROVE Writer(p)'
  <2>1. Writer(p) /\ Feeder /\ p \in Nat /\ q \in Nat /\ Last \in Nat /\ (q # 0 => Reader(q))
    BY <1>1, Around DEF Kept
  <2>2. /\ pc'[p] = IF p = q THEN "gone" ELSE pc[p]
        /\ p + 1 \in Proc => pc'[p + 1] = IF p + 1 = q THEN "gone" ELSE pc[p + 1]
    BY <1>1, <1>2, <2>1 DEF Kept
  <2>3. /\ W(p) \in fds[p] /\ pc'[p] \notin {"gone", "wait", "first"} => W(p) \in fds'[p]
        /\ R(p) \in fds[p] /\ pc'[p] \in {"fork", "split"} => R(p) \in fds'[p]
    <3>1. p = q => W(p) # R(q)
      BY DEF R, W
    <3> QED BY <1>1, <1>2, <2>1, <2>2, <3>1 DEF Kept
  <2>4. ~failed /\ p <= Last /\ pc[p] = "gone" => p + 1 \in Proc
    BY <2>1 DEF Writer, Forked
  <2> QED BY <1>2, <2>1, <2>2, <2>3, <2>4, WhoIsAt DEF Feeder, Reader, Writer, Forked
<1> QED BY <1>3, <1>4, <1>5, <1>6 DEF Ctl

LEMMA CtlStage == ASSUME Ctl, NEW q \in Proc, Stage(q) PROVE Ctl'
<1>1. Kept /\ Feeder /\ (\A p \in Proc \ {0} : Reader(p)) /\ (\A p \in Proc : Writer(p))
  BY DEF Ctl
<1>2. /\ UNCHANGED <<buf, kids, failed, out, num, prime>> /\ Last' = Last
      /\ pc[q] = "stage" /\ pc' = [pc EXCEPT ![q] = "first"]
      /\ fds' = [fds EXCEPT ![q] = @ \ {W(0)}] /\ left' = [left EXCEPT ![q] = 0]
  BY DEF Stage, close, Goto, Last
<1>3. Kept'
  BY <1>1, <1>2, WhoIsAt, ProcFacts DEF Kept
<1>4. Feeder'
  BY <1>1, <1>2, WhoIsAt, ProcFacts DEF Kept, Feeder
<1>5. ASSUME NEW p \in Proc \ {0} PROVE Reader(p)'
  <2>1. Reader(p) /\ Feeder /\ p - 1 \in Proc /\ p \in Nat \ {0} /\ q \in Nat /\ Last \in Nat
    BY <1>1, Around DEF Kept
  <2>2. /\ pc'[p] = IF p = q THEN "first" ELSE pc[p]
        /\ pc'[p - 1] = IF p - 1 = q THEN "first" ELSE pc[p - 1]
    BY <1>1, <1>2, <2>1 DEF Kept
  <2>3. R(p - 1) \in fds[p] /\ pc'[p] \notin {"gone", "wait"} => R(p - 1) \in fds'[p]
    <3>1. p = q => R(p - 1) # R(q) /\ R(p - 1) \notin {W(0), W(q), W(q - 1)}
      BY <2>1 DEF R, W
    <3> QED BY <1>1, <1>2, <2>1, <2>2, <3>1 DEF Kept
  <2>4. left'[p] = IF p = q THEN q - 1 ELSE left[p]
    BY <1>1, <1>2, <2>1, WhoIsAt DEF Kept, Reader, Feeder
  <2> QED BY <1>2, <2>1, <2>2, <2>3, WhoIsAt, <2>4 DEF Feeder, Reader, Forked
<1>6. ASSUME NEW p \in Proc PROVE Writer(p)'
  <2>1. Writer(p) /\ Feeder /\ p \in Nat /\ q \in Nat /\ Last \in Nat /\ (q # 0 => Reader(q))
    BY <1>1, Around DEF Kept
  <2>2. /\ pc'[p] = IF p = q THEN "first" ELSE pc[p]
        /\ p + 1 \in Proc => pc'[p + 1] = IF p + 1 = q THEN "first" ELSE pc[p + 1]
    BY <1>1, <1>2, <2>1 DEF Kept
  <2>3. /\ W(p) \in fds[p] /\ pc'[p] \notin {"gone", "wait", "first"} => W(p) \in fds'[p]
        /\ R(p) \in fds[p] /\ pc'[p] \in {"fork", "split"} => R(p) \in fds'[p]
    <3>1. p = q => W(p) # R(q)
      BY DEF R, W
    <3> QED BY <1>1, <1>2, <2>1, <2>2, <3>1 DEF Kept
  <2>4. ~failed /\ p <= Last /\ pc[p] = "gone" => p + 1 \in Proc
    BY <2>1 DEF Writer, Forked
  <2> QED BY <1>2, <2>1, <2>2, <2>3, <2>4, WhoIsAt DEF Feeder, Reader, Writer, Forked
<1> QED BY <1>3, <1>4, <1>5, <1>6 DEF Ctl

LEMMA CtlNextStage == ASSUME Ctl, NEW q \in Proc, NextStage(q) PROVE Ctl'
<1>1. Kept /\ Feeder /\ (\A p \in Proc \ {0} : Reader(p)) /\ (\A p \in Proc : Writer(p))
  BY DEF Ctl
<1>2. /\ UNCHANGED <<buf, kids, failed, out, num, prime>> /\ Last' = Last
      /\ pc[q] = "next" /\ pc' = [pc EXCEPT ![q] = "first"]
      /\ fds' = [fds EXCEPT ![q] = @ \ {W(q - 1), R(left[q - 1])}] /\ left' = [left EXCEPT ![q] = q - 1]
  BY DEF NextStage, Unneeded, Goto, Last
<1>7. q > 1 /\ q - 1 \in Nat /\ R(q - 1) # R(left[q - 1])
  <2>1. q > 1 /\ q \in Proc \ {0} /\ Reader(q) /\ q = Last + 1 /\ Last \in Nat
    BY <1>1, <1>2, WhoIsAt
  <2>2. q - 1 \in Proc \ {0} /\ q - 1 <= Last
    BY <2>1, Around
  <2>3. Reader(q - 1) /\ left[q - 1] = q - 2
    BY <1>1, <2>1, <2>2 DEF Reader
  <2> QED BY <2>1, <2>3 DEF R
<1>3. Kept'
  BY <1>1, <1>2, <1>7, WhoIsAt, ProcFacts DEF Kept
<1>4. Feeder'
  BY <1>1, <1>2, WhoIsAt, ProcFacts DEF Kept, Feeder
<1>5. ASSUME NEW p \in Proc \ {0} PROVE Reader(p)'
  <2>1. Reader(p) /\ Feeder /\ p - 1 \in Proc /\ p \in Nat \ {0} /\ q \in Nat /\ Last \in Nat
    BY <1>1, Around DEF Kept
  <2>2. /\ pc'[p] = IF p = q THEN "first" ELSE pc[p]
        /\ pc'[p - 1] = IF p - 1 = q THEN "first" ELSE pc[p - 1]
    BY <1>1, <1>2, <2>1 DEF Kept
  <2>3. R(p - 1) \in fds[p] /\ pc'[p] \notin {"gone", "wait"} => R(p - 1) \in fds'[p]
    <3>1. p = q => R(p - 1) # R(q) /\ R(p - 1) \notin {W(0), W(q), W(q - 1)}
      BY <2>1 DEF R, W
    <3> QED BY <1>1, <1>2, <2>1, <2>2, <3>1, <1>7 DEF Kept
  <2>4. left'[p] = IF p = q THEN q - 1 ELSE left[p]
    BY <1>1, <1>2, <2>1, WhoIsAt DEF Kept, Reader, Feeder
  <2> QED BY <1>2, <2>1, <2>2, <2>3, WhoIsAt, <2>4 DEF Feeder, Reader, Forked
<1>6. ASSUME NEW p \in Proc PROVE Writer(p)'
  <2>1. Writer(p) /\ Feeder /\ p \in Nat /\ q \in Nat /\ Last \in Nat /\ (q # 0 => Reader(q))
    BY <1>1, Around DEF Kept
  <2>2. /\ pc'[p] = IF p = q THEN "first" ELSE pc[p]
        /\ p + 1 \in Proc => pc'[p + 1] = IF p + 1 = q THEN "first" ELSE pc[p + 1]
    BY <1>1, <1>2, <2>1 DEF Kept
  <2>3. /\ W(p) \in fds[p] /\ pc'[p] \notin {"gone", "wait", "first"} => W(p) \in fds'[p]
        /\ R(p) \in fds[p] /\ pc'[p] \in {"fork", "split"} => R(p) \in fds'[p]
    <3>1. p = q => W(p) # R(q)
      BY DEF R, W
    <3> QED BY <1>1, <1>2, <2>1, <2>2, <3>1 DEF Kept
  <2>4. ~failed /\ p <= Last /\ pc[p] = "gone" => p + 1 \in Proc
    BY <2>1 DEF Writer, Forked
  <2> QED BY <1>2, <2>1, <2>2, <2>3, <2>4, WhoIsAt DEF Feeder, Reader, Writer, Forked
<1> QED BY <1>3, <1>4, <1>5, <1>6 DEF Ctl

\* Whoever finds the end of a pipe is behind a process that is done.
LEMMA EndOfPipe ==
  ASSUME Ctl, NEW q \in Proc, q > 0, pc[q] # "none", AtEOF(q - 1)
  PROVE  buf[q - 1] = <<>> /\ pc[q - 1] \in {"wait", "gone"}
<1>1. q - 1 \in Proc /\ q \in Nat /\ Reader(q) /\ Writer(q - 1) /\ Feeder
  BY Around DEF Ctl
<1>2. Forked(q - 1) /\ W(q - 1) \notin fds[q - 1] /\ buf[q - 1] = <<>>
  BY <1>1 DEF Reader, AtEOF, Open
<1>3. pc[q - 1] \in {"closeR", "feed", "unread", "filter", "pass", "wait", "gone"}
  BY <1>2 DEF Forked
<1> QED BY <1>1, <1>2, <1>3 DEF Writer

LEMMA CtlNoPrime == ASSUME Ctl, NEW q \in Proc, NoPrime(q) PROVE Ctl'
<1>1. Kept /\ Feeder /\ (\A p \in Proc \ {0} : Reader(p)) /\ (\A p \in Proc : Writer(p))
  BY DEF Ctl
<1>2. /\ UNCHANGED <<buf, kids, failed, out, num, prime, left>> /\ Last' = Last
      /\ pc[q] = "first" /\ pc' = [pc EXCEPT ![q] = "gone"] /\ (q > 0 => AtEOF(q - 1))
      /\ fds' = [fds EXCEPT ![q] = {}]
  <2>1. q > 0 => q \in Proc \ {0} /\ left[q] = q - 1
    BY <1>1, Around DEF NoPrime, Reader
  <2> QED BY <2>1 DEF NoPrime, exit, locals, Last
<1>7. q > 0 => buf[q - 1] = <<>> /\ pc[q - 1] \in {"wait", "gone"}
  BY <1>2, EndOfPipe
<1>3. Kept'
  BY <1>1, <1>2, <1>7, WhoIsAt, ProcFacts DEF Kept
<1>4. Feeder'
  BY <1>1, <1>2, WhoIsAt, ProcFacts DEF Kept, Feeder
<1>5. ASSUME NEW p \in Proc \ {0} PROVE Reader(p)'
  <2>1. Reader(p) /\ Feeder /\ p - 1 \in Proc /\ p \in Nat \ {0} /\ q \in Nat /\ Last \in Nat
    BY <1>1, Around DEF Kept
  <2>2. /\ pc'[p] = IF p = q THEN "gone" ELSE pc[p]
        /\ pc'[p - 1] = IF p - 1 = q THEN "gone" ELSE pc[p - 1]
    BY <1>1, <1>2, <2>1 DEF Kept
  <2>3. R(p - 1) \in fds[p] /\ pc'[p] \notin {"gone", "wait"} => R(p - 1) \in fds'[p]
    <3>1. p = q => R(p - 1) # R(q) /\ R(p - 1) \notin {W(0), W(q), W(q - 1)}
      BY <2>1 DEF R, W
    <3> QED BY <1>1, <1>2, <2>1, <2>2, <3>1, <1>7 DEF Kept
  <2> QED BY <1>2, <2>1, <2>2, <2>3, WhoIsAt, <1>7 DEF Feeder, Reader, Forked
<1>6. ASSUME NEW p \in Proc PROVE Writer(p)'
  <2>1. Writer(p) /\ Feeder /\ p \in Nat /\ q \in Nat /\ Last \in Nat /\ (q # 0 => Reader(q))
    BY <1>1, Around DEF Kept
  <2>2. /\ pc'[p] = IF p = q THEN "gone" ELSE pc[p]
        /\ p + 1 \in Proc => pc'[p + 1] = IF p + 1 = q THEN "gone" ELSE pc[p + 1]
    BY <1>1, <1>2, <2>1 DEF Kept
  <2>3. /\ W(p) \in fds[p] /\ pc'[p] \notin {"gone", "wait", "first"} => W(p) \in fds'[p]
        /\ R(p) \in fds[p] /\ pc'[p] \in {"fork", "split"} => R(p) \in fds'[p]
    <3>1. p = q => W(p) # R(q)
      BY DEF R, W
    <3> QED BY <1>1, <1>2, <2>1, <2>2, <3>1 DEF Kept
  <2>4. ~failed /\ p <= Last /\ pc[p] = "gone" => p + 1 \in Proc
    BY <2>1 DEF Writer, Forked
  <2> QED BY <1>2, <2>1, <2>2, <2>3, <2>4, WhoIsAt, <1>7 DEF Feeder, Reader, Writer, Forked
<1> QED BY <1>3, <1>4, <1>5, <1>6 DEF Ctl

LEMMA CtlFilterEnd == ASSUME Ctl, NEW q \in Proc, FilterEnd(q) PROVE Ctl'
<1>1. Kept /\ Feeder /\ (\A p \in Proc \ {0} : Reader(p)) /\ (\A p \in Proc : Writer(p))
  BY DEF Ctl
<1>2. /\ UNCHANGED <<buf, kids, failed, out, num, prime, left>> /\ Last' = Last
      /\ pc[q] = "filter" /\ pc' = [pc EXCEPT ![q] = "wait"] /\ q > 0 /\ AtEOF(q - 1)
      /\ fds' = [fds EXCEPT ![q] = @ \ {R(q - 1), W(q)}]
  BY WhoIsAt DEF FilterEnd, Goto, locals, Last
<1>7. q > 0 => buf[q - 1] = <<>> /\ pc[q - 1] \in {"wait", "gone"}
  BY <1>2, EndOfPipe
<1>3. Kept'
  BY <1>1, <1>2, <1>7, WhoIsAt, ProcFacts DEF Kept
<1>4. Feeder'
  BY <1>1, <1>2, WhoIsAt, ProcFacts DEF Kept, Feeder
<1>5. ASSUME NEW p \in Proc \ {0} PROVE Reader(p)'
  <2>1. Reader(p) /\ Feeder /\ p - 1 \in Proc /\ p \in Nat \ {0} /\ q \in Nat /\ Last \in Nat
    BY <1>1, Around DEF Kept
  <2>2. /\ pc'[p] = IF p = q THEN "wait" ELSE pc[p]
        /\ pc'[p - 1] = IF p - 1 = q THEN "wait" ELSE pc[p - 1]
    BY <1>1, <1>2, <2>1 DEF Kept
  <2>3. R(p - 1) \in fds[p] /\ pc'[p] \notin {"gone", "wait"} => R(p - 1) \in fds'[p]
    <3>1. p = q => R(p - 1) # R(q) /\ R(p - 1) \notin {W(0), W(q), W(q - 1)}
      BY <2>1 DEF R, W
    <3> QED BY <1>1, <1>2, <2>1, <2>2, <3>1, <1>7 DEF Kept
  <2> QED BY <1>2, <2>1, <2>2, <2>3, WhoIsAt, <1>7 DEF Feeder, Reader, Forked
<1>6. ASSUME NEW p \in Proc PROVE Writer(p)'
  <2>1. Writer(p) /\ Feeder /\ p \in Nat /\ q \in Nat /\ Last \in Nat /\ (q # 0 => Reader(q))
    BY <1>1, Around DEF Kept
  <2>2. /\ pc'[p] = IF p = q THEN "wait" ELSE pc[p]
        /\ p + 1 \in Proc => pc'[p + 1] = IF p + 1 = q THEN "wait" ELSE pc[p + 1]
    BY <1>1, <1>2, <2>1 DEF Kept
  <2>3. /\ W(p) \in fds[p] /\ pc'[p] \notin {"gone", "wait", "first"} => W(p) \in fds'[p]
        /\ R(p) \in fds[p] /\ pc'[p] \in {"fork", "split"} => R(p) \in fds'[p]
    <3>1. p = q => W(p) # R(q)
      BY DEF R, W
    <3> QED BY <1>1, <1>2, <2>1, <2>2, <3>1 DEF Kept
  <2>4. ~failed /\ p <= Last /\ pc[p] = "gone" => p + 1 \in Proc
    BY <2>1 DEF Writer, Forked
  <2> QED BY <1>2, <2>1, <2>2, <2>3, <2>4, WhoIsAt, <1>7 DEF Feeder, Reader, Writer, Forked
<1> QED BY <1>3, <1>4, <1>5, <1>6 DEF Ctl

\* Only the last process forks.
LEMMA Forks ==
  ASSUME Ctl, NEW q \in Proc, pc[q] \in {"fork", "split"}
  PROVE  q = Last /\ ~failed /\ (pc[q] = "fork" => q = 0) /\ (pc[q] = "split" => q > 0)
         /\ (q + 1 \in Proc => pc[q + 1] = "none")
<1>1. q \in Nat /\ Last \in Nat /\ Feeder /\ Writer(q) /\ Kept
  BY WhoIsAt DEF Ctl
<1>2. /\ pc[q] = "fork" => q = 0 /\ Last = 0
      /\ pc[q] = "split" => q > 0 /\ q <= Last
      /\ ~failed /\ ~Forked(q)
  BY <1>1, WhoIsAt DEF Feeder, Writer, Kept, Forked
<1>3. ASSUME q + 1 \in Proc PROVE Reader(q + 1) /\ pc[q + 1] = "none"
  <2>1. Reader(q + 1)
    BY <1>1, <1>3 DEF Ctl
  <2> QED BY <1>1, <1>2, <2>1 DEF Reader
<1>4. q < Last => q + 1 \in Proc
  BY <1>1, ProcFacts DEF Kept, Proc
<1>5. ~(q < Last)
  BY <1>1, <1>3, <1>4 DEF Reader
<1> QED BY <1>1, <1>2, <1>3, <1>5

\* The process that forks goes on at l, its child at c.
LEMMA CtlFork ==
  ASSUME Ctl, NEW q \in Proc, pc[q] \in {"fork", "split"}, q + 1 \in Proc, NEW l, NEW c,
         IF pc[q] = "fork" THEN l = "closeR" /\ c = "stage" ELSE l = "unread" /\ c = "next",
         Kept', pc'[q] = l, pc'[q + 1] = c, fds'[q] = fds[q], fds'[q + 1] = fds[q], kids'[q],
         \A p \in Proc \ {q, q + 1} : pc'[p] = pc[p] /\ fds'[p] = fds[p] /\ kids'[p] = kids[p],
         UNCHANGED <<buf, failed, out, num, prime, left>>
  PROVE  Ctl'
<1>1. Kept /\ Feeder /\ (\A p \in Proc \ {0} : Reader(p)) /\ (\A p \in Proc : Writer(p))
  BY DEF Ctl
<1>2. q \in Nat /\ Last' = Last /\ Last \in Nat /\ q = Last /\ ~failed /\ pc[q + 1] = "none"
      /\ (pc[q] = "fork" <=> q = 0)
  BY Forks, WhoIsAt DEF Last
<1>3. Feeder'
  BY <1>1, <1>2, ProcFacts DEF Feeder
<1>4. ASSUME NEW p \in Proc \ {0} PROVE Reader(p)'
  <2>1. Reader(p) /\ p - 1 \in Proc /\ p \in Nat \ {0} /\ Writer(q)
    BY <1>1, Around
  <2>2. CASE p = q + 1
    <3>1. R(q) \in fds[q] /\ p - 1 = q
      BY <1>2, <2>1, <2>2 DEF Writer
    <3> QED BY <1>2, <2>2, <3>1 DEF Reader, Forked
  <2>3. CASE p = q
    <3>1. q # 0 /\ l = "unread" /\ pc'[p - 1] = pc[p - 1]
      BY <1>2, <2>1, <2>3
    <3> QED BY <1>2, <2>1, <2>3, <3>1 DEF Reader, Forked
  <2>4. CASE p # q /\ p # q + 1
    <3>1. pc'[p] = pc[p] /\ fds'[p] = fds[p] /\ (p - 1 # q + 1 => pc'[p - 1] = pc[p - 1] \/ p - 1 = q)
      BY <2>1, <2>4
    <3> QED BY <1>2, <2>1, <2>4, <3>1 DEF Reader, Forked
  <2> QED BY <2>2, <2>3, <2>4
<1>5. ASSUME NEW p \in Proc PROVE Writer(p)'
  <2>1. Writer(p) /\ p \in Nat
    BY <1>1, Around
  <2>2. CASE p = q
    BY <1>2, <2>1, <2>2 DEF Writer, Forked
  <2>3. CASE p = q + 1
    BY <1>2, <2>1, <2>3 DEF Writer, Forked
  <2>4. CASE p # q /\ p # q + 1
    <3>1. /\ pc'[p] = pc[p] /\ fds'[p] = fds[p] /\ kids'[p] = kids[p]
          /\ p <= Last => p + 1 \in Proc /\ p + 1 # q + 1
      BY <1>2, <2>1, <2>4, Around, ProcFacts DEF Proc
    <3>2. p <= Last => /\ pc'[p + 1] # "none" \/ pc'[p + 1] = pc[p + 1]
                       /\ pc[p + 1] = "gone" => pc'[p + 1] = "gone"
      <4>1. CASE p + 1 = q
        BY <1>2, <4>1
      <4>2. CASE p + 1 # q
        BY <3>1, <4>2
      <4> QED BY <4>1, <4>2
    <3> QED BY <1>2, <2>1, <2>4, <3>1, <3>2 DEF Writer, Forked
  <2> QED BY <2>2, <2>3, <2>4
<1> QED BY <1>3, <1>4, <1>5 DEF Ctl

LEMMA CtlNoFork ==
  ASSUME Ctl, NEW q \in Proc, pc[q] \in {"fork", "split"},
         pc' = [pc EXCEPT ![q] = IF pc[q] = "fork" THEN "stage" ELSE "unread"], failed' = TRUE,
         UNCHANGED <<fds, kids, buf, out, num, prime, left>>
  PROVE  Ctl'
<1>1. Kept /\ Feeder /\ (\A p \in Proc \ {0} : Reader(p)) /\ (\A p \in Proc : Writer(p))
  BY DEF Ctl
<1>2. /\ q \in Nat /\ Last' = Last /\ Last \in Nat /\ q = Last /\ ~failed
      /\ q + 1 \in Proc => pc[q + 1] = "none"
      /\ (pc[q] = "fork" <=> q = 0)
  BY Forks, WhoIsAt DEF Last
<1>3. Kept'
  BY <1>1, <1>2 DEF Kept
<1>4. \A p \in Proc : pc'[p] = IF p = q THEN IF q = 0 THEN "stage" ELSE "unread" ELSE pc[p]
  BY <1>1, <1>2 DEF Kept
<1>5. Feeder'
  BY <1>1, <1>2, <1>4, ProcFacts DEF Feeder
<1>6. ASSUME NEW p \in Proc \ {0} PROVE Reader(p)'
  <2>1. Reader(p) /\ p - 1 \in Proc /\ p \in Nat \ {0}
    BY <1>1, Around
  <2> QED BY <1>2, <1>4, <2>1 DEF Reader, Forked
<1>7. ASSUME NEW p \in Proc PROVE Writer(p)'
  <2>1. Writer(p) /\ p \in Nat /\ (p > 0 => Reader(p)) /\ Feeder
    BY <1>1, Around
  <2>2. p < q => p + 1 \in Proc /\ p + 1 <= Last /\ Reader(p + 1)
    BY <1>1, <1>2, <2>1, Around, ProcFacts DEF Proc
  <2>3. p < q => Forked(p)
    BY <1>2, <2>1, <2>2 DEF Reader
  <2> QED BY <1>2, <1>4, <2>1, <2>3 DEF Reader, Writer, Forked
<1> QED BY <1>3, <1>5, <1>6, <1>7 DEF Ctl

LEMMA CtlForks == ASSUME Ctl, NEW q \in Proc, ForkFirst(q) \/ ForkNext(q) PROVE Ctl'
<1>1. pc[q] \in {"fork", "split"} /\ UNCHANGED <<buf, out, num, prime, left>> /\ q \in Nat /\ Kept
  BY Around DEF ForkFirst, ForkNext, locals, Ctl
<1> DEFINE l == IF pc[q] = "fork" THEN "closeR" ELSE "unread"
           c == IF pc[q] = "fork" THEN "stage" ELSE "next"
<1>2. CASE /\ q < MaxProc /\ pc' = [pc EXCEPT ![q] = l, ![q + 1] = c]
           /\ fds' = [fds EXCEPT ![q + 1] = fds[q]] /\ kids' = [kids EXCEPT ![q] = TRUE] /\ UNCHANGED failed
  <2>1. q + 1 \in Proc /\ q + 1 # q
    BY <1>1, <1>2, ProcFacts DEF Proc
  <2>2. Kept' /\ pc'[q] = l /\ pc'[q + 1] = c /\ fds'[q] = fds[q] /\ fds'[q + 1] = fds[q] /\ kids'[q]
    BY <1>1, <1>2, <2>1 DEF Kept, Last
  <2>3. \A p \in Proc \ {q, q + 1} : pc'[p] = pc[p] /\ fds'[p] = fds[p] /\ kids'[p] = kids[p]
    BY <1>1, <1>2 DEF Kept
  <2>4. IF pc[q] = "fork" THEN l = "closeR" /\ c = "stage" ELSE l = "unread" /\ c = "next"
    OBVIOUS
  <2> HIDE DEF l, c
  <2> QED BY <1>1, <1>2, <2>1, <2>2, <2>3, <2>4, CtlFork
<1>3. CASE /\ pc' = [pc EXCEPT ![q] = IF pc[q] = "fork" THEN "stage" ELSE "unread"] /\ failed' = TRUE
           /\ UNCHANGED <<fds, kids>>
  BY <1>1, <1>3, CtlNoFork
<1>4. CASE ForkFirst(q)
  BY <1>2, <1>3, <1>4 DEF ForkFirst, fork, Goto
<1>5. CASE ForkNext(q)
  BY <1>2, <1>3, <1>5 DEF ForkNext, fork, Goto
<1> QED BY <1>4, <1>5

\* Process q takes a number from pipe r or puts one into it.
LEMMA CtlMove ==
  ASSUME Ctl, NEW q \in Proc, NEW r \in Proc, Kept',
         \/ pc[q] = "feed" /\ pc'[q] = "feed" /\ r = q
         \/ pc[q] = "pass" /\ pc'[q] = "filter" /\ r = q
         \/ pc[q] = "filter" /\ pc'[q] \in {"filter", "pass"} /\ r = q - 1,
         \A p \in Proc \ {q} : pc'[p] = pc[p], \A p \in Proc \ {r} : buf'[p] = buf[p],
         UNCHANGED <<fds, kids, failed, out, prime, left>>
  PROVE  Ctl'
<1>1. Kept /\ Feeder /\ (\A p \in Proc \ {0} : Reader(p)) /\ (\A p \in Proc : Writer(p))
  BY DEF Ctl
<1>2. /\ q \in Nat /\ Last' = Last /\ Last \in Nat /\ r \in Nat /\ r <= Last
      /\ pc[q] = "feed" => q = 0
      /\ pc[q] \in {"pass", "filter"} => q > 0 /\ q <= Last
  BY WhoIsAt, Around DEF Last
<1>3. Feeder'
  BY <1>1, <1>2, ProcFacts DEF Feeder
<1>4. ASSUME NEW p \in Proc \ {0} PROVE Reader(p)'
  <2>1. Reader(p) /\ p - 1 \in Proc /\ p \in Nat \ {0}
    BY <1>1, Around
  <2>2. CASE p = q
    <3>1. pc'[p - 1] = pc[p - 1] /\ pc'[p] \in {"filter", "pass"}
      BY <1>2, <2>1, <2>2
    <3> QED BY <1>2, <2>1, <2>2, <3>1 DEF Reader, Forked
  <2>3. CASE p - 1 = q
    <3>1. pc'[p] = pc[p]
      BY <2>1, <2>3
    <3> QED BY <1>2, <2>1, <2>3, <3>1 DEF Reader, Forked
  <2>4. CASE p # q /\ p - 1 # q
    <3>1. pc'[p] = pc[p] /\ pc'[p - 1] = pc[p - 1] /\ buf'[p - 1] = buf[p - 1]
      BY <1>2, <2>1, <2>4
    <3> QED BY <1>2, <2>1, <2>4, <3>1 DEF Reader, Forked
  <2> QED BY <2>2, <2>3, <2>4
<1>5. ASSUME NEW p \in Proc PROVE Writer(p)'
  <2>1. Writer(p) /\ p \in Nat /\ (p > Last => p # r /\ buf'[p] = buf[p])
    BY <1>1, <1>2, Around
  <2>2. /\ Forked(p) /\ ~failed => p + 1 \in Proc
        /\ pc[p] = "gone" /\ p <= Last => Forked(p)
    BY <2>1 DEF Writer, Forked
  <2>3. p + 1 \in Proc => pc'[p + 1] = pc[p + 1] \/ (pc'[p + 1] # "none" /\ pc[p + 1] # "gone")
    BY <1>2
  <2>4. CASE p = q
    BY <1>2, <2>1, <2>2, <2>3, <2>4 DEF Writer, Forked
  <2>5. CASE p # q
    <3>1. pc'[p] = pc[p]
      BY <2>5
    <3> QED BY <1>2, <2>1, <2>2, <2>3, <2>5, <3>1 DEF Writer, Forked
  <2> QED BY <2>4, <2>5
<1> QED BY <1>3, <1>4, <1>5 DEF Ctl

\* The number at the head of a pipe.
LEMMA HeadFacts ==
  ASSUME NEW s \in Seq(Nat), s # <<>>
  PROVE  /\ Head(s) \in Nat /\ Tail(s) \in Seq(Nat) /\ Head(s) = s[1] /\ Len(s) \in Nat \ {0}
         /\ Len(Tail(s)) = Len(s) - 1 /\ \A a \in 1..(Len(s) - 1) : Tail(s)[a] = s[a + 1]
  OBVIOUS

LEMMA CtlFilter == ASSUME Ctl, NEW q \in Proc, Filter(q) PROVE Ctl'
<1>1. /\ Kept /\ q \in Nat /\ q > 0 /\ left[q] = q - 1 /\ q - 1 \in Proc
  BY WhoIsAt, Around DEF Filter, Ctl
<1>2. /\ buf[q - 1] \in Seq(Nat) /\ buf[q - 1] # <<>>
  BY <1>1 DEF Filter, CanRead, Kept
<1>3. /\ pc[q] = "filter" /\ buf' = [buf EXCEPT ![q - 1] = Tail(buf[q - 1])]
      /\ num' = [num EXCEPT ![q] = Head(buf[q - 1])]
      /\ UNCHANGED <<fds, kids, failed, out, prime, left>> /\ Last' = Last
      /\ \E l \in {"filter", "pass"} : pc' = [pc EXCEPT ![q] = l]
  BY <1>1 DEF Filter, Take, Goto, Last
<1>4. Kept'
  BY <1>1, <1>2, <1>3, HeadFacts DEF Kept
<1>5. /\ pc'[q] \in {"filter", "pass"}
      /\ \A p \in Proc \ {q} : pc'[p] = pc[p]
      /\ \A p \in Proc \ {q - 1} : buf'[p] = buf[p]
  BY <1>1, <1>3 DEF Kept
<1> QED BY <1>1, <1>3, <1>4, <1>5, CtlMove

LEMMA CtlPut == ASSUME Ctl, NEW q \in Proc, Feed(q) \/ PassOn(q) PROVE Ctl'
<1>1. /\ Kept /\ q \in Nat /\ num[q] \in Nat /\ buf[q] \in Seq(Nat)
  BY WhoIsAt DEF Ctl, Kept
<1>2. Append(buf[q], num[q]) \in Seq(Nat)
  BY <1>1
<1>3. buf' = [buf EXCEPT ![q] = Append(buf[q], num[q])] \/ buf' = buf
  BY DEF Feed, PassOn, write
<1>4. /\ UNCHANGED <<fds, kids, failed, out, prime, left>> /\ Last' = Last
      /\ \/ pc[q] = "feed" /\ pc' = pc /\ num' = [num EXCEPT ![q] = num[q] + 1]
         \/ pc[q] = "pass" /\ pc' = [pc EXCEPT ![q] = "filter"] /\ num' = num
  BY DEF Feed, PassOn, Goto, locals, Last
<1>5. Kept'
  <2>1. buf' \in [Proc -> Seq(Nat)]
    BY <1>1, <1>2, <1>3 DEF Kept
  <2>2. num' \in [Proc -> Nat] /\ DOMAIN pc' = Proc
    <3>1. num \in [Proc -> Nat] /\ num[q] + 1 \in Nat /\ DOMAIN pc = Proc
      BY <1>1 DEF Kept
    <3>2. CASE pc' = pc /\ num' = [num EXCEPT ![q] = num[q] + 1]
      BY <3>1, <3>2
    <3>3. CASE pc' = [pc EXCEPT ![q] = "filter"] /\ num' = num
      BY <3>1, <3>3
    <3> QED BY <1>4, <3>2, <3>3
  <2> QED BY <1>1, <1>4, <2>1, <2>2 DEF Kept
<1>6. \/ pc[q] = "feed" /\ pc'[q] = "feed"
      \/ pc[q] = "pass" /\ pc'[q] = "filter"
  BY <1>1, <1>4 DEF Kept
<1>7. /\ \A p \in Proc \ {q} : pc'[p] = pc[p]
      /\ \A p \in Proc \ {q} : buf'[p] = buf[p]
  BY <1>1, <1>3, <1>4 DEF Kept
<1> QED BY <1>4, <1>5, <1>6, <1>7, CtlMove

\* The process that reads a prime is the last one, and no fork has failed.
LEMMA Reads ==
  ASSUME Ctl, NEW q \in Proc, ReadPrime(q)
  PROVE  /\ q \in Nat /\ q = Last + 1 /\ Last \in Nat /\ q - 1 \in Proc /\ ~failed
         /\ buf[q - 1] \in Seq(Nat) /\ buf[q - 1] # <<>>
         /\ buf' = [buf EXCEPT ![q - 1] = Tail(buf[q - 1])] /\ pc' = [pc EXCEPT ![q] = "right"]
         /\ prime' = [prime EXCEPT ![q] = Head(buf[q - 1])] /\ out' = Append(out, Head(buf[q - 1]))
         /\ UNCHANGED <<fds, kids, failed, num, left>>
<1>1. pc[q] = "first" /\ q \in Nat /\ Kept /\ Feeder /\ Last \in Nat /\ (q > 0 => Reader(q))
  BY WhoIsAt DEF Ctl, ReadPrime
<1>2. q > 0
  BY <1>1 DEF ReadPrime, CanRead, Feeder
<1>3. q = Last + 1 /\ ~failed /\ left[q] = q - 1 /\ q - 1 \in Proc
  BY <1>1, <1>2, WhoIsAt, Around DEF Reader
<1> QED BY <1>1, <1>3 DEF ReadPrime, CanRead, Take, Goto, Kept

LEMMA CtlReadPrime == ASSUME Ctl, NEW q \in Proc, ReadPrime(q) PROVE Ctl'
<1>1. Kept /\ Feeder /\ (\A p \in Proc \ {0} : Reader(p)) /\ (\A p \in Proc : Writer(p))
  BY DEF Ctl
<1>2. /\ q \in Nat \ {0} /\ q = Last + 1 /\ Last \in Nat /\ q - 1 \in Proc /\ ~failed
      /\ buf[q - 1] \in Seq(Nat) /\ buf[q - 1] # <<>>
      /\ UNCHANGED <<fds, kids, failed, num, left>> /\ pc[q] = "first"
  <2>1. pc[q] = "first"
    BY DEF ReadPrime
  <2>2. q = Last + 1 /\ Last \in Nat
    BY Reads
  <2> QED BY <2>1, <2>2, Reads
<1> DEFINE x == Head(buf[q - 1])
<1>3. x \in Nat /\ Tail(buf[q - 1]) \in Seq(Nat)
  BY <1>2, HeadFacts
<1>11. /\ buf' = [buf EXCEPT ![q - 1] = Tail(buf[q - 1])] /\ pc' = [pc EXCEPT ![q] = "right"]
       /\ prime' = [prime EXCEPT ![q] = x] /\ out' = Append(out, x)
  BY Reads
<1> HIDE DEF x
<1>4. out' \in Seq(Nat) /\ Last' = q /\ out'[q] = x /\ \A p \in 1..Last : out'[p] = out[p]
  BY <1>1, <1>2, <1>3, <1>11 DEF Kept, Last
<1>5. Kept' /\ prime'[q] = x /\ pc'[q] = "right"
  <2>1. buf' \in [Proc -> Seq(Nat)]
    BY <1>1, <1>3, <1>11 DEF Kept
  <2> QED BY <1>1, <1>2, <1>3, <1>4, <1>11, <2>1 DEF Kept
<1>6. \A p \in Proc \ {q} : pc'[p] = pc[p] /\ prime'[p] = prime[p]
  BY <1>1, <1>11 DEF Kept
<1>7. \A p \in Proc \ {q - 1} : buf'[p] = buf[p]
  BY <1>1, <1>11 DEF Kept
<1>8. Feeder'
  <2>1. pc'[0] = pc[0] /\ (buf[0] = <<>> => Last # 0)
    BY <1>2, <1>6, ProcFacts
  <2> QED BY <1>1, <1>2, <1>7, <2>1 DEF Feeder
<1>9. ASSUME NEW p \in Proc \ {0} PROVE Reader(p)'
  <2>1. Reader(p) /\ p - 1 \in Proc /\ p \in Nat \ {0} /\ Reader(q)
    BY <1>1, <1>2, Around
  <2>2. CASE p = q
    <3>1. pc'[p - 1] = pc[p - 1]
      BY <1>2, <1>6, <2>1, <2>2
    <3> QED BY <1>2, <1>4, <1>5, <2>1, <2>2, <3>1 DEF Reader, Forked
  <2>3. CASE p < q
    <3>1. pc'[p] = pc[p] /\ pc'[p - 1] = pc[p - 1] /\ prime'[p] = prime[p] /\ buf'[p - 1] = buf[p - 1]
          /\ out'[p] = out[p] /\ p <= Last /\ p - 1 <= Last
      <4>1. p # q /\ p - 1 # q /\ p - 1 # q - 1 /\ p \in 1..Last /\ p - 1 <= Last
        BY <1>2, <2>1, <2>3
      <4> QED BY <1>4, <1>6, <1>7, <2>1, <4>1
    <3>2. p \in Nat /\ Last' = Last + 1 /\ Last \in Nat /\ fds' = fds /\ left' = left /\ failed' = failed
      BY <1>2, <1>4, <2>1
    <3> QED BY <2>1, <3>1, <3>2 DEF Reader, Forked
  <2>4. CASE p > q
    <3>1. pc'[p] = pc[p] /\ pc[p] = "none" /\ ~(p <= Last')
      BY <1>2, <1>4, <1>6, <2>1, <2>4 DEF Reader
    <3> QED BY <1>2, <1>4, <2>1, <2>4, <3>1 DEF Reader
  <2> QED BY <1>2, <2>1, <2>2, <2>3, <2>4
<1>10. ASSUME NEW p \in Proc PROVE Writer(p)'
  <2>1. Writer(p) /\ p \in Nat /\ Reader(q)
    BY <1>1, <1>2, Around
  <2>5. p > q - 1 => buf'[p] = buf[p]
    BY <1>2, <1>7, <2>1
  <2>2. CASE p = q
    BY <1>2, <1>4, <1>5, <2>1, <2>2, <2>5 DEF Writer, Forked
  <2>3. CASE p < q
    <3>1. pc'[p] = pc[p] /\ p <= Last /\ (p + 1 = q \/ pc'[p + 1] = pc[p + 1])
      <4>1. p + 1 \in Proc
        BY <1>2, <2>1, <2>3, ProcFacts DEF Proc
      <4> QED BY <1>2, <1>6, <2>1, <2>3, <4>1
    <3>2. (pc[p + 1] # "none" => pc'[p + 1] # "none") /\ (pc[p + 1] = "gone" => pc'[p + 1] = "gone")
      BY <1>2, <1>5, <3>1
    <3> QED BY <1>2, <1>4, <2>1, <2>3, <3>1, <3>2 DEF Writer, Forked
  <2>4. CASE p > q
    <3>1. pc'[p] = pc[p] /\ ~(p <= Last')
      BY <1>2, <1>4, <1>6, <2>1, <2>4
    <3> QED BY <1>2, <1>4, <2>1, <2>4, <2>5, <3>1 DEF Writer, Forked
  <2> QED BY <1>2, <2>1, <2>2, <2>3, <2>4
<1> QED BY <1>5, <1>8, <1>9, <1>10 DEF Ctl

LEMMA WhoRuns == ASSUME Ctl, NEW q \in Proc, Step(q) PROVE PrimesStep(q)
<1>1. Feeder /\ (q # 0 => Reader(q)) /\ q \in Nat /\ Last \in Nat
  BY WhoIsAt DEF Ctl
<1>2. pc[q] \in PrimesAt
  BY <1>1 DEF Feeder, Reader, PrimesAt
<1> QED BY <1>2, PrimesOnly

LEMMA CtlInductive == CtlInv /\ [Next]_vars => CtlInv'
<1> SUFFICES ASSUME CtlInv, [Next]_vars, (prog = "primes")' PROVE Ctl'
  BY DEF CtlInv
<1>1. CASE UNCHANGED vars
  BY <1>1 DEF vars, kernel, locals, CtlInv, Ctl, Kept, Feeder, Reader, Writer, Forked, Last
<1>2. ASSUME NEW q \in Proc, Step(q) PROVE Ctl'
  <2>1. Ctl
    BY <1>2 DEF Step, CtlInv
  <2>2. PrimesStep(q)
    BY <1>2, <2>1, WhoRuns
  <2> QED BY <2>1, <2>2, CtlMakePipe, CtlForks, CtlFeedClose, CtlPut, CtlFeedEnd, CtlStage,
             CtlReadPrime, CtlNoPrime, CtlNextStage, CtlCloseRead, CtlFilter, CtlFilterEnd,
             CtlWaitExit DEF PrimesStep
<1> QED BY <1>1, <1>2 DEF Next

LEMMA Divides ==
  ASSUME NEW x \in Nat, NEW d \in Nat \ {0}, NEW e \in Nat \ {0}, x % d = 0, d % e = 0
  PROVE  x % e = 0
<1>1. PICK a \in Nat : x = d * a
  <2>1. x \div d \in Nat /\ x = d * (x \div d)
    BY DivMod
  <2> QED BY <2>1
<1>2. PICK b \in Nat : d = e * b
  <2>1. d \div e \in Nat /\ d = e * (d \div e)
    BY DivMod
  <2> QED BY <2>1
<1>3. b * a \in Nat /\ x = e * (b * a) + 0
  BY <1>1, <1>2
<1> QED BY <1>3, ModUnique

LEMMA FlyingFacts ==
  ASSUME Kept, NEW i \in Proc, NEW c \in {0, 1}
  PROVE  Flying(i, c) \in SUBSET Nat
  BY DEF Flying, Items, Kept

\* A step that moves no number.
LEMMA DatQuiet ==
  ASSUME Dat, UNCHANGED <<buf, num, out>>, failed => failed',
         \A p \in Proc : p > 0 => (pc'[p] = "pass" <=> pc[p] = "pass"),
         failed' \/ num[0] > LIMIT \/ pc'[0] \notin {"wait", "gone"}
  PROVE  Dat'
<1>1. \A i \in Proc, c \in {0, 1} : Flying(i, c)' = Flying(i, c)
  BY DEF Flying
<1>2. Queues' /\ Outputs'
  BY DEF Dat, Queues, Outputs, IsPrime
<1>3. Sorted'
  BY <1>1 DEF Dat, Sorted
<1>4. Sieved'
  BY <1>1 DEF Dat, Sieved
<1>5. ASSUME NEW n \in 2..(num[0] - 1) PROVE Covered(n)'
  <2>1. Covered(n)
    BY DEF Dat
  <2> QED BY <1>1, <2>1 DEF Covered, Settled, Late
<1> QED BY <1>2, <1>3, <1>4, <1>5 DEF Dat

\* The least number x of a place goes to the next one, which is behind it, or
\* (N is empty) is dropped.
LEMMA Flow ==
  ASSUME Kept, Dat, NEW i \in Proc, NEW c \in {0, 1}, NEW j \in Proc, NEW d \in {0, 1},
         2 * j + d = 2 * i + c + 1, NEW x \in Flying(i, c), \A y \in Flying(i, c) : x <= y,
         NEW N \in SUBSET {x},
         N = {} => Settled(x) \/ Late(x),
         \A k \in DOMAIN out : k <= j /\ N # {} => x % out[k] # 0,
         Flying(i, c)' = Flying(i, c) \ {x}, Flying(j, d)' = Flying(j, d) \cup N,
         \A k \in Proc, e \in {0, 1} : <<k, e>> \notin {<<i, c>>, <<j, d>>} => Flying(k, e)' = Flying(k, e),
         num'[0] = num[0], out' = out, failed' = failed
  PROVE  Sorted' /\ Sieved' /\ \A n \in 2..(num[0] - 1) : Covered(n)'
<1>1. Sorted /\ Sieved /\ x \in Nat /\ i \in Nat /\ j \in Nat /\ num[0] \in Nat
  BY FlyingFacts, ProcFacts DEF Dat, Kept
<1>2. ASSUME NEW k \in Proc, NEW e \in {0, 1}, NEW y \in Flying(k, e)'
      PROVE  \/ y \in Flying(k, e) /\ ~(k = i /\ e = c /\ y = x)
             \/ k = j /\ e = d /\ y = x /\ N # {}
  <2>1. CASE k = i /\ e = c
    BY <1>2, <2>1
  <2>2. CASE k = j /\ e = d
    BY <1>1, <1>2, <2>2
  <2>3. CASE <<k, e>> \notin {<<i, c>>, <<j, d>>}
    BY <1>2, <2>3
  <2> QED BY <2>1, <2>2, <2>3
<1>3. ASSUME NEW k \in Proc, NEW e \in {0, 1}, NEW y \in Flying(k, e), y # x
      PROVE  y \in Flying(k, e)'
  <2>1. CASE k = i /\ e = c
    BY <1>3, <2>1
  <2>2. CASE k = j /\ e = d
    BY <1>3, <2>2
  <2>3. CASE <<k, e>> \notin {<<i, c>>, <<j, d>>}
    BY <1>3, <2>3
  <2> QED BY <2>1, <2>2, <2>3
<1>4. Sorted'
  <2>1. SUFFICES ASSUME NEW k \in Proc, NEW l \in Proc, NEW e \in {0, 1}, NEW f \in {0, 1},
                        2 * k + e < 2 * l + f, NEW y \in Flying(k, e)', NEW z \in Flying(l, f)'
                 PROVE  z < y
    BY DEF Sorted
  <2>2. k \in Nat /\ l \in Nat
    BY ProcFacts
  <2>3. CASE y \in Flying(k, e) /\ z \in Flying(l, f)
    BY <1>1, <2>1, <2>3 DEF Sorted
  <2>4. CASE k = j /\ e = d /\ y = x /\ z \in Flying(l, f)
    <3>1. 2 * i + c < 2 * l + f
      BY <1>1, <2>1, <2>2, <2>4
    <3> QED BY <1>1, <2>4, <3>1 DEF Sorted
  <2>5. CASE l = j /\ f = d /\ z = x /\ y \in Flying(k, e) /\ ~(k = i /\ e = c /\ y = x)
    <3>1. y \in Nat
      BY <2>5, FlyingFacts
    <3>2. CASE 2 * k + e < 2 * i + c
      BY <1>1, <2>5, <3>2 DEF Sorted
    <3>3. CASE 2 * k + e = 2 * i + c
      <4>1. k = i /\ e = c
        BY <1>1, <2>2, <3>3
      <4> QED BY <1>1, <2>5, <3>1, <4>1
    <3> QED BY <1>1, <2>1, <2>2, <2>5, <3>2, <3>3
  <2>6. ~(k = j /\ e = d /\ l = j /\ f = d)
    BY <2>1, <2>2
  <2> QED BY <1>2, <2>3, <2>4, <2>5, <2>6
<1>5. Sieved'
  <2>1. SUFFICES ASSUME NEW k \in Proc, NEW e \in {0, 1}, NEW y \in Flying(k, e)'
                 PROVE  /\ 2 <= y /\ y < num[0]
                        /\ \A m \in DOMAIN out : out[m] < y /\ (m <= k => y % out[m] # 0)
    BY DEF Sieved
  <2>2. CASE y \in Flying(k, e)
    BY <1>1, <2>2 DEF Sieved
  <2>3. CASE k = j /\ e = d /\ y = x /\ N # {}
    BY <1>1, <2>3 DEF Sieved
  <2> QED BY <1>2, <2>2, <2>3
<1>6. ASSUME NEW n \in 2..(num[0] - 1) PROVE Covered(n)'
  <2>1. Covered(n)
    BY DEF Dat
  <2>2. CASE Settled(n) \/ Late(n)
    BY <2>2 DEF Covered, Settled, Late
  <2>3. CASE \E k \in Proc, e \in {0, 1} : n \in Flying(k, e) /\ n # x
    BY <1>3, <2>3 DEF Covered
  <2>4. CASE n = x
    <3>1. CASE N = {}
      BY <2>4, <3>1 DEF Covered, Settled, Late
    <3>2. CASE N = {x}
      BY <2>4, <3>2 DEF Covered
    <3> QED BY <3>1, <3>2
  <2> QED BY <2>1, <2>2, <2>3, <2>4 DEF Covered
<1> QED BY <1>4, <1>5, <1>6

\* What a pipe holds without its head, and with one more.
LEMMA QueueTail ==
  ASSUME NEW s \in Seq(Nat), s # <<>>, \A a, b \in DOMAIN s : a < b => s[a] < s[b]
  PROVE  /\ Items(Tail(s)) = Items(s) \ {Head(s)}
         /\ \A a, b \in DOMAIN Tail(s) : a < b => Tail(s)[a] < Tail(s)[b]
         /\ Head(s) \in Items(s) /\ \A y \in Items(s) : Head(s) <= y
<1>1. /\ Head(s) = s[1] /\ Len(s) \in Nat \ {0} /\ DOMAIN s = 1..Len(s) /\ DOMAIN Tail(s) = 1..(Len(s) - 1)
      /\ \A a \in 1..(Len(s) - 1) : Tail(s)[a] = s[a + 1]
  BY HeadFacts
<1>2. \A a \in 1..Len(s) :
        s[a] \in Nat /\ (a # 1 => s[1] < s[a] /\ a - 1 \in 1..(Len(s) - 1) /\ Tail(s)[a - 1] = s[a])
  <2>1. ASSUME NEW a \in 1..Len(s), a # 1
        PROVE  s[1] < s[a] /\ a - 1 \in 1..(Len(s) - 1) /\ Tail(s)[a - 1] = s[a]
    <3>1. a - 1 \in 1..(Len(s) - 1) /\ (a - 1) + 1 = a
      BY <1>1, <2>1
    <3> QED BY <1>1, <2>1, <3>1
  <2> QED BY <1>1, <2>1
<1>3. \A a \in 1..(Len(s) - 1) : a + 1 \in 1..Len(s) /\ a + 1 # 1
  BY <1>1
<1>4. Items(Tail(s)) = Items(s) \ {Head(s)}
  <2>1. ASSUME NEW a \in 1..(Len(s) - 1) PROVE Tail(s)[a] \in {s[b] : b \in 1..Len(s)} \ {s[1]}
    BY <1>1, <1>2, <1>3
  <2>2. ASSUME NEW a \in 1..Len(s), s[a] # s[1] PROVE s[a] \in {Tail(s)[b] : b \in 1..(Len(s) - 1)}
    BY <1>1, <1>2, <2>2
  <2> QED BY <1>1, <2>1, <2>2 DEF Items
<1>5. ASSUME NEW a \in DOMAIN Tail(s), NEW b \in DOMAIN Tail(s), a < b PROVE Tail(s)[a] < Tail(s)[b]
  BY <1>1, <1>3, <1>5
<1>6. \A a \in DOMAIN s : s[1] <= s[a]
  BY <1>1, <1>2
<1>7. 1 \in DOMAIN s
  BY <1>1
<1> QED BY <1>1, <1>4, <1>5, <1>6, <1>7 DEF Items

LEMMA QueueAppend ==
  ASSUME NEW s \in Seq(Nat), NEW x \in Nat, \A a, b \in DOMAIN s : a < b => s[a] < s[b],
         \A a \in DOMAIN s : s[a] < x
  PROVE  /\ Items(Append(s, x)) = Items(s) \cup {x}
         /\ \A a, b \in DOMAIN Append(s, x) : a < b => Append(s, x)[a] < Append(s, x)[b]
<1> DEFINE t == Append(s, x)
<1>1. /\ Len(s) \in Nat /\ DOMAIN s = 1..Len(s) /\ DOMAIN t = 1..(Len(s) + 1)
      /\ t[Len(s) + 1] = x /\ \A a \in 1..Len(s) : t[a] = s[a] /\ s[a] \in Nat
  OBVIOUS
<1> HIDE DEF t
<1>2. \A a \in 1..(Len(s) + 1) : a \in 1..Len(s) \/ a = Len(s) + 1
  BY <1>1
<1>3. Items(t) = Items(s) \cup {x}
  BY <1>1, <1>2 DEF Items
<1>4. \A a, b \in DOMAIN t : a < b => t[a] < t[b]
  BY <1>1, <1>2
<1> QED BY <1>3, <1>4 DEF t

LEMMA DatFilter == ASSUME Ctl, Dat, NEW q \in Proc, Filter(q) PROVE Dat'
<1>1. /\ Kept /\ q \in Nat /\ q > 0 /\ q <= Last /\ left[q] = q - 1 /\ q - 1 \in Proc /\ Last \in Nat
      /\ prime[q] = out[q] /\ DOMAIN out = 1..Last /\ q \in DOMAIN out /\ out[q] \in Nat
  <2>1. q \in Nat /\ q > 0 /\ q <= Last /\ left[q] = q - 1 /\ Last \in Nat /\ q - 1 \in Proc
    BY WhoIsAt, Around DEF Filter
  <2>2. Kept /\ Reader(q)
    BY <2>1 DEF Ctl
  <2>3. DOMAIN out = 1..Last /\ q \in DOMAIN out
    BY <2>1, <2>2 DEF Kept, Last
  <2> QED BY <2>1, <2>2, <2>3 DEF Reader, Kept
<1> DEFINE s == buf[q - 1]
           x == Head(s)
           N == IF x % out[q] # 0 THEN {x} ELSE {}
<1>2. s \in Seq(Nat) /\ s # <<>> /\ \A a, b \in DOMAIN s : a < b => s[a] < s[b]
  BY <1>1 DEF Filter, CanRead, Kept, Dat, Queues
<1>3. /\ pc[q] = "filter" /\ buf' = [buf EXCEPT ![q - 1] = Tail(s)] /\ num' = [num EXCEPT ![q] = x]
      /\ pc' = [pc EXCEPT ![q] = IF x % out[q] # 0 THEN "pass" ELSE "filter"]
      /\ failed' = failed /\ out' = out
  BY <1>1 DEF Filter, Take, Goto, Passes
<1>4. /\ Items(Tail(s)) = Items(s) \ {x} /\ x \in Items(s) /\ \A y \in Items(s) : x <= y
      /\ \A a, b \in DOMAIN Tail(s) : a < b => Tail(s)[a] < Tail(s)[b]
  BY <1>2, QueueTail
<1>5. /\ buf'[q - 1] = Tail(s) /\ \A k \in Proc \ {q - 1} : buf'[k] = buf[k]
      /\ pc'[q] = (IF x % out[q] # 0 THEN "pass" ELSE "filter") /\ num'[q] = x
      /\ \A k \in Proc \ {q} : pc'[k] = pc[k] /\ num'[k] = num[k]
  BY <1>1, <1>3 DEF Kept
<1>6. /\ Flying(q - 1, 1) = Items(s) /\ Flying(q - 1, 1)' = Flying(q - 1, 1) \ {x}
      /\ Flying(q, 0) = {} /\ Flying(q, 0)' = N
  <2>1. Flying(q - 1, 1) = Items(s) /\ Flying(q - 1, 1)' = Items(buf'[q - 1])
    BY DEF Flying
  <2>2. Flying(q, 0) = {}
    BY <1>3 DEF Flying
  <2>3. Flying(q, 0)' = {n \in {num'[q]} : q > 0 /\ pc'[q] = "pass"}
    BY DEF Flying
  <2>4. {n \in {num'[q]} : q > 0 /\ pc'[q] = "pass"} = N
    <3>1. CASE x % out[q] # 0
      BY <1>1, <1>5, <3>1
    <3>2. CASE ~(x % out[q] # 0)
      BY <1>5, <3>2
    <3> QED BY <3>1, <3>2
  <2> QED BY <1>4, <1>5, <2>1, <2>2, <2>3, <2>4
<1>7. ASSUME NEW k \in Proc, NEW e \in {0, 1}, <<k, e>> \notin {<<q - 1, 1>>, <<q, 0>>}
      PROVE  Flying(k, e)' = Flying(k, e)
  <2>1. CASE e = 1
    BY <1>5, <1>7, <2>1 DEF Flying
  <2>2. CASE e = 0
    BY <1>5, <1>7, <2>2 DEF Flying
  <2> QED BY <2>1, <2>2
<1>8. \A k \in DOMAIN out : out[k] < x /\ (k <= q - 1 => x % out[k] # 0)
  BY <1>1, <1>4, <1>6 DEF Dat, Sieved
<1>9. /\ N = {} => Settled(x)
      /\ \A k \in DOMAIN out : k <= q /\ N # {} => x % out[k] # 0
  <2>1. (N = {} => x % out[q] = 0) /\ (N # {} => x % out[q] # 0)
    OBVIOUS
  <2> HIDE DEF N, x
  <2>2. N = {} => Settled(x)
    BY <1>1, <1>8, <2>1 DEF Settled
  <2>3. ASSUME NEW k \in DOMAIN out, k <= q, N # {} PROVE x % out[k] # 0
    <3>1. k = q \/ k <= q - 1
      BY <1>1, <2>3
    <3> QED BY <1>8, <2>1, <2>3, <3>1
  <2> QED BY <2>2, <2>3
<1>10. Sorted' /\ Sieved' /\ \A n \in 2..(num[0] - 1) : Covered(n)'
  <2>1. 2 * q + 0 = 2 * (q - 1) + 1 + 1 /\ 0 \in {0, 1} /\ 1 \in {0, 1} /\ N \in SUBSET {x}
    BY <1>1
  <2>2. num'[0] = num[0] /\ Flying(q, 0)' = Flying(q, 0) \cup N /\ x \in Flying(q - 1, 1)
        /\ \A y \in Flying(q - 1, 1) : x <= y
    BY <1>1, <1>4, <1>5, <1>6, ProcFacts
  <2>3. /\ Kept /\ q - 1 \in Proc /\ out' = out /\ failed' = failed /\ (N = {} => Settled(x) \/ Late(x))
        /\ Flying(q - 1, 1)' = Flying(q - 1, 1) \ {x}
    BY <1>1, <1>3, <1>6, <1>9
  <2>4. \A k \in Proc, e \in {0, 1} :
          <<k, e>> \notin {<<q - 1, 1>>, <<q, 0>>} => Flying(k, e)' = Flying(k, e)
    BY <1>7
  <2> HIDE DEF s, x, N
  <2> QED BY <1>9, <2>1, <2>2, <2>3, <2>4, Flow
<1>11. Queues'
  BY <1>1, <1>4, <1>5 DEF Dat, Queues
<1>12. num'[0] = num[0] /\ pc'[0] = pc[0]
  BY <1>1, <1>5, ProcFacts
<1>13. Outputs'
  BY <1>3, <1>12 DEF Dat, Outputs, IsPrime
<1> HIDE DEF s, x, N
<1> QED BY <1>3, <1>10, <1>11, <1>12, <1>13 DEF Dat

\* Unless a fork has failed, whoever writes has a reader.
LEMMA HasReader ==
  ASSUME Ctl, NEW q \in Proc, pc[q] \in {"feed", "pass"}, ~failed
  PROVE  Open(R(q))
<1>1. q \in Nat /\ Writer(q) /\ Forked(q)
  BY WhoIsAt DEF Ctl, Forked
<1>2. q + 1 \in Proc \ {0} /\ pc[q + 1] # "none" /\ (q + 1) - 1 = q
  BY <1>1 DEF Writer
<1>3. Reader(q + 1) /\ Last \in Nat
  BY <1>2, WhoIsAt DEF Ctl
<1>4. R(q) \in fds[q + 1]
  BY <1>1, <1>2, <1>3 DEF Reader
<1> QED BY <1>2, <1>4 DEF Open

LEMMA DatPassOn == ASSUME Ctl, Dat, NEW q \in Proc, PassOn(q) PROVE Dat'
<1> DEFINE s == buf[q]
           x == num[q]
           t == IF Open(R(q)) THEN Append(s, x) ELSE s
           N == IF Open(R(q)) THEN {x} ELSE {}
<1>1. /\ Kept /\ q \in Nat /\ q > 0 /\ pc[q] = "pass" /\ x \in Nat
      /\ s \in Seq(Nat) /\ \A a, b \in DOMAIN s : a < b => s[a] < s[b]
  BY WhoIsAt DEF PassOn, Ctl, Kept, Dat, Queues
<1>2. /\ pc' = [pc EXCEPT ![q] = "filter"] /\ failed' = failed /\ out' = out /\ num' = num
      /\ buf' = [buf EXCEPT ![q] = t]
  BY <1>1 DEF PassOn, write, Goto, locals, Kept
<1>3. /\ buf'[q] = t /\ \A k \in Proc \ {q} : buf'[k] = buf[k]
      /\ pc'[q] = "filter" /\ \A k \in Proc \ {q} : pc'[k] = pc[k]
  BY <1>1, <1>2 DEF Kept
<1>4. Flying(q, 0) = {x} /\ Flying(q, 0)' = {} /\ Flying(q, 1) = Items(s) /\ Flying(q, 1)' = Items(t)
  BY <1>1, <1>3 DEF Flying
<1>5. \A a \in DOMAIN s : s[a] < x
  <2>1. 2 * q + 0 < 2 * q + 1 /\ 0 \in {0, 1} /\ 1 \in {0, 1}
    BY <1>1
  <2>2. \A y \in Flying(q, 1) : y < x
    BY <1>4, <2>1 DEF Dat, Sorted
  <2> QED BY <1>4, <2>2 DEF Items
<1>6. /\ Items(t) = Items(s) \cup N
      /\ \A a, b \in DOMAIN t : a < b => t[a] < t[b]
  <2>1. CASE Open(R(q))
    <3>1. t = Append(s, x) /\ N = {x}
      BY <2>1
    <3> HIDE DEF s, x, t, N
    <3> QED BY <1>1, <1>5, <3>1, QueueAppend
  <2>2. CASE ~Open(R(q))
    <3>1. t = s /\ N = {}
      BY <2>2
    <3> HIDE DEF s, x, t, N
    <3> QED BY <1>1, <3>1
  <2> QED BY <2>1, <2>2
<1>7. ASSUME NEW k \in Proc, NEW e \in {0, 1}, <<k, e>> \notin {<<q, 0>>, <<q, 1>>}
      PROVE  Flying(k, e)' = Flying(k, e)
  <2>1. k # q
    BY <1>7
  <2>2. buf'[k] = buf[k] /\ pc'[k] = pc[k] /\ num'[k] = num[k]
    BY <1>2, <1>3, <2>1
  <2> HIDE DEF s, x, N, t
  <2> QED BY <2>2 DEF Flying
<1>8. \A k \in DOMAIN out : out[k] < x /\ (k <= q => x % out[k] # 0)
  BY <1>4 DEF Dat, Sieved
<1>9. N = {} => Late(x)
  BY <1>1, <1>8, HasReader DEF Late
<1>10. Sorted' /\ Sieved' /\ \A n \in 2..(num[0] - 1) : Covered(n)'
  <2>1. 2 * q + 1 = 2 * q + 0 + 1 /\ 0 \in {0, 1} /\ 1 \in {0, 1} /\ N \in SUBSET {x}
    BY <1>1
  <2>2. /\ num'[0] = num[0] /\ Flying(q, 1)' = Flying(q, 1) \cup N /\ x \in Flying(q, 0)
        /\ Flying(q, 0)' = Flying(q, 0) \ {x} /\ \A y \in Flying(q, 0) : x <= y
    <3> HIDE DEF s, x, N, t
    <3>1. \A y \in {x} : x <= y
      BY <1>1
    <3>2. num' = num
      BY <1>2
    <3>3. Flying(q, 1)' = Flying(q, 1) \cup N
      BY <1>4, <1>6
    <3> QED BY <1>4, <3>1, <3>2, <3>3
  <2>3. /\ Kept /\ out' = out /\ failed' = failed /\ (N = {} => Settled(x) \/ Late(x))
        /\ \A k \in DOMAIN out : k <= q /\ N # {} => x % out[k] # 0
    BY <1>1, <1>2, <1>8, <1>9
  <2>4. \A k \in Proc, e \in {0, 1} : <<k, e>> \notin {<<q, 0>>, <<q, 1>>} => Flying(k, e)' = Flying(k, e)
    BY <1>7
  <2> HIDE DEF s, x, N, t
  <2> QED BY <2>1, <2>2, <2>3, <2>4, Flow
<1>11. Queues'
  BY <1>1, <1>3, <1>6 DEF Dat, Queues
<1>12. num'[0] = num[0] /\ pc'[0] = pc[0]
  BY <1>1, <1>2, <1>3, ProcFacts
<1>13. Outputs'
  BY <1>2, <1>12 DEF Dat, Outputs, IsPrime
<1> HIDE DEF s, x, N, t
<1> QED BY <1>2, <1>10, <1>11, <1>12, <1>13 DEF Dat

LEMMA DatFeed == ASSUME Ctl, Dat, NEW q \in Proc, Feed(q) PROVE Dat'
<1> DEFINE n == num[0]
           N == IF Open(R(0)) THEN {n} ELSE {}
<1>1. q = 0 /\ pc[0] = "feed" /\ n <= LIMIT /\ n >= 2 /\ n \in Nat /\ Kept /\ 0 \in Proc
      /\ Queues /\ Sorted /\ Sieved /\ Outputs
  BY WhoIsAt, ProcFacts DEF Feed, Ctl, Kept, Dat
<1>2. /\ UNCHANGED <<pc, failed, out>> /\ num' = [num EXCEPT ![0] = n + 1]
      /\ buf' = IF Open(R(0)) THEN [buf EXCEPT ![0] = Append(buf[0], n)] ELSE buf
  BY <1>1 DEF Feed, write
<1>3. /\ \A k \in Proc \ {0} : buf'[k] = buf[k] /\ num'[k] = num[k]
      /\ num'[0] = n + 1 /\ buf'[0] = IF Open(R(0)) THEN Append(buf[0], n) ELSE buf[0]
  BY <1>1, <1>2 DEF Kept
<1>4. \A k \in Proc, e \in {0, 1} : \A y \in Flying(k, e) : y \in Nat /\ y < n
  BY <1>1, FlyingFacts DEF Sieved
<1>5. buf[0] \in Seq(Nat) /\ Flying(0, 1) = Items(buf[0]) /\ Flying(0, 1)' = Items(buf'[0])
      /\ \A a, b \in DOMAIN buf[0] : a < b => buf[0][a] < buf[0][b]
  BY <1>1 DEF Kept, Queues, Flying
<1>6. \A a \in DOMAIN buf[0] : buf[0][a] < n
  <2>1. \A y \in Items(buf[0]) : y < n
    BY <1>1, <1>4, <1>5
  <2> QED BY <2>1 DEF Items
<1>7. /\ Items(buf'[0]) = Items(buf[0]) \cup N
      /\ \A a, b \in DOMAIN buf'[0] : a < b => buf'[0][a] < buf'[0][b]
  <2>1. CASE Open(R(0))
    <3>1. buf'[0] = Append(buf[0], n) /\ N = {n}
      BY <1>3, <2>1
    <3> HIDE DEF n, N
    <3> QED BY <1>1, <1>5, <1>6, <3>1, QueueAppend
  <2>2. CASE ~Open(R(0))
    <3>1. buf'[0] = buf[0] /\ N = {}
      BY <1>3, <2>2
    <3> HIDE DEF n, N
    <3> QED BY <1>5, <3>1
  <2> QED BY <2>1, <2>2
<1>8. Flying(0, 1)' = Flying(0, 1) \cup N /\ N \in SUBSET {n} /\ (N = {} => failed) /\ (N # {} => N = {n})
  <2>1. N \in SUBSET {n} /\ (N = {} => failed) /\ (N # {} => N = {n})
    BY <1>1, HasReader
  <2> HIDE DEF n, N
  <2> QED BY <1>5, <1>7, <2>1
<1>9. ASSUME NEW k \in Proc, NEW e \in {0, 1}, ~(k = 0 /\ e = 1) PROVE Flying(k, e)' = Flying(k, e)
  <2>1. CASE k = 0
    <3>1. e = 0
      BY <1>9, <2>1
    <3> QED BY <2>1, <3>1 DEF Flying
  <2>2. CASE k # 0
    <3>1. buf'[k] = buf[k] /\ pc'[k] = pc[k] /\ num'[k] = num[k]
      BY <1>2, <1>3, <2>2
    <3> HIDE DEF n, N
    <3> QED BY <3>1 DEF Flying
  <2> QED BY <2>1, <2>2
<1>10. num'[0] = n + 1 /\ num[0] = n /\ out' = out /\ failed' = failed /\ pc' = pc
  BY <1>2, <1>3
<1> HIDE DEF n, N
<1>11. ASSUME NEW k \in Proc, NEW e \in {0, 1}, NEW y \in Flying(k, e)'
       PROVE  y \in Flying(k, e) \/ (k = 0 /\ e = 1 /\ y = n)
  BY <1>8, <1>9, <1>11
<1>12. Queues'
  BY <1>3, <1>7 DEF Queues, Dat
<1>13. Sorted'
  <2>1. SUFFICES ASSUME NEW k \in Proc, NEW l \in Proc, NEW e \in {0, 1}, NEW f \in {0, 1},
                        2 * k + e < 2 * l + f, NEW y \in Flying(k, e)', NEW z \in Flying(l, f)'
                 PROVE  z < y
    BY DEF Sorted
  <2>2. k \in Nat /\ l \in Nat
    BY ProcFacts
  <2>3. CASE z \in Flying(l, f) /\ y \in Flying(k, e)
    BY <1>1, <2>1, <2>3 DEF Sorted
  <2>4. CASE z \in Flying(l, f) /\ k = 0 /\ e = 1 /\ y = n
    BY <1>4, <2>4
  <2>5. CASE l = 0 /\ f = 1 /\ z = n
    <3>1. k = 0 /\ e = 0
      BY <2>1, <2>2, <2>5
    <3>2. Flying(0, 0)' = {}
      BY DEF Flying
    <3> QED BY <3>1, <3>2
  <2> QED BY <1>11, <2>3, <2>4, <2>5
<1>14. Sieved'
  <2>1. SUFFICES ASSUME NEW k \in Proc, NEW e \in {0, 1}, NEW y \in Flying(k, e)'
                 PROVE  /\ 2 <= y /\ y < n + 1
                        /\ \A m \in DOMAIN out : out[m] < y /\ (m <= k => y % out[m] # 0)
    BY <1>10 DEF Sieved
  <2>2. CASE y \in Flying(k, e)
    <3>1. y \in Nat
      BY <1>4, <2>2
    <3> QED BY <1>1, <1>10, <2>2, <3>1 DEF Sieved
  <2>3. CASE k = 0 /\ e = 1 /\ y = n
    <3>1. ASSUME NEW m \in DOMAIN out PROVE out[m] < n /\ ~(m <= 0)
      <4>1. out[m] \in 2..(n - 1)
        BY <1>1, <1>10 DEF Outputs
      <4>2. m \in 1..Len(out) /\ Len(out) \in Nat
        <5>1. out \in Seq(Nat)
          BY <1>1 DEF Kept
        <5> QED BY <5>1
      <4>3. n \in Nat
        BY <1>1
      <4> QED BY <4>1, <4>2, <4>3
    <3> QED BY <1>1, <2>3, <3>1
  <2> QED BY <1>11, <2>2, <2>3
<1>15. ASSUME NEW m \in 2..((n + 1) - 1) PROVE Covered(m)'
  <2>1. CASE m = n
    <3>1. CASE N = {}
      <4>1. Late(n)
        BY <1>1, <1>8, <1>10, <3>1 DEF Late, Outputs, Kept
      <4> QED BY <1>10, <2>1, <4>1 DEF Covered, Late
    <3>2. CASE N # {}
      <4>1. n \in Flying(0, 1)'
        BY <1>8, <3>2
      <4> QED BY <1>1, <2>1, <4>1 DEF Covered
    <3> QED BY <3>1, <3>2
  <2>2. CASE m # n
    <3>1. Covered(m)
      BY <1>1, <1>10, <2>2 DEF Dat
    <3>2. CASE Settled(m) \/ Late(m)
      BY <1>10, <3>2 DEF Covered, Settled, Late
    <3>3. ASSUME NEW k \in Proc, NEW e \in {0, 1}, m \in Flying(k, e) PROVE m \in Flying(k, e)'
      BY <1>8, <1>9, <3>3
    <3> QED BY <3>1, <3>2, <3>3 DEF Covered
  <2> QED BY <2>1, <2>2
<1>16. Outputs'
  <2>1. ASSUME NEW k \in DOMAIN out PROVE out[k] \in 2..((n + 1) - 1) /\ IsPrime(out[k])
    BY <1>1, <1>10 DEF Outputs
  <2>2. \A k \in DOMAIN out' : IsPrime(out[k])'
    BY <1>10, <2>1 DEF IsPrime
  <2> QED BY <1>1, <1>10, <2>1, <2>2 DEF Outputs
<1>17. LIMIT \in Nat
  BY PrimesAssumption
<1> QED BY <1>1, <1>10, <1>12, <1>13, <1>14, <1>15, <1>16, <1>17 DEF Dat

LEMMA DatReadPrime == ASSUME Ctl, Dat, NEW q \in Proc, ReadPrime(q) PROVE Dat'
<1> DEFINE s == buf[q - 1]
           x == Head(s)
<1>1. /\ q \in Nat /\ q = Last + 1 /\ Last \in Nat /\ q - 1 \in Proc /\ ~failed
      /\ s \in Seq(Nat) /\ s # <<>>
      /\ buf' = [buf EXCEPT ![q - 1] = Tail(s)] /\ pc' = [pc EXCEPT ![q] = "right"]
      /\ out' = Append(out, x) /\ num' = num /\ failed' = failed /\ pc[q] = "first"
  <2>1. pc[q] = "first"
    BY DEF ReadPrime
  <2> QED BY <2>1, Reads
<1>2. Kept /\ Queues /\ Sorted /\ Sieved /\ Outputs /\ \A n \in 2..(num[0] - 1) : Covered(n)
  BY DEF Ctl, Dat
<1>3. /\ Items(Tail(s)) = Items(s) \ {x} /\ x \in Items(s) /\ \A y \in Items(s) : x <= y
      /\ \A a, b \in DOMAIN Tail(s) : a < b => Tail(s)[a] < Tail(s)[b]
  <2>1. \A a, b \in DOMAIN s : a < b => s[a] < s[b]
    BY <1>1, <1>2 DEF Queues
  <2> QED BY <1>1, <2>1, QueueTail
<1>4. /\ buf'[q - 1] = Tail(s) /\ \A k \in Proc \ {q - 1} : buf'[k] = buf[k]
      /\ pc'[q] = "right" /\ \A k \in Proc \ {q} : pc'[k] = pc[k]
  BY <1>1, <1>2 DEF Kept
<1>5. x \in Nat
  BY <1>1, HeadFacts
<1> HIDE DEF s, x
<1>6. Flying(q - 1, 1) = Items(s) /\ Flying(q - 1, 1)' = Items(s) \ {x} /\ 1 \in {0, 1}
  BY <1>3, <1>4 DEF Flying, s
<1>7. ASSUME NEW k \in Proc, NEW e \in {0, 1}, ~(k = q - 1 /\ e = 1) PROVE Flying(k, e)' = Flying(k, e)
  <2>1. CASE e = 1
    <3>1. buf'[k] = buf[k]
      BY <1>4, <1>7, <2>1
    <3> QED BY <2>1, <3>1 DEF Flying
  <2>2. CASE e = 0
    <3>1. pc'[k] = "pass" <=> pc[k] = "pass"
      BY <1>1, <1>4
    <3> QED BY <1>1, <2>2, <3>1 DEF Flying
  <2> QED BY <2>1, <2>2
\* x is the least number on its way, and all others are behind it.
<1>8. ASSUME NEW k \in Proc, NEW e \in {0, 1}, NEW y \in Flying(k, e)
      PROVE  k \in Nat /\ k < q /\ x <= y /\ (y = x => k = q - 1 /\ e = 1)
  <2>1. k \in Nat /\ Writer(k) /\ y \in Nat
    BY <1>2, FlyingFacts, ProcFacts DEF Ctl
  <2>2. k < q
    <3>1. SUFFICES ASSUME k > Last PROVE FALSE
      BY <1>1, <2>1
    <3>2. buf[k] = <<>> /\ pc[k] # "pass"
      BY <2>1, <3>1, WhoIsAt DEF Writer
    <3> QED BY <3>2 DEF Flying, Items
  <2>3. CASE k = q - 1 /\ e = 1
    BY <1>3, <1>6, <2>1, <2>2, <2>3
  <2>4. CASE ~(k = q - 1 /\ e = 1)
    <3>1. 2 * k + e < 2 * (q - 1) + 1
      BY <1>1, <2>1, <2>2, <2>4
    <3>2. x < y
      BY <1>1, <1>2, <1>3, <1>6, <3>1 DEF Sorted
    <3> QED BY <1>5, <2>1, <2>2, <3>2
  <2> QED BY <2>3, <2>4
<1>9. ASSUME NEW k \in Proc, NEW e \in {0, 1}, NEW y \in Flying(k, e)'
      PROVE  y \in Flying(k, e) /\ y \in Nat /\ k < q /\ k \in Nat /\ x < y
  <2>1. y \in Flying(k, e) /\ ~(k = q - 1 /\ e = 1 /\ y = x)
    <3>1. CASE k = q - 1 /\ e = 1
      BY <1>6, <1>9, <3>1
    <3>2. CASE ~(k = q - 1 /\ e = 1)
      BY <1>7, <1>9, <3>2
    <3> QED BY <3>1, <3>2
  <2>2. y \in Nat
    BY <1>2, <2>1, FlyingFacts
  <2>3. k \in Nat /\ k < q /\ x <= y /\ (y = x => k = q - 1 /\ e = 1)
    BY <1>8, <2>1
  <2> QED BY <1>5, <2>1, <2>2, <2>3
<1>10. /\ DOMAIN out = 1..Last /\ DOMAIN out' = 1..q /\ out'[q] = x
       /\ \A k \in 1..Last : out'[k] = out[k] /\ out[k] \in Nat
  <2>1. out \in Seq(Nat) /\ Len(out) = Last
    BY <1>2 DEF Kept, Last
  <2> QED BY <1>1, <1>5, <2>1
<1>11. 2 <= x /\ x < num[0] /\ num[0] \in Nat /\ \A k \in 1..Last : out[k] < x /\ x % out[k] # 0
  <2>1. x \in Flying(q - 1, 1) /\ num[0] \in Nat /\ \A k \in 1..Last : k <= q - 1
    BY <1>1, <1>2, <1>3, <1>6, ProcFacts DEF Kept
  <2>2. 2 <= x /\ x < num[0] /\ \A k \in DOMAIN out : out[k] < x /\ (k <= q - 1 => x % out[k] # 0)
    BY <1>1, <1>2, <1>6, <2>1 DEF Sieved
  <2> QED BY <1>10, <2>1, <2>2
<1>19. \A k \in 1..q : k = q \/ k \in 1..Last
  <2>1. q = Last + 1 /\ Last \in Nat
    BY <1>1
  <2> QED BY <2>1
\* No smaller number divides it: its divisors have been fed before.
<1>12. IsPrime(x)
  <2>1. SUFFICES ASSUME NEW d \in 2..(x - 1), x % d = 0 PROVE FALSE
    BY DEF IsPrime
  <2>2. Covered(d) /\ d \in Nat \ {0}
    BY <1>2, <1>5, <1>11
  <2>3. ASSUME NEW k \in 1..Last PROVE out[k] # d /\ d % out[k] # 0
    <3>1. out[k] \in Nat \ {0} /\ x % out[k] # 0
      <4>1. out[k] \in 2..(num[0] - 1)
        BY <1>2, <1>10 DEF Outputs
      <4> QED BY <1>11, <4>1
    <3> QED BY <1>5, <2>1, <2>2, <3>1, Divides
  <2>4. ~Settled(d) /\ ~Late(d)
    BY <1>1, <1>10, <2>3 DEF Settled, Late
  <2>5. PICK k \in Proc, e \in {0, 1} : d \in Flying(k, e)
    BY <2>2, <2>4 DEF Covered
  <2>6. x <= d
    BY <1>8, <2>5
  <2> QED BY <1>5, <2>2, <2>6
<1>13. Queues'
  BY <1>2, <1>3, <1>4 DEF Queues
<1>14. Sorted'
  <2>1. SUFFICES ASSUME NEW k \in Proc, NEW l \in Proc, NEW e \in {0, 1}, NEW f \in {0, 1},
                        2 * k + e < 2 * l + f, NEW y \in Flying(k, e)', NEW z \in Flying(l, f)'
                 PROVE  z < y
    BY DEF Sorted
  <2> QED BY <1>2, <1>9, <2>1 DEF Sorted
<1>15. Sieved'
  <2>1. SUFFICES ASSUME NEW k \in Proc, NEW e \in {0, 1}, NEW y \in Flying(k, e)'
                 PROVE  /\ 2 <= y /\ y < num[0]
                        /\ \A m \in 1..q : out'[m] < y /\ (m <= k => y % out'[m] # 0)
    BY <1>1, <1>10 DEF Sieved
  <2>2. /\ y \in Flying(k, e) /\ x < y /\ k < q /\ k \in Nat
    BY <1>9
  <2>3. /\ 2 <= y /\ y < num[0]
        /\ \A m \in 1..Last : out[m] < y /\ (m <= k => y % out[m] # 0)
    BY <1>2, <1>10, <2>2 DEF Sieved
  <2>4. ASSUME NEW m \in 1..q PROVE out'[m] < y /\ (m <= k => y % out'[m] # 0)
    <3>1. CASE m = q
      BY <1>1, <1>10, <2>2, <3>1
    <3>2. CASE m \in 1..Last
      BY <1>10, <2>3, <3>2
    <3> QED BY <1>19, <3>1, <3>2
  <2> QED BY <2>3, <2>4
<1>16. ASSUME NEW n \in 2..(num[0] - 1) PROVE Covered(n)'
  <2>1. Covered(n)
    BY <1>2
  <2>2. CASE n = x
    <3>1. q \in DOMAIN out' /\ out'[q] = n
      BY <1>1, <1>10, <2>2
    <3> QED BY <3>1 DEF Covered, Settled
  <2>3. CASE Settled(n)
    <3>1. PICK k \in 1..Last : out[k] = n \/ (out[k] < n /\ n % out[k] = 0)
      BY <1>10, <2>3 DEF Settled
    <3>2. k \in DOMAIN out' /\ out'[k] = out[k]
      BY <1>1, <1>10
    <3> QED BY <3>1, <3>2 DEF Covered, Settled
  <2>4. ASSUME NEW k \in Proc, NEW e \in {0, 1}, n \in Flying(k, e), n # x PROVE n \in Flying(k, e)'
    BY <1>6, <1>7, <2>4
  <2> QED BY <1>1, <2>1, <2>2, <2>3, <2>4 DEF Covered, Late
<1>17. Outputs'
  <2>1. ASSUME NEW k \in 1..q PROVE out'[k] \in 2..(num[0] - 1) /\ IsPrime(out'[k])
    <3>1. CASE k = q
      BY <1>5, <1>10, <1>11, <1>12, <3>1
    <3>2. CASE k \in 1..Last
      BY <1>2, <1>10, <3>2 DEF Outputs
    <3> QED BY <1>19, <3>1, <3>2
  <2>2. ASSUME NEW k \in 1..q, NEW l \in 1..q, k < l PROVE out'[k] < out'[l]
    <3>1. k \in 1..Last
      BY <1>1, <2>2
    <3>2. CASE l = q
      BY <1>10, <1>11, <3>1, <3>2
    <3>3. CASE l \in 1..Last
      BY <1>2, <1>10, <2>2, <3>1, <3>3 DEF Outputs
    <3> QED BY <1>19, <3>2, <3>3
  <2> QED BY <1>1, <1>10, <2>1, <2>2 DEF Outputs, IsPrime
<1>18. pc'[0] = pc[0] \/ q = 0
  BY <1>4, ProcFacts
<1> QED BY <1>1, <1>13, <1>14, <1>15, <1>16, <1>17, <1>18 DEF Dat

LEMMA DatRest ==
  ASSUME Ctl, Dat, NEW q \in Proc,
         \/ MakePipe(q) \/ FeedClose(q) \/ FeedEnd(q) \/ Stage(q) \/ NoPrime(q) \/ NextStage(q)
         \/ CloseRead(q) \/ FilterEnd(q) \/ WaitExit(q) \/ ForkFirst(q) \/ ForkNext(q)
  PROVE  Dat'
<1>1. DOMAIN pc = Proc /\ 0 \in Proc /\ q \in Nat /\ Proc \subseteq Nat /\ Feeder
  BY ProcFacts DEF Ctl, Kept
<1>2. UNCHANGED <<buf, num, out>> /\ (failed => failed')
  BY DEF MakePipe, FeedClose, FeedEnd, Stage, NoPrime, NextStage, CloseRead, FilterEnd, WaitExit,
         ForkFirst, ForkNext, fork, locals
<1>3. CASE ForkFirst(q) \/ ForkNext(q)
  <2>1. pc[q] \in {"fork", "split"}
    BY <1>3 DEF ForkFirst, ForkNext
  <2>2. q + 1 \in Proc => pc[q + 1] = "none"
    BY <2>1, Forks
  <2>3. \E l \in {"closeR", "unread", "stage"}, c \in {"stage", "next"} :
          pc' = [pc EXCEPT ![q] = l, ![q + 1] = c] \/ pc' = [pc EXCEPT ![q] = l]
    BY <1>3 DEF ForkFirst, ForkNext, fork, Goto
  <2>4. \A p \in Proc : (pc'[p] = "pass" <=> pc[p] = "pass")
    BY <1>1, <2>1, <2>2, <2>3
  <2>5. pc'[0] = pc[0] \/ pc'[0] \notin {"wait", "gone"}
    BY <1>1, <2>3
  <2> QED BY <1>2, <2>4, <2>5, DatQuiet DEF Dat
<1>4. CASE ~(ForkFirst(q) \/ ForkNext(q))
  <2>1. PICK l \in {"fork", "split", "feed", "wait", "first", "gone", "filter"} : pc' = [pc EXCEPT ![q] = l]
    BY <1>4 DEF MakePipe, FeedClose, FeedEnd, Stage, NoPrime, NextStage, CloseRead, FilterEnd,
                WaitExit, Goto, exit
  <2>2. pc[q] # "pass"
    BY <1>4 DEF MakePipe, FeedClose, FeedEnd, Stage, NoPrime, NextStage, CloseRead, FilterEnd,
                WaitExit
  <2>3. \A p \in Proc : (pc'[p] = "pass" <=> pc[p] = "pass")
    BY <1>1, <2>1, <2>2
  <2>4. q = 0 => failed \/ num[0] > LIMIT \/ pc'[0] \notin {"wait", "gone"}
    <3>1. CASE NoPrime(q)
      BY <1>1, <3>1 DEF NoPrime, Feeder
    <3>2. CASE FeedEnd(q)
      BY <3>2 DEF FeedEnd
    <3>3. CASE WaitExit(q)
      BY <3>3 DEF WaitExit, Dat
    <3>4. CASE MakePipe(q) \/ FeedClose(q) \/ Stage(q) \/ NextStage(q) \/ CloseRead(q)
      BY <1>1, <3>4 DEF MakePipe, FeedClose, Stage, NextStage, CloseRead, Goto
    <3>5. CASE FilterEnd(q)
      BY <1>1, <3>5 DEF FilterEnd, Feeder
    <3> QED BY <1>4, <3>1, <3>2, <3>3, <3>4, <3>5
  <2>5. q # 0 => pc'[0] = pc[0]
    BY <1>1, <2>1
  <2> QED BY <1>2, <2>3, <2>4, <2>5, DatQuiet DEF Dat
<1> QED BY <1>3, <1>4

LEMMA DatStart == Init => DatInv
<1> SUFFICES ASSUME Init, prog = "primes" PROVE Dat
  BY DEF DatInv
<1>1. Ctl
  BY CtlStart DEF CtlInv
<1>2. /\ out = <<>> /\ num = [q \in Proc |-> 2] /\ buf = [q \in Proc |-> <<>>] /\ DOMAIN out = {}
      /\ num[0] = 2 /\ 2..(2 - 1) = {}
  BY ProcFacts DEF Init, PrimesInit
<1>3. pc[0] = "pipe" /\ \A q \in Proc : pc[q] # "pass"
  <2>1. Len(Start[prog]) = 1 /\ Start[prog][1] = "pipe"
    BY StartDef
  <2>2. pc = [q \in Proc |-> IF q < 1 THEN Start[prog][q + 1] ELSE "none"]
    BY <2>1 DEF Init
  <2> QED BY <2>1, <2>2, ProcFacts
<1>4. \A i \in Proc, c \in {0, 1} : Flying(i, c) = {}
  BY <1>2, <1>3 DEF Flying, Items
<1>5. Queues /\ Sorted /\ Sieved /\ Outputs
  BY <1>2, <1>4 DEF Queues, Sorted, Sieved, Outputs
<1> QED BY <1>2, <1>3, <1>5 DEF Dat

LEMMA DatInductive == CtlInv /\ DatInv /\ [Next]_vars => DatInv'
<1> SUFFICES ASSUME CtlInv, DatInv, [Next]_vars, (prog = "primes")' PROVE Dat'
  BY DEF DatInv
<1>1. CASE UNCHANGED vars
  <2>1. UNCHANGED <<buf, num, out, failed, pc, prog>>
    BY <1>1 DEF vars, kernel, locals
  <2>2. Dat
    BY <2>1 DEF DatInv
  <2>3. failed' \/ num[0] > LIMIT \/ pc'[0] \notin {"wait", "gone"}
    BY <2>1, <2>2 DEF Dat
  <2> QED BY <2>1, <2>2, <2>3, DatQuiet
<1>2. ASSUME NEW q \in Proc, Step(q) PROVE Dat'
  <2>1. Ctl /\ Dat
    BY <1>2 DEF Step, CtlInv, DatInv
  <2>2. PrimesStep(q)
    BY <1>2, <2>1, WhoRuns
  <2> QED BY <2>1, <2>2, DatRest, DatFeed, DatReadPrime, DatFilter, DatPassOn DEF PrimesStep
<1> QED BY <1>1, <1>2 DEF Next

\* When main is gone nothing is on its way.
LEMMA AllGone ==
  ASSUME Ctl, ~failed, pc[0] = "gone", NEW i \in Proc, NEW c \in {0, 1}
  PROVE  Flying(i, c) = {}
<1>1. Last \in Nat /\ 0 \in Proc /\ Proc \subseteq Nat /\ i \in Nat /\ Last \in Proc
  BY WhoIsAt, ProcFacts DEF Ctl, Kept
<1> DEFINE S == {p \in Proc : pc[p] = "gone"}
<1>2. ASSUME NEW p \in Proc, p <= Last, p \in S PROVE p + 1 \in Proc \ {0} /\ p + 1 \in S
  <2>1. Writer(p) /\ Forked(p) /\ p \in Nat
    BY <1>1, <1>2 DEF Ctl, Forked
  <2>2. p + 1 \in Proc /\ pc[p + 1] = "gone"
    BY <1>2, <2>1 DEF Writer
  <2> QED BY <2>1, <2>2
<1>3. \A n \in 0..Last : n \in S
  <2>1. 0 \in S
    BY <1>1
  <2>2. ASSUME NEW n \in 1..Last, n - 1 \in S PROVE n \in S
    <3>1. n - 1 \in Proc /\ n - 1 <= Last /\ (n - 1) + 1 = n
      BY <1>1, <2>2
    <3> QED BY <1>2, <2>2, <3>1
  <2> HIDE DEF S
  <2> QED BY <1>1, <2>1, <2>2, UpTo
<1>4. CASE i <= Last
  <2>1. i \in S /\ i + 1 \in Proc \ {0} /\ i + 1 \in S
    BY <1>1, <1>2, <1>3, <1>4
  <2>2. Reader(i + 1) /\ (i + 1) - 1 = i
    BY <1>1, <2>1 DEF Ctl
  <2>3. buf[i] = <<>> /\ pc[i] = "gone"
    BY <2>1, <2>2 DEF Reader
  <2> QED BY <2>3 DEF Flying, Items
<1>5. CASE i > Last
  <2>1. buf[i] = <<>> /\ pc[i] # "pass"
    BY <1>1, <1>5, WhoIsAt DEF Ctl, Writer
  <2> QED BY <2>1 DEF Flying, Items
<1> QED BY <1>1, <1>4, <1>5

\* The sieve prints primes only, in order and without a gap, and when main
\* exits all of them to LIMIT, for every LIMIT, size of a pipe and number of
\* processes; only a fork that fails may cut the list short.
THEOREM PrimesFound == Spec => []PrimesExact
<1>1. CtlInv /\ DatInv => PrimesExact
  <2> SUFFICES ASSUME CtlInv, DatInv, prog = "primes" PROVE PrimesExact
    BY DEF PrimesExact
  <2>1. Ctl /\ Dat /\ Kept /\ Outputs /\ Sieved /\ num[0] \in Nat /\ LIMIT \in Nat
    BY ProcFacts, PrimesAssumption DEF CtlInv, DatInv, Ctl, Dat, Kept
  <2>2. ASSUME NEW k \in DOMAIN out PROVE out[k] \in 2..LIMIT /\ IsPrime(out[k]) /\ out[k] \in 2..(num[0] - 1)
    <3>1. out[k] \in 2..(num[0] - 1) /\ IsPrime(out[k])
      BY <2>1 DEF Outputs
    <3>2. num[0] = 2 \/ num[0] <= LIMIT + 1
      BY <2>1 DEF Dat
    <3> QED BY <2>1, <3>1, <3>2
  <2>3. ASSUME NEW x \in 2..(num[0] - 1), IsPrime(x), ~Late(x),
               \A i \in Proc, c \in {0, 1} : x \notin Flying(i, c)
        PROVE  \E k \in DOMAIN out : out[k] = x
    <3>1. Settled(x)
      BY <2>1, <2>3 DEF Dat, Covered
    <3>2. PICK k \in DOMAIN out : out[k] = x \/ (out[k] < x /\ x % out[k] = 0)
      BY <3>1 DEF Settled
    <3>3. ~(out[k] < x /\ x % out[k] = 0)
      <4>1. out[k] < x => out[k] \in 2..(x - 1)
        BY <2>1, <2>2
      <4> QED BY <2>3, <4>1 DEF IsPrime
    <3> QED BY <3>2, <3>3
  <2>4. ASSUME NEW k \in DOMAIN out PROVE PrimesTo(out[k])
    <3>1. SUFFICES ASSUME NEW x \in 2..out[k], IsPrime(x) PROVE \E i \in DOMAIN out : out[i] = x
      BY DEF PrimesTo
    <3>2. x \in 2..(num[0] - 1) /\ ~(out[k] < x)
      BY <2>1, <2>2
    <3>3. ~Late(x)
      BY <3>2 DEF Late
    <3>4. \A i \in Proc, c \in {0, 1} : x \notin Flying(i, c)
      BY <2>1, <3>2 DEF Sieved
    <3> QED BY <2>3, <3>1, <3>2, <3>3, <3>4
  <2>5. ASSUME pc[0] = "gone", ~failed PROVE PrimesTo(LIMIT)
    <3>1. SUFFICES ASSUME NEW x \in 2..LIMIT, IsPrime(x) PROVE \E i \in DOMAIN out : out[i] = x
      BY DEF PrimesTo
    <3>2. num[0] > LIMIT
      BY <2>1, <2>5 DEF Dat
    <3>3. x \in 2..(num[0] - 1)
      BY <2>1, <3>2
    <3>4. ~Late(x) /\ \A i \in Proc, c \in {0, 1} : x \notin Flying(i, c)
      BY <2>1, <2>5, AllGone DEF Late
    <3> QED BY <2>3, <3>1, <3>3, <3>4
  <2> QED BY <2>1, <2>2, <2>4, <2>5 DEF PrimesExact, Outputs
<1>2. Init => CtlInv /\ DatInv
  BY CtlStart, DatStart
<1>3. CtlInv /\ DatInv /\ [Next]_vars => (CtlInv /\ DatInv)'
  BY CtlInductive, DatInductive
<1> QED BY <1>1, <1>2, <1>3, PTL DEF Spec
=============================================================================
