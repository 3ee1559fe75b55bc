----------------------------- MODULE FindXargs -----------------------------
(***************************************************************************)
(* find.c and xargs.c of Lab1, as the pipeline that their test runs:       *)
(* process 0 is find and writes into pipe 0, process 1 is xargs and reads  *)
(* it, process 2 the command of xargs.                                     *)
(*                                                                         *)
(* A directory is the sequence of its entries.  An entry is "file" (a file *)
(* with the name looked for), "full" (the same with a name of DIRSIZ       *)
(* characters), "other" (any other file, or a device), "dots" (. or ..),   *)
(* "free" (inum is 0), or the name of a directory.  A path is the sequence *)
(* of the positions that lead to it.  A word is a path, or a sequence that *)
(* starts with 0.  A line has n characters and some words; n is 0 or 1 for *)
(* none and any, and a line is shorter than the buffer of xargs.           *)
(***************************************************************************)
EXTENDS Pipes

CONSTANTS Dirs,      \* the entries of every directory; "root" is argv[1]
          Lines,     \* what xargs reads if its input is not from find
          NFree,     \* descriptors that find may open
          Depth,     \* calls of find that fit on the one page of its stack
          MAXPATH,   \* the longest path that the kernel takes
          PathMax,   \* the longest path that the buffer of find can extend
          MAXARG,    \* size of the argument vector
          Base       \* the command of xargs, and the arguments it is given

Kinds == {"file", "full", "other", "dots", "free"}
Words == Seq(Nat) \ {<<>>}

ASSUME FindXargsAssumption ==
  /\ NFree \in Nat /\ Depth \in Nat \ {0} /\ MAXPATH \in Nat /\ PathMax \in Nat /\ MAXARG \in Nat
  /\ Base \in Seq(Words) /\ Len(Base) > 0 /\ Len(Base) < MAXARG - 1
  /\ Lines \in Seq([n : {0, 1}, words : Seq(Words)])
  /\ "root" \in DOMAIN Dirs /\ DOMAIN Dirs \cap Kinds = {} /\ "nothing" \notin DOMAIN Dirs
  /\ \A d \in DOMAIN Dirs : Dirs[d] \in Seq(Kinds \cup DOMAIN Dirs)

VARIABLES arg,    \* what argv[1] of find is, and the length of that path
          stack,  \* the calls of find: directory, and the last entry read
          argv,   \* xargs_argv
          argc,   \* xargs_argc
          ran     \* the argument vectors of the commands that were run

findVars  == <<arg, stack>>
xargsVars == <<argv, argc, ran>>

NULL == <<>>
Junk == <<0, 0, 0>>
Args == [is : {"usage", "missing", "file", "dir"}, len : 0..(PathMax + 1)]

\* main of find, and of xargs up to the loop.
FindXargsInit ==
  /\ arg \in Args /\ stack = <<>> /\ ran = <<>>
  /\ argv = [i \in 0..(MAXARG - 1) |-> IF i < Len(Base) THEN Base[i + 1] ELSE Junk]
  /\ argc = Len(Base)

----------------------------------------------------------------------------
(* find                                                                    *)

\* The path to what was last read.
Path == [i \in 1..Len(stack) |-> stack[i].at]

\* stat and open need a descriptor, of which every call of find holds one, and
\* a path that is not too long for the kernel.
CanOpen == Len(stack) < NFree /\ arg.len + Len(stack) <= MAXPATH
TooLong == arg.len + Len(stack) > PathMax

Top     == stack[Len(stack)]
Push(d) == stack' = Append(stack, [dir |-> d, at |-> 0])

\* find(argv[1], argv[2]).
FindMain(p) ==
  /\ pc[p] = "find"
  /\ IF arg.is # "dir" \/ ~CanOpen \/ TooLong
     THEN Goto(p, "find_exit") /\ UNCHANGED stack
     ELSE Goto(p, "entry") /\ Push("root")
  /\ UNCHANGED <<fds, buf, kids, failed, out, arg, xargsVars>>

\* An entry whose name is DIRSIZ characters long is not terminated, so that
\* strcmp goes on into what lies behind it: either result.
\* Mutant: a directory with that name counts too.
AnyKind(e) == IF e = "full" THEN BOOLEAN ELSE {e = "file" \/ e \in DOMAIN Dirs}
Matches(e) == IF e = "full" THEN BOOLEAN ELSE {e = "file"}

\* A round of the loop.  The call for a directory needs room on the stack, and
\* fails if its path is too long.
Entry(p) ==
  /\ pc[p] = "entry" /\ stack # <<>>
  /\ LET e   == Dirs[Top.dir][Top.at + 1]
         nxt == [stack EXCEPT ![Len(stack)].at = @ + 1]
     IN  /\ Top.at < Len(Dirs[Top.dir])
         /\ \/ /\ e = "free" \/ ~CanOpen
               /\ stack' = nxt /\ UNCHANGED pc
            \/ /\ e # "free" /\ CanOpen
               /\ \/ /\ TRUE \in Matches(e)
                     /\ stack' = nxt /\ Goto(p, "print")
                  \/ /\ FALSE \in Matches(e) /\ (e \in DOMAIN Dirs => Len(stack) < Depth)
                     /\ stack' = IF e \in DOMAIN Dirs /\ ~TooLong
                                 THEN Append(nxt, [dir |-> e, at |-> 0])
                                 ELSE nxt
                     /\ UNCHANGED pc
  /\ UNCHANGED <<fds, buf, kids, failed, out, arg, xargsVars>>

FindPrint(p) ==
  /\ pc[p] = "print"
  /\ write(0, [n |-> 1, words |-> <<Path>>])
  /\ out' = Append(out, Path)
  /\ Goto(p, "entry")
  /\ UNCHANGED <<fds, kids, failed, findVars, xargsVars>>

\* The end of a directory.
Return(p) ==
  /\ pc[p] = "entry" /\ stack # <<>>
  /\ Top.at = Len(Dirs[Top.dir])
  /\ stack' = SubSeq(stack, 1, Len(stack) - 1)
  /\ Goto(p, IF Len(stack) = 1 THEN "find_exit" ELSE "entry")
  /\ UNCHANGED <<fds, buf, kids, failed, out, arg, xargsVars>>

\* A call of find too many meets the guard page below the stack, and the fault
\* kills the process.  What the last call that fits calls itself, stat or
\* printf, may have no room either.
Overflow(p) ==
  /\ pc[p] \in {"entry", "print"} /\ Len(stack) = Depth
  /\ pc[p] = "entry" => Top.at < Len(Dirs[Top.dir])
  /\ Goto(p, "find_exit")
  /\ UNCHANGED <<fds, buf, kids, failed, out, findVars, xargsVars>>

FindExit(p) ==
  /\ pc[p] = "find_exit"
  /\ exit(p)
  /\ UNCHANGED <<buf, kids, failed, out, findVars, xargsVars>>

FindStep(p) == FindMain(p) \/ Entry(p) \/ FindPrint(p) \/ Return(p) \/ Overflow(p) \/ FindExit(p)

----------------------------------------------------------------------------
(* xargs                                                                   *)

\* read_line finds the end of the input, or an empty line, which looks the same.
InputEnd(p) ==
  /\ pc[p] = "xargs"
  /\ AtEOF(0) \/ (CanRead(0) /\ Head(buf[0]).n = 0)
  /\ Goto(p, "xexit")
  /\ UNCHANGED <<fds, buf, kids, failed, out, findVars, xargsVars>>

\* parse_args: the vector with the words ws put behind its first n words, and
\* the number of its words.  Mutant: no NULL at the end.
Smaller(a, b) == IF a < b THEN a ELSE b
Filled(n, ws) == Smaller(MAXARG - 1, n + Len(ws))
NoEnd(n, ws) ==
  [i \in DOMAIN argv |-> IF i >= n /\ i < Filled(n, ws) THEN ws[i - n + 1] ELSE argv[i]]
parse_args(n, ws) ==
  [i \in DOMAIN argv |-> IF i = Filled(n, ws) THEN NULL
                         ELSE IF i >= n /\ i < Filled(n, ws) THEN ws[i - n + 1] ELSE argv[i]]

ReadLine(p) ==
  /\ pc[p] = "xargs" /\ CanRead(0) /\ Head(buf[0]).n > 0
  /\ Take(0)
  /\ argv' = parse_args(argc, Head(buf[0]).words)
  /\ argc' = Filled(argc, Head(buf[0]).words)
  /\ Goto(p, "xfork")
  /\ UNCHANGED <<fds, kids, failed, out, findVars, ran>>

XFork(p) ==
  /\ pc[p] = "xfork"
  /\ fork(p, "xwait", "exec", "xexit")
  /\ UNCHANGED <<buf, out, findVars, xargsVars>>

\* exec takes the words up to the first NULL.  The command then runs, or exec
\* fails; in both cases the child exits.
Vector == LET n == CHOOSE i \in 0..MAXARG :
                     /\ i = MAXARG \/ argv[i] = NULL
                     /\ \A j \in 0..(i - 1) : argv[j] # NULL
          IN  [k \in 1..n |-> argv[k - 1]]

Exec(p) ==
  /\ pc[p] = "exec"
  /\ ran' = Append(ran, Vector)
  /\ Goto(p, "command")
  /\ UNCHANGED <<fds, buf, kids, failed, out, findVars, argv, argc>>

Command(p) ==
  /\ pc[p] = "command"
  /\ exit(p)
  /\ UNCHANGED <<buf, kids, failed, out, findVars, xargsVars>>

\* wait(0), and the arguments of the line are dropped.  Mutant: they stay.
KeepArgs  == argc
ResetArgs == Len(Base)

XWait(p) ==
  /\ pc[p] = "xwait" /\ CanWait(p)
  /\ argc' = ResetArgs
  /\ Goto(p, "xargs")
  /\ UNCHANGED <<fds, buf, kids, failed, out, findVars, argv, ran>>

XExit(p) ==
  /\ pc[p] = "xexit"
  /\ exit(p)
  /\ UNCHANGED <<buf, kids, failed, out, findVars, xargsVars>>

XargsStep(p) == InputEnd(p) \/ ReadLine(p) \/ XFork(p) \/ Exec(p) \/ Command(p) \/ XWait(p) \/ XExit(p)
=============================================================================
