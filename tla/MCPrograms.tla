----------------------------- MODULE MCPrograms -----------------------------
(* Instances of Programs for TLC. *)
EXTENDS Programs

\* Files at four depths, the last of them out of reach of the stack.
SomeDirs == [root |-> <<"dots", "a", "free", "file", "b">>,
             a    |-> <<"file", "c", "full">>,
             b    |-> <<"other">>,
             c    |-> <<"file", "d">>,
             d    |-> <<"file">>]

\* A name of DIRSIZ characters, and a file out of reach of the stack.
LostDirs == [root |-> <<"dots", "full", "a">>, a |-> <<"b">>, b |-> <<"c">>, c |-> <<"file">>]

\* Several words, then none, more than fit, an empty line and one behind it.
SomeLines == <<[n |-> 1, words |-> <<<<0, 1>>, <<0, 2>>>>],
               [n |-> 1, words |-> <<>>],
               [n |-> 1, words |-> <<<<0, 3>>, <<0, 4>>, <<0, 5>>>>],
               [n |-> 0, words |-> <<>>],
               [n |-> 1, words |-> <<<<0, 6>>>>]>>

SomeCommand == <<<<0, 7>>, <<0, 8>>>>
=============================================================================
