----------------------------- MODULE BlockStore -----------------------------
(***************************************************************************)
(* What the buffer cache promises its callers: a store of blocks in which  *)
(* at most one caller uses a block at a time, and sees and changes its     *)
(* current content.  Nothing of buffers, lists or the disk is visible.     *)
(***************************************************************************)
CONSTANTS Procs, Blocks, Values

VARIABLES content,   \* the current content of each block
          sessions   \* triples <<t, k, x>>: caller t uses block k and sees x

vars == <<content, sessions>>

TypeOK == /\ content \in [Blocks -> Values]
          /\ sessions \subseteq Procs \X Blocks \X Values

Init == content \in [Blocks -> Values] /\ sessions = {}

\* bread returns block k to t, with what was last put there.
Acquire(t, k) ==
  /\ \A s \in sessions : s[1] # t /\ s[2] # k
  /\ sessions' = sessions \cup {<<t, k, content[k]>>}
  /\ UNCHANGED content

\* The user of a block changes it.
Modify(s, x) ==
  /\ s \in sessions
  /\ sessions' = (sessions \ {s}) \cup {<<s[1], s[2], x>>}
  /\ content' = [content EXCEPT ![s[2]] = x]

\* brelse gives the block back; its content stays.
Release(s) ==
  /\ s \in sessions
  /\ sessions' = sessions \ {s}
  /\ UNCHANGED content

Next == \/ \E t \in Procs, k \in Blocks : Acquire(t, k)
        \/ \E s \in sessions : Release(s) \/ \E x \in Values : Modify(s, x)

Spec == Init /\ [][Next]_vars
=============================================================================
