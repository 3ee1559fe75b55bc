---------------------------- MODULE BufferCache ----------------------------
(***************************************************************************)
(* The hashed buffer cache of Lab4-Locks/bio.c: NBUF buffers, NBUCKETS     *)
(* bucket lists, each under its own spin lock, a sleep lock per buffer and *)
(* a "used" flag per buffer that is claimed by an atomic test-and-set, so  *)
(* that no lock covers the buffers as a whole.                             *)
(*                                                                         *)
(* An element of Procs is one use of a buffer, from the call of bread to   *)
(* the return of brelse; a process that keeps two buffers is two of them.  *)
(* A step is a stretch of code that touches only what the held locks       *)
(* protect, or one access to memory that no held lock protects.            *)
(***************************************************************************)
EXTENDS Naturals, FiniteSets

CONSTANTS Procs,     \* concurrent uses of the cache
          Blocks,    \* disk blocks, each a pair <<dev, blockno>>
          Values,    \* contents of a block
          NBUF,      \* number of buffers
          NBUCKETS,  \* number of hash buckets
          LOGSIZE,   \* blocks the log may pin at the same time
          NoProc     \* the owner of a free lock

ASSUME ConstantsAssumption ==
  /\ NBUF \in Nat \ {0}
  /\ NBUCKETS \in Nat \ {0}
  /\ LOGSIZE \in Nat
  /\ Blocks \subseteq Nat \X Nat
  /\ Values # {}
  /\ NoProc \notin Procs
  /\ IsFiniteSet(Procs)
  /\ IsFiniteSet(Blocks)

VARIABLES used, key, valid, refcnt, data, slock,  \* struct buf, by buffer
          next, prev,                             \* list links, by node
          lock,                                   \* bucket spin locks
          pc, want, at, hv,                       \* locals of the calls
          disk,                                   \* what the disk holds
          logged                                  \* blocks the log has pinned

bufs   == <<used, key, valid, refcnt, data, slock>>
links  == <<next, prev>>
locals == <<pc, want, at, hv>>
store  == <<disk, logged>>
vars   == <<used, key, valid, refcnt, data, slock, next, prev, lock,
            pc, want, at, hv, disk, logged>>

Buf     == 1..NBUF
Buckets == 0..(NBUCKETS - 1)
head(v) == NBUF + 1 + v          \* the list head embedded in struct bucket
Node    == 1..(NBUF + NBUCKETS)
NoBlock == <<0, 0>>              \* dev and blockno of a zeroed struct buf
NULL    == 0

hash_v(k) == k[2] % NBUCKETS

\* The buffers that the loop over bucket->head.next reaches.
ring(v) == {b \in Buf : \A S \in SUBSET Node :
              head(v) \in S /\ (\A n \in S : next[n] \in S) => b \in S}

\* The call of t goes on at label l.
Goto(t, l) == pc' = [pc EXCEPT ![t] = l]

\* Bucket locks.  Mutants: not taken, not released.
NoAcquire(v, t) == UNCHANGED lock
acquire(v, t)   == lock' = [lock EXCEPT ![v] = t]
NoRelease(v)    == UNCHANGED lock
release(v)      == lock' = [lock EXCEPT ![v] = NoProc]

\* refcnt++ of bget and of bpin.  Mutant: the reference is not counted.
NoRef(b) == UNCHANGED refcnt
AddRef(b) == refcnt' = [refcnt EXCEPT ![b] = @ + 1]

binit ==
  /\ used = [b \in Buf |-> FALSE]
  /\ key = [b \in Buf |-> NoBlock]
  /\ valid = [b \in Buf |-> FALSE]
  /\ refcnt = [b \in Buf |-> 0]
  /\ data \in [Buf -> {CHOOSE x \in Values : TRUE}]
  /\ slock = [b \in Buf |-> NoProc]
  /\ next = [n \in Node |-> IF n \in Buf THEN NULL ELSE n]
  /\ prev = [n \in Node |-> IF n \in Buf THEN NULL ELSE n]
  /\ lock = [v \in Buckets |-> NoProc]

Init ==
  /\ binit
  /\ pc = [t \in Procs |-> "idle"]
  /\ want = [t \in Procs |-> NoBlock]
  /\ at = [t \in Procs |-> 0]
  /\ hv = [t \in Procs |-> 0]
  /\ disk \in [Blocks -> Values]
  /\ logged = {}

----------------------------------------------------------------------------
(* bread and bget                                                          *)

\* bread(dev, blockno) is called.
Bread(t, k) ==
  /\ pc[t] = "idle"
  /\ want' = [want EXCEPT ![t] = k]
  /\ hv' = [hv EXCEPT ![t] = hash_v(k)]
  /\ Goto(t, "bget")
  /\ UNCHANGED <<bufs, links, lock, at, store>>

\* The block is in its bucket: count the reference and drop the bucket lock.
BgetHit(t, b) ==
  /\ pc[t] = "bget"
  /\ lock[hv[t]] = NoProc
  /\ b \in ring(hv[t]) /\ key[b] = want[t]
  /\ AddRef(b)
  /\ at' = [at EXCEPT ![t] = b]
  /\ Goto(t, "acquiresleep")
  /\ UNCHANGED <<used, key, valid, data, slock, links, lock, want, hv,
                 store>>

\* The first index of the scan.  Mutant: off by one.
SecondBuf == 2
firstBuf  == 1

\* The block is not there: keep the bucket lock and look for a free buffer.
BgetMiss(t) ==
  /\ pc[t] = "bget"
  /\ lock[hv[t]] = NoProc
  /\ \A b \in ring(hv[t]) : key[b] # want[t]
  /\ acquire(hv[t], t)
  /\ at' = [at EXCEPT ![t] = firstBuf]
  /\ Goto(t, "scan")
  /\ UNCHANGED <<bufs, links, want, hv, store>>

\* buf[i] is in use, at the plain read or at the test-and-set: try the next.
BgetSkip(t) ==
  /\ pc[t] = "scan" /\ at[t] \in Buf /\ used[at[t]]
  /\ at' = [at EXCEPT ![t] = @ + 1]
  /\ UNCHANGED <<bufs, links, lock, pc, want, hv, store>>

\* The test-and-set of buf[i].used finds it clear.
BgetTake(t) ==
  /\ pc[t] = "scan" /\ at[t] \in Buf /\ ~used[at[t]]
  /\ used' = [used EXCEPT ![at[t]] = TRUE]
  /\ Goto(t, "fill")
  /\ UNCHANGED <<key, valid, refcnt, data, slock, links, lock, want, at,
                 hv, store>>

\* panic("bget: no buffers"): the thread stops and keeps the bucket lock.
BgetPanic(t) ==
  /\ pc[t] = "scan" /\ at[t] \notin Buf
  /\ Goto(t, "panic")
  /\ UNCHANGED <<bufs, links, lock, want, at, hv, store>>

\* Mutant: bucket->head.next->prev = buf is forgotten.
LinkOneWay(v, b) ==
  /\ next' = [next EXCEPT ![b] = next[head(v)], ![head(v)] = b]
  /\ prev' = [prev EXCEPT ![b] = head(v)]

\* The two pairs of pointer writes of lines 85-88.
LinkFirst(v, b) ==
  LET h == head(v) IN
  /\ next' = [next EXCEPT ![b] = next[h], ![h] = b]
  /\ prev' = [prev EXCEPT ![b] = h, ![next[h]] = b]

\* buf->valid = 0.  Mutant: a recycled buffer keeps its flag.
KeepValid(b)  == UNCHANGED valid
Invalidate(b) == valid' = [valid EXCEPT ![b] = FALSE]

\* Initialise the claimed buffer, put it first in the bucket, unlock.
BgetFill(t) ==
  LET b == at[t] IN
  /\ pc[t] = "fill"
  /\ key' = [key EXCEPT ![b] = want[t]]
  /\ Invalidate(b)
  /\ refcnt' = [refcnt EXCEPT ![b] = 1]
  /\ LinkFirst(hv[t], b)
  /\ release(hv[t])
  /\ Goto(t, "acquiresleep")
  /\ UNCHANGED <<used, data, slock, want, at, hv, store>>

\* acquiresleep, and bread's test of b->valid under the sleep lock.
AcquireSleep(t) ==
  /\ pc[t] = "acquiresleep"
  /\ slock[at[t]] = NoProc
  /\ slock' = [slock EXCEPT ![at[t]] = t]
  /\ Goto(t, IF valid[at[t]] THEN "hold" ELSE "read")
  /\ UNCHANGED <<used, key, valid, refcnt, data, links, lock, want, at,
                 hv, store>>

\* virtio_disk_rw(b, 0) returns; bread marks the buffer valid.
ReadDone(t) ==
  /\ pc[t] = "read"
  /\ data' = [data EXCEPT ![at[t]] = disk[key[at[t]]]]
  /\ valid' = [valid EXCEPT ![at[t]] = TRUE]
  /\ Goto(t, "hold")
  /\ UNCHANGED <<used, key, refcnt, slock, links, lock, want, at, hv,
                 store>>

----------------------------------------------------------------------------
(* What the holder of a buffer does with it.  The log (log.c, not part of  *)
(* the repository) pins a block it has not yet pinned, and unpins it after *)
(* writing it home; a changed buffer is written or pinned before brelse.   *)

\* The duty of bread's caller before brelse.
Settled(b) == key[b] \in logged \/ disk[key[b]] = data[b]

Modify(t, x) ==
  /\ pc[t] = "hold" /\ data[at[t]] # x
  /\ data' = [data EXCEPT ![at[t]] = x]
  /\ UNCHANGED <<used, key, valid, refcnt, slock, links, lock, locals,
                 store>>

bwrite(t) ==
  /\ pc[t] = "hold" /\ disk[key[at[t]]] # data[at[t]]
  /\ disk' = [disk EXCEPT ![key[at[t]]] = data[at[t]]]
  /\ UNCHANGED <<bufs, links, lock, locals, logged>>

bpin(t) ==
  LET b == at[t] IN
  /\ pc[t] = "hold"
  /\ key[b] \notin logged /\ Cardinality(logged) < LOGSIZE
  /\ lock[hash_v(key[b])] = NoProc
  /\ AddRef(b)
  /\ logged' = logged \cup {key[b]}
  /\ UNCHANGED <<used, key, valid, data, slock, links, lock, locals, disk>>

bunpin(t) ==
  LET b == at[t] IN
  /\ pc[t] = "hold"
  /\ key[b] \in logged /\ disk[key[b]] = data[b]
  /\ lock[hash_v(key[b])] = NoProc
  /\ refcnt' = [refcnt EXCEPT ![b] = @ - 1]
  /\ logged' = logged \ {key[b]}
  /\ UNCHANGED <<used, key, valid, data, slock, links, lock, locals, disk>>

----------------------------------------------------------------------------
(* brelse                                                                  *)

\* The call releases the sleep lock first.
Brelse(t) ==
  LET b == at[t] IN
  /\ pc[t] = "hold"
  /\ Settled(b)
  /\ slock' = [slock EXCEPT ![b] = NoProc]
  /\ Goto(t, "hash")
  /\ UNCHANGED <<used, key, valid, refcnt, data, links, lock, want, at,
                 hv, store>>

\* b->blockno is read with neither the sleep lock nor a bucket lock held.
BrelseHash(t) ==
  /\ pc[t] = "hash"
  /\ hv' = [hv EXCEPT ![t] = hash_v(key[at[t]])]
  /\ Goto(t, "brelse")
  /\ UNCHANGED <<bufs, links, lock, want, at, store>>

\* The call returns; its locals go out of scope.
Return(t) ==
  /\ Goto(t, "idle")
  /\ want' = [want EXCEPT ![t] = NoBlock]
  /\ at' = [at EXCEPT ![t] = 0]
  /\ hv' = [hv EXCEPT ![t] = 0]

\* The count after brelse's decrement is zero.  Mutant: it is not tested.
AnyRef(b)  == TRUE
LastRef(b) == refcnt[b] = 1

\* Others still refer to the buffer: only the count goes down.
BrelseShared(t) ==
  /\ pc[t] = "brelse" /\ lock[hv[t]] = NoProc
  /\ ~LastRef(at[t])
  /\ refcnt' = [refcnt EXCEPT ![at[t]] = @ - 1]
  /\ Return(t)
  /\ UNCHANGED <<used, key, valid, data, slock, links, lock, store>>

\* The last reference: the buffer leaves its list, under the bucket lock ...
BrelseLast(t) ==
  LET b == at[t] IN
  /\ pc[t] = "brelse" /\ lock[hv[t]] = NoProc
  /\ LastRef(b)
  /\ refcnt' = [refcnt EXCEPT ![b] = @ - 1]
  /\ prev' = [prev EXCEPT ![next[b]] = prev[b]]
  /\ next' = [next EXCEPT ![prev[b]] = next[b]]
  /\ acquire(hv[t], t)
  /\ Goto(t, "clear")
  /\ UNCHANGED <<used, key, valid, data, slock, want, at, hv, store>>

\* __atomic_clear(&b->used).  Mutant: it is forgotten.
NoClear(b)   == UNCHANGED used
ClearUsed(b) == used' = [used EXCEPT ![b] = FALSE]

\* ... and only then becomes free for every bucket, ...
BrelseClear(t) ==
  /\ pc[t] = "clear"
  /\ ClearUsed(at[t])
  /\ at' = [at EXCEPT ![t] = 0]
  /\ Goto(t, "unlock")
  /\ UNCHANGED <<key, valid, refcnt, data, slock, links, lock, want, hv,
                 store>>

\* ... before the bucket lock is released.
BrelseUnlock(t) ==
  /\ pc[t] = "unlock"
  /\ release(hv[t])
  /\ Return(t)
  /\ UNCHANGED <<bufs, links, store>>

----------------------------------------------------------------------------
\* Steps inside a bucket's critical section.
Critical(t) == BgetSkip(t) \/ BgetTake(t) \/ BgetPanic(t) \/ BgetFill(t)
               \/ BrelseClear(t) \/ BrelseUnlock(t)

Next == \E t \in Procs :
  \/ \E k \in Blocks : Bread(t, k)
  \/ \E b \in Buf : BgetHit(t, b)
  \/ BgetMiss(t)
  \/ BgetSkip(t) \/ BgetTake(t) \/ BgetPanic(t) \/ BgetFill(t)
  \/ AcquireSleep(t) \/ ReadDone(t)
  \/ \E x \in Values : Modify(t, x)
  \/ bwrite(t) \/ bpin(t) \/ bunpin(t)
  \/ Brelse(t) \/ BrelseHash(t) \/ BrelseShared(t) \/ BrelseLast(t)
  \/ BrelseClear(t) \/ BrelseUnlock(t)

Spec == Init /\ [][Next]_vars

\* What the code of the cache goes on to do by itself.
Running(t) == Critical(t) \/ (\E b \in Buf : BgetHit(t, b)) \/ BgetMiss(t)
              \/ AcquireSleep(t) \/ ReadDone(t) \/ BrelseHash(t)
              \/ BrelseShared(t) \/ BrelseLast(t)

\* Every processor keeps executing, the disk answers, and a caller gives
\* back the buffer it holds once its content is written or pinned.
FairSpec == Spec /\ \A t \in Procs : WF_vars(Running(t))
                                    /\ WF_vars(bwrite(t)) /\ WF_vars(Brelse(t))

----------------------------------------------------------------------------
(* Properties                                                              *)

\* Labels at which a call counts as one reference to its buffer.
Refs == {"acquiresleep", "read", "hold", "hash", "brelse"}

\* The calls that refer to buffer b, and the buffers that are in a list.
Users(b)  == {t \in Procs : at[t] = b /\ pc[t] \in Refs}
Linked(b) == used[b] /\ \A t \in Procs : at[t] = b => pc[t] \notin {"fill", "clear"}

\* Every variable has its type; in particular no count, a uint in the code,
\* ever goes below zero.
TypeOK ==
  /\ used \in [Buf -> BOOLEAN]
  /\ key \in [Buf -> Blocks \cup {NoBlock}]
  /\ valid \in [Buf -> BOOLEAN]
  /\ refcnt \in [Buf -> Nat]
  /\ data \in [Buf -> Values]
  /\ slock \in [Buf -> Procs \cup {NoProc}]
  /\ next \in [Node -> Node \cup {NULL}]
  /\ prev \in [Node -> Node \cup {NULL}]
  /\ lock \in [Buckets -> Procs \cup {NoProc}]
  /\ pc \in [Procs -> Refs \cup {"idle", "bget", "scan", "fill", "panic",
                                  "clear", "unlock"}]
  /\ want \in [Procs -> Blocks \cup {NoBlock}]
  /\ at \in [Procs -> 0..(NBUF + 1)]
  /\ hv \in [Procs -> Buckets]
  /\ disk \in [Blocks -> Values]
  /\ logged \subseteq Blocks

\* Under no lock but its own, each bucket's list stays one doubly linked ring
\* through its head, and holds exactly the linked buffers of its blocks.
RingsOK == \A v \in Buckets :
  LET N == ring(v) \cup {head(v)} IN
  /\ ring(v) = {b \in Buf : Linked(b) /\ hash_v(key[b]) = v}
  /\ \A n \in N : next[prev[n]] = n /\ prev[next[n]] = n

\* No block is ever cached twice, although the search of a bucket and the
\* claim of a buffer for it are two steps.
OneBufPerBlock == \A a, b \in Buf :
  Linked(a) /\ Linked(b) /\ key[a] = key[b] => a = b

\* A count is exactly the calls that refer to the buffer, the one that brelse
\* is about to drop included, and the log's pin.
RefcntExact == \A b \in Buf :
  refcnt[b] = Cardinality(Users(b))
              + (IF Linked(b) /\ key[b] \in logged THEN 1 ELSE 0)

\* A buffer is not recycled while a call refers to it: the wait for the sleep
\* lock (line 70) ends with the block that was asked for, and the unlocked
\* read of b->blockno (line 130) finds it too.
ReferenceStable == \A t \in Procs :
  pc[t] \in Refs => Linked(at[t]) /\ key[at[t]] = want[t]

\* The sleep lock belongs to the call that uses the buffer, so the panics of
\* bwrite and brelse are out of reach, and a free buffer is unlocked.
SleepLockOwned == \A b \in Buf :
  /\ \A t \in Procs : slock[b] = t <=> t \in Users(b) /\ pc[t] \in {"read", "hold"}
  /\ ~used[b] => slock[b] = NoProc

\* A buffer is in use only for a call or for the log: none leaks, and the log
\* finds every block it pinned in the cache.
NoLeak ==
  /\ \A b \in Buf : used[b] => \/ key[b] \in logged
                               \/ \E t \in Procs : at[t] = b /\ pc[t] # "scan"
  /\ \A k \in logged : \E b \in Buf : Linked(b) /\ key[b] = k /\ valid[b]

\* The uses under way and the pinned blocks, each of which may need a buffer.
\* There can be more of them than buffers: LOGSIZE and NBUF are equal (lines
\* 10-11 of param.h), and then bget panics.
Load      == Cardinality({t \in Procs : pc[t] # "idle"}) + Cardinality(logged)
NoPanic   == \A t \in Procs : pc[t] # "panic"
Overload  == Load > NBUF

\* bget does not panic before there is an overload, although its scan sees
\* every buffer at another time, and locks no other bucket meanwhile.
PanicOnlyFull == []~Overload => []NoPanic

\* Without an overload, somebody who wants a block of a bucket gets one.
BucketProgress == []~Overload =>
  \A v \in Buckets : (\E t \in Procs : pc[t] = "bget" /\ hv[t] = v)
                      ~> (\E t \in Procs : pc[t] = "hold" /\ hv[t] = v)

\* The block store that the cache implements: a block's content is what its
\* buffer holds, once read, and else what the disk holds.
Cached(k, b) == Linked(b) /\ valid[b] /\ key[b] = k
Content == [k \in Blocks |-> IF \E b \in Buf : Cached(k, b)
                             THEN data[CHOOSE b \in Buf : Cached(k, b)] ELSE disk[k]]
Sessions == {<<t, want[t], data[at[t]]>> : t \in {u \in Procs : pc[u] = "hold"}}
Store == INSTANCE BlockStore WITH content <- Content, sessions <- Sessions

\* Callers see the cache as one store with exclusive use of a block: no write
\* is lost and none is seen late, whatever buffer the block moves to.
ImplementsBlockStore == Store!Spec
=============================================================================
