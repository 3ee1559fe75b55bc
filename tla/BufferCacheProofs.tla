------------------------- MODULE BufferCacheProofs -------------------------
(***************************************************************************)
(* Safety of the buffer cache for every number of calls, blocks, buffers   *)
(* and buckets.                                                            *)
(***************************************************************************)
EXTENDS BufferCache, FiniteSetTheorems, TLAPS

(* The inductive invariant                                                 *)

\* A bucket lock is held by the call inside that bucket's critical section.
Crit == {"scan", "fill", "panic", "clear", "unlock"}
LockInv == \A t \in Procs, v \in Buckets :
  lock[v] = t <=> hv[t] = v /\ pc[t] \in Crit

\* A call works on the bucket of the block it asked for.
HashInv == \A t \in Procs :
  pc[t] # "idle" => want[t] \in Blocks /\ hv[t] = hash_v(want[t])

\* A buffer that is being put into or taken out of a list has one owner.
ClaimInv == \A t \in Procs : pc[t] \in {"fill", "clear"} =>
  /\ at[t] \in Buf /\ used[at[t]]
  /\ \A u \in Procs : at[u] = at[t] /\ pc[u] \in {"fill", "clear"} => u = t

\* A reference keeps its buffer in the list, under the block asked for.
RefInv == \A t \in Procs : pc[t] \in Refs =>
  at[t] \in Buf /\ Linked(at[t]) /\ key[at[t]] = want[t]

\* A linked buffer holds a block, is referenced, and is the only one.
LinkInv == \A b \in Buf : Linked(b) => key[b] \in Blocks /\ refcnt[b] > 0

\* While a call scans for a buffer its block stays out of the cache.
FreshInv == \A t \in Procs, b \in Buf :
  pc[t] \in {"scan", "fill"} /\ Linked(b) => key[b] # want[t]

\* The buffers handed to a caller, and the pinned ones, have been read.
HoldInv == \A t \in Procs : pc[t] = "hold" => valid[at[t]]
PinInv  == \A k \in logged : \E b \in Buf : Linked(b) /\ key[b] = k /\ valid[b]

\* nx and pv link the set N to one ring through h: they are inverse on N, and
\* nx goes through all of N before it is back at h.
IsRing(N, h, nx, pv) ==
  /\ h \in N
  /\ \A n \in N : /\ nx[n] \in N /\ pv[n] \in N
                 /\ nx[pv[n]] = n /\ pv[nx[n]] = n
  /\ \A S \in SUBSET N : h \in S /\ (\A n \in S : nx[n] \in S) => S = N

\* Each bucket's list is a ring of its linked buffers and its head.
Nodes(v) == {b \in Buf : Linked(b) /\ hash_v(key[b]) = v} \cup {head(v)}
RingInv  == \A v \in Buckets : IsRing(Nodes(v), head(v), next, prev)

IInv == /\ TypeOK /\ LockInv /\ HashInv /\ ClaimInv /\ RefInv /\ LinkInv
        /\ FreshInv /\ OneBufPerBlock /\ RefcntExact /\ SleepLockOwned
        /\ HoldInv /\ PinInv /\ RingInv

----------------------------------------------------------------------------
(* Facts about the constants and the operators                             *)

LEMMA HashInBuckets == \A k \in Nat \X Nat : hash_v(k) \in Buckets
  BY ConstantsAssumption DEF hash_v, Buckets

LEMMA HeadFacts ==
  /\ \A v \in Buckets : head(v) \in Node /\ head(v) \notin Buf
  /\ \A v, w \in Buckets : head(v) = head(w) => v = w
  /\ Buf \subseteq Node
  BY ConstantsAssumption DEF head, Node, Buf, Buckets

\* The search of bget sees exactly the linked buffers of its bucket.
LEMMA RingIsLinked ==
  ASSUME NEW v \in Buckets, IsRing(Nodes(v), head(v), next, prev)
  PROVE  ring(v) = Nodes(v) \ {head(v)}
<1>1. Nodes(v) \subseteq Node /\ head(v) \in Nodes(v) /\ head(v) \notin Buf
  BY HeadFacts DEF Nodes
<1>2. ASSUME NEW b \in ring(v) PROVE b \in Nodes(v)
  BY <1>1, <1>2 DEF ring, IsRing
<1>3. ASSUME NEW b \in Nodes(v), b # head(v), NEW S \in SUBSET Node,
             head(v) \in S, \A n \in S : next[n] \in S
      PROVE  b \in S
  <2> DEFINE T == S \cap Nodes(v)
  <2>1. T \in SUBSET Nodes(v) /\ head(v) \in T /\ \A n \in T : next[n] \in T
    BY <1>1, <1>3 DEF IsRing
  <2>2. T = Nodes(v)
    BY <2>1 DEF IsRing
  <2> QED BY <2>2, <1>3
<1> QED BY <1>1, <1>2, <1>3 DEF ring, Nodes

LEMMA RingFrameOn ==
  ASSUME NEW N, NEW h, NEW nx, NEW pv, NEW nx2, NEW pv2, IsRing(N, h, nx, pv),
         \A n \in N : nx2[n] = nx[n] /\ pv2[n] = pv[n]
  PROVE  IsRing(N, h, nx2, pv2)
  BY DEF IsRing

\* The pointer writes of bget (lines 85-88) put b behind h.
LEMMA RingInsert ==
  ASSUME NEW D, NEW N \in SUBSET D, NEW h, NEW nx, NEW pv,
         nx = [n \in D |-> nx[n]], pv = [n \in D |-> pv[n]],
         IsRing(N, h, nx, pv), NEW b \in D \ N
  PROVE  IsRing(N \cup {b}, h, [nx EXCEPT ![b] = nx[h], ![h] = b],
                [pv EXCEPT ![b] = h, ![nx[h]] = b])
<1> DEFINE M  == N \cup {b}
           x2 == [nx EXCEPT ![b] = nx[h], ![h] = b]
           p2 == [pv EXCEPT ![b] = h, ![nx[h]] = b]
<1>1. h \in N /\ nx[h] \in N /\ b # h /\ b # nx[h] /\ pv[nx[h]] = h
  BY DEF IsRing
<1>2. x2[b] = nx[h] /\ x2[h] = b /\ \A n \in D \ {b, h} : x2[n] = nx[n]
  BY <1>1
<1>3. p2[b] = h /\ p2[nx[h]] = b /\ \A n \in D \ {b, nx[h]} : p2[n] = pv[n]
  BY <1>1
<1> HIDE DEF x2, p2
<1>4. \A n \in M : x2[n] \in M /\ p2[n] \in M /\ x2[p2[n]] = n /\ p2[x2[n]] = n
  BY <1>1, <1>2, <1>3 DEF IsRing
<1>5. ASSUME NEW S \in SUBSET M, h \in S, \A n \in S : x2[n] \in S
      PROVE  S = M
  <2>1. b \in S /\ nx[h] \in S \ {b}
    BY <1>1, <1>2, <1>5
  <2>2. \A n \in S \ {b} : nx[n] \in S \ {b}
    BY <1>1, <1>2, <1>5, <2>1 DEF IsRing
  <2>3. S \ {b} = N
    BY <1>1, <1>5, <2>2 DEF IsRing
  <2> QED BY <2>1, <2>3
<1>6. IsRing(M, h, x2, p2)
  BY <1>1, <1>4, <1>5 DEF IsRing
<1> QED BY <1>6 DEF x2, p2

\* The pointer writes of brelse (lines 136-137) take b out.
LEMMA RingRemove ==
  ASSUME NEW D, NEW N \in SUBSET D, NEW h, NEW nx, NEW pv,
         nx = [n \in D |-> nx[n]], pv = [n \in D |-> pv[n]],
         IsRing(N, h, nx, pv), NEW b \in N, b # h
  PROVE  IsRing(N \ {b}, h, [nx EXCEPT ![pv[b]] = nx[b]],
                [pv EXCEPT ![nx[b]] = pv[b]])
<1> DEFINE M  == N \ {b}
           x2 == [nx EXCEPT ![pv[b]] = nx[b]]
           p2 == [pv EXCEPT ![nx[b]] = pv[b]]
<1>1. \A n \in N : nx[n] \in N /\ pv[n] \in N /\ nx[pv[n]] = n /\ pv[nx[n]] = n
  BY DEF IsRing
<1>2. x2[pv[b]] = nx[b] /\ \A n \in D \ {pv[b]} : x2[n] = nx[n]
  BY <1>1
<1>3. p2[nx[b]] = pv[b] /\ \A n \in D \ {nx[b]} : p2[n] = pv[n]
  BY <1>1
<1>4. pv[b] # b
  <2>1. SUFFICES ASSUME pv[b] = b PROVE FALSE
    OBVIOUS
  <2>2. \A n \in N \ {b} : nx[n] \in N \ {b}
    BY <1>1, <2>1
  <2>3. h \in N \ {b}
    BY DEF IsRing
  <2>4. N \ {b} = N
    BY <2>2, <2>3 DEF IsRing
  <2> QED BY <2>4
<1>5. nx[b] # b
  BY <1>1, <1>4
<1> HIDE DEF x2, p2
<1>6. \A n \in M : x2[n] \in M /\ p2[n] \in M /\ x2[p2[n]] = n /\ p2[x2[n]] = n
  BY <1>1, <1>2, <1>3, <1>4, <1>5
<1>7. ASSUME NEW S \in SUBSET M, h \in S, \A n \in S : x2[n] \in S
      PROVE  S = M
  <2>1. CASE pv[b] \in S
    <3> DEFINE T == S \cup {b}
    <3>1. \A n \in T : nx[n] \in T
      BY <1>1, <1>2, <1>7, <2>1
    <3>2. T \in SUBSET N /\ h \in T
      BY <1>7
    <3>3. T = N
      BY <3>1, <3>2 DEF IsRing
    <3> QED BY <3>3, <1>7
  <2>2. CASE pv[b] \notin S
    <3>1. \A n \in S : nx[n] \in S
      BY <1>2, <1>7, <2>2
    <3>2. S = N
      BY <3>1, <1>7 DEF IsRing
    <3> QED BY <3>2, <1>7
  <2> QED BY <2>1, <2>2
<1>8. IsRing(M, h, x2, p2)
  BY <1>6, <1>7 DEF IsRing
<1> QED BY <1>8 DEF x2, p2

LEMMA UsersFinite == \A b : IsFiniteSet(Users(b)) /\ Cardinality(Users(b)) \in Nat
<1> TAKE b
<1>1. Users(b) \subseteq Procs
  BY DEF Users
<1> QED BY <1>1, ConstantsAssumption, FS_Subset, FS_CardinalityType

\* Lists depend on links, keys and the linked buffers only.
LEMMA RingFrame ==
  ASSUME RingInv, UNCHANGED <<key, next, prev>>,
         \A b \in Buf : Linked(b)' <=> Linked(b)
  PROVE  RingInv'
<1>1. \A v \in Buckets : Nodes(v)' = Nodes(v)
  BY DEF Nodes, hash_v, head
<1> QED BY <1>1 DEF RingInv, head

----------------------------------------------------------------------------
(* The steps that leave lists, keys and counts alone                       *)

Quiet(t) == \/ \E k \in Blocks : Bread(t, k)
            \/ BgetMiss(t) \/ BgetSkip(t) \/ BgetTake(t) \/ BgetPanic(t)
            \/ AcquireSleep(t) \/ ReadDone(t)
            \/ \E x \in Values : Modify(t, x)
            \/ bwrite(t) \/ Brelse(t) \/ BrelseHash(t) \/ BrelseClear(t)
            \/ BrelseUnlock(t)

\* Lists, keys and counts depend on nothing else.
LEMMA Frame ==
  ASSUME IInv, UNCHANGED <<key, refcnt, next, prev, logged>>,
         \A b \in Buf : Linked(b)' <=> Linked(b),
         \A b \in Buf : Users(b)' = Users(b)
  PROVE  OneBufPerBlock' /\ RefcntExact' /\ LinkInv' /\ RingInv'
<1>1. OneBufPerBlock' /\ LinkInv'
  BY DEF IInv, OneBufPerBlock, LinkInv
<1>2. RefcntExact'
  BY DEF IInv, RefcntExact
<1>3. RingInv'
  BY RingFrame DEF IInv
<1> QED BY <1>1, <1>2, <1>3

LEMMA QuietStep ==
  ASSUME IInv, NEW t \in Procs, Quiet(t)
  PROVE  IInv'
<1> USE DEF Quiet, Bread, BgetMiss, BgetSkip, BgetTake, BgetPanic,
        AcquireSleep, ReadDone, Modify, bwrite, Brelse, BrelseHash,
        BrelseClear, BrelseUnlock, Return, Goto, acquire, release, ClearUsed,
        bufs, links, locals, store
<1>1. UNCHANGED <<key, refcnt, next, prev, logged>>
  BY DEF IInv
<1>2. \A b \in Buf : Linked(b)' <=> Linked(b)
  BY DEF IInv, Linked, TypeOK, ClaimInv
<1>3. \A b \in Buf : Users(b)' = Users(b)
  BY DEF IInv, Users, Refs, TypeOK
<1>4. TypeOK'
  <2>1. \A k \in Blocks \cup {NoBlock} : hash_v(k) \in Buckets
    BY HashInBuckets, ConstantsAssumption DEF NoBlock
  <2>2. 0 \in Buckets /\ 0 \in 0..(NBUF + 1) /\ firstBuf \in 0..(NBUF + 1)
        /\ \A b \in Buf : b + 1 \in 0..(NBUF + 1)
    BY ConstantsAssumption DEF Buckets, firstBuf, Buf
  <2>3. at' \in [Procs -> 0..(NBUF + 1)] /\ hv' \in [Procs -> Buckets]
    BY <2>1, <2>2 DEF IInv, TypeOK, RefInv, Refs
  <2>5. data' \in [Buf -> Values] /\ disk' \in [Blocks -> Values]
    <3>1. pc[t] \in {"read", "hold"} => at[t] \in Buf /\ key[at[t]] \in Blocks
      BY DEF IInv, RefInv, LinkInv, Refs
    <3> QED BY <3>1 DEF IInv, TypeOK
  <2>4. used' \in [Buf -> BOOLEAN]
    BY DEF IInv, TypeOK
  <2>8. valid' \in [Buf -> BOOLEAN]
    BY DEF IInv, TypeOK
  <2>6. slock' \in [Buf -> Procs \cup {NoProc}]
        /\ lock' \in [Buckets -> Procs \cup {NoProc}]
    BY DEF IInv, TypeOK
  <2>7. pc' \in [Procs -> Refs \cup {"idle", "bget", "scan", "fill", "panic",
                                     "clear", "unlock"}]
        /\ want' \in [Procs -> Blocks \cup {NoBlock}]
    BY DEF IInv, TypeOK, Refs
  <2> QED BY <1>1, <2>3, <2>4, <2>5, <2>6, <2>7, <2>8 DEF IInv, TypeOK, Refs
<1>5. LockInv'
  BY ConstantsAssumption DEF IInv, TypeOK, LockInv, Crit
<1>6. HashInv'
  BY DEF IInv, TypeOK, HashInv, RefInv, Refs, hash_v
<1>7. ClaimInv'
  BY DEF IInv, TypeOK, ClaimInv
<1>8. RefInv'
  BY <1>2 DEF IInv, TypeOK, RefInv, Refs
<1>9. FreshInv'
  <2>1. ASSUME BgetMiss(t), NEW b \in Buf, Linked(b) PROVE key[b] # want[t]
    <3>1. hv[t] \in Buckets /\ hv[t] = hash_v(want[t])
      BY <2>1 DEF IInv, TypeOK, HashInv
    <3>2. ring(hv[t]) = Nodes(hv[t]) \ {head(hv[t])}
      BY <3>1, RingIsLinked DEF IInv, RingInv
    <3> QED BY <2>1, <3>1, <3>2, HeadFacts DEF Nodes
  <2> QED BY <1>2, <2>1 DEF IInv, TypeOK, FreshInv
<1>10. SleepLockOwned'
  <2>1. \A b \in Buf : ~Linked(b) => slock[b] = NoProc
    BY DEF IInv, TypeOK, SleepLockOwned, RefInv, Users
  <2>2. \A b \in Buf, u \in Procs :
          slock'[b] = u <=> u \in Users(b)' /\ pc'[u] \in {"read", "hold"}
    BY <1>3, ConstantsAssumption DEF IInv, TypeOK, SleepLockOwned, Users, Refs
  <2>3. \A b \in Buf : ~used'[b] => slock'[b] = NoProc
    BY <2>1, <1>2 DEF IInv, TypeOK, Linked, RefInv, Refs
  <2> QED BY <2>2, <2>3 DEF SleepLockOwned
<1>11. HoldInv' /\ PinInv'
  BY <1>2 DEF IInv, TypeOK, HoldInv, PinInv, RefInv, Refs
<1> QED BY <1>1, <1>2, <1>3, <1>4, <1>5, <1>6, <1>7, <1>8, <1>9, <1>10, <1>11,
           Frame DEF IInv

----------------------------------------------------------------------------
(* The steps that change a count, a key or a list                          *)

LEMMA BgetHitStep ==
  ASSUME IInv, NEW t \in Procs, NEW b \in Buf, BgetHit(t, b)
  PROVE  IInv'
<1> USE DEF BgetHit, Goto, AddRef, store, links
<1>1. Linked(b) /\ key[b] = want[t]
  BY RingIsLinked, HeadFacts DEF IInv, TypeOK, RingInv, Nodes
<1>2. \A c \in Buf : Linked(c)' <=> Linked(c)
  BY DEF IInv, Linked, TypeOK
<1>3. \A c \in Buf : Users(c)' = IF c = b THEN Users(c) \cup {t} ELSE Users(c)
  BY DEF IInv, Users, Refs, TypeOK
<1>4. t \notin Users(b)
  BY DEF Users, Refs
<1>5. TypeOK'
  BY ConstantsAssumption DEF IInv, TypeOK, Refs, Buf
<1>6. RefcntExact' /\ LinkInv'
  <2>1. Cardinality(Users(b)') = Cardinality(Users(b)) + 1
    BY <1>3, <1>4, UsersFinite, FS_AddElement
  <2>2. \A c \in Buf : Cardinality(Users(c)') =
          IF c = b THEN Cardinality(Users(c)) + 1 ELSE Cardinality(Users(c))
    BY <2>1, <1>3
  <2> QED BY <2>2, <1>2, UsersFinite DEF IInv, TypeOK, RefcntExact, LinkInv
<1>7. LockInv' /\ HashInv' /\ ClaimInv'
  BY DEF IInv, TypeOK, LockInv, HashInv, ClaimInv, Crit
<1>8. RefInv' /\ FreshInv' /\ OneBufPerBlock' /\ HoldInv' /\ PinInv'
  BY <1>1, <1>2 DEF IInv, TypeOK, RefInv, FreshInv, OneBufPerBlock, HoldInv,
                    PinInv, Refs
<1>9. SleepLockOwned'
  BY <1>3 DEF IInv, TypeOK, SleepLockOwned, Users
<1>10. RingInv'
  BY <1>2, RingFrame DEF IInv
<1> QED BY <1>5, <1>6, <1>7, <1>8, <1>9, <1>10 DEF IInv

LEMMA PinStep ==
  ASSUME IInv, NEW t \in Procs, bpin(t) \/ bunpin(t)
  PROVE  IInv'
<1> USE DEF bpin, bunpin, AddRef, store, links, locals
<1> DEFINE b == at[t]
<1>1. b \in Buf /\ Linked(b) /\ key[b] \in Blocks /\ valid[b] /\ t \in Users(b)
  BY DEF IInv, RefInv, LinkInv, HoldInv, Refs, Users
<1>2. \A c \in Buf : (Linked(c)' <=> Linked(c)) /\ Users(c)' = Users(c)
  BY DEF Linked, Users
<1>3. Cardinality(Users(b)) > 0
  BY <1>1, UsersFinite, FS_EmptySet, FS_CardinalityType
<1>4. \A c \in Buf \ {b} : Linked(c) => (key[c] \in logged' <=> key[c] \in logged)
  BY <1>1 DEF IInv, OneBufPerBlock
<1>5. RefcntExact' /\ LinkInv' /\ refcnt' \in [Buf -> Nat]
  BY <1>1, <1>2, <1>3, <1>4, UsersFinite
  DEF IInv, TypeOK, RefcntExact, LinkInv
<1>6. TypeOK'
  BY <1>1, <1>5 DEF IInv, TypeOK
<1>7. LockInv' /\ HashInv' /\ ClaimInv' /\ RefInv' /\ FreshInv'
      /\ OneBufPerBlock' /\ HoldInv' /\ PinInv' /\ SleepLockOwned'
  BY <1>1, <1>2 DEF IInv, LockInv, HashInv, ClaimInv, RefInv, FreshInv,
     OneBufPerBlock, HoldInv, PinInv, SleepLockOwned, hash_v
<1>8. RingInv'
  BY <1>2, RingFrame DEF IInv
<1> QED BY <1>5, <1>6, <1>7, <1>8 DEF IInv

LEMMA BrelseSharedStep ==
  ASSUME IInv, NEW t \in Procs, BrelseShared(t)
  PROVE  IInv'
<1> USE DEF BrelseShared, Return, Goto, LastRef, store, links
<1> DEFINE b == at[t]
<1>1. b \in Buf /\ Linked(b) /\ t \in Users(b)
  BY DEF IInv, RefInv, Refs, Users
<1>2. \A c \in Buf : Linked(c)' <=> Linked(c)
  BY DEF IInv, Linked, TypeOK, Buf
<1>3. \A c \in Buf : Users(c)' = IF c = b THEN Users(c) \ {t} ELSE Users(c)
  BY DEF IInv, Users, Refs, TypeOK, Buf
<1>4. Cardinality(Users(b) \ {t}) = Cardinality(Users(b)) - 1
  BY <1>1, UsersFinite, FS_RemoveElement
<1>5. refcnt[b] > 1
  BY <1>1 DEF IInv, TypeOK, LinkInv
<1>6. RefcntExact' /\ LinkInv' /\ refcnt' \in [Buf -> Nat]
  <2>1. \A c \in Buf : Cardinality(Users(c)') =
          IF c = b THEN Cardinality(Users(c)) - 1 ELSE Cardinality(Users(c))
    BY <1>3, <1>4
  <2> QED BY <2>1, <1>1, <1>2, <1>5, UsersFinite DEF IInv, TypeOK, RefcntExact, LinkInv
<1>7. TypeOK'
  BY <1>6, ConstantsAssumption DEF IInv, TypeOK, Refs, Buckets
<1>8. LockInv' /\ HashInv' /\ ClaimInv'
  BY DEF IInv, TypeOK, LockInv, HashInv, ClaimInv, Crit, Buf
<1>9. RefInv' /\ FreshInv' /\ OneBufPerBlock' /\ HoldInv' /\ PinInv'
  BY <1>1, <1>2 DEF IInv, TypeOK, RefInv, FreshInv, OneBufPerBlock, HoldInv,
                    PinInv, Refs
<1>10. SleepLockOwned'
  BY <1>1, <1>3 DEF IInv, TypeOK, SleepLockOwned, Users
<1>11. RingInv'
  BY <1>2, RingFrame DEF IInv
<1> QED BY <1>6, <1>7, <1>8, <1>9, <1>10, <1>11 DEF IInv

LEMMA BgetFillStep ==
  ASSUME IInv, NEW t \in Procs, BgetFill(t)
  PROVE  IInv'
<1> USE DEF BgetFill, Goto, release, Invalidate, store, links
<1> DEFINE b == at[t]
           v == hv[t]
<1>1. b \in Buf /\ v \in Buckets /\ want[t] \in Blocks /\ hash_v(want[t]) = v
  BY DEF IInv, TypeOK, ClaimInv, HashInv
<1>2. used[b] /\ ~Linked(b) /\ Users(b) = {}
  BY DEF IInv, ClaimInv, Linked, Users, RefInv
<1>3. \A c \in Buf : Linked(c)' <=> (Linked(c) \/ c = b)
  BY <1>1, <1>2 DEF IInv, TypeOK, Linked, ClaimInv
<1>4. \A c \in Buf : Users(c)' = IF c = b THEN {t} ELSE Users(c)
  BY <1>2 DEF IInv, Users, Refs, TypeOK
<1>5. \A c \in Buf : Linked(c) => c # b /\ key[c] # want[t] /\ key'[c] = key[c]
  BY <1>1, <1>2 DEF IInv, TypeOK, FreshInv
<1>6. key'[b] = want[t] /\ want[t] \notin logged
  BY <1>1, <1>5 DEF IInv, TypeOK, PinInv
<1>7. RefcntExact' /\ LinkInv'
  <2>1. \A c \in Buf : Cardinality(Users(c)') =
          IF c = b THEN 1 ELSE Cardinality(Users(c))
    BY <1>4, FS_Singleton
  <2> QED BY <2>1, <1>1, <1>3, <1>5, <1>6 DEF IInv, TypeOK, RefcntExact, LinkInv
<1>8. TypeOK'
  <2>1. head(v) \in Node
    BY <1>1, HeadFacts
  <2>2. next' \in [Node -> Node \cup {NULL}] /\ prev' \in [Node -> Node \cup {NULL}]
    BY <1>1, <2>1, HeadFacts DEF IInv, TypeOK, LinkFirst
  <2>3. key' \in [Buf -> Blocks \cup {NoBlock}] /\ valid' \in [Buf -> BOOLEAN]
        /\ refcnt' \in [Buf -> Nat]
    BY <1>1 DEF IInv, TypeOK
  <2>4. lock' \in [Buckets -> Procs \cup {NoProc}]
        /\ pc' \in [Procs -> Refs \cup {"idle", "bget", "scan", "fill", "panic",
                                     "clear", "unlock"}]
    BY DEF IInv, TypeOK, Refs
  <2> QED BY <2>2, <2>3, <2>4 DEF IInv, TypeOK, Refs
<1>9. LockInv' /\ HashInv' /\ ClaimInv'
  BY <1>1, ConstantsAssumption DEF IInv, TypeOK, LockInv, HashInv, ClaimInv, Crit, hash_v
<1>10. RefInv' /\ OneBufPerBlock' /\ HoldInv' /\ PinInv'
  BY <1>1, <1>2, <1>3, <1>5, <1>6
  DEF IInv, TypeOK, RefInv, OneBufPerBlock, HoldInv, PinInv, Refs
<1>11. FreshInv'
  <2>1. ASSUME NEW u \in Procs, pc'[u] \in {"scan", "fill"} PROVE want[u] # want[t]
    BY <1>1, <2>1 DEF IInv, TypeOK, LockInv, HashInv, Crit
  <2> QED BY <2>1, <1>3, <1>5, <1>6 DEF IInv, TypeOK, FreshInv
<1>12. SleepLockOwned'
  BY <1>1, <1>2, <1>4 DEF IInv, TypeOK, SleepLockOwned, Users
<1>13. RingInv'
  <2>1. \A w \in Buckets : Nodes(w)' = IF w = v THEN Nodes(w) \cup {b} ELSE Nodes(w)
    BY <1>1, <1>2, <1>3, <1>5, <1>6 DEF Nodes, hash_v, head
  <2>2. \A w \in Buckets : Nodes(w) \subseteq Node /\ b \notin Nodes(w)
                           /\ head(w) \in Nodes(w)
    BY <1>1, <1>2, HeadFacts DEF Nodes
  <2>3. \A w \in Buckets : IsRing(Nodes(w), head(w), next, prev)
    BY DEF IInv, RingInv
  <2>4. IsRing(Nodes(v) \cup {b}, head(v), next', prev')
    <3>1. next = [n \in Node |-> next[n]] /\ prev = [n \in Node |-> prev[n]]
          /\ b \in Node \ Nodes(v)
      BY <1>1, <2>2, HeadFacts DEF IInv, TypeOK
    <3> QED BY <1>1, <2>2, <2>3, <3>1, RingInsert DEF LinkFirst
  <2>5. ASSUME NEW w \in Buckets, w # v
        PROVE  IsRing(Nodes(w), head(w), next', prev')
    <3>1. Nodes(w) \cap Nodes(v) = {}
      BY <1>1, <2>5, HeadFacts DEF Nodes
    <3>2. next[head(v)] \in Nodes(v)
      BY <1>1, <2>2, <2>3 DEF IsRing
    <3>3. \A n \in Nodes(w) : next'[n] = next[n] /\ prev'[n] = prev[n]
      BY <1>1, <2>2, <3>1, <3>2 DEF IInv, TypeOK, LinkFirst
    <3> QED BY <2>3, <3>3, RingFrameOn
  <2> QED BY <2>1, <2>4, <2>5 DEF RingInv, head
<1> QED BY <1>7, <1>8, <1>9, <1>10, <1>11, <1>12, <1>13 DEF IInv

LEMMA BrelseLastStep ==
  ASSUME IInv, NEW t \in Procs, BrelseLast(t)
  PROVE  IInv'
<1> USE DEF BrelseLast, Goto, acquire, LastRef, store, links
<1> DEFINE b == at[t]
           v == hv[t]
<1>1. b \in Buf /\ Linked(b) /\ t \in Users(b)
  BY DEF IInv, RefInv, Refs, Users
<1>2. v \in Buckets /\ key[b] = want[t] /\ hash_v(key[b]) = v
  BY DEF IInv, TypeOK, RefInv, HashInv, Refs
<1>3. Users(b) = {t} /\ key[b] \notin logged
  <2>1. Cardinality(Users(b) \ {t}) = Cardinality(Users(b)) - 1
    BY <1>1, UsersFinite, FS_RemoveElement
  <2>2. Cardinality(Users(b) \ {t}) \in Nat /\ IsFiniteSet(Users(b) \ {t})
    BY UsersFinite, FS_RemoveElement, FS_CardinalityType
  <2>3. Cardinality(Users(b) \ {t}) = 0 /\ key[b] \notin logged
    BY <1>1, <2>1, <2>2, UsersFinite DEF IInv, RefcntExact
  <2>4. Users(b) \ {t} = {}
    BY <2>2, <2>3, FS_EmptySet
  <2> QED BY <1>1, <2>3, <2>4
<1>4. \A c \in Buf : Linked(c)' <=> (Linked(c) /\ c # b)
  BY <1>1 DEF IInv, TypeOK, Linked
<1>5. \A c \in Buf : Users(c)' = IF c = b THEN {} ELSE Users(c)
  BY <1>3 DEF IInv, Users, Refs, TypeOK
<1>6. RefcntExact' /\ LinkInv' /\ refcnt' \in [Buf -> Nat]
  <2>1. \A c \in Buf : Cardinality(Users(c)') =
          IF c = b THEN 0 ELSE Cardinality(Users(c))
    BY <1>5, FS_EmptySet
  <2> QED BY <2>1, <1>1, <1>4 DEF IInv, TypeOK, RefcntExact, LinkInv
<1>7. Nodes(v) \subseteq Node /\ b \in Nodes(v) /\ b # head(v)
      /\ IsRing(Nodes(v), head(v), next, prev)
  BY <1>1, <1>2, HeadFacts DEF Nodes, IInv, RingInv
<1>8. prev[b] \in Nodes(v) /\ next[b] \in Nodes(v)
  BY <1>7 DEF IsRing
<1>9. TypeOK'
  <2>1. next' \in [Node -> Node \cup {NULL}] /\ prev' \in [Node -> Node \cup {NULL}]
    BY <1>7, <1>8 DEF IInv, TypeOK
  <2>2. lock' \in [Buckets -> Procs \cup {NoProc}]
        /\ pc' \in [Procs -> Refs \cup {"idle", "bget", "scan", "fill", "panic",
                                     "clear", "unlock"}]
    BY DEF IInv, TypeOK, Refs
  <2> QED BY <1>6, <2>1, <2>2 DEF IInv, TypeOK, Refs
<1>10. LockInv' /\ HashInv' /\ ClaimInv'
  BY <1>1, <1>2, ConstantsAssumption
  DEF IInv, TypeOK, LockInv, HashInv, ClaimInv, Crit, hash_v, Linked
<1>11. RefInv' /\ FreshInv' /\ OneBufPerBlock' /\ HoldInv' /\ PinInv'
  BY <1>1, <1>3, <1>4
  DEF IInv, TypeOK, RefInv, FreshInv, OneBufPerBlock, HoldInv, PinInv, Refs, Users
<1>12. SleepLockOwned'
  BY <1>1, <1>3, <1>5 DEF IInv, TypeOK, SleepLockOwned, Users
<1>13. RingInv'
  <2>1. \A w \in Buckets : Nodes(w)' = IF w = v THEN Nodes(w) \ {b} ELSE Nodes(w)
    BY <1>1, <1>2, <1>4, HeadFacts DEF Nodes, hash_v, head
  <2>2. IsRing(Nodes(v) \ {b}, head(v), next', prev')
    <3>1. next = [n \in Node |-> next[n]] /\ prev = [n \in Node |-> prev[n]]
      BY DEF IInv, TypeOK
    <3>2. IsRing(Nodes(v) \ {b}, head(v), [next EXCEPT ![prev[b]] = next[b]],
                 [prev EXCEPT ![next[b]] = prev[b]])
      BY <1>7, <3>1, RingRemove
    <3> QED BY <3>2
  <2>3. ASSUME NEW w \in Buckets, w # v
        PROVE  IsRing(Nodes(w), head(w), next', prev')
    <3>1. Nodes(w) \cap Nodes(v) = {} /\ Nodes(w) \subseteq Node
      BY <1>2, <2>3, HeadFacts DEF Nodes
    <3>2. \A n \in Nodes(w) : next'[n] = next[n] /\ prev'[n] = prev[n]
      BY <1>7, <1>8, <3>1 DEF IInv, TypeOK
    <3>3. IsRing(Nodes(w), head(w), next, prev)
      BY DEF IInv, RingInv
    <3> HIDE DEF BrelseLast
    <3> QED BY <3>2, <3>3, RingFrameOn
  <2> QED BY <2>1, <2>2, <2>3 DEF RingInv, head
<1> QED BY <1>6, <1>9, <1>10, <1>11, <1>12, <1>13 DEF IInv

----------------------------------------------------------------------------
(* The theorems                                                            *)

LEMMA InitIInv == Init => IInv
<1> SUFFICES ASSUME Init PROVE IInv
  OBVIOUS
<1> USE DEF Init, binit
<1>1. TypeOK
  <2>1. NoBlock \in Blocks \cup {NoBlock} /\ 0 \in Nat /\ 0 \in 0..(NBUF + 1)
        /\ 0 \in Buckets
    BY ConstantsAssumption DEF Buckets
  <2>2. data \in [Buf -> Values]
    BY ConstantsAssumption
  <2> QED BY <2>1, <2>2, HeadFacts DEF TypeOK, Refs, NULL
<1>2. \A b \in Buf : ~Linked(b) /\ Users(b) = {} /\ Cardinality(Users(b)) = 0
  BY FS_EmptySet DEF Linked, Users, Refs
<1>3. LockInv /\ HashInv /\ ClaimInv /\ RefInv /\ LinkInv /\ FreshInv
      /\ OneBufPerBlock /\ HoldInv /\ PinInv
  BY <1>2, ConstantsAssumption
  DEF LockInv, HashInv, ClaimInv, RefInv, LinkInv, FreshInv, OneBufPerBlock,
      HoldInv, PinInv, Crit, Refs
<1>4. RefcntExact /\ SleepLockOwned
  BY <1>2, ConstantsAssumption DEF RefcntExact, SleepLockOwned
<1>5. RingInv
  <2> SUFFICES ASSUME NEW v \in Buckets
               PROVE  IsRing(Nodes(v), head(v), next, prev)
    BY DEF RingInv
  <2>1. Nodes(v) = {head(v)} /\ next[head(v)] = head(v) /\ prev[head(v)] = head(v)
    BY <1>2, HeadFacts DEF Nodes
  <2> QED BY <2>1 DEF IsRing
<1> QED BY <1>1, <1>3, <1>4, <1>5 DEF IInv

LEMMA StepIInv == IInv /\ [Next]_vars => IInv'
<1> SUFFICES ASSUME IInv, [Next]_vars PROVE IInv'
  OBVIOUS
<1>1. CASE UNCHANGED vars
  <2>1. (\A b \in Buf : Linked(b)' <=> Linked(b)) /\ \A b \in Buf : Users(b)' = Users(b)
    BY <1>1 DEF vars, Linked, Users
  <2>2. OneBufPerBlock' /\ RefcntExact' /\ LinkInv' /\ RingInv'
    BY <1>1, <2>1, Frame DEF vars
  <2>3. TypeOK' /\ LockInv' /\ HashInv' /\ ClaimInv' /\ RefInv' /\ FreshInv'
        /\ SleepLockOwned' /\ HoldInv' /\ PinInv'
    BY <1>1, <2>1 DEF vars, IInv, TypeOK, LockInv, HashInv, ClaimInv, RefInv,
                      FreshInv, SleepLockOwned, HoldInv, PinInv, hash_v
  <2> QED BY <2>2, <2>3 DEF IInv
<1>2. ASSUME NEW t \in Procs, NEW b \in Buf, BgetHit(t, b) PROVE IInv'
  BY <1>2, BgetHitStep
<1>3. ASSUME NEW t \in Procs, Quiet(t) PROVE IInv'
  BY <1>3, QuietStep
<1>4. ASSUME NEW t \in Procs, bpin(t) \/ bunpin(t) PROVE IInv'
  BY <1>4, PinStep
<1>5. ASSUME NEW t \in Procs, BgetFill(t) PROVE IInv'
  BY <1>5, BgetFillStep
<1>6. ASSUME NEW t \in Procs, BrelseShared(t) PROVE IInv'
  BY <1>6, BrelseSharedStep
<1>7. ASSUME NEW t \in Procs, BrelseLast(t) PROVE IInv'
  BY <1>7, BrelseLastStep
<1> QED BY <1>1, <1>2, <1>3, <1>4, <1>5, <1>6, <1>7 DEF Next, Quiet

LEMMA Inductive == Spec => []IInv
  BY InitIInv, StepIInv, PTL DEF Spec

\* Every variable keeps its type: bget and brelse never dereference a pointer
\* that is not a node of a list, and no count falls below zero.
THEOREM TypeCorrect == Spec => []TypeOK
<1>1. IInv => TypeOK
  BY DEF IInv
<1> QED BY <1>1, Inductive, PTL

\* The lists that bget walks and brelse cuts are whole and hold exactly the
\* buffers in use for their bucket.
THEOREM ListsCorrect == Spec => []RingsOK
<1>1. IInv => RingsOK
  <2> SUFFICES ASSUME IInv, NEW v \in Buckets
               PROVE  /\ ring(v) = {b \in Buf : Linked(b) /\ hash_v(key[b]) = v}
                      /\ \A n \in ring(v) \cup {head(v)} :
                            next[prev[n]] = n /\ prev[next[n]] = n
    BY DEF RingsOK
  <2>1. IsRing(Nodes(v), head(v), next, prev)
    BY DEF IInv, RingInv
  <2>2. ring(v) = Nodes(v) \ {head(v)}
    BY <2>1, RingIsLinked
  <2>3. ring(v) = {b \in Buf : Linked(b) /\ hash_v(key[b]) = v}
    BY <2>2, HeadFacts DEF Nodes
  <2>4. ring(v) \cup {head(v)} = Nodes(v)
    BY <2>3 DEF Nodes
  <2> QED BY <2>1, <2>3, <2>4 DEF IsRing
<1> QED BY <1>1, Inductive, PTL

\* bget never caches a block in two buffers.
THEOREM NoDuplicates == Spec => []OneBufPerBlock
<1>1. IInv => OneBufPerBlock
  BY DEF IInv
<1> QED BY <1>1, Inductive, PTL

\* refcnt counts the calls between bget and brelse, and the log's pin.
THEOREM CountsExact == Spec => []RefcntExact
<1>1. IInv => RefcntExact
  BY DEF IInv
<1> QED BY <1>1, Inductive, PTL

\* No buffer is recycled between bget's count and the end of brelse.
THEOREM ReferencesHold == Spec => []ReferenceStable
<1>1. IInv => ReferenceStable
  BY DEF IInv, RefInv, ReferenceStable
<1> QED BY <1>1, Inductive, PTL

\* The holdingsleep tests of bwrite and brelse never fail.
THEOREM SleepLocksOwned == Spec => []SleepLockOwned
<1>1. IInv => SleepLockOwned
  BY DEF IInv
<1> QED BY <1>1, Inductive, PTL

\* Every buffer in use is in use for somebody.
THEOREM BuffersNotLost == Spec => []NoLeak
<1>1. IInv => NoLeak
  <2> SUFFICES ASSUME IInv PROVE NoLeak
    OBVIOUS
  <2>1. ASSUME NEW b \in Buf, used[b], Linked(b), key[b] \notin logged
        PROVE  \E t \in Procs : at[t] = b /\ pc[t] # "scan"
    <3>1. Cardinality(Users(b)) > 0
      BY <2>1, UsersFinite DEF IInv, LinkInv, RefcntExact
    <3>2. Users(b) # {}
      BY <3>1, FS_EmptySet
    <3> QED BY <3>2 DEF Users, Refs
  <2>2. ASSUME NEW b \in Buf, used[b], ~Linked(b)
        PROVE  \E t \in Procs : at[t] = b /\ pc[t] # "scan"
    BY <2>2 DEF Linked
  <2> QED BY <2>1, <2>2 DEF NoLeak, IInv, PinInv
<1> QED BY <1>1, Inductive, PTL

----------------------------------------------------------------------------
(* The buffers suffice                                                     *)

\* The buffers in use from i on, and the calls that look for one from i on.
Occupied(i) == {b \in Buf : b >= i /\ used[b]}
Scanning(i) == {t \in Procs : pc[t] = "scan" /\ at[t] >= i}

\* The scan starts at the first buffer, and does not fail.
ScanInv == \A t \in Procs : pc[t] # "panic" /\ (pc[t] = "scan" => at[t] >= 1)

\* From every place on there is a free buffer for each call that is looking for
\* one there: a call goes on only past a buffer that is in use.
CapacityInv == /\ \A i \in 1..(NBUF + 1) :
                    Cardinality(Occupied(i)) + Cardinality(Scanning(i)) <= NBUF + 1 - i
               /\ ScanInv

LEMMA CountsFinite ==
  /\ \A i : /\ IsFiniteSet(Occupied(i)) /\ Cardinality(Occupied(i)) \in Nat
            /\ IsFiniteSet(Scanning(i)) /\ Cardinality(Scanning(i)) \in Nat
  /\ IsFiniteSet(Procs) /\ Cardinality(Procs) \in Nat
<1>1. IsFiniteSet(Buf)
  BY ConstantsAssumption, FS_Interval DEF Buf
<1>2. \A i : Occupied(i) \in SUBSET Buf /\ Scanning(i) \in SUBSET Procs
  BY DEF Occupied, Scanning
<1>3. \A i : IsFiniteSet(Occupied(i)) /\ IsFiniteSet(Scanning(i))
  BY <1>1, <1>2, ConstantsAssumption, FS_Subset
<1> QED BY <1>3, ConstantsAssumption, FS_CardinalityType

\* A buffer is in use for a call that neither scans nor is about to, or for the
\* log: with t about to scan there are at most that many.
LEMMA OccupiedBound ==
  ASSUME IInv, NEW t \in Procs, pc[t] = "bget", ~Overload
  PROVE  Cardinality(Occupied(1)) + Cardinality(Scanning(1) \cup {t}) <= NBUF
<1> DEFINE S == Scanning(1) \cup {t}
           P == {u \in Procs : pc[u] # "idle"}
           U == {u \in P \ S : at[u] \in Buf}
           A == {at[u] : u \in U}
           B == {b \in Buf : Linked(b) /\ key[b] \in logged}
<1>1. S \subseteq P /\ U \subseteq P \ S /\ IsFiniteSet(P \ S) /\ IsFiniteSet(P)
      /\ Cardinality(P \ S) = Cardinality(P) - Cardinality(S)
  <2>1. S \subseteq P /\ P \cap S = S /\ P \subseteq Procs /\ U \subseteq P \ S
    BY DEF Scanning
  <2> HIDE DEF S, P, U
  <2>2. IsFiniteSet(P)
    BY <2>1, CountsFinite, FS_Subset
  <2>3. IsFiniteSet(P \ S) /\ Cardinality(P \ S) = Cardinality(P) - Cardinality(P \cap S)
    BY <2>2, FS_Difference
  <2> QED BY <2>1, <2>2, <2>3
<1>2. IsFiniteSet(A) /\ Cardinality(A) <= Cardinality(P \ S)
  <2>1. IsFiniteSet(U) /\ Cardinality(U) <= Cardinality(P \ S)
    BY <1>1, FS_Subset
  <2>2. [u \in U |-> at[u]] \in Surjection(U, A)
    BY DEF Surjection
  <2>3. IsFiniteSet(A) /\ Cardinality(A) <= Cardinality(U)
    BY <2>1, <2>2, FS_Surjection
  <2>4. Cardinality(A) \in Nat /\ Cardinality(U) \in Nat /\ Cardinality(P \ S) \in Nat
    BY <1>1, <2>1, <2>3, FS_CardinalityType
  <2> HIDE DEF S, U, A, P
  <2> QED BY <2>1, <2>3, <2>4
<1>3. IsFiniteSet(B) /\ Cardinality(B) <= Cardinality(logged) /\ Cardinality(logged) \in Nat
  <2>1. IsFiniteSet(logged)
    BY ConstantsAssumption, FS_Subset DEF IInv, TypeOK
  <2>2. [b \in B |-> key[b]] \in Injection(B, logged)
    BY DEF IInv, OneBufPerBlock, Injection, IsInjective
  <2> HIDE DEF B
  <2> QED BY <2>1, <2>2, FS_Injection, FS_CardinalityType
<1>4. Occupied(1) \subseteq A \cup B
  <2> SUFFICES ASSUME NEW b \in Occupied(1), b \notin B PROVE b \in A
    OBVIOUS
  <2>1. b \in Buf /\ used[b]
    BY DEF Occupied
  <2>2. PICK u \in Procs : at[u] = b /\ pc[u] \in Refs \cup {"fill", "clear"}
    <3>1. CASE Linked(b)
      <4>1. Cardinality(Users(b)) > 0
        BY <2>1, <3>1, UsersFinite DEF IInv, LinkInv, RefcntExact
      <4>2. Users(b) # {}
        BY <4>1, FS_EmptySet
      <4> QED BY <4>2 DEF Users
    <3>2. CASE ~Linked(b)
      BY <2>1, <3>2 DEF Linked
    <3> QED BY <3>1, <3>2
  <2>3. u \in U
    BY <2>1, <2>2 DEF Scanning, Refs
  <2> QED BY <2>2, <2>3
<1> HIDE DEF S, A, B, P
<1>5. Cardinality(Occupied(1)) <= Cardinality(A) + Cardinality(B)
  <2>1. /\ IsFiniteSet(A \cup B)
        /\ Cardinality(A \cup B) = Cardinality(A) + Cardinality(B) - Cardinality(A \cap B)
    BY <1>2, <1>3, FS_Union
  <2>2. Cardinality(Occupied(1)) <= Cardinality(A \cup B)
    BY <1>4, <2>1, FS_Subset
  <2>3. Cardinality(A \cap B) \in Nat /\ Cardinality(A) \in Nat /\ Cardinality(B) \in Nat
    BY <1>2, <1>3, FS_Intersection, FS_CardinalityType
  <2> QED BY <2>1, <2>2, <2>3, CountsFinite
<1>6. /\ Cardinality(A) \in Nat /\ Cardinality(B) \in Nat /\ Cardinality(S) \in Nat
      /\ Cardinality(Occupied(1)) \in Nat
      /\ Cardinality(P) \in Nat
  BY <1>1, <1>2, <1>3, CountsFinite, FS_CardinalityType, FS_Subset
<1>7. Cardinality(P) + Cardinality(logged) <= NBUF
  BY <1>3, <1>6, ConstantsAssumption DEF P, Overload, Load
<1>8. Cardinality(Occupied(1)) + Cardinality(S) <= NBUF
  BY <1>1, <1>2, <1>3, <1>5, <1>6, <1>7, CountsFinite, ConstantsAssumption
<1> QED BY <1>8 DEF S

\* Steps by which the calls before bget's claim and after brelse's clear stay as
\* they are, and no buffer is claimed.
LEMMA CapacityFrame ==
  ASSUME CapacityInv, ScanInv',
         \A i : Occupied(i)' \subseteq Occupied(i) /\ Scanning(i)' \subseteq Scanning(i)
  PROVE  CapacityInv'
<1> SUFFICES ASSUME NEW i \in 1..(NBUF + 1)
             PROVE  Cardinality(Occupied(i)') + Cardinality(Scanning(i)') <= NBUF + 1 - i
  BY DEF CapacityInv
<1>1. /\ IsFiniteSet(Occupied(i)') /\ Cardinality(Occupied(i)') <= Cardinality(Occupied(i))
      /\ IsFiniteSet(Scanning(i)') /\ Cardinality(Scanning(i)') <= Cardinality(Scanning(i))
  BY CountsFinite, FS_Subset
<1>2. Cardinality(Occupied(i)') \in Nat /\ Cardinality(Scanning(i)') \in Nat
  BY <1>1, FS_CardinalityType
<1> QED BY <1>1, <1>2, CountsFinite, ConstantsAssumption DEF CapacityInv

LEMMA SkipCapacity ==
  ASSUME IInv, CapacityInv, NEW t \in Procs, BgetSkip(t)
  PROVE  CapacityInv'
<1>1. PICK j \in Buf : j = at[t] /\ used[j]
  BY DEF BgetSkip
<1> USE DEF BgetSkip, bufs, links, store, IInv, TypeOK
<1>2. j \in Buf /\ j \in Nat /\ used[j] /\ j + 1 \in 1..(NBUF + 1)
  BY <1>1, ConstantsAssumption DEF Buf
<1>3. \A i : Occupied(i)' = Occupied(i)
  BY DEF Occupied
<1>4. \A i \in 1..(NBUF + 1) : i # j + 1 => Scanning(i)' = Scanning(i)
  BY <1>2, <1>1 DEF Scanning
<1>5. Scanning(j + 1)' \subseteq Scanning(j)
  BY <1>2, <1>1 DEF Scanning
<1>6. Cardinality(Scanning(j + 1)') <= Cardinality(Scanning(j))
      /\ Cardinality(Scanning(j + 1)') \in Nat
  BY <1>5, CountsFinite, FS_Subset, FS_CardinalityType
<1>7. Cardinality(Occupied(j)) = Cardinality(Occupied(j + 1)) + 1
  <2>1. Occupied(j) = Occupied(j + 1) \cup {j} /\ j \notin Occupied(j + 1)
    BY <1>2 DEF Occupied, Buf
  <2> QED BY <2>1, CountsFinite, FS_AddElement
<1>8. Cardinality(Occupied(j + 1)) + Cardinality(Scanning(j + 1)') <= NBUF + 1 - (j + 1)
  <2>1. Cardinality(Occupied(j)) + Cardinality(Scanning(j)) <= NBUF + 1 - j
    BY <1>2, ConstantsAssumption DEF CapacityInv, Buf
  <2> QED BY <2>1, <1>2, <1>6, <1>7, CountsFinite, ConstantsAssumption
<1>9. ScanInv'
  BY DEF CapacityInv, ScanInv
<1>10. \A i \in 1..(NBUF + 1) :
        Cardinality(Occupied(i)') + Cardinality(Scanning(i)') <= NBUF + 1 - i
  <2> TAKE i \in 1..(NBUF + 1)
  <2>1. CASE i = j + 1
    BY <1>3, <1>8, <2>1 DEF Occupied, Scanning
  <2>2. CASE i # j + 1
    BY <1>3, <1>4, <2>2 DEF CapacityInv
  <2> QED BY <2>1, <2>2
<1> QED BY <1>9, <1>10 DEF CapacityInv

LEMMA TakeCapacity ==
  ASSUME IInv, CapacityInv, NEW t \in Procs, BgetTake(t)
  PROVE  CapacityInv'
<1>1. PICK j \in Buf : j = at[t] /\ ~used[j]
  BY DEF BgetTake
<1> USE DEF BgetTake, Goto, links, store, IInv, TypeOK
<1>2. j \in Buf /\ j \in Nat /\ ~used[j]
  BY <1>1 DEF Buf
<1>3. ScanInv'
  BY DEF CapacityInv, ScanInv
<1> SUFFICES ASSUME NEW i \in 1..(NBUF + 1)
             PROVE  Cardinality(Occupied(i)') + Cardinality(Scanning(i)') <= NBUF + 1 - i
  BY <1>3 DEF CapacityInv
<1>4. Cardinality(Occupied(i)) + Cardinality(Scanning(i)) <= NBUF + 1 - i
  BY DEF CapacityInv
<1>5. CASE i > j
  <2>1. Occupied(i)' = Occupied(i)
    BY <1>1, <1>2, <1>5 DEF Occupied
  <2>2. Scanning(i)' = Scanning(i)
    BY <1>1, <1>2, <1>5 DEF Scanning
  <2> QED BY <1>4, <2>1, <2>2
<1>6. CASE i <= j
  <2>1. Occupied(i)' = Occupied(i) \cup {j} /\ j \notin Occupied(i)
    BY <1>1, <1>2, <1>6 DEF Occupied
  <2>2. Scanning(i)' = Scanning(i) \ {t} /\ t \in Scanning(i)
    BY <1>1, <1>2, <1>6 DEF Scanning
  <2>3. Cardinality(Occupied(i)') = Cardinality(Occupied(i)) + 1
    BY <2>1, CountsFinite, FS_AddElement
  <2>4. Cardinality(Scanning(i)') = Cardinality(Scanning(i)) - 1
    BY <2>2, CountsFinite, FS_RemoveElement
  <2> QED BY <1>4, <2>3, <2>4, CountsFinite, ConstantsAssumption
<1> QED BY <1>2, <1>5, <1>6

LEMMA MissCapacity ==
  ASSUME IInv, CapacityInv, NEW t \in Procs, BgetMiss(t), ~Overload
  PROVE  CapacityInv'
<1> USE DEF BgetMiss, Goto, firstBuf, bufs, links, store, IInv, TypeOK
<1>1. ScanInv'
  BY DEF CapacityInv, ScanInv
<1>2. \A i : Occupied(i)' = Occupied(i)
  BY DEF Occupied
<1>3. Scanning(1)' = Scanning(1) \cup {t}
  BY DEF Scanning
<1>4. \A i \in 1..(NBUF + 1) : i # 1 => Scanning(i)' = Scanning(i)
  BY DEF Scanning
<1>5. Cardinality(Occupied(1)) + Cardinality(Scanning(1) \cup {t}) <= NBUF
  BY OccupiedBound
<1>6. \A i \in 1..(NBUF + 1) :
        Cardinality(Occupied(i)') + Cardinality(Scanning(i)') <= NBUF + 1 - i
  <2> TAKE i \in 1..(NBUF + 1)
  <2>1. CASE i = 1
    <3>1. Scanning(i)' = Scanning(1) \cup {t} /\ Occupied(i)' = Occupied(1)
      BY <1>2, <1>3, <2>1 DEF Scanning
    <3>2. NBUF + 1 - i = NBUF
      BY <2>1, ConstantsAssumption
    <3> QED BY <1>5, <3>1, <3>2
  <2>2. CASE i # 1
    BY <1>2, <1>4, <2>2 DEF CapacityInv
  <2> QED BY <2>1, <2>2
<1> QED BY <1>1, <1>6 DEF CapacityInv

\* At the end of the array there is no call that scans.
LEMMA NobodyAtEnd ==
  ASSUME IInv, CapacityInv, NEW t \in Procs
  PROVE  ~BgetPanic(t)
<1> SUFFICES ASSUME BgetPanic(t) PROVE FALSE
  OBVIOUS
<1>1. t \in Scanning(NBUF + 1)
  BY ConstantsAssumption DEF BgetPanic, Scanning, IInv, TypeOK, CapacityInv, ScanInv, Buf
<1>2. Cardinality(Scanning(NBUF + 1)) # 0
  BY <1>1, CountsFinite, FS_EmptySet
<1> QED BY <1>2, CountsFinite, ConstantsAssumption DEF CapacityInv

LEMMA CapacityStep ==
  ASSUME IInv, CapacityInv, [Next]_vars, ~Overload
  PROVE  CapacityInv'
<1>1. ASSUME NEW t \in Procs, bpin(t) \/ bunpin(t) PROVE CapacityInv'
  <2>1. /\ \A i : Occupied(i)' \subseteq Occupied(i) /\ Scanning(i)' \subseteq Scanning(i)
        /\ ScanInv'
    BY <1>1 DEF bpin, bunpin, locals, Occupied, Scanning, CapacityInv, ScanInv
  <2> QED BY <2>1, CapacityFrame
<1>2. ASSUME NEW t \in Procs, \/ \E k \in Blocks : Bread(t, k)
                              \/ \E b \in Buf : BgetHit(t, b)
                              \/ BgetFill(t) \/ AcquireSleep(t) \/ ReadDone(t)
                              \/ \E x \in Values : Modify(t, x)
                              \/ bwrite(t) \/ Brelse(t) \/ BrelseHash(t) \/ BrelseShared(t)
                              \/ BrelseLast(t) \/ BrelseClear(t) \/ BrelseUnlock(t)
      PROVE  CapacityInv'
  <2> USE <1>2 DEF Bread, BgetHit, BgetFill, AcquireSleep, ReadDone, Modify, bwrite, Brelse,
          BrelseHash, BrelseShared, BrelseLast, BrelseClear, BrelseUnlock, Return, ClearUsed,
          Goto, bufs, locals, store, IInv, TypeOK
  <2>1. \A i : Occupied(i)' \subseteq Occupied(i)
    BY DEF Occupied
  <2>2. \A i : Scanning(i)' \subseteq Scanning(i)
    BY DEF Scanning
  <2>3. ScanInv'
    BY DEF CapacityInv, ScanInv
  <2> QED BY <2>1, <2>2, <2>3, CapacityFrame
<1>3. CASE UNCHANGED vars
  BY <1>3, CapacityFrame DEF vars, Occupied, Scanning, CapacityInv, ScanInv
<1> QED BY <1>1, <1>2, <1>3, SkipCapacity, TakeCapacity, MissCapacity, NobodyAtEnd DEF Next

LEMMA InitCapacity ==
  ASSUME Init
  PROVE  CapacityInv
<1>1. \A i : Occupied(i) = {} /\ Scanning(i) = {}
  BY DEF Init, binit, Occupied, Scanning
<1>2. Cardinality({}) = 0 /\ ScanInv
  BY FS_EmptySet DEF Init, ScanInv
<1>3. ASSUME NEW i \in 1..(NBUF + 1)
      PROVE  Cardinality(Occupied(i)) + Cardinality(Scanning(i)) <= NBUF + 1 - i
  <2>1. Cardinality(Occupied(i)) = 0 /\ Cardinality(Scanning(i)) = 0
    BY <1>1, <1>2
  <2> QED BY <2>1, ConstantsAssumption
<1> QED BY <1>2, <1>3 DEF CapacityInv

\* bget does not panic unless at some time there are more uses under way and
\* pinned blocks than buffers: it is not the fault of the scan, which sees each
\* buffer at another time.
THEOREM BuffersSuffice == Spec => PanicOnlyFull
<1>1. Init => CapacityInv
  BY InitCapacity
<1>2. IInv /\ CapacityInv /\ ~Overload /\ [Next]_vars => CapacityInv'
  BY CapacityStep
<1>3. CapacityInv => NoPanic
  BY DEF CapacityInv, ScanInv, NoPanic
<1> QED BY <1>1, <1>2, <1>3, Inductive, PTL DEF Spec, PanicOnlyFull

----------------------------------------------------------------------------
(* The cache implements BlockStore                                         *)

\* What is in the cache and not held for a caller is on the disk, or pinned.
CleanInv ==
  /\ \A b \in Buf :
       Linked(b) /\ valid[b] /\ key[b] \notin logged /\ disk[key[b]] # data[b]
         => \E t \in Procs : at[t] = b /\ pc[t] = "hold"
  /\ \A t \in Procs : pc[t] = "read" => ~valid[at[t]]

\* A block is in at most one buffer, so the choice in Content is the only one.
ContentExact ==
  /\ Content = [k \in Blocks |-> Content[k]]
  /\ \A k \in Blocks : /\ \A b \in Buf : Cached(k, b) => Content[k] = data[b]
                       /\ (\A b \in Buf : ~Cached(k, b)) => Content[k] = disk[k]

LEMMA OneContent == OneBufPerBlock => ContentExact
<1> SUFFICES ASSUME OneBufPerBlock, NEW k \in Blocks
             PROVE  /\ \A b \in Buf : Cached(k, b) => Content[k] = data[b]
                    /\ (\A b \in Buf : ~Cached(k, b)) => Content[k] = disk[k]
  BY DEF Content, ContentExact
<1>1. \A a, b \in Buf : Cached(k, a) /\ Cached(k, b) => a = b
  BY DEF Cached, OneBufPerBlock
<1> QED BY <1>1 DEF Content

LEMMA OneContentNext == OneBufPerBlock' => ContentExact'
  BY OneContent, PTL

\* The content of the blocks stays if what is cached, and where, does.
LEMMA ContentFrame ==
  ASSUME IInv, IInv', UNCHANGED <<data, disk>>,
         \A k \in Blocks, b \in Buf : Cached(k, b)' <=> Cached(k, b)
  PROVE  Content' = Content
<1>1. ContentExact /\ ContentExact'
  BY OneContent, OneContentNext DEF IInv
<1>2. \A k \in Blocks : Content'[k] = Content[k]
  BY <1>1 DEF ContentExact
<1> QED BY <1>1, <1>2 DEF ContentExact

\* Two calls do not use the same block.
LEMMA UserFacts ==
  ASSUME IInv, NEW t \in Procs, pc[t] \in {"read", "hold"}
  PROVE  /\ at[t] \in Buf /\ Linked(at[t]) /\ key[at[t]] = want[t] /\ want[t] \in Blocks
         /\ slock[at[t]] = t
         /\ \A u \in Procs : pc[u] \in {"read", "hold"} => u = t \/ (at[u] # at[t] /\ want[u] # want[t])
<1>1. \A u \in Procs : pc[u] \in {"read", "hold"} =>
        /\ at[u] \in Buf /\ Linked(at[u]) /\ key[at[u]] = want[u] /\ want[u] \in Blocks
        /\ slock[at[u]] = u
  BY DEF IInv, RefInv, LinkInv, SleepLockOwned, Users, Refs
<1> QED BY <1>1 DEF IInv, OneBufPerBlock

\* The steps that change neither the lists nor what is cached in them.
LEMMA LinkedFrame ==
  ASSUME IInv, NEW t \in Procs,
         Quiet(t) \/ (\E b \in Buf : BgetHit(t, b)) \/ bpin(t) \/ bunpin(t) \/ BrelseShared(t)
  PROVE  key' = key /\ \A b \in Buf : Linked(b)' <=> Linked(b)
<1> USE DEF Quiet, Bread, BgetMiss, BgetSkip, BgetTake, BgetPanic,
        AcquireSleep, ReadDone, Modify, bwrite, Brelse, BrelseHash,
        BrelseClear, BrelseUnlock, BgetHit, bpin, bunpin, BrelseShared, Return, Goto, ClearUsed,
        bufs, links, locals, store
<1>1. key' = key
  OBVIOUS
<1> QED BY <1>1 DEF IInv, Linked, TypeOK, ClaimInv, RefInv, Refs

LEMMA AcquireRefines ==
  ASSUME IInv, IInv', CleanInv, NEW t \in Procs,
         (AcquireSleep(t) /\ valid[at[t]]) \/ ReadDone(t)
  PROVE  Store!Acquire(t, want[t])
<1>1. PICK b \in Buf, k \in Blocks : b = at[t] /\ k = want[t] /\ key[b] = k /\ Linked(b)
  BY DEF IInv, RefInv, LinkInv, Refs, AcquireSleep, ReadDone
<1>2. /\ pc' = [pc EXCEPT ![t] = "hold"] /\ pc[t] # "hold"
      /\ UNCHANGED <<want, at, disk>>
      /\ data'[b] = IF valid[b] THEN data[b] ELSE disk[k]
      /\ \A c \in Buf : c # b => data'[c] = data[c] /\ valid'[c] = valid[c]
      /\ valid'[b] /\ data' \in [Buf -> Values]
  BY <1>1 DEF AcquireSleep, ReadDone, Goto, store, CleanInv, IInv, TypeOK
<1>3. \A c \in Buf : (Linked(c)' <=> Linked(c)) /\ key' = key
  BY LinkedFrame DEF Quiet
<1>4. \A u \in Procs : pc[u] = "hold" => u # t /\ at[u] \in Buf /\ at[u] # b /\ want[u] # k
  <2>1. slock[b] \in {NoProc, t}
    BY <1>1, UserFacts DEF AcquireSleep, ReadDone
  <2> QED BY <1>1, <1>2, <2>1, UserFacts, ConstantsAssumption DEF IInv, OneBufPerBlock
<1>5. ContentExact /\ ContentExact'
  BY OneContent, OneContentNext DEF IInv
<1>6. Content[k] = data'[b]
  BY <1>1, <1>2, <1>5 DEF ContentExact, Cached, IInv, OneBufPerBlock
<1>7. Content' = Content
  <2>1. Content'[k] = Content[k]
    BY <1>1, <1>2, <1>3, <1>5, <1>6 DEF ContentExact, Cached
  <2>2. ASSUME NEW l \in Blocks, l # k PROVE Content'[l] = Content[l]
    <3>1. \A c \in Buf : Cached(l, c)' <=> Cached(l, c)
      BY <1>1, <1>2, <1>3, <2>2 DEF Cached
    <3>2. \A c \in Buf : Cached(l, c) => c # b
      BY <1>1, <2>2 DEF Cached
    <3> QED BY <1>2, <1>5, <3>1, <3>2 DEF ContentExact
  <2> QED BY <1>5, <2>1, <2>2 DEF ContentExact
<1>8. \A s \in Sessions : s[1] # t /\ s[2] # want[t]
  BY <1>1, <1>4 DEF Sessions
<1>9. Sessions' = Sessions \cup {<<t, want[t], Content[want[t]]>>}
  <2> DEFINE H == {u \in Procs : pc[u] = "hold"}
  <2>1. {u \in Procs : pc'[u] = "hold"} = H \cup {t}
    BY <1>2 DEF IInv, TypeOK
  <2>2. \A u \in H : data'[at[u]] = data[at[u]]
    BY <1>2, <1>4
  <2>3. Sessions' = {<<u, want[u], data'[at[u]]>> : u \in H \cup {t}}
    BY <1>2, <2>1 DEF Sessions
  <2> QED BY <1>1, <1>6, <2>2, <2>3 DEF Sessions
<1> QED BY <1>7, <1>8, <1>9 DEF Store!Acquire

LEMMA ModifyRefines ==
  ASSUME IInv, IInv', NEW t \in Procs, NEW x \in Values, Modify(t, x)
  PROVE  Store!Modify(<<t, want[t], data[at[t]]>>, x)
<1>1. PICK b \in Buf, k \in Blocks : b = at[t] /\ k = want[t] /\ Cached(k, b)
  BY UserFacts DEF Modify, Cached, IInv, HoldInv
<1>2. /\ pc[t] = "hold" /\ data' = [data EXCEPT ![b] = x]
      /\ UNCHANGED <<key, valid, want, at, pc, disk>>
  BY <1>1 DEF Modify, locals, store
<1>3. \A c \in Buf, l \in Blocks : Cached(l, c)' <=> Cached(l, c)
  BY <1>2, LinkedFrame DEF Cached, Quiet
<1>4. \A u \in Procs : pc[u] = "hold" => at[u] \in Buf /\ (u = t \/ at[u] # b)
  BY <1>1, <1>2, UserFacts
<1>5. ContentExact /\ ContentExact'
  BY OneContent, OneContentNext DEF IInv
<1>6. Content' = [Content EXCEPT ![k] = x]
  <2>1. Content'[k] = x
    BY <1>1, <1>2, <1>3, <1>5 DEF ContentExact, IInv, TypeOK
  <2>2. ASSUME NEW l \in Blocks, l # k PROVE Content'[l] = Content[l]
    <3>1. \A c \in Buf : Cached(l, c) => c # b
      BY <1>1, <2>2 DEF Cached
    <3>2. disk' = disk /\ \A c \in Buf : c # b => data'[c] = data[c]
      BY <1>2 DEF IInv, TypeOK
    <3> QED BY <1>3, <1>5, <3>1, <3>2 DEF ContentExact
  <2> QED BY <1>5, <2>1, <2>2 DEF ContentExact
<1>7. <<t, want[t], data[at[t]]>> \in Sessions
  BY <1>2 DEF Sessions
<1>8. Sessions' = (Sessions \ {<<t, want[t], data[at[t]]>>}) \cup {<<t, want[t], x>>}
  <2> DEFINE H == {u \in Procs : pc[u] = "hold"} \ {t}
  <2>1. {u \in Procs : pc[u] = "hold"} = H \cup {t}
    BY <1>2
  <2>2. \A u \in H : data'[at[u]] = data[at[u]]
    BY <1>2, <1>4 DEF IInv, TypeOK
  <2>3. data'[at[t]] = x
    BY <1>1, <1>2 DEF IInv, TypeOK
  <2>4. Sessions' = {<<u, want[u], data'[at[u]]>> : u \in H \cup {t}}
    BY <1>2, <2>1 DEF Sessions
  <2>5. Sessions = {<<u, want[u], data[at[u]]>> : u \in H \cup {t}}
    BY <2>1 DEF Sessions
  <2> QED BY <2>2, <2>3, <2>4, <2>5
<1> QED BY <1>1, <1>6, <1>7, <1>8 DEF Store!Modify

LEMMA ReleaseRefines ==
  ASSUME IInv, IInv', NEW t \in Procs, Brelse(t)
  PROVE  Store!Release(<<t, want[t], data[at[t]]>>)
<1>1. /\ pc[t] = "hold" /\ pc' = [pc EXCEPT ![t] = "hash"]
      /\ UNCHANGED <<key, valid, data, want, at, disk>>
  BY DEF Brelse, Goto, store
<1>2. Content' = Content
  BY <1>1, LinkedFrame, ContentFrame DEF Cached, Quiet
<1>3. <<t, want[t], data[at[t]]>> \in Sessions
  BY <1>1 DEF Sessions
<1>4. Sessions' = Sessions \ {<<t, want[t], data[at[t]]>>}
  BY <1>1 DEF Sessions, IInv, TypeOK
<1> QED BY <1>2, <1>3, <1>4 DEF Store!Release

\* The other steps are not seen by the callers.  No use begins or ends ...
Hidden(t) == \/ \E k \in Blocks : Bread(t, k)
             \/ \E b \in Buf : BgetHit(t, b)
             \/ BgetMiss(t) \/ BgetSkip(t) \/ BgetTake(t) \/ BgetPanic(t) \/ BgetFill(t)
             \/ (AcquireSleep(t) /\ ~valid[at[t]])
             \/ bwrite(t) \/ bpin(t) \/ bunpin(t)
             \/ BrelseHash(t) \/ BrelseShared(t) \/ BrelseLast(t) \/ BrelseClear(t)
             \/ BrelseUnlock(t)

LEMMA HiddenSessions ==
  ASSUME IInv, NEW t \in Procs, Hidden(t)
  PROVE  Sessions' = Sessions
<1> USE DEF Hidden, Bread, BgetHit, BgetMiss, BgetSkip, BgetTake, BgetPanic, BgetFill,
        AcquireSleep, bwrite, bpin, bunpin, BrelseHash, BrelseShared, BrelseLast, BrelseClear,
        BrelseUnlock, Return, Goto, bufs, links, locals, store
<1>1. data' = data
  OBVIOUS
<1>2. \A u \in Procs : pc'[u] = "hold" <=> pc[u] = "hold"
  BY DEF IInv, TypeOK
<1>3. \A u \in Procs : pc[u] = "hold" => want'[u] = want[u] /\ at'[u] = at[u]
  BY DEF IInv, TypeOK
<1> QED BY <1>1, <1>2, <1>3 DEF Sessions

\* ... and no content changes: what the disk is given, and what leaves the
\* cache, is what the buffer holds.
LEMMA HiddenContent ==
  ASSUME IInv, IInv', CleanInv, NEW t \in Procs, Hidden(t)
  PROVE  Content' = Content
<1>1. ContentExact /\ ContentExact'
  BY OneContent, OneContentNext DEF IInv
<1>2. CASE bwrite(t)
  <2>1. PICK b \in Buf, k \in Blocks : b = at[t] /\ k = key[b] /\ Cached(k, b)
    BY <1>2, UserFacts DEF bwrite, Cached, IInv, HoldInv
  <2>2. \A c \in Buf, l \in Blocks : Cached(l, c)' <=> Cached(l, c)
    BY <1>2, LinkedFrame DEF Cached, Quiet, bwrite, bufs
  <2>3. data' = data /\ \A l \in Blocks : l # k => disk'[l] = disk[l]
    BY <1>2, <2>1 DEF bwrite, bufs, IInv, TypeOK
  <2>4. \A l \in Blocks : Content'[l] = Content[l]
    BY <1>1, <2>1, <2>2, <2>3 DEF ContentExact
  <2> QED BY <1>1, <2>4 DEF ContentExact
<1>3. CASE BgetFill(t)
  <2>1. PICK b \in Buf : b = at[t] /\ ~Linked(b)
    BY <1>3 DEF BgetFill, IInv, ClaimInv, Linked
  <2>2. \A c \in Buf : c # b => (Linked(c)' <=> Linked(c))
    BY <1>3, <2>1 DEF BgetFill, Goto, Linked, IInv, TypeOK
  <2>3. \A c \in Buf, l \in Blocks : Cached(l, c)' <=> Cached(l, c)
    BY <1>3, <2>1, <2>2 DEF BgetFill, Invalidate, Cached, IInv, TypeOK
  <2> QED BY <1>3, <2>3, ContentFrame DEF BgetFill, store
<1>4. CASE BrelseLast(t)
  <2>1. PICK b \in Buf, k \in Blocks : b = at[t] /\ k = key[b] /\ Linked(b)
    BY <1>4 DEF BrelseLast, IInv, RefInv, LinkInv, Refs
  <2>2. /\ pc[t] = "brelse" /\ pc' = [pc EXCEPT ![t] = "clear"] /\ refcnt[b] = 1
        /\ UNCHANGED <<used, key, valid, data, at, disk>>
    BY <1>4, <2>1 DEF BrelseLast, LastRef, Goto, store
  <2>3. Users(b) = {t} /\ k \notin logged
    <3>1. t \in Users(b) /\ Cardinality(Users(b)) \in Nat /\ IsFiniteSet(Users(b))
      BY <2>1, <2>2, UsersFinite DEF Users, Refs
    <3>2. Cardinality(Users(b)) # 0
      BY <3>1, FS_EmptySet
    <3>3. Cardinality(Users(b)) = 1 /\ k \notin logged
      BY <2>1, <2>2, <3>1, <3>2 DEF IInv, RefcntExact
    <3> QED BY <3>1, <3>3, FS_Singleton
  <2>4. valid[b] => disk[k] = data[b]
    BY <2>1, <2>2, <2>3 DEF CleanInv, Users, Refs
  <2>5. ~Linked(b)' /\ \A c \in Buf : c # b => (Linked(c)' <=> Linked(c))
    BY <2>1, <2>2 DEF Linked, IInv, TypeOK
  <2>6. \A l \in Blocks : Content'[l] = Content[l]
    <3> TAKE l \in Blocks
    <3>1. \A c \in Buf : Cached(l, c)' <=> Cached(l, c) /\ c # b
      BY <2>2, <2>5 DEF Cached
    <3>2. CASE Cached(l, b)
      <4>1. l = k /\ \A c \in Buf : ~Cached(l, c)'
        BY <2>1, <3>1, <3>2 DEF Cached, IInv, OneBufPerBlock
      <4> QED BY <1>1, <2>1, <2>2, <2>4, <3>2, <4>1 DEF ContentExact, Cached
    <3>3. CASE ~Cached(l, b)
      BY <1>1, <2>2, <3>1, <3>3 DEF ContentExact
    <3> QED BY <3>2, <3>3
  <2> QED BY <1>1, <2>6 DEF ContentExact
<1>5. ASSUME Hidden(t), ~bwrite(t), ~BgetFill(t), ~BrelseLast(t) PROVE Content' = Content
  <2>1. key' = key /\ \A b \in Buf : Linked(b)' <=> Linked(b)
    BY <1>5, LinkedFrame DEF Hidden, Quiet
  <2>2. UNCHANGED <<data, disk, valid>>
    BY <1>5 DEF Hidden, Bread, BgetHit, BgetMiss, BgetSkip, BgetTake, BgetPanic, AcquireSleep,
       bpin, bunpin, BrelseHash, BrelseShared, BrelseClear, BrelseUnlock, bufs, store
  <2> QED BY <2>1, <2>2, ContentFrame DEF Cached
<1> QED BY <1>2, <1>3, <1>4, <1>5

LEMMA CleanStep ==
  ASSUME IInv, IInv', CleanInv, [Next]_vars
  PROVE  CleanInv'
<1>1. CASE UNCHANGED vars
  BY <1>1 DEF vars, CleanInv, Linked
<1>2. \A t \in Procs : pc[t] \in {"read", "hold"} =>
        at[t] \in Buf /\ Linked(at[t]) /\ key[at[t]] \in Blocks
  BY UserFacts
<1>3. \A t, u \in Procs : pc[t] \in {"read", "hold"} /\ pc[u] \in {"read", "hold"} /\ t # u =>
        at[t] # at[u]
  BY UserFacts
<1>4. ASSUME NEW t \in Procs, Hidden(t), ~bwrite(t), ~BgetFill(t) PROVE CleanInv'
  <2>1. \A b \in Buf : Linked(b)' => Linked(b)
    <3>1. CASE BrelseLast(t)
      BY <3>1 DEF BrelseLast, Goto, Linked, IInv, TypeOK
    <3>2. CASE ~BrelseLast(t)
      BY <1>4, <3>2, LinkedFrame DEF Hidden, Quiet
    <3> QED BY <3>1, <3>2
  <2> USE <1>4 DEF Hidden, Bread, BgetHit, BgetMiss, BgetSkip, BgetTake, BgetPanic, AcquireSleep,
          bpin, bunpin, BrelseHash, BrelseShared, BrelseLast, BrelseClear, BrelseUnlock, Return,
          Goto, bufs, links, locals, store
  <2>2. /\ UNCHANGED <<data, disk, valid, key>>
        /\ \A u \in Procs : pc'[u] = "hold" <=> pc[u] = "hold"
        /\ \A u \in Procs : pc[u] = "hold" => at'[u] = at[u]
    BY DEF IInv, TypeOK
  <2>3. \A u \in Procs : pc'[u] = "read" => ~valid'[at'[u]]
    BY <2>2 DEF IInv, TypeOK, CleanInv
  <2>4. ASSUME NEW b \in Buf, Linked(b), key[b] \notin logged', key[b] \in logged
        PROVE  disk[key[b]] = data[b]
    BY <1>2, <2>4 DEF IInv, OneBufPerBlock
  <2> QED BY <2>1, <2>2, <2>3, <2>4 DEF CleanInv
<1>5. ASSUME NEW t \in Procs, BgetFill(t) PROVE CleanInv'
  <2>1. PICK b \in Buf : b = at[t] /\ ~Linked(b) /\ pc[t] = "fill"
    BY <1>5 DEF BgetFill, IInv, ClaimInv, Linked
  <2>2. /\ \A c \in Buf : c # b => key'[c] = key[c] /\ valid'[c] = valid[c]
        /\ ~valid'[b] /\ UNCHANGED <<at, data, disk, logged>>
        /\ pc' = [pc EXCEPT ![t] = "acquiresleep"]
    BY <1>5, <2>1 DEF BgetFill, Invalidate, Goto, store, IInv, TypeOK
  <2>3. \A c \in Buf : c # b => (Linked(c)' <=> Linked(c))
    BY <1>5, <2>1 DEF BgetFill, Goto, Linked, IInv, TypeOK
  <2> QED BY <1>2, <2>1, <2>2, <2>3 DEF CleanInv, IInv, TypeOK
<1>6. ASSUME NEW t \in Procs, bwrite(t) \/ ReadDone(t) \/ \E x \in Values : Modify(t, x)
      PROVE  CleanInv'
  <2>1. PICK b \in Buf : b = at[t] /\ pc[t] \in {"read", "hold"} /\ Linked(b) /\ key[b] \in Blocks
    BY <1>2, <1>6 DEF bwrite, ReadDone, Modify
  <2>2. \A c \in Buf : key' = key /\ (Linked(c)' <=> Linked(c))
    BY <1>6, LinkedFrame DEF Quiet
  <2>3. /\ pc' = [pc EXCEPT ![t] = "hold"] /\ UNCHANGED <<at, logged>>
        /\ \A c \in Buf : c # b => valid'[c] = valid[c] /\ data'[c] = data[c]
        /\ \A k \in Blocks : k # key[b] => disk'[k] = disk[k]
    BY <1>6, <2>1 DEF bwrite, ReadDone, Modify, Goto, bufs, locals, store, IInv, TypeOK
  <2>4. \A c \in Buf : Linked(c) /\ c # b => key[c] # key[b] /\ key[c] \in Blocks
    BY <2>1 DEF IInv, OneBufPerBlock, LinkInv
  <2>5. \A u \in Procs : pc'[u] = "read" => ~valid'[at'[u]]
    BY <1>2, <1>3, <2>1, <2>3 DEF CleanInv, IInv, TypeOK
  <2>6. at'[t] = b /\ pc'[t] = "hold" /\ \A u \in Procs : pc[u] = "hold" => pc'[u] = "hold"
    BY <2>1, <2>3 DEF IInv, TypeOK
  <2> QED BY <2>2, <2>3, <2>4, <2>5, <2>6 DEF CleanInv
<1>7. ASSUME NEW t \in Procs, Brelse(t) \/ (AcquireSleep(t) /\ valid[at[t]]) PROVE CleanInv'
  <2>1. \A b \in Buf : key' = key /\ (Linked(b)' <=> Linked(b))
    BY <1>7, LinkedFrame DEF Quiet
  <2>2. UNCHANGED <<valid, data, disk, logged, at>>
    BY <1>7 DEF Brelse, AcquireSleep, store
  <2>3. \A u \in Procs : pc'[u] = "read" => pc[u] = "read"
    BY <1>7 DEF Brelse, AcquireSleep, Goto, IInv, TypeOK
  <2>4. \A u \in Procs : pc[u] = "hold" =>
          pc'[u] = "hold" \/ key[at[u]] \in logged \/ disk[key[at[u]]] = data[at[u]]
    BY <1>7 DEF Brelse, AcquireSleep, Goto, Settled, IInv, TypeOK
  <2> QED BY <2>1, <2>2, <2>3, <2>4 DEF CleanInv
<1> QED BY <1>1, <1>4, <1>5, <1>6, <1>7 DEF Next, Hidden

LEMMA RefinesStep ==
  ASSUME IInv, IInv', CleanInv, [Next]_vars
  PROVE  [Store!Next]_(Store!vars)
<1>1. CASE UNCHANGED vars
  <2>1. \A k \in Blocks, b \in Buf : Cached(k, b)' <=> Cached(k, b)
    BY <1>1 DEF vars, Cached, Linked
  <2>2. Content' = Content /\ Sessions' = Sessions
    BY <1>1, <2>1, ContentFrame DEF vars, Sessions
  <2> QED BY <2>2 DEF Store!vars
<1>2. ASSUME NEW t \in Procs, Hidden(t) PROVE UNCHANGED Store!vars
  BY <1>2, HiddenContent, HiddenSessions DEF Store!vars
<1>3. ASSUME NEW t \in Procs, (AcquireSleep(t) /\ valid[at[t]]) \/ ReadDone(t) PROVE Store!Next
  <2>1. want[t] \in Blocks
    BY <1>3 DEF AcquireSleep, ReadDone, IInv, HashInv
  <2> QED BY <1>3, <2>1, AcquireRefines DEF Store!Next
<1>4. ASSUME NEW t \in Procs, NEW x \in Values, Modify(t, x) PROVE Store!Next
  <2>1. Store!Modify(<<t, want[t], data[at[t]]>>, x)
    BY <1>4, ModifyRefines
  <2>2. <<t, want[t], data[at[t]]>> \in Sessions
    BY <2>1 DEF Store!Modify
  <2> QED BY <2>1, <2>2 DEF Store!Next
<1>5. ASSUME NEW t \in Procs, Brelse(t) PROVE Store!Next
  <2>1. Store!Release(<<t, want[t], data[at[t]]>>)
    BY <1>5, ReleaseRefines
  <2>2. <<t, want[t], data[at[t]]>> \in Sessions
    BY <2>1 DEF Store!Release
  <2> QED BY <2>1, <2>2 DEF Store!Next
<1> QED BY <1>1, <1>2, <1>3, <1>4, <1>5 DEF Next, Hidden

LEMMA RefinesInit == ASSUME Init PROVE CleanInv /\ Store!Init
<1>1. \A b \in Buf : ~Linked(b)
  BY DEF Init, binit, Linked
<1>2. CleanInv
  BY <1>1 DEF Init, CleanInv
<1>3. Content = disk
  BY <1>1 DEF Content, Cached, Init
<1>4. Sessions = {}
  BY DEF Init, Sessions
<1> QED BY <1>2, <1>3, <1>4 DEF Init, Store!Init

\* Whatever buffers its blocks move through, the cache is a block store with
\* exclusive use of a block: each step of bread, brelse and the others is a step
\* of BlockStore or is hidden from the callers.
THEOREM CacheRefines == Spec => ImplementsBlockStore
<1>1. Init => CleanInv /\ Store!Init
  BY RefinesInit
<1>2. IInv /\ IInv' /\ CleanInv /\ [Next]_vars => CleanInv'
  BY CleanStep
<1>3. IInv /\ IInv' /\ CleanInv /\ [Next]_vars => [Store!Next]_(Store!vars)
  BY RefinesStep
<1> QED BY <1>1, <1>2, <1>3, Inductive, PTL DEF Spec, ImplementsBlockStore, Store!Spec
=============================================================================
