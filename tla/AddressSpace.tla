---------------------------- MODULE AddressSpace ----------------------------
(***************************************************************************)
(* User memory in Lab3: the three-level page tables of vm.c, exec of       *)
(* exec.c, and allocproc, freeproc, proc_pagetable, growproc, fork, exit   *)
(* and wait of proc.c, as far as they allocate, map, unmap and free pages. *)
(*                                                                         *)
(* Processes run concurrently and share only the free pages, of which      *)
(* kalloc may find none at any time.  A step is the code around one call   *)
(* of kalloc, or a stretch that only calls kfree.  Pages are counted, not  *)
(* numbered: a page lost, or freed twice, breaks the count (PagesCounted). *)
(***************************************************************************)
EXTENDS Integers, Sequences, FiniteSets

CONSTANTS NPROC,     \* slots of the process table
          NFRAMES,   \* pages that kalloc hands out
          PGSIZE,    \* bytes of a page
          FAN,       \* entries of a page-table page, 512 in the code
          UINT64,    \* the values of an address, 2^64 in the code
          Pids,      \* process ids
          Programs,  \* executables: sequences of segments
          GrowNs,    \* arguments of growproc
          CopyVas    \* virtual pages that system calls copy data to

Slot       == 1..NPROC
NULL       == 0
initproc   == 1
TRAMPOLINE == FAN * FAN * FAN - 1
TRAPFRAME  == TRAMPOLINE - 1
USYSCALL   == TRAPFRAME - 1
Va         == 0..TRAMPOLINE      \* virtual pages

\* A segment that passes the tests of exec.
Segment == {s \in [vaddr : Nat, memsz : Nat, filesz : Nat, perm : SUBSET {"W", "X"}] :
              s.filesz <= s.memsz /\ s.vaddr % PGSIZE = 0}

\* There are fewer pages of memory than virtual pages below USYSCALL, and enough
\* for the first process; an int is small beside an address.
ASSUME SpaceAssumption ==
  /\ NPROC \in Nat \ {0} /\ PGSIZE \in Nat \ {0} /\ FAN \in Nat /\ FAN >= 3
  /\ NFRAMES \in 8..USYSCALL
  /\ UINT64 \in Nat \ {0} /\ \A n \in GrowNs : n \in Int /\ (TRAMPOLINE + 1) * PGSIZE + n < UINT64
  /\ Pids # {} /\ 0 \notin Pids /\ CopyVas \subseteq Va /\ Programs \subseteq Seq(Segment)

VARIABLES free,      \* the number of free pages
          space,     \* the page tables: of process p, and New(p) that exec builds
          panic,
          proc,      \* struct proc; upid is what the usyscall page has for a pid
          th         \* locals of the kernel threads

vars == <<free, space, panic, proc, th>>
memory == <<free, space, panic>>

\* A free slot, and a thread that is in no system call.
NoProc == [state |-> "UNUSED", pid |-> 0, parent |-> NULL, sz |-> 0,
           trapframe |-> FALSE, usyscall |-> FALSE, upid |-> 0]
Idle   == [pc |-> "user", np |-> NULL, pt |-> NULL, va |-> 0, sz |-> 0, newsz |-> 0,
           mem |-> 0, img |-> <<>>, ret |-> "none"]

----------------------------------------------------------------------------
(* Page tables.  A table is the set of its table pages, each named by the  *)
(* indices that lead to it, and the entries of its lowest level.           *)

Pte(x, q, f) == [page |-> x, of |-> q, flags |-> f]
NoPte   == Pte("none", NULL, {})                 \* an entry without PTE_V
NoTable == [tabs |-> {}, leaf |-> [v \in Va |-> NoPte]]
Root    == [tabs |-> {<<>>}, leaf |-> [v \in Va |-> NoPte]]
New(p)  == NPROC + p
Table   == 1..(2 * NPROC)

\* PGROUNDUP(n) / PGSIZE.  Mutant: rounded down.
pagesDown(n) == n \div PGSIZE
pages(n)     == (n + PGSIZE - 1) \div PGSIZE

PX(level, v) == (v \div (IF level = 2 THEN FAN * FAN ELSE FAN)) % FAN

\* The table pages on the way to v, those that are missing, and the next one
\* that walk has to allocate.
Path(v)       == {<<PX(2, v)>>, <<PX(2, v), PX(1, v)>>}
Missing(t, v) == Path(v) \ space[t].tabs
NextTab(t, v) == CHOOSE x \in Missing(t, v) : \A y \in Missing(t, v) : Len(x) <= Len(y)

Mapped(t)      == {v \in Va : space[t].leaf[v] # NoPte}
User(t)        == {v \in Va : space[t].leaf[v].page = "user"}
walkaddr(t, v) == "U" \in space[t].leaf[v].flags         \* is the page the user's?

\* walk with alloc, on one missing table page.
WalkAlloc(t, v) ==
  /\ Missing(t, v) # {} /\ free > 0
  /\ space' = [space EXCEPT ![t].tabs = @ \cup {NextTab(t, v)}]
  /\ free' = free - 1
  /\ UNCHANGED panic
WalkFails(t, v) == Missing(t, v) # {} /\ free = 0

\* mappages of one page, once walk has returned its entry.
mappages(t, v, e) ==
  /\ Missing(t, v) = {}
  /\ space' = [space EXCEPT ![t].leaf[v] = e]
  /\ panic' = (v \in Mapped(t))                           \* "mappages: remap"
  /\ UNCHANGED free

\* uvmunmap of the virtual pages S with do_free, and n pages freed besides.
uvmunmap(t, S, n) ==
  /\ space' = [space EXCEPT ![t].leaf = [v \in Va |-> IF v \in S THEN NoPte ELSE @[v]]]
  /\ free' = free + Cardinality(S) + n
  /\ panic' = ~(S \subseteq Mapped(t))                    \* "uvmunmap: not mapped"

\* The table pages that freewalk frees.
freewalk(t) == Cardinality(space[t].tabs)

\* The pages M are unmapped and not freed, then uvmfree frees the k user pages
\* and the table; n pages are freed besides.
uvmfree(t, M, k, n) ==
  /\ free' = free + freewalk(t) + k + n
  /\ panic' = (Mapped(t) # M \cup 0..(k - 1))             \* or "freewalk: leaf"
Without(t) == [space EXCEPT ![t] = NoTable]

\* What proc_freepagetable unmaps.  Mutant: without the page of this lab.
MapsBefore == {TRAMPOLINE, TRAPFRAME}
Maps       == {USYSCALL, TRAMPOLINE, TRAPFRAME}

----------------------------------------------------------------------------
At(p, l)   == proc[p].state = "LIVE" /\ th[p].pc = l
Goto(p, l) == th' = [th EXCEPT ![p].pc = l]
Return(p)  == th' = [th EXCEPT ![p] = Idle]

\* The thread allocates a page as mem, or goes on at l.
Take(p, ok, l) ==
  \/ free > 0 /\ free' = free - 1 /\ th' = [th EXCEPT ![p].mem = 1, ![p].pc = ok]
  \/ free = 0 /\ Goto(p, l) /\ UNCHANGED free

\* The three mappings of proc_pagetable for process q.
MapOf(q, v) == CASE v = TRAMPOLINE -> Pte("trampoline", NULL, {"R", "X"})
                 [] v = TRAPFRAME  -> Pte("trapframe", q, {"R", "W"})
                 [] v = USYSCALL   -> Pte("usyscall", q, {"R", "U"})

\* The table of the first process, with one page of memory.
uvmfirst ==
  [tabs |-> {<<>>} \cup Path(0) \cup Path(USYSCALL),
   leaf |-> [v \in Va |-> IF v = 0 THEN Pte("user", NULL, {"R", "W", "X", "U"})
                          ELSE IF v \in Maps THEN MapOf(initproc, v) ELSE NoPte]]

userinit ==
  LET x == CHOOSE x \in Pids : TRUE IN
  /\ space = [t \in Table |-> IF t = initproc THEN uvmfirst ELSE NoTable]
  /\ free = NFRAMES - Cardinality(uvmfirst.tabs) - 3
  /\ proc = [[p \in Slot |-> NoProc] EXCEPT ![initproc] =
               [state |-> "LIVE", pid |-> x, parent |-> NULL, sz |-> PGSIZE,
                trapframe |-> TRUE, usyscall |-> TRUE, upid |-> x]]

Init == userinit /\ th = [p \in Slot |-> Idle] /\ panic = FALSE

----------------------------------------------------------------------------
(* allocproc and proc_pagetable                                            *)

Unused == {q \in Slot : proc[q].state = "UNUSED"}

\* fork calls allocproc, which claims the first unused slot.
fork(p) ==
  LET q == CHOOSE q \in Unused : \A r \in Unused : q <= r IN
  /\ At(p, "user") /\ Unused # {}
  /\ \E x \in Pids \ {proc[r].pid : r \in Slot} :
       proc' = [proc EXCEPT ![q].state = "USED", ![q].pid = x]
  /\ th' = [th EXCEPT ![p].np = q, ![p].pc = "trapframe"]
  /\ UNCHANGED memory

AllocTrapframe(p) ==
  /\ At(p, "trapframe")
  /\ \/ /\ free > 0 /\ free' = free - 1
        /\ proc' = [proc EXCEPT ![th[p].np].trapframe = TRUE]
        /\ Goto(p, "usyscall")
     \/ free = 0 /\ Goto(p, "freeproc") /\ UNCHANGED <<free, proc>>
  /\ UNCHANGED <<space, panic>>

\* What p->usyscall->pid is set to.  Mutant: it is left as it is.
OldUpid(q) == proc[q].upid
NewUpid(q) == proc[q].pid

AllocUsyscall(p) ==
  LET q == th[p].np IN
  /\ At(p, "usyscall")
  /\ \/ /\ free > 0 /\ free' = free - 1
        /\ proc' = [proc EXCEPT ![q].usyscall = TRUE, ![q].upid = NewUpid(q)]
        /\ Goto(p, "create")
     \/ free = 0 /\ Goto(p, "freeproc") /\ UNCHANGED <<free, proc>>
  /\ UNCHANGED <<space, panic>>

\* A page table is built for the child, or for the caller of exec.
Forking(p) == th[p].np # NULL
For(p)     == IF Forking(p) THEN th[p].np ELSE p
Target(p)  == IF Forking(p) THEN th[p].np ELSE New(p)
Failed(p)  == IF Forking(p) THEN "freeproc" ELSE "bad"

uvmcreate(p) ==
  /\ At(p, "create")
  /\ \/ /\ free > 0 /\ free' = free - 1
        /\ space' = [space EXCEPT ![Target(p)] = Root]
        /\ th' = [th EXCEPT ![p].pt = Target(p), ![p].va = TRAMPOLINE, ![p].pc = "maps"]
     \/ free = 0 /\ Goto(p, Failed(p)) /\ UNCHANGED <<free, space>>
  /\ UNCHANGED <<panic, proc>>

MapWalk(p) ==
  /\ At(p, "maps") /\ WalkAlloc(th[p].pt, th[p].va)
  /\ UNCHANGED <<proc, th>>

\* From the trampoline down to the usyscall page.
MapSet(p) ==
  LET v == th[p].va IN
  /\ At(p, "maps") /\ mappages(th[p].pt, v, MapOf(For(p), v))
  /\ th' = IF v # USYSCALL
           THEN [th EXCEPT ![p].va = v - 1]
           ELSE [th EXCEPT ![p].va = 0, ![p].pc = IF Forking(p) THEN "copy" ELSE "load"]
  /\ UNCHANGED proc

\* What proc_pagetable unmaps when the mapping of v fails.
Undo(v) == CASE v = TRAMPOLINE -> {}
             [] v = TRAPFRAME  -> {TRAMPOLINE}
             [] v = USYSCALL   -> {USYSCALL}

MapFail(p) ==
  LET t == th[p].pt IN
  /\ At(p, "maps") /\ WalkFails(t, th[p].va)
  /\ uvmfree(t, Undo(th[p].va), 0, 0) /\ space' = Without(t)
  /\ th' = [th EXCEPT ![p].pt = NULL, ![p].va = 0, ![p].pc = Failed(p)]
  /\ UNCHANGED proc

----------------------------------------------------------------------------
(* fork                                                                    *)

\* kfree(mem) after a failed mapping.  Mutant: forgotten.
KeepMem(p) == 0
FreeMem(p) == th[p].mem

\* The loop of uvmcopy takes a page for the copy of page va ...
CopyTake(p) ==
  /\ At(p, "copy") /\ th[p].va * PGSIZE < proc[p].sz
  /\ panic' = (th[p].va \notin Mapped(p))                 \* "uvmcopy: page not present"
  /\ Take(p, "copymap", "copyfail")
  /\ UNCHANGED <<space, proc>>

CopyWalk(p) ==
  /\ At(p, "copymap") /\ WalkAlloc(th[p].pt, th[p].va)
  /\ UNCHANGED <<proc, th>>

\* The flags of the copy.  Mutant: the page is the user's, the guard page too.
OpenFlags(p) == space[p].leaf[th[p].va].flags \cup {"U"}
CopyFlags(p) == space[p].leaf[th[p].va].flags

\* ... and maps it.
CopyMap(p) ==
  /\ At(p, "copymap") /\ mappages(th[p].pt, th[p].va, Pte("user", NULL, CopyFlags(p)))
  /\ th' = [th EXCEPT ![p].mem = 0, ![p].va = @ + 1, ![p].pc = "copy"]
  /\ UNCHANGED proc

\* No page for the copy or for a table: undo the copies so far.
CopyFail(p) ==
  /\ At(p, "copyfail") \/ (At(p, "copymap") /\ WalkFails(th[p].pt, th[p].va))
  /\ uvmunmap(th[p].pt, 0..(th[p].va - 1), FreeMem(p))
  /\ th' = [th EXCEPT ![p].mem = 0, ![p].va = 0, ![p].pc = "freeproc"]
  /\ UNCHANGED proc

\* The child is complete.
ForkReady(p) ==
  LET q == th[p].np IN
  /\ At(p, "copy") /\ th[p].va * PGSIZE >= proc[p].sz
  /\ proc' = [proc EXCEPT ![q].sz = proc[p].sz, ![q].parent = p, ![q].state = "LIVE"]
  /\ Return(p)
  /\ UNCHANGED memory

\* freeproc of a child that fork could not complete or that wait has found.
freeproc(p) ==
  LET q == th[p].np
      n == (IF proc[q].trapframe THEN 1 ELSE 0) + (IF proc[q].usyscall THEN 1 ELSE 0)
  IN
  /\ At(p, "freeproc")
  /\ IF space[q] # NoTable
     THEN uvmfree(q, Maps, pages(proc[q].sz), n) /\ space' = Without(q)
     ELSE free' = free + n /\ UNCHANGED <<space, panic>>
  /\ proc' = [proc EXCEPT ![q] = NoProc]
  /\ Return(p)

----------------------------------------------------------------------------
(* uvmalloc, for growproc, for a segment of exec and for exec's stack      *)

\* uvmalloc(t, oldsz, newsz) is called, with oldsz <= newsz.
uvmalloc(p, t, oldsz, newsz, r) ==
  th' = [th EXCEPT ![p].pt = t, ![p].sz = oldsz, ![p].va = pages(oldsz),
                   ![p].newsz = newsz, ![p].ret = r, ![p].pc = "grow"]

GrowTake(p) ==
  /\ At(p, "grow") /\ th[p].va * PGSIZE < th[p].newsz
  /\ Take(p, "growmap", "growfail")
  /\ UNCHANGED <<space, panic, proc>>

GrowWalk(p) ==
  /\ At(p, "growmap") /\ WalkAlloc(th[p].pt, th[p].va)
  /\ UNCHANGED <<proc, th>>

\* xperm: a segment has the flags of its program header (flags2perm).
Xperm(p) == IF th[p].ret = "segment" THEN Head(th[p].img).perm ELSE {"W"}

GrowMap(p) ==
  /\ At(p, "growmap")
  /\ mappages(th[p].pt, th[p].va, Pte("user", NULL, {"R", "U"} \cup Xperm(p)))
  /\ th' = [th EXCEPT ![p].mem = 0, ![p].va = @ + 1, ![p].pc = "grow"]
  /\ UNCHANGED proc

\* uvmdealloc back to the old size; the new table pages stay.
GrowFail(p) ==
  /\ At(p, "growfail") \/ (At(p, "growmap") /\ WalkFails(th[p].pt, th[p].va))
  /\ uvmunmap(th[p].pt, pages(th[p].sz)..(th[p].va - 1), FreeMem(p))
  /\ IF th[p].ret = "growproc" THEN Return(p)
     ELSE th' = [th EXCEPT ![p].mem = 0, ![p].pc = "bad"]
  /\ UNCHANGED proc

\* The new size is returned; exec takes 0 for a failure.
GrowDone(p) ==
  LET n == th[p].newsz IN
  /\ At(p, "grow") /\ th[p].va * PGSIZE >= n
  /\ \/ /\ th[p].ret = "growproc"
        /\ proc' = [proc EXCEPT ![p].sz = n]
        /\ Return(p)
     \/ /\ th[p].ret # "growproc"
        /\ th' = [th EXCEPT ![p].sz = n, ![p].pc = IF n = 0 THEN "bad" ELSE th[p].ret]
        /\ UNCHANGED proc
  /\ UNCHANGED memory

\* sz + n, a uint64.
Sum(p, n) == (proc[p].sz + n) % UINT64

growproc(p, n) ==
  /\ At(p, "user") /\ n > 0
  /\ uvmalloc(p, p, proc[p].sz, Sum(p, n), "growproc")
  /\ UNCHANGED <<memory, proc>>

\* growproc with n < 0; it does nothing if the new size is not smaller.
uvmdealloc(p, n) ==
  /\ At(p, "user") /\ n < 0 /\ Sum(p, n) < proc[p].sz
  /\ uvmunmap(p, pages(Sum(p, n))..(pages(proc[p].sz) - 1), 0)
  /\ proc' = [proc EXCEPT ![p].sz = Sum(p, n)]
  /\ UNCHANGED th

----------------------------------------------------------------------------
(* exec                                                                    *)

\* The file is there and has an ELF header.
exec(p, g) ==
  /\ At(p, "user")
  /\ th' = [th EXCEPT ![p].img = g, ![p].pc = "create"]
  /\ UNCHANGED <<memory, proc>>

\* The next program header: grow to its end, unless that is below the size.
Load(p) ==
  LET end == Head(th[p].img).vaddr + Head(th[p].img).memsz IN
  /\ At(p, "load") /\ th[p].img # <<>>
  /\ IF end >= th[p].sz THEN uvmalloc(p, th[p].pt, th[p].sz, end, "segment")
     ELSE Goto(p, "segment")
  /\ UNCHANGED <<memory, proc>>

\* loadseg reads the segment into its pages.
loadseg(p) ==
  LET s == Head(th[p].img)
      S == {v \in Va : s.vaddr <= v * PGSIZE /\ v * PGSIZE < s.vaddr + s.filesz}
  IN
  /\ At(p, "segment")
  /\ panic' = (\E v \in S : ~walkaddr(th[p].pt, v))       \* "address should exist"
  /\ th' = [th EXCEPT ![p].img = Tail(@), ![p].pc = "load"]
  /\ UNCHANGED <<free, space, proc>>

\* Two pages more, for the guard and the stack.
Stack(p) ==
  LET oldsz == pages(th[p].sz) * PGSIZE IN
  /\ At(p, "load") /\ th[p].img = <<>>
  /\ uvmalloc(p, th[p].pt, oldsz, oldsz + 2 * PGSIZE, "stack")
  /\ UNCHANGED <<memory, proc>>

\* The guard page is taken from the user.
uvmclear(p) ==
  LET v == th[p].sz \div PGSIZE - 2 IN
  /\ At(p, "stack")
  /\ panic' = (Missing(th[p].pt, v) # {})
  /\ space' = [space EXCEPT ![th[p].pt].leaf[v].flags = @ \ {"U"}]
  /\ Goto(p, "push")
  /\ UNCHANGED <<free, proc>>

\* The arguments fit on the stack: commit, and free the old image.
Commit(p) ==
  LET t == th[p].pt IN
  /\ At(p, "push") /\ walkaddr(t, th[p].sz \div PGSIZE - 1)
  /\ proc' = [proc EXCEPT ![p].sz = th[p].sz]
  /\ uvmfree(p, Maps, pages(proc[p].sz), 0)
  /\ space' = [Without(t) EXCEPT ![p] = space[t]]
  /\ Return(p)

\* A bad or unreadable header or segment, or arguments that do not fit.
Reject(p) ==
  /\ At(p, "load") \/ At(p, "segment") \/ At(p, "push")
  /\ Goto(p, "bad")
  /\ UNCHANGED <<memory, proc>>

bad(p) ==
  LET t == th[p].pt IN
  /\ At(p, "bad")
  /\ IF t # NULL THEN uvmfree(t, Maps, pages(th[p].sz), 0) /\ space' = Without(t)
     ELSE UNCHANGED memory
  /\ Return(p)
  /\ UNCHANGED proc

----------------------------------------------------------------------------
(* exit and wait                                                           *)

\* The parent of q once p has handed over its children.
reparent(p, q) == IF proc[q].parent = p THEN initproc ELSE proc[q].parent

exit(p) ==
  /\ At(p, "user") /\ p # initproc
  /\ proc' = [q \in Slot |-> [proc[q] EXCEPT
       !.parent = reparent(p, q), !.state = IF q = p THEN "ZOMBIE" ELSE @]]
  /\ UNCHANGED <<memory, th>>

\* wait has found an exited child.
Reap(p, q) ==
  /\ At(p, "user") /\ proc[q].state = "ZOMBIE" /\ proc[q].parent = p
  /\ th' = [th EXCEPT ![p].np = q, ![p].pc = "freeproc"]
  /\ UNCHANGED memory

wait(p, q) == Reap(p, q) /\ UNCHANGED proc

\* copyout stores bytes in page v if walkaddr allows it, which does not look
\* at PTE_W: the usyscall page of the caller is one of those.  Copied stands
\* for any bytes that are not the caller's pid.
Copied == -1
copyout(p, v) ==
  /\ walkaddr(p, v)
  /\ proc' = IF v = USYSCALL THEN [proc EXCEPT ![p].upid = Copied] ELSE proc

\* wait stores the exit status; with a bad address the child stays a zombie.
WaitStatus(p, q, v) == Reap(p, q) /\ copyout(p, v)

\* A system call that returns data in memory, like read, pipe or fstat.
either_copyout(p, v) ==
  /\ At(p, "user") /\ copyout(p, v)
  /\ UNCHANGED <<memory, th>>

----------------------------------------------------------------------------
Step(p) ==
  \/ fork(p) \/ AllocTrapframe(p) \/ AllocUsyscall(p) \/ uvmcreate(p)
  \/ MapWalk(p) \/ MapSet(p) \/ MapFail(p)
  \/ CopyTake(p) \/ CopyWalk(p) \/ CopyMap(p) \/ CopyFail(p) \/ ForkReady(p)
  \/ freeproc(p)
  \/ GrowTake(p) \/ GrowWalk(p) \/ GrowMap(p) \/ GrowFail(p) \/ GrowDone(p)
  \/ \E n \in GrowNs : growproc(p, n) \/ uvmdealloc(p, n)
  \/ \E g \in Programs : exec(p, g)
  \/ Load(p) \/ loadseg(p) \/ Stack(p) \/ uvmclear(p) \/ Commit(p) \/ Reject(p)
  \/ bad(p) \/ exit(p)
  \/ \E q \in Slot : wait(p, q) \/ \E v \in CopyVas : WaitStatus(p, q, v)
  \/ \E v \in CopyVas : either_copyout(p, v)

Next == ~panic /\ \E p \in Slot : Step(p)
Spec == Init /\ [][Next]_vars

----------------------------------------------------------------------------
(* Properties                                                              *)

\* Every variable has its type; a size, a uint64, is never negative.
TypeOK ==
  /\ free \in 0..NFRAMES /\ panic \in BOOLEAN
  /\ \A t \in Table : /\ space[t].tabs \subseteq {<<>>} \cup UNION {Path(v) : v \in Va}
                      /\ space[t].leaf \in [Va -> [page : {"none", "user", "trampoline",
                           "trapframe", "usyscall"}, of : Slot \cup {NULL},
                           flags : SUBSET {"R", "W", "X", "U"}]]
  /\ proc \in [Slot -> [state : {"UNUSED", "USED", "LIVE", "ZOMBIE"}, pid : Pids \cup {0},
                        parent : Slot \cup {NULL}, sz : Nat, trapframe : BOOLEAN,
                        usyscall : BOOLEAN, upid : Pids \cup {0, Copied}]]
  /\ \A p \in Slot : /\ th[p].np \in Slot \cup {NULL} /\ th[p].pt \in Table \cup {NULL}
                     /\ th[p].va \in Va /\ th[p].sz \in Nat /\ th[p].newsz \in Nat
                     /\ th[p].mem \in 0..1

\* No panic of vm.c or exec.c is in reach, whenever memory runs out: nothing
\* is mapped twice, unmapped twice, or left mapped when a table is freed.
NoPanic == ~panic

\* Every page is free or has one use: as a table page, as a page of user
\* memory, as a trapframe or usyscall page, or as the page that a thread is
\* about to map.  So none is lost or freed twice on any of the error paths.
Used == (UNION {{<<"table", t, x>> : x \in space[t].tabs} : t \in Table})
        \cup (UNION {{<<"user", t, v>> : v \in User(t)} : t \in Table})
        \cup {<<"trapframe", p>> : p \in {q \in Slot : proc[q].trapframe}}
        \cup {<<"usyscall", p>> : p \in {q \in Slot : proc[q].usyscall}}
        \cup {<<"mem", p>> : p \in {q \in Slot : th[q].mem = 1}}
PagesCounted == free + Cardinality(Used) = NFRAMES

\* No system call is at work on the process.
Settled(p) == proc[p].state \in {"LIVE", "ZOMBIE"} /\ th[p].pc = "user"

\* User memory is mapped from 0 to the size of the process and nowhere else:
\* what uvmcopy, uvmfree and the next uvmalloc rely on.
SizeExact == \A p \in Slot :
  Settled(p) => User(p) = 0..(pages(proc[p].sz) - 1)

\* Each process has a page of its own at USYSCALL, which its own instructions
\* cannot write, after fork and exec too.  Nothing gets into it but its pid and
\* what the process itself asks a system call to copy there (walkaddr does not
\* look at PTE_W, line 122 of vm.c): never the pid of the process that had the
\* page before, or of its parent.
UsyscallOwn == \A p \in Slot : Settled(p) =>
  /\ space[p].leaf[USYSCALL] = Pte("usyscall", p, {"R", "U"})
  /\ proc[p].upid \in {proc[p].pid, Copied}

\* fork gives the child the same pages with the same rights, the guard page
\* included.
CopyFaithful == [][\A p \in Slot : ForkReady(p) => \A v \in Va :
  space[th[p].np].leaf[v].flags = space[p].leaf[v].flags]_vars
=============================================================================
