------------------------- MODULE AddressSpaceProofs -------------------------
(***************************************************************************)
(* The page tables of Lab3, for any number of processes and pages, and for *)
(* every program: none of the error paths loses a page or reaches a panic. *)
(***************************************************************************)
EXTENDS AddressSpace, NatFacts, FiniteSetTheorems, TLAPS

Page    == {"none", "user", "trampoline", "trapframe", "usyscall"}
PteType == [page : Page, of : Slot \cup {NULL}, flags : SUBSET {"R", "W", "X", "U"}]

TableType == [tabs : SUBSET Seq(Nat), leaf : [Va -> PteType]]
SpaceType == space \in [Table -> TableType]
ProcRec   == [state : {"UNUSED", "USED", "LIVE", "ZOMBIE"}, pid : Pids \cup {0},
              parent : Slot \cup {NULL}, sz : Nat, trapframe : BOOLEAN,
              usyscall : BOOLEAN, upid : Pids \cup {0, Copied}]
ProcType  == proc \in [Slot -> ProcRec]
Pc        == {"user", "trapframe", "usyscall", "create", "maps", "copy", "copymap", "copyfail",
              "freeproc", "grow", "growmap", "growfail", "load", "segment", "stack", "push", "bad"}
ThRec     == [pc : Pc, np : Slot \cup {NULL}, pt : Table \cup {NULL}, va : Nat,
              sz : Nat, newsz : Nat, mem : 0..1, img : Seq(Segment),
              ret : {"none", "growproc", "segment", "stack"}]
ThType    == th \in [Slot -> ThRec]
Types     == SpaceType /\ ProcType /\ ThType

----------------------------------------------------------------------------
(* The tables and the threads that work on them                            *)

\* Table t has the mappings M of process q, the first n pages of user memory,
\* and every table page on the way to them.
Shape(t, q, M, n) ==
  /\ n <= USYSCALL
  /\ \A v \in M : t.leaf[v] = MapOf(q, v)
  /\ \A v \in Va \ M : IF v < n THEN t.leaf[v].page = "user" ELSE t.leaf[v] = NoPte
  /\ \A v \in Va : v \in M \/ v < n => Path(v) \subseteq t.tabs
  /\ <<>> \in t.tabs

\* What proc_pagetable has mapped before v.
Above(v) == {w \in Maps : w > v}

\* The pages of process p, which grow while growproc is at work.
Size(p) == IF th[p].ret = "growproc" THEN th[p].va ELSE pages(proc[p].sz)

\* A process that is complete, running or not.
Owner(p) == proc[p].state \in {"LIVE", "ZOMBIE"} =>
  /\ proc[p].trapframe /\ proc[p].usyscall
  /\ proc[p].upid \in {proc[p].pid, Copied}
  /\ Shape(space[p], p, Maps, Size(p))

\* A slot that is free, and one without a thread.
Empty(p) ==
  /\ proc[p].state = "UNUSED" =>
       /\ proc[p].sz = 0 /\ ~proc[p].trapframe /\ ~proc[p].usyscall /\ space[p] = NoTable
  /\ proc[p].state # "LIVE" => th[p] = Idle

\* A thread that is in no system call, or grows its own memory, has no second table.
Single(p) ==
  /\ th[p].pc = "user" => th[p] = Idle
  /\ th[p].np # NULL \/ th[p].ret = "growproc" \/ th[p].pc \in {"user", "create"} =>
       space[New(p)] = NoTable
  /\ th[p].mem = 1 <=> th[p].pc \in {"copymap", "growmap"}
  /\ th[p].ret = "growproc" => th[p].np = NULL /\ th[p].pc \in {"grow", "growmap", "growfail"}

\* The child that fork builds: how far it has come.
Forks(p) == LET q == th[p].np IN q # NULL =>
  /\ q # p
  /\ th[p].pc \in {"trapframe", "usyscall", "create", "maps", "copy", "copymap", "copyfail", "freeproc"}
  /\ \/ proc[q].state = "USED" /\ proc[q].sz = 0
     \/ th[p].pc = "freeproc" /\ proc[q].state = "ZOMBIE" /\ proc[q].parent = p
  /\ th[p].pc \in {"trapframe", "usyscall", "create"} => space[q] = NoTable
  /\ th[p].pc = "trapframe" => ~proc[q].trapframe /\ ~proc[q].usyscall
  /\ th[p].pc = "usyscall" => proc[q].trapframe /\ ~proc[q].usyscall
  /\ th[p].pc \in {"create", "maps", "copy", "copymap", "copyfail"} =>
       proc[q].trapframe /\ proc[q].usyscall /\ proc[q].upid = proc[q].pid
  /\ th[p].pc = "maps" => th[p].pt = q /\ th[p].va \in Maps /\ Shape(space[q], q, Above(th[p].va), 0)
  /\ th[p].pc \in {"copy", "copymap", "copyfail"} =>
       /\ th[p].pt = q /\ Shape(space[q], q, Maps, th[p].va)
       /\ th[p].va <= pages(proc[p].sz)
       /\ \A v \in 0..(th[p].va - 1) : space[q].leaf[v].flags = space[p].leaf[v].flags
  /\ th[p].pc \in {"copymap", "copyfail"} => th[p].va < pages(proc[p].sz)
  /\ th[p].pc = "freeproc" /\ proc[q].state = "USED" =>
       space[q] = NoTable \/ Shape(space[q], q, Maps, 0)

\* uvmalloc has come from the old size to page va on the way to the new one.
Grows(p) == th[p].pc \in {"grow", "growmap", "growfail"} =>
  /\ th[p].ret # "none" /\ th[p].sz <= th[p].newsz
  /\ pages(th[p].sz) <= th[p].va /\ th[p].va <= pages(th[p].newsz)
  /\ th[p].pc = "growmap" => th[p].va < pages(th[p].newsz)
  /\ IF th[p].ret = "growproc" THEN th[p].pt = p /\ th[p].sz = proc[p].sz
     ELSE th[p].pt = New(p) /\ Shape(space[New(p)], p, Maps, th[p].va)
  /\ th[p].ret = "segment" => /\ th[p].img # <<>>
                              /\ th[p].newsz = Head(th[p].img).vaddr + Head(th[p].img).memsz
  /\ th[p].ret = "stack" => th[p].newsz = pages(th[p].newsz) * PGSIZE /\ pages(th[p].newsz) >= 2

\* The table that exec builds: how far it has come.
Execs(p) == th[p].np = NULL =>
  /\ th[p].pc \in {"user", "create", "maps", "load", "segment", "stack", "push", "bad",
                   "grow", "growmap", "growfail"}
  /\ th[p].pc \in {"create", "maps"} => th[p].sz = 0
  /\ th[p].pc = "create" => th[p].pt = NULL
  /\ th[p].pc = "maps" => /\ th[p].pt = New(p) /\ th[p].va \in Maps
                          /\ Shape(space[New(p)], p, Above(th[p].va), 0)
  /\ th[p].pc \in {"load", "segment", "stack", "push"} =>
       th[p].pt = New(p) /\ Shape(space[New(p)], p, Maps, pages(th[p].sz))
  /\ th[p].pc = "bad" => \/ th[p].pt = NULL /\ space[New(p)] = NoTable
                         \/ th[p].pt = New(p) /\ Shape(space[New(p)], p, Maps, pages(th[p].sz))
  /\ th[p].pc = "segment" => /\ th[p].img # <<>>
                             /\ Head(th[p].img).vaddr + Head(th[p].img).memsz <= th[p].sz
  /\ th[p].pc = "stack" => th[p].sz = pages(th[p].sz) * PGSIZE /\ pages(th[p].sz) >= 2
  /\ th[p].pc \in {"load", "segment", "stack", "grow", "growmap", "growfail"} /\ th[p].ret # "growproc" =>
       \A v \in Va : space[New(p)].leaf[v].page = "user" => "U" \in space[New(p)].leaf[v].flags

Local(p) == Owner(p) /\ Empty(p) /\ Single(p) /\ Forks(p) /\ Grows(p) /\ Execs(p)

\* No two threads work on the same child.
Unshared == \A p, r \in Slot : th[p].np = th[r].np /\ th[p].np # NULL => p = r

Counted == PagesCounted /\ free \in Nat /\ \A t \in Table : IsFiniteSet(space[t].tabs)

IInv == Types /\ (\A p \in Slot : Local(p)) /\ Unshared /\ Counted /\ NoPanic

----------------------------------------------------------------------------
(* Addresses, sizes and tables                                             *)

LEMMA ConstFacts ==
  /\ NPROC \in Nat \ {0} /\ PGSIZE \in Nat \ {0} /\ FAN \in Nat /\ FAN >= 3
  /\ USYSCALL \in Nat /\ TRAPFRAME = USYSCALL + 1 /\ TRAMPOLINE = USYSCALL + 2
  /\ NFRAMES \in Nat /\ NFRAMES <= USYSCALL /\ 8 <= NFRAMES /\ UINT64 \in Nat \ {0}
  /\ Va = 0..TRAMPOLINE /\ Maps \subseteq Va /\ 0 \in Va
  /\ \A n \in GrowNs : n \in Int /\ (TRAMPOLINE + 1) * PGSIZE + n < UINT64
<1>1. PICK m \in Int : m = FAN * FAN * FAN
  BY SpaceAssumption
<1>2. TRAMPOLINE = m - 1 /\ TRAPFRAME = m - 2 /\ USYSCALL = m - 3
  BY <1>1 DEF TRAMPOLINE, TRAPFRAME, USYSCALL
<1>3. USYSCALL \in Nat
  BY <1>2, SpaceAssumption
<1> QED BY <1>1, <1>2, <1>3, SpaceAssumption DEF Va, Maps

LEMMA TableFacts ==
  /\ Slot \subseteq Table /\ 0 \notin Table /\ 0 \notin Slot
  /\ \A p \in Slot : New(p) \in Table /\ New(p) \notin Slot
  /\ \A p, q \in Slot : New(p) = New(q) => p = q
  BY ConstFacts DEF Slot, Table, New

\* The pages of a size: those that begin before it.
LEMMA PagesFacts ==
  ASSUME NEW n \in Nat
  PROVE  /\ pages(n) \in Nat
         /\ \A v \in Nat : v * PGSIZE < n <=> v < pages(n)
<1>1. PICK m \in Nat \ {0} : m = PGSIZE
  BY ConstFacts
<1>2. n + m - 1 \in Nat
  BY <1>1
<1>3. PICK k \in Nat, r \in 0..(m - 1) : n + m - 1 = m * k + r /\ k = (n + m - 1) \div m
  BY <1>1, <1>2, DivMod
<1>4. pages(n) = k
  BY <1>1, <1>3 DEF pages
<1>5. m * k >= n /\ (k > 0 => m * (k - 1) < n)
  <2>1. m * (k - 1) = m * k - m
    BY <1>1, <1>3
  <2> QED BY <1>1, <1>3, <2>1
<1>6. ASSUME NEW v \in Nat PROVE v * m < n <=> v < k
  <2>1. v >= k => v * m >= m * k
    BY <1>1, <1>3
  <2>2. v < k => v * m <= m * (k - 1)
    BY <1>1, <1>3
  <2> QED BY <1>1, <1>3, <1>5, <2>1, <2>2
<1> QED BY <1>1, <1>4, <1>6

LEMMA PagesMonotone ==
  ASSUME NEW m \in Nat, NEW n \in Nat, m <= n
  PROVE  pages(m) <= pages(n)
<1>1. pages(m) \in Nat /\ pages(n) \in Nat
  BY PagesFacts
<1>2. CASE pages(m) > pages(n)
  <2>1. pages(n) * PGSIZE < m /\ ~(pages(n) * PGSIZE < n)
    BY <1>1, <1>2, PagesFacts
  <2> QED BY <1>1, <2>1, ConstFacts
<1> QED BY <1>1, <1>2

LEMMA PagesOfWhole ==
  ASSUME NEW k \in Nat
  PROVE  pages(k * PGSIZE) = k /\ (k * PGSIZE) \div PGSIZE = k
<1>1. PICK m \in Nat \ {0} : m = PGSIZE
  BY ConstFacts
<1>2. k * m = m * k + 0 /\ k * m + m - 1 = m * k + (m - 1) /\ m - 1 \in 0..(m - 1) /\ 0 \in 0..(m - 1)
  BY <1>1
<1> QED BY <1>1, <1>2, ModUnique DEF pages

LEMMA PagesZero == pages(0) = 0
<1>1. 0 * PGSIZE = 0
  BY ConstFacts
<1> QED BY <1>1, PagesOfWhole

\* The three mappings of proc_pagetable have the same table pages.
LEMMA PathFacts ==
  /\ \A v \in Va : Path(v) \in SUBSET Seq(Nat) /\ <<>> \notin Path(v)
  /\ \A v \in Maps : Path(v) = Path(TRAMPOLINE)
<1>1. PICK f \in Nat : f = FAN /\ f >= 3
  BY ConstFacts
<1>2. \A v \in Va : (v \div (f * f)) % f \in Nat /\ (v \div f) % f \in Nat
  <2> TAKE v \in Va
  <2>1. f * f \in Nat \ {0} /\ f \in Nat \ {0} /\ v \in Nat
    BY <1>1, ConstFacts
  <2>2. v \div (f * f) \in Nat /\ v \div f \in Nat
    BY <2>1, DivMod
  <2> QED BY <2>1, <2>2, DivMod
<1>3. \A v \in Va : Path(v) = {<<(v \div (f * f)) % f>>, <<(v \div (f * f)) % f, (v \div f) % f>>}
  BY <1>1 DEF Path, PX
<1>4. \A i \in 1..3 : /\ (f * f * f - i) \div f = f * f - 1
                      /\ (f * f * f - i) \div (f * f) = f - 1
  <2> TAKE i \in 1..3
  <2>1. f * f * f - i = f * (f * f - 1) + (f - i) /\ f - i \in 0..(f - 1)
    BY <1>1
  <2>2. f * f \in Nat \ {0} /\ f * f - i \in 0..(f * f - 1)
    BY <1>1
  <2>3. f * f * f - i = (f * f) * (f - 1) + (f * f - i)
    BY <1>1
  <2>4. f * f - 1 \in Int /\ f - 1 \in Int /\ f \in Nat \ {0}
    BY <1>1
  <2>5. (f * (f * f - 1) + (f - i)) \div f = f * f - 1
    BY <2>1, <2>4, ModUnique
  <2>6. ((f * f) * (f - 1) + (f * f - i)) \div (f * f) = f - 1
    BY <2>2, <2>4, ModUnique
  <2> QED BY <2>1, <2>3, <2>5, <2>6
<1>5. \A v \in Maps : \E i \in 1..3 : v = f * f * f - i
  BY <1>1 DEF Maps, TRAMPOLINE, TRAPFRAME, USYSCALL
<1>6. TRAMPOLINE \in Maps /\ Maps \subseteq Va
  BY ConstFacts DEF Maps
<1>7. \A v \in Maps : Path(v) = Path(TRAMPOLINE)
  BY <1>3, <1>4, <1>5, <1>6
<1>8. \A x, y \in Nat : /\ <<x>> \in Seq(Nat) /\ <<x, y>> \in Seq(Nat)
                        /\ <<x>> # <<>> /\ <<x, y>> # <<>>
  OBVIOUS
<1>9. ASSUME NEW v \in Va PROVE Path(v) \in SUBSET Seq(Nat) /\ <<>> \notin Path(v)
  BY <1>2, <1>3, <1>8
<1> QED BY <1>7, <1>9

LEMMA NextTabFacts ==
  ASSUME Types, NEW t \in Table, NEW v \in Va, Missing(t, v) # {}
  PROVE  NextTab(t, v) \in Path(v) \ space[t].tabs
<1>1. PICK a, b : Path(v) = {<<a>>, <<a, b>>}
  BY DEF Path
<1>2. Len(<<a>>) = 1 /\ Len(<<a, b>>) = 2
  OBVIOUS
<1>3. \E x \in Missing(t, v) : \A y \in Missing(t, v) : Len(x) <= Len(y)
  <2>1. CASE <<a>> \in Missing(t, v)
    <3>1. \A y \in Missing(t, v) : y = <<a>> \/ y = <<a, b>>
      BY <1>1 DEF Missing
    <3>2. \A y \in Missing(t, v) : Len(<<a>>) <= Len(y)
      BY <1>2, <3>1
    <3> QED BY <2>1, <3>2
  <2>2. CASE <<a>> \notin Missing(t, v)
    <3>1. Missing(t, v) = {<<a, b>>}
      BY <1>1, <2>2 DEF Missing
    <3> QED BY <1>2, <3>1
  <2> QED BY <2>1, <2>2
<1> QED BY <1>3 DEF NextTab, Missing

----------------------------------------------------------------------------
(* What mapping and unmapping do to a table                                *)

\* What is mapped in a table, and which of it is user memory.
LEMMA ShapeFacts ==
  ASSUME NEW t \in TableType, NEW q \in Slot, NEW M \in SUBSET Maps, NEW n \in Nat, Shape(t, q, M, n)
  PROVE  /\ {v \in Va : t.leaf[v] # NoPte} = M \cup 0..(n - 1)
         /\ {v \in Va : t.leaf[v].page = "user"} = 0..(n - 1)
         /\ t # NoTable /\ n <= USYSCALL
         /\ \A v \in 0..(n - 1) : v \in Va /\ t.leaf[v].page = "user"
<1>1. \A v \in M : v \in Va /\ v >= n /\ t.leaf[v] # NoPte /\ t.leaf[v].page # "user"
  <2> TAKE v \in M
  <2>1. v \in Va /\ v >= n
    BY ConstFacts DEF Shape, Maps
  <2>2. t.leaf[v] = MapOf(q, v) /\ v \in {TRAMPOLINE, TRAPFRAME, USYSCALL}
    BY DEF Shape, Maps
  <2>3. MapOf(q, v).page \in {"trampoline", "trapframe", "usyscall"}
    BY <2>2, ConstFacts DEF MapOf, Pte
  <2> QED BY <2>1, <2>2, <2>3 DEF NoPte, Pte
<1>2. \A v \in 0..(n - 1) : v \in Va /\ v \notin M
  BY <1>1, ConstFacts DEF Shape
<1>3. \A v \in Va \ M : IF v < n THEN t.leaf[v].page = "user" ELSE t.leaf[v] = NoPte
  BY DEF Shape
<1>4. NoPte.page = "none"
  BY DEF NoPte, Pte
<1>5. \A v \in Va : v \in 0..(n - 1) <=> v < n
  BY ConstFacts
<1>6. t # NoTable
  BY DEF Shape, NoTable
<1>7. {v \in Va : t.leaf[v].page = "user"} = 0..(n - 1)
  BY <1>1, <1>2, <1>3, <1>4, <1>5
<1>8. {v \in Va : t.leaf[v] # NoPte} = M \cup 0..(n - 1)
  BY <1>1, <1>2, <1>3, <1>4, <1>5
<1> QED BY <1>2, <1>3, <1>5, <1>6, <1>7, <1>8 DEF Shape

\* A new table, and one with more table pages.
LEMMA ShapeRoot == ASSUME NEW q PROVE Root \in TableType /\ NoTable \in TableType /\ Shape(Root, q, {}, 0)
<1>1. NoPte \in PteType
  BY DEF NoPte, Pte, PteType, Page
<1>2. <<>> \in Seq(Nat)
  OBVIOUS
<1> QED BY <1>1, <1>2, ConstFacts DEF Root, NoTable, Shape, TableType

LEMMA ShapeWalk ==
  ASSUME NEW t \in TableType, NEW q, NEW M, NEW n, Shape(t, q, M, n),
         NEW u, u.leaf = t.leaf, t.tabs \subseteq u.tabs
  PROVE  Shape(u, q, M, n)
  BY DEF Shape

\* The next of the mappings of proc_pagetable.
LEMMA ShapeMap ==
  ASSUME NEW t \in TableType, NEW q \in Slot, NEW v \in Maps, Shape(t, q, Above(v), 0),
         Path(v) \subseteq t.tabs,
         NEW u, u.tabs = t.tabs, u.leaf = [t.leaf EXCEPT ![v] = MapOf(q, v)]
  PROVE  /\ v # USYSCALL => v - 1 \in Maps /\ Shape(u, q, Above(v - 1), 0)
         /\ v = USYSCALL => Shape(u, q, Maps, 0)
<1>1. Shape(u, q, Above(v) \cup {v}, 0)
  BY ConstFacts DEF Shape, TableType, Above
<1>2. v # USYSCALL => v - 1 \in Maps /\ Above(v - 1) = Above(v) \cup {v}
  BY ConstFacts DEF Maps, Above
<1>3. v = USYSCALL => Above(v) \cup {v} = Maps
  BY ConstFacts DEF Maps, Above
<1> QED BY <1>1, <1>2, <1>3

\* The next page of user memory.
LEMMA ShapeGrow ==
  ASSUME NEW t \in TableType, NEW q \in Slot, NEW n \in Nat, Shape(t, q, Maps, n),
         n < USYSCALL, Path(n) \subseteq t.tabs,
         NEW e, e.page = "user",
         NEW u, u.tabs = t.tabs, u.leaf = [t.leaf EXCEPT ![n] = e]
  PROVE  Shape(u, q, Maps, n + 1)
<1>1. n \in Va \ Maps
  BY ConstFacts DEF Maps
<1>2. n + 1 <= USYSCALL
  BY ConstFacts
<1>3. \A v \in Va : v < n + 1 <=> v < n \/ v = n
  BY ConstFacts
<1> QED BY <1>1, <1>2, <1>3 DEF Shape, TableType

\* The user memory from page m on is unmapped.
LEMMA ShapeCut ==
  ASSUME NEW t \in TableType, NEW q \in Slot, NEW n \in Nat, NEW m \in Nat, Shape(t, q, Maps, n), m <= n,
         NEW u, u.tabs = t.tabs, u.leaf = [v \in Va |-> IF v \in m..(n - 1) THEN NoPte ELSE t.leaf[v]]
  PROVE  Shape(u, q, Maps, m)
<1>1. m <= USYSCALL
  BY ConstFacts DEF Shape
<1>2. \A v \in Maps : v \in Va /\ v \notin m..(n - 1)
  BY ConstFacts DEF Shape, Maps
<1>3. \A v \in Va : v \in m..(n - 1) <=> ~(v < m) /\ v < n
  BY ConstFacts
<1>4. \A v \in Va : v < m => v < n
  BY ConstFacts
<1> QED BY <1>1, <1>2, <1>3, <1>4 DEF Shape

\* The flags of a page of the user do not matter.
LEMMA ShapeFlags ==
  ASSUME NEW t \in TableType, NEW q \in Slot, NEW n \in Nat, Shape(t, q, Maps, n), NEW v \in 0..(n - 1),
         NEW e, e.page = "user",
         NEW u, u.tabs = t.tabs, u.leaf = [t.leaf EXCEPT ![v] = e]
  PROVE  Shape(u, q, Maps, n)
<1>1. v \in Va \ Maps /\ v < n
  BY ConstFacts DEF Shape, Maps
<1> QED BY <1>1 DEF Shape, TableType

----------------------------------------------------------------------------
(* A step of one thread and the state of the others                        *)

LEMMA Frame ==
  ASSUME NEW r \in Slot, Local(r), th'[r] = th[r], proc'[r] = proc[r],
         space'[r] = space[r], space'[New(r)] = space[New(r)],
         th[r].np # NULL => /\ proc'[th[r].np] = proc[th[r].np]
                            /\ space'[th[r].np] = space[th[r].np]
  PROVE  Local(r)'
<1> USE DEF Local, Size
<1>1. Owner(r)' /\ Empty(r)' /\ Single(r)'
  BY DEF Owner, Empty, Single
<1>2. Forks(r)'
  BY DEF Forks
<1>3. Grows(r)' /\ Execs(r)'
  BY DEF Grows, Execs
<1> QED BY <1>1, <1>2, <1>3

\* A child that is being built, or taken apart, has no thread of its own.
LEMMA Kid ==
  ASSUME NEW q \in Slot, Local(q), proc[q].state # "LIVE", th'[q] = th[q],
         proc'[q].state = "USED", space'[New(q)] = space[New(q)]
  PROVE  Local(q)'
<1>1. th[q] = Idle /\ th'[q] = Idle
  BY DEF Local, Empty
<1> QED BY <1>1 DEF Local, Owner, Empty, Single, Forks, Grows, Execs, Idle, Size

\* The child of one thread is not that of another, nor running.
LEMMA KidFacts ==
  ASSUME IInv, NEW p \in Slot, NEW r \in Slot, th[r].np # NULL
  PROVE  /\ th[r].np \in Slot /\ proc[th[r].np].state \in {"USED", "ZOMBIE"}
         /\ r # p => th[r].np # th[p].np
         /\ proc[p].state = "LIVE" => th[r].np # p
  BY DEF IInv, Types, ThType, ThRec, Local, Forks, Unshared

\* So a step that changes only its own process, child and tables leaves the
\* others as they are.
LEMMA Others ==
  ASSUME IInv, NEW p \in Slot, proc[p].state = "LIVE", NEW q \in Slot \cup {NULL},
         q # NULL => \A r \in Slot \ {p} : th[r].np # q,
         \A r \in Slot \ {p} : th'[r] = th[r],
         \A r \in Slot \ {p, q} : proc'[r] = proc[r],
         \A t \in Table \ {p, q, New(p)} : space'[t] = space[t],
         th'[p].np \in {q, NULL},
         Local(p)', q # NULL => Local(q)'
  PROVE  (\A r \in Slot : Local(r))' /\ Unshared'
<1>1. ASSUME NEW r \in Slot, r # p, r # q PROVE Local(r)'
  <2>1. Local(r) /\ th'[r] = th[r] /\ proc'[r] = proc[r]
    BY <1>1 DEF IInv
  <2>2. space'[r] = space[r] /\ space'[New(r)] = space[New(r)]
    <3>1. r \in Table \ {p, q, New(p)}
      BY <1>1, TableFacts
    <3>2. New(r) \in Table \ {p, New(p)} /\ New(r) # q
      BY <1>1, TableFacts DEF NULL
    <3> QED BY <3>1, <3>2
  <2>3. ASSUME th[r].np # NULL
        PROVE  proc'[th[r].np] = proc[th[r].np] /\ space'[th[r].np] = space[th[r].np]
    <3>1. th[r].np \in Slot \ {p, q}
      BY <1>1, <2>3, KidFacts
    <3> QED BY <3>1, TableFacts
  <2> QED BY <2>1, <2>2, <2>3, Frame
<1>2. \A r \in Slot : Local(r)'
  BY <1>1, TableFacts DEF NULL
<1>3. Unshared'
  <2> SUFFICES ASSUME NEW a \in Slot, NEW b \in Slot, th'[a].np = th'[b].np, th'[a].np # NULL
               PROVE  a = b
    BY DEF Unshared
  <2>1. \A r \in Slot \ {p} : th'[r].np = th[r].np
    OBVIOUS
  <2>2. CASE a # p /\ b # p
    BY <2>1, <2>2 DEF IInv, Unshared
  <2> QED BY <2>1, <2>2
<1> QED BY <1>2, <1>3

----------------------------------------------------------------------------
(* Counting pages                                                          *)

\* Tagging the members of a set does not change their number.
LEMMA TagCard ==
  ASSUME NEW k, NEW S, IsFiniteSet(S)
  PROVE  /\ IsFiniteSet({<<k, x>> : x \in S})
         /\ Cardinality({<<k, x>> : x \in S}) = Cardinality(S)
<1> DEFINE T == {<<k, x>> : x \in S}
           f == [x \in S |-> <<k, x>>]
<1>1. f \in Bijection(S, T)
  BY DEF Bijection, Injection, Surjection, IsInjective
<1> QED BY <1>1, FS_Bijection DEF ExistsBijection

\* The members of S, which belongs to table t, as pages of kind k.
Tagged(k, t, S) == {<<k, t, x>> : x \in S}

LEMMA TagCard2 ==
  ASSUME NEW k, NEW t, NEW S, IsFiniteSet(S)
  PROVE  IsFiniteSet(Tagged(k, t, S)) /\ Cardinality(Tagged(k, t, S)) = Cardinality(S)
<1> DEFINE f == [x \in S |-> <<k, t, x>>]
<1>1. f \in Bijection(S, Tagged(k, t, S))
  BY DEF Bijection, Injection, Surjection, IsInjective, Tagged
<1> QED BY <1>1, FS_Bijection DEF ExistsBijection

\* The members of all sets of a family, which has a set for every table.
Pile(k, F) == UNION {Tagged(k, t, F[t]) : t \in Table}

LEMMA DisjointCard ==
  ASSUME NEW A, NEW B, IsFiniteSet(A), IsFiniteSet(B), A \cap B = {}
  PROVE  IsFiniteSet(A \cup B) /\ Cardinality(A \cup B) = Cardinality(A) + Cardinality(B)
<1>1. Cardinality(A) \in Nat /\ Cardinality(B) \in Nat /\ Cardinality(A \cap B) = 0
  BY FS_CardinalityType, FS_EmptySet
<1>2. /\ IsFiniteSet(A \cup B)
      /\ Cardinality(A \cup B) = Cardinality(A) + Cardinality(B) - Cardinality(A \cap B)
  BY FS_Union, Zenon
<1> QED BY <1>1, <1>2

LEMMA PileFinite ==
  ASSUME NEW k, NEW F, \A t \in Table : IsFiniteSet(F[t])
  PROVE  IsFiniteSet(Pile(k, F))
<1> DEFINE f == [t \in Table |-> Tagged(k, t, F[t])]
           C == {Tagged(k, t, F[t]) : t \in Table}
<1>1. IsFiniteSet(Table)
  BY ConstFacts, FS_Interval DEF Table
<1>2. f \in Surjection(Table, C)
  BY DEF Surjection
<1>3. IsFiniteSet(C)
  BY <1>1, <1>2, FS_Surjection DEF ExistsSurjection
<1>4. \A T \in C : IsFiniteSet(T)
  <2> SUFFICES ASSUME NEW t \in Table PROVE IsFiniteSet(Tagged(k, t, F[t]))
    OBVIOUS
  <2> QED BY TagCard2
<1> QED BY <1>3, <1>4, FS_UNION DEF Pile

\* If the set of one table changes, the members of all change by its difference.
LEMMA PileStep ==
  ASSUME NEW k, NEW F, NEW G, NEW t \in Table, \A s \in Table \ {t} : F[s] = G[s],
         \A s \in Table : IsFiniteSet(F[s]), IsFiniteSet(G[t])
  PROVE  /\ Cardinality(Pile(k, F)) \in Nat /\ Cardinality(Pile(k, G)) \in Nat
         /\ Cardinality(Pile(k, F)) + Cardinality(G[t]) = Cardinality(Pile(k, G)) + Cardinality(F[t])
<1> DEFINE R == UNION {Tagged(k, s, F[s]) : s \in Table \ {t}}
           A == Tagged(k, t, F[t])
           B == Tagged(k, t, G[t])
<1>1. Pile(k, F) = R \cup A /\ Pile(k, G) = R \cup B
  BY DEF Pile
<1>2. R \cap A = {} /\ R \cap B = {}
  BY DEF Tagged
<1>3. IsFiniteSet(Pile(k, F)) /\ IsFiniteSet(Pile(k, G))
  BY PileFinite
<1>4. IsFiniteSet(R)
  BY <1>1, <1>3, FS_Subset
<1>5. /\ IsFiniteSet(A) /\ Cardinality(A) = Cardinality(F[t])
      /\ IsFiniteSet(B) /\ Cardinality(B) = Cardinality(G[t])
  BY TagCard2
<1> HIDE DEF R, A, B
<1>6. /\ Cardinality(R \cup A) = Cardinality(R) + Cardinality(A)
      /\ Cardinality(R \cup B) = Cardinality(R) + Cardinality(B)
  BY <1>2, <1>4, <1>5, DisjointCard
<1>7. Cardinality(R) \in Nat /\ Cardinality(A) \in Nat /\ Cardinality(B) \in Nat
  BY <1>4, <1>5, FS_CardinalityType
<1> QED BY <1>1, <1>5, <1>6, <1>7

TabSets   == [t \in Table |-> space[t].tabs]
UserSets  == [t \in Table |-> User(t)]
HasFrame  == {q \in Slot : proc[q].trapframe}
HasCall   == {q \in Slot : proc[q].usyscall}
HasMem    == {q \in Slot : th[q].mem = 1}
TabsFinite == \A t \in Table : IsFiniteSet(space[t].tabs)

\* The pages in use are those of each kind.
Summed ==
  /\ IsFiniteSet(Used)
  /\ Cardinality(Used) = Cardinality(Pile("table", TabSets)) + Cardinality(Pile("user", UserSets))
                         + Cardinality(HasFrame) + Cardinality(HasCall) + Cardinality(HasMem)
  /\ Cardinality(HasFrame) \in Nat /\ Cardinality(HasCall) \in Nat /\ Cardinality(HasMem) \in Nat

LEMMA FiniteFacts ==
  /\ IsFiniteSet(Slot) /\ IsFiniteSet(Table) /\ IsFiniteSet(Va)
  /\ \A t : IsFiniteSet(User(t))
  /\ IsFiniteSet(HasFrame) /\ IsFiniteSet(HasCall) /\ IsFiniteSet(HasMem)
<1>1. IsFiniteSet(Slot) /\ IsFiniteSet(Table) /\ IsFiniteSet(Va)
  BY ConstFacts, FS_Interval DEF Slot, Table
<1>2. ASSUME NEW t PROVE IsFiniteSet(User(t))
  BY <1>1, FS_Subset DEF User
<1>3. IsFiniteSet(HasFrame) /\ IsFiniteSet(HasCall) /\ IsFiniteSet(HasMem)
  BY <1>1, FS_Subset DEF HasFrame, HasCall, HasMem
<1> QED BY <1>1, <1>2, <1>3

LEMMA UsedSum == TabsFinite => Summed
<1> SUFFICES ASSUME TabsFinite PROVE Summed
  OBVIOUS
<1> DEFINE A == Pile("table", TabSets)
           B == Pile("user", UserSets)
           C == {<<"trapframe", p>> : p \in HasFrame}
           D == {<<"usyscall", p>> : p \in HasCall}
           E == {<<"mem", p>> : p \in HasMem}
<1>1. Used = (((A \cup B) \cup C) \cup D) \cup E
  <2>1. A = UNION {{<<"table", t, x>> : x \in space[t].tabs} : t \in Table}
    BY DEF Pile, Tagged, TabSets
  <2>2. B = UNION {{<<"user", t, v>> : v \in User(t)} : t \in Table}
    BY DEF Pile, Tagged, UserSets
  <2> HIDE DEF A, B
  <2>3. Used = A \cup B \cup C \cup D \cup E
    BY <2>1, <2>2, Zenon DEF Used, HasFrame, HasCall, HasMem
  <2> QED BY <2>3
<1>2. IsFiniteSet(A) /\ IsFiniteSet(B)
  <2>1. \A t \in Table : IsFiniteSet(TabSets[t]) /\ IsFiniteSet(UserSets[t])
    BY FiniteFacts DEF TabsFinite, TabSets, UserSets
  <2> QED BY <2>1, PileFinite
<1>3. /\ IsFiniteSet(C) /\ Cardinality(C) = Cardinality(HasFrame)
      /\ IsFiniteSet(D) /\ Cardinality(D) = Cardinality(HasCall)
      /\ IsFiniteSet(E) /\ Cardinality(E) = Cardinality(HasMem)
  <2>1. IsFiniteSet(C) /\ Cardinality(C) = Cardinality(HasFrame)
    BY FiniteFacts, TagCard, Zenon
  <2>2. IsFiniteSet(D) /\ Cardinality(D) = Cardinality(HasCall)
    BY FiniteFacts, TagCard, Zenon
  <2>3. IsFiniteSet(E) /\ Cardinality(E) = Cardinality(HasMem)
    BY FiniteFacts, TagCard, Zenon
  <2> QED BY <2>1, <2>2, <2>3
<1>4. /\ A \cap B = {} /\ (A \cup B) \cap C = {} /\ ((A \cup B) \cup C) \cap D = {}
      /\ (((A \cup B) \cup C) \cup D) \cap E = {}
  <2>1. \A x \in A : Len(x) = 3 /\ x[1] = "table"
    BY DEF Pile, Tagged
  <2>2. \A x \in B : Len(x) = 3 /\ x[1] = "user"
    BY DEF Pile, Tagged
  <2>3. (\A x \in C : x[1] = "trapframe") /\ (\A x \in D : x[1] = "usyscall") /\ (\A x \in E : x[1] = "mem")
    OBVIOUS
  <2> HIDE DEF A, B, C, D, E
  <2> QED BY <2>1, <2>2, <2>3
<1> HIDE DEF A, B, C, D, E
<1>5. IsFiniteSet(A \cup B) /\ Cardinality(A \cup B) = Cardinality(A) + Cardinality(B)
  BY <1>2, <1>4, DisjointCard
<1>6. /\ IsFiniteSet((A \cup B) \cup C)
      /\ Cardinality((A \cup B) \cup C) = Cardinality(A) + Cardinality(B) + Cardinality(C)
  BY <1>3, <1>4, <1>5, DisjointCard, SMTT(30)
<1>7. /\ IsFiniteSet(((A \cup B) \cup C) \cup D)
      /\ Cardinality(((A \cup B) \cup C) \cup D)
           = Cardinality(A) + Cardinality(B) + Cardinality(C) + Cardinality(D)
  BY <1>3, <1>4, <1>6, DisjointCard
<1>8. /\ IsFiniteSet((((A \cup B) \cup C) \cup D) \cup E)
      /\ Cardinality((((A \cup B) \cup C) \cup D) \cup E)
           = Cardinality(A) + Cardinality(B) + Cardinality(C) + Cardinality(D) + Cardinality(E)
  BY <1>3, <1>4, <1>7, DisjointCard
<1>9. Cardinality(HasFrame) \in Nat /\ Cardinality(HasCall) \in Nat /\ Cardinality(HasMem) \in Nat
  BY FiniteFacts, FS_CardinalityType
<1> QED BY <1>1, <1>3, <1>8, <1>9 DEF Summed, A, B

LEMMA UsedSumNext == TabsFinite' => Summed'
  BY UsedSum, PTL

\* The pages of a table and of the memory in it, and those that belong to no table.
Weight(t) == Cardinality(space[t].tabs) + Cardinality(User(t))
Loose   == Cardinality(HasFrame) + Cardinality(HasCall) + Cardinality(HasMem)

LEMMA WeightNext ==
  ASSUME NEW t, IsFiniteSet(space'[t].tabs)
  PROVE  Weight(t)' \in Nat
<1>1. Cardinality(space'[t].tabs) \in Nat
  BY FS_CardinalityType
<1>2. User(t)' \subseteq Va
  BY DEF User
<1>3. Cardinality(User(t)') \in Nat
  BY <1>2, FiniteFacts, FS_CardinalityType, FS_Subset
<1> QED BY <1>1, <1>3 DEF Weight

LEMMA WeightFacts ==
  ASSUME NEW t, IsFiniteSet(space[t].tabs)
  PROVE  Weight(t) \in Nat /\ Cardinality(space[t].tabs) \in Nat /\ Cardinality(User(t)) \in Nat
  BY FiniteFacts, FS_CardinalityType DEF Weight

\* What a step that works on two tables, or on one, has to keep.
LEMMA CountTwo ==
  ASSUME IInv, TabsFinite', NEW t \in Table, NEW u \in Table, t # u,
         \A s \in Table \ {t, u} : space'[s] = space[s], free' \in Int,
         free' + Weight(t)' + Weight(u)' + Loose' = free + Weight(t) + Weight(u) + Loose
  PROVE  PagesCounted'
<1>1. TabsFinite /\ PagesCounted /\ free \in Nat
  BY DEF IInv, Counted, TabsFinite
<1>2. Summed /\ Summed'
  BY <1>1, UsedSum, UsedSumNext
<1> DEFINE F == TabSets
           G == TabSets'
           H == [F EXCEPT ![t] = G[t]]
           K == UserSets
           L == UserSets'
           M == [K EXCEPT ![t] = L[t]]
<1>3. /\ \A s \in Table : F[s] = space[s].tabs /\ G[s] = space'[s].tabs
      /\ \A s \in Table : H[s] = IF s = t THEN G[s] ELSE F[s]
      /\ \A s \in Table \ {t, u} : F[s] = G[s]
  BY DEF TabSets
<1>4. /\ \A s \in Table : K[s] = User(s) /\ L[s] = User(s)'
      /\ \A s \in Table : M[s] = IF s = t THEN L[s] ELSE K[s]
      /\ \A s \in Table \ {t, u} : K[s] = L[s]
  BY DEF UserSets, User
<1>5. \A s \in Table : /\ IsFiniteSet(F[s]) /\ IsFiniteSet(G[s]) /\ IsFiniteSet(H[s])
  BY <1>1, <1>3 DEF TabsFinite
<1>6. \A s \in Table : /\ IsFiniteSet(K[s]) /\ IsFiniteSet(L[s]) /\ IsFiniteSet(M[s])
  <2>1. \A s \in Table : IsFiniteSet(User(s)')
    <3>1. IsFiniteSet(Va)
      BY FiniteFacts
    <3> QED BY <3>1, FS_Subset DEF User
  <2> QED BY <1>4, <2>1, FiniteFacts
<1> HIDE DEF F, G, H, K, L, M
<1>7. /\ Cardinality(Pile("table", F)) \in Nat /\ Cardinality(Pile("table", G)) \in Nat
      /\ Cardinality(Pile("table", F)) + Cardinality(G[t]) + Cardinality(G[u])
         = Cardinality(Pile("table", G)) + Cardinality(F[t]) + Cardinality(F[u])
  <2>1. /\ Cardinality(Pile("table", F)) \in Nat /\ Cardinality(Pile("table", H)) \in Nat
        /\ Cardinality(Pile("table", F)) + Cardinality(H[t]) = Cardinality(Pile("table", H)) + Cardinality(F[t])
    BY <1>3, <1>5, PileStep
  <2>2. /\ Cardinality(Pile("table", G)) \in Nat
        /\ Cardinality(Pile("table", H)) + Cardinality(G[u]) = Cardinality(Pile("table", G)) + Cardinality(H[u])
    BY <1>3, <1>5, PileStep
  <2>3. /\ Cardinality(F[t]) \in Nat /\ Cardinality(F[u]) \in Nat
        /\ Cardinality(G[t]) \in Nat /\ Cardinality(G[u]) \in Nat
    BY <1>5, FS_CardinalityType
  <2>4. H[t] = G[t] /\ H[u] = F[u]
    BY <1>3
  <2> QED BY <2>1, <2>2, <2>3, <2>4
<1>8. /\ Cardinality(Pile("user", K)) \in Nat /\ Cardinality(Pile("user", L)) \in Nat
      /\ Cardinality(Pile("user", K)) + Cardinality(L[t]) + Cardinality(L[u])
         = Cardinality(Pile("user", L)) + Cardinality(K[t]) + Cardinality(K[u])
  <2>1. /\ Cardinality(Pile("user", K)) \in Nat /\ Cardinality(Pile("user", M)) \in Nat
        /\ Cardinality(Pile("user", K)) + Cardinality(M[t]) = Cardinality(Pile("user", M)) + Cardinality(K[t])
    BY <1>4, <1>6, PileStep
  <2>2. /\ Cardinality(Pile("user", L)) \in Nat
        /\ Cardinality(Pile("user", M)) + Cardinality(L[u]) = Cardinality(Pile("user", L)) + Cardinality(M[u])
    BY <1>4, <1>6, PileStep
  <2>3. /\ Cardinality(K[t]) \in Nat /\ Cardinality(K[u]) \in Nat
        /\ Cardinality(L[t]) \in Nat /\ Cardinality(L[u]) \in Nat
    BY <1>6, FS_CardinalityType
  <2>4. M[t] = L[t] /\ M[u] = K[u]
    BY <1>4
  <2> QED BY <2>1, <2>2, <2>3, <2>4
<1>9. /\ Weight(t) = Cardinality(F[t]) + Cardinality(K[t]) /\ Weight(u) = Cardinality(F[u]) + Cardinality(K[u])
      /\ Weight(t)' = Cardinality(G[t]) + Cardinality(L[t]) /\ Weight(u)' = Cardinality(G[u]) + Cardinality(L[u])
  BY <1>3, <1>4 DEF Weight
<1>10. /\ Cardinality(F[t]) \in Nat /\ Cardinality(F[u]) \in Nat /\ Cardinality(G[t]) \in Nat
       /\ Cardinality(G[u]) \in Nat /\ Cardinality(K[t]) \in Nat /\ Cardinality(K[u]) \in Nat
       /\ Cardinality(L[t]) \in Nat /\ Cardinality(L[u]) \in Nat
  BY <1>5, <1>6, FS_CardinalityType
<1>11. /\ Cardinality(Used) = Cardinality(Pile("table", F)) + Cardinality(Pile("user", K)) + Loose
       /\ Cardinality(Used') = Cardinality(Pile("table", G)) + Cardinality(Pile("user", L)) + Loose'
       /\ Loose \in Nat /\ Loose' \in Nat
  <2>1. Pile("table", TabSets)' = Pile("table", G) /\ Pile("user", UserSets)' = Pile("user", L)
    BY DEF Pile, Tagged, G, L
  <2>2. /\ Cardinality(Used) = Cardinality(Pile("table", F)) + Cardinality(Pile("user", K))
             + Cardinality(HasFrame) + Cardinality(HasCall) + Cardinality(HasMem)
        /\ Cardinality(Used') = Cardinality(Pile("table", G)) + Cardinality(Pile("user", L))
             + Cardinality(HasFrame') + Cardinality(HasCall') + Cardinality(HasMem')
        /\ Cardinality(HasFrame) \in Nat /\ Cardinality(HasCall) \in Nat /\ Cardinality(HasMem) \in Nat
        /\ Cardinality(HasFrame') \in Nat /\ Cardinality(HasCall') \in Nat /\ Cardinality(HasMem') \in Nat
    BY <1>2, <2>1 DEF Summed, F, K
  <2> QED BY <1>7, <1>8, <2>2 DEF Loose
<1>12. free + Cardinality(Used) = NFRAMES
  BY <1>1 DEF PagesCounted
<1>13. free' + Cardinality(Used') = free + Cardinality(Used)
  <2>1. PICK a \in Nat, b \in Nat, c \in Nat, d \in Nat :
          /\ a = Cardinality(Pile("table", F)) /\ b = Cardinality(Pile("table", G))
          /\ c = Cardinality(Pile("user", K)) /\ d = Cardinality(Pile("user", L))
    BY <1>7, <1>8
  <2>2. b - a + (d - c) = Weight(t)' + Weight(u)' - Weight(t) - Weight(u)
    BY <1>7, <1>8, <1>9, <1>10, <2>1
  <2>3. Weight(t)' \in Nat /\ Weight(u)' \in Nat /\ Weight(t) \in Nat /\ Weight(u) \in Nat
    BY <1>9, <1>10
  <2>4. free' + Weight(t)' + Weight(u)' + Loose' = free + Weight(t) + Weight(u) + Loose
    OBVIOUS
  <2>5. Cardinality(Used) = a + c + Loose /\ Cardinality(Used') = b + d + Loose'
    BY <1>11, <2>1
  <2>6. free' \in Int /\ free \in Int /\ Loose \in Int /\ Loose' \in Int
    BY <1>1, <1>11
  <2>7. a \in Int /\ b \in Int /\ c \in Int /\ d \in Int
    OBVIOUS
  <2>8. PICK w \in Int, x \in Int : w = Weight(t) + Weight(u) /\ x = Weight(t)' + Weight(u)'
    BY <2>3
  <2>9. PICK f \in Int, g \in Int, l \in Int, m \in Int : f = free /\ g = free' /\ l = Loose /\ m = Loose'
    BY <2>6
  <2>10. g + x + m = f + w + l
    BY <2>3, <2>4, <2>8, <2>9
  <2>11. b - a + (d - c) = x - w
    BY <2>2, <2>3, <2>8
  <2>12. g + (b + d + m) = f + (a + c + l)
    BY <2>10, <2>11
  <2> QED BY <2>5, <2>9, <2>12
<1> QED BY <1>12, <1>13 DEF PagesCounted

LEMMA CountOne ==
  ASSUME IInv, TabsFinite', NEW t \in Table,
         \A s \in Table \ {t} : space'[s] = space[s], free' \in Int,
         free' + Weight(t)' + Loose' = free + Weight(t) + Loose
  PROVE  PagesCounted'
<1>1. PICK u \in Table : u # t
  <2>1. 1 \in Table /\ 2 \in Table
    BY ConstFacts DEF Table
  <2> QED BY <2>1
<1>2. Weight(u)' = Weight(u) /\ \A s \in Table \ {t, u} : space'[s] = space[s]
  BY <1>1 DEF Weight, User
<1>3. TabsFinite /\ free \in Nat
  BY DEF IInv, Counted, TabsFinite
<1>4. Weight(t) \in Nat /\ Weight(u) \in Nat
  BY <1>3, WeightFacts DEF TabsFinite
<1>5. Weight(t)' \in Nat /\ Loose \in Nat /\ Loose' \in Nat
  <2>1. Cardinality(space'[t].tabs) \in Nat /\ Cardinality(User(t)') \in Nat
    BY FiniteFacts, FS_CardinalityType, FS_Subset DEF TabsFinite, User
  <2>2. Summed /\ Summed'
    BY <1>3, UsedSum, UsedSumNext
  <2> QED BY <2>1, <2>2 DEF Weight, Summed, Loose
<1>6. free' + Weight(t)' + Weight(u)' + Loose' = free + Weight(t) + Weight(u) + Loose
  BY <1>2, <1>3, <1>4, <1>5
<1> QED BY <1>1, <1>2, <1>6, CountTwo

\* As long as a thread is about to map a page, there is room for it in the
\* address space: there are fewer pages than that.
LEMMA RoomLeft ==
  ASSUME IInv, NEW t \in Table, NEW p \in Slot, th[p].mem = 1
  PROVE  Cardinality(User(t)) \in Nat /\ Cardinality(User(t)) < USYSCALL
<1>1. TabsFinite /\ PagesCounted /\ free \in Nat
  BY DEF IInv, Counted, TabsFinite
<1>2. Summed
  BY <1>1, UsedSum
<1>3. IsFiniteSet(HasMem) /\ HasMem # {}
  BY FiniteFacts DEF HasMem
<1>4. Cardinality(HasMem) # 0
  BY <1>3, FS_EmptySet
<1>5. \A s \in Table : IsFiniteSet(TabSets[s]) /\ IsFiniteSet(UserSets[s])
  BY <1>1, FiniteFacts DEF TabsFinite, TabSets, UserSets
<1>6. Cardinality(Pile("table", TabSets)) \in Nat /\ IsFiniteSet(Pile("user", UserSets))
  BY <1>5, PileFinite, FS_CardinalityType
<1>7. Cardinality(User(t)) \in Nat /\ Cardinality(User(t)) <= Cardinality(Pile("user", UserSets))
  <2>1. Tagged("user", t, User(t)) \in SUBSET Pile("user", UserSets)
    BY DEF Pile, UserSets
  <2>2. Cardinality(Tagged("user", t, User(t))) = Cardinality(User(t))
    BY FiniteFacts, TagCard2
  <2> QED BY <1>6, <2>1, <2>2, FS_Subset, FiniteFacts, FS_CardinalityType
<1>8. Cardinality(Pile("user", UserSets)) \in Nat
  BY <1>6, FS_CardinalityType
<1> QED BY <1>1, <1>2, <1>4, <1>6, <1>7, <1>8, ConstFacts DEF Summed, PagesCounted

LEMMA CountSame ==
  ASSUME IInv, UNCHANGED <<free, space>>, UNCHANGED <<HasFrame, HasCall, HasMem>>
  PROVE  Counted'
<1>1. TabsFinite' /\ free' \in Nat /\ free' \in Int
  BY DEF IInv, Counted, TabsFinite
<1>2. PICK t : t \in Table
  BY TableFacts, ConstFacts DEF Slot
<1>3. Weight(t)' = Weight(t) /\ Loose' = Loose
  BY DEF Weight, User, Loose
<1>4. PagesCounted'
  BY <1>1, <1>2, <1>3, CountOne
<1> QED BY <1>1, <1>4 DEF Counted, TabsFinite

----------------------------------------------------------------------------
(* A step of one thread that leaves struct proc alone                      *)

LEMMA ShapeCount ==
  ASSUME NEW t \in TableType, NEW q \in Slot, NEW M \in SUBSET Maps, NEW n \in Nat, Shape(t, q, M, n)
  PROVE  Cardinality({v \in Va : t.leaf[v].page = "user"}) = n
<1>1. {v \in Va : t.leaf[v].page = "user"} = 0..(n - 1)
  BY ShapeFacts
<1>2. Cardinality(0..(n - 1)) = n
  <2>1. Cardinality(0..(n - 1)) = IF 0 > n - 1 THEN 0 ELSE (n - 1) - 0 + 1
    BY FS_Interval
  <2> QED BY <2>1
<1> QED BY <1>1, <1>2

LEMMA OwnerKept ==
  ASSUME NEW p \in Slot, Owner(p), proc'[p] = proc[p], space'[p] = space[p],
         \/ th[p].ret # "growproc" /\ th'[p].ret # "growproc"
         \/ th'[p].ret = th[p].ret /\ th'[p].va = th[p].va
  PROVE  Owner(p)'
  BY DEF Owner, Size

LEMMA ThreadEffect ==
  ASSUME IInv, NEW p \in Slot, NEW x \in ThRec, th' = [th EXCEPT ![p] = x]
  PROVE  /\ th'[p] = x /\ \A r \in Slot \ {p} : th'[r] = th[r]
         /\ ThType' /\ th[p] \in ThRec /\ Cardinality(HasMem) \in Nat
         /\ Cardinality(HasMem') = Cardinality(HasMem) - th[p].mem + x.mem
<1>1. /\ th'[p] = x /\ \A r \in Slot \ {p} : th'[r] = th[r]
      /\ ThType' /\ th[p] \in ThRec
  BY DEF IInv, Types, ThType
<1>2. IsFiniteSet(HasMem) /\ Cardinality(HasMem) \in Nat
  BY FiniteFacts, FS_CardinalityType
<1>3. x.mem \in {0, 1} /\ th[p].mem \in {0, 1}
  BY <1>1 DEF ThRec
<1>4. CASE x.mem = th[p].mem
  <2>1. HasMem' = HasMem
    BY <1>1, <1>4 DEF HasMem
  <2> QED BY <1>1, <1>2, <1>3, <1>4, <2>1
<1>5. CASE x.mem = 1 /\ th[p].mem = 0
  <2>1. HasMem' = HasMem \cup {p} /\ p \notin HasMem
    BY <1>1, <1>5 DEF HasMem
  <2>2. Cardinality(HasMem') = Cardinality(HasMem) + 1
    BY <1>2, <2>1, FS_AddElement
  <2> QED BY <1>1, <1>2, <1>5, <2>2
<1>6. CASE x.mem = 0 /\ th[p].mem = 1
  <2>1. HasMem' = HasMem \ {p} /\ p \in HasMem
    BY <1>1, <1>6 DEF HasMem
  <2>2. Cardinality(HasMem') = Cardinality(HasMem) - 1
    BY <1>2, <2>1, FS_RemoveElement
  <2> QED BY <1>1, <1>2, <1>6, <2>2
<1> QED BY <1>3, <1>4, <1>5, <1>6

LEMMA KidOwn ==
  ASSUME IInv, NEW p \in Slot
  PROVE  /\ th[p].np \in Slot \cup {NULL}
         /\ th[p].np # NULL => \A r \in Slot \ {p} : th[r].np # th[p].np
  BY DEF IInv, Types, ThType, ThRec, Unshared

LEMMA ThreadStep ==
  ASSUME IInv, NEW p \in Slot, proc[p].state = "LIVE", UNCHANGED proc,
         NEW x \in ThRec, th' = [th EXCEPT ![p] = x], x.np \in {th[p].np, NULL},
         th[p].np # NULL => proc[th[p].np].state = "USED",
         SpaceType', NEW t \in Table, t \in {p, th[p].np, New(p)},
         \A s \in Table \ {t} : space'[s] = space[s],
         IsFiniteSet(space'[t].tabs), free' \in Nat,
         free' + Weight(t)' + x.mem = free + Weight(t) + th[p].mem,
         Owner(p)', Single(p)', Forks(p)', Grows(p)', Execs(p)', NoPanic'
  PROVE  IInv'
<1>1. /\ th'[p] = x /\ \A r \in Slot \ {p} : th'[r] = th[r]
      /\ ThType' /\ Cardinality(HasMem) \in Nat /\ th[p] \in ThRec
      /\ Cardinality(HasMem') = Cardinality(HasMem) - th[p].mem + x.mem
  BY ThreadEffect
<1>2. Types'
  BY <1>1 DEF IInv, Types, ProcType
<1>3. TabsFinite /\ free \in Nat /\ PagesCounted
  BY DEF IInv, Counted, TabsFinite
<1>4. TabsFinite'
  BY <1>3 DEF TabsFinite
<1>5. Counted'
  <2>1. HasFrame' = HasFrame /\ HasCall' = HasCall
    BY DEF HasFrame, HasCall
  <2>2. Cardinality(HasFrame) \in Nat /\ Cardinality(HasCall) \in Nat
    BY FiniteFacts, FS_CardinalityType
  <2>3. Weight(t) \in Nat /\ Weight(t)' \in Nat
    <3>1. Cardinality(space'[t].tabs) \in Nat /\ Cardinality(User(t)') \in Nat
      BY FiniteFacts, FS_CardinalityType, FS_Subset DEF User
    <3> QED BY <1>3, <3>1, WeightFacts DEF TabsFinite, Weight
  <2>5. th[p].mem \in Int /\ x.mem \in Int
    BY <1>1 DEF ThRec
  <2>9. Loose \in Int /\ Loose' \in Int
    BY <1>1, <2>1, <2>2, <2>5 DEF Loose
  <2>4. PICK a \in Int, b \in Int, c \in Int, d \in Int :
          a = Weight(t) /\ b = Weight(t)' /\ c = Loose /\ d = Loose'
    BY <2>3, <2>9
  <2>6. d - c = x.mem - th[p].mem
    BY <1>1, <2>1, <2>2, <2>4, <2>5 DEF Loose
  <2>7. free' + b + d = free + a + c
    BY <1>3, <2>4, <2>5, <2>6
  <2>8. PagesCounted'
    BY <1>4, <2>4, <2>7, CountOne
  <2> QED BY <1>4, <2>8 DEF Counted, TabsFinite
<1>6. Local(p)'
  BY DEF Local, Empty
<1>7. ASSUME NEW q \in Slot, q = th[p].np PROVE Local(q)'
  <2>1. q # p /\ proc[q].state = "USED" /\ proc[q].state # "LIVE" /\ Local(q)
    BY <1>7, TableFacts DEF IInv, NULL
  <2>2. New(q) \in Table /\ New(q) # t
    BY <1>7, <2>1, TableFacts DEF NULL
  <2>3. th'[q] = th[q] /\ proc'[q].state = "USED" /\ space'[New(q)] = space[New(q)]
    BY <1>1, <2>1, <2>2
  <2> QED BY <2>1, <2>3, Kid
<1>8. (\A r \in Slot : Local(r))' /\ Unshared'
  <2>1. PICK q \in Slot \cup {NULL} : q = th[p].np /\ (q # NULL => \A r \in Slot \ {p} : th[r].np # q)
    BY KidOwn
  <2>2. /\ \A r \in Slot \ {p, q} : proc'[r] = proc[r]
        /\ \A s \in Table \ {p, q, New(p)} : space'[s] = space[s]
        /\ th'[p].np \in {q, NULL}
    BY <1>1, <2>1
  <2>3. q # NULL => Local(q)'
    BY <1>7, <2>1
  <2> QED BY <1>1, <1>6, <2>1, <2>2, <2>3, Others
<1> QED BY <1>2, <1>5, <1>8 DEF IInv

----------------------------------------------------------------------------
(* The steps of fork up to the copy of the memory                          *)

LEMMA UnusedFacts ==
  ASSUME IInv, Unused # {}
  PROVE  LET q == CHOOSE q \in Unused : \A r \in Unused : q <= r
         IN  q \in Slot /\ proc[q].state = "UNUSED" /\ \A r \in Slot : th[r].np # q
<1>1. \E q \in Unused : \A r \in Unused : q <= r
  <2>1. Unused \in SUBSET Nat
    BY DEF Unused, Slot
  <2> QED BY <2>1, Least
<1> DEFINE q == CHOOSE q \in Unused : \A r \in Unused : q <= r
<1>2. q \in Slot /\ proc[q].state = "UNUSED"
  BY <1>1 DEF Unused
<1> HIDE DEF q
<1>3. \A r \in Slot : th[r].np # q
  BY <1>2, KidFacts, TableFacts DEF NULL
<1> QED BY <1>2, <1>3 DEF q

LEMMA ForkStep ==
  ASSUME IInv, NEW p \in Slot, fork(p)
  PROVE  IInv'
<1>1. PICK q \in Slot, x \in Pids :
        /\ proc[q].state = "UNUSED" /\ \A r \in Slot : th[r].np # q
        /\ proc' = [proc EXCEPT ![q] = [proc[q] EXCEPT !.state = "USED", !.pid = x]]
        /\ th' = [th EXCEPT ![p] = [th[p] EXCEPT !.np = q, !.pc = "trapframe"]]
  <2>1. PICK q \in Slot : /\ proc[q].state = "UNUSED" /\ \A r \in Slot : th[r].np # q
                          /\ \E x \in Pids : proc' = [proc EXCEPT ![q].state = "USED", ![q].pid = x]
                          /\ th' = [th EXCEPT ![p].np = q, ![p].pc = "trapframe"]
    BY UnusedFacts DEF fork
  <2>2. proc \in [Slot -> ProcRec] /\ th \in [Slot -> ThRec]
    BY DEF IInv, Types, ProcType, ThType
  <2> QED BY <2>1, <2>2, ZenonT(30)
<1>2. /\ At(p, "user") /\ UNCHANGED <<free, space, panic>> /\ q # p
  BY <1>1 DEF fork, memory, At
<1>3. /\ SpaceType /\ ProcType /\ ThType /\ proc[q] \in ProcRec /\ th[p] \in ThRec
  BY DEF IInv, Types, ProcType, ThType
<1>4. Types'
  <2>1. [proc[q] EXCEPT !.state = "USED", !.pid = x] \in ProcRec
    BY <1>3 DEF ProcRec
  <2>2. [th[p] EXCEPT !.np = q, !.pc = "trapframe"] \in ThRec
    BY <1>3 DEF ThRec, Pc
  <2> QED BY <1>1, <1>2, <1>3, <2>1, <2>2 DEF Types, SpaceType, ProcType, ThType
<1>5. th[p] = Idle /\ Local(p) /\ Local(q)
  BY <1>2 DEF IInv, Local, Single, At
<1>6. /\ th'[p] = [Idle EXCEPT !.np = q, !.pc = "trapframe"] /\ \A r \in Slot \ {p} : th'[r] = th[r]
      /\ \A r \in Slot \ {q} : proc'[r] = proc[r]
      /\ proc'[q] = [proc[q] EXCEPT !.state = "USED", !.pid = x]
  BY <1>1, <1>3, <1>5 DEF ProcType, ThType
<1>7. /\ proc'[q].state = "USED" /\ proc'[q].sz = proc[q].sz
      /\ proc'[q].trapframe = proc[q].trapframe /\ proc'[q].usyscall = proc[q].usyscall
  BY <1>3, <1>6 DEF ProcRec
<1>8. /\ th'[p].np = q /\ th'[p].pc = "trapframe" /\ th'[p].ret = "none" /\ th'[p].mem = 0
      /\ proc'[p] = proc[p] /\ proc[p].state = "LIVE" /\ space' = space /\ th[p].ret = "none"
      /\ th[p].mem = 0
  BY <1>2, <1>5, <1>6 DEF Idle, At
<1>9. Local(p)'
  <2>2. Owner(p)' /\ Empty(p)'
    BY <1>5, <1>8 DEF Local, Owner, Empty, Size
  <2>3. Single(p)'
    BY <1>5, <1>8 DEF Local, Single, Idle
  <2>4. Forks(p)'
    BY <1>1, <1>2, <1>5, <1>7, <1>8 DEF Local, Empty, Forks
  <2>5. Grows(p)' /\ Execs(p)'
    BY <1>8, TableFacts DEF Grows, Execs, NULL
  <2> QED BY <2>2, <2>3, <2>4, <2>5 DEF Local
<1>10. Local(q)'
  BY <1>1, <1>2, <1>5, <1>6, <1>7, Kid
<1>11. (\A r \in Slot : Local(r))' /\ Unshared'
  <2>1. /\ \A r \in Slot \ {p, q} : proc'[r] = proc[r]
        /\ \A r \in Slot \ {p} : th'[r] = th[r] /\ th[r].np # q
        /\ \A t \in Table \ {p, q, New(p)} : space'[t] = space[t]
        /\ th'[p].np = q /\ proc[p].state = "LIVE"
    BY <1>1, <1>2, <1>6, <1>8
  <2> QED BY <1>9, <1>10, <2>1, Others
<1>12. Counted'
  <2>1. UNCHANGED <<HasFrame, HasCall>>
    BY <1>6, <1>7 DEF HasFrame, HasCall
  <2>2. UNCHANGED HasMem
    <3>1. \A r \in Slot : th'[r].mem = th[r].mem
      BY <1>6, <1>8, ZenonT(30)
    <3> QED BY <3>1 DEF HasMem
  <2> QED BY <1>2, <2>1, <2>2, CountSame
<1> QED BY <1>2, <1>4, <1>11, <1>12 DEF IInv, NoPanic

----------------------------------------------------------------------------
(* What the operations on a table do to it and to the free pages           *)

TabWeight(x) == Cardinality(x.tabs) + Cardinality({v \in Va : x.leaf[v].page = "user"})

LEMMA WeightIs ==
  ASSUME NEW t
  PROVE  Weight(t) = TabWeight(space[t]) /\ Weight(t)' = TabWeight(space'[t])
  BY DEF Weight, TabWeight, User

LEMMA WeightNew ==
  /\ TabWeight(NoTable) = 0 /\ TabWeight(Root) = 1
  /\ IsFiniteSet(NoTable.tabs) /\ IsFiniteSet(Root.tabs)
<1>1. /\ NoTable.tabs = {} /\ Root.tabs = {<<>>}
      /\ {v \in Va : NoTable.leaf[v].page = "user"} = {} /\ {v \in Va : Root.leaf[v].page = "user"} = {}
  BY DEF NoTable, Root, NoPte, Pte
<1>2. Cardinality({}) = 0 /\ IsFiniteSet({}) /\ Cardinality({<<>>}) = 1 /\ IsFiniteSet({<<>>})
  BY FS_EmptySet, FS_Singleton
<1>3. TabWeight(NoTable) = 0 + 0 /\ TabWeight(Root) = 1 + 0
  BY <1>1, <1>2, Zenon DEF TabWeight
<1> QED BY <1>1, <1>2, <1>3

LEMMA TabFacts ==
  ASSUME IInv, NEW t \in Table
  PROVE  /\ space[t] \in TableType /\ IsFiniteSet(space[t].tabs) /\ free \in Nat
         /\ Weight(t) \in Nat /\ Cardinality(space[t].tabs) \in Nat
<1>1. space[t] \in TableType /\ IsFiniteSet(space[t].tabs) /\ free \in Nat
  BY DEF IInv, Types, SpaceType, Counted
<1> QED BY <1>1, WeightFacts

\* Where the thread and the process are.
LEMMA ThFacts ==
  ASSUME IInv, NEW p \in Slot
  PROVE  /\ th[p] \in ThRec /\ proc[p] \in ProcRec /\ Local(p)
         /\ th \in [Slot -> ThRec] /\ proc \in [Slot -> ProcRec] /\ space \in [Table -> TableType]
         /\ p \in Table /\ New(p) \in Table /\ p # New(p) /\ p # NULL /\ New(p) # NULL
<1>1. /\ th[p] \in ThRec /\ proc[p] \in ProcRec /\ Local(p)
      /\ th \in [Slot -> ThRec] /\ proc \in [Slot -> ProcRec] /\ space \in [Table -> TableType]
  BY DEF IInv, Types, ThType, ProcType, SpaceType
<1> QED BY <1>1, TableFacts DEF NULL

LEMMA WalkEffect ==
  ASSUME IInv, NEW t \in Table, NEW v \in Va, WalkAlloc(t, v)
  PROVE  /\ SpaceType' /\ \A s \in Table \ {t} : space'[s] = space[s]
         /\ space'[t].leaf = space[t].leaf /\ space[t].tabs \subseteq space'[t].tabs
         /\ IsFiniteSet(space'[t].tabs) /\ NoPanic'
         /\ free' \in Nat /\ free' + Weight(t)' = free + Weight(t)
<1> DEFINE x == NextTab(t, v)
<1>1. x \in Path(v) \ space[t].tabs
  BY NextTabFacts DEF WalkAlloc, IInv
<1>2. x \in Seq(Nat)
  BY <1>1, PathFacts
<1> HIDE DEF x
<1>3. space \in [Table -> TableType] /\ space[t] \in TableType
  BY DEF IInv, Types, SpaceType
<1>4. space' = [space EXCEPT ![t] = [space[t] EXCEPT !.tabs = space[t].tabs \cup {x}]]
  BY <1>3 DEF WalkAlloc, x
<1>5. /\ space'[t] = [space[t] EXCEPT !.tabs = space[t].tabs \cup {x}]
      /\ \A s \in Table \ {t} : space'[s] = space[s]
  BY <1>3, <1>4
<1>6. space'[t].leaf = space[t].leaf /\ space'[t].tabs = space[t].tabs \cup {x}
  BY <1>3, <1>5 DEF TableType
<1>7. [space[t] EXCEPT !.tabs = space[t].tabs \cup {x}] \in TableType
  BY <1>2, <1>3 DEF TableType
<1>8. SpaceType'
  BY <1>3, <1>4, <1>7 DEF SpaceType
<1>9. /\ IsFiniteSet(space[t].tabs) /\ Cardinality(space[t].tabs) \in Nat
      /\ Cardinality(User(t)) \in Nat /\ free \in Nat
  BY TabFacts, FiniteFacts, FS_CardinalityType
<1>10. /\ IsFiniteSet(space'[t].tabs)
       /\ Cardinality(space'[t].tabs) = Cardinality(space[t].tabs) + 1
  <2>1. x \notin space[t].tabs
    BY <1>1
  <2>2. /\ IsFiniteSet(space[t].tabs \cup {x})
        /\ Cardinality(space[t].tabs \cup {x}) = Cardinality(space[t].tabs) + 1
    BY <1>9, <2>1, FS_AddElement, Zenon
  <2> QED BY <1>6, <2>2
<1>11. User(t)' = User(t)
  BY <1>6 DEF User
<1>12. free > 0 /\ free' = free - 1 /\ NoPanic'
  BY DEF WalkAlloc, IInv, NoPanic
<1> QED BY <1>5, <1>6, <1>8, <1>9, <1>10, <1>11, <1>12 DEF Weight

LEMMA MapEffect ==
  ASSUME IInv, NEW t \in Table, NEW v \in Va, NEW e \in PteType, mappages(t, v, e),
         space[t].leaf[v] = NoPte
  PROVE  /\ SpaceType' /\ \A s \in Table \ {t} : space'[s] = space[s]
         /\ space'[t].tabs = space[t].tabs /\ space'[t].leaf = [space[t].leaf EXCEPT ![v] = e]
         /\ Path(v) \subseteq space[t].tabs /\ IsFiniteSet(space'[t].tabs) /\ NoPanic'
         /\ free' = free /\ free' \in Nat
         /\ Weight(t)' = Weight(t) + (IF e.page = "user" THEN 1 ELSE 0)
<1>1. space \in [Table -> TableType] /\ space[t] \in TableType
  BY DEF IInv, Types, SpaceType
<1>2. space' = [space EXCEPT ![t] = [space[t] EXCEPT !.leaf = [space[t].leaf EXCEPT ![v] = e]]]
  BY <1>1 DEF mappages
<1>3. /\ space'[t] = [space[t] EXCEPT !.leaf = [space[t].leaf EXCEPT ![v] = e]]
      /\ \A s \in Table \ {t} : space'[s] = space[s]
  BY <1>1, <1>2
<1>4. space'[t].tabs = space[t].tabs /\ space'[t].leaf = [space[t].leaf EXCEPT ![v] = e]
  BY <1>1, <1>3 DEF TableType
<1>5. [space[t] EXCEPT !.leaf = [space[t].leaf EXCEPT ![v] = e]] \in TableType
  BY <1>1 DEF TableType
<1>6. SpaceType'
  BY <1>1, <1>2, <1>5 DEF SpaceType
<1>7. Path(v) \subseteq space[t].tabs /\ free' = free /\ NoPanic'
  BY DEF mappages, Missing, Mapped, NoPanic
<1>8. /\ IsFiniteSet(space[t].tabs) /\ Cardinality(space[t].tabs) \in Nat /\ IsFiniteSet(User(t))
      /\ Cardinality(User(t)) \in Nat /\ free \in Nat
  BY TabFacts, FiniteFacts, FS_CardinalityType
<1>9. v \notin User(t)
  BY DEF User, NoPte, Pte
<1>10. space[t].leaf \in [Va -> PteType]
  BY <1>1 DEF TableType
<1>11. User(t)' = IF e.page = "user" THEN User(t) \cup {v} ELSE User(t)
  BY <1>4, <1>9, <1>10 DEF User
<1>12. Cardinality(User(t)') = Cardinality(User(t)) + (IF e.page = "user" THEN 1 ELSE 0)
  <2>1. Cardinality(User(t) \cup {v}) = Cardinality(User(t)) + 1
    BY <1>8, <1>9, FS_AddElement, Zenon
  <2> QED BY <1>8, <1>11, <2>1
<1> QED BY <1>3, <1>4, <1>6, <1>7, <1>8, <1>12 DEF Weight

LEMMA FreeEffect ==
  ASSUME IInv, NEW t \in Table, NEW q \in Slot, NEW M \in SUBSET Maps, NEW k \in Nat, NEW n \in Nat,
         Shape(space[t], q, M, k), uvmfree(t, M, k, n)
  PROVE  NoPanic' /\ free' \in Nat /\ free' = free + Weight(t) + n
<1>1. space[t] \in TableType /\ Cardinality(space[t].tabs) \in Nat /\ free \in Nat
  BY TabFacts
<1>2. Mapped(t) = M \cup 0..(k - 1)
  BY <1>1, ShapeFacts DEF Mapped
<1>3. Cardinality(User(t)) = k
  BY <1>1, ShapeCount DEF User
<1>4. NoPanic'
  BY <1>2 DEF uvmfree, NoPanic
<1>5. free' = free + Cardinality(space[t].tabs) + k + n
  BY DEF uvmfree, freewalk
<1> QED BY <1>1, <1>3, <1>4, <1>5 DEF Weight

LEMMA WithoutEffect ==
  ASSUME IInv, NEW t \in Table, space' = Without(t)
  PROVE  /\ SpaceType' /\ \A s \in Table \ {t} : space'[s] = space[s]
         /\ space'[t] = NoTable /\ IsFiniteSet(space'[t].tabs) /\ Weight(t)' = 0
<1>1. space \in [Table -> TableType]
  BY DEF IInv, Types, SpaceType
<1>2. \A s \in Table \ {t} : space'[s] = space[s]
  BY <1>1 DEF Without
<1>3. space'[t] = NoTable
  BY <1>1 DEF Without
<1>4. SpaceType'
  BY <1>1, ShapeRoot DEF Without, SpaceType
<1> QED BY <1>2, <1>3, <1>4, WeightNew, WeightIs

LEMMA CutEffect ==
  ASSUME IInv, NEW t \in Table, NEW q \in Slot, NEW m \in Nat, NEW n \in Nat, NEW k \in Nat,
         Shape(space[t], q, Maps, n), m <= n, uvmunmap(t, m..(n - 1), k)
  PROVE  /\ SpaceType' /\ \A s \in Table \ {t} : space'[s] = space[s]
         /\ Shape(space'[t], q, Maps, m) /\ IsFiniteSet(space'[t].tabs) /\ NoPanic'
         /\ \A v \in Va : space'[t].leaf[v] \in {NoPte, space[t].leaf[v]}
         /\ free' \in Nat /\ free' + Weight(t)' = free + Weight(t) + k
<1> DEFINE l == [v \in Va |-> IF v \in m..(n - 1) THEN NoPte ELSE space[t].leaf[v]]
<1>1. space \in [Table -> TableType] /\ space[t] \in TableType
  BY DEF IInv, Types, SpaceType
<1>2. space' = [space EXCEPT ![t] = [space[t] EXCEPT !.leaf = l]]
  BY <1>1 DEF uvmunmap
<1>3. l \in [Va -> PteType] /\ \A v \in Va : l[v] \in {NoPte, space[t].leaf[v]}
  BY <1>1 DEF TableType, NoPte, Pte, PteType, Page
<1>4. \A u \in TableType : u.tabs = space[t].tabs /\ u.leaf = l => Shape(u, q, Maps, m)
  BY <1>1, ShapeCut
<1> HIDE DEF l
<1>5. /\ space'[t] = [space[t] EXCEPT !.leaf = l]
      /\ \A s \in Table \ {t} : space'[s] = space[s]
  BY <1>1, <1>2
<1>6. space'[t].tabs = space[t].tabs /\ space'[t].leaf = l
  BY <1>1, <1>5 DEF TableType
<1>7. [space[t] EXCEPT !.leaf = l] \in TableType
  BY <1>1, <1>3 DEF TableType
<1>8. SpaceType' /\ space'[t] \in TableType
  BY <1>1, <1>2, <1>5, <1>7 DEF SpaceType
<1>9. Shape(space'[t], q, Maps, m)
  BY <1>4, <1>6, <1>8
<1>10. m..(n - 1) \subseteq Mapped(t)
  <2>1. Mapped(t) = Maps \cup 0..(n - 1)
    BY <1>1, ShapeFacts DEF Mapped
  <2>2. m..(n - 1) \subseteq 0..(n - 1)
    OBVIOUS
  <2> QED BY <2>1, <2>2
<1>11. Cardinality(m..(n - 1)) = n - m
  <2>1. Cardinality(m..(n - 1)) = IF m > n - 1 THEN 0 ELSE (n - 1) - m + 1
    BY FS_Interval
  <2> QED BY <2>1
<1>12. free' = free + (n - m) + k /\ NoPanic'
  BY <1>10, <1>11 DEF uvmunmap, NoPanic
<1>13. Cardinality(User(t)) = n /\ Cardinality(User(t)') = m
  BY <1>1, <1>8, <1>9, ShapeCount DEF User
<1>14. free \in Nat /\ Cardinality(space[t].tabs) \in Nat /\ IsFiniteSet(space'[t].tabs)
  BY <1>6, TabFacts
<1> QED BY <1>3, <1>5, <1>6, <1>8, <1>9, <1>12, <1>13, <1>14 DEF Weight

\* The same as one predicate, for the steps that use it.
CutTo(t, q, m, k) ==
  /\ SpaceType' /\ \A s \in Table \ {t} : space'[s] = space[s]
  /\ Shape(space'[t], q, Maps, m) /\ IsFiniteSet(space'[t].tabs) /\ NoPanic'
  /\ \A v \in Va : space'[t].leaf[v] \in {NoPte, space[t].leaf[v]}
  /\ free' \in Nat /\ free' + Weight(t)' = free + Weight(t) + k

LEMMA CutOff ==
  ASSUME IInv, NEW t \in Table, NEW q \in Slot, NEW m \in Nat, NEW n \in Nat, NEW k \in Nat,
         Shape(space[t], q, Maps, n), m <= n, uvmunmap(t, m..(n - 1), k)
  PROVE  CutTo(t, q, m, k)
BY CutEffect DEF CutTo

----------------------------------------------------------------------------
(* proc_pagetable                                                          *)

LEMMA KidUsed ==
  ASSUME IInv, NEW p \in Slot, th[p].np # NULL, th[p].pc # "freeproc"
  PROVE  /\ th[p].np \in Slot /\ th[p].np \in Table /\ th[p].np # p /\ th[p].np # New(p)
         /\ proc[th[p].np].state = "USED"
<1>1. th[p].np \in Slot /\ th[p].np # p /\ proc[th[p].np].state = "USED"
  BY KidFacts, ThFacts DEF Local, Forks
<1> QED BY <1>1, TableFacts

LEMMA TargetFacts ==
  ASSUME IInv, NEW p \in Slot, th[p].np # NULL => th[p].pc # "freeproc"
  PROVE  /\ Target(p) \in Table /\ Target(p) # p /\ Target(p) \in {p, th[p].np, New(p)}
         /\ For(p) \in Slot
         /\ th[p].np # NULL => /\ Target(p) = th[p].np /\ For(p) = th[p].np /\ Failed(p) = "freeproc"
                               /\ Target(p) # New(p) /\ Forking(p)
         /\ th[p].np = NULL => Target(p) = New(p) /\ For(p) = p /\ Failed(p) = "bad" /\ ~Forking(p)
  BY KidUsed, ThFacts DEF Target, For, Failed, Forking

LEMMA AboveFacts ==
  /\ Above(TRAMPOLINE) = {} /\ TRAMPOLINE \in Maps /\ TRAMPOLINE \in Nat
  /\ \A v : Above(v) \subseteq Maps
  BY ConstFacts DEF Above, Maps

LEMMA CreateStep ==
  ASSUME IInv, NEW p \in Slot, uvmcreate(p)
  PROVE  IInv'
<1>1. /\ proc[p].state = "LIVE" /\ th[p].pc = "create" /\ UNCHANGED proc /\ NoPanic'
  BY DEF uvmcreate, At, IInv, NoPanic
<1>2. th[p].np # NULL => proc[th[p].np].state = "USED"
  BY <1>1, KidUsed
<1>3. PICK t \in Table :
        /\ t = Target(p) /\ t # p /\ t \in {p, th[p].np, New(p)}
        /\ th[p].np # NULL => t = th[p].np /\ Failed(p) = "freeproc" /\ t # New(p)
        /\ th[p].np = NULL => t = New(p) /\ Failed(p) = "bad"
  BY <1>1, TargetFacts
<1>4. /\ th[p] \in ThRec /\ Local(p) /\ th \in [Slot -> ThRec] /\ space \in [Table -> TableType]
      /\ p \in Table /\ New(p) \in Table /\ p # New(p)
  BY ThFacts
<1>5. space[t] = NoTable /\ Weight(t) = 0 /\ free \in Nat
  <2>1. space[t] = NoTable
    BY <1>1, <1>3, <1>4 DEF Local, Forks, Single
  <2> QED BY <2>1, WeightNew, WeightIs, TabFacts
<1>6. th[p].ret # "growproc" /\ th[p].mem = 0
  BY <1>1, <1>4 DEF Local, Single, ThRec
<1>7. CASE free > 0 /\ free' = free - 1 /\ space' = [space EXCEPT ![t] = Root]
           /\ th' = [th EXCEPT ![p] = [th[p] EXCEPT !.pt = t, !.va = TRAMPOLINE, !.pc = "maps"]]
  <2> DEFINE x == [th[p] EXCEPT !.pt = t, !.va = TRAMPOLINE, !.pc = "maps"]
  <2>1. x \in ThRec
    BY <1>4, AboveFacts DEF ThRec, Pc
  <2>2. /\ th'[p].pt = t /\ th'[p].va = TRAMPOLINE /\ th'[p].pc = "maps" /\ th'[p].np = th[p].np
        /\ th'[p].ret = th[p].ret /\ th'[p].mem = 0 /\ th'[p].sz = th[p].sz
        /\ x.np = th[p].np /\ x.mem = 0
    BY <1>4, <1>6, <1>7 DEF ThRec
  <2>3. SpaceType' /\ (\A s \in Table \ {t} : space'[s] = space[s]) /\ space'[t] = Root
    BY <1>4, <1>7, ShapeRoot DEF SpaceType
  <2>4. IsFiniteSet(space'[t].tabs) /\ Weight(t)' = 1
    BY <2>3, WeightNew, WeightIs
  <2>5. free' \in Nat /\ free' + Weight(t)' + x.mem = free + Weight(t) + th[p].mem
    BY <1>5, <1>6, <1>7, <2>2, <2>4
  <2>6. Owner(p)'
    BY <1>1, <1>3, <1>4, <1>6, <2>2, <2>3, OwnerKept DEF Local
  <2>7. Single(p)'
    BY <1>1, <1>3, <1>4, <1>6, <2>2, <2>3 DEF Local, Single
  <2>8. Forks(p)'
    BY <1>1, <1>3, <1>4, <2>2, <2>3, ShapeRoot, AboveFacts DEF Local, Forks
  <2>9. Grows(p)' /\ Execs(p)'
    BY <1>1, <1>3, <1>4, <2>2, <2>3, ShapeRoot, AboveFacts DEF Local, Grows, Execs
  <2> HIDE DEF x
  <2> QED BY <1>1, <1>2, <1>3, <1>7, <2>1, <2>2, <2>3, <2>4, <2>5, <2>6, <2>7, <2>8, <2>9, ThreadStep DEF x
<1>8. CASE UNCHANGED <<free, space>> /\ th' = [th EXCEPT ![p] = [th[p] EXCEPT !.pc = Failed(p)]]
  <2> DEFINE x == [th[p] EXCEPT !.pc = Failed(p)]
  <2>1. x \in ThRec
    <3>1. Failed(p) \in Pc
      BY <1>3 DEF Pc
    <3> QED BY <1>4, <3>1 DEF ThRec
  <2>2. /\ th'[p].pt = th[p].pt /\ th'[p].pc = Failed(p) /\ th'[p].np = th[p].np
        /\ th'[p].ret = th[p].ret /\ th'[p].mem = 0 /\ th'[p].sz = th[p].sz
        /\ x.np = th[p].np /\ x.mem = 0
    BY <1>4, <1>6, <1>8 DEF ThRec
  <2>3. SpaceType' /\ (\A s \in Table \ {t} : space'[s] = space[s]) /\ space' = space
    BY <1>4, <1>8 DEF SpaceType
  <2>4. IsFiniteSet(space'[t].tabs) /\ Weight(t)' = Weight(t)
    BY <1>8, TabFacts, WeightIs
  <2>5. free' \in Nat /\ free' + Weight(t)' + x.mem = free + Weight(t) + th[p].mem
    BY <1>5, <1>6, <1>8, <2>2, <2>4
  <2>6. Owner(p)'
    BY <1>1, <1>3, <1>4, <1>6, <2>2, <2>3, OwnerKept DEF Local
  <2>7. Single(p)'
    BY <1>1, <1>3, <1>4, <1>6, <2>2, <2>3 DEF Local, Single
  <2>8. Forks(p)'
    BY <1>1, <1>3, <1>4, <2>2, <2>3 DEF Local, Forks
  <2>9. Grows(p)' /\ Execs(p)'
    BY <1>1, <1>3, <1>4, <1>5, <2>2, <2>3 DEF Local, Grows, Execs
  <2> HIDE DEF x
  <2> QED BY <1>1, <1>2, <1>3, <1>8, <2>1, <2>2, <2>3, <2>4, <2>5, <2>6, <2>7, <2>8, <2>9, ThreadStep DEF x
<1> QED BY <1>3, <1>4, <1>7, <1>8 DEF uvmcreate, Goto

\* walk allocates a table page: nothing else changes.
LEMMA WalkStep ==
  ASSUME IInv, NEW p \in Slot, proc[p].state = "LIVE", UNCHANGED <<proc, th>>,
         th[p].np # NULL => proc[th[p].np].state = "USED",
         NEW t \in Table, t \in {p, th[p].np, New(p)}, space[t] # NoTable,
         NEW v \in Va, WalkAlloc(t, v)
  PROVE  IInv'
<1>1. /\ SpaceType' /\ \A s \in Table \ {t} : space'[s] = space[s]
      /\ space'[t].leaf = space[t].leaf /\ space[t].tabs \subseteq space'[t].tabs
      /\ IsFiniteSet(space'[t].tabs) /\ NoPanic'
      /\ free' \in Nat /\ free' + Weight(t)' = free + Weight(t)
  BY WalkEffect
<1>2. /\ th[p] \in ThRec /\ Local(p) /\ th \in [Slot -> ThRec] /\ space \in [Table -> TableType]
      /\ p \in Table /\ New(p) \in Table /\ space[t] \in TableType
  BY ThFacts, TabFacts
<1>3. \A s \in Table : \A q, M, n : Shape(space[s], q, M, n) => Shape(space'[s], q, M, n)
  BY <1>1, <1>2, ShapeWalk
<1>4. \A s \in Table : space'[s].leaf = space[s].leaf /\ (space[s] = NoTable => space'[s] = NoTable)
  BY <1>1
<1>5. th[p].np # NULL => th[p].np \in Table
  BY <1>2, TableFacts DEF ThRec
<1>6. Owner(p)' /\ Single(p)'
  BY <1>2, <1>3, <1>4 DEF Local, Owner, Single, Size
<1>7. Forks(p)'
  BY <1>2, <1>3, <1>4, <1>5 DEF Local, Forks
<1>8. Grows(p)'
  BY <1>2, <1>3, <1>4 DEF Local, Grows
<1>9. Execs(p)'
  BY <1>2, <1>3, <1>4 DEF Local, Execs
<1>10. th' = [th EXCEPT ![p] = th[p]]
  BY <1>2
<1>11. free' + Weight(t)' + th[p].mem = free + Weight(t) + th[p].mem
  BY <1>1
<1> QED BY <1>1, <1>2, <1>6, <1>7, <1>8, <1>9, <1>10, <1>11, ThreadStep

\* The table of proc_pagetable, while it maps.
LEMMA MapsFacts ==
  ASSUME IInv, NEW p \in Slot, th[p].pc = "maps"
  PROVE  /\ th[p].pt = Target(p) /\ th[p].pt \in Table /\ th[p].va \in Maps /\ th[p].va \in Va
         /\ space[th[p].pt] # NoTable /\ space[th[p].pt] \in TableType
         /\ Shape(space[th[p].pt], For(p), Above(th[p].va), 0) /\ For(p) \in Slot
         /\ th[p].np # NULL => proc[th[p].np].state = "USED"
<1>1. Local(p) /\ th[p] \in ThRec
  BY ThFacts
<1>2. /\ For(p) \in Slot /\ Target(p) \in Table
      /\ th[p].np # NULL => Target(p) = th[p].np /\ For(p) = th[p].np
      /\ th[p].np = NULL => Target(p) = New(p) /\ For(p) = p
  BY TargetFacts
<1>3. /\ th[p].pt = Target(p) /\ th[p].va \in Maps
      /\ Shape(space[th[p].pt], For(p), Above(th[p].va), 0)
  BY <1>1, <1>2 DEF Local, Forks, Execs
<1>4. space[th[p].pt] # NoTable
  BY <1>3 DEF Shape, NoTable
<1>5. th[p].va \in Va
  BY <1>3, ConstFacts
<1> QED BY <1>2, <1>3, <1>4, <1>5, KidUsed, TabFacts

LEMMA MapWalkStep ==
  ASSUME IInv, NEW p \in Slot, MapWalk(p)
  PROVE  IInv'
<1>1. proc[p].state = "LIVE" /\ th[p].pc = "maps" /\ UNCHANGED <<proc, th>> /\ WalkAlloc(th[p].pt, th[p].va)
  BY DEF MapWalk, At
<1>2. th[p].pt \in {p, th[p].np, New(p)}
  BY <1>1, MapsFacts, TargetFacts
<1> QED BY <1>1, <1>2, MapsFacts, WalkStep

LEMMA MapOfFacts ==
  ASSUME NEW q \in Slot, NEW v \in Maps
  PROVE  MapOf(q, v) \in PteType /\ MapOf(q, v).page # "user"
  BY ConstFacts DEF MapOf, Maps, Pte, PteType, Page, NULL

LEMMA MapSetStep ==
  ASSUME IInv, NEW p \in Slot, MapSet(p)
  PROVE  IInv'
<1>1. /\ proc[p].state = "LIVE" /\ th[p].pc = "maps" /\ UNCHANGED proc
      /\ mappages(th[p].pt, th[p].va, MapOf(For(p), th[p].va))
  BY DEF MapSet, At
<1>2. PICK t \in Table, v \in Maps, q \in Slot :
        /\ t = th[p].pt /\ v = th[p].va /\ q = For(p) /\ v \in Va
        /\ t = Target(p) /\ t # p /\ t \in {p, th[p].np, New(p)}
        /\ space[t] \in TableType /\ Shape(space[t], q, Above(v), 0)
        /\ th[p].np # NULL => /\ t = th[p].np /\ t # New(p) /\ q = th[p].np /\ Forking(p)
                              /\ proc[th[p].np].state = "USED"
        /\ th[p].np = NULL => t = New(p) /\ q = p /\ ~Forking(p)
  BY <1>1, MapsFacts, TargetFacts
<1>3. /\ th[p] \in ThRec /\ Local(p) /\ th \in [Slot -> ThRec] /\ proc[p] \in ProcRec
      /\ p \in Table /\ New(p) \in Table /\ p # New(p)
  BY ThFacts
<1>4. MapOf(q, v) \in PteType /\ MapOf(q, v).page # "user"
  BY MapOfFacts
<1>5. space[t].leaf[v] = NoPte
  <2>1. v \notin Above(v) /\ ~(v < 0)
    BY <1>2, ConstFacts DEF Above
  <2> QED BY <1>2, <2>1 DEF Shape
<1>6. /\ SpaceType' /\ \A s \in Table \ {t} : space'[s] = space[s]
      /\ space'[t].tabs = space[t].tabs /\ space'[t].leaf = [space[t].leaf EXCEPT ![v] = MapOf(q, v)]
      /\ Path(v) \subseteq space[t].tabs /\ IsFiniteSet(space'[t].tabs) /\ NoPanic'
      /\ free' = free /\ free' \in Nat /\ Weight(t)' = Weight(t)
  <2>1. mappages(t, v, MapOf(q, v))
    BY <1>1, <1>2
  <2>2. Weight(t) \in Nat
    BY TabFacts
  <2> QED BY <1>2, <1>4, <1>5, <2>1, <2>2, MapEffect
<1>7. /\ v # USYSCALL => v - 1 \in Maps /\ v - 1 \in Nat /\ Shape(space'[t], q, Above(v - 1), 0)
      /\ v = USYSCALL => Shape(space'[t], q, Maps, 0)
  <2>1. /\ v # USYSCALL => v - 1 \in Maps /\ Shape(space'[t], q, Above(v - 1), 0)
        /\ v = USYSCALL => Shape(space'[t], q, Maps, 0)
    <3>1. v \in Nat
      BY ConstFacts
    <3>2. /\ space[t] \in TableType /\ Shape(space[t], q, Above(v), 0) /\ Path(v) \subseteq space[t].tabs
          /\ space'[t].tabs = space[t].tabs /\ space'[t].leaf = [space[t].leaf EXCEPT ![v] = MapOf(q, v)]
      BY <1>2, <1>6
    <3> QED BY <3>1, <3>2, ShapeMap
  <2>2. v - 1 \in Maps => v - 1 \in Nat
    BY ConstFacts
  <2> QED BY <2>1, <2>2
<1>8. th[p].ret # "growproc" /\ th[p].mem = 0
  BY <1>1, <1>3 DEF Local, Single, ThRec
<1>9. PICK x \in ThRec :
        /\ th' = [th EXCEPT ![p] = x]
        /\ x.np = th[p].np /\ x.pt = t /\ x.ret = th[p].ret /\ x.mem = 0 /\ x.sz = th[p].sz
        /\ v # USYSCALL => x.pc = "maps" /\ x.va = v - 1
        /\ v = USYSCALL => x.va = 0 /\ x.pc = IF th[p].np # NULL THEN "copy" ELSE "load"
  <2>1. CASE v # USYSCALL
    <3>1. [th[p] EXCEPT !.va = v - 1] \in ThRec
      BY <1>3, <1>7, <2>1 DEF ThRec
    <3>2. th' = [th EXCEPT ![p] = [th[p] EXCEPT !.va = v - 1]]
      BY <1>2, <1>3, <2>1 DEF MapSet
    <3> QED BY <1>1, <1>2, <1>3, <1>8, <2>1, <3>1, <3>2 DEF ThRec
  <2>2. CASE v = USYSCALL
    <3>1. PICK l \in {"copy", "load"} : l = IF th[p].np # NULL THEN "copy" ELSE "load"
      OBVIOUS
    <3>2. [th[p] EXCEPT !.va = 0, !.pc = l] \in ThRec
      BY <1>3 DEF ThRec, Pc
    <3>3. th' = [th EXCEPT ![p] = [th[p] EXCEPT !.va = 0, !.pc = l]]
      BY <1>2, <1>3, <2>2, <3>1 DEF MapSet
    <3> QED BY <1>1, <1>2, <1>3, <1>8, <2>2, <3>1, <3>2, <3>3 DEF ThRec
  <2> QED BY <2>1, <2>2
<1>10. th'[p] = x
  BY <1>3, <1>9
<1>11. Owner(p)'
  BY <1>1, <1>2, <1>3, <1>6, <1>8, <1>9, <1>10, OwnerKept DEF Local
<1>12. Single(p)'
  BY <1>1, <1>2, <1>3, <1>6, <1>8, <1>9, <1>10 DEF Local, Single
<1>13. Forks(p)'
  <2>1. 0 <= pages(proc[p].sz)
    BY <1>3, PagesFacts DEF ProcRec
  <2>2. 0..(0 - 1) = {}
    OBVIOUS
  <2> QED BY <1>1, <1>2, <1>3, <1>7, <1>9, <1>10, <2>1, <2>2 DEF Local, Forks
<1>14. Grows(p)'
  BY <1>9, <1>10 DEF Grows
<1>15. Execs(p)'
  <2>1. v = USYSCALL => \A w \in Va : space'[t].leaf[w].page # "user"
    <3>1. space'[t] \in TableType
      BY <1>6 DEF SpaceType
    <3>2. v = USYSCALL => {w \in Va : space'[t].leaf[w].page = "user"} = 0..(0 - 1)
      BY <1>7, <3>1, ShapeFacts
    <3> QED BY <3>2
  <2> QED BY <1>1, <1>2, <1>3, <1>7, <1>9, <1>10, <2>1, PagesZero DEF Local, Execs
<1>16. free' + Weight(t)' + x.mem = free + Weight(t) + th[p].mem
  BY <1>6, <1>8, <1>9
<1>17. /\ x.np \in {th[p].np, NULL} /\ (th[p].np # NULL => proc[th[p].np].state = "USED")
       /\ t \in {p, th[p].np, New(p)} /\ proc[p].state = "LIVE" /\ UNCHANGED proc
       /\ th' = [th EXCEPT ![p] = x]
  BY <1>1, <1>2, <1>9
<1>18. /\ SpaceType' /\ (\A s \in Table \ {t} : space'[s] = space[s])
       /\ IsFiniteSet(space'[t].tabs) /\ NoPanic' /\ free' \in Nat
  BY <1>6
<1> QED BY <1>11, <1>12, <1>13, <1>14, <1>15, <1>16, <1>17, <1>18, ThreadStep

LEMMA MapFailStep ==
  ASSUME IInv, NEW p \in Slot, MapFail(p)
  PROVE  IInv'
<1>1. /\ proc[p].state = "LIVE" /\ th[p].pc = "maps" /\ UNCHANGED proc
      /\ WalkFails(th[p].pt, th[p].va) /\ uvmfree(th[p].pt, Undo(th[p].va), 0, 0)
      /\ space' = Without(th[p].pt)
  BY DEF MapFail, At
<1>2. PICK t \in Table, v \in Maps, q \in Slot :
        /\ t = th[p].pt /\ v = th[p].va /\ q = For(p) /\ v \in Va
        /\ t = Target(p) /\ t # p /\ t \in {p, th[p].np, New(p)}
        /\ space[t] \in TableType /\ Shape(space[t], q, Above(v), 0)
        /\ th[p].np # NULL => /\ t = th[p].np /\ t # New(p) /\ Failed(p) = "freeproc"
                              /\ proc[th[p].np].state = "USED"
        /\ th[p].np = NULL => t = New(p) /\ Failed(p) = "bad"
  BY <1>1, MapsFacts, TargetFacts
<1>3. /\ th[p] \in ThRec /\ Local(p) /\ th \in [Slot -> ThRec]
      /\ p \in Table /\ New(p) \in Table /\ p # New(p)
  BY ThFacts
\* After the first mapping walk finds all the table pages it needs.
<1>4. v = TRAMPOLINE
  <2>1. CASE v # TRAMPOLINE
    <3>1. TRAMPOLINE \in Above(v) /\ TRAMPOLINE \in Va
      BY <2>1, ConstFacts DEF Above, Maps
    <3>2. Path(TRAMPOLINE) \subseteq space[t].tabs
      BY <1>2, <3>1 DEF Shape
    <3>3. Path(v) \subseteq space[t].tabs
      BY <3>2, PathFacts
    <3> QED BY <1>1, <1>2, <3>3 DEF WalkFails, Missing
  <2> QED BY <2>1
<1>5. Undo(v) = Above(v) /\ Above(v) = {}
  <2>1. Undo(TRAMPOLINE) = {}
    BY ConstFacts DEF Undo
  <2> QED BY <1>4, <2>1, AboveFacts
<1>6. NoPanic' /\ free' \in Nat /\ free' = free + Weight(t)
  <2>1. uvmfree(t, {}, 0, 0) /\ Shape(space[t], q, {}, 0) /\ {} \in SUBSET Maps
    BY <1>1, <1>2, <1>5
  <2>2. free \in Nat /\ Weight(t) \in Nat
    BY TabFacts
  <2> QED BY <2>1, <2>2, FreeEffect
<1>7. /\ SpaceType' /\ \A s \in Table \ {t} : space'[s] = space[s]
      /\ space'[t] = NoTable /\ IsFiniteSet(space'[t].tabs) /\ Weight(t)' = 0
  BY <1>1, <1>2, WithoutEffect
<1>8. th[p].ret # "growproc" /\ th[p].mem = 0
  BY <1>1, <1>3 DEF Local, Single, ThRec
<1>9. PICK x \in ThRec :
        /\ th' = [th EXCEPT ![p] = x]
        /\ x.np = th[p].np /\ x.pt = NULL /\ x.ret = th[p].ret /\ x.mem = 0 /\ x.sz = th[p].sz
        /\ x.va = 0 /\ x.pc = Failed(p)
  <2>1. Failed(p) \in Pc
    BY <1>2 DEF Pc
  <2>2. [th[p] EXCEPT !.pt = NULL, !.va = 0, !.pc = Failed(p)] \in ThRec
    BY <1>3, <2>1 DEF ThRec
  <2>3. th' = [th EXCEPT ![p] = [th[p] EXCEPT !.pt = NULL, !.va = 0, !.pc = Failed(p)]]
    BY <1>3 DEF MapFail
  <2> QED BY <1>3, <1>8, <2>2, <2>3 DEF ThRec
<1>10. th'[p] = x
  BY <1>3, <1>9
<1>11. Owner(p)'
  BY <1>1, <1>2, <1>3, <1>7, <1>8, <1>9, <1>10, OwnerKept DEF Local
<1>12. Single(p)'
  BY <1>1, <1>2, <1>3, <1>7, <1>8, <1>9, <1>10 DEF Local, Single
<1>13. Forks(p)'
  BY <1>1, <1>2, <1>3, <1>7, <1>9, <1>10 DEF Local, Forks
<1>14. Grows(p)' /\ Execs(p)'
  BY <1>2, <1>7, <1>9, <1>10 DEF Grows, Execs
<1>15. free' + Weight(t)' + x.mem = free + Weight(t) + th[p].mem
  BY <1>6, <1>7, <1>8, <1>9
<1>16. x.np \in {th[p].np, NULL} /\ (th[p].np # NULL => proc[th[p].np].state = "USED")
  BY <1>2, <1>9
<1> QED BY <1>1, <1>2, <1>6, <1>7, <1>9, <1>11, <1>12, <1>13, <1>14, <1>15, <1>16, ThreadStep

----------------------------------------------------------------------------
(* uvmcopy                                                                 *)

\* A step that changes no table.
LEMMA ThreadOnly ==
  ASSUME IInv, NEW p \in Slot, proc[p].state = "LIVE", UNCHANGED <<proc, space>>,
         NEW x \in ThRec, th' = [th EXCEPT ![p] = x], x.np \in {th[p].np, NULL},
         th[p].np # NULL => proc[th[p].np].state = "USED",
         free' \in Nat, free' + x.mem = free + th[p].mem,
         Owner(p)', Single(p)', Forks(p)', Grows(p)', Execs(p)', NoPanic'
  PROVE  IInv'
<1>1. PICK t \in Table : t = New(p)
  BY ThFacts
<1>2. t \in {p, th[p].np, New(p)}
  BY <1>1
<1>3. /\ SpaceType' /\ (\A s \in Table \ {t} : space'[s] = space[s])
      /\ IsFiniteSet(space'[t].tabs) /\ Weight(t)' = Weight(t) /\ Weight(t) \in Nat /\ free \in Nat
  BY TabFacts, WeightIs, ThFacts DEF SpaceType
<1>4. x.mem \in Nat /\ th[p].mem \in Nat
  <2>1. th[p] \in ThRec
    BY ThFacts
  <2> QED BY <2>1 DEF ThRec
<1>5. free' + Weight(t)' + x.mem = free + Weight(t) + th[p].mem
  BY <1>3, <1>4
<1> QED BY <1>2, <1>3, <1>5, ThreadStep

LEMMA ThUpdate ==
  ASSUME NEW x \in ThRec, NEW l \in Pc, NEW m \in {0, 1}, NEW v \in Nat
  PROVE  [x EXCEPT !.mem = m, !.pc = l] \in ThRec /\ [x EXCEPT !.mem = m, !.va = v, !.pc = l] \in ThRec
<1>1. m \in 0..1
  OBVIOUS
<1> QED BY <1>1 DEF ThRec

LEMMA CopyFacts ==
  ASSUME IInv, NEW p \in Slot, th[p].pc \in {"copy", "copymap", "copyfail"}
  PROVE  /\ th[p].np \in Slot /\ th[p].np \in Table /\ th[p].np # p /\ th[p].np # New(p)
         /\ th[p].pt = th[p].np /\ th[p].np # NULL /\ proc[th[p].np].state = "USED"
         /\ space[th[p].np] \in TableType /\ space[p] \in TableType
         /\ th[p].va \in Nat /\ pages(proc[p].sz) \in Nat /\ th[p].va <= pages(proc[p].sz)
         /\ Shape(space[th[p].np], th[p].np, Maps, th[p].va)
         /\ proc[p].state = "LIVE" => Shape(space[p], p, Maps, pages(proc[p].sz))
         /\ th[p].ret # "growproc" /\ space[th[p].np] # NoTable
<1>1. Local(p) /\ th[p] \in ThRec /\ proc[p] \in ProcRec /\ p \in Table
  BY ThFacts
<1>2. th[p].np # NULL
  BY <1>1 DEF Local, Execs
<1>3. /\ th[p].np \in Slot /\ th[p].np \in Table /\ th[p].np # p /\ th[p].np # New(p)
      /\ proc[th[p].np].state = "USED"
  BY <1>2, KidUsed
<1>4. th[p].pt = th[p].np /\ Shape(space[th[p].np], th[p].np, Maps, th[p].va) /\ th[p].va <= pages(proc[p].sz)
  BY <1>1, <1>2 DEF Local, Forks
<1>5. th[p].ret # "growproc"
  BY <1>1, <1>2 DEF Local, Single
<1>6. proc[p].state = "LIVE" => Shape(space[p], p, Maps, pages(proc[p].sz))
  BY <1>1, <1>5 DEF Local, Owner, Size
<1>7. th[p].va \in Nat /\ pages(proc[p].sz) \in Nat
  BY <1>1, PagesFacts DEF ThRec, ProcRec
<1>8. space[th[p].np] # NoTable
  BY <1>4 DEF Shape, NoTable
<1> QED BY <1>1, <1>2, <1>3, <1>4, <1>5, <1>6, <1>7, <1>8, TabFacts

LEMMA CopyTakeStep ==
  ASSUME IInv, NEW p \in Slot, CopyTake(p)
  PROVE  IInv'
<1>1. /\ proc[p].state = "LIVE" /\ th[p].pc = "copy" /\ UNCHANGED <<space, proc>>
      /\ th[p].va * PGSIZE < proc[p].sz /\ panic' = (th[p].va \notin Mapped(p))
  BY DEF CopyTake, At
<1>2. /\ th[p] \in ThRec /\ Local(p) /\ th \in [Slot -> ThRec] /\ proc[p] \in ProcRec
  BY ThFacts
<1>3. /\ th[p].np # NULL /\ proc[th[p].np].state = "USED" /\ th[p].pt = th[p].np
      /\ th[p].va \in Nat /\ space[p] \in TableType /\ pages(proc[p].sz) \in Nat
      /\ Shape(space[p], p, Maps, pages(proc[p].sz)) /\ th[p].ret # "growproc"
  BY <1>1, CopyFacts
<1>4. th[p].va < pages(proc[p].sz)
  BY <1>1, <1>2, <1>3, PagesFacts DEF ProcRec
<1>5. NoPanic'
  <2>1. Mapped(p) = Maps \cup 0..(pages(proc[p].sz) - 1)
    <3>1. Maps \in SUBSET Maps
      OBVIOUS
    <3>2. {v \in Va : space[p].leaf[v] # NoPte} = Maps \cup 0..(pages(proc[p].sz) - 1)
      BY <1>3, <3>1, ShapeFacts, ZenonT(30)
    <3> QED BY <3>2 DEF Mapped
  <2>2. th[p].va \in 0..(pages(proc[p].sz) - 1)
    BY <1>3, <1>4
  <2> QED BY <1>1, <2>1, <2>2 DEF NoPanic
<1>6. th[p].mem = 0 /\ free \in Nat
  BY <1>1, <1>2 DEF Local, Single, ThRec, IInv, Counted
<1>7. PICK x \in ThRec, l \in {"copymap", "copyfail"} :
        /\ th' = [th EXCEPT ![p] = x] /\ x = [th[p] EXCEPT !.mem = x.mem, !.pc = l]
        /\ x.mem = (IF l = "copymap" THEN 1 ELSE 0) /\ free' \in Nat /\ free' + x.mem = free
  <2>1. CASE free > 0 /\ free' = free - 1 /\ th' = [th EXCEPT ![p].mem = 1, ![p].pc = "copymap"]
    <3> DEFINE y == [th[p] EXCEPT !.mem = 1, !.pc = "copymap"]
    <3>1. y \in ThRec
      BY <1>2, ThUpdate DEF Pc
    <3>3. th' = [th EXCEPT ![p] = y] /\ y.mem = 1
      BY <1>2, <2>1 DEF ThRec
    <3>2. free' \in Nat /\ free' + 1 = free
      BY <1>6, <2>1
    <3> QED BY <3>1, <3>2, <3>3
  <2>2. CASE free = 0 /\ Goto(p, "copyfail") /\ UNCHANGED free
    <3> DEFINE y == [th[p] EXCEPT !.mem = 0, !.pc = "copyfail"]
    <3>1. y \in ThRec /\ th' = [th EXCEPT ![p] = y] /\ y.mem = 0
      BY <1>2, <1>6, <2>2 DEF ThRec, Pc, Goto
    <3>2. free' \in Nat /\ free' + 0 = free
      BY <1>6, <2>2
    <3> QED BY <3>1, <3>2
  <2> QED BY <2>1, <2>2 DEF CopyTake, Take
<1>8. /\ th'[p].pc = l /\ th'[p].mem = x.mem /\ th'[p].np = th[p].np /\ th'[p].pt = th[p].pt
      /\ th'[p].va = th[p].va /\ th'[p].ret = th[p].ret /\ x.np = th[p].np
  BY <1>2, <1>7 DEF ThRec
<1>9. Owner(p)'
  BY <1>1, <1>2, <1>3, <1>8, OwnerKept DEF Local
<1>10. Single(p)'
  BY <1>1, <1>2, <1>3, <1>7, <1>8 DEF Local, Single
<1>11. Forks(p)'
  BY <1>1, <1>2, <1>3, <1>4, <1>8 DEF Local, Forks
<1>12. Grows(p)' /\ Execs(p)'
  BY <1>3, <1>8 DEF Grows, Execs
<1>13. free' + x.mem = free + th[p].mem
  BY <1>6, <1>7
<1> QED BY <1>1, <1>3, <1>5, <1>7, <1>8, <1>9, <1>10, <1>11, <1>12, <1>13, ThreadOnly

LEMMA CopyWalkStep ==
  ASSUME IInv, NEW p \in Slot, CopyWalk(p)
  PROVE  IInv'
<1>1. /\ proc[p].state = "LIVE" /\ th[p].pc = "copymap" /\ UNCHANGED <<proc, th>>
      /\ WalkAlloc(th[p].pt, th[p].va)
  BY DEF CopyWalk, At
<1>2. th[p].va \in Va
  <2>1. Local(p) /\ th[p].np # NULL /\ Shape(space[p], p, Maps, pages(proc[p].sz))
        /\ th[p].va \in Nat /\ pages(proc[p].sz) \in Nat
    BY <1>1, CopyFacts, ThFacts
  <2>2. th[p].va < pages(proc[p].sz) /\ pages(proc[p].sz) <= USYSCALL
    BY <1>1, <2>1 DEF Local, Forks, Shape
  <2> QED BY <2>1, <2>2, ConstFacts
<1>3. /\ th[p].pt \in Table /\ th[p].pt \in {p, th[p].np, New(p)} /\ space[th[p].pt] # NoTable
      /\ proc[th[p].np].state = "USED"
  BY <1>1, CopyFacts
<1> QED BY <1>1, <1>2, <1>3, WalkStep

LEMMA CopyMapStep ==
  ASSUME IInv, NEW p \in Slot, CopyMap(p)
  PROVE  IInv'
<1>1. /\ proc[p].state = "LIVE" /\ th[p].pc = "copymap" /\ UNCHANGED proc
      /\ mappages(th[p].pt, th[p].va, Pte("user", NULL, CopyFlags(p)))
  BY DEF CopyMap, At
<1>2. /\ th[p] \in ThRec /\ Local(p) /\ th \in [Slot -> ThRec] /\ proc[p] \in ProcRec
      /\ p \in Table /\ New(p) \in Table
  BY ThFacts
<1>3. PICK q \in Slot, v \in Nat, n \in Nat :
        /\ q = th[p].np /\ v = th[p].va /\ n = pages(proc[p].sz)
        /\ q \in Table /\ q # p /\ q # New(p) /\ q # NULL /\ proc[q].state = "USED" /\ th[p].pt = q
        /\ space[q] \in TableType /\ space[p] \in TableType /\ th[p].ret # "growproc"
        /\ Shape(space[q], q, Maps, v) /\ Shape(space[p], p, Maps, n)
  BY <1>1, CopyFacts
<1>4. v < n /\ n <= USYSCALL
  BY <1>1, <1>2, <1>3 DEF Local, Forks, Shape
<1>5. v \in Va /\ v \notin Maps /\ v < USYSCALL /\ ~(v < v) /\ v + 1 <= n /\ v + 1 \in Nat
  BY <1>3, <1>4, ConstFacts DEF Maps
<1>6. space[q].leaf[v] = NoPte
  BY <1>3, <1>5 DEF Shape
<1>7. PICK e \in PteType : e = Pte("user", NULL, CopyFlags(p)) /\ e.page = "user" /\ e.flags = space[p].leaf[v].flags
  <2>1. space[p].leaf[v] \in PteType
    BY <1>3, <1>5 DEF TableType
  <2>2. space[p].leaf[v].flags \in SUBSET {"R", "W", "X", "U"} /\ CopyFlags(p) = space[p].leaf[v].flags
    BY <1>3, <2>1 DEF PteType, CopyFlags
  <2>3. Pte("user", NULL, CopyFlags(p)) \in PteType
    BY <2>2 DEF Pte, PteType, Page
  <2>4. Pte("user", NULL, CopyFlags(p)).page = "user" /\ Pte("user", NULL, CopyFlags(p)).flags = CopyFlags(p)
    BY DEF Pte
  <2> QED BY <2>2, <2>3, <2>4
<1>8. /\ SpaceType' /\ \A s \in Table \ {q} : space'[s] = space[s]
      /\ space'[q].tabs = space[q].tabs /\ space'[q].leaf = [space[q].leaf EXCEPT ![v] = e]
      /\ Path(v) \subseteq space[q].tabs /\ IsFiniteSet(space'[q].tabs) /\ NoPanic'
      /\ free' = free /\ free' \in Nat /\ Weight(q)' = Weight(q) + 1
  <2>1. mappages(q, v, e)
    BY <1>1, <1>3, <1>7
  <2> QED BY <1>3, <1>5, <1>6, <1>7, <2>1, MapEffect
<1>9. Shape(space'[q], q, Maps, v + 1)
  BY <1>3, <1>5, <1>7, <1>8, ShapeGrow
<1>10. PICK x \in ThRec :
         /\ th' = [th EXCEPT ![p] = x] /\ x.mem = 0 /\ x.va = v + 1 /\ x.pc = "copy"
         /\ x.np = q /\ x.pt = q /\ x.ret = th[p].ret
  <2>1. [th[p] EXCEPT !.mem = 0, !.va = v + 1, !.pc = "copy"] \in ThRec
    BY <1>2, <1>5, ThUpdate DEF Pc
  <2>2. th' = [th EXCEPT ![p] = [th[p] EXCEPT !.mem = 0, !.va = v + 1, !.pc = "copy"]]
    BY <1>2, <1>3 DEF CopyMap
  <2> QED BY <1>2, <1>3, <2>1, <2>2 DEF ThRec
<1>11. th'[p] = x /\ space'[p] = space[p] /\ space'[New(p)] = space[New(p)] /\ th[p].mem = 1
  BY <1>1, <1>2, <1>3, <1>8, <1>10 DEF Local, Single
<1>12. Owner(p)'
  BY <1>1, <1>2, <1>3, <1>10, <1>11, OwnerKept DEF Local
<1>13. Single(p)'
  BY <1>1, <1>2, <1>3, <1>10, <1>11 DEF Local, Single
<1>14. Forks(p)'
  <2>1. \A w \in 0..(v + 1 - 1) : space'[q].leaf[w].flags = space'[p].leaf[w].flags
    <3> TAKE w \in 0..(v + 1 - 1)
    <3>1. w \in Va /\ (w = v \/ w \in 0..(v - 1))
      BY <1>5, ConstFacts
    <3>2. w \in 0..(v - 1) => space[q].leaf[w].flags = space[p].leaf[w].flags
      BY <1>1, <1>2, <1>3 DEF Local, Forks
    <3>3. space[q].leaf \in [Va -> PteType]
      BY <1>3 DEF TableType
    <3> QED BY <1>7, <1>8, <1>11, <3>1, <3>2, <3>3
  <2> QED BY <1>1, <1>2, <1>3, <1>5, <1>9, <1>10, <1>11, <2>1, SMTT(30) DEF Local, Forks
<1>15. Grows(p)' /\ Execs(p)'
  BY <1>3, <1>10, <1>11 DEF Grows, Execs
<1>16. free' + Weight(q)' + x.mem = free + Weight(q) + th[p].mem
  <2>1. free \in Nat /\ Weight(q) \in Nat
    BY <1>3, TabFacts
  <2> QED BY <1>8, <1>10, <1>11, <2>1
<1>17. /\ x.np \in {th[p].np, NULL} /\ (th[p].np # NULL => proc[th[p].np].state = "USED")
       /\ q \in {p, th[p].np, New(p)} /\ proc[p].state = "LIVE" /\ UNCHANGED proc
       /\ th' = [th EXCEPT ![p] = x] /\ q \in Table
  BY <1>1, <1>3, <1>10
<1>18. /\ SpaceType' /\ (\A s \in Table \ {q} : space'[s] = space[s])
       /\ IsFiniteSet(space'[q].tabs) /\ NoPanic' /\ free' \in Nat
  BY <1>8
<1> QED BY <1>12, <1>13, <1>14, <1>15, <1>16, <1>17, <1>18, ThreadStep

LEMMA CopyFailStep ==
  ASSUME IInv, NEW p \in Slot, CopyFail(p)
  PROVE  IInv'
<1>1. /\ proc[p].state = "LIVE" /\ th[p].pc \in {"copymap", "copyfail"} /\ UNCHANGED proc
      /\ uvmunmap(th[p].pt, 0..(th[p].va - 1), th[p].mem)
  BY DEF CopyFail, At, FreeMem
<1>2. /\ th[p] \in ThRec /\ Local(p) /\ th \in [Slot -> ThRec] /\ p \in Table /\ New(p) \in Table
  BY ThFacts
<1>3. PICK q \in Slot, v \in Nat :
        /\ q = th[p].np /\ v = th[p].va
        /\ q \in Table /\ q # p /\ q # New(p) /\ q # NULL /\ proc[q].state = "USED" /\ th[p].pt = q
        /\ th[p].ret # "growproc" /\ Shape(space[q], q, Maps, v)
  BY <1>1, CopyFacts
<1>4. PICK k \in Nat : k = th[p].mem
  BY <1>2 DEF ThRec
<1>5. /\ SpaceType' /\ \A s \in Table \ {q} : space'[s] = space[s]
      /\ Shape(space'[q], q, Maps, 0) /\ IsFiniteSet(space'[q].tabs) /\ NoPanic'
      /\ free' \in Nat /\ free' + Weight(q)' = free + Weight(q) + k
  <2>1. /\ uvmunmap(q, 0..(v - 1), k) /\ 0 <= v /\ 0 \in Nat
        /\ q \in Table /\ Shape(space[q], q, Maps, v)
    BY <1>1, <1>3, <1>4
  <2>2. CutTo(q, q, 0, k)
    BY <2>1, CutOff
  <2> QED BY <2>2 DEF CutTo
<1>6. PICK x \in ThRec :
         /\ th' = [th EXCEPT ![p] = x] /\ x.mem = 0 /\ x.va = 0 /\ x.pc = "freeproc"
         /\ x.np = q /\ x.pt = q /\ x.ret = th[p].ret
  <2>1. [th[p] EXCEPT !.mem = 0, !.va = 0, !.pc = "freeproc"] \in ThRec
    BY <1>2, ThUpdate DEF Pc
  <2>2. th' = [th EXCEPT ![p] = [th[p] EXCEPT !.mem = 0, !.va = 0, !.pc = "freeproc"]]
    BY <1>2 DEF CopyFail
  <2> QED BY <1>2, <1>3, <2>1, <2>2 DEF ThRec
<1>7. th'[p] = x /\ space'[p] = space[p] /\ space'[New(p)] = space[New(p)]
  BY <1>2, <1>3, <1>5, <1>6
<1>8. Owner(p)'
  BY <1>1, <1>2, <1>3, <1>6, <1>7, OwnerKept DEF Local
<1>9. Single(p)'
  BY <1>1, <1>2, <1>3, <1>6, <1>7 DEF Local, Single
<1>10. Forks(p)'
  BY <1>1, <1>2, <1>3, <1>5, <1>6, <1>7, SMTT(30) DEF Local, Forks
<1>11. Grows(p)' /\ Execs(p)'
  BY <1>3, <1>6, <1>7 DEF Grows, Execs
<1>12. free' + Weight(q)' + x.mem = free + Weight(q) + th[p].mem
  <2>1. free' \in Nat /\ x.mem = 0 /\ Weight(q)' \in Int
    <3>1. Weight(q)' \in Nat
      BY <1>5, WeightNext
    <3> QED BY <1>5, <1>6, <3>1
  <2> QED BY <1>4, <1>5, <2>1
<1>13. /\ x.np \in {th[p].np, NULL} /\ (th[p].np # NULL => proc[th[p].np].state = "USED")
       /\ q \in {p, th[p].np, New(p)} /\ q \in Table
  BY <1>3, <1>6
<1> QED BY <1>1, <1>5, <1>6, <1>8, <1>9, <1>10, <1>11, <1>12, <1>13, ThreadStep

----------------------------------------------------------------------------
(* uvmalloc                                                                *)

LEMMA GrowFacts ==
  ASSUME IInv, NEW p \in Slot, proc[p].state = "LIVE", th[p].pc \in {"grow", "growmap", "growfail"}
  PROVE  /\ th[p].np = NULL /\ th[p].pt \in Table /\ th[p].pt \in {p, New(p)}
         /\ space[th[p].pt] \in TableType /\ space[th[p].pt] # NoTable
         /\ th[p].ret = "growproc" => th[p].pt = p /\ th[p].sz = proc[p].sz /\ space[New(p)] = NoTable
         /\ th[p].ret # "growproc" => th[p].pt = New(p)
         /\ th[p].ret \in {"growproc", "segment", "stack"}
         /\ Shape(space[th[p].pt], p, Maps, th[p].va) /\ th[p].va \in Nat
         /\ th[p].sz \in Nat /\ th[p].newsz \in Nat /\ th[p].sz <= th[p].newsz
         /\ pages(th[p].sz) \in Nat /\ pages(th[p].newsz) \in Nat
         /\ pages(th[p].sz) <= th[p].va /\ th[p].va <= pages(th[p].newsz)
<1>1. Local(p) /\ th[p] \in ThRec /\ p \in Table /\ New(p) \in Table
  BY ThFacts
<1>2. th[p].np = NULL
  BY <1>1 DEF Local, Forks
<1>3. /\ th[p].ret = "growproc" => th[p].pt = p /\ th[p].sz = proc[p].sz /\ space[New(p)] = NoTable
      /\ th[p].ret # "growproc" => th[p].pt = New(p)
      /\ th[p].sz <= th[p].newsz /\ pages(th[p].sz) <= th[p].va /\ th[p].va <= pages(th[p].newsz)
  BY <1>1 DEF Local, Grows, Single
<1>4. Shape(space[th[p].pt], p, Maps, th[p].va)
  BY <1>1, <1>3 DEF Local, Grows, Owner, Size
<1>5. space[th[p].pt] # NoTable
  BY <1>4 DEF Shape, NoTable
<1>6. th[p].ret \in {"growproc", "segment", "stack"} /\ th[p].va \in Nat /\ th[p].sz \in Nat /\ th[p].newsz \in Nat
  BY <1>1 DEF Local, Grows, ThRec
<1>7. pages(th[p].sz) \in Nat /\ pages(th[p].newsz) \in Nat
  BY <1>6, PagesFacts
<1> QED BY <1>1, <1>2, <1>3, <1>4, <1>5, <1>6, <1>7, TabFacts

LEMMA GrowTakeStep ==
  ASSUME IInv, NEW p \in Slot, GrowTake(p)
  PROVE  IInv'
<1>1. /\ proc[p].state = "LIVE" /\ th[p].pc = "grow" /\ UNCHANGED <<space, proc>> /\ NoPanic'
      /\ th[p].va * PGSIZE < th[p].newsz
  BY DEF GrowTake, At, IInv, NoPanic
<1>2. /\ th[p] \in ThRec /\ Local(p) /\ th \in [Slot -> ThRec]
  BY ThFacts
<1>3. th[p].np = NULL /\ th[p].va \in Nat /\ th[p].newsz \in Nat
  BY <1>1, GrowFacts
<1>4. th[p].va < pages(th[p].newsz)
  BY <1>1, <1>3, PagesFacts
<1>6. th[p].mem = 0 /\ free \in Nat
  BY <1>1, <1>2 DEF Local, Single, ThRec, IInv, Counted
<1>7. PICK x \in ThRec, l \in {"growmap", "growfail"} :
        /\ th' = [th EXCEPT ![p] = x] /\ x = [th[p] EXCEPT !.mem = x.mem, !.pc = l]
        /\ x.mem = (IF l = "growmap" THEN 1 ELSE 0) /\ free' \in Nat /\ free' + x.mem = free
  <2>1. CASE free > 0 /\ free' = free - 1 /\ th' = [th EXCEPT ![p].mem = 1, ![p].pc = "growmap"]
    <3> DEFINE y == [th[p] EXCEPT !.mem = 1, !.pc = "growmap"]
    <3>1. y \in ThRec
      BY <1>2, ThUpdate DEF Pc
    <3>2. th' = [th EXCEPT ![p] = y] /\ y.mem = 1
      BY <1>2, <2>1 DEF ThRec
    <3>3. free' \in Nat /\ free' + 1 = free
      BY <1>6, <2>1
    <3> QED BY <3>1, <3>2, <3>3
  <2>2. CASE free = 0 /\ Goto(p, "growfail") /\ UNCHANGED free
    <3> DEFINE y == [th[p] EXCEPT !.mem = 0, !.pc = "growfail"]
    <3>1. y \in ThRec /\ th' = [th EXCEPT ![p] = y] /\ y.mem = 0
      BY <1>2, <1>6, <2>2 DEF ThRec, Pc, Goto
    <3>2. free' \in Nat /\ free' + 0 = free
      BY <1>6, <2>2
    <3> QED BY <3>1, <3>2
  <2> QED BY <2>1, <2>2 DEF GrowTake, Take
<1>8. /\ th'[p].pc = l /\ th'[p].mem = x.mem /\ th'[p].np = th[p].np /\ th'[p].pt = th[p].pt
      /\ th'[p].va = th[p].va /\ th'[p].ret = th[p].ret /\ x.np = th[p].np
      /\ th'[p].sz = th[p].sz /\ th'[p].newsz = th[p].newsz /\ th'[p].img = th[p].img
  BY <1>2, <1>7 DEF ThRec
<1>9. Owner(p)'
  BY <1>1, <1>2, <1>8, OwnerKept DEF Local
<1>10. Single(p)'
  BY <1>1, <1>2, <1>3, <1>7, <1>8 DEF Local, Single
<1>11. Forks(p)'
  BY <1>3, <1>8 DEF Forks
<1>12. Grows(p)'
  BY <1>1, <1>2, <1>4, <1>8 DEF Local, Grows
<1>13. Execs(p)'
  BY <1>1, <1>2, <1>8 DEF Local, Execs
<1>14. free' + x.mem = free + th[p].mem
  BY <1>6, <1>7
<1> QED BY <1>1, <1>3, <1>7, <1>8, <1>9, <1>10, <1>11, <1>12, <1>13, <1>14, ThreadOnly

\* The page that the thread is about to map is below USYSCALL.
LEMMA GrowRoom ==
  ASSUME IInv, NEW p \in Slot, proc[p].state = "LIVE", th[p].pc = "growmap"
  PROVE  th[p].va \in Va \ Maps /\ th[p].va < USYSCALL
<1>1. /\ th[p].pt \in Table /\ space[th[p].pt] \in TableType /\ th[p].va \in Nat
      /\ Shape(space[th[p].pt], p, Maps, th[p].va)
  BY GrowFacts
<1>2. th[p].mem = 1
  BY ThFacts DEF Local, Single
<1>3. Cardinality(User(th[p].pt)) = th[p].va
  BY <1>1, ShapeCount DEF User
<1>4. th[p].va < USYSCALL
  BY <1>1, <1>2, <1>3, RoomLeft
<1> QED BY <1>1, <1>4, ConstFacts DEF Maps

LEMMA GrowWalkStep ==
  ASSUME IInv, NEW p \in Slot, GrowWalk(p)
  PROVE  IInv'
<1>1. /\ proc[p].state = "LIVE" /\ th[p].pc = "growmap" /\ UNCHANGED <<proc, th>>
      /\ WalkAlloc(th[p].pt, th[p].va)
  BY DEF GrowWalk, At
<1>2. th[p].va \in Va
  BY <1>1, GrowRoom
<1>3. /\ th[p].pt \in Table /\ th[p].pt \in {p, th[p].np, New(p)} /\ space[th[p].pt] # NoTable
      /\ th[p].np = NULL
  BY <1>1, GrowFacts
<1> QED BY <1>1, <1>2, <1>3, WalkStep

LEMMA GrowMapStep ==
  ASSUME IInv, NEW p \in Slot, GrowMap(p)
  PROVE  IInv'
<1>1. /\ proc[p].state = "LIVE" /\ th[p].pc = "growmap" /\ UNCHANGED proc
      /\ mappages(th[p].pt, th[p].va, Pte("user", NULL, {"R", "U"} \cup Xperm(p)))
  BY DEF GrowMap, At
<1>2. /\ th[p] \in ThRec /\ Local(p) /\ th \in [Slot -> ThRec]
      /\ p \in Table /\ New(p) \in Table /\ p # New(p)
  BY ThFacts
<1>3. PICK t \in Table, v \in Nat, n \in Nat :
        /\ t = th[p].pt /\ v = th[p].va /\ n = pages(th[p].newsz) /\ t \in {p, New(p)}
        /\ space[t] \in TableType /\ Shape(space[t], p, Maps, v) /\ th[p].np = NULL
        /\ th[p].ret = "growproc" => t = p /\ space[New(p)] = NoTable
        /\ th[p].ret # "growproc" => t = New(p)
        /\ th[p].ret \in {"growproc", "segment", "stack"}
        /\ pages(th[p].sz) \in Nat /\ pages(th[p].sz) <= v
  BY <1>1, GrowFacts
<1>4. v < n
  BY <1>1, <1>2, <1>3 DEF Local, Grows
<1>5. v \in Va /\ v \notin Maps /\ v < USYSCALL /\ ~(v < v) /\ v + 1 <= n /\ v + 1 \in Nat /\ pages(th[p].sz) <= v + 1
  <2>1. v \in Va \ Maps /\ v < USYSCALL
    BY <1>1, <1>3, GrowRoom
  <2> QED BY <1>3, <1>4, <2>1
<1>6. space[t].leaf[v] = NoPte
  BY <1>3, <1>5 DEF Shape
<1>7. PICK e \in PteType : /\ e = Pte("user", NULL, {"R", "U"} \cup Xperm(p))
                           /\ e.page = "user" /\ "U" \in e.flags
  <2>1. Xperm(p) \in SUBSET {"W", "X"}
    <3>1. CASE th[p].ret = "segment"
      <4>1. th[p].img \in Seq(Segment) /\ th[p].img # <<>>
        BY <1>1, <1>2, <3>1 DEF Local, Grows, ThRec
      <4>2. Head(th[p].img) \in Segment
        BY <4>1
      <4> QED BY <3>1, <4>2 DEF Xperm, Segment
    <3> QED BY <3>1 DEF Xperm
  <2>2. Pte("user", NULL, {"R", "U"} \cup Xperm(p)) \in PteType
    BY <2>1 DEF Pte, PteType, Page
  <2>3. /\ Pte("user", NULL, {"R", "U"} \cup Xperm(p)).page = "user"
        /\ Pte("user", NULL, {"R", "U"} \cup Xperm(p)).flags = {"R", "U"} \cup Xperm(p)
    BY DEF Pte
  <2> QED BY <2>2, <2>3
<1>8. /\ SpaceType' /\ \A s \in Table \ {t} : space'[s] = space[s]
      /\ space'[t].tabs = space[t].tabs /\ space'[t].leaf = [space[t].leaf EXCEPT ![v] = e]
      /\ Path(v) \subseteq space[t].tabs /\ IsFiniteSet(space'[t].tabs) /\ NoPanic'
      /\ free' = free /\ free' \in Nat /\ Weight(t)' = Weight(t) + 1
  <2>1. mappages(t, v, e)
    BY <1>1, <1>3, <1>7
  <2> QED BY <1>5, <1>6, <1>7, <2>1, MapEffect
<1>9. Shape(space'[t], p, Maps, v + 1)
  BY <1>3, <1>5, <1>7, <1>8, ShapeGrow
<1>10. PICK x \in ThRec :
         /\ th' = [th EXCEPT ![p] = x] /\ x.mem = 0 /\ x.va = v + 1 /\ x.pc = "grow"
         /\ x.np = NULL /\ x.pt = t /\ x.ret = th[p].ret /\ x.sz = th[p].sz /\ x.newsz = th[p].newsz
         /\ x.img = th[p].img
  <2>1. [th[p] EXCEPT !.mem = 0, !.va = v + 1, !.pc = "grow"] \in ThRec
    BY <1>2, <1>5, ThUpdate DEF Pc
  <2>2. th' = [th EXCEPT ![p] = [th[p] EXCEPT !.mem = 0, !.va = v + 1, !.pc = "grow"]]
    BY <1>2, <1>3 DEF GrowMap
  <2> QED BY <1>2, <1>3, <2>1, <2>2 DEF ThRec
<1>11. /\ th'[p] = x /\ th[p].mem = 1
       /\ th[p].ret # "growproc" => space'[p] = space[p]
       /\ th[p].ret = "growproc" => space'[New(p)] = space[New(p)]
  BY <1>1, <1>2, <1>3, <1>8, <1>10 DEF Local, Single
<1>12. Owner(p)'
  <2>1. CASE th[p].ret = "growproc"
    BY <1>1, <1>2, <1>3, <1>9, <1>10, <1>11, <2>1 DEF Local, Owner, Size
  <2>2. CASE th[p].ret # "growproc"
    BY <1>1, <1>2, <1>10, <1>11, <2>2, OwnerKept DEF Local
  <2> QED BY <2>1, <2>2
<1>13. Single(p)'
  BY <1>1, <1>2, <1>3, <1>10, <1>11 DEF Local, Single
<1>14. Forks(p)'
  BY <1>10, <1>11 DEF Forks
<1>15. Grows(p)'
  BY <1>1, <1>2, <1>3, <1>5, <1>9, <1>10, <1>11 DEF Local, Grows
<1>16. Execs(p)'
  <2>1. ASSUME th[p].ret # "growproc", NEW w \in Va, space'[t].leaf[w].page = "user"
        PROVE  "U" \in space'[t].leaf[w].flags
    <3>1. space[t].leaf \in [Va -> PteType]
      BY <1>3 DEF TableType
    <3>2. CASE w = v
      BY <1>5, <1>7, <1>8, <3>1, <3>2
    <3>3. CASE w # v
      BY <1>1, <1>2, <1>3, <1>8, <2>1, <3>1, <3>3 DEF Local, Execs
    <3> QED BY <3>2, <3>3
  <2> QED BY <1>1, <1>2, <1>3, <1>10, <1>11, <2>1 DEF Local, Execs
<1>17. free' + Weight(t)' + x.mem = free + Weight(t) + th[p].mem
  <2>1. free \in Nat /\ Weight(t) \in Nat
    BY TabFacts
  <2> QED BY <1>8, <1>10, <1>11, <2>1
<1>18. /\ x.np \in {th[p].np, NULL} /\ (th[p].np # NULL => proc[th[p].np].state = "USED")
       /\ t \in {p, th[p].np, New(p)} /\ proc[p].state = "LIVE" /\ UNCHANGED proc
       /\ th' = [th EXCEPT ![p] = x]
  BY <1>1, <1>3, <1>10
<1>19. /\ SpaceType' /\ (\A s \in Table \ {t} : space'[s] = space[s])
       /\ IsFiniteSet(space'[t].tabs) /\ NoPanic' /\ free' \in Nat
  BY <1>8
<1> QED BY <1>12, <1>13, <1>14, <1>15, <1>16, <1>17, <1>18, <1>19, ThreadStep

LEMMA IdleFacts ==
  /\ Idle \in ThRec /\ Idle.np = NULL /\ Idle.mem = 0 /\ Idle.ret = "none" /\ Idle.pc = "user"
  /\ Idle.va = 0 /\ Idle.sz = 0 /\ Idle.pt = NULL /\ Idle.newsz = 0
<1>1. <<>> \in Seq(Segment)
  OBVIOUS
<1> QED BY <1>1 DEF Idle, ThRec, Pc, NULL

\* A system call has returned.
LEMMA Returned ==
  ASSUME NEW p \in Slot, th'[p] = Idle, space'[New(p)] = NoTable
  PROVE  Single(p)' /\ Forks(p)' /\ Grows(p)' /\ Execs(p)'
  BY IdleFacts DEF Single, Forks, Grows, Execs

LEMMA GrowFailStep ==
  ASSUME IInv, NEW p \in Slot, GrowFail(p)
  PROVE  IInv'
<1>1. /\ proc[p].state = "LIVE" /\ th[p].pc \in {"growmap", "growfail"} /\ UNCHANGED proc
      /\ uvmunmap(th[p].pt, pages(th[p].sz)..(th[p].va - 1), th[p].mem)
  BY DEF GrowFail, At, FreeMem
<1>2. /\ th[p] \in ThRec /\ Local(p) /\ th \in [Slot -> ThRec]
      /\ p \in Table /\ New(p) \in Table /\ p # New(p)
  BY ThFacts
<1>3. PICK t \in Table, v \in Nat, m \in Nat :
        /\ t = th[p].pt /\ v = th[p].va /\ m = pages(th[p].sz) /\ t \in {p, New(p)}
        /\ space[t] \in TableType /\ Shape(space[t], p, Maps, v) /\ th[p].np = NULL
        /\ th[p].ret = "growproc" => t = p /\ th[p].sz = proc[p].sz /\ space[New(p)] = NoTable
        /\ th[p].ret # "growproc" => t = New(p)
        /\ m <= v
  BY <1>1, GrowFacts
<1>4. PICK k \in Nat : k = th[p].mem
  BY <1>2 DEF ThRec
<1>5. /\ SpaceType' /\ \A s \in Table \ {t} : space'[s] = space[s]
      /\ Shape(space'[t], p, Maps, m) /\ IsFiniteSet(space'[t].tabs) /\ NoPanic'
      /\ free' \in Nat /\ free' + Weight(t)' = free + Weight(t) + k
  <2>1. uvmunmap(t, m..(v - 1), k) /\ m <= v /\ Shape(space[t], p, Maps, v)
    BY <1>1, <1>3, <1>4
  <2>2. CutTo(t, p, m, k)
    BY <2>1, CutOff
  <2> QED BY <2>2 DEF CutTo
<1>6. Weight(t)' \in Nat
  BY <1>5, WeightNext
<1>7. CASE th[p].ret = "growproc"
  <2>1. th' = [th EXCEPT ![p] = Idle] /\ th'[p] = Idle
    BY <1>2, <1>7 DEF GrowFail, Return
  <2>2. space'[New(p)] = NoTable /\ space'[p] = space'[t]
    BY <1>2, <1>3, <1>5, <1>7
  <2>3. Owner(p)'
    BY <1>1, <1>2, <1>3, <1>5, <1>7, <2>1, <2>2, IdleFacts DEF Local, Owner, Size
  <2>4. Single(p)' /\ Forks(p)' /\ Grows(p)' /\ Execs(p)'
    BY <2>1, <2>2, Returned
  <2>5. free' + Weight(t)' + Idle.mem = free + Weight(t) + th[p].mem
    BY <1>4, <1>5, <1>6, IdleFacts
  <2>6. t \in {p, th[p].np, New(p)} /\ Idle.np \in {th[p].np, NULL} /\ th[p].np = NULL
    BY <1>3, IdleFacts
  <2> QED BY <1>1, <1>5, <2>1, <2>3, <2>4, <2>5, <2>6, IdleFacts, ThreadStep
<1>8. CASE th[p].ret # "growproc"
  <2>1. PICK x \in ThRec :
          /\ th' = [th EXCEPT ![p] = x] /\ x.mem = 0 /\ x.pc = "bad"
          /\ x.np = NULL /\ x.pt = t /\ x.ret = th[p].ret /\ x.sz = th[p].sz
    <3>1. [th[p] EXCEPT !.mem = 0, !.pc = "bad"] \in ThRec
      BY <1>2, ThUpdate DEF Pc
    <3>2. th' = [th EXCEPT ![p] = [th[p] EXCEPT !.mem = 0, !.pc = "bad"]]
      BY <1>2, <1>8 DEF GrowFail
    <3> QED BY <1>2, <1>3, <3>1, <3>2 DEF ThRec
  <2>2. th'[p] = x /\ space'[p] = space[p] /\ t = New(p)
    BY <1>2, <1>3, <1>5, <1>8, <2>1
  <2>3. Owner(p)'
    BY <1>1, <1>2, <1>8, <2>1, <2>2, OwnerKept DEF Local
  <2>4. Single(p)' /\ Forks(p)' /\ Grows(p)'
    BY <1>8, <2>1, <2>2 DEF Single, Forks, Grows
  <2>5. Execs(p)'
    BY <1>3, <1>5, <2>1, <2>2 DEF Execs
  <2>6. free' + Weight(t)' + x.mem = free + Weight(t) + th[p].mem
    BY <1>4, <1>5, <1>6, <2>1
  <2>7. t \in {p, th[p].np, New(p)} /\ x.np \in {th[p].np, NULL} /\ th[p].np = NULL
    BY <1>3, <2>1
  <2> QED BY <1>1, <1>5, <2>1, <2>3, <2>4, <2>5, <2>6, <2>7, ThreadStep
<1> QED BY <1>7, <1>8

\* A thread that is in no system call.
LEMMA UserFacts ==
  ASSUME IInv, NEW p \in Slot, At(p, "user")
  PROVE  /\ proc[p].state = "LIVE" /\ th[p] = Idle /\ th[p].np = NULL /\ th[p].ret = "none"
         /\ th[p].mem = 0 /\ space[New(p)] = NoTable /\ Local(p)
         /\ proc[p].sz \in Nat /\ pages(proc[p].sz) \in Nat
         /\ Shape(space[p], p, Maps, pages(proc[p].sz)) /\ pages(proc[p].sz) <= USYSCALL
<1>1. Local(p) /\ proc[p].sz \in Nat
  BY ThFacts DEF ProcRec
<1>2. proc[p].state = "LIVE" /\ th[p] = Idle /\ space[New(p)] = NoTable
  BY <1>1 DEF At, Local, Single
<1>3. Shape(space[p], p, Maps, pages(proc[p].sz))
  BY <1>1, <1>2, IdleFacts DEF Local, Owner, Size
<1>4. pages(proc[p].sz) <= USYSCALL
  BY <1>3 DEF Shape
<1> QED BY <1>1, <1>2, <1>3, <1>4, IdleFacts, PagesFacts

\* The new size does not wrap around.
LEMMA SumFacts ==
  ASSUME IInv, NEW p \in Slot, At(p, "user"), NEW n \in GrowNs
  PROVE  Sum(p, n) \in Nat /\ (n > 0 => Sum(p, n) = proc[p].sz + n)
<1>1. PICK s \in Nat, g \in Nat \ {0}, u \in Nat \ {0}, k \in Nat, w \in Nat :
        /\ s = proc[p].sz /\ g = PGSIZE /\ u = UINT64 /\ k = pages(s) /\ w = USYSCALL
        /\ k <= w /\ n \in Int
  BY UserFacts, ConstFacts
<1>2. (w + 3) * g + n < u
  <2>1. (TRAMPOLINE + 1) * PGSIZE + n < UINT64 /\ TRAMPOLINE + 1 = USYSCALL + 3
    BY ConstFacts
  <2> QED BY <1>1, <2>1
<1>3. s <= k * g
  <2>1. ~(k * PGSIZE < s)
    BY <1>1, PagesFacts
  <2> QED BY <1>1, <2>1
<1>4. k * g <= (w + 3) * g
  BY <1>1
<1>5. s + n < u /\ s + n \in Int
  <2>1. PICK a \in Int, b \in Int : a = k * g /\ b = (w + 3) * g
    BY <1>1
  <2> QED BY <1>1, <1>2, <1>3, <1>4, <2>1
<1>6. n > 0 => (s + n) % u = s + n
  BY <1>1, <1>5
<1>7. (s + n) % u \in Nat
  BY <1>1, <1>5
<1> QED BY <1>1, <1>6, <1>7 DEF Sum

\* uvmalloc is called by a thread that has no page in hand.
LEMMA AllocCall ==
  ASSUME IInv, NEW p \in Slot, NEW t \in Table, NEW m \in Nat, NEW n \in Nat,
         NEW r \in {"growproc", "segment", "stack"}, uvmalloc(p, t, m, n, r), th[p].mem = 0
  PROVE  \E x \in ThRec :
           /\ th' = [th EXCEPT ![p] = x] /\ th'[p] = x /\ x.pt = t /\ x.sz = m /\ x.va = pages(m)
           /\ x.newsz = n /\ x.ret = r /\ x.pc = "grow" /\ x.np = th[p].np /\ x.img = th[p].img /\ x.mem = 0
<1>1. th[p] \in ThRec /\ th \in [Slot -> ThRec] /\ pages(m) \in Nat
  BY ThFacts, PagesFacts
<1> DEFINE x == [th[p] EXCEPT !.pt = t, !.sz = m, !.va = pages(m), !.newsz = n, !.ret = r, !.pc = "grow"]
<1>2. x \in ThRec
  BY <1>1 DEF ThRec, Pc
<1>3. th' = [th EXCEPT ![p] = x]
  BY <1>1 DEF uvmalloc
<1>4. /\ x.pt = t /\ x.sz = m /\ x.va = pages(m) /\ x.newsz = n /\ x.ret = r /\ x.pc = "grow"
      /\ x.np = th[p].np /\ x.img = th[p].img /\ x.mem = 0
  BY <1>1 DEF ThRec
<1> HIDE DEF x
<1>5. th'[p] = x
  BY <1>1, <1>3
<1> QED BY <1>2, <1>3, <1>4, <1>5

LEMMA GrowprocStep ==
  ASSUME IInv, NEW p \in Slot, NEW n \in GrowNs, growproc(p, n)
  PROVE  IInv'
<1>1. /\ At(p, "user") /\ UNCHANGED <<proc, space, free>> /\ NoPanic' /\ n > 0
      /\ uvmalloc(p, p, proc[p].sz, Sum(p, n), "growproc")
  BY DEF growproc, memory, IInv, NoPanic
<1>2. /\ proc[p].state = "LIVE" /\ th[p].np = NULL /\ th[p].mem = 0 /\ Local(p)
      /\ space[New(p)] = NoTable /\ proc[p].sz \in Nat /\ pages(proc[p].sz) \in Nat /\ th[p].ret = "none"
  BY <1>1, UserFacts
<1>3. PICK m \in Nat : m = Sum(p, n) /\ proc[p].sz <= m
  <2>1. Sum(p, n) \in Nat /\ Sum(p, n) = proc[p].sz + n /\ n \in Int
    BY <1>1, SumFacts, ConstFacts
  <2> QED BY <1>1, <1>2, <2>1
<1>4. pages(proc[p].sz) <= pages(m)
  BY <1>2, <1>3, PagesMonotone
<1>5. PICK x \in ThRec :
        /\ th' = [th EXCEPT ![p] = x] /\ th'[p] = x /\ x.pt = p /\ x.sz = proc[p].sz
        /\ x.va = pages(proc[p].sz) /\ x.newsz = m /\ x.ret = "growproc" /\ x.pc = "grow" /\ x.np = NULL
        /\ x.mem = 0
  <2>1. p \in Table
    BY ThFacts
  <2> QED BY <1>1, <1>2, <1>3, <2>1, AllocCall
<1>6. Owner(p)'
  BY <1>1, <1>2, <1>5 DEF Local, Owner, Size
<1>7. Single(p)' /\ Forks(p)'
  BY <1>1, <1>2, <1>5 DEF Single, Forks
<1>8. Grows(p)'
  BY <1>1, <1>2, <1>3, <1>4, <1>5 DEF Grows
<1>9. Execs(p)'
  BY <1>5 DEF Execs
<1>10. free' \in Nat /\ free' + x.mem = free + th[p].mem
  BY <1>1, <1>2, <1>5 DEF IInv, Counted
<1>11. x.np \in {th[p].np, NULL} /\ th[p].np = NULL
  BY <1>2, <1>5
<1> QED BY <1>1, <1>2, <1>5, <1>6, <1>7, <1>8, <1>9, <1>10, <1>11, ThreadOnly

----------------------------------------------------------------------------
(* exec                                                                    *)

LEMMA ExecStep ==
  ASSUME IInv, NEW p \in Slot, NEW g \in Programs, exec(p, g)
  PROVE  IInv'
<1>1. /\ At(p, "user") /\ UNCHANGED <<proc, space, free>> /\ NoPanic'
      /\ th' = [th EXCEPT ![p].img = g, ![p].pc = "create"]
  BY DEF exec, memory, IInv, NoPanic
<1>2. /\ proc[p].state = "LIVE" /\ th[p].np = NULL /\ th[p].mem = 0 /\ Local(p) /\ th[p] = Idle
      /\ space[New(p)] = NoTable /\ th[p].ret = "none"
  BY <1>1, UserFacts
<1>3. th[p] \in ThRec /\ th \in [Slot -> ThRec] /\ g \in Seq(Segment)
  BY ThFacts, SpaceAssumption
<1>4. PICK x \in ThRec :
        /\ th' = [th EXCEPT ![p] = x] /\ x.pc = "create" /\ x.np = NULL /\ x.mem = 0 /\ x.ret = "none"
        /\ x.pt = NULL /\ x.sz = 0
  <2>1. [th[p] EXCEPT !.img = g, !.pc = "create"] \in ThRec
    BY <1>3 DEF ThRec, Pc
  <2>2. th' = [th EXCEPT ![p] = [th[p] EXCEPT !.img = g, !.pc = "create"]]
    BY <1>1, <1>3
  <2>3. th[p].pt = NULL /\ th[p].sz = 0
    BY <1>2, IdleFacts
  <2> QED BY <1>2, <1>3, <2>1, <2>2, <2>3 DEF ThRec
<1>5. th'[p] = x
  BY <1>3, <1>4
<1>6. Owner(p)'
  BY <1>1, <1>2, <1>4, <1>5, OwnerKept DEF Local
<1>7. Single(p)' /\ Forks(p)' /\ Grows(p)' /\ Execs(p)'
  <2>1. Single(p)' /\ Forks(p)'
    BY <1>1, <1>2, <1>4, <1>5 DEF Single, Forks
  <2>2. Grows(p)' /\ Execs(p)'
    BY <1>4, <1>5 DEF Grows, Execs
  <2> QED BY <2>1, <2>2
<1>8. free' \in Nat /\ free' + x.mem = free + th[p].mem
  BY <1>1, <1>2, <1>4 DEF IInv, Counted
<1>9. x.np \in {th[p].np, NULL} /\ th[p].np = NULL
  BY <1>2, <1>4
<1> QED BY <1>1, <1>2, <1>4, <1>6, <1>7, <1>8, <1>9, ThreadOnly

\* The table of exec, between two calls of uvmalloc.
LEMMA ExecFacts ==
  ASSUME IInv, NEW p \in Slot, th[p].pc \in {"load", "segment", "stack", "push"}
  PROVE  /\ th[p].np = NULL /\ th[p].pt = New(p) /\ New(p) \in Table /\ New(p) # p
         /\ space[New(p)] \in TableType /\ th[p].ret # "growproc" /\ th[p].mem = 0
         /\ th[p].sz \in Nat /\ pages(th[p].sz) \in Nat /\ th[p].img \in Seq(Segment)
         /\ Shape(space[New(p)], p, Maps, pages(th[p].sz))
         /\ th[p].img # <<>> => Head(th[p].img) \in Segment /\ Tail(th[p].img) \in Seq(Segment)
<1>1. Local(p) /\ th[p] \in ThRec /\ New(p) \in Table /\ p # New(p)
  BY ThFacts
<1>2. th[p].np = NULL
  BY <1>1 DEF Local, Forks
<1>3. th[p].pt = New(p) /\ Shape(space[New(p)], p, Maps, pages(th[p].sz))
  BY <1>1, <1>2 DEF Local, Execs
<1>4. th[p].ret # "growproc" /\ th[p].mem = 0 /\ th[p].sz \in Nat /\ th[p].img \in Seq(Segment)
  BY <1>1 DEF Local, Single, ThRec
<1>5. th[p].img # <<>> => Head(th[p].img) \in Segment /\ Tail(th[p].img) \in Seq(Segment)
  BY <1>4
<1> QED BY <1>1, <1>2, <1>3, <1>4, <1>5, PagesFacts, TabFacts

LEMMA LoadStep ==
  ASSUME IInv, NEW p \in Slot, Load(p)
  PROVE  IInv'
<1> DEFINE end == Head(th[p].img).vaddr + Head(th[p].img).memsz
<1>1. /\ proc[p].state = "LIVE" /\ th[p].pc = "load" /\ UNCHANGED <<proc, space, free>> /\ NoPanic'
      /\ th[p].img # <<>>
      /\ IF end >= th[p].sz THEN uvmalloc(p, th[p].pt, th[p].sz, end, "segment") ELSE Goto(p, "segment")
  BY DEF Load, At, memory, IInv, NoPanic
<1>2. /\ th[p].np = NULL /\ th[p].pt = New(p) /\ New(p) \in Table /\ th[p].ret # "growproc" /\ th[p].mem = 0
      /\ th[p].sz \in Nat /\ pages(th[p].sz) \in Nat /\ Head(th[p].img) \in Segment
      /\ Shape(space[New(p)], p, Maps, pages(th[p].sz))
  BY <1>1, ExecFacts
<1>3. Local(p) /\ th[p] \in ThRec /\ th \in [Slot -> ThRec]
  BY ThFacts
<1>4. end \in Nat
  BY <1>2 DEF Segment
<1>5. \A v \in Va : space[New(p)].leaf[v].page = "user" => "U" \in space[New(p)].leaf[v].flags
  BY <1>1, <1>2, <1>3 DEF Local, Execs
<1>6. free' \in Nat /\ free' + 0 = free + th[p].mem
  BY <1>1, <1>2 DEF IInv, Counted
<1>7. CASE end >= th[p].sz
  <2>1. PICK x \in ThRec :
          /\ th' = [th EXCEPT ![p] = x] /\ th'[p] = x /\ x.pt = New(p) /\ x.sz = th[p].sz
          /\ x.va = pages(th[p].sz) /\ x.newsz = end /\ x.ret = "segment" /\ x.pc = "grow"
          /\ x.np = th[p].np /\ x.img = th[p].img /\ x.mem = 0
    BY <1>1, <1>2, <1>4, <1>7, AllocCall
  <2>2. pages(th[p].sz) <= pages(end)
    BY <1>2, <1>4, <1>7, PagesMonotone
  <2>3. th[p].sz <= end
    BY <1>2, <1>4, <1>7
  <2>4. Owner(p)'
    BY <1>1, <1>2, <1>3, <2>1, OwnerKept DEF Local
  <2>5. Single(p)' /\ Forks(p)'
    BY <1>2, <2>1 DEF Single, Forks
  <2>6. Grows(p)'
    BY <1>1, <1>2, <2>1, <2>2, <2>3 DEF Grows
  <2>7. Execs(p)'
    BY <1>1, <1>5, <2>1 DEF Execs
  <2> QED BY <1>1, <1>2, <1>6, <2>1, <2>4, <2>5, <2>6, <2>7, ThreadOnly
<1>8. CASE ~(end >= th[p].sz)
  <2>1. PICK x \in ThRec :
          /\ th' = [th EXCEPT ![p] = x] /\ x.pt = New(p) /\ x.sz = th[p].sz
          /\ x.ret = th[p].ret /\ x.pc = "segment" /\ x.np = th[p].np /\ x.img = th[p].img /\ x.mem = 0
    <3>1. [th[p] EXCEPT !.pc = "segment"] \in ThRec
      BY <1>3 DEF ThRec, Pc
    <3>2. th' = [th EXCEPT ![p] = [th[p] EXCEPT !.pc = "segment"]]
      BY <1>1, <1>3, <1>8 DEF Goto
    <3> QED BY <1>2, <1>3, <3>1, <3>2 DEF ThRec
  <2>2. th'[p] = x
    BY <1>3, <2>1
  <2>3. end <= th[p].sz
    BY <1>2, <1>4, <1>8
  <2>4. Owner(p)'
    BY <1>1, <1>2, <1>3, <2>1, <2>2, OwnerKept DEF Local
  <2>5. Single(p)' /\ Forks(p)' /\ Grows(p)'
    BY <1>2, <2>1, <2>2 DEF Single, Forks, Grows
  <2>6. Execs(p)'
    BY <1>1, <1>2, <1>5, <2>1, <2>2, <2>3 DEF Execs
  <2> QED BY <1>1, <1>2, <1>6, <2>1, <2>4, <2>5, <2>6, ThreadOnly
<1> QED BY <1>7, <1>8

LEMMA LoadsegStep ==
  ASSUME IInv, NEW p \in Slot, loadseg(p)
  PROVE  IInv'
<1> DEFINE s == Head(th[p].img)
           S == {v \in Va : s.vaddr <= v * PGSIZE /\ v * PGSIZE < s.vaddr + s.filesz}
<1>1. /\ proc[p].state = "LIVE" /\ th[p].pc = "segment" /\ UNCHANGED <<proc, space, free>>
      /\ panic' = (\E v \in S : ~walkaddr(th[p].pt, v))
      /\ th' = [th EXCEPT ![p].img = Tail(@), ![p].pc = "load"]
  BY DEF loadseg, At
<1>2. Local(p) /\ th[p] \in ThRec /\ th \in [Slot -> ThRec]
  BY ThFacts
<1>3. /\ th[p].np = NULL /\ th[p].pt = New(p) /\ New(p) \in Table /\ th[p].ret # "growproc" /\ th[p].mem = 0
      /\ th[p].sz \in Nat /\ pages(th[p].sz) \in Nat /\ space[New(p)] \in TableType
      /\ Shape(space[New(p)], p, Maps, pages(th[p].sz))
  BY <1>1, ExecFacts
<1>4. /\ th[p].img # <<>> /\ s.vaddr + s.memsz <= th[p].sz
      /\ \A v \in Va : space[New(p)].leaf[v].page = "user" => "U" \in space[New(p)].leaf[v].flags
  BY <1>1, <1>2, <1>3 DEF Local, Execs
<1>5. s \in Segment /\ Tail(th[p].img) \in Seq(Segment)
  BY <1>1, <1>4, ExecFacts
<1>6. NoPanic'
  <2> SUFFICES ASSUME NEW v \in S PROVE walkaddr(New(p), v)
    BY <1>1, <1>3 DEF NoPanic
  <2>1. PICK a \in Nat, f \in Nat, m \in Nat : a = s.vaddr /\ f = s.filesz /\ m = s.memsz /\ f <= m
    BY <1>5 DEF Segment
  <2>2. v \in Nat /\ v \in Va /\ v * PGSIZE < a + f /\ a + m <= th[p].sz
    BY <1>4, <2>1, ConstFacts
  <2>3. v * PGSIZE < th[p].sz
    <3>1. v * PGSIZE \in Nat
      BY <2>2, ConstFacts
    <3> QED BY <1>3, <2>1, <2>2, <3>1
  <2>4. v \in 0..(pages(th[p].sz) - 1)
    BY <1>3, <2>2, <2>3, PagesFacts
  <2>5. space[New(p)].leaf[v].page = "user"
    <3>1. \A w \in 0..(pages(th[p].sz) - 1) : space[New(p)].leaf[w].page = "user"
      BY <1>3, ShapeFacts
    <3> QED BY <2>4, <3>1
  <2> QED BY <1>4, <2>2, <2>5 DEF walkaddr
<1>7. PICK x \in ThRec :
        /\ th' = [th EXCEPT ![p] = x] /\ x.pt = New(p) /\ x.sz = th[p].sz
        /\ x.ret = th[p].ret /\ x.pc = "load" /\ x.np = th[p].np /\ x.mem = 0
  <2>1. [th[p] EXCEPT !.img = Tail(th[p].img), !.pc = "load"] \in ThRec
    BY <1>2, <1>5 DEF ThRec, Pc
  <2>2. th' = [th EXCEPT ![p] = [th[p] EXCEPT !.img = Tail(th[p].img), !.pc = "load"]]
    BY <1>1, <1>2
  <2> QED BY <1>2, <1>3, <2>1, <2>2 DEF ThRec
<1>8. th'[p] = x
  BY <1>2, <1>7
<1>9. Owner(p)'
  BY <1>1, <1>2, <1>3, <1>7, <1>8, OwnerKept DEF Local
<1>10. Single(p)' /\ Forks(p)' /\ Grows(p)'
  BY <1>3, <1>7, <1>8 DEF Single, Forks, Grows
<1>11. Execs(p)'
  BY <1>1, <1>3, <1>4, <1>7, <1>8 DEF Execs
<1>12. free' \in Nat /\ free' + x.mem = free + th[p].mem
  BY <1>1, <1>3, <1>7 DEF IInv, Counted
<1> QED BY <1>1, <1>3, <1>6, <1>7, <1>9, <1>10, <1>11, <1>12, ThreadOnly

LEMMA StackStep ==
  ASSUME IInv, NEW p \in Slot, Stack(p)
  PROVE  IInv'
<1>1. /\ proc[p].state = "LIVE" /\ th[p].pc = "load" /\ UNCHANGED <<proc, space, free>> /\ NoPanic'
      /\ uvmalloc(p, th[p].pt, pages(th[p].sz) * PGSIZE, pages(th[p].sz) * PGSIZE + 2 * PGSIZE, "stack")
  BY DEF Stack, At, memory, IInv, NoPanic
<1>2. Local(p) /\ th[p] \in ThRec /\ th \in [Slot -> ThRec]
  BY ThFacts
<1>3. /\ th[p].np = NULL /\ th[p].pt = New(p) /\ New(p) \in Table /\ th[p].ret # "growproc" /\ th[p].mem = 0
      /\ th[p].sz \in Nat /\ pages(th[p].sz) \in Nat /\ Shape(space[New(p)], p, Maps, pages(th[p].sz))
  BY <1>1, ExecFacts
<1>4. PICK k \in Nat, m \in Nat, n \in Nat :
        /\ k = pages(th[p].sz) /\ m = k * PGSIZE /\ n = (k + 2) * PGSIZE /\ n = m + 2 * PGSIZE
        /\ m <= n /\ pages(m) = k /\ pages(n) = k + 2
  <2>1. PICK k \in Nat, g \in Nat \ {0} : k = pages(th[p].sz) /\ g = PGSIZE
    BY <1>3, ConstFacts
  <2>2. (k + 2) * g = k * g + 2 * g /\ k * g \in Nat /\ (k + 2) * g \in Nat /\ k * g <= (k + 2) * g /\ k + 2 \in Nat
    BY <2>1
  <2>3. pages(k * g) = k /\ pages((k + 2) * g) = k + 2
    BY <2>1, <2>2, PagesOfWhole
  <2> QED BY <2>1, <2>2, <2>3
<1>5. PICK x \in ThRec :
        /\ th' = [th EXCEPT ![p] = x] /\ th'[p] = x /\ x.pt = New(p) /\ x.sz = m /\ x.va = pages(m)
        /\ x.newsz = n /\ x.ret = "stack" /\ x.pc = "grow" /\ x.np = th[p].np /\ x.mem = 0
  BY <1>1, <1>3, <1>4, AllocCall
<1>6. Owner(p)'
  BY <1>1, <1>2, <1>3, <1>5, OwnerKept DEF Local
<1>7. Single(p)' /\ Forks(p)'
  BY <1>3, <1>5 DEF Single, Forks
<1>8. Grows(p)'
  <2>1. k <= k /\ k <= k + 2 /\ k + 2 >= 2 /\ n = pages(n) * PGSIZE
    BY <1>4
  <2> QED BY <1>1, <1>3, <1>4, <1>5, <2>1 DEF Grows
<1>9. Execs(p)'
  BY <1>1, <1>2, <1>3, <1>5 DEF Local, Execs
<1>10. free' \in Nat /\ free' + x.mem = free + th[p].mem
  BY <1>1, <1>3, <1>5 DEF IInv, Counted
<1> QED BY <1>1, <1>3, <1>5, <1>6, <1>7, <1>8, <1>9, <1>10, ThreadOnly

LEMMA ClearStep ==
  ASSUME IInv, NEW p \in Slot, uvmclear(p)
  PROVE  IInv'
<1>1. /\ proc[p].state = "LIVE" /\ th[p].pc = "stack" /\ UNCHANGED <<proc, free>>
      /\ panic' = (Missing(th[p].pt, th[p].sz \div PGSIZE - 2) # {})
      /\ space' = [space EXCEPT ![th[p].pt].leaf[th[p].sz \div PGSIZE - 2].flags = @ \ {"U"}]
      /\ th' = [th EXCEPT ![p].pc = "push"]
  BY DEF uvmclear, At, Goto
<1>2. /\ Local(p) /\ th[p] \in ThRec /\ th \in [Slot -> ThRec] /\ space \in [Table -> TableType]
      /\ p \in Table
  BY ThFacts
<1>3. PICK t \in Table, k \in Nat :
        /\ t = New(p) /\ k = pages(th[p].sz) /\ th[p].np = NULL /\ th[p].pt = t /\ t # p
        /\ th[p].ret # "growproc" /\ th[p].mem = 0 /\ space[t] \in TableType /\ Shape(space[t], p, Maps, k)
  BY <1>1, ExecFacts
<1>4. th[p].sz = k * PGSIZE /\ k >= 2
  BY <1>1, <1>2, <1>3 DEF Local, Execs
<1>5. PICK v \in 0..(k - 1) : v = th[p].sz \div PGSIZE - 2
  <2>1. th[p].sz \div PGSIZE = k
    BY <1>4, PagesOfWhole
  <2> QED BY <1>4, <2>1
<1>6. v \in Va /\ space[t].leaf[v].page = "user" /\ Path(v) \subseteq space[t].tabs
  <2>1. v \in Va /\ space[t].leaf[v].page = "user"
    BY <1>3, ShapeFacts
  <2>2. v < k
    OBVIOUS
  <2> QED BY <1>3, <2>1, <2>2 DEF Shape
<1> DEFINE e == [space[t].leaf[v] EXCEPT !.flags = space[t].leaf[v].flags \ {"U"}]
<1>7. space[t].leaf \in [Va -> PteType] /\ space[t].leaf[v] \in PteType
  BY <1>3, <1>6 DEF TableType
<1>8. e \in PteType /\ e.page = "user"
  BY <1>6, <1>7 DEF PteType
<1>9. space' = [space EXCEPT ![t] = [space[t] EXCEPT !.leaf = [space[t].leaf EXCEPT ![v] = e]]]
  BY <1>1, <1>2, <1>3, <1>5
<1> HIDE DEF e
<1>10. /\ space'[t] = [space[t] EXCEPT !.leaf = [space[t].leaf EXCEPT ![v] = e]]
       /\ \A s \in Table \ {t} : space'[s] = space[s]
  BY <1>2, <1>9
<1>11. space'[t].tabs = space[t].tabs /\ space'[t].leaf = [space[t].leaf EXCEPT ![v] = e]
  BY <1>3, <1>10 DEF TableType
<1>12. SpaceType'
  <2>1. [space[t] EXCEPT !.leaf = [space[t].leaf EXCEPT ![v] = e]] \in TableType
    BY <1>3, <1>7, <1>8 DEF TableType
  <2> QED BY <1>2, <1>9, <2>1 DEF SpaceType
<1>13. Shape(space'[t], p, Maps, k)
  BY <1>3, <1>8, <1>11, ShapeFlags
<1>14. NoPanic'
  BY <1>1, <1>3, <1>5, <1>6 DEF NoPanic, Missing
<1>15. IsFiniteSet(space'[t].tabs) /\ Weight(t)' = Weight(t) /\ free' \in Nat
  <2>1. User(t)' = User(t)
    BY <1>6, <1>7, <1>8, <1>11 DEF User
  <2> QED BY <1>1, <1>11, <2>1, TabFacts DEF Weight
<1>16. PICK x \in ThRec :
         /\ th' = [th EXCEPT ![p] = x] /\ x.pt = t /\ x.sz = th[p].sz
         /\ x.ret = th[p].ret /\ x.pc = "push" /\ x.np = NULL /\ x.mem = 0
  <2>1. [th[p] EXCEPT !.pc = "push"] \in ThRec
    BY <1>2 DEF ThRec, Pc
  <2>2. th' = [th EXCEPT ![p] = [th[p] EXCEPT !.pc = "push"]]
    BY <1>1, <1>2
  <2> QED BY <1>2, <1>3, <2>1, <2>2 DEF ThRec
<1>17. th'[p] = x /\ space'[p] = space[p]
  BY <1>2, <1>3, <1>10, <1>16
<1>18. Owner(p)'
  BY <1>1, <1>2, <1>3, <1>16, <1>17, OwnerKept DEF Local
<1>19. Single(p)' /\ Forks(p)' /\ Grows(p)'
  BY <1>3, <1>16, <1>17 DEF Single, Forks, Grows
<1>20. Execs(p)'
  BY <1>3, <1>13, <1>16, <1>17 DEF Execs
<1>21. free' + Weight(t)' + x.mem = free + Weight(t) + th[p].mem
  BY <1>1, <1>3, <1>15, <1>16
<1>22. /\ t \in {p, th[p].np, New(p)} /\ x.np \in {th[p].np, NULL} /\ th[p].np = NULL
       /\ proc[p].state = "LIVE" /\ UNCHANGED proc /\ (\A s \in Table \ {t} : space'[s] = space[s])
  BY <1>1, <1>3, <1>10, <1>16
<1> QED BY <1>12, <1>14, <1>15, <1>16, <1>18, <1>19, <1>20, <1>21, <1>22, ThreadStep

LEMMA RejectStep ==
  ASSUME IInv, NEW p \in Slot, Reject(p)
  PROVE  IInv'
<1>1. /\ proc[p].state = "LIVE" /\ th[p].pc \in {"load", "segment", "push"} /\ UNCHANGED <<proc, space, free>>
      /\ NoPanic' /\ th' = [th EXCEPT ![p].pc = "bad"]
  BY DEF Reject, At, Goto, memory, IInv, NoPanic
<1>2. Local(p) /\ th[p] \in ThRec /\ th \in [Slot -> ThRec]
  BY ThFacts
<1>3. /\ th[p].np = NULL /\ th[p].pt = New(p) /\ th[p].ret # "growproc" /\ th[p].mem = 0
      /\ Shape(space[New(p)], p, Maps, pages(th[p].sz))
  BY <1>1, ExecFacts
<1>4. PICK x \in ThRec :
        /\ th' = [th EXCEPT ![p] = x] /\ x.pt = New(p) /\ x.sz = th[p].sz
        /\ x.ret = th[p].ret /\ x.pc = "bad" /\ x.np = NULL /\ x.mem = 0
  <2>1. [th[p] EXCEPT !.pc = "bad"] \in ThRec
    BY <1>2 DEF ThRec, Pc
  <2>2. th' = [th EXCEPT ![p] = [th[p] EXCEPT !.pc = "bad"]]
    BY <1>1, <1>2
  <2> QED BY <1>2, <1>3, <2>1, <2>2 DEF ThRec
<1>5. th'[p] = x
  BY <1>2, <1>4
<1>6. Owner(p)'
  BY <1>1, <1>2, <1>3, <1>4, <1>5, OwnerKept DEF Local
<1>7. Single(p)' /\ Forks(p)' /\ Grows(p)'
  BY <1>3, <1>4, <1>5 DEF Single, Forks, Grows
<1>8. Execs(p)'
  BY <1>1, <1>3, <1>4, <1>5 DEF Execs
<1>9. free' \in Nat /\ free' + x.mem = free + th[p].mem /\ x.np \in {th[p].np, NULL}
  BY <1>1, <1>3, <1>4 DEF IInv, Counted
<1> QED BY <1>1, <1>3, <1>4, <1>6, <1>7, <1>8, <1>9, ThreadOnly

LEMMA BadStep ==
  ASSUME IInv, NEW p \in Slot, bad(p)
  PROVE  IInv'
<1>1. /\ proc[p].state = "LIVE" /\ th[p].pc = "bad" /\ UNCHANGED proc
      /\ th' = [th EXCEPT ![p] = Idle]
      /\ IF th[p].pt # NULL
         THEN uvmfree(th[p].pt, Maps, pages(th[p].sz), 0) /\ space' = Without(th[p].pt)
         ELSE UNCHANGED <<free, space, panic>>
  BY DEF bad, At, Return, memory
<1>2. /\ Local(p) /\ th[p] \in ThRec /\ th \in [Slot -> ThRec] /\ p \in Table /\ New(p) \in Table
      /\ New(p) # NULL /\ p # New(p)
  BY ThFacts
<1>3. th[p].np = NULL /\ th[p].ret # "growproc" /\ th[p].mem = 0 /\ th[p].sz \in Nat
  BY <1>1, <1>2 DEF Local, Forks, Single, ThRec
<1>4. th'[p] = Idle /\ Idle.np \in {th[p].np, NULL}
  BY <1>1, <1>2, IdleFacts
<1>5. CASE th[p].pt = NULL
  <2>1. space[New(p)] = NoTable
    BY <1>1, <1>2, <1>3, <1>5 DEF Local, Execs
  <2>2. UNCHANGED <<space, free>> /\ NoPanic'
    BY <1>1, <1>5 DEF IInv, NoPanic
  <2>3. Owner(p)'
    BY <1>1, <1>2, <1>3, <1>4, <2>2, IdleFacts, OwnerKept DEF Local
  <2>4. Single(p)' /\ Forks(p)' /\ Grows(p)' /\ Execs(p)'
    BY <1>4, <2>1, <2>2, Returned
  <2>5. free' \in Nat /\ free' + Idle.mem = free + th[p].mem
    BY <1>3, <2>2, IdleFacts DEF IInv, Counted
  <2> QED BY <1>1, <1>3, <1>4, <2>2, <2>3, <2>4, <2>5, IdleFacts, ThreadOnly
<1>6. CASE th[p].pt # NULL
  <2>1. PICK t \in Table, k \in Nat :
          /\ t = New(p) /\ k = pages(th[p].sz) /\ th[p].pt = t /\ t # p /\ Shape(space[t], p, Maps, k)
    BY <1>1, <1>2, <1>3, <1>6, PagesFacts DEF Local, Execs
  <2>2. NoPanic' /\ free' \in Nat /\ free' = free + Weight(t)
    <3>1. uvmfree(t, Maps, k, 0) /\ 0 \in Nat /\ Maps \in SUBSET Maps
      BY <1>1, <1>6, <2>1
    <3>2. free \in Nat /\ Weight(t) \in Nat
      BY TabFacts
    <3> QED BY <2>1, <3>1, <3>2, FreeEffect
  <2>3. /\ SpaceType' /\ \A s \in Table \ {t} : space'[s] = space[s]
        /\ space'[t] = NoTable /\ IsFiniteSet(space'[t].tabs) /\ Weight(t)' = 0
    BY <1>1, <1>6, <2>1, WithoutEffect
  <2>4. Owner(p)'
    BY <1>1, <1>2, <1>3, <1>4, <2>1, <2>3, IdleFacts, OwnerKept DEF Local
  <2>5. Single(p)' /\ Forks(p)' /\ Grows(p)' /\ Execs(p)'
    BY <1>4, <2>1, <2>3, Returned
  <2>6. free' + Weight(t)' + Idle.mem = free + Weight(t) + th[p].mem
    BY <1>3, <2>2, <2>3, IdleFacts
  <2>7. t \in {p, th[p].np, New(p)}
    BY <2>1
  <2> QED BY <1>1, <1>3, <1>4, <2>2, <2>3, <2>4, <2>5, <2>6, <2>7, IdleFacts, ThreadStep
<1> QED BY <1>5, <1>6

----------------------------------------------------------------------------
(* Steps that change a struct proc                                         *)

Kept(y) == (IF y.trapframe THEN 1 ELSE 0) + (IF y.usyscall THEN 1 ELSE 0)

LEMMA MemberCount ==
  ASSUME NEW A, NEW B, NEW s, IsFiniteSet(A), A \ {s} = B \ {s}
  PROVE  /\ Cardinality(A) \in Nat /\ Cardinality(B) \in Nat
         /\ Cardinality(B) + (IF s \in A THEN 1 ELSE 0) = Cardinality(A) + (IF s \in B THEN 1 ELSE 0)
<1>1. PICK C : C = A \ {s} /\ C = B \ {s} /\ IsFiniteSet(C) /\ s \notin C
  BY FS_Subset
<1>2. Cardinality(C) \in Nat /\ Cardinality(C \cup {s}) = Cardinality(C) + 1
  BY <1>1, FS_CardinalityType, FS_AddElement
<1>3. A = IF s \in A THEN C \cup {s} ELSE C
  BY <1>1
<1>4. B = IF s \in B THEN C \cup {s} ELSE C
  BY <1>1
<1>5. Cardinality(A) = Cardinality(C) + (IF s \in A THEN 1 ELSE 0)
  BY <1>2, <1>3
<1>6. Cardinality(B) = Cardinality(C) + (IF s \in B THEN 1 ELSE 0)
  <2>1. CASE s \in B
    <3>1. B = C \cup {s}
      BY <1>4, <2>1
    <3> QED BY <1>2, <2>1, <3>1
  <2>2. CASE s \notin B
    <3>1. B = C
      BY <1>4, <2>2
    <3> QED BY <1>2, <2>2, <3>1
  <2> QED BY <2>1, <2>2
<1> QED BY <1>2, <1>5, <1>6

\* How the pages that belong to no table change.
LEMMA LooseStep ==
  ASSUME IInv, NEW p \in Slot, NEW x \in ThRec, th' = [th EXCEPT ![p] = x],
         NEW s \in Slot, NEW y \in ProcRec, proc' = [proc EXCEPT ![s] = y]
  PROVE  /\ Loose \in Nat /\ Loose' \in Nat
         /\ Loose' + th[p].mem + Kept(proc[s]) = Loose + x.mem + Kept(y)
<1>1. /\ Cardinality(HasMem') = Cardinality(HasMem) - th[p].mem + x.mem /\ Cardinality(HasMem) \in Nat
      /\ th[p] \in ThRec
  BY ThreadEffect
<1>2. proc \in [Slot -> ProcRec] /\ proc[s] \in ProcRec /\ proc'[s] = y
      /\ \A r \in Slot \ {s} : proc'[r] = proc[r]
  BY DEF IInv, Types, ProcType
<1>3. th[p].mem \in Nat /\ x.mem \in Nat /\ Cardinality(HasMem') \in Nat
  <2>1. th[p].mem \in Nat /\ x.mem \in Nat
    BY <1>1 DEF ThRec
  <2>2. IsFiniteSet(HasMem')
    BY FiniteFacts, FS_Subset DEF HasMem
  <2> QED BY <2>1, <2>2, FS_CardinalityType
<1>4. /\ Cardinality(HasFrame) \in Nat /\ Cardinality(HasFrame') \in Nat
      /\ Cardinality(HasFrame') + (IF proc[s].trapframe THEN 1 ELSE 0)
         = Cardinality(HasFrame) + (IF y.trapframe THEN 1 ELSE 0)
  <2>1. /\ HasFrame \ {s} = HasFrame' \ {s} /\ (s \in HasFrame <=> proc[s].trapframe)
        /\ (s \in HasFrame' <=> y.trapframe)
    BY <1>2 DEF HasFrame
  <2>2. IsFiniteSet(HasFrame)
    BY FiniteFacts
  <2>3. /\ Cardinality(HasFrame) \in Nat /\ Cardinality(HasFrame') \in Nat
        /\ Cardinality(HasFrame') + (IF s \in HasFrame THEN 1 ELSE 0)
           = Cardinality(HasFrame) + (IF s \in HasFrame' THEN 1 ELSE 0)
    BY <2>1, <2>2, MemberCount
  <2> QED BY <2>1, <2>3
<1>5. /\ Cardinality(HasCall) \in Nat /\ Cardinality(HasCall') \in Nat
      /\ Cardinality(HasCall') + (IF proc[s].usyscall THEN 1 ELSE 0)
         = Cardinality(HasCall) + (IF y.usyscall THEN 1 ELSE 0)
  <2>1. /\ HasCall \ {s} = HasCall' \ {s} /\ (s \in HasCall <=> proc[s].usyscall)
        /\ (s \in HasCall' <=> y.usyscall)
    BY <1>2 DEF HasCall
  <2>2. IsFiniteSet(HasCall)
    BY FiniteFacts
  <2>3. /\ Cardinality(HasCall) \in Nat /\ Cardinality(HasCall') \in Nat
        /\ Cardinality(HasCall') + (IF s \in HasCall THEN 1 ELSE 0)
           = Cardinality(HasCall) + (IF s \in HasCall' THEN 1 ELSE 0)
    BY <2>1, <2>2, MemberCount
  <2> QED BY <2>1, <2>3
<1>6. PICK a \in Nat, b \in Nat, c \in Nat, d \in Nat :
        /\ a = IF proc[s].trapframe THEN 1 ELSE 0
        /\ b = IF y.trapframe THEN 1 ELSE 0
        /\ c = IF proc[s].usyscall THEN 1 ELSE 0
        /\ d = IF y.usyscall THEN 1 ELSE 0
  OBVIOUS
<1>7. Kept(proc[s]) = a + c /\ Kept(y) = b + d
  BY <1>6 DEF Kept
<1>8. Cardinality(HasFrame') + a = Cardinality(HasFrame) + b /\ Cardinality(HasCall') + c = Cardinality(HasCall) + d
  BY <1>4, <1>5, <1>6
<1> QED BY <1>1, <1>3, <1>4, <1>5, <1>7, <1>8 DEF Loose

\* The free pages, those of table t, of thread p and of struct proc s are as many
\* as before, when th[p] becomes x and proc[s] becomes y.
Balanced(p, t, s, x, y) ==
  free' + Weight(t)' + x.mem + Kept(y) = free + Weight(t) + th[p].mem + Kept(proc[s])

LEMMA ProcStep ==
  ASSUME IInv, NEW p \in Slot, proc[p].state = "LIVE", NEW q \in Slot \cup {NULL},
         q # NULL => \A r \in Slot \ {p} : th[r].np # q,
         NEW x \in ThRec, th' = [th EXCEPT ![p] = x], x.np \in {q, NULL},
         NEW s \in Slot, s \in {p, q}, NEW y \in ProcRec, proc' = [proc EXCEPT ![s] = y],
         SpaceType', NEW t \in Table, t \in {p, q, New(p)},
         \A u \in Table \ {t} : space'[u] = space[u],
         IsFiniteSet(space'[t].tabs), free' \in Nat, Balanced(p, t, s, x, y),
         Local(p)', q # NULL => Local(q)', NoPanic'
  PROVE  IInv'
<1>1. th'[p] = x /\ (\A r \in Slot \ {p} : th'[r] = th[r]) /\ ThType' /\ th[p] \in ThRec
  BY ThreadEffect
<1>2. Types' /\ \A r \in Slot \ {p, q} : proc'[r] = proc[r]
  BY <1>1 DEF IInv, Types, ProcType
<1>3. (\A r \in Slot : Local(r))' /\ Unshared'
  <2>1. /\ \A u \in Table \ {p, q, New(p)} : space'[u] = space[u]
        /\ th'[p].np \in {q, NULL}
    BY <1>1
  <2> QED BY <1>1, <1>2, <2>1, Others
<1>4. TabsFinite' /\ free \in Nat /\ TabsFinite
  BY DEF IInv, Counted, TabsFinite
<1>5. /\ Weight(t) \in Nat /\ Weight(t)' \in Nat /\ Loose \in Nat /\ Loose' \in Nat
      /\ th[p].mem \in Nat /\ x.mem \in Nat /\ Kept(proc[s]) \in Nat /\ Kept(y) \in Nat
      /\ Loose' + th[p].mem + Kept(proc[s]) = Loose + x.mem + Kept(y)
  <2>1. Weight(t) \in Nat
    BY TabFacts
  <2>2. Weight(t)' \in Nat
    BY WeightNext
  <2>3. /\ Loose \in Nat /\ Loose' \in Nat
        /\ Loose' + th[p].mem + Kept(proc[s]) = Loose + x.mem + Kept(y)
    BY LooseStep
  <2>4. th[p].mem \in Nat /\ x.mem \in Nat
    BY <1>1 DEF ThRec
  <2>5. Kept(proc[s]) \in Nat /\ Kept(y) \in Nat
    BY DEF Kept
  <2> QED BY <2>1, <2>2, <2>3, <2>4, <2>5
<1>6. PICK a \in Nat, b \in Nat, c \in Nat, d \in Nat :
        a = Weight(t) /\ b = Weight(t)' /\ c = Loose /\ d = Loose'
  BY <1>5
<1>7. free' + b + d = free + a + c
  <2>1. PICK m \in Nat, n \in Nat, k \in Nat, l \in Nat :
          m = th[p].mem /\ n = x.mem /\ k = Kept(proc[s]) /\ l = Kept(y)
    BY <1>5
  <2>2. d + m + k = c + n + l
    BY <1>5, <1>6, <2>1
  <2>3. PICK f \in Nat, g \in Nat : f = free /\ g = free'
    BY <1>4
  <2>4. g + b + n + l = f + a + m + k
    BY <1>6, <2>1, <2>3 DEF Balanced
  <2>5. g + b + d = f + a + c
    BY <2>2, <2>4
  <2> QED BY <2>3, <2>5
<1>8. PagesCounted'
  BY <1>4, <1>6, <1>7, CountOne
<1> QED BY <1>2, <1>3, <1>4, <1>8 DEF IInv, Counted, TabsFinite

\* Such a step that changes no table.
LEMMA ProcOnly ==
  ASSUME IInv, NEW p \in Slot, proc[p].state = "LIVE", NEW q \in Slot \cup {NULL},
         q # NULL => \A r \in Slot \ {p} : th[r].np # q,
         NEW x \in ThRec, th' = [th EXCEPT ![p] = x], x.np \in {q, NULL},
         NEW s \in Slot, s \in {p, q}, NEW y \in ProcRec, proc' = [proc EXCEPT ![s] = y],
         UNCHANGED space, free' \in Nat,
         free' + x.mem + Kept(y) = free + th[p].mem + Kept(proc[s]),
         Local(p)', q # NULL => Local(q)', NoPanic'
  PROVE  IInv'
<1>1. PICK t \in Table : t = New(p)
  BY ThFacts
<1>2. t \in {p, q, New(p)}
  BY <1>1
<1>3. /\ SpaceType' /\ (\A u \in Table \ {t} : space'[u] = space[u])
      /\ IsFiniteSet(space'[t].tabs) /\ Weight(t)' = Weight(t) /\ Weight(t) \in Nat /\ free \in Nat
  BY TabFacts, WeightIs, ThFacts DEF SpaceType
<1>4. x.mem \in Nat /\ th[p].mem \in Nat /\ Kept(y) \in Nat /\ Kept(proc[s]) \in Nat
  <2>1. th[p] \in ThRec
    BY ThFacts
  <2> QED BY <2>1, SMTT(30) DEF ThRec, Kept
<1>5. Balanced(p, t, s, x, y)
  BY <1>3, <1>4 DEF Balanced
<1>6. /\ SpaceType' /\ (\A u \in Table \ {t} : space'[u] = space[u]) /\ IsFiniteSet(space'[t].tabs)
  BY <1>3
<1> QED BY <1>2, <1>5, <1>6, ProcStep

\* allocproc finds no page and gives up.
LEMMA AllocFails ==
  ASSUME IInv, NEW p \in Slot, proc[p].state = "LIVE", th[p].pc \in {"trapframe", "usyscall"},
         Goto(p, "freeproc"), UNCHANGED <<free, space, proc>>, NoPanic'
  PROVE  IInv'
<1>1. /\ th[p] \in ThRec /\ Local(p) /\ th \in [Slot -> ThRec]
  BY ThFacts
<1>2. th[p].np # NULL
  BY <1>1 DEF Local, Execs
<1>3. proc[th[p].np].state = "USED" /\ th[p].ret # "growproc" /\ th[p].mem = 0
  BY <1>1, <1>2, KidUsed DEF Local, Single, ThRec
<1>4. PICK x \in ThRec :
        /\ th' = [th EXCEPT ![p] = x] /\ x.np = th[p].np /\ x.pc = "freeproc" /\ x.mem = 0 /\ x.ret = th[p].ret
  <2>1. [th[p] EXCEPT !.pc = "freeproc"] \in ThRec
    BY <1>1 DEF ThRec, Pc
  <2>2. th' = [th EXCEPT ![p] = [th[p] EXCEPT !.pc = "freeproc"]]
    BY <1>1 DEF Goto
  <2> QED BY <1>1, <1>3, <2>1, <2>2 DEF ThRec
<1>5. th'[p] = x
  BY <1>1, <1>4
<1>6. Owner(p)'
  BY <1>1, <1>3, <1>4, <1>5, OwnerKept DEF Local
<1>7. Single(p)'
  BY <1>1, <1>2, <1>3, <1>4, <1>5 DEF Local, Single
<1>8. Forks(p)'
  BY <1>1, <1>2, <1>3, <1>4, <1>5 DEF Local, Forks
<1>9. Grows(p)' /\ Execs(p)'
  BY <1>2, <1>4, <1>5 DEF Grows, Execs
<1>10. free' \in Nat /\ free' + x.mem = free + th[p].mem
  BY <1>3, <1>4 DEF IInv, Counted
<1> QED BY <1>3, <1>4, <1>6, <1>7, <1>8, <1>9, <1>10, ThreadOnly

\* allocproc takes the trapframe page, or fails.
LEMMA AllocTrapframeStep ==
  ASSUME IInv, NEW p \in Slot, AllocTrapframe(p)
  PROVE  IInv'
<1>1. /\ proc[p].state = "LIVE" /\ th[p].pc = "trapframe" /\ UNCHANGED space /\ NoPanic'
  BY DEF AllocTrapframe, At, IInv, NoPanic
<1>2. /\ th[p] \in ThRec /\ Local(p) /\ th \in [Slot -> ThRec] /\ proc \in [Slot -> ProcRec]
  BY ThFacts
<1>3. th[p].np # NULL
  BY <1>1, <1>2 DEF Local, Execs
<1>4. PICK q \in Slot :
        /\ q = th[p].np /\ q # NULL /\ q # p /\ proc[q].state = "USED" /\ Local(q) /\ proc[q] \in ProcRec
        /\ \A r \in Slot \ {p} : th[r].np # q
  BY <1>1, <1>3, KidUsed, KidOwn, ThFacts
<1>5. /\ th[p].ret # "growproc" /\ th[p].mem = 0 /\ free \in Nat
      /\ ~proc[q].trapframe /\ ~proc[q].usyscall
  <2>1. free \in Nat
    BY DEF IInv, Counted
  <2>2. th[p].ret # "growproc" /\ th[p].mem = 0
    BY <1>1, <1>2, <1>4 DEF Local, Single, ThRec
  <2>3. ~proc[q].trapframe /\ ~proc[q].usyscall
    BY <1>1, <1>2, <1>4 DEF Local, Forks
  <2> QED BY <2>1, <2>2, <2>3
<1>6. CASE free > 0 /\ free' = free - 1 /\ proc' = [proc EXCEPT ![q].trapframe = TRUE] /\ Goto(p, "usyscall")
  <2>1. PICK x \in ThRec :
          /\ th' = [th EXCEPT ![p] = x] /\ x.np = q /\ x.pc = "usyscall" /\ x.mem = 0
          /\ x.ret = th[p].ret
    <3>1. [th[p] EXCEPT !.pc = "usyscall"] \in ThRec
      BY <1>2 DEF ThRec, Pc
    <3>2. th' = [th EXCEPT ![p] = [th[p] EXCEPT !.pc = "usyscall"]]
      BY <1>2, <1>6 DEF Goto
    <3> QED BY <1>2, <1>4, <1>5, <3>1, <3>2 DEF ThRec
  <2>2. PICK y \in ProcRec :
          /\ proc' = [proc EXCEPT ![q] = y] /\ y.state = "USED" /\ y.trapframe /\ ~y.usyscall
          /\ y.sz = proc[q].sz
    <3>1. [proc[q] EXCEPT !.trapframe = TRUE] \in ProcRec
      BY <1>4 DEF ProcRec
    <3>2. proc' = [proc EXCEPT ![q] = [proc[q] EXCEPT !.trapframe = TRUE]]
      BY <1>2, <1>6
    <3> QED BY <1>4, <1>5, <3>1, <3>2 DEF ProcRec
  <2>3. th'[p] = x /\ th'[q] = th[q] /\ proc'[q] = y /\ proc'[p] = proc[p]
    BY <1>2, <1>4, <2>1, <2>2
  <2>4. Local(p)'
    <3>1. Owner(p)'
      BY <1>1, <1>2, <1>5, <2>1, <2>3, OwnerKept DEF Local
    <3>2. Empty(p)' /\ Single(p)'
      BY <1>1, <1>2, <1>3, <1>5, <2>1, <2>3 DEF Local, Empty, Single
    <3>3. Forks(p)'
      <4>1. proc[q].sz = 0 /\ space'[q] = NoTable
        BY <1>1, <1>2, <1>4 DEF Local, Forks
      <4>2. proc'[q].state = "USED" /\ proc'[q].sz = 0
        BY <2>2, <2>3, <4>1
      <4> QED BY <1>4, <2>1, <2>2, <2>3, <4>1, <4>2 DEF Forks
    <3>4. Grows(p)' /\ Execs(p)'
      BY <1>4, <2>1, <2>3 DEF Grows, Execs
    <3> QED BY <3>1, <3>2, <3>3, <3>4 DEF Local
  <2>5. Local(q)'
    BY <1>1, <1>4, <2>2, <2>3, Kid
  <2>6. free' \in Nat /\ free' + x.mem + Kept(y) = free + th[p].mem + Kept(proc[q])
    BY <1>5, <1>6, <2>1, <2>2 DEF Kept
  <2> QED BY <1>1, <1>4, <2>1, <2>2, <2>4, <2>5, <2>6, ProcOnly
<1>7. CASE free = 0 /\ Goto(p, "freeproc") /\ UNCHANGED <<free, proc>>
  BY <1>1, <1>7, AllocFails
<1> QED BY <1>4, <1>6, <1>7 DEF AllocTrapframe

LEMMA AllocUsyscallStep ==
  ASSUME IInv, NEW p \in Slot, AllocUsyscall(p)
  PROVE  IInv'
<1>1. /\ proc[p].state = "LIVE" /\ th[p].pc = "usyscall" /\ UNCHANGED space /\ NoPanic'
  BY DEF AllocUsyscall, At, IInv, NoPanic
<1>2. /\ th[p] \in ThRec /\ Local(p) /\ th \in [Slot -> ThRec] /\ proc \in [Slot -> ProcRec]
  BY ThFacts
<1>3. th[p].np # NULL
  BY <1>1, <1>2 DEF Local, Execs
<1>4. PICK q \in Slot :
        /\ q = th[p].np /\ q # NULL /\ q # p /\ proc[q].state = "USED" /\ Local(q) /\ proc[q] \in ProcRec
        /\ \A r \in Slot \ {p} : th[r].np # q
  BY <1>1, <1>3, KidUsed, KidOwn, ThFacts
<1>5. /\ th[p].ret # "growproc" /\ th[p].mem = 0 /\ free \in Nat
      /\ proc[q].trapframe /\ ~proc[q].usyscall
  <2>1. free \in Nat
    BY DEF IInv, Counted
  <2>2. th[p].ret # "growproc" /\ th[p].mem = 0
    BY <1>1, <1>2, <1>4 DEF Local, Single, ThRec
  <2>3. proc[q].trapframe /\ ~proc[q].usyscall
    BY <1>1, <1>2, <1>4 DEF Local, Forks
  <2> QED BY <2>1, <2>2, <2>3
<1>6. CASE free > 0 /\ free' = free - 1 /\ Goto(p, "create")
           /\ proc' = [proc EXCEPT ![q].usyscall = TRUE, ![q].upid = NewUpid(q)]
  <2>1. PICK x \in ThRec :
          /\ th' = [th EXCEPT ![p] = x] /\ x.np = q /\ x.pc = "create" /\ x.mem = 0
          /\ x.ret = th[p].ret
    <3>1. [th[p] EXCEPT !.pc = "create"] \in ThRec
      BY <1>2 DEF ThRec, Pc
    <3>2. th' = [th EXCEPT ![p] = [th[p] EXCEPT !.pc = "create"]]
      BY <1>2, <1>6 DEF Goto
    <3> QED BY <1>2, <1>4, <1>5, <3>1, <3>2 DEF ThRec
  <2>2. PICK y \in ProcRec :
          /\ proc' = [proc EXCEPT ![q] = y] /\ y.state = "USED" /\ y.trapframe /\ y.usyscall
          /\ y.sz = proc[q].sz /\ y.upid = y.pid
    <3>1. [proc[q] EXCEPT !.usyscall = TRUE, !.upid = proc[q].pid] \in ProcRec
      BY <1>4 DEF ProcRec
    <3>2. proc' = [proc EXCEPT ![q] = [proc[q] EXCEPT !.usyscall = TRUE, !.upid = proc[q].pid]]
      BY <1>2, <1>6 DEF NewUpid
    <3> QED BY <1>4, <1>5, <3>1, <3>2 DEF ProcRec
  <2>3. th'[p] = x /\ th'[q] = th[q] /\ proc'[q] = y /\ proc'[p] = proc[p]
    BY <1>2, <1>4, <2>1, <2>2
  <2>4. Local(p)'
    <3>1. Owner(p)'
      BY <1>1, <1>2, <1>5, <2>1, <2>3, OwnerKept DEF Local
    <3>2. Empty(p)' /\ Single(p)'
      BY <1>1, <1>2, <1>3, <1>5, <2>1, <2>3 DEF Local, Empty, Single
    <3>3. Forks(p)'
      <4>1. proc[q].sz = 0 /\ space'[q] = NoTable
        BY <1>1, <1>2, <1>4 DEF Local, Forks
      <4>2. proc'[q].state = "USED" /\ proc'[q].sz = 0
        BY <2>2, <2>3, <4>1
      <4> QED BY <1>4, <2>1, <2>2, <2>3, <4>1, <4>2 DEF Forks
    <3>4. Grows(p)' /\ Execs(p)'
      BY <1>4, <2>1, <2>3 DEF Grows, Execs
    <3> QED BY <3>1, <3>2, <3>3, <3>4 DEF Local
  <2>5. Local(q)'
    BY <1>1, <1>4, <2>2, <2>3, Kid
  <2>6. free' \in Nat /\ free' + x.mem + Kept(y) = free + th[p].mem + Kept(proc[q])
    BY <1>5, <1>6, <2>1, <2>2 DEF Kept
  <2> QED BY <1>1, <1>4, <2>1, <2>2, <2>4, <2>5, <2>6, ProcOnly
<1>7. CASE free = 0 /\ Goto(p, "freeproc") /\ UNCHANGED <<free, proc>>
  BY <1>1, <1>7, AllocFails
<1> QED BY <1>4, <1>6, <1>7 DEF AllocUsyscall

\* The child is complete: it becomes a process like the others.
LEMMA ForkReadyStep ==
  ASSUME IInv, NEW p \in Slot, ForkReady(p)
  PROVE  IInv'
<1>1. /\ proc[p].state = "LIVE" /\ th[p].pc = "copy" /\ UNCHANGED <<space, free>> /\ NoPanic'
      /\ ~(th[p].va * PGSIZE < proc[p].sz) /\ th' = [th EXCEPT ![p] = Idle]
  <2>1. /\ proc[p].state = "LIVE" /\ th[p].pc = "copy" /\ UNCHANGED <<space, free>> /\ NoPanic'
        /\ th[p].va * PGSIZE >= proc[p].sz /\ th' = [th EXCEPT ![p] = Idle]
    BY DEF ForkReady, At, Return, memory, IInv, NoPanic
  <2>2. th[p].va \in Nat /\ proc[p].sz \in Nat
    BY ThFacts DEF ThRec, ProcRec
  <2>3. th[p].va * PGSIZE \in Nat
    BY <2>2, ConstFacts
  <2> QED BY <2>1, <2>2, <2>3
<1>2. /\ th[p] \in ThRec /\ Local(p) /\ th \in [Slot -> ThRec] /\ proc \in [Slot -> ProcRec] /\ proc[p] \in ProcRec
  BY ThFacts
<1>3. PICK q \in Slot :
        /\ q = th[p].np /\ q # NULL /\ q # p /\ proc[q].state = "USED"
        /\ Shape(space[q], q, Maps, th[p].va) /\ th[p].va \in Nat /\ pages(proc[p].sz) \in Nat
        /\ th[p].va <= pages(proc[p].sz) /\ th[p].ret # "growproc"
        /\ \A r \in Slot \ {p} : th[r].np # q
  BY <1>1, CopyFacts, KidOwn
<1>4. th[p].va = pages(proc[p].sz)
  <2>1. ~(th[p].va < pages(proc[p].sz))
    BY <1>1, <1>2, <1>3, PagesFacts DEF ProcRec
  <2> QED BY <1>3, <2>1
<1>5. Local(q) /\ proc[q] \in ProcRec
  BY ThFacts
<1>6. th[p].mem = 0 /\ space[New(p)] = NoTable /\ proc[q].trapframe /\ proc[q].usyscall /\ proc[q].upid = proc[q].pid
  BY <1>1, <1>2, <1>3 DEF Local, Single, Forks, ThRec
<1>7. PICK y \in ProcRec :
        /\ proc' = [proc EXCEPT ![q] = y] /\ y.state = "LIVE" /\ y.sz = proc[p].sz
        /\ y.trapframe /\ y.usyscall /\ y.upid = y.pid
  <2>1. [proc[q] EXCEPT !.sz = proc[p].sz, !.parent = p, !.state = "LIVE"] \in ProcRec
    BY <1>2, <1>5 DEF ProcRec
  <2>2. proc' = [proc EXCEPT ![q] = [proc[q] EXCEPT !.sz = proc[p].sz, !.parent = p, !.state = "LIVE"]]
    BY <1>2, <1>3 DEF ForkReady
  <2> QED BY <1>5, <1>6, <2>1, <2>2 DEF ProcRec
<1>8. th'[p] = Idle /\ th'[q] = th[q] /\ proc'[q] = y /\ proc'[p] = proc[p]
  BY <1>1, <1>2, <1>3, <1>7
<1>9. th[q] = Idle /\ space[New(q)] = NoTable
  BY <1>3, <1>5, IdleFacts DEF Local, Empty, Single
<1>10. Local(p)'
  <2>1. Owner(p)'
    BY <1>1, <1>2, <1>3, <1>8, IdleFacts, OwnerKept DEF Local
  <2>2. Empty(p)'
    BY <1>1, <1>8 DEF Empty
  <2>3. Single(p)' /\ Forks(p)' /\ Grows(p)' /\ Execs(p)'
    BY <1>1, <1>6, <1>8, Returned
  <2> QED BY <2>1, <2>2, <2>3 DEF Local
<1>11. Local(q)'
  <2>1. Owner(q)'
    BY <1>1, <1>3, <1>4, <1>7, <1>8, <1>9, IdleFacts DEF Owner, Size
  <2>2. Empty(q)'
    BY <1>7, <1>8 DEF Empty
  <2>3. Single(q)' /\ Forks(q)' /\ Grows(q)' /\ Execs(q)'
    BY <1>1, <1>8, <1>9, Returned
  <2> QED BY <2>1, <2>2, <2>3 DEF Local
<1>12. free' \in Nat /\ free' + Idle.mem + Kept(y) = free + th[p].mem + Kept(proc[q])
  BY <1>1, <1>6, <1>7, IdleFacts DEF Kept, IInv, Counted
<1> QED BY <1>1, <1>3, <1>7, <1>10, <1>11, <1>12, IdleFacts, ProcOnly

\* A struct proc that is freed.
LEMMA FreeprocStep ==
  ASSUME IInv, NEW p \in Slot, freeproc(p)
  PROVE  IInv'
<1>1. /\ proc[p].state = "LIVE" /\ th[p].pc = "freeproc" /\ th' = [th EXCEPT ![p] = Idle]
      /\ proc' = [proc EXCEPT ![th[p].np] = NoProc]
  BY DEF freeproc, At, Return
<1>2. /\ th[p] \in ThRec /\ Local(p) /\ th \in [Slot -> ThRec] /\ proc \in [Slot -> ProcRec]
      /\ space \in [Table -> TableType]
  BY ThFacts
<1>3. th[p].np # NULL
  BY <1>1, <1>2 DEF Local, Execs
<1>4. PICK q \in Slot :
        /\ q = th[p].np /\ q # NULL /\ q # p /\ proc[q].state \in {"USED", "ZOMBIE"}
        /\ (\A r \in Slot \ {p} : th[r].np # q)
        /\ Local(q) /\ proc[q] \in ProcRec /\ q \in Table /\ New(q) \in Table /\ New(q) # q
        /\ q # New(p) /\ p \in Table /\ New(p) \in Table
  <2>1. th[p].np \in Slot /\ proc[th[p].np].state \in {"USED", "ZOMBIE"}
    BY <1>3, KidFacts
  <2>2. th[p].np # p
    BY <1>2, <1>3 DEF Local, Forks
  <2> QED BY <1>3, <2>1, <2>2, KidOwn, ThFacts, TableFacts
<1>5. th[p].ret # "growproc" /\ th[p].mem = 0 /\ space[New(p)] = NoTable
  BY <1>1, <1>2, <1>3 DEF Local, Single, ThRec
<1>6. th[q] = Idle /\ space[New(q)] = NoTable
  BY <1>4, IdleFacts DEF Local, Empty, Single
<1>7. PICK n \in Nat : /\ n = Kept(proc[q])
                       /\ IF space[q] # NoTable
                          THEN uvmfree(q, Maps, pages(proc[q].sz), n) /\ space' = Without(q)
                          ELSE free' = free + n /\ UNCHANGED <<space, panic>>
  BY <1>4 DEF freeproc, Kept
<1>8. NoProc \in ProcRec /\ Kept(NoProc) = 0 /\ NoProc.state = "UNUSED" /\ NoProc.sz = 0
      /\ ~NoProc.trapframe /\ ~NoProc.usyscall
  BY DEF NoProc, ProcRec, Kept, NULL
<1>9. th'[p] = Idle /\ th'[q] = Idle /\ proc'[q] = NoProc /\ proc'[p] = proc[p] /\ free \in Nat
      /\ proc' = [proc EXCEPT ![q] = NoProc]
  BY <1>1, <1>2, <1>4, <1>6 DEF IInv, Counted
<1>10. ASSUME space'[p] = space[p], space'[New(p)] = NoTable, space'[New(q)] = NoTable, space'[q] = NoTable
       PROVE  Local(p)' /\ Local(q)'
  <2>1. Owner(p)'
    BY <1>1, <1>2, <1>5, <1>9, <1>10, IdleFacts, OwnerKept DEF Local
  <2>2. Empty(p)'
    BY <1>1, <1>9 DEF Empty
  <2>3. Single(p)' /\ Forks(p)' /\ Grows(p)' /\ Execs(p)'
    BY <1>9, <1>10, Returned
  <2>4. Owner(q)' /\ Empty(q)'
    BY <1>8, <1>9, <1>10 DEF Owner, Empty
  <2>5. Single(q)' /\ Forks(q)' /\ Grows(q)' /\ Execs(q)'
    BY <1>9, <1>10, Returned
  <2> QED BY <2>1, <2>2, <2>3, <2>4, <2>5 DEF Local
<1>11. CASE space[q] = NoTable
  <2>1. UNCHANGED space /\ NoPanic' /\ free' = free + n
    BY <1>7, <1>11 DEF IInv, NoPanic
  <2>2. Local(p)' /\ Local(q)'
    BY <1>5, <1>6, <1>10, <1>11, <2>1
  <2>3. free' \in Nat /\ free' + Idle.mem + Kept(NoProc) = free + th[p].mem + Kept(proc[q])
    BY <1>5, <1>7, <1>8, <1>9, <2>1, IdleFacts
  <2>4. /\ proc[p].state = "LIVE" /\ th' = [th EXCEPT ![p] = Idle] /\ Idle \in ThRec /\ Idle.np \in {q, NULL}
        /\ proc' = [proc EXCEPT ![q] = NoProc] /\ NoProc \in ProcRec
        /\ \A r \in Slot \ {p} : th[r].np # q
    BY <1>1, <1>4, <1>8, <1>9, IdleFacts
  <2> QED BY <2>1, <2>2, <2>3, <2>4, ProcOnly
<1>12. CASE space[q] # NoTable
  <2>1. PICK k \in Nat : k = pages(proc[q].sz) /\ Shape(space[q], q, Maps, k)
    <3>1. pages(proc[q].sz) \in Nat
      BY <1>4, PagesFacts DEF ProcRec
    <3>2. CASE proc[q].state = "USED"
      <4>1. proc[q].sz = 0 /\ Shape(space[q], q, Maps, 0)
        BY <1>1, <1>2, <1>4, <1>12, <3>2 DEF Local, Forks
      <4> QED BY <3>1, <4>1, PagesZero
    <3>3. CASE proc[q].state = "ZOMBIE"
      <4>1. Shape(space[q], q, Maps, pages(proc[q].sz))
        BY <1>4, <1>6, <3>3, IdleFacts DEF Local, Owner, Size
      <4> QED BY <3>1, <4>1
    <3> QED BY <1>4, <3>2, <3>3
  <2>2. NoPanic' /\ free' \in Nat /\ free' = free + Weight(q) + n
    <3>1. uvmfree(q, Maps, k, n) /\ Maps \in SUBSET Maps
      BY <1>7, <1>12, <2>1
    <3> QED BY <1>4, <2>1, <3>1, FreeEffect
  <2>3. /\ SpaceType' /\ \A s \in Table \ {q} : space'[s] = space[s]
        /\ space'[q] = NoTable /\ IsFiniteSet(space'[q].tabs) /\ Weight(q)' = 0
    BY <1>4, <1>7, <1>12, WithoutEffect
  <2>4. Local(p)' /\ Local(q)'
    BY <1>4, <1>5, <1>6, <1>10, <2>3
  <2>5. Balanced(p, q, q, Idle, NoProc)
    <3>1. Weight(q) \in Nat
      BY <1>4, TabFacts
    <3> QED BY <1>5, <1>7, <1>8, <1>9, <2>2, <2>3, <3>1, IdleFacts DEF Balanced
  <2> QED BY <1>1, <1>4, <1>8, <1>9, <2>2, <2>3, <2>4, <2>5, IdleFacts, ProcStep
<1> QED BY <1>11, <1>12

\* uvmalloc is done: growproc sets the new size, exec goes on.
LEMMA GrowDoneStep ==
  ASSUME IInv, NEW p \in Slot, GrowDone(p)
  PROVE  IInv'
<1>1. /\ proc[p].state = "LIVE" /\ th[p].pc = "grow" /\ UNCHANGED <<space, free>> /\ NoPanic'
      /\ th[p].va * PGSIZE >= th[p].newsz
  BY DEF GrowDone, At, memory, IInv, NoPanic
<1>2. /\ th[p] \in ThRec /\ Local(p) /\ th \in [Slot -> ThRec] /\ proc \in [Slot -> ProcRec] /\ proc[p] \in ProcRec
  BY ThFacts
<1>3. PICK t \in Table, n \in Nat, k \in Nat :
        /\ t = th[p].pt /\ n = th[p].newsz /\ k = pages(n) /\ th[p].np = NULL
        /\ th[p].ret = "growproc" => t = p /\ space[New(p)] = NoTable
        /\ th[p].ret # "growproc" => t = New(p)
        /\ th[p].ret \in {"growproc", "segment", "stack"}
        /\ th[p].va \in Nat /\ th[p].va <= k /\ Shape(space[t], p, Maps, th[p].va)
  BY <1>1, GrowFacts
<1>4. Shape(space[t], p, Maps, k) /\ th[p].va = k
  <2>1. th[p].va * PGSIZE \in Nat
    BY <1>3, ConstFacts
  <2>2. ~(th[p].va * PGSIZE < n)
    BY <1>1, <1>3, <2>1
  <2>3. ~(th[p].va < k)
    BY <1>3, <2>2, PagesFacts
  <2>4. th[p].va = k
    BY <1>3, <2>3
  <2> QED BY <1>3, <2>4
<1>5. th[p].mem = 0 /\ free \in Nat
  BY <1>1, <1>2 DEF Local, Single, ThRec, IInv, Counted
<1>6. CASE th[p].ret = "growproc"
  <2>1. th' = [th EXCEPT ![p] = Idle] /\ proc' = [proc EXCEPT ![p].sz = n]
    BY <1>3, <1>6 DEF GrowDone, Return
  <2>2. PICK y \in ProcRec :
          /\ proc' = [proc EXCEPT ![p] = y] /\ y.sz = n /\ y.state = "LIVE" /\ y.pid = proc[p].pid
          /\ y.trapframe = proc[p].trapframe /\ y.usyscall = proc[p].usyscall /\ y.upid = proc[p].upid
    <3>1. [proc[p] EXCEPT !.sz = n] \in ProcRec
      BY <1>2 DEF ProcRec
    <3>2. proc' = [proc EXCEPT ![p] = [proc[p] EXCEPT !.sz = n]]
      BY <1>2, <2>1
    <3> QED BY <1>1, <1>2, <3>1, <3>2 DEF ProcRec
  <2>3. th'[p] = Idle /\ proc'[p] = y
    BY <1>2, <2>1, <2>2
  <2>4. Local(p)'
    <3>1. Owner(p)'
      BY <1>1, <1>2, <1>3, <1>4, <1>6, <2>2, <2>3, IdleFacts DEF Local, Owner, Size
    <3>2. Empty(p)'
      BY <2>2, <2>3 DEF Empty
    <3>3. Single(p)' /\ Forks(p)' /\ Grows(p)' /\ Execs(p)'
      BY <1>1, <1>3, <1>6, <2>3, Returned
    <3> QED BY <3>1, <3>2, <3>3 DEF Local
  <2>5. free' \in Nat /\ free' + Idle.mem + Kept(y) = free + th[p].mem + Kept(proc[p])
    BY <1>1, <1>5, <2>2, IdleFacts DEF Kept
  <2>6. /\ proc[p].state = "LIVE" /\ UNCHANGED space /\ NoPanic' /\ th' = [th EXCEPT ![p] = Idle]
        /\ NULL \in Slot \cup {NULL} /\ Idle \in ThRec /\ Idle.np \in {NULL, NULL} /\ p \in {p, NULL}
    BY <1>1, <2>1, IdleFacts
  <2> QED BY <2>2, <2>4, <2>5, <2>6, ProcOnly
<1>7. CASE th[p].ret # "growproc"
  <2>1. PICK l \in {"bad", "segment", "stack"} : l = IF n = 0 THEN "bad" ELSE th[p].ret
    BY <1>3, <1>7
  <2>2. th' = [th EXCEPT ![p].sz = n, ![p].pc = l] /\ UNCHANGED proc
    BY <1>3, <1>7, <2>1 DEF GrowDone
  <2>3. PICK x \in ThRec :
          /\ th' = [th EXCEPT ![p] = x] /\ x.sz = n /\ x.pc = l /\ x.np = NULL /\ x.mem = 0
          /\ x.ret = th[p].ret /\ x.img = th[p].img /\ x.pt = t
    <3>1. [th[p] EXCEPT !.sz = n, !.pc = l] \in ThRec
      BY <1>2 DEF ThRec, Pc
    <3>2. th' = [th EXCEPT ![p] = [th[p] EXCEPT !.sz = n, !.pc = l]]
      BY <1>2, <2>2
    <3> QED BY <1>2, <1>3, <1>5, <3>1, <3>2 DEF ThRec
  <2>4. th'[p] = x
    BY <1>2, <2>3
  <2>5. Owner(p)'
    BY <1>1, <1>2, <1>7, <2>2, <2>3, <2>4, OwnerKept DEF Local
  <2>6. Single(p)' /\ Forks(p)' /\ Grows(p)'
    BY <1>7, <2>3, <2>4 DEF Single, Forks, Grows
  <2>7. Execs(p)'
    <3>1. th[p].ret = "segment" => /\ th[p].img # <<>>
                                   /\ n = Head(th[p].img).vaddr + Head(th[p].img).memsz
      BY <1>1, <1>2, <1>3 DEF Local, Grows
    <3>2. th[p].ret = "stack" => n = pages(n) * PGSIZE /\ pages(n) >= 2
      BY <1>1, <1>2, <1>3 DEF Local, Grows
    <3>3. \A v \in Va : space[New(p)].leaf[v].page = "user" => "U" \in space[New(p)].leaf[v].flags
      BY <1>1, <1>2, <1>3, <1>7 DEF Local, Execs
    <3>4. n <= n
      OBVIOUS
    <3> QED BY <1>1, <1>3, <1>4, <1>7, <2>1, <2>3, <2>4, <3>1, <3>2, <3>3, <3>4 DEF Execs
  <2>8. free' \in Nat /\ free' + x.mem = free + th[p].mem
    BY <1>1, <1>5, <2>3
  <2> QED BY <1>1, <1>3, <2>2, <2>3, <2>5, <2>6, <2>7, <2>8, ThreadOnly
<1> QED BY <1>6, <1>7

LEMMA DeallocStep ==
  ASSUME IInv, NEW p \in Slot, NEW n \in GrowNs, uvmdealloc(p, n)
  PROVE  IInv'
<1>1. /\ At(p, "user") /\ UNCHANGED th /\ Sum(p, n) < proc[p].sz
      /\ uvmunmap(p, pages(Sum(p, n))..(pages(proc[p].sz) - 1), 0)
      /\ proc' = [proc EXCEPT ![p].sz = Sum(p, n)]
  BY DEF uvmdealloc
<1>2. /\ th[p] \in ThRec /\ th \in [Slot -> ThRec] /\ proc \in [Slot -> ProcRec] /\ proc[p] \in ProcRec
      /\ p \in Table /\ New(p) \in Table /\ p # New(p)
  BY ThFacts
<1>3. PICK s \in Nat, m \in Nat, k \in Nat :
        /\ s = Sum(p, n) /\ m = pages(s) /\ k = pages(proc[p].sz) /\ m <= k
        /\ Shape(space[p], p, Maps, k) /\ proc[p].state = "LIVE" /\ Local(p) /\ th[p] = Idle
        /\ space[New(p)] = NoTable
  <2>1. Sum(p, n) \in Nat
    BY <1>1, SumFacts
  <2>2. proc[p].sz \in Nat /\ Sum(p, n) <= proc[p].sz
    BY <1>1, <2>1, UserFacts
  <2>3. pages(Sum(p, n)) <= pages(proc[p].sz) /\ pages(Sum(p, n)) \in Nat
    BY <2>1, <2>2, PagesMonotone, PagesFacts
  <2> QED BY <1>1, <2>1, <2>3, UserFacts
<1>4. /\ SpaceType' /\ \A u \in Table \ {p} : space'[u] = space[u]
      /\ Shape(space'[p], p, Maps, m) /\ IsFiniteSet(space'[p].tabs) /\ NoPanic'
      /\ free' \in Nat /\ free' + Weight(p)' = free + Weight(p) + 0
  <2>1. uvmunmap(p, m..(k - 1), 0) /\ 0 \in Nat
    BY <1>1, <1>3
  <2>2. CutTo(p, p, m, 0)
    BY <1>2, <1>3, <2>1, CutOff
  <2> QED BY <2>2 DEF CutTo
<1>5. PICK y \in ProcRec :
        /\ proc' = [proc EXCEPT ![p] = y] /\ y.sz = s /\ y.state = "LIVE" /\ y.pid = proc[p].pid
        /\ y.trapframe = proc[p].trapframe /\ y.usyscall = proc[p].usyscall /\ y.upid = proc[p].upid
  <2>1. [proc[p] EXCEPT !.sz = s] \in ProcRec
    BY <1>2 DEF ProcRec
  <2>2. proc' = [proc EXCEPT ![p] = [proc[p] EXCEPT !.sz = s]]
    BY <1>1, <1>2, <1>3
  <2> QED BY <1>2, <1>3, <2>1, <2>2 DEF ProcRec
<1>6. /\ th'[p] = Idle /\ proc'[p] = y /\ th' = [th EXCEPT ![p] = Idle] /\ space'[New(p)] = NoTable
  BY <1>1, <1>2, <1>3, <1>4, <1>5
<1>7. Local(p)'
  <2>1. Owner(p)'
    BY <1>3, <1>4, <1>5, <1>6, IdleFacts DEF Local, Owner, Size
  <2>2. Empty(p)'
    BY <1>5, <1>6 DEF Empty
  <2>3. Single(p)' /\ Forks(p)' /\ Grows(p)' /\ Execs(p)'
    BY <1>6, Returned
  <2> QED BY <2>1, <2>2, <2>3 DEF Local
<1>8. Balanced(p, p, p, Idle, y)
  <2>1. Weight(p)' \in Nat
    BY <1>4, WeightNext
  <2>2. Weight(p) \in Nat /\ free \in Nat
    BY <1>2, TabFacts
  <2>3. Kept(y) = Kept(proc[p]) /\ Kept(y) \in Nat
    BY <1>5 DEF Kept
  <2> QED BY <1>3, <1>4, <2>1, <2>2, <2>3, IdleFacts DEF Balanced
<1>9. NULL \in Slot \cup {NULL} /\ Idle \in ThRec /\ Idle.np \in {NULL, NULL} /\ p \in {p, NULL} /\ p \in {p, NULL, New(p)}
  BY IdleFacts
<1> QED BY <1>2, <1>3, <1>4, <1>5, <1>6, <1>7, <1>8, <1>9, ProcStep

----------------------------------------------------------------------------
(* wait and exit                                                           *)

\* wait finds an exited child, and may write to the usyscall page of its caller.
LEMMA ReapStep ==
  ASSUME IInv, NEW p \in Slot, NEW q \in Slot, Reap(p, q),
         NEW y \in ProcRec, proc' = [proc EXCEPT ![p] = y],
         y.state = proc[p].state, y.sz = proc[p].sz, y.pid = proc[p].pid, y.trapframe = proc[p].trapframe,
         y.usyscall = proc[p].usyscall, y.upid \in {proc[p].upid, Copied}
  PROVE  IInv'
<1>1. /\ At(p, "user") /\ proc[q].state = "ZOMBIE" /\ proc[q].parent = p
      /\ th' = [th EXCEPT ![p].np = q, ![p].pc = "freeproc"] /\ UNCHANGED <<space, free>> /\ NoPanic'
  BY DEF Reap, memory, IInv, NoPanic
<1>2. /\ proc[p].state = "LIVE" /\ th[p] = Idle /\ th[p].ret = "none"
      /\ th[p].mem = 0 /\ space[New(p)] = NoTable /\ Local(p)
  BY <1>1, UserFacts
<1>3. /\ th[p] \in ThRec /\ th \in [Slot -> ThRec] /\ proc \in [Slot -> ProcRec] /\ Local(q)
      /\ q # NULL /\ q # p
  BY <1>1, <1>2, ThFacts
<1>4. \A r \in Slot \ {p} : th[r].np # q
  <2> SUFFICES ASSUME NEW r \in Slot \ {p}, th[r].np = q PROVE FALSE
    OBVIOUS
  <2>1. Local(r)
    BY ThFacts
  <2> QED BY <1>1, <1>3, <2>1 DEF Local, Forks
<1>5. PICK x \in ThRec :
        /\ th' = [th EXCEPT ![p] = x] /\ x.np = q /\ x.pc = "freeproc" /\ x.ret = "none" /\ x.mem = 0
  <2>1. [th[p] EXCEPT !.np = q, !.pc = "freeproc"] \in ThRec
    BY <1>3 DEF ThRec, Pc
  <2>2. th' = [th EXCEPT ![p] = [th[p] EXCEPT !.np = q, !.pc = "freeproc"]]
    BY <1>1, <1>3
  <2> QED BY <1>2, <1>3, <2>1, <2>2 DEF ThRec
<1>6. th'[p] = x /\ th'[q] = th[q] /\ proc'[p] = y /\ proc'[q] = proc[q]
  BY <1>3, <1>5
<1>7. Local(p)'
  <2>1. Owner(p)'
    BY <1>1, <1>2, <1>5, <1>6 DEF Local, Owner, Size
  <2>2. Empty(p)' /\ Single(p)'
    BY <1>1, <1>2, <1>5, <1>6 DEF Empty, Single
  <2>3. Forks(p)'
    BY <1>1, <1>3, <1>5, <1>6 DEF Forks
  <2>4. Grows(p)' /\ Execs(p)'
    BY <1>3, <1>5, <1>6 DEF Grows, Execs
  <2> QED BY <2>1, <2>2, <2>3, <2>4 DEF Local
<1>8. Local(q)'
  <2>1. th[q].np = NULL
    BY <1>1, <1>3, IdleFacts DEF Local, Empty
  <2> QED BY <1>1, <1>3, <1>6, <2>1, Frame
<1>9. free' \in Nat /\ free' + x.mem + Kept(y) = free + th[p].mem + Kept(proc[p])
  BY <1>1, <1>2, <1>5 DEF Kept, IInv, Counted
<1> QED BY <1>1, <1>2, <1>4, <1>5, <1>7, <1>8, <1>9, ProcOnly

LEMMA WaitStep ==
  ASSUME IInv, NEW p \in Slot, NEW q \in Slot, wait(p, q)
  PROVE  IInv'
<1>1. proc' = [proc EXCEPT ![p] = proc[p]] /\ proc[p] \in ProcRec /\ Reap(p, q)
  BY ThFacts DEF wait
<1> QED BY <1>1, ReapStep

\* The process after copyout: nothing but the page of its caller may change.
LEMMA CopyoutFacts ==
  ASSUME IInv, NEW p \in Slot, NEW v \in CopyVas, copyout(p, v)
  PROVE  \E y \in ProcRec :
           /\ proc' = [proc EXCEPT ![p] = y]
           /\ y.state = proc[p].state /\ y.sz = proc[p].sz /\ y.pid = proc[p].pid
           /\ y.trapframe = proc[p].trapframe /\ y.usyscall = proc[p].usyscall
           /\ y.upid \in {proc[p].upid, Copied}
<1>1. proc \in [Slot -> ProcRec] /\ proc[p] \in ProcRec
  BY ThFacts
<1>2. CASE v = USYSCALL
  <2> DEFINE y == [proc[p] EXCEPT !.upid = Copied]
  <2>1. y \in ProcRec
    BY <1>1 DEF ProcRec
  <2>2. proc' = [proc EXCEPT ![p] = y]
    BY <1>1, <1>2 DEF copyout
  <2>3. /\ y.state = proc[p].state /\ y.sz = proc[p].sz /\ y.pid = proc[p].pid
        /\ y.trapframe = proc[p].trapframe /\ y.usyscall = proc[p].usyscall
        /\ y.upid \in {proc[p].upid, Copied}
    BY <1>1 DEF ProcRec
  <2> HIDE DEF y
  <2> QED BY <2>1, <2>2, <2>3
<1>3. CASE v # USYSCALL
  <2>1. proc' = [proc EXCEPT ![p] = proc[p]]
    BY <1>1, <1>3 DEF copyout
  <2> QED BY <1>1, <2>1
<1> QED BY <1>2, <1>3

LEMMA WaitStatusStep ==
  ASSUME IInv, NEW p \in Slot, NEW q \in Slot, NEW v \in CopyVas, WaitStatus(p, q, v)
  PROVE  IInv'
<1>1. Reap(p, q) /\ copyout(p, v)
  BY DEF WaitStatus
<1> QED BY <1>1, CopyoutFacts, ReapStep

LEMMA EitherCopyoutStep ==
  ASSUME IInv, NEW p \in Slot, NEW v \in CopyVas, either_copyout(p, v)
  PROVE  IInv'
<1>1. At(p, "user") /\ copyout(p, v) /\ UNCHANGED <<space, free, th>> /\ NoPanic'
  BY DEF either_copyout, memory, IInv, NoPanic
<1>2. PICK y \in ProcRec :
        /\ proc' = [proc EXCEPT ![p] = y]
        /\ y.state = proc[p].state /\ y.sz = proc[p].sz /\ y.pid = proc[p].pid
        /\ y.trapframe = proc[p].trapframe /\ y.usyscall = proc[p].usyscall
        /\ y.upid \in {proc[p].upid, Copied}
  BY <1>1, CopyoutFacts
<1>3. /\ proc[p].state = "LIVE" /\ th[p].np = NULL /\ Local(p)
      /\ proc \in [Slot -> ProcRec] /\ th \in [Slot -> ThRec] /\ th[p] \in ThRec
  BY <1>1, UserFacts, ThFacts
<1>4. th' = [th EXCEPT ![p] = th[p]] /\ proc'[p] = y /\ th'[p] = th[p]
  BY <1>1, <1>2, <1>3
<1>5. Local(p)'
  <2>1. Owner(p)'
    BY <1>1, <1>2, <1>3, <1>4 DEF Local, Owner, Size
  <2>2. Empty(p)' /\ Single(p)'
    BY <1>1, <1>2, <1>3, <1>4 DEF Local, Empty, Single
  <2>3. Forks(p)'
    BY <1>1, <1>3, <1>4 DEF Forks
  <2>4. Grows(p)' /\ Execs(p)'
    BY <1>1, <1>2, <1>3, <1>4 DEF Local, Grows, Execs
  <2> QED BY <2>1, <2>2, <2>3, <2>4 DEF Local
<1>6. free' \in Nat /\ free' + th[p].mem + Kept(y) = free + th[p].mem + Kept(proc[p])
  BY <1>1, <1>2 DEF Kept, IInv, Counted
<1> QED BY <1>1, <1>2, <1>3, <1>4, <1>5, <1>6, ProcOnly

\* exit hands over the children of p, and changes nothing that Local(r) is about.
LEMMA FrameExit ==
  ASSUME NEW p \in Slot, NEW r \in Slot \ {p}, Local(r), UNCHANGED <<space, th>>,
         NEW S, S = Slot \ {p}, r \in S, th[r].np # NULL => th[r].np \in S,
         \A q \in S : /\ proc'[q].state = proc[q].state /\ proc'[q].pid = proc[q].pid
                      /\ proc'[q].sz = proc[q].sz /\ proc'[q].trapframe = proc[q].trapframe
                      /\ proc'[q].usyscall = proc[q].usyscall /\ proc'[q].upid = proc[q].upid
                      /\ proc[q].parent # p => proc'[q].parent = proc[q].parent
  PROVE  Local(r)'
<1>1. /\ proc'[r].state = proc[r].state /\ proc'[r].pid = proc[r].pid /\ proc'[r].sz = proc[r].sz
      /\ proc'[r].trapframe = proc[r].trapframe /\ proc'[r].usyscall = proc[r].usyscall
      /\ proc'[r].upid = proc[r].upid
  OBVIOUS
<1>2. th[r].np # NULL =>
        LET q == th[r].np IN
        /\ proc'[q].state = proc[q].state /\ proc'[q].pid = proc[q].pid /\ proc'[q].sz = proc[q].sz
        /\ proc'[q].trapframe = proc[q].trapframe /\ proc'[q].usyscall = proc[q].usyscall
        /\ proc'[q].upid = proc[q].upid /\ (proc[q].parent = r => proc'[q].parent = r)
  OBVIOUS
<1>3. th' = th /\ space' = space
  OBVIOUS
<1>4. Owner(r)' /\ Empty(r)' /\ Single(r)'
  BY <1>1, <1>3 DEF Local, Owner, Empty, Single, Size
<1>5. Forks(r)'
  BY <1>1, <1>2, <1>3 DEF Local, Forks
<1>6. Grows(r)' /\ Execs(r)'
  BY <1>1, <1>3 DEF Local, Grows, Execs
<1> QED BY <1>4, <1>5, <1>6 DEF Local

LEMMA ExitStep ==
  ASSUME IInv, NEW p \in Slot, exit(p)
  PROVE  IInv'
<1>1. /\ At(p, "user") /\ UNCHANGED <<free, space, th>> /\ NoPanic'
      /\ proc' = [q \in Slot |-> [proc[q] EXCEPT
            !.parent = reparent(p, q), !.state = IF q = p THEN "ZOMBIE" ELSE @]]
  BY DEF exit, memory, IInv, NoPanic
<1>2. /\ proc[p].state = "LIVE" /\ th[p] = Idle /\ space[New(p)] = NoTable /\ Local(p)
      /\ Shape(space[p], p, Maps, pages(proc[p].sz))
  BY <1>1, UserFacts
<1>3. proc \in [Slot -> ProcRec] /\ initproc \in Slot
  BY ThFacts, ConstFacts DEF initproc, Slot
<1>4. ASSUME NEW q \in Slot
      PROVE  /\ proc'[q] \in ProcRec /\ proc'[q].pid = proc[q].pid
             /\ proc'[q].sz = proc[q].sz /\ proc'[q].trapframe = proc[q].trapframe
             /\ proc'[q].usyscall = proc[q].usyscall /\ proc'[q].upid = proc[q].upid
             /\ proc[q].parent # p => proc'[q].parent = proc[q].parent
             /\ proc'[q].state = IF q = p THEN "ZOMBIE" ELSE proc[q].state
  <2>1. proc[q] \in ProcRec
    BY <1>3
  <2>2. reparent(p, q) \in Slot \cup {NULL} /\ (proc[q].parent # p => reparent(p, q) = proc[q].parent)
    BY <1>3, <2>1 DEF reparent, ProcRec
  <2>3. PICK s \in {"UNUSED", "USED", "LIVE", "ZOMBIE"} : s = IF q = p THEN "ZOMBIE" ELSE proc[q].state
    BY <2>1 DEF ProcRec
  <2>4. proc'[q] = [proc[q] EXCEPT !.parent = reparent(p, q), !.state = s]
    BY <1>1, <2>3
  <2> QED BY <2>1, <2>2, <2>3, <2>4 DEF ProcRec
<1>5. Types'
  <2>1. proc' \in [Slot -> ProcRec]
    <3>1. DOMAIN proc' = Slot /\ proc' = [q \in Slot |-> proc'[q]]
      BY <1>1
    <3> QED BY <1>4, <3>1
  <2> QED BY <1>1, <2>1 DEF IInv, Types, SpaceType, ProcType, ThType
<1>6. \A r \in Slot \ {p} : Local(r)'
  <2> TAKE r \in Slot \ {p}
  <2>1. Local(r)
    BY ThFacts
  <2>2. th[r].np # NULL => th[r].np \in Slot \ {p}
    BY <1>2, KidFacts
  <2>3. \A q \in Slot \ {p} :
          /\ proc'[q].state = proc[q].state /\ proc'[q].pid = proc[q].pid
          /\ proc'[q].sz = proc[q].sz /\ proc'[q].trapframe = proc[q].trapframe
          /\ proc'[q].usyscall = proc[q].usyscall /\ proc'[q].upid = proc[q].upid
          /\ proc[q].parent # p => proc'[q].parent = proc[q].parent
    BY <1>4
  <2> QED BY <1>1, <2>1, <2>2, <2>3, FrameExit
<1>7. Local(p)'
  <2>1. /\ proc'[p].pid = proc[p].pid /\ proc'[p].sz = proc[p].sz /\ proc'[p].trapframe = proc[p].trapframe
        /\ proc'[p].usyscall = proc[p].usyscall /\ proc'[p].upid = proc[p].upid
        /\ proc'[p].state = "ZOMBIE"
    BY <1>4
  <2>2. th'[p] = Idle /\ space'[p] = space[p] /\ space'[New(p)] = NoTable
    BY <1>1, <1>2
  <2>3. Owner(p)' /\ Empty(p)'
    BY <1>2, <2>1, <2>2, IdleFacts DEF Local, Owner, Empty, Size
  <2>4. Single(p)' /\ Forks(p)' /\ Grows(p)' /\ Execs(p)'
    BY <2>2, Returned
  <2> QED BY <2>3, <2>4 DEF Local
<1>8. Unshared'
  BY <1>1 DEF IInv, Unshared
<1>9. Counted'
  <2>1. HasFrame' = HasFrame /\ HasCall' = HasCall
    BY <1>4 DEF HasFrame, HasCall
  <2>2. HasMem' = HasMem
    BY <1>1 DEF HasMem
  <2> QED BY <1>1, <2>1, <2>2, CountSame
<1> QED BY <1>1, <1>5, <1>6, <1>7, <1>8, <1>9 DEF IInv

\* exec replaces the old table by the new one and frees it.
LEMMA CommitStep ==
  ASSUME IInv, NEW p \in Slot, Commit(p)
  PROVE  IInv'
<1>1. /\ proc[p].state = "LIVE" /\ th[p].pc = "push" /\ proc' = [proc EXCEPT ![p].sz = th[p].sz]
      /\ uvmfree(p, Maps, pages(proc[p].sz), 0) /\ th' = [th EXCEPT ![p] = Idle]
      /\ space' = [Without(th[p].pt) EXCEPT ![p] = space[th[p].pt]]
  BY DEF Commit, At, Return
<1>2. /\ th[p] \in ThRec /\ Local(p) /\ th \in [Slot -> ThRec] /\ proc \in [Slot -> ProcRec]
      /\ proc[p] \in ProcRec /\ space \in [Table -> TableType] /\ p \in Table
  BY ThFacts
<1>3. PICK t \in Table :
        /\ t = New(p) /\ t = th[p].pt /\ t # p /\ space[t] \in TableType /\ th[p].np = NULL
        /\ th[p].ret # "growproc" /\ th[p].mem = 0 /\ th[p].sz \in Nat
        /\ Shape(space[t], p, Maps, pages(th[p].sz))
  BY <1>1, ExecFacts
<1>4. NoPanic' /\ free' \in Nat /\ free' = free + Weight(p)
  <2>1. Shape(space[p], p, Maps, pages(proc[p].sz))
    BY <1>1, <1>2, <1>3 DEF Local, Owner, Size
  <2>2. pages(proc[p].sz) \in Nat /\ 0 \in Nat /\ Maps \in SUBSET Maps
    BY <1>2, PagesFacts DEF ProcRec
  <2>3. free \in Nat /\ Weight(p) \in Nat
    BY <1>2, TabFacts
  <2> QED BY <1>1, <1>2, <2>1, <2>2, <2>3, FreeEffect
<1>5. /\ space'[p] = space[t] /\ space'[t] = NoTable /\ \A s \in Table \ {t, p} : space'[s] = space[s]
      /\ SpaceType'
  <2>1. /\ Without(t) \in [Table -> TableType] /\ Without(t)[t] = NoTable
        /\ \A s \in Table \ {t} : Without(t)[s] = space[s]
    BY <1>2, ShapeRoot DEF Without
  <2> QED BY <1>1, <1>2, <1>3, <2>1 DEF SpaceType
<1>6. PICK y \in ProcRec :
        /\ proc' = [proc EXCEPT ![p] = y] /\ y.sz = th[p].sz /\ y.state = "LIVE" /\ y.pid = proc[p].pid
        /\ y.trapframe = proc[p].trapframe /\ y.usyscall = proc[p].usyscall /\ y.upid = proc[p].upid
  <2>1. [proc[p] EXCEPT !.sz = th[p].sz] \in ProcRec
    BY <1>2, <1>3 DEF ProcRec
  <2>2. proc' = [proc EXCEPT ![p] = [proc[p] EXCEPT !.sz = th[p].sz]]
    BY <1>1, <1>2
  <2> QED BY <1>1, <1>2, <2>1, <2>2 DEF ProcRec
<1>7. /\ th'[p] = Idle /\ proc'[p] = y /\ \A r \in Slot \ {p} : th'[r] = th[r] /\ proc'[r] = proc[r]
  BY <1>1, <1>2, <1>6
<1>8. Local(p)'
  <2>1. Owner(p)'
    BY <1>1, <1>2, <1>3, <1>5, <1>6, <1>7, IdleFacts DEF Local, Owner, Size
  <2>2. Empty(p)'
    BY <1>6, <1>7 DEF Empty
  <2>3. Single(p)' /\ Forks(p)' /\ Grows(p)' /\ Execs(p)'
    BY <1>3, <1>5, <1>7, Returned
  <2> QED BY <2>1, <2>2, <2>3 DEF Local
<1>9. (\A r \in Slot : Local(r))' /\ Unshared'
  <2>1. /\ NULL \in Slot \cup {NULL} /\ th'[p].np \in {NULL, NULL}
        /\ \A s \in Table \ {p, NULL, New(p)} : space'[s] = space[s]
        /\ \A r \in Slot \ {p} : th'[r] = th[r]
        /\ \A r \in Slot \ {p, NULL} : proc'[r] = proc[r]
    BY <1>3, <1>5, <1>7, IdleFacts
  <2> QED BY <1>1, <1>8, <2>1, Others
<1>10. Types'
  <2>1. proc' \in [Slot -> ProcRec] /\ th' \in [Slot -> ThRec]
    BY <1>1, <1>2, <1>6, IdleFacts
  <2> QED BY <1>5, <2>1 DEF Types, ProcType, ThType
<1>11. TabsFinite'
  <2>1. \A s \in Table : IsFiniteSet(space[s].tabs)
    BY DEF IInv, Counted
  <2> QED BY <1>2, <1>3, <1>5, <2>1, WeightNew DEF TabsFinite
<1>12. PagesCounted'
  <2>1. Weight(p)' = Weight(t) /\ Weight(t)' = 0
    BY <1>5, WeightIs, WeightNew
  <2>2. Loose' = Loose /\ Loose \in Nat
    <3>1. /\ Loose \in Nat /\ Loose' \in Nat
          /\ Loose' + th[p].mem + Kept(proc[p]) = Loose + Idle.mem + Kept(y)
      BY <1>1, <1>6, IdleFacts, LooseStep
    <3>2. Kept(y) = Kept(proc[p]) /\ Kept(y) \in Nat
      BY <1>6 DEF Kept
    <3> QED BY <1>3, <3>1, <3>2, IdleFacts
  <2>3. free \in Nat /\ Weight(p) \in Nat /\ Weight(t) \in Nat
    BY <1>2, TabFacts
  <2>4. free' + Weight(p)' + Weight(t)' + Loose' = free + Weight(p) + Weight(t) + Loose
    BY <1>4, <2>1, <2>2, <2>3
  <2>5. p # t /\ (\A s \in Table \ {p, t} : space'[s] = space[s]) /\ free' \in Int
    BY <1>3, <1>4, <1>5
  <2> QED BY <1>2, <1>11, <2>4, <2>5, CountTwo
<1> QED BY <1>4, <1>9, <1>10, <1>11, <1>12 DEF IInv, Counted, TabsFinite

----------------------------------------------------------------------------
(* The first process                                                       *)

LEMMA PileOne ==
  ASSUME NEW k, NEW F, NEW t \in Table, IsFiniteSet(F[t]), \A s \in Table \ {t} : F[s] = {}
  PROVE  Cardinality(Pile(k, F)) = Cardinality(F[t])
<1> DEFINE G == [s \in Table |-> {}]
<1>1. IsFiniteSet({}) /\ Cardinality({}) = 0
  BY FS_EmptySet
<1>2. /\ \A s \in Table : IsFiniteSet(F[s]) /\ G[s] = {}
      /\ \A s \in Table \ {t} : F[s] = G[s]
  BY <1>1
<1>3. Pile(k, G) = {}
  BY DEF Pile, Tagged
<1> HIDE DEF G
<1>4. /\ Cardinality(Pile(k, F)) \in Nat
      /\ Cardinality(Pile(k, F)) + Cardinality(G[t]) = Cardinality(Pile(k, G)) + Cardinality(F[t])
  BY <1>1, <1>2, PileStep
<1>5. Cardinality(F[t]) \in Nat
  BY FS_CardinalityType
<1>6. Cardinality(G[t]) = 0
  BY <1>1, <1>2, Zenon
<1>7. Cardinality(Pile(k, G)) = 0
  BY <1>1, <1>3, Zenon
<1> QED BY <1>4, <1>5, <1>6, <1>7

LEMMA AddOne ==
  ASSUME NEW S, NEW x, NEW n \in Nat, IsFiniteSet(S), Cardinality(S) <= n
  PROVE  /\ IsFiniteSet(S \cup {x})
         /\ Cardinality(S \cup {x}) \in Nat
         /\ Cardinality(S \cup {x}) <= n + 1
<1>1. /\ IsFiniteSet(S \cup {x})
      /\ Cardinality(S \cup {x}) = IF x \in S THEN Cardinality(S) ELSE Cardinality(S) + 1
  BY FS_AddElement
<1>2. Cardinality(S) \in Nat /\ Cardinality(S \cup {x}) \in Nat
  BY <1>1, FS_CardinalityType
<1> QED BY <1>1, <1>2

LEMMA FirstTable ==
  /\ uvmfirst \in TableType /\ Shape(uvmfirst, initproc, Maps, 1)
  /\ IsFiniteSet(uvmfirst.tabs) /\ Cardinality(uvmfirst.tabs) \in 0..5
<1>1. initproc \in Slot /\ 0 \notin Maps /\ 1 <= USYSCALL /\ USYSCALL \in Va /\ 0 \in Va /\ Maps \subseteq Va
  BY ConstFacts DEF initproc, Slot, Maps
<1>2. \A v \in Va : uvmfirst.leaf[v] = IF v = 0 THEN Pte("user", NULL, {"R", "W", "X", "U"})
                                       ELSE IF v \in Maps THEN MapOf(initproc, v) ELSE NoPte
  BY DEF uvmfirst
<1>3. uvmfirst.leaf \in [Va -> PteType]
  <2>1. Pte("user", NULL, {"R", "W", "X", "U"}) \in PteType /\ NoPte \in PteType
    BY DEF Pte, PteType, Page, NoPte
  <2>2. \A v \in Maps : MapOf(initproc, v) \in PteType
    BY <1>1, MapOfFacts
  <2> QED BY <2>1, <2>2 DEF uvmfirst
<1>4. uvmfirst.tabs = {<<>>} \cup Path(0) \cup Path(USYSCALL)
  BY DEF uvmfirst
<1>5. uvmfirst.tabs \in SUBSET Seq(Nat)
  <2>1. <<>> \in Seq(Nat)
    OBVIOUS
  <2> QED BY <1>1, <1>4, <2>1, PathFacts
<1>6. uvmfirst \in TableType
  BY <1>3, <1>5 DEF TableType, uvmfirst
<1>7. Shape(uvmfirst, initproc, Maps, 1)
  <2>1. \A v \in Maps : uvmfirst.leaf[v] = MapOf(initproc, v)
    BY <1>1, <1>2
  <2>2. \A v \in Va : v < 1 <=> v = 0
    BY ConstFacts
  <2>3. Pte("user", NULL, {"R", "W", "X", "U"}).page = "user"
    BY DEF Pte
  <2>4. \A v \in Va \ Maps : IF v < 1 THEN uvmfirst.leaf[v].page = "user" ELSE uvmfirst.leaf[v] = NoPte
    BY <1>2, <2>2, <2>3
  <2>5. \A v \in Maps : Path(v) \subseteq uvmfirst.tabs
    <3>1. USYSCALL \in Maps
      BY DEF Maps
    <3> QED BY <1>4, <3>1, PathFacts
  <2>6. \A v \in Va : v \in Maps \/ v < 1 => Path(v) \subseteq uvmfirst.tabs
    BY <1>4, <2>2, <2>5
  <2> QED BY <1>1, <1>4, <2>1, <2>4, <2>6 DEF Shape
<1>8. IsFiniteSet(uvmfirst.tabs) /\ Cardinality(uvmfirst.tabs) \in 0..5
  <2>1. PICK a, b, c, d : Path(0) = {a, b} /\ Path(USYSCALL) = {c, d}
    BY DEF Path
  <2>2. IsFiniteSet({<<>>}) /\ Cardinality({<<>>}) = 1
    BY FS_Singleton
  <2>3. Cardinality({<<>>}) <= 1
    BY <2>2
  <2> DEFINE A == {<<>>} \cup {a}
             B == A \cup {b}
             C == B \cup {c}
             D == C \cup {d}
  <2>5. IsFiniteSet(A) /\ Cardinality(A) <= 1 + 1
    <3>1. 1 \in Nat
      OBVIOUS
    <3> QED BY <2>2, <2>3, <3>1, AddOne, Zenon
  <2> HIDE DEF A
  <2>6. IsFiniteSet(B) /\ Cardinality(B) <= 2 + 1
    <3>1. 2 \in Nat /\ Cardinality(A) <= 2
      BY <2>5
    <3> QED BY <2>5, <3>1, AddOne, Zenon
  <2> HIDE DEF B
  <2>7. IsFiniteSet(C) /\ Cardinality(C) <= 3 + 1
    <3>1. 3 \in Nat /\ Cardinality(B) <= 3
      BY <2>6
    <3> QED BY <2>6, <3>1, AddOne, Zenon
  <2> HIDE DEF C
  <2>8. IsFiniteSet(D) /\ Cardinality(D) \in Nat /\ Cardinality(D) <= 4 + 1
    <3>1. 4 \in Nat /\ Cardinality(C) <= 4
      BY <2>7
    <3> QED BY <2>7, <3>1, AddOne, Zenon
  <2>9. uvmfirst.tabs = D
    BY <1>4, <2>1 DEF A, B, C, D
  <2> HIDE DEF D
  <2> QED BY <2>8, <2>9
<1> QED BY <1>6, <1>7, <1>8

LEMMA Starts == Init => IInv
<1> SUFFICES ASSUME Init PROVE IInv
  OBVIOUS
<1> DEFINE i == initproc
           x == CHOOSE x \in Pids : TRUE
           y == [state |-> "LIVE", pid |-> x, parent |-> NULL, sz |-> PGSIZE,
                 trapframe |-> TRUE, usyscall |-> TRUE, upid |-> x]
<1>1. i \in Slot /\ i \in Table /\ x \in Pids
  BY ConstFacts, TableFacts, SpaceAssumption DEF initproc, Slot
<1>2. /\ space = [t \in Table |-> IF t = i THEN uvmfirst ELSE NoTable]
      /\ free = NFRAMES - Cardinality(uvmfirst.tabs) - 3
      /\ proc = [[p \in Slot |-> NoProc] EXCEPT ![i] = y]
      /\ th = [p \in Slot |-> Idle] /\ panic = FALSE
  BY DEF Init, userinit
<1>3. y \in ProcRec /\ NoProc \in ProcRec
  BY <1>1, ConstFacts DEF ProcRec, NoProc, NULL
<1>4. /\ y.state = "LIVE" /\ y.pid = y.upid /\ y.sz = PGSIZE /\ y.trapframe /\ y.usyscall
      /\ NoProc.state = "UNUSED" /\ NoProc.sz = 0 /\ ~NoProc.trapframe /\ ~NoProc.usyscall
  BY DEF NoProc
<1> HIDE DEF x, y
<1>5. /\ space[i] = uvmfirst /\ proc[i] = y /\ \A t \in Table \ {i} : space[t] = NoTable
      /\ \A p \in Slot \ {i} : proc[p] = NoProc
      /\ \A p \in Slot : th[p] = Idle
  BY <1>1, <1>2
<1>6. Types
  <2>1. SpaceType
    BY <1>2, FirstTable, ShapeRoot DEF SpaceType
  <2>2. ProcType
    BY <1>1, <1>2, <1>3 DEF ProcType
  <2>3. ThType
    BY <1>2, IdleFacts DEF ThType
  <2> QED BY <2>1, <2>2, <2>3 DEF Types
<1>7. \A p \in Slot : space[New(p)] = NoTable
  BY <1>1, <1>5, TableFacts
<1>8. \A p \in Slot : Single(p) /\ Forks(p) /\ Grows(p) /\ Execs(p)
  BY <1>5, <1>7, IdleFacts DEF Single, Forks, Grows, Execs
<1>9. pages(PGSIZE) = 1
  <2>1. 1 * PGSIZE = PGSIZE /\ 1 \in Nat
    BY ConstFacts
  <2> QED BY <2>1, PagesOfWhole
<1>10. Owner(i) /\ Empty(i)
  BY <1>1, <1>4, <1>5, <1>9, IdleFacts, FirstTable DEF Owner, Empty, Size
<1>11. \A p \in Slot \ {i} : Owner(p) /\ Empty(p)
  BY <1>4, <1>5, TableFacts DEF Owner, Empty
<1>12. Unshared
  BY <1>5, IdleFacts DEF Unshared
<1>13. TabsFinite
  BY <1>5, FirstTable, WeightNew DEF TabsFinite
<1>14. free \in Nat /\ PagesCounted
  <2>1. Summed
    BY <1>13, UsedSum
  <2>2. Cardinality(Pile("table", TabSets)) = Cardinality(uvmfirst.tabs)
    <3>1. /\ TabSets[i] = uvmfirst.tabs /\ IsFiniteSet(TabSets[i])
          /\ \A s \in Table \ {i} : TabSets[s] = {}
      BY <1>1, <1>5, FirstTable DEF TabSets, NoTable
    <3> QED BY <1>1, <3>1, PileOne
  <2>3. Cardinality(Pile("user", UserSets)) = 1
    <3>1. User(i) = {v \in Va : uvmfirst.leaf[v].page = "user"} /\ \A s \in Table \ {i} : User(s) = {}
      BY <1>5 DEF User, NoTable, NoPte, Pte
    <3>2. Cardinality(User(i)) = 1
      <4>1. 1 \in Nat /\ Maps \in SUBSET Maps
        OBVIOUS
      <4> QED BY <1>1, <3>1, <4>1, FirstTable, ShapeCount
    <3>3. /\ UserSets[i] = User(i) /\ IsFiniteSet(UserSets[i])
          /\ \A s \in Table \ {i} : UserSets[s] = {}
      BY <1>1, <3>1, FiniteFacts DEF UserSets
    <3> QED BY <1>1, <3>2, <3>3, PileOne
  <2>4. HasFrame = {i} /\ HasCall = {i} /\ HasMem = {}
    BY <1>1, <1>4, <1>5, IdleFacts DEF HasFrame, HasCall, HasMem
  <2>5. Cardinality(HasFrame) = 1 /\ Cardinality(HasCall) = 1 /\ Cardinality(HasMem) = 0
    BY <2>4, FS_Singleton, FS_EmptySet
  <2>6. Cardinality(uvmfirst.tabs) \in 0..5
    BY FirstTable
  <2>7. Cardinality(Used) = Cardinality(uvmfirst.tabs) + 3
    BY <2>1, <2>2, <2>3, <2>5, <2>6 DEF Summed
  <2> QED BY <1>2, <2>6, <2>7, ConstFacts DEF PagesCounted
<1> QED BY <1>2, <1>6, <1>8, <1>10, <1>11, <1>12, <1>13, <1>14 DEF IInv, Local, Counted, TabsFinite, NoPanic

----------------------------------------------------------------------------
(* The invariant and what it shows                                         *)

LEMMA Stutter == IInv /\ UNCHANGED vars => IInv'
<1> SUFFICES ASSUME IInv, UNCHANGED vars PROVE IInv'
  OBVIOUS
<1>1. /\ free' = free /\ space' = space /\ panic' = panic /\ proc' = proc /\ th' = th
  BY DEF vars
<1>2. Types' /\ Unshared' /\ NoPanic'
  BY <1>1 DEF IInv, Types, SpaceType, ProcType, ThType, Unshared, NoPanic
<1>3. Counted'
  BY <1>1, CountSame DEF HasFrame, HasCall, HasMem
<1>4. ASSUME NEW r \in Slot PROVE Local(r)'
  BY <1>1, Frame DEF IInv
<1> QED BY <1>2, <1>3, <1>4 DEF IInv

\* The invariant is inductive: it holds in the first process, and every call of
\* kalloc and every error path of fork, exec and growproc keeps it.
THEOREM Inductive == Spec => []IInv
<1>1. ASSUME IInv, NEW p \in Slot, Step(p) PROVE IInv'
  <2>1. CASE fork(p) \/ AllocTrapframe(p) \/ AllocUsyscall(p) \/ uvmcreate(p)
             \/ MapWalk(p) \/ MapSet(p) \/ MapFail(p)
    BY <1>1, <2>1, ForkStep, AllocTrapframeStep, AllocUsyscallStep, CreateStep, MapWalkStep, MapSetStep, MapFailStep
  <2>2. CASE CopyTake(p) \/ CopyWalk(p) \/ CopyMap(p) \/ CopyFail(p) \/ ForkReady(p) \/ freeproc(p)
    BY <1>1, <2>2, CopyTakeStep, CopyWalkStep, CopyMapStep, CopyFailStep, ForkReadyStep, FreeprocStep
  <2>3. CASE GrowTake(p) \/ GrowWalk(p) \/ GrowMap(p) \/ GrowFail(p) \/ GrowDone(p)
    BY <1>1, <2>3, GrowTakeStep, GrowWalkStep, GrowMapStep, GrowFailStep, GrowDoneStep
  <2>4. CASE \E n \in GrowNs : growproc(p, n) \/ uvmdealloc(p, n)
    BY <1>1, <2>4, GrowprocStep, DeallocStep
  <2>5. CASE \E g \in Programs : exec(p, g)
    BY <1>1, <2>5, ExecStep
  <2>6. CASE Load(p) \/ loadseg(p) \/ Stack(p) \/ uvmclear(p) \/ Commit(p) \/ Reject(p) \/ bad(p) \/ exit(p)
    BY <1>1, <2>6, LoadStep, LoadsegStep, StackStep, ClearStep, CommitStep, RejectStep, BadStep, ExitStep
  <2>7. CASE \E q \in Slot : wait(p, q) \/ \E v \in CopyVas : WaitStatus(p, q, v)
    BY <1>1, <2>7, WaitStep, WaitStatusStep
  <2>8. CASE \E v \in CopyVas : either_copyout(p, v)
    BY <1>1, <2>8, EitherCopyoutStep
  <2> QED BY <1>1, <2>1, <2>2, <2>3, <2>4, <2>5, <2>6, <2>7, <2>8 DEF Step
<1>2. IInv /\ [Next]_vars => IInv'
  BY <1>1, Stutter DEF Next
<1> QED BY <1>2, Starts, PTL DEF Spec

\* No panic of vm.c or exec.c is in reach, for any number of processes and pages
\* and for all programs: mappages never meets a mapping, uvmunmap and uvmcopy
\* never miss one, freewalk never meets a leaf, loadseg finds every page.
THEOREM NeverPanics == Spec => []NoPanic
<1>1. IInv => NoPanic
  BY DEF IInv
<1> QED BY <1>1, Inductive, PTL

\* No page is lost and none is freed twice, on whichever call kalloc fails.
THEOREM NoPageLost == Spec => []PagesCounted
<1>1. IInv => PagesCounted
  BY DEF IInv, Counted
<1> QED BY <1>1, Inductive, PTL

\* Outside system calls, user memory is mapped from 0 to the size of the process
\* and nowhere else.
THEOREM SizesExact == Spec => []SizeExact
<1>1. ASSUME IInv, NEW p \in Slot, Settled(p)
      PROVE  User(p) = 0..(pages(proc[p].sz) - 1)
  <2>1. Local(p) /\ p \in Table /\ proc[p] \in ProcRec /\ space[p] \in TableType
    BY <1>1, ThFacts, TabFacts
  <2>2. th[p].ret = "none" /\ proc[p].state \in {"LIVE", "ZOMBIE"}
    BY <1>1, <2>1, IdleFacts DEF Settled, Local, Single
  <2>3. Shape(space[p], p, Maps, pages(proc[p].sz)) /\ pages(proc[p].sz) \in Nat
    BY <2>1, <2>2, PagesFacts DEF Local, Owner, Size, ProcRec
  <2> QED BY <2>1, <2>3, ShapeFacts DEF User
<1>2. IInv => SizeExact
  BY <1>1 DEF SizeExact
<1> QED BY <1>2, Inductive, PTL

\* Each process has its own usyscall page, which its own instructions cannot
\* write, with its own pid or what it let a system call copy there.
THEOREM UsyscallsOwn == Spec => []UsyscallOwn
<1>1. ASSUME IInv, NEW p \in Slot, Settled(p)
      PROVE  /\ space[p].leaf[USYSCALL] = Pte("usyscall", p, {"R", "U"})
             /\ proc[p].upid \in {proc[p].pid, Copied}
  <2>1. /\ proc[p].upid \in {proc[p].pid, Copied} /\ Shape(space[p], p, Maps, Size(p))
    BY <1>1, ThFacts DEF Settled, Local, Owner
  <2>2. space[p].leaf[USYSCALL] = MapOf(p, USYSCALL)
    BY <2>1 DEF Shape, Maps
  <2>3. MapOf(p, USYSCALL) = Pte("usyscall", p, {"R", "U"})
    BY ConstFacts DEF MapOf
  <2> QED BY <2>1, <2>2, <2>3
<1>2. IInv => UsyscallOwn
  BY <1>1 DEF UsyscallOwn
<1> QED BY <1>2, Inductive, PTL

\* When fork returns, the child has the same pages with the same rights.
THEOREM CopiesFaithful == Spec => CopyFaithful
<1>1. ASSUME IInv, NEW p \in Slot, ForkReady(p), NEW v \in Va
      PROVE  space[th[p].np].leaf[v].flags = space[p].leaf[v].flags
  <2>1. proc[p].state = "LIVE" /\ th[p].pc = "copy" /\ th[p].va * PGSIZE >= proc[p].sz
    BY <1>1 DEF ForkReady, At
  <2>2. PICK q \in Slot, n \in Nat :
          /\ q = th[p].np /\ q # NULL /\ n = th[p].va /\ pages(proc[p].sz) \in Nat /\ n <= pages(proc[p].sz)
          /\ Shape(space[q], q, Maps, n) /\ Shape(space[p], p, Maps, pages(proc[p].sz))
    BY <1>1, <2>1, CopyFacts
  <2>3. n = pages(proc[p].sz)
    <3>1. n * PGSIZE \in Nat /\ proc[p].sz \in Nat
      BY <1>1, ConstFacts, ThFacts DEF ProcRec
    <3>2. ~(n * PGSIZE < proc[p].sz)
      BY <2>1, <2>2, <3>1
    <3>3. ~(n < pages(proc[p].sz))
      BY <3>1, <3>2, PagesFacts
    <3> QED BY <2>2, <3>3
  <2>4. CASE v \in Maps
    <3>1. space[q].leaf[v] = MapOf(q, v) /\ space[p].leaf[v] = MapOf(p, v)
      BY <2>2, <2>4 DEF Shape
    <3>2. MapOf(q, v).flags = MapOf(p, v).flags
      BY <2>4, ConstFacts DEF MapOf, Maps, Pte
    <3> QED BY <2>2, <3>1, <3>2
  <2>5. CASE v \notin Maps /\ v < n
    <3>1. v \in 0..(n - 1)
      BY <2>5, ConstFacts
    <3>2. Local(p)
      BY <1>1, ThFacts
    <3> QED BY <2>1, <2>2, <3>1, <3>2 DEF Local, Forks
  <2>6. CASE v \notin Maps /\ ~(v < n)
    BY <2>2, <2>3, <2>6 DEF Shape
  <2> QED BY <2>4, <2>5, <2>6
<1>2. IInv => \A p \in Slot : ForkReady(p) => \A v \in Va :
                space[th[p].np].leaf[v].flags = space[p].leaf[v].flags
  BY <1>1
<1> QED BY <1>2, Inductive, PTL DEF CopyFaithful
=============================================================================
