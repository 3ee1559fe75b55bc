------------------------------ MODULE Syscalls ------------------------------
(***************************************************************************)
(* The system calls of Lab2 as one process makes them: syscall.c, the      *)
(* handlers of sysproc.c and growproc of proc.c.                           *)
(*                                                                         *)
(* A uint has UINT values and INT bytes.  What the process has stored at   *)
(* an address, its stack pointer included, is arbitrary.                   *)
(***************************************************************************)
EXTENDS Integers

CONSTANTS UINT,       \* 2^32 in the code
          INT, PGSIZE,
          KERNBASE,   \* where the kernel begins in every address space
          PSTAT,      \* sizeof(struct pstat)
          TicketNs    \* arguments of settickets

ASSUME SyscallsAssumption ==
  /\ UINT \in Nat \ {0} /\ PGSIZE \in Nat \ {0} /\ TicketNs \subseteq Int
  /\ INT \in 1..(UINT \div 2) /\ PSTAT \in 1..(UINT \div 2)
  /\ KERNBASE \in PGSIZE..(UINT \div 2) /\ KERNBASE % PGSIZE = 0

VARIABLES sz, tickets,  \* struct proc
          mapped,       \* the pages of the process
          eax,          \* the result of the last call
          stray,        \* the user addresses the kernel has used without a page
          live          \* not killed

callVars == <<sz, tickets, mapped, eax, stray, live>>

Addr    == 0..(UINT - 1)
Ints    == -(UINT \div 2)..(UINT \div 2 - 1)
wrap(x) == x % UINT

\* Page addresses from PGROUNDUP(a) up to, not including, b.
Pages(a, b) == {g \in Addr : g % PGSIZE = 0 /\ g >= a /\ g < b}

\* A process as exec leaves it, with one page.
CallsInit ==
  /\ sz = PGSIZE /\ tickets = 5 /\ mapped = {0}
  /\ eax = 0 /\ stray = {} /\ live = TRUE

----------------------------------------------------------------------------
(* Arguments                                                               *)

\* Tests of fetchint and argptr for size bytes at a.  Mutant: only the end.
OnlyEnd(a, size) == size >= 0 /\ wrap(a + size) <= sz
Inside(a, size)  == size >= 0 /\ a < sz /\ wrap(a + size) <= sz
Range(a, size)   == {wrap(a + i) : i \in 0..(size - 1)}

\* The place of argument n.
ArgAt(esp, n) == wrap(esp + INT + INT * n)

Fail     == eax' = -1 /\ UNCHANGED <<sz, tickets, mapped, live>>
Touch(s) == stray' = stray \cup {a \in s : a - (a % PGSIZE) \notin mapped}

\* The argument cannot be fetched.
BadArg(esp, n) == ~Inside(ArgAt(esp, n), INT) /\ Touch({}) /\ Fail
ArgOK(esp, n)  == Inside(ArgAt(esp, n), INT)
ArgBytes(esp, n) == Range(ArgAt(esp, n), INT)

----------------------------------------------------------------------------
(* Calls                                                                   *)

\* A number that names no call.
UnknownCall == Touch({}) /\ Fail

\* fork, exit, wait, getpid, uptime, and kill and sleep once they have their
\* argument: what they do is in ProcTable.
Elsewhere == eax' \in {-1, 0} /\ UNCHANGED <<sz, tickets, mapped, live>>

sys_noargs   == Touch({}) /\ Elsewhere
sys_kill(esp) ==
  \/ BadArg(esp, 0)
  \/ ArgOK(esp, 0) /\ Touch(ArgBytes(esp, 0)) /\ Elsewhere

settickets(n) == /\ tickets' = IF n < 1 THEN tickets ELSE n
                 /\ eax' = IF n < 1 THEN -1 ELSE 0
sys_settickets(esp) ==
  \/ BadArg(esp, 0)
  \/ /\ ArgOK(esp, 0) /\ Touch(ArgBytes(esp, 0))
     /\ \E n \in TicketNs : settickets(n)
     /\ UNCHANGED <<sz, mapped, live>>

\* argptr finds the first argument to be the address a of size bytes, or fails.
argptr(esp, a, size) == ArgOK(esp, 0) /\ Inside(a, size)
BadPtr(esp, a, size) == /\ ArgOK(esp, 0) /\ ~Inside(a, size)
                        /\ Touch(ArgBytes(esp, 0)) /\ Fail

\* getpinfo fills the structure, from a table that is not changed; 0 is no
\* address.
sys_getpinfo(esp) ==
  \/ BadArg(esp, 0)
  \/ \E a \in Addr :
       \/ BadPtr(esp, a, PSTAT)
       \/ /\ argptr(esp, a, PSTAT)
          /\ Touch(ArgBytes(esp, 0) \cup IF a = 0 THEN {} ELSE Range(a, PSTAT))
          /\ eax' = IF a = 0 THEN -1 ELSE 0
          /\ UNCHANGED <<sz, tickets, mapped, live>>

\* read, write and fstat: the process chooses the size, too.
sys_buffer(esp, size) ==
  \/ BadArg(esp, 0)
  \/ \E a \in Addr :
       \/ BadPtr(esp, a, size)
       \/ /\ argptr(esp, a, size)
          /\ Touch(ArgBytes(esp, 0) \cup Range(a, size))
          /\ eax' \in {-1, 0}
          /\ UNCHANGED <<sz, tickets, mapped, live>>

\* fetchstr at a: it goes on up to the first zero, or to the end of the memory.
fetchstr(esp, a) ==
  \/ a >= sz /\ Touch(ArgBytes(esp, 0)) /\ Fail
  \/ \E e \in a..sz : /\ a < sz /\ Touch(ArgBytes(esp, 0) \cup {b \in a..e : b < sz})
                      /\ eax' = IF e = sz THEN -1 ELSE 0
                      /\ UNCHANGED <<sz, tickets, mapped, live>>

\* argstr, for open and the others that take a name.
argstr(esp) ==
  \/ BadArg(esp, 0)
  \/ ArgOK(esp, 0) /\ \E a \in Addr : fetchstr(esp, a)

\* allocuvm: the new size and pages, or <<0, mapped>>.
allocuvm(new) ==
  IF new >= KERNBASE THEN {<<0, mapped>>}
  ELSE IF new < sz THEN {<<sz, mapped>>}
  ELSE {<<0, mapped>>, <<new, mapped \cup Pages(sz, new)>>}  \* out of memory, or not
deallocuvm(new) ==
  IF new >= sz THEN {<<sz, mapped>>} ELSE {<<new, mapped \ Pages(new, sz)>>}

\* growproc with the result r of those, as sys_sbrk returns it.
\* Mutant: the size is stored before it is looked at.
SizeFirst(r) == sz' = r[1] /\ eax' = IF r[1] = 0 THEN -1 ELSE sz
Grown(r)     == /\ sz' = IF r[1] = 0 THEN sz ELSE r[1]
                /\ eax' = IF r[1] = 0 THEN -1 ELSE sz

growproc(n) ==
  /\ \E r \in IF n > 0 THEN allocuvm(wrap(sz + n))
              ELSE IF n < 0 THEN deallocuvm(wrap(sz + n)) ELSE {<<sz, mapped>>} :
       Grown(r) /\ mapped' = r[2]
  /\ UNCHANGED <<tickets, live>>

sys_sbrk(esp) ==
  \/ BadArg(esp, 0)
  \/ ArgOK(esp, 0) /\ Touch(ArgBytes(esp, 0)) /\ \E n \in Ints : growproc(n)

\* A process that has given back its code faults and is killed.
Fault == /\ live /\ 0 \notin mapped
         /\ live' = FALSE
         /\ UNCHANGED <<sz, tickets, mapped, eax, stray>>

syscall ==
  /\ live /\ 0 \in mapped
  /\ \/ UnknownCall
     \/ sys_noargs
     \/ \E esp \in Addr : \/ sys_kill(esp) \/ sys_settickets(esp) \/ sys_sbrk(esp)
                          \/ sys_getpinfo(esp) \/ argstr(esp)
                          \/ \E size \in Ints : sys_buffer(esp, size)
=============================================================================
