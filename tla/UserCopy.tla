------------------------------ MODULE UserCopy ------------------------------
(***************************************************************************)
(* copyin, copyout and copyinstr of vm.c in Lab3: the kernel copies from   *)
(* or to memory of a process, page by page through the page table.         *)
(***************************************************************************)
EXTENDS Integers, Sequences

CONSTANTS UINT64,  \* the values of an address, 2^64 in the code
          PAGE,    \* PGSIZE
          MAXVA,
          MaxLen   \* bound on len and max

ASSUME UserCopyAssumption ==
  /\ PAGE \in Nat \ {0} /\ UINT64 \in Nat /\ UINT64 % PAGE = 0 /\ MaxLen \in Nat
  /\ MAXVA \in 0..(UINT64 - 1) /\ MAXVA % PAGE = 0

VARIABLES call,     \* the arguments, the pages of the user, and where the first
                    \* zero byte is in memory (-1: nowhere)
          va, len,  \* srcva or dstva, and len or max, as they proceed
          copied,   \* the user addresses copied so far, in order
          got_null,
          ret

copyVars == <<call, va, len, copied, got_null, ret>>

Va64       == 0..(UINT64 - 1)
add64(a,b) == (a + b) % UINT64
PageOf(a)  == a - (a % PAGE)

\* walkaddr returns 0 for what is not a page of the user below MAXVA.
walkaddr(a) == a \in call.user

Call(f, a, n, z) == [fn : f, va : a, len : n, zero : z,
                     user : SUBSET {g \in Va64 : g % PAGE = 0 /\ g < MAXVA}]
Calls == Call({"copyin", "copyout"}, Va64, 0..MaxLen, {-1})
         \cup Call({"copyinstr"}, Va64, 0..MaxLen, (-1)..(MAXVA - 1))

\* A call, or none when there is no such call to look at.
CopyInit(some) ==
  /\ call \in some
  /\ va = call.va /\ len = call.len
  /\ copied = <<>> /\ got_null = FALSE /\ ret = 1

\* The bytes of a round: to the end of the page, and not more than len.
\* Mutant: a whole page.
WholePage(n) == IF PAGE > n THEN n ELSE PAGE
Chunk(n)     == IF PAGE - (va - PageOf(va)) > n THEN n ELSE PAGE - (va - PageOf(va))

Bytes(n) == [i \in 1..n |-> va + i - 1]

\* A round copies up to the zero byte; it counts as copied, not as one of max.
NoPage ==
  /\ ret = 1 /\ len > 0 /\ ~got_null /\ ~walkaddr(PageOf(va))
  /\ ret' = -1
  /\ UNCHANGED <<call, va, len, copied, got_null>>
Round ==
  LET n == Chunk(len)
      z == call.zero
      found == call.fn = "copyinstr" /\ z \in va..(va + n - 1)
  IN
  /\ ret = 1 /\ len > 0 /\ ~got_null /\ walkaddr(PageOf(va))
  /\ copied' = copied \o Bytes(IF found THEN z - va + 1 ELSE n)
  /\ len' = len - (IF found THEN z - va ELSE n)
  /\ got_null' = found
  /\ va' = add64(PageOf(va), PAGE)
  /\ UNCHANGED <<call, ret>>
Finish ==
  /\ ret = 1 /\ (len = 0 \/ got_null)
  /\ ret' = IF call.fn # "copyinstr" \/ got_null THEN 0 ELSE -1
  /\ UNCHANGED <<call, va, len, copied, got_null>>

copy == NoPage \/ Round \/ Finish
=============================================================================
