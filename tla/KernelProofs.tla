---------------------------- MODULE KernelProofs ----------------------------
(***************************************************************************)
(* The system calls of Lab2 and the copies of Lab3, for every size of the  *)
(* words, the pages and the memory, and for every call.                    *)
(***************************************************************************)
EXTENDS Kernel, NatFacts, TLAPS

(* System calls of Lab2                                                    *)

\* The size, unlike the pages, never is zero; where it ends, no uint can wrap.
CallInv == sz \in 1..KERNBASE /\ SizeMapped /\ TouchesMapped

LEMMA WordFacts ==
  /\ UINT \in Nat \ {0} /\ UINT \div 2 \in Nat /\ 2 * (UINT \div 2) <= UINT
  /\ KERNBASE \in Nat /\ KERNBASE <= UINT \div 2 /\ PGSIZE \in Nat \ {0} /\ PGSIZE <= KERNBASE
  BY SyscallsAssumption

LEMMA NoWrap == ASSUME NEW x \in Nat PROVE wrap(x) \in Addr /\ (x < UINT => wrap(x) = x)
  BY WordFacts DEF wrap, Addr

\* The tests of fetchint and argptr let through only what ends below sz.
LEMMA InsideBelow ==
  ASSUME sz \in 1..KERNBASE, NEW a \in Addr, NEW size \in Int, size <= UINT \div 2, Inside(a, size)
  PROVE  \A b \in Range(a, size) : b \in Nat /\ b < sz
<1>1. a \in Nat /\ a < sz /\ size \in Nat /\ a + size < UINT
  BY WordFacts DEF Addr, Inside
<1>2. a + size <= sz
  BY <1>1, NoWrap DEF Inside
<1>3. \A i \in 0..(size - 1) : wrap(a + i) = a + i
  <2> TAKE i \in 0..(size - 1)
  <2>1. a + i \in Nat /\ a + i < UINT
    BY <1>1, WordFacts
  <2> QED BY <2>1, NoWrap
<1> QED BY <1>1, <1>2, <1>3 DEF Range

\* There is a page where the process is said to have memory.
LEMMA BelowMapped ==
  ASSUME CallInv, 0 \in mapped, NEW b \in Nat, b < sz
  PROVE  b - (b % PGSIZE) \in mapped
<1>1. mapped = Pages(0, sz)
  BY DEF CallInv, SizeMapped
<1>2. LET g == b - (b % PGSIZE) IN g \in Nat /\ g % PGSIZE = 0 /\ g <= b
  BY WordFacts, RoundDown
<1> QED BY <1>1, <1>2, WordFacts DEF Pages, Addr, CallInv

LEMMA TouchBelow ==
  ASSUME CallInv, 0 \in mapped, NEW S, \A b \in S : b \in Nat /\ b < sz, Touch(S)
  PROVE  TouchesMapped'
  BY BelowMapped DEF Touch, CallInv, TouchesMapped

LEMMA ArgFacts ==
  ASSUME CallInv, NEW esp \in Addr, ArgOK(esp, 0)
  PROVE  \A b \in ArgBytes(esp, 0) : b \in Nat /\ b < sz
<1>1. ArgAt(esp, 0) \in Addr
  BY NoWrap, WordFacts, SyscallsAssumption DEF ArgAt, Addr
<1>2. INT \in Int /\ INT <= UINT \div 2
  BY SyscallsAssumption
<1> QED BY <1>1, <1>2, InsideBelow DEF ArgOK, ArgBytes, CallInv

\* sbrk leaves a size that is mapped, or frees everything and keeps the old one.
LEMMA GrowprocStep ==
  ASSUME CallInv, 0 \in mapped, NEW n \in Ints, growproc(n)
  PROVE  sz' \in 1..KERNBASE /\ SizeMapped'
<1>1. mapped = Pages(0, sz) /\ sz \in Nat /\ sz > 0 /\ sz <= KERNBASE
  BY DEF CallInv, SizeMapped
<1>2. PICK r \in IF n > 0 THEN allocuvm(wrap(sz + n))
                 ELSE IF n < 0 THEN deallocuvm(wrap(sz + n)) ELSE {<<sz, mapped>>} :
        /\ sz' = IF r[1] = 0 THEN sz ELSE r[1]
        /\ mapped' = r[2]
  BY DEF growproc, Grown
<1>3. CASE n > 0
  <2>1. wrap(sz + n) = sz + n
    BY <1>1, <1>3, WordFacts, NoWrap DEF Ints
  <2>2. r \in allocuvm(sz + n)
    BY <1>2, <1>3, <2>1
  <2>3. CASE r = <<0, mapped>> \/ r = <<sz, mapped>>
    BY <1>1, <1>2, <2>3, WordFacts DEF SizeMapped
  <2>4. CASE sz + n < KERNBASE /\ r = <<sz + n, mapped \cup Pages(sz, sz + n)>>
    <3>1. Pages(0, sz) \cup Pages(sz, sz + n) = Pages(0, sz + n)
      BY <1>1, <1>3 DEF Pages, Ints, Addr
    <3> QED BY <1>1, <1>2, <1>3, <2>4, <3>1, WordFacts DEF SizeMapped, Ints
  <2> QED BY <1>1, <1>3, <2>2, <2>3, <2>4, WordFacts DEF allocuvm, Ints
<1>4. CASE n < 0
  <2>1. r = <<sz, mapped>> \/ (sz + n >= 0 /\ r = <<sz + n, mapped \ Pages(sz + n, sz)>>)
    <3>1. CASE sz + n >= 0
      <4>1. wrap(sz + n) = sz + n
        BY <1>1, <1>4, <3>1, WordFacts, NoWrap DEF Ints
      <4> QED BY <1>1, <1>2, <1>4, <3>1, <4>1 DEF deallocuvm, Ints
    <3>2. CASE sz + n < 0
      <4>1. wrap(sz + n) = sz + n + UINT /\ sz + n + UINT >= sz
        BY <1>1, <1>4, <3>2, WordFacts DEF Ints, wrap
      <4> QED BY <1>1, <1>2, <1>4, <4>1 DEF deallocuvm, Ints
    <3> QED BY <1>1, <3>1, <3>2 DEF Ints
  <2>2. CASE r = <<sz, mapped>>
    BY <1>1, <1>2, <2>2, WordFacts DEF SizeMapped
  <2>3. CASE sz + n >= 0 /\ r = <<sz + n, mapped \ Pages(sz + n, sz)>>
    <3>1. mapped' = Pages(0, sz + n)
      BY <1>1, <1>2, <1>4, <2>3 DEF Pages, Ints, Addr
    <3>2. sz + n = 0 => mapped' = {}
      BY <3>1 DEF Pages, Addr
    <3> QED BY <1>1, <1>2, <1>4, <2>3, <3>1, <3>2, WordFacts DEF SizeMapped, Ints
  <2> QED BY <2>1, <2>2, <2>3
<1>5. CASE n = 0
  BY <1>1, <1>2, <1>5, WordFacts DEF SizeMapped
<1> QED BY <1>3, <1>4, <1>5 DEF Ints

\* What a call reads or writes for its arguments is mapped, and it changes the
\* memory of the process by growproc only.
LEMMA SyscallStep ==
  ASSUME CallInv, syscall
  PROVE  CallInv'
<1>1. 0 \in mapped
  BY DEF syscall
<1>2. ASSUME UNCHANGED <<sz, mapped>>, NEW S, \A b \in S : b \in Nat /\ b < sz, Touch(S)
      PROVE  CallInv'
  <2>1. TouchesMapped'
    BY <1>1, <1>2, TouchBelow
  <2> QED BY <1>2, <2>1 DEF CallInv, SizeMapped, Pages
<1>3. ASSUME NEW esp \in Addr, BadArg(esp, 0) PROVE CallInv'
  BY <1>2, <1>3 DEF BadArg, Fail
<1>4. CASE UnknownCall \/ sys_noargs
  BY <1>2, <1>4 DEF UnknownCall, sys_noargs, Fail, Elsewhere
<1>5. ASSUME NEW esp \in Addr, sys_kill(esp) \/ sys_settickets(esp) PROVE CallInv'
  <2> SUFFICES ASSUME ~BadArg(esp, 0) PROVE CallInv'
    BY <1>3
  <2>1. /\ ArgOK(esp, 0) /\ Touch(ArgBytes(esp, 0)) /\ UNCHANGED <<sz, mapped>>
    BY <1>5 DEF sys_kill, sys_settickets, Elsewhere
  <2> QED BY <1>2, <2>1, ArgFacts
<1>6. ASSUME NEW esp \in Addr, sys_sbrk(esp) PROVE CallInv'
  <2> SUFFICES ASSUME ~BadArg(esp, 0) PROVE CallInv'
    BY <1>3
  <2>1. ArgOK(esp, 0) /\ Touch(ArgBytes(esp, 0))
    BY <1>6 DEF sys_sbrk
  <2>2. TouchesMapped'
    BY <1>1, <2>1, ArgFacts, TouchBelow
  <2>3. sz' \in 1..KERNBASE /\ SizeMapped'
    BY <1>1, <1>6, GrowprocStep DEF sys_sbrk
  <2> QED BY <2>2, <2>3 DEF CallInv
<1>7. ASSUME NEW esp \in Addr, NEW a \in Addr, NEW size \in Int, size <= UINT \div 2,
             UNCHANGED <<sz, mapped>>,
             \/ BadPtr(esp, a, size)
             \/ argptr(esp, a, size) /\ (\/ Touch(ArgBytes(esp, 0) \cup Range(a, size))
                                         \/ Touch(ArgBytes(esp, 0) \cup {}))
      PROVE  CallInv'
  <2>1. \A b \in ArgBytes(esp, 0) : b \in Nat /\ b < sz
    BY <1>7, ArgFacts DEF BadPtr, argptr
  <2>2. CASE BadPtr(esp, a, size) \/ Touch(ArgBytes(esp, 0) \cup {})
    <3>1. Touch(ArgBytes(esp, 0)) \/ Touch(ArgBytes(esp, 0) \cup {})
      BY <2>2 DEF BadPtr
    <3> QED BY <1>2, <1>7, <2>1, <3>1
  <2>3. CASE argptr(esp, a, size) /\ Touch(ArgBytes(esp, 0) \cup Range(a, size))
    <3>1. \A b \in Range(a, size) : b \in Nat /\ b < sz
      BY <1>7, <2>3, InsideBelow DEF argptr, CallInv
    <3> QED BY <1>2, <1>7, <2>1, <2>3, <3>1
  <2> QED BY <1>7, <2>2, <2>3
<1>8. ASSUME NEW esp \in Addr, sys_getpinfo(esp) PROVE CallInv'
  <2> SUFFICES ASSUME ~BadArg(esp, 0) PROVE CallInv'
    BY <1>3
  <2>1. PICK a \in Addr :
          /\ UNCHANGED <<sz, mapped>>
          /\ \/ BadPtr(esp, a, PSTAT)
             \/ argptr(esp, a, PSTAT) /\ (\/ Touch(ArgBytes(esp, 0) \cup Range(a, PSTAT))
                                          \/ Touch(ArgBytes(esp, 0) \cup {}))
    BY <1>8 DEF sys_getpinfo, BadPtr, Fail
  <2>2. PSTAT \in Int /\ PSTAT <= UINT \div 2
    BY SyscallsAssumption
  <2> QED BY <1>7, <2>1, <2>2
<1>9. ASSUME NEW esp \in Addr, NEW size \in Ints, sys_buffer(esp, size) PROVE CallInv'
  <2> SUFFICES ASSUME ~BadArg(esp, 0) PROVE CallInv'
    BY <1>3
  <2>1. PICK a \in Addr :
          /\ UNCHANGED <<sz, mapped>>
          /\ \/ BadPtr(esp, a, size)
             \/ argptr(esp, a, size) /\ Touch(ArgBytes(esp, 0) \cup Range(a, size))
    BY <1>9 DEF sys_buffer, BadPtr, Fail
  <2>2. size \in Int /\ size <= UINT \div 2
    BY WordFacts DEF Ints
  <2> QED BY <1>7, <2>1, <2>2
<1>10. ASSUME NEW esp \in Addr, argstr(esp) PROVE CallInv'
  <2> SUFFICES ASSUME ~BadArg(esp, 0) PROVE CallInv'
    BY <1>3
  <2>1. PICK a \in Addr : fetchstr(esp, a) /\ ArgOK(esp, 0)
    BY <1>10 DEF argstr
  <2>2. \A b \in ArgBytes(esp, 0) : b \in Nat /\ b < sz
    BY <2>1, ArgFacts
  <2>3. CASE a >= sz /\ Touch(ArgBytes(esp, 0)) /\ Fail
    BY <1>2, <2>2, <2>3 DEF Fail
  <2>4. ASSUME NEW e \in a..sz, Touch(ArgBytes(esp, 0) \cup {b \in a..e : b < sz}),
               UNCHANGED <<sz, mapped>>
        PROVE  CallInv'
    <3>1. \A b \in {b \in a..e : b < sz} : b \in Nat /\ b < sz
      BY DEF Addr
    <3> QED BY <1>2, <2>2, <2>4, <3>1
  <2> QED BY <2>1, <2>3, <2>4 DEF fetchstr
<1> QED BY <1>4, <1>5, <1>6, <1>8, <1>9, <1>10 DEF syscall

LEMMA CallInitInv == Init => CallInv
<1> SUFFICES ASSUME CallsInit PROVE CallInv
  BY DEF Init
<1>1. Pages(0, PGSIZE) = {0}
  <2>1. ASSUME NEW g \in Pages(0, PGSIZE) PROVE g = 0
    BY WordFacts DEF Pages, Addr
  <2>2. 0 \in Pages(0, PGSIZE)
    BY WordFacts DEF Pages, Addr
  <2> QED BY <2>1, <2>2
<1> QED BY <1>1, WordFacts DEF CallsInit, CallInv, SizeMapped, TouchesMapped

LEMMA CallInductive == Spec => []CallInv
<1>1. CallInv /\ [Next]_vars => CallInv'
  <2> SUFFICES ASSUME CallInv, [Next]_vars PROVE CallInv'
    OBVIOUS
  <2>1. CASE UNCHANGED callVars
    BY <2>1 DEF callVars, CallInv, SizeMapped, TouchesMapped, Pages
  <2>2. CASE syscall
    BY <2>2, SyscallStep
  <2>3. CASE Fault
    BY <2>3 DEF Fault, CallInv, SizeMapped, TouchesMapped, Pages
  <2> QED BY <2>1, <2>2, <2>3 DEF Next, Boot, User, Copy, vars
<1> QED BY <1>1, CallInitInv, PTL DEF Spec

\* No call of a process makes the kernel use an address where that process has no
\* memory, whatever its arguments and its stack pointer.
THEOREM KernelStaysInside == Spec => []TouchesMapped
<1>1. CallInv => TouchesMapped
  BY DEF CallInv
<1> QED BY <1>1, CallInductive, PTL

\* sbrk keeps size and pages in step, with arguments that wrap around and with
\* memory that runs out.
THEOREM SizeAgrees == Spec => []SizeMapped
<1>1. CallInv => SizeMapped
  BY DEF CallInv
<1> QED BY <1>1, CallInductive, PTL

----------------------------------------------------------------------------
(* Copies of Lab3                                                          *)

\* The addresses that have been copied are those from call.va on, all in pages
\* of the user; the next one is va.
CopyInv == lab = "Lab3" =>
  /\ call \in Calls /\ va \in Va64 /\ len \in Nat /\ got_null \in BOOLEAN /\ ret \in {-1, 0, 1}
  /\ copied \in Seq(Nat)
  /\ \A i \in 1..Len(copied) : /\ copied[i] = call.va + i - 1
                               /\ PageOf(copied[i]) \in call.user
  /\ ~got_null => /\ Len(copied) + len = call.len
                  /\ call.fn = "copyinstr" => call.zero \notin call.va..(call.va + Len(copied) - 1)
                  /\ len > 0 => va = call.va + Len(copied)
  /\ got_null => /\ call.fn = "copyinstr" /\ Len(copied) \in 1..call.len
                 /\ call.zero = call.va + Len(copied) - 1

LEMMA CopyConsts ==
  /\ PAGE \in Nat \ {0} /\ UINT64 \in Nat \ {0} /\ MAXVA \in Nat /\ MAXVA < UINT64
  /\ MAXVA % PAGE = 0 /\ MaxLen \in Nat
  BY UserCopyAssumption

LEMMA CallFacts ==
  ASSUME call \in Calls
  PROVE  /\ call.va \in Nat /\ call.va < UINT64 /\ call.len \in Nat /\ call.zero \in Int
         /\ call.fn \in {"copyin", "copyout", "copyinstr"}
         /\ call.fn # "copyinstr" => call.zero = -1
         /\ \A g \in call.user : g \in Nat /\ g % PAGE = 0 /\ g < MAXVA
  BY CopyConsts DEF Calls, Call, Va64

\* A page of the user ends below MAXVA, and its bytes are its own.
LEMMA PageFacts ==
  ASSUME call \in Calls, NEW a \in Nat, PageOf(a) \in call.user
  PROVE  /\ PageOf(a) \in Nat /\ PageOf(a) <= a /\ a < PageOf(a) + PAGE
         /\ PageOf(a) + PAGE <= MAXVA
         /\ \A b \in Nat : PageOf(a) <= b /\ b < PageOf(a) + PAGE => PageOf(b) = PageOf(a)
<1> DEFINE g == PageOf(a)
<1>1. g \in Nat /\ g % PAGE = 0 /\ g <= a /\ a < g + PAGE
  BY CopyConsts, RoundDown DEF PageOf
<1>2. g + PAGE <= MAXVA
  BY <1>1, CallFacts, CopyConsts, Multiples
<1>3. ASSUME NEW b \in Nat, g <= b, b < g + PAGE PROVE PageOf(b) = g
  <2>1. PICK h \in Nat : PageOf(b) = h /\ h % PAGE = 0 /\ h <= b /\ b < h + PAGE
    BY CopyConsts, RoundDown DEF PageOf
  <2> HIDE DEF g
  <2>2. g < h => g + PAGE <= h
    BY <1>1, <2>1, CopyConsts, Multiples
  <2>3. h < g => h + PAGE <= g
    BY <1>1, <2>1, CopyConsts, Multiples
  <2> QED BY <1>1, <1>3, <2>1, <2>2, <2>3, CopyConsts
<1> QED BY <1>1, <1>2, <1>3

\* How many bytes were asked for, and which.
LEMMA AskedFacts ==
  ASSUME call \in Calls
  PROVE  LET n == IF call.zero >= call.va /\ call.zero - call.va < call.len
                  THEN call.zero - call.va + 1 ELSE call.len
         IN  /\ n \in Nat /\ Len(Asked) = n /\ DOMAIN Asked = 1..n /\ Asked \in Seq(Nat)
             /\ \A i \in 1..n : /\ call.va + i - 1 \in Nat
                                /\ call.va + i - 1 < UINT64 => Asked[i] = call.va + i - 1
<1> DEFINE n == IF call.zero >= call.va /\ call.zero - call.va < call.len
                THEN call.zero - call.va + 1 ELSE call.len
<1>1. n \in Nat
  BY CallFacts
<1>2. Asked = [i \in 1..n |-> add64(call.va, i - 1)]
  BY DEF Asked
<1> HIDE DEF n
<1>3. \A i \in 1..n : /\ add64(call.va, i - 1) \in Nat /\ call.va + i - 1 \in Nat
                      /\ call.va + i - 1 < UINT64 => add64(call.va, i - 1) = call.va + i - 1
  <2> TAKE i \in 1..n
  <2>1. PICK x \in Nat : x = call.va + (i - 1) /\ x = call.va + i - 1
    BY <1>1, CallFacts
  <2>2. add64(call.va, i - 1) = x % UINT64
    BY <2>1 DEF add64
  <2>3. x % UINT64 \in Nat /\ (x < UINT64 => x % UINT64 = x)
    BY CopyConsts
  <2> QED BY <2>1, <2>2, <2>3
<1>4. Asked \in Seq(Nat) /\ Len(Asked) = n /\ DOMAIN Asked = 1..n
  BY <1>1, <1>2, <1>3
<1> QED BY <1>1, <1>2, <1>3, <1>4 DEF n

\* As long as it is under way, a copy is a beginning of what was asked for.
CopyPrefix == lab = "Lab3" =>
  /\ Len(copied) <= Len(Asked)
  /\ \A i \in 1..Len(copied) : copied[i] = Asked[i] /\ copied[i] < MAXVA
  /\ copied = SubSeq(Asked, 1, Len(copied))

LEMMA CopiedPrefix == CopyInv => CopyPrefix
<1> SUFFICES ASSUME CopyInv, lab = "Lab3" PROVE CopyPrefix
  BY DEF CopyPrefix
<1> DEFINE k == Len(copied)
<1>1. call \in Calls /\ k \in Nat /\ copied \in Seq(Nat) /\ len \in Nat
  BY DEF CopyInv
<1>2. \A i \in 1..k : copied[i] \in Nat /\ copied[i] = call.va + i - 1 /\ copied[i] < MAXVA
  <2> TAKE i \in 1..k
  <2>1. copied[i] \in Nat /\ copied[i] = call.va + i - 1 /\ PageOf(copied[i]) \in call.user
    BY <1>1 DEF CopyInv
  <2>2. copied[i] < PageOf(copied[i]) + PAGE /\ PageOf(copied[i]) + PAGE <= MAXVA
        /\ PageOf(copied[i]) \in Nat
    BY <1>1, <2>1, PageFacts
  <2> QED BY <2>1, <2>2, CopyConsts
<1>3. k <= Len(Asked)
  <2>1. got_null => call.zero >= call.va /\ call.zero - call.va < call.len /\ k = call.zero - call.va + 1
    BY <1>1, CallFacts DEF CopyInv
  <2>2. ~got_null => /\ k <= call.len
                     /\ call.zero >= call.va => call.fn = "copyinstr" /\ call.zero >= call.va + k
    BY <1>1, CallFacts DEF CopyInv
  <2> HIDE DEF k
  <2> QED BY <1>1, <2>1, <2>2, AskedFacts, CallFacts
<1> HIDE DEF k
<1>4. \A i \in 1..k : copied[i] = Asked[i]
  <2> TAKE i \in 1..k
  <2>1. Len(Asked) \in Nat
    BY <1>1, AskedFacts
  <2>2. i \in 1..Len(Asked) /\ call.va + i - 1 < MAXVA
    BY <1>1, <1>2, <1>3, <2>1
  <2>3. call.va + i - 1 \in Nat /\ call.va + i - 1 < UINT64 => Asked[i] = call.va + i - 1
    BY <1>1, <2>2, AskedFacts
  <2>4. call.va + i - 1 < UINT64
    BY <1>1, <1>2, <2>2, CopyConsts
  <2> QED BY <1>2, <2>3, <2>4
<1>5. copied = SubSeq(Asked, 1, k)
  BY <1>1, <1>3, <1>4, AskedFacts DEF k
<1> QED BY <1>2, <1>3, <1>4, <1>5 DEF k, CopyPrefix

LEMMA CopiedPrefixNext == CopyInv' => CopyPrefix'
  BY CopiedPrefix, PTL

LEMMA RoundStep ==
  ASSUME CopyInv, lab = "Lab3", Round, UNCHANGED lab
  PROVE  CopyInv'
<1>1. /\ call \in Calls /\ va \in Nat /\ len \in Nat /\ len > 0 /\ copied \in Seq(Nat)
      /\ ~got_null /\ ret = 1 /\ PageOf(va) \in call.user
  BY DEF CopyInv, Round, walkaddr, Va64
<1> DEFINE c == call.va
           k == Len(copied)
           z == call.zero
<1>2. /\ c \in Nat /\ k \in Nat /\ z \in Int /\ call.len \in Nat
      /\ va = c + k /\ k + len = call.len
  BY <1>1, CallFacts DEF CopyInv
<1>3. call.fn = "copyinstr" => z \notin c..(c + k - 1)
  BY <1>1 DEF CopyInv
<1>4. \A i \in 1..k : copied[i] = c + i - 1 /\ PageOf(copied[i]) \in call.user
  BY <1>1 DEF CopyInv
<1>5. PICK g \in Nat : /\ g = PageOf(va) /\ g <= va /\ va < g + PAGE /\ g + PAGE <= MAXVA
                       /\ \A b \in Nat : g <= b /\ b < g + PAGE => PageOf(b) \in call.user
  BY <1>1, PageFacts
<1>6. PICK n \in Nat : /\ n = Chunk(len) /\ n <= len /\ 0 < n /\ va + n <= g + PAGE
                       /\ n # len => va + n = g + PAGE
  <2>1. Chunk(len) = IF PAGE - (va - g) > len THEN len ELSE PAGE - (va - g)
    BY <1>5 DEF Chunk
  <2>2. Chunk(len) \in Nat
    BY <1>1, <1>5, <2>1, CopyConsts
  <2> QED BY <1>1, <1>5, <2>1, <2>2, CopyConsts
<1>7. /\ va \in Nat /\ len \in Nat /\ len > 0 /\ c \in Nat /\ k \in Nat /\ z \in Int
      /\ call.len \in Nat /\ va = c + k /\ k + len = call.len
      /\ g \in Nat /\ n \in Nat /\ n <= len /\ 0 < n /\ PAGE \in Nat /\ g <= va
      /\ va + n <= g + PAGE /\ (n # len => va + n = g + PAGE)
  BY <1>1, <1>2, <1>5, <1>6, CopyConsts
<1> HIDE DEF c, k, z
<1>8. va' = g + PAGE /\ va' \in Va64
  <2>1. add64(g, PAGE) = g + PAGE
    BY <1>5, CopyConsts DEF add64
  <2> QED BY <1>5, <2>1, CopyConsts DEF Round, Va64
<1>9. UNCHANGED <<call, ret>>
  BY DEF Round
\* The bytes of the round, and of the whole copy after it.
<1>10. ASSUME NEW m \in 1..n, copied' = copied \o Bytes(m)
      PROVE  /\ copied' \in Seq(Nat) /\ Len(copied') = k + m
             /\ \A i \in 1..(k + m) : copied'[i] = c + i - 1 /\ PageOf(copied'[i]) \in call.user
  <2>1. Bytes(m) \in Seq(Nat) /\ Len(Bytes(m)) = m
    BY <1>1 DEF Bytes
  <2>2. \A i \in 1..m : Bytes(m)[i] = va + i - 1
    BY DEF Bytes
  <2>3. copied' \in Seq(Nat) /\ Len(copied') = k + m
    <3>1. PICK b \in Seq(Nat) : b = Bytes(m) /\ Len(b) = m
      BY <2>1
    <3>2. copied \o b \in Seq(Nat) /\ Len(copied \o b) = Len(copied) + Len(b)
      BY <1>1
    <3> QED BY <1>10, <3>1, <3>2 DEF k
  <2>4. \A i \in 1..(k + m) : copied'[i] = IF i <= k THEN copied[i] ELSE Bytes(m)[i - k]
    BY <1>1, <1>2, <1>10, <2>1 DEF k
  <2>5. ASSUME NEW i \in 1..(k + m) PROVE copied'[i] = c + i - 1 /\ PageOf(copied'[i]) \in call.user
    <3>1. CASE i <= k
      BY <1>2, <1>4, <2>4, <2>5, <3>1
    <3>2. CASE i > k
      <4>1. i - k \in 1..m /\ copied'[i] = Bytes(m)[i - k]
        BY <1>2, <2>4, <3>2
      <4>2. copied'[i] = c + i - 1
        BY <1>2, <2>2, <4>1
      <4>3. c + i - 1 \in Nat /\ g <= c + i - 1 /\ c + i - 1 < g + PAGE
        BY <1>7, <3>2
      <4> QED BY <1>5, <4>2, <4>3
    <3> QED BY <1>2, <3>1, <3>2
  <2> QED BY <2>3, <2>5
<1> DEFINE found == call.fn = "copyinstr" /\ z \in va..(va + n - 1)
<1>11. /\ copied' = copied \o Bytes(IF found THEN z - va + 1 ELSE n)
      /\ len' = len - (IF found THEN z - va ELSE n)
      /\ got_null' = found
  BY <1>2, <1>6 DEF Round, z
<1>12. CASE found
  <2>1. z - va + 1 \in 1..n
    BY <1>7, <1>12
  <2>2. copied' = copied \o Bytes(z - va + 1) /\ len' = len - (z - va) /\ got_null'
    BY <1>11, <1>12
  <2>3. /\ copied' \in Seq(Nat) /\ Len(copied') = k + (z - va + 1)
        /\ \A i \in 1..(k + (z - va + 1)) : copied'[i] = c + i - 1 /\ PageOf(copied'[i]) \in call.user
    BY <1>10, <2>1, <2>2
  <2>4. len' \in Nat /\ k + (z - va + 1) \in 1..call.len /\ z = c + (k + (z - va + 1)) - 1
    BY <1>7, <2>1, <2>2
  <2>5. got_null' \in BOOLEAN
    BY <1>11
  <2> QED BY <1>1, <1>2, <1>8, <1>9, <1>12, <2>2, <2>3, <2>4, <2>5 DEF CopyInv, PageOf, c, k, z
<1>13. CASE ~found
  <2>1. copied' = copied \o Bytes(n) /\ len' = len - n /\ ~got_null'
    BY <1>11, <1>13
  <2>2. /\ copied' \in Seq(Nat) /\ Len(copied') = k + n
        /\ \A i \in 1..(k + n) : copied'[i] = c + i - 1 /\ PageOf(copied'[i]) \in call.user
    <3>1. n \in 1..n
      BY <1>6
    <3> QED BY <1>10, <2>1, <3>1
  <2>3. /\ len' \in Nat /\ (k + n) + len' = call.len
        /\ call.fn = "copyinstr" => z \notin c..(c + (k + n) - 1)
        /\ len' > 0 => va' = c + (k + n)
    BY <1>3, <1>7, <1>8, <1>13, <2>1
  <2>4. got_null' \in BOOLEAN
    BY <1>11
  <2> QED BY <1>1, <1>2, <1>8, <1>9, <2>1, <2>2, <2>3, <2>4 DEF CopyInv, PageOf, c, k, z
<1> QED BY <1>12, <1>13

\* Where a copy stops for want of a page, a byte that was asked for has none.
LEMMA NoPageStep ==
  ASSUME CopyInv, lab = "Lab3", NoPage, UNCHANGED lab
  PROVE  CopyInv' /\ CopyExact'
<1>1. /\ call \in Calls /\ va \in Nat /\ len \in Nat /\ len > 0 /\ copied \in Seq(Nat)
      /\ ~got_null /\ ret' = -1 /\ UNCHANGED <<call, va, len, copied, got_null>>
      /\ PageOf(va) \notin call.user /\ va < UINT64
  BY CopyConsts DEF CopyInv, NoPage, walkaddr, Va64
<1>2. CopyInv'
  BY <1>1 DEF CopyInv, PageOf
<1> DEFINE c == call.va
           k == Len(copied)
           z == call.zero
<1>3. /\ c \in Nat /\ k \in Nat /\ z \in Int /\ call.len \in Nat
      /\ va = c + k /\ k + len = call.len
  BY <1>1, CallFacts DEF CopyInv
<1>4. call.fn = "copyinstr" => z \notin c..(c + k - 1)
  BY <1>1 DEF CopyInv
<1>5. k + 1 \in DOMAIN Asked /\ Asked[k + 1] = va
  <2>1. z >= c /\ z - c < call.len => z >= c + k
    BY <1>1, <1>3, <1>4, CallFacts
  <2>2. PICK n \in Nat : /\ n = (IF z >= c /\ z - c < call.len THEN z - c + 1 ELSE call.len)
                         /\ DOMAIN Asked = 1..n
                         /\ \A i \in 1..n : c + i - 1 < UINT64 => Asked[i] = c + i - 1
    BY <1>1, <1>3, AskedFacts
  <2>3. k + 1 \in 1..n /\ c + (k + 1) - 1 = va
    BY <1>1, <1>3, <2>1, <2>2
  <2> QED BY <1>1, <2>2, <2>3
<1>6. CopyPrefix'
  BY <1>2, CopiedPrefixNext
<1>7. Asked' = Asked
  BY <1>1 DEF Asked
<1>8. ~(\A i \in DOMAIN Asked : PageOf(Asked[i]) \in call.user)
  BY <1>1, <1>5
<1>9. \A i \in 1..k : PageOf(copied[i]) \in call.user
  BY <1>1 DEF CopyInv
<1>10. k <= Len(Asked) /\ copied = SubSeq(Asked, 1, k)
  BY CopiedPrefix DEF CopyPrefix
<1>11. DOMAIN copied = 1..k
  BY <1>1
<1> QED BY <1>1, <1>2, <1>7, <1>8, <1>9, <1>10, <1>11 DEF CopyExact, PageOf

LEMMA FinishStep ==
  ASSUME CopyInv, lab = "Lab3", Finish, UNCHANGED lab
  PROVE  CopyInv' /\ CopyExact'
<1>1. /\ call \in Calls /\ va \in Nat /\ len \in Nat /\ copied \in Seq(Nat)
      /\ UNCHANGED <<call, va, len, copied, got_null>>
      /\ ret' = IF call.fn # "copyinstr" \/ got_null THEN 0 ELSE -1
      /\ len = 0 \/ got_null
  BY DEF CopyInv, Finish, Va64
<1>2. CopyInv'
  BY <1>1 DEF CopyInv, PageOf
<1> DEFINE c == call.va
           k == Len(copied)
           z == call.zero
           allPages == \A i \in DOMAIN Asked : PageOf(Asked[i]) \in call.user
           zeroIn   == z \in {Asked[i] : i \in DOMAIN Asked}
<1>3. c \in Nat /\ k \in Nat /\ z \in Int /\ call.len \in Nat /\ DOMAIN copied = 1..k
  BY <1>1, CallFacts
<1>4. Asked' = Asked
  BY <1>1 DEF Asked
<1>5. \A i \in 1..k : PageOf(copied[i]) \in call.user /\ copied[i] = c + i - 1
  BY <1>1 DEF CopyInv
<1>6. k <= Len(Asked) /\ copied = SubSeq(Asked, 1, k) /\ \A i \in 1..k : copied[i] = Asked[i]
  BY CopiedPrefix DEF CopyPrefix
<1>7. PICK n \in Nat : /\ n = (IF z >= c /\ z - c < call.len THEN z - c + 1 ELSE call.len)
                       /\ Len(Asked) = n /\ DOMAIN Asked = 1..n /\ Asked \in Seq(Nat)
  BY <1>1, AskedFacts
\* It has copied all that was asked for.
<1>8. k = n
  <2>1. CASE got_null
    <3>1. k \in 1..call.len /\ z = c + k - 1
      BY <2>1 DEF CopyInv
    <3> HIDE DEF k, c, z
    <3> QED BY <1>3, <1>7, <3>1
  <2>2. CASE ~got_null
    <3>1. len = 0
      BY <1>1, <2>2
    <3>2. k = call.len /\ (call.fn = "copyinstr" => z \notin c..(c + k - 1))
      BY <1>1, <1>3, <2>2, <3>1 DEF CopyInv
    <3>3. call.fn # "copyinstr" => z = -1
      BY <1>1, CallFacts
    <3> HIDE DEF k, c, z
    <3> QED BY <1>3, <1>7, <3>2, <3>3
  <2> QED BY <2>1, <2>2
<1>9. allPages /\ copied = Asked
  <2>1. copied = Asked
    <3>1. DOMAIN copied = DOMAIN Asked /\ \A i \in DOMAIN Asked : copied[i] = Asked[i]
      BY <1>3, <1>6, <1>7, <1>8
    <3>2. copied = [i \in DOMAIN copied |-> copied[i]] /\ Asked = [i \in DOMAIN Asked |-> Asked[i]]
      BY <1>1, <1>7
    <3> QED BY <3>1, <3>2
  <2> QED BY <1>3, <1>5, <2>1
<1>10. call.fn = "copyinstr" => (zeroIn <=> got_null)
  <2> SUFFICES ASSUME call.fn = "copyinstr" PROVE zeroIn <=> got_null
    OBVIOUS
  <2>1. CASE got_null
    <3>1. k \in 1..k /\ z = c + k - 1
      BY <1>3, <2>1 DEF CopyInv
    <3>2. copied[k] = z /\ k \in DOMAIN Asked
      BY <1>3, <1>5, <1>9, <3>1
    <3> QED BY <1>9, <2>1, <3>2
  <2>2. CASE ~got_null
    <3>1. z \notin c..(c + k - 1)
      BY <2>2 DEF CopyInv
    <3>2. \A i \in 1..k : copied[i] # z
      <4> HIDE DEF k, c, z
      <4> QED BY <1>3, <1>5, <3>1
    <3> QED BY <1>3, <1>9, <2>2, <3>2
  <2> QED BY <2>1, <2>2
<1>11. ret' = IF allPages /\ (call.fn = "copyinstr" => zeroIn) THEN 0 ELSE -1
  <2> HIDE DEF allPages, zeroIn
  <2> QED BY <1>1, <1>9, <1>10
<1> QED BY <1>1, <1>2, <1>3, <1>4, <1>5, <1>6, <1>9, <1>11 DEF CopyExact, PageOf

LEMMA RoundExact ==
  ASSUME CopyInv, lab = "Lab3", Round, UNCHANGED lab
  PROVE  CopyInv' /\ CopyExact'
<1>1. CopyInv' /\ CopyPrefix'
  BY RoundStep, CopiedPrefixNext
<1>2. ret' = 1 /\ lab' = "Lab3"
  BY DEF Round
<1>3. (\A i \in DOMAIN copied : PageOf(copied[i]) \in call.user)'
  <2>1. (copied \in Seq(Nat))' /\ (\A i \in 1..Len(copied) : PageOf(copied[i]) \in call.user)'
    BY <1>1, <1>2 DEF CopyInv
  <2> QED BY <2>1
<1> QED BY <1>1, <1>2, <1>3 DEF CopyExact, CopyPrefix

LEMMA CopyInitInv == Init => CopyInv /\ CopyExact
<1> SUFFICES ASSUME Init, lab = "Lab3" PROVE CopyInv /\ CopyExact
  BY DEF CopyInv, CopyExact
<1>1. /\ call \in Calls /\ va = call.va /\ len = call.len
      /\ copied = <<>> /\ got_null = FALSE /\ ret = 1
  BY DEF Init, CopyInit
<1>2. CopyInv
  <2>1. Len(copied) = 0 /\ copied \in Seq(Nat) /\ 1..Len(copied) = {}
    BY <1>1
  <2>2. call.va..(call.va + Len(copied) - 1) = {} /\ call.va = call.va + Len(copied)
    BY <1>1, <2>1, CallFacts
  <2>3. va \in Va64 /\ len \in Nat /\ Len(copied) + len = call.len
    BY <1>1, <2>1, CallFacts, CopyConsts DEF Va64
  <2> QED BY <1>1, <2>1, <2>2, <2>3 DEF CopyInv
<1>3. CopyPrefix
  BY <1>2, CopiedPrefix
<1> QED BY <1>1, <1>2, <1>3 DEF CopyExact, CopyPrefix

LEMMA CopyInductive == Spec => [](CopyInv /\ CopyExact)
<1>1. CopyInv /\ CopyExact /\ [Next]_vars => (CopyInv /\ CopyExact)'
  <2> SUFFICES ASSUME CopyInv, CopyExact, [Next]_vars PROVE CopyInv' /\ CopyExact'
    OBVIOUS
  <2>1. CASE UNCHANGED <<copyVars, lab>>
    BY <2>1 DEF copyVars, CopyInv, CopyExact, Asked, PageOf
  <2>2. CASE Copy
    BY <2>2, RoundExact, NoPageStep, FinishStep DEF Copy, copy
  <2> QED BY <2>1, <2>2 DEF Next, Boot, User, vars
<1> QED BY <1>1, CopyInitInv, PTL DEF Spec

\* copyin, copyout and copyinstr copy what was asked for and nothing else, for
\* every address, length, set of pages and place of the zero byte.
THEOREM CopiesExact == Spec => []CopyExact
  BY CopyInductive, PTL

----------------------------------------------------------------------------
(* The firmware's table of Lab2                                            *)

N == Len(firmware.table)

\* The loop has read the first entries and stands behind them.
ReadTo(j) == p = Behind[j] /\ ListedTo(j) /\ (at = "done" => j = N)
MpInv ==
  /\ firmware.table \in Seq(Types)
  /\ at = "mpconfig" => p = 0 /\ cpus = <<>> /\ ioapicid = 0
  /\ cpus \in Seq(Nat)
  /\ at \in {"loop", "done"} => \E j \in 0..N : ReadTo(j)

LEMMA BehindDef ==
  ASSUME firmware.table \in Seq(Types)
  PROVE  /\ N \in Nat /\ Behind[0] = 0
         /\ \A n \in 1..N : Behind[n] = Behind[n - 1] + SizeOf(firmware.table[n])
<1> DEFINE Size(n) == IF firmware.table[n] = "MPPROC" THEN 5 ELSE 2
           H == [x \in (1..N) \X Int |-> x[2] + Size(x[1])]
           Is1(f) == f = [n \in 0..N |-> IF n = 0 THEN 0 ELSE f[n - 1] + Size(n)]
<1>0. N \in Nat /\ 0 \in Int
  BY DEF N
<1> HIDE DEF N
<1>1. H \in [(1..N) \X Int -> Int]
  OBVIOUS
<1>2. PICK f : Recursive(f, N, Int, 0, H)
  <2> HIDE DEF H
  <2> QED BY <1>0, <1>1, Recursion
<1>3. Is1(f)
  <2>1. ASSUME NEW n \in 1..N PROVE f[n] = f[n - 1] + Size(n)
    <3>1. f[n - 1] \in Int
      BY <1>0, <1>2 DEF Recursive
    <3> QED BY <1>2, <3>1 DEF Recursive
  <2> HIDE DEF Size
  <2> QED BY <1>0, <1>2, <2>1 DEF Recursive
<1>4. \E g : Is1(g)
  BY <1>3
<1>5. Behind = CHOOSE g : Is1(g)
  BY DEF Behind, N
<1>6. Is1(Behind)
  <2> HIDE DEF Is1
  <2> QED BY <1>4, <1>5, Zenon
<1> QED BY <1>0, <1>6 DEF SizeOf

\* Every entry takes some room, so that no two begin at one address.
LEMMA BehindGrows ==
  ASSUME firmware.table \in Seq(Types)
  PROVE  /\ \A n \in 0..N : Behind[n] \in Nat
         /\ \A n \in 0..N : \A m \in 0..(n - 1) : Behind[m] < Behind[n]
<1> DEFINE S == {n \in 0..N : Behind[n] \in Nat /\ \A m \in 0..(n - 1) : Behind[m] \in Nat /\ Behind[m] < Behind[n]}
<1>1. N \in Nat /\ 0 \in S
  BY BehindDef
<1> HIDE DEF N
<1>2. ASSUME NEW n \in 1..N, n - 1 \in S PROVE n \in S
  <2>1. Behind[n] \in Nat /\ Behind[n - 1] < Behind[n] /\ Behind[n - 1] \in Nat
    BY <1>2, BehindDef DEF SizeOf
  <2>2. ASSUME NEW m \in 0..(n - 1) PROVE Behind[m] \in Nat /\ Behind[m] < Behind[n]
    <3>1. CASE m = n - 1
      BY <2>1, <3>1
    <3>2. CASE m # n - 1
      <4>1. m \in 0..(n - 1 - 1)
        BY <1>1, <3>2
      <4>2. Behind[m] \in Nat /\ Behind[m] < Behind[n - 1]
        BY <1>2, <4>1
      <4> QED BY <2>1, <4>2
    <3> QED BY <3>1, <3>2
  <2> QED BY <2>1, <2>2
<1>3. \A n \in 0..N : n \in S
  <2> HIDE DEF S
  <2> QED BY <1>1, <1>2, UpTo
<1> QED BY <1>3

\* So the one that the loop reads is the next.
LEMMA EntryNext ==
  ASSUME firmware.table \in Seq(Types), NEW j \in 0..N, p = Behind[j]
  PROVE  /\ p < End => j + 1 \in 1..N /\ EntryAt = {j + 1}
         /\ p >= End => j = N
<1>1. N \in Nat /\ DOMAIN firmware.table = 1..N /\ End = Behind[N]
  BY DEF N, End
<1> HIDE DEF N
<1>2. \A i \in 0..N : i # j => Behind[i] # Behind[j]
  <2> TAKE i \in 0..N
  <2>1. i < j => i \in 0..(j - 1)
    BY <1>1
  <2>2. j < i => j \in 0..(i - 1)
    BY <1>1
  <2> QED BY <1>1, <2>1, <2>2, BehindGrows
<1>3. j < N <=> p < End
  <2>1. j < N => j \in 0..(N - 1)
    BY <1>1
  <2> QED BY <1>1, <2>1, BehindGrows
<1>4. ASSUME p < End PROVE j + 1 \in 1..N /\ EntryAt = {j + 1}
  <2>1. j + 1 \in 1..N /\ (j + 1) - 1 = j
    BY <1>1, <1>3, <1>4
  <2>2. \A i \in 1..N : Behind[i - 1] = p <=> i = j + 1
    <3> TAKE i \in 1..N
    <3>1. i - 1 \in 0..N /\ (i - 1 = j <=> i = j + 1)
      BY <1>1
    <3> QED BY <1>2, <2>1, <3>1
  <2> QED BY <1>1, <2>1, <2>2 DEF EntryAt
<1>5. p >= End => j = N
  <2>1. p \in Nat /\ End \in Nat
    BY <1>1, BehindGrows
  <2> QED BY <1>1, <1>3, <2>1
<1> QED BY <1>4, <1>5

\* Which entries are of a type, with one more read.
Of(n, t) == {i \in 1..n : firmware.table[i] = t}
Found    == {cpus[k] : k \in DOMAIN cpus}

LEMMA OfNext ==
  ASSUME NEW j \in Nat, NEW t
  PROVE  Of(j + 1, t) = IF firmware.table[j + 1] = t THEN Of(j, t) \cup {j + 1} ELSE Of(j, t)
<1>1. 1..(j + 1) = (1..j) \cup {j + 1}
  OBVIOUS
<1> QED BY <1>1 DEF Of

CpusTo(n) ==
  /\ Len(cpus) <= NCPU /\ Found \subseteq Of(n, "MPPROC")
  /\ \A k, l \in DOMAIN cpus : k < l => cpus[k] < cpus[l]
  /\ \A i \in Of(n, "MPPROC") \ Found : Len(cpus) = NCPU /\ \A c \in Found : c < i
ApicTo(n) ==
  IF Of(n, "MPIOAPIC") = {} THEN ioapicid = 0
  ELSE ioapicid \in Of(n, "MPIOAPIC") /\ \A i \in Of(n, "MPIOAPIC") : i <= ioapicid

LEMMA ListedParts == \A n : ListedTo(n) <=> CpusTo(n) /\ ApicTo(n)
  BY DEF ListedTo, CpusTo, ApicTo, Of, Found

LEMMA NotLess == \A a, b \in Nat : a <= b /\ ~(a < b) => a = b
  OBVIOUS

LEMMA CpusNext ==
  ASSUME firmware.table \in Seq(Types), cpus \in Seq(Nat), NEW j \in Nat, CpusTo(j),
         UNCHANGED firmware,
         cpus' = IF firmware.table[j + 1] = "MPPROC" /\ Room THEN Append(cpus, j + 1) ELSE cpus
  PROVE  CpusTo(j + 1)' /\ (cpus \in Seq(Nat))'
<1> DEFINE T == Of(j, "MPPROC")
<1>1. Of(j + 1, "MPPROC")' = IF firmware.table[j + 1] = "MPPROC" THEN T \cup {j + 1} ELSE T
  BY OfNext DEF Of
<1>2. T \subseteq 1..j
  BY DEF Of
<1>3. Len(cpus) \in Nat /\ DOMAIN cpus = 1..Len(cpus) /\ NCPU \in Nat
  BY MpAssumption
<1>4. CASE firmware.table[j + 1] = "MPPROC" /\ Room
  <2>1. /\ cpus' = Append(cpus, j + 1) /\ cpus' \in Seq(Nat)
        /\ Len(cpus') = Len(cpus) + 1 /\ DOMAIN cpus' = 1..(Len(cpus) + 1)
        /\ \A k \in 1..Len(cpus) : cpus'[k] = cpus[k]
        /\ cpus'[Len(cpus) + 1] = j + 1
    BY <1>4
  <2>2. Found' = Found \cup {j + 1}
    <3>1. 1..(Len(cpus) + 1) = (1..Len(cpus)) \cup {Len(cpus) + 1}
      BY <1>3
    <3> QED BY <1>3, <2>1, <3>1 DEF Found
  <2>3. T \subseteq Found
    BY <1>3, <1>4 DEF CpusTo, Room
  <2>4. Found \subseteq T
    BY DEF CpusTo
  <2>5. Len(cpus') <= NCPU /\ Found' \subseteq T \cup {j + 1} /\ (T \cup {j + 1}) \ Found' = {}
    BY <1>3, <1>4, <2>1, <2>2, <2>3, <2>4 DEF Room
  <2>6. \A k, l \in DOMAIN cpus' : k < l => cpus'[k] < cpus'[l]
    <3> SUFFICES ASSUME NEW k \in 1..(Len(cpus) + 1), NEW l \in 1..(Len(cpus) + 1), k < l
                 PROVE  cpus'[k] < cpus'[l]
      BY <2>1
    <3>1. k \in 1..Len(cpus) /\ cpus[k] \in T
      BY <1>3, <2>4 DEF Found
    <3>2. cpus[k] \in Nat /\ cpus[k] < j + 1
      BY <1>2, <3>1
    <3>3. CASE l \in 1..Len(cpus)
      BY <1>3, <2>1, <3>1, <3>3 DEF CpusTo
    <3>4. CASE l = Len(cpus) + 1
      BY <2>1, <3>1, <3>2, <3>4
    <3> QED BY <1>3, <3>3, <3>4
  <2> HIDE DEF T
  <2> QED BY <1>1, <1>4, <2>1, <2>5, <2>6 DEF CpusTo
<1>5. CASE firmware.table[j + 1] = "MPPROC" /\ ~Room
  <2>1. cpus' = cpus /\ Len(cpus) = NCPU /\ Found' = Found
    <3>1. cpus' = cpus
      BY <1>5
    <3>2. Found' = Found
      BY <3>1 DEF Found
    <3>3. Len(cpus) <= NCPU /\ ~(Len(cpus) < NCPU)
      BY <1>5 DEF Room, CpusTo
    <3>4. Len(cpus) = NCPU
      BY <1>3, <3>3, NotLess, Zenon
    <3> QED BY <3>1, <3>2, <3>4
  <2>2. \A c \in Found : c < j + 1
    BY <1>2 DEF CpusTo
  <2> HIDE DEF T
  <2> QED BY <1>1, <1>5, <2>1, <2>2 DEF CpusTo, T
<1>6. CASE firmware.table[j + 1] # "MPPROC"
  <2>1. cpus' = cpus /\ Found' = Found
    BY <1>6 DEF Found
  <2> QED BY <1>1, <1>6, <2>1 DEF CpusTo
<1> QED BY <1>4, <1>5, <1>6

LEMMA ApicNext ==
  ASSUME NEW j \in Nat, ApicTo(j), UNCHANGED firmware,
         ioapicid' = IF firmware.table[j + 1] = "MPIOAPIC" THEN j + 1 ELSE ioapicid
  PROVE  ApicTo(j + 1)'
<1> DEFINE T == Of(j, "MPIOAPIC")
<1>1. Of(j + 1, "MPIOAPIC")' = IF firmware.table[j + 1] = "MPIOAPIC" THEN T \cup {j + 1} ELSE T
  BY OfNext DEF Of
<1>2. T \subseteq 1..j
  BY DEF Of
<1> QED BY <1>1, <1>2 DEF ApicTo

\* One round of the loop reads one entry.
LEMMA EntryStep ==
  ASSUME MpInv, NEW i, NEW t \in {"MPPROC", "MPIOAPIC", "MPBUS"}, Is(i, t), Skip(t),
         UNCHANGED <<firmware, at>>,
         cpus' = IF t = "MPPROC" /\ Room THEN Append(cpus, i) ELSE cpus,
         ioapicid' = IF t = "MPIOAPIC" THEN i ELSE ioapicid
  PROVE  MpInv'
<1>1. PICK j \in 0..N : ReadTo(j)
  BY DEF MpInv, Is
<1>2. firmware.table \in Seq(Types) /\ cpus \in Seq(Nat) /\ p < End /\ N \in Nat
  BY DEF MpInv, Is, N
<1>3. i = j + 1 /\ j + 1 \in 1..N /\ firmware.table[j + 1] = t
  BY <1>1, <1>2, EntryNext DEF Is, ReadTo
<1>4. p' = Behind[j + 1]
  <2>1. Behind[j + 1] = Behind[j] + SizeOf(t)
    <3>1. (j + 1) - 1 = j
      OBVIOUS
    <3> QED BY <1>2, <1>3, <3>1, BehindDef
  <2> QED BY <1>1, <2>1 DEF Skip, ReadTo
<1>5. Behind' = Behind /\ N' = N
  BY DEF Behind, N
<1>6. j \in Nat /\ CpusTo(j) /\ ApicTo(j)
  BY <1>1, ListedParts DEF ReadTo
<1>7. CpusTo(j + 1)' /\ (cpus \in Seq(Nat))'
  BY <1>2, <1>3, <1>6, CpusNext
<1>8. ApicTo(j + 1)'
  BY <1>2, <1>3, <1>6, ApicNext
<1>9. ListedTo(j + 1)'
  BY <1>7, <1>8 DEF ListedTo, CpusTo, ApicTo, Of, Found
<1>10. at' = "loop"
  BY DEF Is
<1>11. ReadTo(j + 1)' /\ j + 1 \in 0..N
  BY <1>2, <1>3, <1>4, <1>5, <1>9, <1>10 DEF ReadTo
<1> QED BY <1>2, <1>5, <1>7, <1>10, <1>11 DEF MpInv

LEMMA MpInitInv == Init => MpInv
<1> SUFFICES ASSUME Init PROVE MpInv
  OBVIOUS
<1>1. at = "mpconfig" /\ p = 0 /\ cpus = <<>> /\ ioapicid = 0
  BY DEF Init, MpInit
<1>2. firmware \in Firmwares \cup {NoFirmware}
  BY DEF Init, MpInit
<1>3. firmware.table \in Seq(Types)
  <2>1. CASE firmware.table \in Tables
    <3>1. PICK n \in Nat : firmware.table \in [1..n -> Types]
      BY <2>1, MpAssumption DEF Tables
    <3> QED BY <3>1
  <2>2. <<"MPPROC">> \in Seq(Types) /\ <<>> \in Seq(Types)
    <3>1. "MPPROC" \in Types
      BY DEF Types
    <3> QED BY <3>1
  <2>3. CASE firmware = NoFirmware
    BY <2>2, <2>3 DEF NoFirmware
  <2>4. CASE firmware \in [ebda : BOOLEAN, has : Places, conf : Confs, imcrp : {FALSE}, table : {<<"MPPROC">>}]
    BY <2>2, <2>4
  <2>5. CASE firmware \in [ebda : {TRUE}, has : {Good}, conf : {"good"}, imcrp : BOOLEAN, table : Tables]
    BY <2>1, <2>5
  <2> QED BY <1>2, <2>3, <2>4, <2>5 DEF Firmwares
<1> QED BY <1>1, <1>3 DEF MpInv

LEMMA MpStep == MpInv /\ [Next]_vars => MpInv'
<1> SUFFICES ASSUME MpInv, [Next]_vars PROVE MpInv'
  OBVIOUS
<1>0. ASSUME UNCHANGED <<firmware, p, cpus, ioapicid, at>> PROVE MpInv'
  <2>1. N' = N /\ Behind' = Behind /\ \A n : ListedTo(n)' <=> ListedTo(n)
    BY <1>0 DEF N, Behind, ListedTo
  <2>2. \A j : ReadTo(j)' <=> ReadTo(j)
    BY <1>0, <2>1 DEF ReadTo
  <2> QED BY <1>0, <2>1, <2>2 DEF MpInv
<1>1. CASE UNCHANGED mpVars
  BY <1>0, <1>1 DEF mpVars
<1>2. CASE mpconfig
  <2>1. UNCHANGED <<firmware, p, cpus, ioapicid>> /\ at' \in {"loop", "panic"}
        /\ p = 0 /\ cpus = <<>> /\ ioapicid = 0 /\ firmware.table \in Seq(Types) /\ N \in Nat
    BY <1>2 DEF mpconfig, MpInv, N
  <2>2. p = Behind[0]
    BY <2>1, BehindDef
  <2>3. ListedTo(0)
    <3>1. Len(cpus) = 0 /\ DOMAIN cpus = {} /\ 1..0 = {} /\ NCPU \in Nat
      BY <2>1, MpAssumption
    <3> QED BY <2>1, <3>1 DEF ListedTo
  <2>4. ReadTo(0)'
    BY <2>1, <2>2, <2>3 DEF ReadTo, Behind, ListedTo
  <2> QED BY <2>1, <2>4 DEF MpInv, N
<1>3. CASE Unknown
  BY <1>0, <1>3 DEF Unknown
<1>4. CASE LoopEnd
  <2>1. UNCHANGED <<firmware, p, cpus, ioapicid>> /\ at' \in {"done", "panic"} /\ at = "loop" /\ p >= End
    BY <1>4 DEF LoopEnd
  <2>2. PICK j \in 0..N : ReadTo(j)
    BY <2>1 DEF MpInv
  <2>3. j = N
    BY <2>1, <2>2, EntryNext DEF MpInv, ReadTo
  <2>4. N' = N /\ Behind' = Behind /\ (ListedTo(j)' <=> ListedTo(j))
    BY <2>1 DEF N, Behind, ListedTo
  <2>5. ReadTo(j)'
    BY <2>1, <2>2, <2>3, <2>4 DEF ReadTo
  <2> QED BY <2>1, <2>2, <2>4, <2>5 DEF MpInv
<1>5. ASSUME NEW i, Processor(i) \/ IoApic(i) \/ Other(i) PROVE MpInv'
  BY <1>5, EntryStep DEF Processor, IoApic, Other
<1> QED BY <1>1, <1>2, <1>3, <1>4, <1>5 DEF Next, Boot, User, Copy, mpinit, vars

\* Whatever the table, mpinit returns with its CPUs, as many as there is room
\* for, and its last I/O APIC.
THEOREM CpusFound == Spec => []CpusListed
<1>1. MpInv => CpusListed
  BY DEF MpInv, CpusListed, ReadTo, N
<1> QED BY <1>1, MpInitInv, MpStep, PTL DEF Spec
=============================================================================
