--------------------------- MODULE LotteryProofs ---------------------------
(***************************************************************************)
(* The draw of scheduler for every table, as long as the tickets of the    *)
(* runnable processes add up to an int.                                    *)
(***************************************************************************)
EXTENDS Lottery, NatFacts, FiniteSetTheorems

\* The sum of the tickets of the runnable processes up to slot n, without the
\* limits of int, and that it is within them.
Tickets(n) == IF Runnable(n) THEN tickets[n] ELSE 0
exact[n \in 0..NPROC] == IF n = 0 THEN 0 ELSE exact[n - 1] + Tickets(n)
SumFits == exact[NPROC] < UINT \div 2

\* Whoever is or can become runnable has a ticket.
HasTicket ==
  /\ state \in [Slot -> {"UNUSED", "RUNNABLE", "SLEEPING"}]
  /\ tickets \in [Slot -> Int]
  /\ \A p \in Slot : state[p] # "UNUSED" => tickets[p] >= 1

----------------------------------------------------------------------------
(* The two loops over the table                                            *)

LEMMA ConstFacts ==
  /\ NPROC \in Nat \ {0} /\ TicketNs \subseteq Int /\ UINT \in Nat \ {0}
  /\ UINT \div 2 \in Nat /\ 2 * (UINT \div 2) <= UINT
  /\ Slot = 1..NPROC
  BY LotteryAssumption DEF Slot

\* Numbers in the range of int are left alone.
LEMMA IntFacts == ASSUME NEW x \in Nat, x < UINT \div 2 PROVE int(x) = x /\ uint(x) = x
<1>1. UINT \in Nat \ {0} /\ UINT \div 2 \in Nat /\ x < UINT /\ x + UINT \div 2 < UINT
  BY ConstFacts
<1>2. PICK h \in Nat : h = UINT \div 2
  BY <1>1
<1>3. x + h \in 0..(UINT - 1) /\ x \in 0..(UINT - 1)
  BY <1>1, <1>2
<1>4. \A y \in 0..(UINT - 1) : y % UINT = y
  BY <1>1
<1>5. (x + h) % UINT = x + h /\ x % UINT = x
  BY <1>3, <1>4
<1> QED BY <1>2, <1>5 DEF int, uint

LEMMA TicketFacts == ASSUME HasTicket, NEW n \in Slot
                     PROVE  Tickets(n) \in Nat /\ (Runnable(n) => Tickets(n) >= 1)
  BY DEF HasTicket, Tickets, Runnable

\* The recursive definitions have a meaning.
LEMMA ExactDef == ASSUME HasTicket
  PROVE  /\ exact = [n \in 0..NPROC |-> IF n = 0 THEN 0 ELSE exact[n - 1] + Tickets(n)]
<1> DEFINE H == [x \in (1..NPROC) \X Int |-> x[2] + Tickets(x[1])]
           Is(f) == f = [n \in 0..NPROC |-> IF n = 0 THEN 0 ELSE f[n - 1] + Tickets(n)]
<1>1. H \in [(1..NPROC) \X Int -> Int]
  BY TicketFacts, ConstFacts
<1>2. PICK f : Recursive(f, NPROC, Int, 0, H)
  <2>1. NPROC \in Nat /\ 0 \in Int
    BY ConstFacts
  <2> HIDE DEF H
  <2> QED BY <1>1, <2>1, Recursion
<1>3. Is(f)
  <2>1. ASSUME NEW n \in 1..NPROC PROVE f[n] = f[n - 1] + Tickets(n)
    <3>1. f[n - 1] \in Int
      BY <1>2, ConstFacts DEF Recursive
    <3> QED BY <1>2, <3>1 DEF Recursive
  <2> QED BY <1>2, <2>1, ConstFacts DEF Recursive
<1>4. \E g : Is(g)
  BY <1>3
<1>5. exact = CHOOSE g : Is(g)
  BY DEF exact
<1> HIDE DEF Is
<1>6. Is(exact)
  BY <1>4, <1>5, Zenon
<1> QED BY <1>6 DEF Is

LEMMA ExactFacts == ASSUME HasTicket
  PROVE  /\ exact[0] = 0
         /\ \A n \in 1..NPROC : exact[n] = exact[n - 1] + Tickets(n)
         /\ \A n \in 0..NPROC : exact[n] \in Nat
<1>1. exact[0] = 0 /\ \A n \in 1..NPROC : exact[n] = exact[n - 1] + Tickets(n)
  BY ExactDef, ConstFacts
<1> DEFINE S == {n \in 0..NPROC : exact[n] \in Nat}
<1>2. 0 \in S /\ \A n \in 1..NPROC : n - 1 \in S => n \in S
  BY <1>1, TicketFacts, ConstFacts
<1>3. \A n \in 0..NPROC : n \in S
  <2> HIDE DEF S
  <2> QED BY <1>2, UpTo, ConstFacts
<1> QED BY <1>1, <1>3

LEMMA ExactGrows ==
  ASSUME HasTicket, NEW m \in 0..NPROC, NEW n \in 0..NPROC, m <= n
  PROVE  exact[m] <= exact[n]
<1> DEFINE S == {k \in 0..NPROC : m <= k => exact[m] <= exact[k]}
<1>1. 0 \in S
  BY ExactFacts, ConstFacts
<1>2. ASSUME NEW k \in 1..NPROC, k - 1 \in S PROVE k \in S
  <2>1. /\ exact[k] = exact[k - 1] + Tickets(k) /\ Tickets(k) \in Nat
        /\ exact[k - 1] \in Nat /\ exact[m] \in Nat /\ exact[k] \in Nat
    BY ExactFacts, TicketFacts, ConstFacts
  <2> QED BY <1>2, <2>1, ConstFacts
<1>3. \A k \in 0..NPROC : k \in S
  <2> HIDE DEF S
  <2> QED BY <1>1, <1>2, UpTo, ConstFacts
<1> QED BY <1>3

LEMMA CounterDef == ASSUME HasTicket
  PROVE  /\ counter[0] = 0
         /\ \A n \in 1..NPROC :
              counter[n] = IF Runnable(n) THEN int(counter[n - 1] + tickets[n]) ELSE counter[n - 1]
<1> DEFINE H == [x \in (1..NPROC) \X Int |-> IF Runnable(x[1]) THEN int(x[2] + tickets[x[1]]) ELSE x[2]]
           Is(f) == f = [n \in 0..NPROC |-> IF n = 0 THEN 0
                                            ELSE IF Runnable(n) THEN int(f[n - 1] + tickets[n])
                                                                ELSE f[n - 1]]
<1>1. H \in [(1..NPROC) \X Int -> Int]
  <2>1. \A x \in Int : int(x) \in Int
    BY ConstFacts DEF int
  <2>2. \A n \in 1..NPROC : tickets[n] \in Int
    BY ConstFacts DEF HasTicket
  <2> QED BY <2>1, <2>2
<1>2. PICK f : Recursive(f, NPROC, Int, 0, H)
  <2>1. NPROC \in Nat /\ 0 \in Int
    BY ConstFacts
  <2> HIDE DEF H
  <2> QED BY <1>1, <2>1, Recursion
<1>3. Is(f)
  <2>1. ASSUME NEW n \in 1..NPROC
        PROVE  f[n] = IF Runnable(n) THEN int(f[n - 1] + tickets[n]) ELSE f[n - 1]
    <3>1. f[n - 1] \in Int
      BY <1>2, ConstFacts DEF Recursive
    <3> QED BY <1>2, <3>1 DEF Recursive
  <2> QED BY <1>2, <2>1, ConstFacts DEF Recursive
<1>4. \E g : Is(g)
  BY <1>3
<1>5. counter = CHOOSE g : Is(g)
  BY DEF counter
<1> HIDE DEF Is
<1>6. Is(counter)
  BY <1>4, <1>5, Zenon
<1>7. counter = [n \in 0..NPROC |-> IF n = 0 THEN 0
                                   ELSE IF Runnable(n) THEN int(counter[n - 1] + tickets[n])
                                                       ELSE counter[n - 1]]
  BY <1>6 DEF Is
<1> QED BY <1>7, ConstFacts

\* While the sum fits, counter is the sum so far.
LEMMA CounterExact == ASSUME HasTicket, SumFits
  PROVE  \A n \in 0..NPROC : counter[n] = exact[n]
<1> DEFINE S == {n \in 0..NPROC : counter[n] = exact[n]}
<1>1. 0 \in S
  BY CounterDef, ExactFacts, ConstFacts
<1>2. ASSUME NEW n \in 1..NPROC, n - 1 \in S PROVE n \in S
  <2>1. /\ exact[n] = exact[n - 1] + Tickets(n) /\ exact[n] \in Nat /\ exact[n - 1] \in Nat
        /\ counter[n - 1] = exact[n - 1]
    BY <1>2, ExactFacts, ConstFacts
  <2>2. exact[n] < UINT \div 2
    <3>1. exact[n] <= exact[NPROC] /\ exact[NPROC] \in Nat
      BY ExactGrows, ExactFacts, ConstFacts
    <3> QED BY <2>1, <3>1, ConstFacts DEF SumFits
  <2>3. int(exact[n]) = exact[n]
    BY <2>1, <2>2, IntFacts
  <2>4. counter[n] = exact[n]
    BY <2>1, <2>3, CounterDef DEF Tickets
  <2> QED BY <2>4
<1>3. \A n \in 0..NPROC : n \in S
  <2> HIDE DEF S
  <2> QED BY <1>1, <1>2, UpTo, ConstFacts
<1> QED BY <1>3

\* The search stops where the ticket w is sold.
LEMMA WonIs == ASSUME HasTicket, SumFits, NEW w \in Nat, NEW p \in Slot
  PROVE  p \in Won(w) <=> Runnable(p) /\ exact[p - 1] <= w /\ w < exact[p]
<1>1. /\ p \in 1..NPROC /\ p \in 0..NPROC /\ p - 1 \in 0..NPROC
      /\ counter[p] = exact[p] /\ exact[p] \in Nat /\ exact[p - 1] \in Nat
  BY CounterExact, ExactFacts, ConstFacts
<1>2. ASSUME exact[p - 1] <= w, NEW q \in 1..(p - 1)
      PROVE  ~(counter[q] > w)
  <2>1. q \in 0..NPROC /\ q <= p - 1
    BY <1>1, ConstFacts
  <2>2. exact[q] <= exact[p - 1] /\ exact[q] \in Nat /\ counter[q] = exact[q]
    BY <1>1, <2>1, ExactGrows, ExactFacts, CounterExact
  <2> QED BY <1>1, <1>2, <2>2
<1>3. ASSUME ~(exact[p - 1] <= w)
      PROVE  \E q \in 1..(p - 1) : Runnable(q) /\ counter[q] > w
  <2> DEFINE S == {q \in 0..NPROC : exact[q] > w}
  <2>1. S \in SUBSET Nat /\ p - 1 \in S
    BY <1>1, <1>3, ConstFacts
  <2>2. PICK q \in S : \A r \in S : q <= r
    <3> HIDE DEF S
    <3> QED BY <2>1, Least
  <2>3. q \in 1..NPROC /\ q <= p - 1 /\ exact[q] > w
    BY <1>1, <2>1, <2>2, ExactFacts, ConstFacts
  <2>4. q - 1 \in 0..NPROC /\ q - 1 \notin S /\ exact[q - 1] \in Nat
    BY <2>2, <2>3, ExactFacts, ConstFacts
  <2>5. Runnable(q)
    BY <2>3, <2>4, ExactFacts DEF Tickets
  <2>6. counter[q] = exact[q] /\ q \in 1..(p - 1)
    BY <1>1, <2>3, CounterExact, ConstFacts
  <2> QED BY <2>3, <2>5, <2>6
<1> QED BY <1>1, <1>2, <1>3 DEF Won

\* Every draw below the sum has a winner.
LEMMA DrawWon == ASSUME HasTicket, SumFits, NEW w \in Nat, w < exact[NPROC]
  PROVE  \E p \in Slot : p \in Won(w)
<1> DEFINE S == {p \in 0..NPROC : exact[p] > w}
<1>1. S \in SUBSET Nat /\ NPROC \in S
  BY ExactFacts, ConstFacts
<1>2. PICK p \in S : \A r \in S : p <= r
  <2> HIDE DEF S
  <2> QED BY <1>1, Least
<1>3. p \in 1..NPROC /\ exact[p] > w
  BY <1>2, ExactFacts, ConstFacts
<1>4. p - 1 \in 0..NPROC /\ p - 1 \notin S /\ exact[p - 1] \in Nat
  BY <1>2, <1>3, ExactFacts, ConstFacts
<1>5. exact[p - 1] <= w
  BY <1>4
<1>6. Runnable(p)
  BY <1>3, <1>4, ExactFacts DEF Tickets
<1> QED BY <1>3, <1>5, <1>6, WonIs, ConstFacts

LEMMA ShareLemma == HasTicket /\ SumFits => ShareExact
<1> SUFFICES ASSUME HasTicket, SumFits, NEW p \in Slot
             PROVE  Cardinality({w \in 0..(total - 1) : p \in Won(w)}) = Tickets(p)
  BY DEF ShareExact, Tickets
<1>1. /\ p \in 1..NPROC /\ p \in 0..NPROC /\ p - 1 \in 0..NPROC /\ NPROC \in 0..NPROC
      /\ p <= NPROC
  BY ConstFacts
<1>2. /\ total = exact[NPROC] /\ exact[NPROC] \in Nat /\ exact[p] \in Nat /\ exact[p - 1] \in Nat
      /\ exact[p] = exact[p - 1] + Tickets(p) /\ Tickets(p) \in Nat
  BY <1>1, CounterExact, ExactFacts, TicketFacts DEF total
<1>3. exact[p] <= exact[NPROC]
  BY <1>1, ExactGrows
<1>4. {w \in 0..(total - 1) : p \in Won(w)} = exact[p - 1]..(exact[p] - 1)
  <2>1. \A w \in Nat : p \in Won(w) <=> Runnable(p) /\ exact[p - 1] <= w /\ w < exact[p]
    BY WonIs
  <2>2. ~Runnable(p) => exact[p] = exact[p - 1]
    BY <1>2 DEF Tickets
  <2> QED BY <1>2, <1>3, <2>1, <2>2
<1>5. \A m, n \in Nat : m <= n => Cardinality(m..(n - 1)) = n - m
  <2> TAKE m, n \in Nat
  <2>1. m \in Int /\ n - 1 \in Int
    OBVIOUS
  <2>2. Cardinality(m..(n - 1)) = IF m > n - 1 THEN 0 ELSE (n - 1) - m + 1
    BY <2>1, FS_Interval, Zenon
  <2> QED BY <2>2
<1>6. Cardinality(exact[p - 1]..(exact[p] - 1)) = exact[p] - exact[p - 1]
  <2>1. exact[p - 1] <= exact[p]
    BY <1>2
  <2> QED BY <1>2, <1>5, <2>1, Zenon
<1>7. exact[p] - exact[p - 1] = Tickets(p)
  BY <1>2
<1> QED BY <1>4, <1>6, <1>7, Zenon

LEMMA WinnerLemma == HasTicket /\ SumFits => SomeoneWins
<1> SUFFICES ASSUME HasTicket, SumFits, NEW p \in Slot, Runnable(p)
             PROVE  total # 0 /\ \A r \in 0..(UINT - 1) : Winners(r) # {}
  BY DEF SomeoneWins
<1>1. p \in 1..NPROC /\ p \in 0..NPROC /\ p - 1 \in 0..NPROC /\ NPROC \in 0..NPROC /\ p <= NPROC
  BY ConstFacts
<1>2. /\ total = exact[NPROC] /\ exact[NPROC] \in Nat /\ exact[p - 1] \in Nat
      /\ exact[p] = exact[p - 1] + Tickets(p) /\ Tickets(p) \in Nat /\ Tickets(p) >= 1
  BY <1>1, CounterExact, ExactFacts, TicketFacts DEF total
<1>3. exact[p] <= exact[NPROC] /\ total \in Nat /\ total >= 1 /\ total < UINT \div 2
  BY <1>1, <1>2, ExactGrows DEF SumFits
<1>4. ASSUME NEW r \in 0..(UINT - 1) PROVE Winners(r) # {}
  <2>1. total - 1 \in Nat /\ total - 1 < UINT \div 2
    BY <1>3, ConstFacts
  <2>2. uint(total - 1) = total - 1 /\ uint(total) = total
    BY <1>3, <2>1, IntFacts
  <2> DEFINE w == random_at_most(total - 1, r)
  <2>3. w \in 0..(total - 1)
    <3>1. total - 1 + 1 = total
      BY <1>3
    <3>2. r % total \in 0..(total - 1)
      BY <1>3, ConstFacts
    <3> QED BY <1>3, <2>2, <3>1, <3>2 DEF random_at_most
  <2> HIDE DEF w
  <2>4. w \in Nat /\ w < exact[NPROC] /\ w < UINT \div 2
    BY <1>2, <1>3, <2>3, ConstFacts
  <2>5. Winners(r) = Won(w)
    <3>1. int(w) = w
      BY <2>4, IntFacts
    <3> QED BY <2>2, <3>1 DEF Winners, w
  <2> QED BY <2>4, <2>5, DrawWon
<1> QED BY <1>3, <1>4

----------------------------------------------------------------------------
(* The theorems                                                            *)

LEMMA TicketsKept == Spec => []HasTicket
<1>1. Init => HasTicket
  BY ConstFacts DEF Init, HasTicket, Default
<1>2. ASSUME HasTicket, [Next]_vars PROVE HasTicket'
  <2>1. CASE rand_init
    BY <1>2, <2>1 DEF rand_init, HasTicket
  <2>2. CASE scheduler
    BY <1>2, <2>2 DEF scheduler, HasTicket
  <2>3. ASSUME NEW p \in Slot, NEW q \in Slot, fork(p, q) PROVE HasTicket'
    BY <1>2, <2>3 DEF fork, HasTicket, Runnable
  <2>4. ASSUME NEW p \in Slot, NEW n \in TicketNs, settickets(p, n) PROVE HasTicket'
    BY <1>2, <2>4, ConstFacts DEF settickets, HasTicket, Allowed
  <2>5. ASSUME NEW p \in Slot, Block(p) PROVE HasTicket'
    BY <1>2, <2>5 DEF Block, HasTicket, Runnable
  <2>6. ASSUME NEW p \in Slot, Wake(p) PROVE HasTicket'
    BY <1>2, <2>6 DEF Wake, HasTicket
  <2>7. CASE UNCHANGED vars
    BY <1>2, <2>7 DEF vars, HasTicket
  <2> QED BY <1>2, <2>1, <2>2, <2>3, <2>4, <2>5, <2>6, <2>7 DEF Next
<1> QED BY <1>1, <1>2, PTL DEF Spec

\* As long as the tickets of the runnable processes add up to an int, each of
\* them wins for as many draws as it has tickets: the loop that adds up the
\* tickets and the loop that looks for the winner agree.
THEOREM SharesExact == Spec => [](SumFits => ShareExact)
<1>1. HasTicket => (SumFits => ShareExact)
  BY ShareLemma
<1> QED BY <1>1, TicketsKept, PTL

\* As long as the sum is an int, no draw of the generator is without a winner.
THEOREM EveryDrawWins == Spec => [](SumFits => SomeoneWins)
<1>1. HasTicket => (SumFits => SomeoneWins)
  BY WinnerLemma
<1> QED BY <1>1, TicketsKept, PTL
=============================================================================
