----------------------- MODULE ScreeningLedgerProofs -----------------------
(* The budgets, the coverage of every bill and the single payment per input hold for  *)
(* any processes, inputs, locks, reservations, budgets and calendar.                  *)
EXTENDS ScreeningLedger, FiniteSetTheorems, WellFoundedInduction, TLAPS

\* No lock file is held by two processes.
Exclusive ==
  \A r, s \in Requesters : r # s => \A lock \in Locks : lock \notin Held(r) \/ lock \notin Held(s)

\* Between the look into the cache and the end of the call nobody else answers the input.
UnansweredBy(r) ==
  /\ req[r].pc \in {"missed", "calling"} /\ ~req[r].forced => ~Cached(req[r].key)
  /\ req[r].pc = "calling" => ledger[req[r].run].forced = req[r].forced
Unanswered == \A r \in Requesters : UnansweredBy(r)

\* A request that may still be billed is covered by its whole reservation.
Covered ==
  \A n \in Runs :
    IF ledger[n] = NoRun THEN ~open[n] /\ bill[n] = 0
    ELSE /\ bill[n] <= ledger[n].cost
         /\ open[n] => bill[n] = 0 /\ ledger[n].cost = ReserveOf[ledger[n].key]

\* The recorded costs of one day, and of one month.
ChargedOn(d) ==
  [n \in Runs |-> IF ledger[n] # NoRun /\ ledger[n].day = d THEN ledger[n].cost ELSE 0]
ChargedInMonth(m) ==
  [n \in Runs |-> IF ledger[n] # NoRun /\ MonthOf(ledger[n].day) = m THEN ledger[n].cost ELSE 0]

BudgetsKept ==
  \A d \in Days : /\ Total(ChargedOn(d)) <= DailyBudget
                  /\ Total(ChargedInMonth(MonthOf(d))) <= MonthlyBudget

IInv == TypeOK /\ Exclusive /\ Unanswered /\ Covered /\ BudgetsKept /\ PaidOnce

-----------------------------------------------------------------------------
(* Sums.  A set of runs is summed by taking one run out of it, so what holds of the empty *)
(* set, and of a set whenever it holds of that set without the run taken out, holds of    *)
(* every set: a smallest counterexample would have a smaller one.                         *)

Taken(S) == CHOOSE n \in S : TRUE

SumRule(f, sum) ==
  \A S \in SUBSET Runs : sum[S] = IF S = {} THEN 0 ELSE f[Taken(S)] + sum[S \ {Taken(S)}]

\* A set of naturals that is not empty has a least element.
LEMMA LeastExists ==
  ASSUME NEW T, T \subseteq Nat, T # {}
  PROVE  \E n \in T : \A m \in T : n <= m
<1> DEFINE R == OpToRel(<, Nat)
<1>1. IsWellFoundedOn(R, Nat)
  BY NatLessThanWellFounded
<1>2. \A x, y \in Nat : y < x => <<y, x>> \in R
  BY DEF OpToRel
<1> HIDE DEF R
<1>3. PICK n \in T : \A m \in T : ~(<<m, n>> \in R)
  BY <1>1, WFMin
<1>4. ASSUME NEW m \in T PROVE n <= m
  <2>1. n \in Nat /\ m \in Nat /\ ~(m < n)
    BY <1>2, <1>3
  <2> QED
    BY <2>1
<1> QED
  BY <1>4

\* The run taken out of a set of runs is one of it, and leaves a set with one run less.
LEMMA TakenOut ==
  ASSUME NEW S \in SUBSET Runs, S # {}
  PROVE  /\ Taken(S) \in S /\ Taken(S) \in Runs
         /\ S \ {Taken(S)} \in SUBSET Runs
         /\ Cardinality(S) \in Nat \ {0}
         /\ Cardinality(S \ {Taken(S)}) = Cardinality(S) - 1
<1>1. Taken(S) \in S
  BY DEF Taken
<1>2. IsFiniteSet(S)
  BY LedgerAssumption, FS_Subset
<1>3. Cardinality(S) \in Nat /\ Cardinality(S) # 0
  BY <1>2, FS_CardinalityType, FS_EmptySet
<1>4. Cardinality(S \ {Taken(S)}) = Cardinality(S) - 1
  BY <1>1, <1>2, FS_RemoveElement
<1> QED
  BY <1>1, <1>3, <1>4

\* What is inherited from the smaller set holds of every set of runs.
LEMMA EverySet ==
  ASSUME NEW T, {} \in T, \A S \in SUBSET Runs : S # {} /\ S \ {Taken(S)} \in T => S \in T
  PROVE  SUBSET Runs \subseteq T
<1> DEFINE sizes == {Cardinality(S) : S \in (SUBSET Runs) \ T}
<1>1. SUFFICES ASSUME sizes # {} PROVE FALSE
  OBVIOUS
<1>2. sizes \subseteq Nat
  <2>1. \A S \in SUBSET Runs : Cardinality(S) \in Nat
    BY LedgerAssumption, FS_Subset, FS_CardinalityType
  <2> QED
    BY <2>1
<1>3. PICK k \in sizes : \A m \in sizes : k <= m
  <2> HIDE DEF sizes
  <2> QED
    BY <1>1, <1>2, LeastExists
<1>4. PICK S \in (SUBSET Runs) \ T : k = Cardinality(S)
  OBVIOUS
<1>5. S # {} /\ S \ {Taken(S)} \notin T
  <2>1. S \in SUBSET Runs /\ S \notin T
    BY <1>4
  <2> QED
    BY <2>1
<1>6. S \ {Taken(S)} \in SUBSET Runs /\ k \in Nat /\ Cardinality(S \ {Taken(S)}) = k - 1
  BY <1>4, <1>5, TakenOut
<1>7. k - 1 \in sizes
  BY <1>5, <1>6
<1> HIDE DEF sizes
<1> QED
  BY <1>3, <1>6, <1>7

\* The recursion of Total has a solution: for the sets of at most k runs, with k counting up.
LEMMA SumExists ==
  ASSUME NEW f \in Charges
  PROVE  \E sum : sum = [S \in SUBSET Runs |-> IF S = {} THEN 0 ELSE f[Taken(S)] + sum[S \ {Taken(S)}]]
<1> DEFINE UpTo(k, sum) ==
             \A S \in SUBSET Runs : Cardinality(S) <= k =>
               sum[S] = IF S = {} THEN 0 ELSE f[Taken(S)] + sum[S \ {Taken(S)}]
           size == Cardinality(Runs)
           missing == {k \in Nat : ~\E sum : UpTo(k, sum)}
<1>1. \A S \in SUBSET Runs : Cardinality(S) \in Nat /\ Cardinality(S) <= size
  BY LedgerAssumption, FS_Subset, FS_CardinalityType
<1>2. size \in Nat
  BY LedgerAssumption, FS_CardinalityType
<1>3. missing = {}
  <2>1. SUFFICES ASSUME missing # {} PROVE FALSE
    OBVIOUS
  <2>2. PICK k \in missing : \A m \in missing : k <= m
    <3>1. missing \subseteq Nat
      OBVIOUS
    <3> HIDE DEF missing
    <3> QED
      BY <2>1, <3>1, LeastExists
  <2>3. \E before : \A S \in SUBSET Runs : Cardinality(S) <= k - 1 =>
          before[S] = IF S = {} THEN 0 ELSE f[Taken(S)] + before[S \ {Taken(S)}]
    <3>1. CASE k = 0
      BY <1>1, <3>1
    <3>2. CASE k # 0
      <4>1. k - 1 \in Nat /\ ~(k <= k - 1)
        BY <3>2
      <4>2. k - 1 \notin missing
        <5> HIDE DEF missing
        <5> QED
          BY <2>2, <4>1
      <4> QED
        BY <4>1, <4>2
    <3> QED
      BY <3>1, <3>2
  <2>4. PICK before : \A S \in SUBSET Runs : Cardinality(S) <= k - 1 =>
          before[S] = IF S = {} THEN 0 ELSE f[Taken(S)] + before[S \ {Taken(S)}]
    BY <2>3
  <2> DEFINE value(S) == IF S = {} THEN 0 ELSE f[Taken(S)] + before[S \ {Taken(S)}]
             next == [S \in SUBSET Runs |-> value(S)]
  <2>5. ASSUME NEW S \in SUBSET Runs, Cardinality(S) <= k
        PROVE  next[S] = IF S = {} THEN 0 ELSE f[Taken(S)] + next[S \ {Taken(S)}]
    <3>1. CASE S = {}
      BY <3>1
    <3>2. CASE S # {}
      <4> DEFINE rest == S \ {Taken(S)}
      <4>1. rest \in SUBSET Runs /\ Cardinality(rest) <= k - 1
        BY <2>5, <3>2, <2>2, TakenOut
      <4>2. next[rest] = before[rest]
        BY <2>4, <4>1
      <4>3. next[S] = f[Taken(S)] + before[rest]
        BY <3>2
      <4> QED
        BY <3>2, <4>2, <4>3
    <3> QED
      BY <3>1, <3>2
  <2> HIDE DEF next
  <2>6. UpTo(k, next)
    BY <2>5
  <2> QED
    BY <2>2, <2>6
<1>4. PICK sum : UpTo(size, sum)
  BY <1>2, <1>3
<1> DEFINE it == [S \in SUBSET Runs |-> sum[S]]
<1>5. ASSUME NEW S \in SUBSET Runs
      PROVE  it[S] = IF S = {} THEN 0 ELSE f[Taken(S)] + it[S \ {Taken(S)}]
  BY <1>1, <1>4, TakenOut
<1>6. it = [S \in SUBSET Runs |-> it[S]]
  OBVIOUS
<1> HIDE DEF it
<1>7. it = [S \in SUBSET Runs |-> IF S = {} THEN 0 ELSE f[Taken(S)] + it[S \ {Taken(S)}]]
  BY <1>5, <1>6
<1> QED
  BY <1>7

\* Total is the value of such a solution at the whole table; sums are natural numbers.
LEMMA TotalIs ==
  ASSUME NEW f \in Charges
  PROVE  \E sum \in [SUBSET Runs -> Nat] : SumRule(f, sum) /\ Total(f) = sum[Runs]
<1> DEFINE solves(g) == g = [S \in SUBSET Runs |-> IF S = {} THEN 0 ELSE f[Taken(S)] + g[S \ {Taken(S)}]]
           it == CHOOSE g : solves(g)
<1>1. solves(it)
  BY SumExists
<1>2. Total(f) = it[Runs]
  BY DEF Total, Taken
<1> HIDE DEF it
<1>3. SumRule(f, it)
  BY <1>1 DEF SumRule
<1> DEFINE T == {S \in SUBSET Runs : it[S] \in Nat}
<1>4. {} \in T
  <2>1. it[{}] = 0
    BY <1>3 DEF SumRule
  <2> QED
    BY <2>1
<1>5. ASSUME NEW S \in SUBSET Runs, S # {}, S \ {Taken(S)} \in T PROVE S \in T
  <2>1. Taken(S) \in Runs
    BY <1>5, TakenOut
  <2>2. f[Taken(S)] \in Nat
    BY <2>1, LedgerAssumption DEF Charges, Amounts
  <2>3. it[S] = f[Taken(S)] + it[S \ {Taken(S)}] /\ it[S \ {Taken(S)}] \in Nat
    BY <1>3, <1>5 DEF SumRule
  <2> QED
    BY <2>2, <2>3
<1>6. SUBSET Runs \subseteq T
  <2> HIDE DEF T
  <2> QED
    BY <1>4, <1>5, EverySet
<1>7. it \in [SUBSET Runs -> Nat]
  BY <1>1, <1>6
<1> QED
  BY <1>2, <1>3, <1>7

\* A sum changes by what one of its summands changes by.
LEMMA OneSummand ==
  ASSUME NEW f \in Charges, NEW n \in Runs, NEW a \in Amounts
  PROVE  Total([f EXCEPT ![n] = a]) = Total(f) - f[n] + a
<1> DEFINE g == [f EXCEPT ![n] = a]
<1>1. g \in Charges /\ g[n] = a /\ \A i \in Runs \ {n} : g[i] = f[i]
  BY DEF Charges
<1>2. \A i \in Runs : f[i] \in Nat /\ g[i] \in Nat
  BY <1>1, LedgerAssumption DEF Charges, Amounts
<1> HIDE DEF g
<1>3. PICK F \in [SUBSET Runs -> Nat] : SumRule(f, F) /\ Total(f) = F[Runs]
  BY TotalIs
<1>4. PICK G \in [SUBSET Runs -> Nat] : SumRule(g, G) /\ Total(g) = G[Runs]
  BY <1>1, TotalIs
<1> DEFINE T == {S \in SUBSET Runs : G[S] = IF n \in S THEN F[S] - f[n] + a ELSE F[S]}
<1>5. {} \in T
  BY <1>3, <1>4 DEF SumRule
<1>6. ASSUME NEW S \in SUBSET Runs, S # {}, S \ {Taken(S)} \in T PROVE S \in T
  <2> DEFINE i == Taken(S)
             R == S \ {Taken(S)}
  <2>1. i \in S /\ i \in Runs /\ R \in SUBSET Runs
    BY <1>6, TakenOut
  <2>2. F[S] = f[i] + F[R] /\ G[S] = g[i] + G[R]
    BY <1>3, <1>4, <1>6 DEF SumRule
  <2>3. F[R] \in Nat /\ G[R] \in Nat /\ f[i] \in Nat /\ g[i] \in Nat /\ f[n] \in Nat /\ a \in Nat
    BY <1>1, <1>2, <2>1
  <2>4. G[R] = IF n \in R THEN F[R] - f[n] + a ELSE F[R]
    BY <1>6
  <2>5. CASE i = n
    <3>1. n \notin R /\ n \in S
      BY <2>1, <2>5
    <3>2. G[S] = F[S] - f[n] + a
      BY <1>1, <2>2, <2>3, <2>4, <2>5, <3>1
    <3> QED
      BY <3>1, <3>2
  <2>6. CASE i # n
    <3>1. g[i] = f[i] /\ (n \in R <=> n \in S)
      BY <1>1, <2>1, <2>6
    <3> HIDE DEF i, R
    <3>2. G[S] = IF n \in S THEN F[S] - f[n] + a ELSE F[S]
      BY <2>2, <2>3, <2>4, <3>1
    <3> QED
      BY <3>2
  <2> QED
    BY <2>5, <2>6
<1>7. Runs \in T
  <2> HIDE DEF T
  <2> QED
    BY <1>5, <1>6, EverySet
<1> QED
  BY <1>3, <1>4, <1>7 DEF g

\* A sum of smaller amounts is not larger.
LEMMA SmallerSummands ==
  ASSUME NEW f \in Charges, NEW g \in Charges, \A n \in Runs : f[n] <= g[n]
  PROVE  Total(f) <= Total(g)
<1>1. PICK F \in [SUBSET Runs -> Nat] : SumRule(f, F) /\ Total(f) = F[Runs]
  BY TotalIs
<1>2. PICK G \in [SUBSET Runs -> Nat] : SumRule(g, G) /\ Total(g) = G[Runs]
  BY TotalIs
<1> DEFINE T == {S \in SUBSET Runs : F[S] <= G[S]}
<1>3. {} \in T
  BY <1>1, <1>2 DEF SumRule
<1>4. ASSUME NEW S \in SUBSET Runs, S # {}, S \ {Taken(S)} \in T PROVE S \in T
  <2> DEFINE i == Taken(S)
             R == S \ {Taken(S)}
  <2>1. i \in Runs /\ R \in SUBSET Runs
    BY <1>4, TakenOut
  <2>2. F[S] = f[i] + F[R] /\ G[S] = g[i] + G[R]
    BY <1>1, <1>2, <1>4 DEF SumRule
  <2>3. F[R] \in Nat /\ G[R] \in Nat /\ f[i] \in Nat /\ g[i] \in Nat /\ f[i] <= g[i]
    BY <2>1, LedgerAssumption DEF Charges, Amounts
  <2>4. F[R] <= G[R]
    BY <1>4
  <2> HIDE DEF i, R
  <2>5. F[S] <= G[S]
    BY <2>2, <2>3, <2>4
  <2> QED
    BY <2>5
<1>5. Runs \in T
  <2> HIDE DEF T
  <2> QED
    BY <1>3, <1>4, EverySet
<1> QED
  BY <1>1, <1>2, <1>5

\* What the budgets need of sums: nothing sums up to nothing, a sum is a natural number, it
\* follows a single summand, and it is monotone.
LEMMA TotalLaws ==
  /\ Total([n \in Runs |-> 0]) = 0
  /\ \A f \in Charges : Total(f) \in Nat
  /\ \A f \in Charges, n \in Runs, a \in Amounts :
       Total([f EXCEPT ![n] = a]) = Total(f) - f[n] + a
  /\ \A f, g \in Charges : (\A n \in Runs : f[n] <= g[n]) => Total(f) <= Total(g)
<1>1. \A f \in Charges : Total(f) \in Nat
  BY TotalIs
<1>2. Total([n \in Runs |-> 0]) = 0
  <2> DEFINE f == [n \in Runs |-> 0]
  <2>1. f \in Charges
    BY LedgerAssumption DEF Charges, Amounts
  <2>2. PICK F \in [SUBSET Runs -> Nat] : SumRule(f, F) /\ Total(f) = F[Runs]
    BY <2>1, TotalIs
  <2> DEFINE T == {S \in SUBSET Runs : F[S] = 0}
  <2>3. {} \in T
    BY <2>2 DEF SumRule
  <2>4. ASSUME NEW S \in SUBSET Runs, S # {}, S \ {Taken(S)} \in T PROVE S \in T
    <3>1. f[Taken(S)] = 0 /\ F[S] = f[Taken(S)] + F[S \ {Taken(S)}]
      BY <2>2, <2>4, TakenOut DEF SumRule
    <3> QED
      BY <2>4, <3>1
  <2>5. Runs \in T
    <3> HIDE DEF T
    <3> QED
      BY <2>3, <2>4, EverySet
  <2> QED
    BY <2>2, <2>5
<1> QED
  BY <1>1, <1>2, OneSummand, SmallerSummands

-----------------------------------------------------------------------------
(* Lemmas on the calendar, the charges and the rows. *)

\* Months are integers.
LEMMA MonthType == \A d \in Days : MonthOf(d) \in Int
BY LedgerAssumption DEF Days, MonthOf

\* Every selection of recorded costs can be summed.
LEMMA ChargesType ==
  ASSUME ledger \in [Runs -> Run \cup {NoRun}], bill \in Charges, NEW d
  PROVE  /\ ChargedOn(d) \in Charges /\ ChargedInMonth(d) \in Charges
         /\ ChargesFrom(d) \in Charges /\ ChargesFromMonth(d) \in Charges
         /\ BilledOn(d) \in Charges /\ BilledInMonth(d) \in Charges
<1>1. 0 \in Amounts
  BY LedgerAssumption DEF Amounts
<1>2. \A n \in Runs : ledger[n] # NoRun => ledger[n].cost \in Amounts
  BY DEF Run
<1> QED
  BY <1>1, <1>2 DEF ChargedOn, ChargedInMonth, ChargesFrom, ChargesFromMonth, BilledOn,
                    BilledInMonth, Charges

\* Rows keep their type when they are settled at a cost or at none.
LEMMA SettledType ==
  ASSUME NEW run \in Run, NEW status \in {"failed", "uncertain", "completed"},
         NEW cost \in Amounts \cup {None}, cost # None => cost <= run.cost
  PROVE  /\ Settled(run, status, cost) \in Run
         /\ Settled(run, status, cost) # NoRun
         /\ Settled(run, status, cost).status = status
         /\ Settled(run, status, cost).key = run.key
         /\ Settled(run, status, cost).forced = run.forced
         /\ Settled(run, status, cost).day = run.day
         /\ Settled(run, status, cost).cost = IF cost = None THEN run.cost ELSE cost
<1>1. Settled(run, status, cost) \in Run
  BY DEF Settled, Run
<1>2. Settled(run, status, cost) # NoRun
  BY <1>1, LedgerAssumption
<1> QED
  BY <1>1, <1>2 DEF Settled, Run

\* Costs that only fall, under unchanged dates, keep the budgets.
LEMMA CheaperKeepsBudgets ==
  ASSUME TypeOK, BudgetsKept, ledger' \in [Runs -> Run \cup {NoRun}],
         \A n \in Runs : IF ledger[n] = NoRun THEN ledger'[n] = NoRun
                         ELSE /\ ledger'[n] # NoRun
                              /\ ledger'[n].day = ledger[n].day
                              /\ ledger'[n].cost <= ledger[n].cost
  PROVE  BudgetsKept'
<1> SUFFICES ASSUME NEW d \in Days
             PROVE  /\ Total(ChargedOn(d)') <= DailyBudget
                    /\ Total(ChargedInMonth(MonthOf(d))') <= MonthlyBudget
  BY DEF BudgetsKept
<1> DEFINE m == MonthOf(d)
<1>1. ChargedOn(d) \in Charges /\ ChargedInMonth(m) \in Charges
  BY ChargesType DEF TypeOK
<1>2. ChargedOn(d)' \in Charges /\ ChargedInMonth(m)' \in Charges
  <2>1. 0 \in Amounts
    BY LedgerAssumption DEF Amounts
  <2>2. \A n \in Runs : ledger'[n] # NoRun => ledger'[n].cost \in Amounts
    BY DEF Run
  <2> QED
    BY <2>1, <2>2 DEF ChargedOn, ChargedInMonth, Charges
<1>3. \A n \in Runs : ChargedOn(d)'[n] <= ChargedOn(d)[n]
  BY DEF ChargedOn
<1>4. \A n \in Runs : ChargedInMonth(m)'[n] <= ChargedInMonth(m)[n]
  BY DEF ChargedInMonth
<1>5. Total(ChargedOn(d)') <= Total(ChargedOn(d))
  BY <1>1, <1>2, <1>3, TotalLaws
<1>6. Total(ChargedInMonth(m)') <= Total(ChargedInMonth(m))
  BY <1>1, <1>2, <1>4, TotalLaws
<1>7. Total(ChargedOn(d)) <= DailyBudget /\ Total(ChargedInMonth(m)) <= MonthlyBudget
  BY DEF BudgetsKept
<1>8. /\ Total(ChargedOn(d)) \in Nat /\ Total(ChargedOn(d)') \in Nat
      /\ Total(ChargedInMonth(m)) \in Nat /\ Total(ChargedInMonth(m)') \in Nat
  BY <1>1, <1>2, TotalLaws
<1> HIDE DEF m
<1>9. Total(ChargedOn(d)') <= DailyBudget /\ Total(ChargedInMonth(m)') <= MonthlyBudget
  BY <1>5, <1>6, <1>7, <1>8, LedgerAssumption
<1> QED
  BY <1>9 DEF m

\* The date the transaction counts from may be in the past by the time it runs: the run it
\* inserts is still within the budgets of that day and month.
LEMMA ReserveKeepsBudgets ==
  ASSUME IInv, NEW r \in Requesters, NEW n \in Runs, Reserve(r, n)
  PROVE  BudgetsKept'
<1> DEFINE d0 == req[r].day
           amount == ReserveOf[req[r].key]
<1>1. /\ req[r] \in Request /\ d0 \in Days /\ req[r].key \in Keys
      /\ ledger \in [Runs -> Run \cup {NoRun}] /\ bill \in Charges
  BY DEF IInv, TypeOK, Reserve, Request
<1>2. amount \in Amounts /\ ledger[n] = NoRun /\ 0 \in Amounts
  BY <1>1, LedgerAssumption DEF Reserve, Amounts
<1>3. /\ ledger'[n].day = d0 /\ ledger'[n].cost = amount /\ ledger'[n] # NoRun
      /\ \A k \in Runs \ {n} : ledger'[k] = ledger[k]
  <2> DEFINE run == [key |-> req[r].key, forced |-> req[r].forced, day |-> d0,
                     cost |-> amount, status |-> "reserved"]
  <2>1. run \in Run
    BY <1>1, <1>2 DEF Run, Request
  <2>2. ledger' = [ledger EXCEPT ![n] = run]
    BY DEF Reserve
  <2> QED
    BY <1>1, <2>1, <2>2, LedgerAssumption
<1>4. /\ Total(ChargesFromMonth(MonthOf(d0))) + amount <= MonthlyBudget
      /\ Total(ChargesFrom(d0)) + amount <= DailyBudget
  BY DEF Reserve, Affordable
<1> HIDE DEF d0, amount
<1> SUFFICES ASSUME NEW d \in Days
             PROVE  /\ Total(ChargedOn(d)') <= DailyBudget
                    /\ Total(ChargedInMonth(MonthOf(d))') <= MonthlyBudget
  BY DEF BudgetsKept
<1> DEFINE m == MonthOf(d)
<1>5. /\ ChargedOn(d) \in Charges /\ ChargedInMonth(m) \in Charges
      /\ ChargesFrom(d) \in Charges /\ ChargesFromMonth(m) \in Charges
  BY <1>1, ChargesType
<1>6. Total(ChargedOn(d)') <= DailyBudget
  <2>1. CASE d = d0
    <3>1. ChargedOn(d)' = [ChargedOn(d) EXCEPT ![n] = amount] /\ ChargedOn(d)[n] = 0
      <4>1. ChargedOn(d)[n] = 0
        BY <1>2 DEF ChargedOn
      <4>2. \A k \in Runs : ChargedOn(d)'[k] = IF k = n THEN amount ELSE ChargedOn(d)[k]
        BY <1>3, <2>1 DEF ChargedOn
      <4>3. ChargedOn(d)' = [k \in Runs |-> ChargedOn(d)'[k]]
        BY DEF ChargedOn
      <4>4. ChargedOn(d)' = [k \in Runs |-> IF k = n THEN amount ELSE ChargedOn(d)[k]]
        BY <4>2, <4>3
      <4>5. [ChargedOn(d) EXCEPT ![n] = amount] = [k \in Runs |-> IF k = n THEN amount ELSE ChargedOn(d)[k]]
        BY DEF ChargedOn
      <4> QED
        BY <4>1, <4>4, <4>5
    <3>2. Total(ChargedOn(d)') = Total(ChargedOn(d)) - 0 + amount
      <4>1. Total([ChargedOn(d) EXCEPT ![n] = amount]) = Total(ChargedOn(d)) - ChargedOn(d)[n] + amount
        BY <1>2, <1>5, TotalLaws
      <4>2. Total(ChargedOn(d)') = Total([ChargedOn(d) EXCEPT ![n] = amount])
        BY <3>1, Zenon
      <4> QED
        BY <3>1, <4>1, <4>2
    <3>3. \A k \in Runs : ChargedOn(d)[k] <= ChargesFrom(d)[k]
      <4> TAKE k \in Runs
      <4>1. ledger[k] # NoRun => ledger[k].cost \in Amounts /\ ledger[k].day \in Days
        BY <1>1 DEF Run
      <4> QED
        BY <4>1, LedgerAssumption DEF ChargedOn, ChargesFrom, Amounts, Days
    <3>4. Total(ChargedOn(d)) <= Total(ChargesFrom(d))
      BY <1>5, <3>3, TotalLaws
    <3>5. Total(ChargedOn(d)) \in Nat /\ Total(ChargesFrom(d)) \in Nat /\ amount \in Nat
      BY <1>2, <1>5, TotalLaws, LedgerAssumption DEF Amounts
    <3> QED
      BY <1>4, <2>1, <3>2, <3>4, <3>5, LedgerAssumption
  <2>2. CASE d # d0
    <3>1. ChargedOn(d)' = ChargedOn(d)
      BY <1>2, <1>3, <2>2 DEF ChargedOn
    <3> QED
      BY <3>1 DEF IInv, BudgetsKept
  <2> QED
    BY <2>1, <2>2
<1>7. Total(ChargedInMonth(m)') <= MonthlyBudget
  <2>1. CASE m = MonthOf(d0)
    <3>1. ChargedInMonth(m)' = [ChargedInMonth(m) EXCEPT ![n] = amount] /\ ChargedInMonth(m)[n] = 0
      <4>1. ChargedInMonth(m)[n] = 0
        BY <1>2 DEF ChargedInMonth
      <4>2. \A k \in Runs : ChargedInMonth(m)'[k] = IF k = n THEN amount ELSE ChargedInMonth(m)[k]
        BY <1>3, <2>1 DEF ChargedInMonth
      <4>3. ChargedInMonth(m)' = [k \in Runs |-> ChargedInMonth(m)'[k]]
        BY DEF ChargedInMonth
      <4>4. ChargedInMonth(m)' = [k \in Runs |-> IF k = n THEN amount ELSE ChargedInMonth(m)[k]]
        BY <4>2, <4>3
      <4>5. [ChargedInMonth(m) EXCEPT ![n] = amount] = [k \in Runs |-> IF k = n THEN amount ELSE ChargedInMonth(m)[k]]
        BY DEF ChargedInMonth
      <4> QED
        BY <4>1, <4>4, <4>5
    <3>2. Total(ChargedInMonth(m)') = Total(ChargedInMonth(m)) - 0 + amount
      <4>1. Total([ChargedInMonth(m) EXCEPT ![n] = amount]) = Total(ChargedInMonth(m)) - ChargedInMonth(m)[n] + amount
        BY <1>2, <1>5, TotalLaws
      <4>2. Total(ChargedInMonth(m)') = Total([ChargedInMonth(m) EXCEPT ![n] = amount])
        BY <3>1, Zenon
      <4> QED
        BY <3>1, <4>1, <4>2
    <3>3. \A k \in Runs : ChargedInMonth(m)[k] <= ChargesFromMonth(m)[k]
      <4> TAKE k \in Runs
      <4>1. ledger[k] # NoRun => ledger[k].cost \in Amounts /\ MonthOf(ledger[k].day) \in Int
        BY <1>1, MonthType DEF Run
      <4>2. m \in Int
        BY MonthType
      <4> QED
        BY <4>1, <4>2, LedgerAssumption DEF ChargedInMonth, ChargesFromMonth, Amounts
    <3>4. Total(ChargedInMonth(m)) <= Total(ChargesFromMonth(m))
      BY <1>5, <3>3, TotalLaws
    <3>5. /\ Total(ChargedInMonth(m)) \in Nat /\ Total(ChargesFromMonth(m)) \in Nat
          /\ amount \in Nat
      BY <1>2, <1>5, TotalLaws, LedgerAssumption DEF Amounts
    <3> HIDE DEF m
    <3> QED
      BY <1>4, <2>1, <3>2, <3>4, <3>5, LedgerAssumption
  <2>2. CASE m # MonthOf(d0)
    <3>1. ChargedInMonth(m)' = ChargedInMonth(m)
      BY <1>2, <1>3, <2>2 DEF ChargedInMonth
    <3> QED
      BY <3>1 DEF IInv, BudgetsKept
  <2> QED
    BY <2>1, <2>2
<1> QED
  BY <1>6, <1>7

-----------------------------------------------------------------------------
(* The invariant. *)

\* Nothing is recorded, billed or locked at the start.
LEMMA InitHolds == Init => IInv
<1> SUFFICES ASSUME Init PROVE IInv
  OBVIOUS
<1>1. 0 \in Amounts /\ 0 \in Days
  BY LedgerAssumption DEF Amounts, Days
<1>2. TypeOK
  BY <1>1 DEF Init, TypeOK, Request, Idle, Between, Charges
<1>3. Exclusive
  BY DEF Init, Exclusive, Held, Idle, Between
<1>4. Unanswered /\ Covered /\ PaidOnce
  BY DEF Init, Unanswered, UnansweredBy, Idle, Between, Covered, PaidOnce
<1>5. BudgetsKept
  <2> SUFFICES ASSUME NEW d \in Days
               PROVE  /\ Total(ChargedOn(d)) <= DailyBudget
                      /\ Total(ChargedInMonth(MonthOf(d))) <= MonthlyBudget
    BY DEF BudgetsKept
  <2>1. ChargedOn(d) = [n \in Runs |-> 0]
    BY DEF Init, ChargedOn
  <2>2. ChargedInMonth(MonthOf(d)) = [n \in Runs |-> 0]
    BY DEF Init, ChargedInMonth
  <2> QED
    BY <2>1, <2>2, TotalLaws, LedgerAssumption
<1> QED
  BY <1>2, <1>3, <1>4, <1>5 DEF IInv

\* A step after which every process holds at most the locks it held before.
LEMMA FewerLocks ==
  ASSUME Exclusive, \A r \in Requesters : Held(r)' \subseteq Held(r)
  PROVE  Exclusive'
BY DEF Exclusive

\* A step of one process that leaves the ledger and the provider alone, takes no lock and
\* looks into the cache if it is to call.
LEMMA RequesterStep ==
  ASSUME IInv, NEW r \in Requesters, NEW next \in Request,
         req' = [req EXCEPT ![r] = next],
         UNCHANGED <<ledger, provider>>, day' = day,
         next.pc \in {"idle", "locked", "missed"},
         next.pc = "idle" => next = Between(next.batch),
         next.pc # "idle" => next.key # None,
         Held(r)' \subseteq Held(r) \/ \A s \in Requesters \ {r} : Held(r)' \cap Held(s) = {},
         next.pc = "missed" /\ ~next.forced => ~Cached(next.key)
  PROVE  IInv'
<1>1. /\ req' \in [Requesters -> Request] /\ req'[r] = next
      /\ \A s \in Requesters \ {r} : req'[s] = req[s]
      /\ ledger' = ledger /\ open' = open /\ bill' = bill
  BY DEF IInv, TypeOK, provider
<1>2. TypeOK'
  BY <1>1 DEF IInv, TypeOK
<1>3. Exclusive'
  <2>1. \A s \in Requesters \ {r} : Held(s)' = Held(s)
    BY <1>1 DEF Held
  <2>2. CASE Held(r)' \subseteq Held(r)
    BY <2>1, <2>2, FewerLocks DEF IInv
  <2>3. CASE \A s \in Requesters \ {r} : Held(r)' \cap Held(s) = {}
    BY <2>1, <2>3 DEF IInv, Exclusive
  <2> QED
    BY <2>2, <2>3
<1>4. Unanswered'
  BY <1>1 DEF IInv, Unanswered, UnansweredBy, Cached
<1>5. Covered' /\ PaidOnce'
  BY <1>1 DEF IInv, Covered, PaidOnce
<1>6. BudgetsKept'
  BY <1>1 DEF IInv, BudgetsKept, ChargedOn, ChargedInMonth
<1> QED
  BY <1>2, <1>3, <1>4, <1>5, <1>6 DEF IInv

\* Between two inputs a process has no row and no key.
LEMMA BetweenType ==
  ASSUME NEW batch \in BOOLEAN
  PROVE  /\ Between(batch) \in Request /\ Between(batch).pc = "idle"
         /\ Between(batch).batch = batch
BY LedgerAssumption DEF Between, Request, Days

\* Going back to idle, in the batch or out of it.
LEMMA LeaveHolds ==
  ASSUME IInv, NEW r \in Requesters, NEW batch \in BOOLEAN, batch => req[r].batch,
         req' = [req EXCEPT ![r] = Between(batch)],
         UNCHANGED <<ledger, provider>>, day' = day
  PROVE  IInv'
<1>1. /\ Between(batch) \in Request /\ Between(batch).pc = "idle"
      /\ Between(batch).batch = batch
  BY BetweenType
<1>2. req'[r] = Between(batch)
  BY DEF IInv, TypeOK
<1>3. Held(r)' \subseteq Held(r)
  BY <1>1, <1>2 DEF Held
<1>4. Between(batch).pc = "idle" => Between(batch) = Between(Between(batch).batch)
  BY <1>1
<1> DEFINE next == Between(batch)
<1>5. /\ next \in Request /\ req' = [req EXCEPT ![r] = next]
      /\ next.pc = "idle" /\ next = Between(next.batch)
  BY <1>1, <1>4
<1> HIDE DEF next
<1> QED
  BY <1>3, <1>5, RequesterStep

\* A batch takes .ai.lock.
LEMMA BeginBatchHolds ==
  ASSUME IInv, NEW r \in Requesters, BeginBatch(r)
  PROVE  IInv'
<1> DEFINE next == Between(TRUE)
<1>1. next \in Request /\ next.pc = "idle" /\ next.batch = TRUE /\ next = Between(next.batch)
  BY BetweenType
<1>2. req' = [req EXCEPT ![r] = next] /\ UNCHANGED <<ledger, provider>> /\ day' = day
  BY DEF BeginBatch
<1> HIDE DEF next
<1>3. req'[r] = next
  BY <1>2 DEF IInv, TypeOK
<1>4. Held(r)' = {lock \in Locks : lock = GlobalLock}
  BY <1>1, <1>3 DEF Held
<1>5. \A s \in Requesters \ {r} : Held(r)' \cap Held(s) = {}
  BY <1>4 DEF BeginBatch, Free
<1> QED
  BY <1>1, <1>2, <1>5, RequesterStep

\* The guarded block is entered with its lock.
LEMMA AcquireHolds ==
  ASSUME IInv, NEW r \in Requesters, NEW k \in Keys, NEW forced \in BOOLEAN, Acquire(r, k, forced)
  PROVE  IInv'
<1> DEFINE next == [req[r] EXCEPT !.pc = "locked", !.key = k, !.forced = forced]
<1>1. req[r] \in Request /\ req \in [Requesters -> Request]
  BY DEF IInv, TypeOK
<1>2. /\ next \in Request /\ next.pc = "locked" /\ next.key = k /\ next.key # None
      /\ next.batch = req[r].batch
  BY <1>1, LedgerAssumption DEF Request
<1>3. req' = [req EXCEPT ![r] = next] /\ UNCHANGED <<ledger, provider>> /\ day' = day
  BY <1>1 DEF Acquire, Acquired
<1> HIDE DEF next
<1>4. req'[r] = next
  BY <1>1, <1>3
<1>5. Held(r)' = {lock \in Locks : (req[r].batch /\ lock = GlobalLock) \/ lock = LockOf[k]}
  BY <1>2, <1>4 DEF Held
<1>6. \A s \in Requesters \ {r} : Held(r)' \cap Held(s) = {}
  <2> TAKE s \in Requesters \ {r}
  <2>1. LockOf[k] \notin Held(s)
    BY DEF Acquire, Free
  <2>2. req[r].batch => GlobalLock \in Held(r)
    BY LedgerAssumption DEF Held
  <2>3. req[r].batch => GlobalLock \notin Held(s)
    BY <2>2, LedgerAssumption DEF IInv, Exclusive
  <2> QED
    BY <1>5, <2>1, <2>3
<1> QED
  BY <1>2, <1>3, <1>6, RequesterStep

\* The cache has no answer; the date is read.
LEMMA MissHolds ==
  ASSUME IInv, NEW r \in Requesters, Miss(r)
  PROVE  IInv'
<1> DEFINE next == [req[r] EXCEPT !.pc = "missed", !.day = day]
<1>1. req[r] \in Request /\ req \in [Requesters -> Request] /\ day \in Days
  BY DEF IInv, TypeOK
<1>2. /\ next \in Request /\ next.pc = "missed" /\ next.key = req[r].key
      /\ next.forced = req[r].forced /\ next.batch = req[r].batch
  BY <1>1 DEF Request
<1>3. req' = [req EXCEPT ![r] = next] /\ UNCHANGED <<ledger, provider>> /\ day' = day
  BY <1>1 DEF Miss
<1>4. next.key # None /\ (~next.forced => ~Cached(next.key))
  BY <1>2 DEF Miss, IInv, TypeOK
<1> HIDE DEF next
<1>5. req'[r] = next
  BY <1>1, <1>3
<1>6. Held(r)' \subseteq Held(r)
  BY <1>2, <1>5 DEF Held, Miss
<1> QED
  BY <1>2, <1>3, <1>4, <1>6, RequesterStep

\* A run is reserved for an input whose lock is held and that has no answer yet.
LEMMA ReserveHolds ==
  ASSUME IInv, NEW r \in Requesters, NEW n \in Runs, Reserve(r, n)
  PROVE  IInv'
<1> DEFINE run == [key |-> req[r].key, forced |-> req[r].forced, day |-> req[r].day,
                   cost |-> ReserveOf[req[r].key], status |-> "reserved"]
           next == [req[r] EXCEPT !.pc = "calling", !.run = n]
<1>1. /\ req[r] \in Request /\ req \in [Requesters -> Request]
      /\ ledger \in [Runs -> Run \cup {NoRun}] /\ bill \in Charges /\ open \in [Runs -> BOOLEAN]
      /\ req[r].pc = "missed" /\ req[r].key \in Keys /\ req[r].key # None /\ ledger[n] = NoRun
  BY DEF IInv, TypeOK, Reserve, Request
<1>2. /\ run \in Run /\ run # NoRun /\ run.key = req[r].key /\ run.forced = req[r].forced
      /\ run.cost = ReserveOf[run.key] /\ run.status = "reserved" /\ run.cost \in Amounts
  BY <1>1, LedgerAssumption DEF Run, Request
<1>3. /\ next \in Request /\ next.pc = "calling" /\ next.key = req[r].key
      /\ next.forced = req[r].forced /\ next.batch = req[r].batch /\ next.run = n
      /\ n # None
  BY <1>1, LedgerAssumption DEF Request
<1>4. /\ ledger' = [ledger EXCEPT ![n] = run] /\ req' = [req EXCEPT ![r] = next]
      /\ open' = [open EXCEPT ![n] = TRUE] /\ day' = day /\ bill' = bill
  BY <1>1 DEF Reserve
<1> HIDE DEF run, next
<1>5. /\ ledger'[n] = run /\ open'[n] = TRUE /\ req'[r] = next
      /\ \A k \in Runs \ {n} : ledger'[k] = ledger[k] /\ open'[k] = open[k]
      /\ \A s \in Requesters \ {r} : req'[s] = req[s]
  BY <1>1, <1>4
<1>6. TypeOK'
  <2>1. /\ day' \in Days /\ req' \in [Requesters -> Request]
        /\ ledger' \in [Runs -> Run \cup {NoRun}] /\ open' \in [Runs -> BOOLEAN] /\ bill' \in Charges
    BY <1>1, <1>2, <1>3, <1>4 DEF IInv, TypeOK
  <2>2. ASSUME NEW s \in Requesters
        PROVE  /\ req'[s].pc = "idle" => req'[s] = Between(req'[s].batch)
               /\ req'[s].pc # "idle" => req'[s].key # None
               /\ req'[s].pc = "calling" =>
                    /\ req'[s].run # None /\ ledger'[req'[s].run] # NoRun
                    /\ ledger'[req'[s].run].status = "reserved"
                    /\ ledger'[req'[s].run].key = req'[s].key
    <3>1. CASE s = r
      BY <1>1, <1>2, <1>3, <1>5, <3>1
    <3>2. CASE s # r
      <4>1. req'[s] = req[s] /\ req[s] \in Request
        BY <1>1, <1>5, <3>2
      <4>2. req[s].pc = "calling" => req[s].run \in Runs /\ ledger[req[s].run] # NoRun
        BY <4>1 DEF IInv, TypeOK, Request
      <4>3. req[s].pc = "calling" => ledger'[req[s].run] = ledger[req[s].run]
        BY <1>1, <1>5, <4>2
      <4> QED
        BY <4>1, <4>2, <4>3 DEF IInv, TypeOK
    <3> QED
      BY <3>1, <3>2
  <2> QED
    BY <2>1, <2>2 DEF TypeOK
<1>7. Exclusive'
  <2>1. \A s \in Requesters : Held(s)' \subseteq Held(s)
    BY <1>1, <1>3, <1>5 DEF Held
  <2> QED
    BY <2>1, FewerLocks DEF IInv
<1>8. \A k \in Keys : Cached(k)' => Cached(k)
  BY <1>2, <1>5 DEF Cached
<1>9. Unanswered'
  <2>1. ASSUME NEW s \in Requesters
        PROVE  UnansweredBy(s)'
    <3>1. CASE s = r
      <4>1. /\ req'[s].pc = "calling" /\ req'[s].key = req[s].key /\ req'[s].run = n
            /\ req'[s].forced = req[s].forced /\ ledger'[n].forced = req[s].forced
        BY <1>2, <1>3, <1>5, <3>1
      <4>2. ~req[s].forced => ~Cached(req[s].key)
        BY <1>1, <3>1 DEF IInv, Unanswered, UnansweredBy
      <4>3. ~req[s].forced =>
              \A k \in Runs : ~(/\ ledger'[k] # NoRun /\ ledger'[k].key = req[s].key
                               /\ ledger'[k].status = "completed")
        BY <1>2, <1>5, <4>2 DEF Cached
      <4> QED
        BY <4>1, <4>3 DEF UnansweredBy, Cached
    <3>2. CASE s # r
      <4>1. req'[s] = req[s] /\ req[s] \in Request /\ (req[s].pc # "idle" => req[s].key \in Keys)
        BY <1>1, <1>5, <3>2 DEF IInv, TypeOK, Request
      <4>2. req[s].pc = "calling" => req[s].run \in Runs /\ ledger[req[s].run] # NoRun
        BY <4>1 DEF IInv, TypeOK, Request
      <4>3. req[s].pc = "calling" => ledger'[req[s].run] = ledger[req[s].run]
        BY <1>1, <1>5, <4>2
      <4> QED
        BY <1>8, <4>1, <4>3 DEF IInv, Unanswered, UnansweredBy
    <3> QED
      BY <3>1, <3>2
  <2> QED
    BY <2>1 DEF Unanswered
<1>10. Covered'
  <2>1. bill[n] = 0 /\ ~open[n]
    BY <1>1 DEF IInv, Covered
  <2>2. 0 <= run.cost
    BY <1>2, LedgerAssumption DEF Amounts
  <2> QED
    BY <1>2, <1>4, <1>5, <2>1, <2>2 DEF IInv, Covered
<1>11. PaidOnce'
  BY <1>2, <1>5 DEF IInv, PaidOnce
<1> QED
  BY <1>6, <1>7, <1>9, <1>10, <1>11, ReserveKeepsBudgets DEF IInv

\* The provider bills within the reservation.
LEMMA ProviderBillsHolds ==
  ASSUME IInv, NEW n \in Runs, NEW amount \in Amounts, ProviderBills(n, amount)
  PROVE  IInv'
<1>1. /\ bill \in Charges /\ open \in [Runs -> BOOLEAN]
      /\ open[n] /\ amount <= ReserveOf[ledger[n].key]
      /\ open' = [open EXCEPT ![n] = FALSE] /\ bill' = [bill EXCEPT ![n] = amount]
      /\ day' = day /\ req' = req /\ ledger' = ledger
  BY DEF IInv, TypeOK, ProviderBills
<1>2. TypeOK'
  BY <1>1 DEF IInv, TypeOK, Charges
<1>3. Exclusive' /\ Unanswered' /\ PaidOnce'
  BY <1>1 DEF IInv, Exclusive, Held, Unanswered, UnansweredBy, Cached, PaidOnce
<1>4. Covered'
  BY <1>1 DEF IInv, Covered, Charges
<1>5. BudgetsKept'
  BY <1>1 DEF IInv, BudgetsKept, ChargedOn, ChargedInMonth
<1> QED
  BY <1>2, <1>3, <1>4, <1>5 DEF IInv

\* A caller settles its run, keeping what the provider may still bill, and leaves.
LEMMA SettleHolds ==
  ASSUME IInv, NEW r \in Requesters, req[r].pc = "calling",
         NEW status \in {"failed", "uncertain", "completed"}, NEW cost \in Amounts \cup {None},
         NEW batch \in BOOLEAN, batch => req[r].batch,
         Finish(r, status, cost),
         req' = [req EXCEPT ![r] = Between(batch)], day' = day, bill' = bill,
         open' \in [Runs -> BOOLEAN], \A k \in Runs : open'[k] => open[k],
         cost # None => /\ ~open'[req[r].run]
                        /\ bill[req[r].run] <= cost
                        /\ cost <= ledger[req[r].run].cost
  PROVE  IInv'
<1> DEFINE n == req[r].run
           run == Settled(ledger[n], status, cost)
<1>1. /\ req[r] \in Request /\ req \in [Requesters -> Request]
      /\ ledger \in [Runs -> Run \cup {NoRun}] /\ bill \in Charges
      /\ n \in Runs /\ ledger[n] \in Run /\ ledger[n] # NoRun
      /\ ledger[n].status = "reserved" /\ ledger[n].key = req[r].key /\ req[r].key \in Keys
  BY DEF IInv, TypeOK, Request
<1>2. /\ run \in Run /\ run # NoRun /\ run.status = status /\ run.key = ledger[n].key
      /\ run.forced = ledger[n].forced /\ run.day = ledger[n].day
      /\ run.cost = IF cost = None THEN ledger[n].cost ELSE cost
  BY <1>1, SettledType
<1>3. ledger' = [ledger EXCEPT ![n] = run]
  BY DEF Finish
<1>4. Between(batch) \in Request /\ Between(batch).pc = "idle" /\ Between(batch).batch = batch
  BY BetweenType
<1> HIDE DEF run, n
<1>5. /\ ledger'[n] = run /\ req'[r] = Between(batch)
      /\ \A k \in Runs \ {n} : ledger'[k] = ledger[k]
      /\ \A s \in Requesters \ {r} : req'[s] = req[s]
  BY <1>1, <1>3
<1>6. \A s \in Requesters \ {r} : req[s].pc # "idle" => req[s].key \in Keys /\ req[s].key # req[r].key
  <2> SUFFICES ASSUME NEW s \in Requesters, s # r, req[s].pc # "idle", req[s].key = req[r].key
               PROVE  FALSE
    BY DEF IInv, TypeOK, Request
  <2>1. LockOf[req[r].key] \in Locks
    BY <1>1, LedgerAssumption
  <2>2. LockOf[req[r].key] \in Held(r) /\ LockOf[req[r].key] \in Held(s)
    BY <2>1 DEF Held
  <2> QED
    BY <2>1, <2>2 DEF IInv, Exclusive
<1>7. \A s \in Requesters \ {r} :
        req[s].pc = "calling" => /\ req[s].run \in Runs /\ req[s].run # n
                                 /\ ledger'[req[s].run] = ledger[req[s].run]
  <2> SUFFICES ASSUME NEW s \in Requesters, s # r, req[s].pc = "calling"
               PROVE  req[s].run \in Runs /\ req[s].run # n
    BY <1>5
  <2>1. req[s].run \in Runs /\ ledger[req[s].run].key = req[s].key
    BY <1>1 DEF IInv, TypeOK, Request
  <2> QED
    BY <1>1, <1>6, <2>1
<1>8. TypeOK'
  <2>1. ledger' \in [Runs -> Run \cup {NoRun}] /\ req' \in [Requesters -> Request]
    BY <1>1, <1>2, <1>3, <1>4
  <2>2. ASSUME NEW s \in Requesters
        PROVE  /\ req'[s].pc = "idle" => req'[s] = Between(req'[s].batch)
               /\ req'[s].pc # "idle" => req'[s].key # None
               /\ req'[s].pc = "calling" =>
                    /\ req'[s].run # None /\ ledger'[req'[s].run] # NoRun
                    /\ ledger'[req'[s].run].status = "reserved"
                    /\ ledger'[req'[s].run].key = req'[s].key
    <3>1. CASE s = r
      BY <1>4, <1>5, <3>1
    <3>2. CASE s # r
      BY <1>5, <1>7, <3>2 DEF IInv, TypeOK
    <3> QED
      BY <3>1, <3>2
  <2> QED
    BY <2>1, <2>2 DEF IInv, TypeOK
<1>9. Exclusive'
  <2>1. \A s \in Requesters : Held(s)' \subseteq Held(s)
    BY <1>4, <1>5 DEF Held
  <2> QED
    BY <2>1, FewerLocks DEF IInv
<1>10. \A k \in Keys : k # req[r].key => (Cached(k)' => Cached(k))
  BY <1>1, <1>2, <1>5 DEF Cached
<1>11. Unanswered'
  <2>1. ASSUME NEW s \in Requesters
        PROVE  UnansweredBy(s)'
    <3>1. CASE s = r
      BY <1>4, <1>5, <3>1 DEF UnansweredBy
    <3>2. CASE s # r
      <4>1. req'[s] = req[s] /\ (req[s].pc # "idle" => req[s].key \in Keys /\ req[s].key # req[r].key)
        BY <1>5, <1>6, <3>2
      <4>2. req[s].pc = "calling" => ledger'[req[s].run] = ledger[req[s].run]
        BY <1>7, <3>2
      <4>3. req[s].pc # "idle" => (Cached(req[s].key)' => Cached(req[s].key))
        BY <1>10, <4>1 DEF Cached
      <4> QED
        BY <4>1, <4>2, <4>3 DEF IInv, Unanswered, UnansweredBy, Cached
    <3> QED
      BY <3>1, <3>2
  <2> QED
    BY <2>1 DEF Unanswered
<1>12. Covered'
  <2> SUFFICES ASSUME NEW k \in Runs
               PROVE  IF ledger'[k] = NoRun THEN ~open'[k] /\ bill'[k] = 0
                      ELSE /\ bill'[k] <= ledger'[k].cost
                           /\ open'[k] => bill'[k] = 0 /\ ledger'[k].cost = ReserveOf[ledger'[k].key]
    BY DEF Covered
  <2>1. CASE k = n
    BY <1>1, <1>2, <1>5, <2>1 DEF IInv, Covered, n
  <2>2. CASE k # n
    BY <1>5, <2>2 DEF IInv, Covered
  <2> QED
    BY <2>1, <2>2
<1>13. BudgetsKept'
  <2>1. ledger' \in [Runs -> Run \cup {NoRun}]
    BY <1>1, <1>2, <1>3
  <2>2. \A k \in Runs : IF ledger[k] = NoRun THEN ledger'[k] = NoRun
                        ELSE /\ ledger'[k] # NoRun
                             /\ ledger'[k].day = ledger[k].day
                             /\ ledger'[k].cost <= ledger[k].cost
    <3> TAKE k \in Runs
    <3>1. ledger[k] # NoRun => ledger[k].cost \in Int
      BY <1>1, LedgerAssumption DEF Run, Amounts
    <3>2. CASE k = n
      BY <1>1, <1>2, <1>5, <3>1, <3>2 DEF n
    <3>3. CASE k # n
      BY <1>5, <3>1, <3>3
    <3> QED
      BY <3>2, <3>3
  <2> QED
    BY <2>1, <2>2, CheaperKeepsBudgets DEF IInv
<1>14. PaidOnce'
  <2>1. status = "completed" /\ ~run.forced => ~Cached(run.key)
    BY <1>1, <1>2 DEF IInv, Unanswered, UnansweredBy, n
  <2>2. ASSUME NEW k \in Runs, k # n, ledger'[k] # NoRun,
               ledger'[k].status = "completed", ledger'[k].key = run.key
        PROVE  Cached(run.key)
    <3>1. ledger'[k] = ledger[k]
      BY <1>5, <2>2
    <3> QED
      BY <2>2, <3>1 DEF Cached
  <2>3. ASSUME NEW j \in Runs, NEW k \in Runs, j # k, j # n, k # n,
               ledger'[j] # NoRun, ledger'[k] # NoRun,
               ledger'[j].status = "completed", ledger'[k].status = "completed",
               ledger'[j].key = ledger'[k].key, ~ledger'[j].forced, ~ledger'[k].forced
        PROVE  FALSE
    <3>1. ledger'[j] = ledger[j] /\ ledger'[k] = ledger[k]
      BY <1>5, <2>3
    <3> QED
      BY <2>3, <3>1 DEF IInv, PaidOnce
  <2> QED
    BY <1>2, <1>5, <2>1, <2>2, <2>3 DEF PaidOnce
<1> QED
  BY <1>8, <1>9, <1>11, <1>12, <1>13, <1>14 DEF IInv

\* Every step keeps the invariant.
LEMMA StepHolds == IInv /\ [Next]_vars => IInv'
<1> SUFFICES ASSUME IInv, [Next]_vars PROVE IInv'
  OBVIOUS
<1>1. ASSUME NEW r \in Requesters, BeginBatch(r) PROVE IInv'
  BY <1>1, BeginBatchHolds
<1>2. ASSUME NEW r \in Requesters, EndBatch(r) PROVE IInv'
  BY <1>2, LeaveHolds DEF EndBatch, Idle
<1>3. ASSUME NEW r \in Requesters, NEW k \in Keys, NEW forced \in BOOLEAN, Acquire(r, k, forced)
      PROVE  IInv'
  BY <1>3, AcquireHolds
<1>4. ASSUME NEW r \in Requesters, UseCached(r) PROVE IInv'
  <2>1. req[r].batch \in BOOLEAN /\ req' = [req EXCEPT ![r] = Between(req[r].batch)]
    BY <1>4 DEF UseCached, Done, IInv, TypeOK, Request
  <2> QED
    BY <1>4, <2>1, LeaveHolds DEF UseCached
<1>5. ASSUME NEW r \in Requesters, Miss(r) PROVE IInv'
  BY <1>5, MissHolds
<1>6. ASSUME NEW r \in Requesters, NEW n \in Runs, Reserve(r, n) PROVE IInv'
  BY <1>6, ReserveHolds
<1>7. ASSUME NEW r \in Requesters, BudgetExceeded(r) PROVE IInv'
  BY <1>7, LeaveHolds DEF BudgetExceeded, Stop, Idle
<1>8. ASSUME NEW n \in Runs, NEW amount \in Amounts, ProviderBills(n, amount) PROVE IInv'
  BY <1>8, ProviderBillsHolds
<1>9. ASSUME NEW r \in Requesters, req[r].pc = "calling"
      PROVE  /\ req[r].run \in Runs /\ ledger[req[r].run] # NoRun /\ ledger[req[r].run] \in Run
             /\ open \in [Runs -> BOOLEAN] /\ bill \in Charges /\ 0 \in Amounts
             /\ ledger[req[r].run].cost \in Nat
             /\ open[req[r].run] => bill[req[r].run] = 0
             /\ bill[req[r].run] <= ledger[req[r].run].cost
  <2>1. /\ req[r].run \in Runs /\ ledger[req[r].run] # NoRun /\ ledger[req[r].run] \in Run
        /\ open \in [Runs -> BOOLEAN] /\ bill \in Charges
    BY <1>9 DEF IInv, TypeOK, Request
  <2>2. 0 \in Amounts /\ ledger[req[r].run].cost \in Nat
    BY <2>1, LedgerAssumption DEF Amounts, Run
  <2> QED
    BY <2>1, <2>2 DEF IInv, Covered
<1>10. ASSUME NEW r \in Requesters, Rejected(r) PROVE IInv'
  <2>1. /\ req[r].pc = "calling" /\ Finish(r, "failed", 0) /\ open[req[r].run]
        /\ req' = [req EXCEPT ![r] = Between(FALSE)] /\ day' = day /\ bill' = bill
        /\ open' = [open EXCEPT ![req[r].run] = FALSE]
    BY <1>10 DEF Rejected, Stop, Idle
  <2>2. open' \in [Runs -> BOOLEAN] /\ ~open'[req[r].run] /\ \A k \in Runs : open'[k] => open[k]
    BY <1>9, <2>1
  <2>3. bill[req[r].run] <= 0 /\ 0 <= ledger[req[r].run].cost
    BY <1>9, <2>1
  <2> QED
    BY <1>9, <2>1, <2>2, <2>3, SettleHolds
<1>11. ASSUME NEW r \in Requesters, NEW status \in {"failed", "uncertain"}, OutcomeUnknown(r, status)
       PROVE  IInv'
  <2>1. /\ req[r].pc = "calling" /\ Finish(r, status, None)
        /\ req' = [req EXCEPT ![r] = Between(FALSE)] /\ day' = day /\ bill' = bill /\ open' = open
    BY <1>11 DEF OutcomeUnknown, Stop, Idle, provider
  <2> QED
    BY <1>9, <2>1, SettleHolds
<1>12. ASSUME NEW r \in Requesters, NEW valid \in BOOLEAN, NEW usage \in BOOLEAN,
              Answered(r, valid, usage)
       PROVE  IInv'
  <2> DEFINE status == IF valid THEN "completed" ELSE "failed"
             cost == IF usage THEN bill[req[r].run] ELSE None
             batch == IF valid THEN req[r].batch ELSE FALSE
  <2>1. /\ req[r].pc = "calling" /\ ~open[req[r].run] /\ Finish(r, status, cost)
        /\ day' = day /\ bill' = bill /\ open' = open
    BY <1>12 DEF Answered, provider
  <2>2. req' = [req EXCEPT ![r] = Between(batch)]
    BY <1>12 DEF Answered, Done, Stop, Idle
  <2>3. bill[req[r].run] \in Amounts /\ bill[req[r].run] \in Int
    BY <1>9, <2>1, LedgerAssumption DEF Charges, Amounts
  <2>4. /\ status \in {"failed", "uncertain", "completed"} /\ cost \in Amounts \cup {None}
        /\ batch \in BOOLEAN /\ (batch => req[r].batch)
    BY <2>3 DEF IInv, TypeOK, Request
  <2>5. cost # None => bill[req[r].run] <= cost /\ cost <= ledger[req[r].run].cost
    BY <1>9, <2>1, <2>3
  <2> HIDE DEF status, cost, batch
  <2> QED
    BY <1>9, <2>1, <2>2, <2>4, <2>5, SettleHolds
<1>13. ASSUME NEW r \in Requesters, Crash(r) PROVE IInv'
  BY <1>13, LeaveHolds DEF Crash, Idle
<1>14. CASE NextDay
  <2>1. day' \in Days /\ UNCHANGED <<req, ledger, open, bill>>
    BY <1>14, LedgerAssumption DEF NextDay, provider, IInv, TypeOK, Days
  <2> QED
    BY <2>1 DEF IInv, TypeOK, Exclusive, Held, Unanswered, UnansweredBy, Cached, Covered, BudgetsKept,
                ChargedOn, ChargedInMonth, PaidOnce
<1>15. CASE UNCHANGED vars
  BY <1>15 DEF vars, provider, IInv, TypeOK, Exclusive, Held, Unanswered, UnansweredBy, Cached, Covered,
               BudgetsKept, ChargedOn, ChargedInMonth, PaidOnce
<1> QED
  BY <1>1, <1>2, <1>3, <1>4, <1>5, <1>6, <1>7, <1>8, <1>10, <1>11, <1>12, <1>13, <1>14, <1>15
     DEF Next

-----------------------------------------------------------------------------
(* The theorems. *)

\* The base of the results below.
THEOREM InvariantHolds == Spec => []IInv
BY InitHolds, StepHolds, PTL DEF Spec

\* Every row has a cost that can be summed, and every caller owns a reserved row.
THEOREM LedgerIsWellFormed == Spec => []TypeOK
<1>1. IInv => TypeOK
  BY DEF IInv
<1> QED
  BY <1>1, InvariantHolds, PTL

\* No outcome of a call, known or not, and no crash makes the ledger show less than what
\* the provider bills (finish_screening and its callers).
THEOREM EveryBillIsCovered == Spec => []LedgerCoversBill
<1>1. IInv => LedgerCoversBill
  <2> SUFFICES ASSUME IInv, NEW n \in Runs
               PROVE  bill[n] <= IF ledger[n] = NoRun THEN 0 ELSE ledger[n].cost
    BY DEF LedgerCoversBill
  <2> QED
    BY DEF IInv, Covered
<1> QED
  BY <1>1, InvariantHolds, PTL

\* The provider's bills for a day and for a month stay within the budgets, for any number
\* of concurrent requesters (reserve_screening).
THEOREM BudgetsAreRespected == Spec => []SpendWithinBudget
<1>1. IInv => SpendWithinBudget
  <2> SUFFICES ASSUME IInv, NEW d \in Days
               PROVE  /\ Total(BilledOn(d)) <= DailyBudget
                      /\ Total(BilledInMonth(MonthOf(d))) <= MonthlyBudget
    BY DEF SpendWithinBudget
  <2> DEFINE m == MonthOf(d)
  <2>1. /\ ChargedOn(d) \in Charges /\ ChargedInMonth(m) \in Charges
        /\ BilledOn(d) \in Charges /\ BilledInMonth(m) \in Charges
    BY ChargesType DEF IInv, TypeOK
  <2>2. \A n \in Runs : BilledOn(d)[n] <= ChargedOn(d)[n]
    BY DEF BilledOn, ChargedOn, IInv, Covered
  <2>3. \A n \in Runs : BilledInMonth(m)[n] <= ChargedInMonth(m)[n]
    BY DEF BilledInMonth, ChargedInMonth, IInv, Covered
  <2>4. /\ Total(BilledOn(d)) <= Total(ChargedOn(d))
        /\ Total(BilledInMonth(m)) <= Total(ChargedInMonth(m))
    BY <2>1, <2>2, <2>3, TotalLaws
  <2>5. Total(ChargedOn(d)) <= DailyBudget /\ Total(ChargedInMonth(m)) <= MonthlyBudget
    BY DEF IInv, BudgetsKept
  <2>6. /\ Total(BilledOn(d)) \in Nat /\ Total(ChargedOn(d)) \in Nat
        /\ Total(BilledInMonth(m)) \in Nat /\ Total(ChargedInMonth(m)) \in Nat
    BY <2>1, TotalLaws
  <2> HIDE DEF m
  <2>7. Total(BilledOn(d)) <= DailyBudget /\ Total(BilledInMonth(m)) <= MonthlyBudget
    BY <2>4, <2>5, <2>6, LedgerAssumption
  <2> QED
    BY <2>7 DEF m
<1> QED
  BY <1>1, InvariantHolds, PTL

\* An answered input is not paid for again (find_cached_screening under the lock).
THEOREM InputsArePaidOnce == Spec => []PaidOnce
<1>1. IInv => PaidOnce
  BY DEF IInv
<1> QED
  BY <1>1, InvariantHolds, PTL
=============================================================================
