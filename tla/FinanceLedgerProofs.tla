-------------------------- MODULE FinanceLedgerProofs --------------------------
(***************************************************************************)
(* Proofs about FinanceLedger for any workers, limit, payments, totals and *)
(* amounts.                                                                *)
(*                                                                         *)
(* create_invoice passes the usage limit by at most the number of its      *)
(* workers less one.  Every invoice has its usage event, and the events    *)
(* already recorded plus the requests that have been let through but not   *)
(* committed stay below the limit plus the number of workers: a request is *)
(* let through only while the events alone are below the limit.            *)
(*                                                                         *)
(* allocate_payment keeps the books.  What a request has read still holds  *)
(* of every row that it is not behind on, so what it writes there adds     *)
(* what it allocates to both sides.  The sides are sums over finite sets:  *)
(* the lemmas about them are proved by well-founded induction on subsets.  *)
(***************************************************************************)
EXTENDS FinanceLedger, FiniteSetTheorems, WellFoundedInduction, TLAPS

\* Requests that assert_within_limit has let through.
Checked == {w \in Workers : req[w].pc \in {"within_limit", "numbered"}}

\* The invoices are a sequence with as many members as there are usage events.
Metered ==
  /\ usage \in Nat
  /\ invoices \in [1 .. usage -> {invoices[i] : i \in 1 .. usage}]

Staged ==
  /\ req = [w \in Workers |-> req[w]]
  /\ \A w \in Workers : "pc" \in DOMAIN req[w]

Room == usage + Cardinality(Checked) < Limit + Cardinality(Workers)

IInv == Metered /\ Staged /\ Room

-----------------------------------------------------------------------------
(* Sequences and counting.                                                 *)

LEMMA LenOf ==
  ASSUME NEW n \in Nat, NEW S, NEW s \in [1 .. n -> S]
  PROVE  s \in Seq(S) /\ Len(s) = n
OBVIOUS

LEMMA Counts ==
  /\ Checked \subseteq Workers
  /\ IsFiniteSet(Checked)
  /\ Cardinality(Checked) \in Nat /\ Cardinality(Workers) \in Nat \ {0}
<1>1. Checked \subseteq Workers
  BY DEF Checked
<1>2. IsFiniteSet(Checked)
  BY <1>1, LedgerAssumption, FS_Subset
<1>3. Cardinality(Checked) \in Nat /\ Cardinality(Workers) \in Nat
  BY <1>2, LedgerAssumption, FS_CardinalityType
<1>4. Cardinality(Workers) # 0
  BY LedgerAssumption, FS_EmptySet
<1>. QED BY <1>1, <1>2, <1>3, <1>4

\* A step that lets nobody else through and records no event leaves the room there was.
LEMMA Narrows ==
  ASSUME Room, usage \in Nat, usage' = usage, Checked' \subseteq Checked
  PROVE  Room'
<1>1. /\ IsFiniteSet(Checked)
      /\ Cardinality(Checked) \in Nat /\ Cardinality(Workers) \in Nat
  BY Counts
<1>2. Cardinality(Checked') <= Cardinality(Checked) /\ IsFiniteSet(Checked')
  BY <1>1, FS_Subset
<1>3. Cardinality(Checked') \in Nat
  BY <1>2, FS_CardinalityType
<1>. QED BY <1>1, <1>2, <1>3, LedgerAssumption DEF Room

\* The answer of one worker: everybody else stays where he was.
LEMMA Moved ==
  ASSUME Staged, NEW w \in Workers, NEW r, "pc" \in DOMAIN r, Becomes(w, r)
  PROVE  /\ Staged'
         /\ req'[w] = r
         /\ \A x \in Workers : x # w => req'[x] = req[x]
BY DEF Staged, Becomes

LEMMA Committed ==
  ASSUME Staged, NEW w \in Workers, NEW rows, Commits(w, rows)
  PROVE  /\ Staged'
         /\ req'[w] = Idle
         /\ \A x \in Workers : x # w => req'[x].pc = req[x].pc
<1>1. req'[w] = Idle
  BY DEF Commits
<1>2. ASSUME NEW x \in Workers, x # w
      PROVE  "pc" \in DOMAIN req'[x] /\ req'[x].pc = req[x].pc
  <2>1. \/ req'[x] = req[x]
        \/ \E S : req'[x] = [req[x] EXCEPT !.behind = S]
    BY <1>2 DEF Commits
  <2>. QED BY <1>2, <2>1 DEF Staged
<1>3. req' = [x \in Workers |-> req'[x]]
  BY DEF Commits
<1>. QED BY <1>1, <1>2, <1>3 DEF Staged, Idle

-----------------------------------------------------------------------------
(* The steps.                                                              *)

LEMMA CheckLimitKeeps ==
  ASSUME IInv, NEW w \in Workers, CheckLimit(w)
  PROVE  IInv'
<1>1. /\ req[w] = Idle /\ usage + 1 <= Limit /\ usage' = usage /\ invoices' = invoices
      /\ Becomes(w, [pc |-> "within_limit"])
  BY DEF CheckLimit
<1>2. /\ Staged' /\ req'[w] = [pc |-> "within_limit"]
      /\ \A x \in Workers : x # w => req'[x] = req[x]
  BY <1>1, Moved DEF IInv
<1>3. Room'
  <2>1. Checked' \subseteq Workers
    BY DEF Checked
  <2>2. /\ Cardinality(Checked') <= Cardinality(Workers) /\ IsFiniteSet(Checked')
    BY <2>1, LedgerAssumption, FS_Subset
  <2>3. Cardinality(Checked') \in Nat /\ Cardinality(Workers) \in Nat
    BY <2>2, Counts, FS_CardinalityType
  <2>. QED BY <1>1, <2>2, <2>3, LedgerAssumption DEF Room, IInv, Metered
<1>. QED BY <1>1, <1>2, <1>3 DEF IInv, Metered

LEMMA CreateInvoiceKeeps ==
  ASSUME IInv, NEW w \in Workers, CreateInvoice(w)
  PROVE  IInv'
<1>1. PICK row :
        /\ req[w].pc = "numbered" /\ usage' = usage + 1
        /\ invoices' = Append(invoices, row) /\ Commits(w, {})
  BY DEF CreateInvoice
<1>2. /\ Staged' /\ req'[w] = Idle
      /\ \A x \in Workers : x # w => req'[x].pc = req[x].pc
  BY <1>1, Committed DEF IInv
<1>3. Metered'
  <2>. DEFINE S == {invoices[i] : i \in 1 .. usage}
  <2>1. usage \in Nat /\ invoices \in Seq(S) /\ Len(invoices) = usage
    BY LenOf DEF IInv, Metered
  <2>2. invoices' \in Seq(S \cup {row}) /\ Len(invoices') = usage'
    BY <1>1, <2>1
  <2>. HIDE DEF S
  <2>3. invoices' \in [1 .. usage' -> S \cup {row}]
    BY <2>2
  <2>4. usage' \in Nat
    BY <1>1, <2>1
  <2>5. \A i \in 1 .. usage' : invoices'[i] \in {invoices'[k] : k \in 1 .. usage'}
    OBVIOUS
  <2>6. invoices' \in [1 .. usage' -> {invoices'[k] : k \in 1 .. usage'}]
    BY <2>3, <2>5
  <2>. QED BY <2>4, <2>6 DEF Metered
<1>4. Room'
  <2>1. Checked' = Checked \ {w} /\ w \in Checked
    BY <1>1, <1>2 DEF Checked, Idle
  <2>2. /\ IsFiniteSet(Checked)
        /\ Cardinality(Checked) \in Nat /\ Cardinality(Workers) \in Nat
    BY Counts
  <2>3. Cardinality(Checked') = Cardinality(Checked) - 1
    BY <2>1, <2>2, FS_RemoveElement
  <2>. QED BY <1>1, <2>2, <2>3, LedgerAssumption DEF Room, IInv, Metered
<1>. QED BY <1>2, <1>3, <1>4 DEF IInv

\* The number of invoices does not change when their rows are written.
LEMMA Rewritten ==
  ASSUME Metered, usage' = usage, DOMAIN invoices' = DOMAIN invoices,
         invoices' = [i \in DOMAIN invoices' |-> invoices'[i]]
  PROVE  Metered'
BY DEF Metered

LEMMA UpdatingKeeps ==
  ASSUME IInv, NEW w \in Workers, UpdateInvoice(w) \/ AllocatePayment(w)
  PROVE  IInv'
<1>1. invoices = [i \in DOMAIN invoices |-> invoices[i]]
  BY DEF IInv, Metered
<1>2. /\ usage' = usage /\ DOMAIN invoices' = DOMAIN invoices
      /\ invoices' = [i \in DOMAIN invoices' |-> invoices'[i]]
  BY <1>1 DEF UpdateInvoice, AllocatePayment
<1>3. \E rows : Commits(w, rows)
  BY DEF UpdateInvoice, AllocatePayment
<1>4. /\ Staged' /\ req'[w] = Idle
      /\ \A x \in Workers : x # w => req'[x].pc = req[x].pc
  BY <1>3, Committed DEF IInv
<1>5. Checked' \subseteq Checked
  BY <1>4 DEF Checked, Idle
<1>. QED BY <1>2, <1>4, <1>5, Rewritten, Narrows DEF IInv, Metered

LEMMA ReadingKeeps ==
  ASSUME IInv, NEW w \in Workers,
         \/ TakeNumber(w) \/ ReadUpdate(w) \/ ReadPayment(w) \/ ReadInvoice(w) \/ Fail(w)
         \/ CreatePayment(w)
  PROVE  IInv'
<1>1. UNCHANGED <<invoices, usage>>
  BY DEF TakeNumber, ReadUpdate, ReadPayment, ReadInvoice, Fail, CreatePayment
<1>2. CASE CreatePayment(w)
  BY <1>1, <1>2 DEF CreatePayment, IInv, Metered, Staged, Room, Checked
<1>3. CASE ~CreatePayment(w)
  <2>1. PICK r : /\ "pc" \in DOMAIN r /\ Becomes(w, r)
                 /\ r.pc \in {"within_limit", "numbered"} => w \in Checked
    <3>1. CASE TakeNumber(w)
      BY <3>1 DEF TakeNumber, Checked
    <3>2. CASE ReadUpdate(w)
      BY <3>2 DEF ReadUpdate
    <3>3. CASE ReadPayment(w)
      BY <3>3 DEF ReadPayment
    <3>4. CASE ReadInvoice(w)
      <4>1. PICK R : Becomes(w, [req[w] EXCEPT !.read = R])
        BY <3>4 DEF ReadInvoice
      <4>. DEFINE r == [req[w] EXCEPT !.read = R]
      <4>2. "pc" \in DOMAIN r /\ r.pc = "allocating"
        BY <3>4 DEF ReadInvoice, IInv, Staged
      <4>. HIDE DEF r
      <4>. QED BY <4>1, <4>2 DEF r
    <3>5. CASE Fail(w)
      BY <3>5 DEF Fail, Idle
    <3>. QED BY <1>3, <3>1, <3>2, <3>3, <3>4, <3>5
  <2>2. /\ Staged' /\ req'[w] = r
        /\ \A x \in Workers : x # w => req'[x] = req[x]
    BY <2>1, Moved DEF IInv
  <2>3. Checked' \subseteq Checked
    BY <2>1, <2>2 DEF Checked
  <2>. QED BY <1>1, <2>2, <2>3, Narrows DEF IInv, Metered
<1>. QED BY <1>2, <1>3

-----------------------------------------------------------------------------
(* Theorem.                                                                *)

LEMMA Induction ==
  /\ Init => IInv
  /\ IInv /\ [Next]_vars => IInv'
<1>1. ASSUME Init PROVE IInv
  <2>1. Metered /\ Staged
    BY <1>1 DEF Init, Metered, Staged, Idle
  <2>2. Checked = {}
    BY <1>1 DEF Init, Checked, Idle
  <2>3. Cardinality(Checked) = 0
    BY <2>2, FS_EmptySet
  <2>. QED BY <1>1, <2>1, <2>3, Counts, LedgerAssumption DEF IInv, Init, Room
<1>2. ASSUME IInv, [Next]_vars PROVE IInv'
  <2>1. ASSUME NEW w \in Workers,
               \/ CheckLimit(w) \/ TakeNumber(w) \/ CreateInvoice(w)
               \/ ReadUpdate(w) \/ UpdateInvoice(w)
               \/ CreatePayment(w) \/ ReadPayment(w) \/ ReadInvoice(w) \/ AllocatePayment(w)
               \/ Fail(w)
        PROVE  IInv'
    BY <1>2, <2>1, CheckLimitKeeps, CreateInvoiceKeeps, UpdatingKeeps, ReadingKeeps
  <2>2. CASE UNCHANGED vars
    BY <1>2, <2>2 DEF vars, IInv, Metered, Staged, Room, Checked
  <2>. QED BY <1>2, <2>1, <2>2 DEF Next
<1>. QED BY <1>1, <1>2

\* The tenant's limit of invoices is passed by fewer invoices than there are workers that
\* serve create_invoice (assert_within_limit, record_usage).
THEOREM LimitOverrun == Spec => []LimitOverrunBounded
<1>1. IInv => LimitOverrunBounded
  <2>. SUFFICES ASSUME IInv PROVE LimitOverrunBounded
    OBVIOUS
  <2>1. usage \in Nat /\ Len(invoices) = usage
    BY LenOf DEF IInv, Metered
  <2>. QED BY <2>1, Counts, LedgerAssumption DEF IInv, Room, LimitOverrunBounded
<1>. QED BY <1>1, Induction, PTL DEF Spec

-----------------------------------------------------------------------------
(* Sums over finite sets.                                                 *)

Pick(s) == CHOOSE x \in s : TRUE

\* What MapThenSumSet computes: the sums of f over the subsets of S.
Sums(g, f, S) ==
  \A s \in SUBSET S : g[s] = IF s = {} THEN 0 ELSE f[Pick(s)] + g[s \ {Pick(s)}]

\* The subsets of a finite set are reached from smaller ones.
LEMMA SubsetInduction ==
  ASSUME NEW S, IsFiniteSet(S), NEW C,
         \A T \in SUBSET S : (\A U \in SUBSET T : U # T => U \in C) => T \in C
  PROVE  SUBSET S \subseteq C
<1>. DEFINE Bad == (SUBSET S) \ C
<1>1. SUFFICES ASSUME Bad # {} PROVE FALSE
  OBVIOUS
<1>2. IsWellFoundedOn(StrictSubsetOrdering(S), SUBSET S)
  BY FS_StrictSubsetOrderingWellFounded, FS_FiniteSubsetsOfFinite
<1>3. PICK T \in Bad : \A U \in Bad : ~(<<U, T>> \in StrictSubsetOrdering(S))
  <2>. HIDE DEF Bad
  <2>1. Bad \subseteq SUBSET S
    BY DEF Bad
  <2>. QED BY <1>1, <1>2, <2>1, WFMin
<1>4. ASSUME NEW U \in SUBSET T, U # T PROVE U \in C
  <2>1. <<U, T>> \in StrictSubsetOrdering(S)
    BY <1>4 DEF StrictSubsetOrdering
  <2>. QED BY <1>3, <2>1
<1>. QED BY <1>3, <1>4

\* The element that MapThenSumSet takes next.
LEMMA PickIn == ASSUME NEW s, s # {} PROVE Pick(s) \in s
BY DEF Pick

\* There is one way to sum.
LEMMA SumsUnique ==
  ASSUME NEW S, IsFiniteSet(S), NEW f, NEW g, NEW h, Sums(g, f, S), Sums(h, f, S)
  PROVE  \A s \in SUBSET S : g[s] = h[s]
<1>. DEFINE C == {s \in SUBSET S : g[s] = h[s]}
<1>1. ASSUME NEW T \in SUBSET S, \A U \in SUBSET T : U # T => U \in C PROVE T \in C
  <2>1. T # {} => g[T \ {Pick(T)}] = h[T \ {Pick(T)}]
    BY <1>1, PickIn
  <2>. QED BY <2>1 DEF Sums
<1>2. SUBSET S \subseteq C
  <2>. HIDE DEF C
  <2>. QED BY <1>1, SubsetInduction
<1>. QED BY <1>2

\* And the sums exist.
LEMMA SumsExist ==
  ASSUME NEW S, IsFiniteSet(S), NEW f
  PROVE  \E g : Sums(g, f, S)
<1>. DEFINE C == {T \in SUBSET S : \E g : Sums(g, f, T)}
            sums(T) == CHOOSE g : Sums(g, f, T)
            rest(s) == s \ {Pick(s)}
<1>1. ASSUME NEW T \in SUBSET S, \A U \in SUBSET T : U # T => U \in C PROVE T \in C
  <2>. DEFINE G == [s \in SUBSET T |-> IF s = {} THEN 0 ELSE f[Pick(s)] + sums(rest(s))[rest(s)]]
  <2>1. ASSUME NEW U \in SUBSET T, U # T PROVE Sums(sums(U), f, U) /\ IsFiniteSet(U)
    <3>1. \E g : Sums(g, f, U)
      BY <1>1, <2>1
    <3>2. IsFiniteSet(U)
      BY <2>1, FS_Subset
    <3>. QED BY <3>1, <3>2
  <2>2. ASSUME NEW s \in SUBSET T PROVE G[s] = IF s = {} THEN 0 ELSE f[Pick(s)] + G[rest(s)]
    <3>1. CASE s = {}
      BY <3>1
    <3>2. CASE s # {}
      <4>. DEFINE r == rest(s)
      <4>1. /\ r \in SUBSET T /\ r # T
            /\ rest(r) \subseteq r /\ (r # {} => rest(r) \in SUBSET T /\ rest(r) # T)
        BY <3>2, PickIn
      <4>2. Sums(sums(r), f, r) /\ IsFiniteSet(r)
        BY <2>1, <4>1
      <4>3. G[r] = sums(r)[r]
        <5>1. CASE r = {}
          <6>1. sums(r)[r] = 0
            BY <4>2, <5>1 DEF Sums
          <6>. QED BY <4>1, <5>1, <6>1
        <5>2. CASE r # {}
          <6>1. sums(r)[r] = f[Pick(r)] + sums(r)[rest(r)]
            BY <4>2, <5>2 DEF Sums
          <6>2. Sums(sums(rest(r)), f, rest(r)) /\ IsFiniteSet(rest(r))
            BY <2>1, <4>1, <5>2
          <6>3. Sums(sums(r), f, rest(r))
            BY <4>1, <4>2 DEF Sums
          <6>4. sums(r)[rest(r)] = sums(rest(r))[rest(r)]
            <7>. HIDE DEF sums, rest
            <7>. QED BY <6>2, <6>3, SumsUnique
          <6>5. G[r] = f[Pick(r)] + sums(rest(r))[rest(r)]
            BY <4>1, <5>2
          <6>. QED BY <6>1, <6>4, <6>5
        <5>. QED BY <5>1, <5>2
      <4>4. G[s] = f[Pick(s)] + sums(r)[r]
        BY <3>2
      <4>. QED BY <3>2, <4>3, <4>4
    <3>. QED BY <3>1, <3>2
  <2>3. Sums(G, f, T)
    <3>. HIDE DEF G
    <3>. QED BY <2>2 DEF Sums
  <2>. HIDE DEF G
  <2>. QED BY <2>3
<1>2. SUBSET S \subseteq C
  <2>. HIDE DEF C
  <2>. QED BY <1>1, SubsetInduction
<1>. QED BY <1>2

\* The sum of f over S.
SumOver(f, S) == (CHOOSE g : Sums(g, f, S))[S]

\* It is the value of whatever sums f.
LEMMA SumOverIs ==
  ASSUME NEW S, IsFiniteSet(S), NEW f, NEW g, Sums(g, f, S)
  PROVE  SumOver(f, S) = g[S]
<1>. PICK h : h = CHOOSE k : Sums(k, f, S) BY Zenon
<1>1. Sums(h, f, S)
  BY Zenon
<1>. QED BY <1>1, SumsUnique DEF SumOver

\* Sums of natural numbers are natural, and of zeros zero.
LEMMA SumOverNat ==
  ASSUME NEW S, IsFiniteSet(S), NEW f, \A x \in S : f[x] \in Nat
  PROVE  SumOver(f, S) \in Nat
<1>1. PICK g : Sums(g, f, S)
  BY SumsExist
<1>. DEFINE C == {s \in SUBSET S : g[s] \in Nat}
<1>2. ASSUME NEW T \in SUBSET S, \A U \in SUBSET T : U # T => U \in C PROVE T \in C
  <2>1. T # {} => g[T \ {Pick(T)}] \in Nat /\ f[Pick(T)] \in Nat
    BY <1>2, PickIn
  <2>. QED BY <1>1, <2>1 DEF Sums
<1>3. SUBSET S \subseteq C
  <2>. HIDE DEF C
  <2>. QED BY <1>2, SubsetInduction
<1>. QED BY <1>1, <1>3, SumOverIs

LEMMA SumOverZero ==
  ASSUME NEW S, IsFiniteSet(S), NEW f, \A x \in S : f[x] = 0
  PROVE  SumOver(f, S) = 0
<1>1. PICK g : Sums(g, f, S)
  BY SumsExist
<1>. DEFINE C == {s \in SUBSET S : g[s] = 0}
<1>2. ASSUME NEW T \in SUBSET S, \A U \in SUBSET T : U # T => U \in C PROVE T \in C
  <2>1. T # {} => g[T \ {Pick(T)}] = 0 /\ f[Pick(T)] = 0
    BY <1>2, PickIn
  <2>. QED BY <1>1, <2>1 DEF Sums
<1>3. SUBSET S \subseteq C
  <2>. HIDE DEF C
  <2>. QED BY <1>2, SubsetInduction
<1>. QED BY <1>1, <1>3, SumOverIs

\* Of two functions that agree but on x, the sums differ by the difference at x.
LEMMA SumOverChanged ==
  ASSUME NEW S, IsFiniteSet(S), NEW x \in S, NEW e, NEW f,
         \A y \in S : e[y] \in Nat /\ f[y] \in Nat,
         \A y \in S \ {x} : f[y] = e[y]
  PROVE  SumOver(f, S) = SumOver(e, S) + f[x] - e[x]
<1>1. PICK g : Sums(g, e, S)
  BY SumsExist
<1>2. PICK h : Sums(h, f, S)
  BY SumsExist
<1>. DEFINE C == {s \in SUBSET S : /\ g[s] \in Nat
                                  /\ h[s] = IF x \in s THEN g[s] + f[x] - e[x] ELSE g[s]}
<1>3. ASSUME NEW T \in SUBSET S, \A U \in SUBSET T : U # T => U \in C PROVE T \in C
  <2>1. CASE T = {}
    <3>1. g[{}] = 0 /\ h[{}] = 0
      BY <1>1, <1>2 DEF Sums
    <3>. QED BY <2>1, <3>1
  <2>2. CASE T # {}
    <3>. PICK y : y = Pick(T) BY Zenon
    <3>. PICK U : U = T \ {y} BY Zenon
    <3>1. y \in T /\ y \in S /\ U \in SUBSET T /\ U # T
      BY <2>2, PickIn
    <3>2. g[T] = e[y] + g[U] /\ h[T] = f[y] + h[U]
      BY <1>1, <1>2, <2>2 DEF Sums
    <3>3. U \in C
      BY <1>3, <3>1
    <3>4. (x \in U <=> x \in T /\ x # y) /\ (y # x => f[y] = e[y]) /\ e[y] \in Nat /\ f[y] \in Nat
          /\ e[x] \in Nat /\ f[x] \in Nat
      BY <3>1
    <3>5. CASE y = x
      BY <3>1, <3>2, <3>3, <3>4, <3>5
    <3>6. CASE y # x
      BY <3>1, <3>2, <3>3, <3>4, <3>6
    <3>. QED BY <3>5, <3>6
  <2>. QED BY <2>1, <2>2
<1>4. SUBSET S \subseteq C
  <2>. HIDE DEF C
  <2>. QED BY <1>3, SubsetInduction
<1>5. SumOver(e, S) = g[S] /\ SumOver(f, S) = h[S]
  BY <1>1, <1>2, SumOverIs
<1>. QED BY <1>4, <1>5

-----------------------------------------------------------------------------
(* The sums of the ledger.                                                 *)

\* Spent and Received of a table of allocations.
SpentIn(table, p) == MapThenSumSet(LAMBDA i : table[p, i], Billed)
ReceivedIn(table, i) == MapThenSumSet(LAMBDA p : table[p, i], Payments)

SpentOf(table, p) == [i \in Billed |-> table[p, i]]
ReceivedBy(table, i) == [p \in Payments |-> table[p, i]]

\* What is summed over is finite.
LEMMA BilledIsFinite == IsFiniteSet(Billed) /\ IsFiniteSet(Payments)
<1>1. IsFiniteSet(1 .. MaxInvoices)
  BY LedgerAssumption, FS_Interval
<1>. QED BY <1>1, LedgerAssumption, FS_Subset

\* The sums of the ledger are sums over finite sets: the recursive function in their
\* definition exists and computes them.
LEMMA SpentIs ==
  ASSUME NEW table, NEW p
  PROVE  SpentIn(table, p) = SumOver(SpentOf(table, p), Billed)
<1>1. PICK g : Sums(g, SpentOf(table, p), Billed)
  BY SumsExist, BilledIsFinite
<1>. DEFINE body(it) == [s \in SUBSET Billed |->
                          IF s = {} THEN 0 ELSE table[p, Pick(s)] + it[s \ {Pick(s)}]]
<1>2. SpentIn(table, p) = (CHOOSE it : it = body(it))[Billed]
  BY DEF SpentIn, MapThenSumSet, MapThenFoldSet, Pick
<1>3. \A s \in SUBSET Billed : s # {} => Pick(s) \in Billed /\ s \ {Pick(s)} \in SUBSET Billed
  BY PickIn
<1>4. \E it : it = body(it)
  <2>. DEFINE it == [s \in SUBSET Billed |-> g[s]]
  <2>1. \A s \in SUBSET Billed : it[s] = IF s = {} THEN 0 ELSE table[p, Pick(s)] + it[s \ {Pick(s)}]
    BY <1>1, <1>3 DEF Sums, SpentOf
  <2>2. it = body(it)
    BY <2>1
  <2>. QED BY <2>2
<1>5. PICK it : it = CHOOSE h : h = body(h)
  BY Zenon
<1>6. it = body(it)
  BY <1>4, <1>5, Zenon
<1>7. Sums(it, SpentOf(table, p), Billed)
  <2>1. \A s \in SUBSET Billed : it[s] = IF s = {} THEN 0 ELSE table[p, Pick(s)] + it[s \ {Pick(s)}]
    BY <1>6
  <2>2. \A s \in SUBSET Billed : s # {} => SpentOf(table, p)[Pick(s)] = table[p, Pick(s)]
    BY <1>3 DEF SpentOf
  <2>3. ASSUME NEW s \in SUBSET Billed
        PROVE  it[s] = IF s = {} THEN 0 ELSE SpentOf(table, p)[Pick(s)] + it[s \ {Pick(s)}]
    <3>1. CASE s = {}
      BY <2>1, <3>1
    <3>2. CASE s # {}
      <4>1. it[s] = table[p, Pick(s)] + it[s \ {Pick(s)}]
        BY <2>1, <3>2
      <4>2. SpentOf(table, p)[Pick(s)] = table[p, Pick(s)]
        BY <2>2, <3>2
      <4>. QED BY <3>2, <4>1, <4>2
    <3>. QED BY <3>1, <3>2
  <2>. QED BY <2>3 DEF Sums
<1>. QED BY <1>2, <1>5, <1>7, SumOverIs, BilledIsFinite

LEMMA ReceivedIs ==
  ASSUME NEW table, NEW i
  PROVE  ReceivedIn(table, i) = SumOver(ReceivedBy(table, i), Payments)
<1>1. PICK g : Sums(g, ReceivedBy(table, i), Payments)
  BY SumsExist, BilledIsFinite
<1>. DEFINE body(it) == [s \in SUBSET Payments |->
                          IF s = {} THEN 0 ELSE table[Pick(s), i] + it[s \ {Pick(s)}]]
<1>2. ReceivedIn(table, i) = (CHOOSE it : it = body(it))[Payments]
  BY DEF ReceivedIn, MapThenSumSet, MapThenFoldSet, Pick
<1>3. \A s \in SUBSET Payments : s # {} => Pick(s) \in Payments /\ s \ {Pick(s)} \in SUBSET Payments
  BY PickIn
<1>4. \E it : it = body(it)
  <2>. DEFINE it == [s \in SUBSET Payments |-> g[s]]
  <2>1. \A s \in SUBSET Payments : it[s] = IF s = {} THEN 0 ELSE table[Pick(s), i] + it[s \ {Pick(s)}]
    BY <1>1, <1>3 DEF Sums, ReceivedBy
  <2>2. it = body(it)
    BY <2>1
  <2>. QED BY <2>2
<1>5. PICK it : it = CHOOSE h : h = body(h)
  BY Zenon
<1>6. it = body(it)
  BY <1>4, <1>5, Zenon
<1>7. Sums(it, ReceivedBy(table, i), Payments)
  <2>1. \A s \in SUBSET Payments : it[s] = IF s = {} THEN 0 ELSE table[Pick(s), i] + it[s \ {Pick(s)}]
    BY <1>6
  <2>2. \A s \in SUBSET Payments : s # {} => ReceivedBy(table, i)[Pick(s)] = table[Pick(s), i]
    BY <1>3 DEF ReceivedBy
  <2>3. ASSUME NEW s \in SUBSET Payments
        PROVE  it[s] = IF s = {} THEN 0 ELSE ReceivedBy(table, i)[Pick(s)] + it[s \ {Pick(s)}]
    <3>1. CASE s = {}
      BY <2>1, <3>1
    <3>2. CASE s # {}
      <4>1. it[s] = table[Pick(s), i] + it[s \ {Pick(s)}]
        BY <2>1, <3>2
      <4>2. ReceivedBy(table, i)[Pick(s)] = table[Pick(s), i]
        BY <2>2, <3>2
      <4>. QED BY <3>2, <4>1, <4>2
    <3>. QED BY <3>1, <3>2
  <2>. QED BY <2>3 DEF Sums
<1>. QED BY <1>2, <1>5, <1>7, SumOverIs, BilledIsFinite

\* The sum of the items of a request: it allocates to one invoice or to two.
LEMMA SumOfOne == ASSUME NEW item \in Billed \X Amounts PROVE SumOf(<<item>>) = item[2]
<1>. DEFINE body(it) == [s \in SUBSET {1} |->
                          IF s = {} THEN 0
                          ELSE it[s \ {CHOOSE x \in s : \A y \in s : x >= y}]
                               + <<item>>[CHOOSE x \in s : \A y \in s : x >= y][2]]
<1>1. DOMAIN <<item>> = {1}
  OBVIOUS
<1>2. SumOf(<<item>>) = (CHOOSE it : it = body(it))[{1}]
  BY <1>1 DEF SumOf, FoldLeft, MapThenFoldSet, Max
<1>3. item[2] \in Nat
  BY LedgerAssumption
<1>4. (CHOOSE x \in {1} : \A y \in {1} : x >= y) = 1
  OBVIOUS
<1>5. \E it : it = body(it)
  <2>. DEFINE it == [s \in SUBSET {1} |-> IF s = {} THEN 0 ELSE item[2]]
  <2>1. SUBSET {1} = {{}, {1}}
    OBVIOUS
  <2>2. body(it)[{}] = 0 /\ it[{}] = 0
    OBVIOUS
  <2>3. body(it)[{1}] = it[{}] + item[2] /\ it[{1}] = item[2]
    BY <1>4
  <2>4. \A s \in SUBSET {1} : it[s] = body(it)[s]
    <3>. SUFFICES ASSUME NEW s \in SUBSET {1} PROVE it[s] = body(it)[s]
      OBVIOUS
    <3>1. s = {} \/ s = {1}
      BY <2>1
    <3>. HIDE DEF it, body
    <3>2. CASE s = {}
      BY <2>2, <3>2
    <3>3. CASE s = {1}
      BY <1>3, <2>2, <2>3, <3>3
    <3>. QED BY <3>1, <3>2, <3>3
  <2>5. it = body(it)
    BY <2>4
  <2>. QED BY <2>5
<1>6. PICK it : it = CHOOSE h : h = body(h)
  BY Zenon
<1>7. it = body(it)
  BY <1>5, <1>6, Zenon
<1>8. it[{}] = 0
  BY <1>7
<1>9. it[{1}] = it[{}] + item[2]
  BY <1>4, <1>7
<1>. QED BY <1>2, <1>3, <1>6, <1>8, <1>9

LEMMA SumOfTwo ==
  ASSUME NEW a \in Billed \X Amounts, NEW b \in Billed \X Amounts
  PROVE  SumOf(<<a, b>>) = a[2] + b[2]
<1>. DEFINE top(s) == CHOOSE x \in s : \A y \in s : x >= y
            body(it) == [s \in SUBSET {1, 2} |->
                          IF s = {} THEN 0 ELSE it[s \ {top(s)}] + <<a, b>>[top(s)][2]]
<1>1. DOMAIN <<a, b>> = {1, 2}
  OBVIOUS
<1>2. SumOf(<<a, b>>) = (CHOOSE it : it = body(it))[{1, 2}]
  BY <1>1 DEF SumOf, FoldLeft, MapThenFoldSet, Max
<1>3. a[2] \in Nat /\ b[2] \in Nat
  BY LedgerAssumption
<1>4. /\ top({1}) = 1 /\ top({2}) = 2 /\ top({1, 2}) = 2
      /\ {1} \ {1} = {} /\ {2} \ {2} = {} /\ {1, 2} \ {2} = {1}
  OBVIOUS
<1>5. \E it : it = body(it)
  <2>. DEFINE it == [s \in SUBSET {1, 2} |->
                      IF s = {} THEN 0 ELSE IF s = {1} THEN a[2]
                      ELSE IF s = {2} THEN b[2] ELSE a[2] + b[2]]
  <2>1. SUBSET {1, 2} = {{}, {1}, {2}, {1, 2}}
    OBVIOUS
  <2>2. body(it)[{}] = 0 /\ it[{}] = 0
    OBVIOUS
  <2>3. body(it)[{1}] = it[{}] + a[2] /\ it[{1}] = a[2]
    BY <1>4
  <2>4. body(it)[{2}] = it[{}] + b[2] /\ it[{2}] = b[2]
    BY <1>4
  <2>5. body(it)[{1, 2}] = it[{1}] + b[2] /\ it[{1, 2}] = a[2] + b[2]
    BY <1>4
  <2>6. \A s \in SUBSET {1, 2} : it[s] = body(it)[s]
    <3>. SUFFICES ASSUME NEW s \in SUBSET {1, 2} PROVE it[s] = body(it)[s]
      OBVIOUS
    <3>1. s = {} \/ s = {1} \/ s = {2} \/ s = {1, 2}
      BY <2>1
    <3>. HIDE DEF it, body
    <3>2. CASE s = {}
      BY <2>2, <3>2
    <3>3. CASE s = {1}
      BY <1>3, <2>2, <2>3, <3>3
    <3>4. CASE s = {2}
      BY <1>3, <2>2, <2>4, <3>4
    <3>5. CASE s = {1, 2}
      BY <1>3, <2>3, <2>5, <3>5
    <3>. QED BY <3>1, <3>2, <3>3, <3>4, <3>5
  <2>7. it = body(it)
    BY <2>6
  <2>. QED BY <2>7
<1>6. PICK it : it = CHOOSE h : h = body(h)
  BY Zenon
<1>7. it = body(it)
  BY <1>5, <1>6, Zenon
<1>8. it[{}] = 0
  BY <1>7
<1>9. it[{1}] = it[{}] + a[2]
  BY <1>4, <1>7
<1>10. it[{1, 2}] = it[{1}] + b[2]
  <2>1. body(it)[{1, 2}] = it[{1, 2} \ {top({1, 2})}] + <<a, b>>[top({1, 2})][2]
    BY <1>4
  <2>2. body(it)[{1, 2}] = it[{1}] + <<a, b>>[2][2]
    BY <1>4, <2>1
  <2>. HIDE DEF body
  <2>. QED BY <1>7, <2>2
<1>. QED BY <1>2, <1>3, <1>6, <1>8, <1>9, <1>10

Tables == [Payments \X Billed -> Nat]

\* The request allocates nothing to invoice i.
Spares(items, i) == \A k \in DOMAIN items : items[k][1] # i

\* The table new is old with the items of one request for payment p added.
Adds(items, p, old, new) ==
  /\ \A q \in Payments, i \in Billed : q # p \/ Spares(items, i) => new[q, i] = old[q, i]
  /\ \A k \in DOMAIN items : old[p, items[k][1]] = 0 /\ new[p, items[k][1]] = items[k][2]

\* A request allocates to one invoice or to two different ones.
LEMMA ItemsAre ==
  ASSUME NEW items \in Allocations
  PROVE  \/ \E a \in Billed \X Amounts : items = <<a>> /\ DOMAIN items = {1}
         \/ \E a \in Billed \X Amounts, b \in Billed \X Amounts :
              items = <<a, b>> /\ DOMAIN items = {1, 2} /\ a[1] # b[1]
<1>1. CASE items \in {<<item>> : item \in Billed \X Amounts}
  <2>1. PICK a \in Billed \X Amounts : items = <<a>>
    BY <1>1
  <2>2. DOMAIN items = {1}
    BY <2>1
  <2>. QED BY <2>1, <2>2
<1>2. CASE items \in {s \in (Billed \X Amounts) \X (Billed \X Amounts) : s[1][1] # s[2][1]}
  <2>1. /\ items = <<items[1], items[2]>> /\ items[1][1] # items[2][1]
        /\ items[1] \in Billed \X Amounts /\ items[2] \in Billed \X Amounts
    BY <1>2
  <2>2. DOMAIN items = {1, 2}
    BY <2>1
  <2>. QED BY <2>1, <2>2
<1>. QED BY <1>1, <1>2 DEF Allocations

\* Sums over equal rows and columns are equal.
LEMMA SpentSame ==
  ASSUME NEW old, NEW new, NEW q, \A i \in Billed : new[q, i] = old[q, i]
  PROVE  SpentIn(new, q) = SpentIn(old, q)
<1>1. SpentOf(new, q) = SpentOf(old, q)
  BY DEF SpentOf
<1>. QED BY <1>1, SpentIs

LEMMA ReceivedSame ==
  ASSUME NEW old, NEW new, NEW i, \A q \in Payments : new[q, i] = old[q, i]
  PROVE  ReceivedIn(new, i) = ReceivedIn(old, i)
<1>1. ReceivedBy(new, i) = ReceivedBy(old, i)
  BY DEF ReceivedBy
<1>. QED BY <1>1, ReceivedIs

LEMMA SumsAreNat ==
  ASSUME NEW table \in Tables
  PROVE  /\ \A p \in Payments : SpentIn(table, p) \in Nat
         /\ \A i \in Billed : ReceivedIn(table, i) \in Nat
<1>1. ASSUME NEW p \in Payments PROVE SpentIn(table, p) \in Nat
  <2>1. \A i \in Billed : SpentOf(table, p)[i] \in Nat
    BY DEF SpentOf, Tables
  <2>. QED BY <2>1, SpentIs, SumOverNat, BilledIsFinite
<1>2. ASSUME NEW i \in Billed PROVE ReceivedIn(table, i) \in Nat
  <2>1. \A p \in Payments : ReceivedBy(table, i)[p] \in Nat
    BY DEF ReceivedBy, Tables
  <2>. QED BY <2>1, ReceivedIs, SumOverNat, BilledIsFinite
<1>. QED BY <1>1, <1>2

LEMMA ZeroSums ==
  ASSUME NEW table
  PROVE  /\ \A p : (\A i \in Billed : table[p, i] = 0) => SpentIn(table, p) = 0
         /\ \A i : (\A p \in Payments : table[p, i] = 0) => ReceivedIn(table, i) = 0
<1>1. ASSUME NEW p, \A i \in Billed : table[p, i] = 0 PROVE SpentIn(table, p) = 0
  <2>1. \A i \in Billed : SpentOf(table, p)[i] = 0
    BY <1>1 DEF SpentOf
  <2>. QED BY <2>1, SpentIs, SumOverZero, BilledIsFinite
<1>2. ASSUME NEW i, \A p \in Payments : table[p, i] = 0 PROVE ReceivedIn(table, i) = 0
  <2>1. \A p \in Payments : ReceivedBy(table, i)[p] = 0
    BY <1>2 DEF ReceivedBy
  <2>. QED BY <2>1, ReceivedIs, SumOverZero, BilledIsFinite
<1>. QED BY <1>1, <1>2

\* One entry of the table is raised from zero.
RaisesOne(old, new, p, i) ==
  /\ old[p, i] = 0
  /\ \A j \in Billed \ {i} : new[p, j] = old[p, j]
RaisesOneReceived(old, new, p, i) ==
  /\ old[p, i] = 0
  /\ \A q \in Payments \ {p} : new[q, i] = old[q, i]

LEMMA Less == \A m, n \in Nat : \A s, z : z = 0 /\ s = m + n - z => s = m + n
OBVIOUS

LEMMA SpentRaised ==
  ASSUME NEW old \in Tables, NEW new \in Tables, NEW p \in Payments, NEW i \in Billed,
         RaisesOne(old, new, p, i)
  PROVE  SpentIn(new, p) = SpentIn(old, p) + new[p, i]
<1>1. PICK e : e = SpentOf(old, p) BY Zenon
<1>2. PICK f : f = SpentOf(new, p) BY Zenon
<1>3. /\ \A j \in Billed : e[j] \in Nat /\ f[j] \in Nat
      /\ \A j \in Billed \ {i} : f[j] = e[j]
      /\ e[i] = 0 /\ f[i] = new[p, i]
  BY <1>1, <1>2 DEF SpentOf, Tables, RaisesOne
<1>4. SumOver(e, Billed) \in Nat
  BY <1>3, SumOverNat, BilledIsFinite
<1>5. SumOver(f, Billed) = SumOver(e, Billed) + f[i] - e[i]
  BY <1>3, SumOverChanged, BilledIsFinite, ZenonT(30)
<1>6. f[i] \in Nat
  BY <1>3
<1>7. SumOver(f, Billed) = SumOver(e, Billed) + new[p, i]
  BY <1>3, <1>4, <1>5, <1>6, Less
<1>. QED BY <1>1, <1>2, <1>7, SpentIs

LEMMA ReceivedRaised ==
  ASSUME NEW old \in Tables, NEW new \in Tables, NEW p \in Payments, NEW i \in Billed,
         RaisesOneReceived(old, new, p, i)
  PROVE  ReceivedIn(new, i) = ReceivedIn(old, i) + new[p, i]
<1>1. PICK e : e = ReceivedBy(old, i) BY Zenon
<1>2. PICK f : f = ReceivedBy(new, i) BY Zenon
<1>3. /\ \A q \in Payments : e[q] \in Nat /\ f[q] \in Nat
      /\ \A q \in Payments \ {p} : f[q] = e[q]
      /\ e[p] = 0 /\ f[p] = new[p, i]
  BY <1>1, <1>2 DEF ReceivedBy, Tables, RaisesOneReceived
<1>4. SumOver(e, Payments) \in Nat
  BY <1>3, SumOverNat, BilledIsFinite
<1>5. SumOver(f, Payments) = SumOver(e, Payments) + f[p] - e[p]
  BY <1>3, SumOverChanged, BilledIsFinite, ZenonT(30)
<1>6. f[p] \in Nat
  BY <1>3
<1>7. SumOver(f, Payments) = SumOver(e, Payments) + new[p, i]
  BY <1>3, <1>4, <1>5, <1>6, Less
<1>. QED BY <1>1, <1>2, <1>7, ReceivedIs

\* What a request allocates is spent by its payment and received by its invoices.
LEMMA AllocationSums ==
  ASSUME NEW items \in Allocations, NEW p \in Payments, NEW old \in Tables, NEW new \in Tables,
         Adds(items, p, old, new)
  PROVE  /\ SpentIn(new, p) = SpentIn(old, p) + SumOf(items)
         /\ \A q \in Payments \ {p} : SpentIn(new, q) = SpentIn(old, q)
         /\ \A k \in DOMAIN items :
              ReceivedIn(new, items[k][1]) = ReceivedIn(old, items[k][1]) + items[k][2]
         /\ \A i \in Billed : Spares(items, i) => ReceivedIn(new, i) = ReceivedIn(old, i)
<1>1. SpentIn(new, p) = SpentIn(old, p) + SumOf(items)
  <2>1. CASE \E a \in Billed \X Amounts : items = <<a>> /\ DOMAIN items = {1}
    <3>1. PICK a \in Billed \X Amounts : items = <<a>> /\ DOMAIN items = {1}
      BY <2>1
    <3>. PICK i \in Billed : i = a[1]
      OBVIOUS
    <3>2. items[1] = a /\ SumOf(items) = a[2]
      BY <3>1, SumOfOne
    <3>3. old[p, i] = 0 /\ new[p, i] = a[2]
      BY <3>1, <3>2 DEF Adds
    <3>4. \A j \in Billed \ {i} : new[p, j] = old[p, j]
      <4>1. \A j \in Billed \ {i} : Spares(items, j)
        BY <3>1, <3>2 DEF Spares
      <4>. QED BY <4>1 DEF Adds
    <3>5. SpentIn(new, p) = SpentIn(old, p) + new[p, i]
      BY <3>3, <3>4, SpentRaised DEF RaisesOne
    <3>. QED BY <3>2, <3>3, <3>5
  <2>2. CASE \E a \in Billed \X Amounts, b \in Billed \X Amounts :
               items = <<a, b>> /\ DOMAIN items = {1, 2} /\ a[1] # b[1]
    <3>1. PICK a \in Billed \X Amounts, b \in Billed \X Amounts :
            items = <<a, b>> /\ DOMAIN items = {1, 2} /\ a[1] # b[1]
      BY <2>2
    <3>. PICK i \in Billed : i = a[1]
      OBVIOUS
    <3>. PICK j \in Billed : j = b[1]
      OBVIOUS
    <3>2. items[1] = a /\ items[2] = b /\ SumOf(items) = a[2] + b[2] /\ i # j
      BY <3>1, SumOfTwo
    <3>3. old[p, i] = 0 /\ new[p, i] = a[2] /\ old[p, j] = 0 /\ new[p, j] = b[2]
      BY <3>1, <3>2 DEF Adds
    <3>4. \A m \in Billed \ {i, j} : new[p, m] = old[p, m]
      <4>1. \A m \in Billed \ {i, j} : Spares(items, m)
        BY <3>1, <3>2 DEF Spares
      <4>. QED BY <4>1 DEF Adds
    <3>. PICK half : half = [old EXCEPT ![<<p, i>>] = a[2]]
      BY Zenon
    <3>5. /\ half \in Tables /\ half[p, i] = a[2] /\ half[p, j] = 0
          /\ \A m \in Billed \ {i} : half[p, m] = old[p, m]
      BY <3>2, <3>3, LedgerAssumption DEF Tables
    <3>6. \A m \in Billed \ {j} : new[p, m] = half[p, m]
      BY <3>3, <3>4, <3>5
    <3>7. SpentIn(half, p) = SpentIn(old, p) + a[2]
      <4>1. RaisesOne(old, half, p, i)
        BY <3>3, <3>5 DEF RaisesOne
      <4>2. SpentIn(half, p) = SpentIn(old, p) + half[p, i]
        BY <3>5, <4>1, SpentRaised, ZenonT(30)
      <4>. QED BY <3>5, <4>2
    <3>8. SpentIn(new, p) = SpentIn(half, p) + b[2]
      <4>1. RaisesOne(half, new, p, j)
        BY <3>5, <3>6 DEF RaisesOne
      <4>2. SpentIn(new, p) = SpentIn(half, p) + new[p, j]
        <5>1. half \in Tables
          BY <3>5
        <5>. QED BY <4>1, <5>1, SpentRaised, ZenonT(30)
      <4>. QED BY <3>3, <4>2
    <3>9. SpentIn(old, p) \in Nat /\ a[2] \in Nat /\ b[2] \in Nat
      BY SumsAreNat, LedgerAssumption
    <3>. QED BY <3>2, <3>7, <3>8, <3>9
  <2>. QED BY <2>1, <2>2, ItemsAre
<1>2. ASSUME NEW q \in Payments \ {p} PROVE SpentIn(new, q) = SpentIn(old, q)
  BY SpentSame DEF Adds
<1>3. ASSUME NEW k \in DOMAIN items
      PROVE  ReceivedIn(new, items[k][1]) = ReceivedIn(old, items[k][1]) + items[k][2]
  <2>1. items[k][1] \in Billed
    BY <1>3, ItemsAre
  <2>. PICK i \in Billed : i = items[k][1]
    BY <2>1
  <2>2. old[p, i] = 0 /\ new[p, i] = items[k][2] /\ \A q \in Payments \ {p} : new[q, i] = old[q, i]
    BY DEF Adds
  <2>3. ReceivedIn(new, i) = ReceivedIn(old, i) + new[p, i]
    BY <2>2, ReceivedRaised DEF RaisesOneReceived
  <2>. QED BY <2>2, <2>3
<1>4. ASSUME NEW i \in Billed, Spares(items, i) PROVE ReceivedIn(new, i) = ReceivedIn(old, i)
  BY <1>4, ReceivedSame DEF Adds
<1>. QED BY <1>1, <1>2, <1>3, <1>4

\* What the request read of the invoice of x, and computed from it, is still so.
Agrees(x) ==
  /\ x.paid = invoices[x.invoice].paid + x.amount
  /\ x.paid <= invoices[x.invoice].total
  /\ x.was = invoices[x.invoice].status
  /\ x.was \notin {"cancelled", "void"} /\ x.status \notin {"cancelled", "void"}

\* A request to allocate: the items it has read are those it was asked for, and they and the
\* payment are as it read them, unless it is behind on the row.
AllocRequest(r) ==
  /\ r.items \in Allocations
  /\ Len(r.read) <= Len(r.items)
  /\ \A k \in DOMAIN r.read :
       /\ r.read[k].invoice = r.items[k][1] /\ r.read[k].amount = r.items[k][2]
       /\ r.read[k].invoice \in DOMAIN invoices
       /\ r.read[k].invoice \notin r.behind => Agrees(r.read[k])
  /\ payments[r.payment].status = "completed"
  /\ r.payment \notin r.behind => payments[r.payment].allocated = r.allocated
  /\ r.allocated + SumOf(r.items) <= payments[r.payment].amount

\* A request to change a status.
UpdateRequest(r) ==
  /\ r.invoice \in DOMAIN invoices
  /\ r.behind = {} =>
       /\ r.was = invoices[r.invoice].status
       /\ r.status # r.was /\ r.status \in {"cancelled", "void"} => invoices[r.invoice].paid = 0

InOrder(r) ==
  /\ r.pc = "numbered" => r.number <= MaxInvoices
  /\ r.pc = "allocating" => AllocRequest(r)
  /\ r.pc = "updating" => UpdateRequest(r)

\* Nothing is allocated from a payment or to an invoice that is not there.
Unallocated ==
  \A p \in Payments, i \in Billed :
    payments[p].status = "absent" \/ i \notin DOMAIN invoices => alloc[p, i] = 0

\* The inductive invariant.
BooksInv == TypeOK /\ (\A w \in Workers : InOrder(req[w])) /\ Unallocated /\ LedgerBalanced

-----------------------------------------------------------------------------
\* What r becomes when another request commits changes of rows.
Follows(s, r, rows) ==
  /\ s \in Requests /\ s.pc = r.pc
  /\ r.pc = "numbered" => s.number = r.number
  /\ r.pc = "allocating" =>
       /\ s.payment = r.payment /\ s.allocated = r.allocated /\ s.items = r.items /\ s.read = r.read
       /\ r.behind \subseteq s.behind
       /\ r.payment \in rows => r.payment \in s.behind
       /\ \A k \in DOMAIN r.read : r.read[k].invoice \in rows => r.read[k].invoice \in s.behind
  /\ r.pc = "updating" =>
       /\ s.invoice = r.invoice /\ s.was = r.was /\ s.status = r.status
       /\ r.behind \subseteq s.behind
       /\ r.invoice \in rows => r.invoice \in s.behind

\* What a request has in its fields.
LEMMA AllocatingFields ==
  ASSUME NEW r \in Requests, r.pc = "allocating"
  PROVE  /\ r \in [pc : {"allocating"}, payment : Payments, allocated : Nat,
                   items : Seq(Billed \X Amounts), read : Seq(ItemsRead), behind : SUBSET Rows]
         /\ r.payment \in Payments /\ r.allocated \in Nat /\ r.items \in Seq(Billed \X Amounts)
         /\ r.read \in Seq(ItemsRead) /\ r.behind \in SUBSET Rows
BY DEF Requests, Idle

LEMMA UpdatingFields ==
  ASSUME NEW r \in Requests, r.pc = "updating"
  PROVE  /\ r \in [pc : {"updating"}, invoice : Billed, was : InvoiceStatuses,
                   status : InvoiceStatuses, behind : SUBSET Rows]
         /\ r.invoice \in Billed /\ r.was \in InvoiceStatuses /\ r.status \in InvoiceStatuses
         /\ r.behind \in SUBSET Rows
BY DEF Requests, Idle

LEMMA ReadFields ==
  ASSUME NEW r \in Requests, r.pc = "allocating", NEW k \in DOMAIN r.read
  PROVE  /\ r.read[k] \in ItemsRead
         /\ r.read[k].invoice \in Billed /\ r.read[k].amount \in Amounts
         /\ r.read[k].was \in InvoiceStatuses /\ r.read[k].status \in InvoiceStatuses
         /\ r.read[k].paid \in Nat
<1>1. r.read \in Seq(ItemsRead)
  BY AllocatingFields
<1>2. r.read[k] \in ItemsRead
  BY <1>1
<1>. QED BY <1>2 DEF ItemsRead

\* A commit ends its request, and the others fall behind on the rows that it changed.
LEMMA CommitMoves ==
  ASSUME req \in [Workers -> Requests], NEW w \in Workers, NEW rows, Commits(w, rows)
  PROVE  /\ req' \in [Workers -> Requests] /\ req'[w] = Idle
         /\ \A x \in Workers \ {w} : Follows(req'[x], req[x], rows)
<1>1. req'[w] = Idle /\ req' = [x \in Workers |-> req'[x]] /\ Idle \in Requests
  BY DEF Commits, Requests
<1>2. ASSUME NEW x \in Workers \ {w} PROVE Follows(req'[x], req[x], rows)
  <2>. PICK r \in Requests : r = req[x]
    OBVIOUS
  <2>. PICK s : s = req'[x] BY Zenon
  <2>1. CASE r.pc = "allocating"
    <3>. PICK more : more = rows \cap ({r.payment} \cup {r.read[k].invoice : k \in DOMAIN r.read})
      BY Zenon
    <3>1. s = [r EXCEPT !.behind = r.behind \cup more]
      BY <2>1 DEF Commits
    <3>2. more \subseteq Rows
      BY <2>1, AllocatingFields, ReadFields DEF Rows
    <3>3. /\ r \in [pc : {"allocating"}, payment : Payments, allocated : Nat,
                    items : Seq(Billed \X Amounts), read : Seq(ItemsRead), behind : SUBSET Rows]
          /\ r.behind \cup more \in SUBSET Rows
      BY <2>1, <3>2, AllocatingFields
    <3>4. /\ s \in [pc : {"allocating"}, payment : Payments, allocated : Nat,
                    items : Seq(Billed \X Amounts), read : Seq(ItemsRead), behind : SUBSET Rows]
          /\ s.pc = r.pc /\ s.payment = r.payment /\ s.allocated = r.allocated /\ s.items = r.items
          /\ s.read = r.read /\ s.behind = r.behind \cup more
      BY <3>1, <3>3
    <3>5. s \in Requests
      BY <3>4 DEF Requests
    <3>6. /\ r.payment \in rows => r.payment \in more
          /\ \A k \in DOMAIN r.read : r.read[k].invoice \in rows => r.read[k].invoice \in more
      OBVIOUS
    <3>. QED BY <2>1, <3>4, <3>5, <3>6 DEF Follows
  <2>2. CASE r.pc = "updating"
    <3>. PICK more : more = rows \cap {r.invoice} BY Zenon
    <3>1. s = [r EXCEPT !.behind = r.behind \cup more]
      BY <2>2 DEF Commits
    <3>2. /\ r \in [pc : {"updating"}, invoice : Billed, was : InvoiceStatuses,
                    status : InvoiceStatuses, behind : SUBSET Rows]
          /\ r.behind \cup more \in SUBSET Rows
      BY <2>2, UpdatingFields DEF Rows
    <3>3. /\ s \in [pc : {"updating"}, invoice : Billed, was : InvoiceStatuses,
                    status : InvoiceStatuses, behind : SUBSET Rows]
          /\ s.pc = r.pc /\ s.invoice = r.invoice /\ s.was = r.was /\ s.status = r.status
          /\ s.behind = r.behind \cup more
      BY <3>1, <3>2
    <3>4. s \in Requests
      BY <3>3 DEF Requests
    <3>. QED BY <2>2, <3>3, <3>4 DEF Follows
  <2>3. CASE r.pc \notin {"allocating", "updating"}
    <3>1. s = r
      BY <2>3 DEF Commits
    <3>. QED BY <2>3, <3>1 DEF Follows
  <2>. QED BY <2>1, <2>2, <2>3
<1>3. \A x \in Workers : req'[x] \in Requests
  BY <1>1, <1>2 DEF Follows
<1>. QED BY <1>1, <1>2, <1>3

\* The rows a commit does not name, and what no commit changes.
Keeps(rows) ==
  /\ \A i \in DOMAIN invoices :
       i \in DOMAIN invoices' /\ (i \notin rows => invoices'[i] = invoices[i])
  /\ \A p \in Payments : payments[p].status = "completed" =>
       /\ payments'[p].status = "completed" /\ payments'[p].amount = payments[p].amount
       /\ p \notin rows => payments'[p].allocated = payments[p].allocated

\* Requests that fall behind stay in order.
LEMMA OthersInOrder ==
  ASSUME NEW x, NEW rows, req[x] \in Requests, InOrder(req[x]),
         Follows(req'[x], req[x], rows), Keeps(rows)
  PROVE  InOrder(req[x])'
<1>. PICK r \in Requests : r = req[x]
  OBVIOUS
<1>. PICK s \in Requests : s = req'[x]
  BY DEF Follows
<1>0. Follows(s, r, rows) /\ InOrder(r)
  OBVIOUS
<1>1. s.pc = "numbered" => s.number <= MaxInvoices
  BY <1>0 DEF Follows, InOrder
<1>2. CASE s.pc = "allocating"
  <2>1. /\ s.payment = r.payment /\ s.allocated = r.allocated /\ s.items = r.items /\ s.read = r.read
        /\ r.behind \subseteq s.behind
        /\ r.payment \in rows => r.payment \in s.behind
        /\ \A k \in DOMAIN r.read : r.read[k].invoice \in rows => r.read[k].invoice \in s.behind
        /\ AllocRequest(r)
    BY <1>0, <1>2 DEF Follows, InOrder
  <2>2. r.payment \in Payments /\ r.pc = "allocating"
    BY <1>0, <1>2, AllocatingFields DEF Follows
  <2>3. ASSUME NEW k \in DOMAIN s.read
        PROVE  /\ s.read[k].invoice = s.items[k][1] /\ s.read[k].amount = s.items[k][2]
               /\ s.read[k].invoice \in DOMAIN invoices'
               /\ s.read[k].invoice \notin s.behind =>
                    /\ s.read[k].paid = invoices'[s.read[k].invoice].paid + s.read[k].amount
                    /\ s.read[k].paid <= invoices'[s.read[k].invoice].total
                    /\ s.read[k].was = invoices'[s.read[k].invoice].status
                    /\ s.read[k].was \notin {"cancelled", "void"}
                    /\ s.read[k].status \notin {"cancelled", "void"}
    <3>. PICK y : y = s.read[k] BY Zenon
    <3>1. /\ y.invoice = s.items[k][1] /\ y.amount = s.items[k][2]
          /\ y.invoice \in DOMAIN invoices
          /\ y.invoice \notin r.behind => Agrees(y)
      BY <2>1 DEF AllocRequest
    <3>2. y.invoice \in DOMAIN invoices' /\ (y.invoice \notin rows => invoices'[y.invoice] = invoices[y.invoice])
      BY <3>1 DEF Keeps
    <3>3. y.invoice \notin s.behind => y.invoice \notin r.behind /\ y.invoice \notin rows
      BY <2>1
    <3>. QED BY <3>1, <3>2, <3>3 DEF Agrees
  <2>4. /\ payments'[s.payment].status = "completed"
        /\ s.payment \notin s.behind => payments'[s.payment].allocated = s.allocated
        /\ s.allocated + SumOf(s.items) <= payments'[s.payment].amount
    BY <2>1, <2>2 DEF AllocRequest, Keeps
  <2>. QED BY <1>2, <2>1, <2>3, <2>4, ZenonT(30) DEF InOrder, AllocRequest, Agrees
<1>3. CASE s.pc = "updating"
  <2>1. /\ s.invoice = r.invoice /\ s.was = r.was /\ s.status = r.status
        /\ s.behind = {} => r.behind = {} /\ r.invoice \notin rows
        /\ UpdateRequest(r)
    BY <1>0, <1>3 DEF Follows, InOrder
  <2>2. s.invoice \in DOMAIN invoices' /\ (s.invoice \notin rows => invoices'[s.invoice] = invoices[s.invoice])
    BY <2>1 DEF Keeps, UpdateRequest
  <2>. QED BY <1>3, <2>1, <2>2 DEF InOrder, UpdateRequest
<1>. QED BY <1>1, <1>2, <1>3 DEF InOrder

\* The ledger balances by any table of its allocations.
LEMMA BalancedBySums ==
  LedgerBalanced <=>
    /\ \A p \in Payments : ~payments[p].disturbed =>
         /\ payments[p].allocated = SpentIn(alloc, p)
         /\ SpentIn(alloc, p) <= payments[p].amount
    /\ \A i \in Billed \cap DOMAIN invoices : ~invoices[i].disturbed =>
         /\ invoices[i].paid = ReceivedIn(alloc, i)
         /\ ReceivedIn(alloc, i) <= invoices[i].total
         /\ invoices[i].status \in {"cancelled", "void"} => ReceivedIn(alloc, i) = 0
BY DEF LedgerBalanced, Spent, Received, SpentIn, ReceivedIn

\* The sums of the next table are those of the next state.
LEMMA SumsPrimed ==
  /\ \A p : Spent(p)' = SpentIn(alloc', p)
  /\ \A i : Received(i)' = ReceivedIn(alloc', i)
BY DEF Spent, Received, SpentIn, ReceivedIn, MapThenSumSet, MapThenFoldSet

LEMMA BalancedBySumsNext ==
  LedgerBalanced' <=>
    /\ \A p \in Payments : ~payments'[p].disturbed =>
         /\ payments'[p].allocated = SpentIn(alloc', p)
         /\ SpentIn(alloc', p) <= payments'[p].amount
    /\ \A i \in Billed \cap DOMAIN invoices' : ~invoices'[i].disturbed =>
         /\ invoices'[i].paid = ReceivedIn(alloc', i)
         /\ ReceivedIn(alloc', i) <= invoices'[i].total
         /\ invoices'[i].status \in {"cancelled", "void"} => ReceivedIn(alloc', i) = 0
BY SumsPrimed DEF LedgerBalanced

\* A request that only reads.
LEMMA Reads ==
  ASSUME BooksInv, NEW w \in Workers, NEW r \in Requests, Becomes(w, r), InOrder(r),
         UNCHANGED <<invoices, payments, alloc, usage>>
  PROVE  BooksInv'
<1>1. req' \in [Workers -> Requests] /\ req'[w] = r /\ \A x \in Workers \ {w} : req'[x] = req[x]
  BY DEF Becomes, BooksInv, TypeOK
<1>2. TypeOK'
  BY <1>1 DEF BooksInv, TypeOK
<1>3. \A x \in Workers : InOrder(req'[x])
  BY <1>1 DEF BooksInv
<1>4. \A x \in Workers : InOrder(req[x])'
  BY <1>3 DEF InOrder, AllocRequest, UpdateRequest, Agrees
<1>5. Unallocated' /\ LedgerBalanced'
  BY BalancedBySums, BalancedBySumsNext DEF BooksInv, Unallocated
<1>. QED BY <1>2, <1>4, <1>5 DEF BooksInv

\* The requests that only read.
LEMMA SimpleReadsKeep ==
  ASSUME BooksInv, NEW w \in Workers, CheckLimit(w) \/ TakeNumber(w) \/ Fail(w)
  PROVE  BooksInv'
<1>1. CASE CheckLimit(w)
  <2>1. [pc |-> "within_limit"] \in Requests /\ InOrder([pc |-> "within_limit"])
    BY DEF Requests, InOrder
  <2>. QED BY <1>1, <2>1, Reads DEF CheckLimit
<1>2. CASE TakeNumber(w)
  <2>. PICK n \in Nat : n = Len(invoices) + 1 /\ n <= MaxInvoices
    BY <1>2, LedgerAssumption DEF TakeNumber, BooksInv, TypeOK
  <2>. PICK r : r = [pc |-> "numbered", number |-> n] BY Zenon
  <2>1. r \in Requests /\ InOrder(r)
    BY DEF Requests, InOrder
  <2>. QED BY <1>2, <2>1, Reads DEF TakeNumber
<1>3. CASE Fail(w)
  <2>1. Idle \in Requests /\ InOrder(Idle)
    BY DEF Requests, InOrder, Idle
  <2>. QED BY <1>3, <2>1, Reads DEF Fail
<1>. QED BY <1>1, <1>2, <1>3

LEMMA TransitionIs ==
  ASSUME NEW row \in InvoiceRows, NEW status \in InvoiceStatuses, NEW late \in BOOLEAN
  PROVE  /\ Transition(row, status, late) \in InvoiceStatuses
         /\ Transition(row, status, late) \in {"cancelled", "void"} =>
              Transition(row, status, late) = status
BY DEF Transition, Refreshed, InvoiceStatuses

LEMMA ReadUpdateKeeps ==
  ASSUME BooksInv, NEW w \in Workers, ReadUpdate(w)
  PROVE  BooksInv'
<1>1. PICK i \in Billed \cap DOMAIN invoices, asked \in Asked \cup {NoStatus}, late \in BOOLEAN :
        LET status == IF asked = NoStatus THEN invoices[i].status ELSE asked IN
        /\ asked \in {"cancelled", "void"} => invoices[i].paid = 0
        /\ Becomes(w, [pc |-> "updating", invoice |-> i, was |-> invoices[i].status,
                       status |-> Transition(invoices[i], status, late), behind |-> {}])
        /\ UNCHANGED <<invoices, payments, alloc, usage>>
  BY DEF ReadUpdate
<1>. PICK status : status = IF asked = NoStatus THEN invoices[i].status ELSE asked BY Zenon
<1>2. invoices[i] \in InvoiceRows /\ invoices[i].status \in InvoiceStatuses /\ status \in InvoiceStatuses
  <2>1. invoices \in Seq(InvoiceRows)
    BY DEF BooksInv, TypeOK
  <2>2. invoices[i] \in InvoiceRows
    BY <2>1
  <2>. QED BY <2>2, LedgerAssumption DEF InvoiceRows
<1>. PICK next : next = Transition(invoices[i], status, late) BY Zenon
<1>3. next \in InvoiceStatuses /\ (next \in {"cancelled", "void"} => next = status)
  BY <1>2, TransitionIs
<1>. PICK r : r = [pc |-> "updating", invoice |-> i, was |-> invoices[i].status, status |-> next,
                   behind |-> {}]
  BY Zenon
<1>4. r \in [pc : {"updating"}, invoice : Billed, was : InvoiceStatuses, status : InvoiceStatuses,
             behind : SUBSET Rows]
  BY <1>2, <1>3
<1>5. r \in Requests
  BY <1>4 DEF Requests
<1>6. /\ r.pc = "updating" /\ r.invoice = i /\ r.was = invoices[i].status /\ r.status = next
  OBVIOUS
<1>7. InOrder(r)
  BY <1>1, <1>3, <1>6 DEF InOrder, UpdateRequest
<1>. QED BY <1>1, <1>5, <1>7, Reads

LEMMA PaymentFields ==
  ASSUME NEW row \in PaymentRows
  PROVE  row.amount \in Nat /\ row.allocated \in Nat /\ row.disturbed \in BOOLEAN
<1>1. row.amount \in Totals \cup {0} /\ row.allocated \in Nat /\ row.disturbed \in BOOLEAN
  BY DEF PaymentRows
<1>2. Totals \cup {0} \subseteq Nat
  BY LedgerAssumption
<1>. QED BY <1>1, <1>2

LEMMA InvoiceFields ==
  ASSUME NEW row \in InvoiceRows
  PROVE  /\ row.status \in InvoiceStatuses /\ row.total \in Totals /\ row.total \in Nat
         /\ row.paid \in Nat /\ row.disturbed \in BOOLEAN
<1>1. /\ row.status \in InvoiceStatuses /\ row.total \in Totals
      /\ row.paid \in Nat /\ row.disturbed \in BOOLEAN
  BY DEF InvoiceRows
<1>. QED BY <1>1, LedgerAssumption

LEMMA SumOfNat == ASSUME NEW items \in Allocations PROVE SumOf(items) \in Nat
<1>1. ASSUME NEW a \in Billed \X Amounts, NEW b \in Billed \X Amounts
      PROVE  a[2] \in Nat /\ a[2] + b[2] \in Nat
  <2>1. a[2] \in Nat /\ b[2] \in Nat
    BY LedgerAssumption
  <2>. QED BY <2>1
<1>. QED BY <1>1, ItemsAre, SumOfOne, SumOfTwo

LEMMA ReadPaymentKeeps ==
  ASSUME BooksInv, NEW w \in Workers, ReadPayment(w)
  PROVE  BooksInv'
<1>1. PICK p \in Payments, items \in Allocations :
        /\ payments[p].status = "completed"
        /\ SumOf(items) <= payments[p].amount - payments[p].allocated
        /\ Becomes(w, [pc |-> "allocating", payment |-> p, allocated |-> payments[p].allocated,
                       items |-> items, read |-> <<>>, behind |-> {}])
        /\ UNCHANGED <<invoices, payments, alloc, usage>>
  BY DEF ReadPayment
<1>2. payments[p].allocated \in Nat /\ payments[p].amount \in Nat /\ SumOf(items) \in Nat
  <2>1. payments[p] \in PaymentRows
    BY DEF BooksInv, TypeOK
  <2>2. payments[p].allocated \in Nat /\ payments[p].amount \in Nat
    BY <2>1, PaymentFields
  <2>. QED BY <2>2, SumOfNat
<1>3. items \in Seq(Billed \X Amounts) /\ Len(items) \in Nat
  <2>1. CASE \E a \in Billed \X Amounts : items = <<a>>
    BY <2>1
  <2>2. CASE \E a \in Billed \X Amounts, b \in Billed \X Amounts : items = <<a, b>>
    BY <2>2
  <2>. QED BY <2>1, <2>2, ItemsAre
<1>. PICK r : r = [pc |-> "allocating", payment |-> p, allocated |-> payments[p].allocated,
                   items |-> items, read |-> <<>>, behind |-> {}]
  BY Zenon
<1>4. r \in [pc : {"allocating"}, payment : Payments, allocated : Nat, items : Seq(Billed \X Amounts),
             read : Seq(ItemsRead), behind : SUBSET Rows]
  <2>1. <<>> \in Seq(ItemsRead)
    OBVIOUS
  <2>. QED BY <1>2, <1>3, <2>1
<1>5. r \in Requests
  BY <1>4 DEF Requests
<1>6. /\ r.pc = "allocating" /\ r.payment = p /\ r.allocated = payments[p].allocated
      /\ r.items = items /\ r.read = <<>> /\ DOMAIN r.read = {} /\ Len(r.read) = 0
  OBVIOUS
<1>7. InOrder(r)
  <2>1. r.allocated + SumOf(r.items) <= payments[r.payment].amount
    BY <1>1, <1>2, <1>6
  <2>. QED BY <1>1, <1>3, <1>6, <2>1 DEF InOrder, AllocRequest
<1>. QED BY <1>1, <1>5, <1>7, Reads

LEMMA InvoicesAre ==
  ASSUME BooksInv
  PROVE  /\ invoices \in Seq(InvoiceRows) /\ Len(invoices) \in Nat
         /\ DOMAIN invoices = 1 .. Len(invoices)
         /\ \A i \in DOMAIN invoices : invoices[i] \in InvoiceRows
<1>1. invoices \in Seq(InvoiceRows)
  BY DEF BooksInv, TypeOK
<1>. QED BY <1>1

LEMMA ReadInvoiceKeeps ==
  ASSUME BooksInv, NEW w \in Workers, ReadInvoice(w)
  PROVE  BooksInv'
<1>20. PICK r \in Requests : r = req[w]
  BY DEF BooksInv, TypeOK
<1>0. r.pc = "allocating" /\ AllocRequest(r) /\ Len(r.read) < Len(r.items)
  BY <1>20 DEF ReadInvoice, BooksInv, InOrder
<1>21. PICK item : item = r.items[Len(r.read) + 1] BY Zenon
<1>22. PICK i : i = item[1] BY Zenon
<1>1. PICK late \in BOOLEAN :
        /\ i \in DOMAIN invoices
        /\ invoices[i].status \notin {"draft", "cancelled", "void"}
        /\ item[2] <= invoices[i].total - invoices[i].paid
        /\ Becomes(w, [r EXCEPT !.read = Append(@,
             [invoice |-> i, amount |-> item[2], was |-> invoices[i].status,
              status |-> Settled(invoices[i], invoices[i].paid + item[2], late),
              paid |-> invoices[i].paid + item[2]])])
        /\ UNCHANGED <<invoices, payments, alloc, usage>>
  BY <1>20, <1>21, <1>22 DEF ReadInvoice
<1>2. invoices[i] \in InvoiceRows
  BY <1>1, InvoicesAre
<1>3. /\ invoices[i].status \in InvoiceStatuses /\ invoices[i].total \in Nat /\ invoices[i].paid \in Nat
  BY <1>2, InvoiceFields
<1>4. /\ r \in [pc : {"allocating"}, payment : Payments, allocated : Nat, items : Seq(Billed \X Amounts),
                read : Seq(ItemsRead), behind : SUBSET Rows]
      /\ r.items \in Seq(Billed \X Amounts) /\ r.read \in Seq(ItemsRead)
  BY <1>0, AllocatingFields
<1>5. item \in Billed \X Amounts /\ i \in Billed /\ item[2] \in Amounts /\ item[2] \in Nat
  <2>1. Len(r.read) + 1 \in 1 .. Len(r.items)
    BY <1>0, <1>4
  <2>2. item \in Billed \X Amounts
    BY <1>4, <1>21, <2>1
  <2>. QED BY <1>22, <2>2, LedgerAssumption
<1>23. PICK paid : paid = invoices[i].paid + item[2] BY Zenon
<1>6. paid \in Nat /\ paid <= invoices[i].total
  BY <1>1, <1>3, <1>5, <1>23
<1>24. PICK status : status = Settled(invoices[i], paid, late) BY Zenon
<1>7. status \in InvoiceStatuses /\ status \notin {"cancelled", "void"}
  BY <1>24 DEF Settled, Refreshed, InvoiceStatuses
<1>25. PICK x : x = [invoice |-> i, amount |-> item[2], was |-> invoices[i].status, status |-> status,
                   paid |-> paid]
  BY Zenon
<1>8. x \in ItemsRead
  BY <1>3, <1>5, <1>6, <1>7, <1>25 DEF ItemsRead
<1>9. /\ x.invoice = i /\ x.amount = item[2] /\ x.was = invoices[i].status /\ x.status = status
      /\ x.paid = paid
  BY <1>25
<1>10. Agrees(x)
  BY <1>1, <1>6, <1>7, <1>9, <1>23 DEF Agrees
<1>26. PICK read : read = Append(r.read, x) BY Zenon
<1>11. /\ read \in Seq(ItemsRead) /\ Len(read) = Len(r.read) + 1 /\ read[Len(r.read) + 1] = x
       /\ DOMAIN read = DOMAIN r.read \cup {Len(r.read) + 1}
       /\ \A k \in DOMAIN r.read : read[k] = r.read[k]
  BY <1>4, <1>8, <1>26
<1>27. PICK s : s = [r EXCEPT !.read = read] BY Zenon
<1>12. /\ s \in [pc : {"allocating"}, payment : Payments, allocated : Nat, items : Seq(Billed \X Amounts),
                 read : Seq(ItemsRead), behind : SUBSET Rows]
       /\ s.pc = "allocating" /\ s.payment = r.payment /\ s.allocated = r.allocated
       /\ s.items = r.items /\ s.read = read /\ s.behind = r.behind
  BY <1>4, <1>11, <1>27
<1>13. s \in Requests
  BY <1>12 DEF Requests
<1>14. AllocRequest(s)
  <2>1. ASSUME NEW k \in DOMAIN read
        PROVE  /\ read[k].invoice = r.items[k][1] /\ read[k].amount = r.items[k][2]
               /\ read[k].invoice \in DOMAIN invoices
               /\ read[k].invoice \notin r.behind => Agrees(read[k])
    <3>1. CASE k \in DOMAIN r.read
      BY <1>0, <1>11, <3>1 DEF AllocRequest
    <3>2. CASE k = Len(r.read) + 1
      BY <1>1, <1>9, <1>10, <1>11, <1>21, <1>22, <3>2
    <3>. QED BY <1>11, <3>1, <3>2
  <2>2. Len(s.read) <= Len(s.items)
    BY <1>0, <1>4, <1>11, <1>12
  <2>. QED BY <1>0, <1>12, <2>1, <2>2 DEF AllocRequest
<1>16. InOrder(s)
  BY <1>12, <1>14 DEF InOrder
<1>15. Becomes(w, s)
  BY <1>1, <1>23, <1>24, <1>25, <1>26, <1>27
<1>. QED BY <1>1, <1>16, <1>13, <1>15, Reads

-----------------------------------------------------------------------------
\* A step that keeps the rows but those of rows, and whose request is done.
LEMMA CommitsInOrder ==
  ASSUME BooksInv, NEW w \in Workers, NEW rows, Commits(w, rows), Keeps(rows)
  PROVE  req' \in [Workers -> Requests] /\ \A x \in Workers : InOrder(req[x])'
<1>1. /\ req' \in [Workers -> Requests] /\ req'[w] = Idle
      /\ \A x \in Workers \ {w} : Follows(req'[x], req[x], rows)
  BY CommitMoves DEF BooksInv, TypeOK
<1>2. InOrder(req[w])'
  BY <1>1 DEF InOrder, Idle
<1>3. ASSUME NEW x \in Workers \ {w} PROVE InOrder(req[x])'
  <2>1. req[x] \in Requests /\ InOrder(req[x])
    BY DEF BooksInv, TypeOK
  <2>. QED BY <1>1, <2>1, OthersInOrder
<1>. QED BY <1>1, <1>2, <1>3

\* A change of status leaves the sums alone; an invoice is cancelled only if the request read
\* it unpaid, and nobody has changed it since.
LEMMA UpdateInvoiceKeeps ==
  ASSUME BooksInv, NEW w \in Workers, UpdateInvoice(w)
  PROVE  BooksInv'
<1>. PICK r \in Requests : r = req[w]
  BY DEF BooksInv, TypeOK
<1>. PICK i : i = r.invoice BY Zenon
<1>. PICK rows : rows = IF r.status # r.was THEN {i} ELSE {} BY Zenon
<1>1. /\ r.pc = "updating" /\ UpdateRequest(r)
      /\ UNCHANGED <<payments, alloc, usage>> /\ Commits(w, rows)
      /\ invoices' = IF r.status # r.was
                       THEN [invoices EXCEPT ![i].status = r.status,
                                             ![i].disturbed = @ \/ r.behind # {}]
                       ELSE invoices
  BY DEF UpdateInvoice, BooksInv, InOrder
<1>2. i \in DOMAIN invoices /\ invoices[i] \in InvoiceRows
  BY <1>1, InvoicesAre DEF UpdateRequest
<1>. PICK d : d = (invoices[i].disturbed \/ r.behind # {}) BY Zenon
<1>. PICK row : row = [invoices[i] EXCEPT !.status = r.status, !.disturbed = d] BY Zenon
<1>3. row \in InvoiceRows
  BY <1>1, <1>2, UpdatingFields, InvoiceFields DEF InvoiceRows
<1>4. /\ row.status = r.status /\ row.disturbed = d /\ row.total = invoices[i].total
      /\ row.paid = invoices[i].paid
  BY <1>2 DEF InvoiceRows
<1>5. r.status # r.was => invoices' = [invoices EXCEPT ![i] = row]
  BY <1>1, <1>2
<1>6. /\ invoices' \in Seq(InvoiceRows) /\ Len(invoices') = Len(invoices)
      /\ DOMAIN invoices' = DOMAIN invoices
      /\ \A j \in DOMAIN invoices : j # i => invoices'[j] = invoices[j]
      /\ invoices'[i] = IF r.status # r.was THEN row ELSE invoices[i]
  BY <1>1, <1>2, <1>3, <1>5, InvoicesAre
<1>7. Keeps(rows)
  BY <1>1, <1>6 DEF Keeps
<1>8. req' \in [Workers -> Requests] /\ \A x \in Workers : InOrder(req[x])'
  BY <1>1, <1>7, CommitsInOrder
<1>9. TypeOK'
  BY <1>1, <1>6, <1>8 DEF BooksInv, TypeOK
<1>10. Unallocated'
  BY <1>1, <1>6 DEF BooksInv, Unallocated
<1>11. LedgerBalanced'
  <2>1. ASSUME NEW j \in Billed \cap DOMAIN invoices', ~invoices'[j].disturbed
        PROVE  /\ invoices'[j].paid = ReceivedIn(alloc, j)
               /\ ReceivedIn(alloc, j) <= invoices'[j].total
               /\ invoices'[j].status \in {"cancelled", "void"} => ReceivedIn(alloc, j) = 0
    <3>1. CASE j # i \/ r.status = r.was
      BY <1>6, <2>1, <3>1, BalancedBySums DEF BooksInv
    <3>2. CASE j = i /\ r.status # r.was
      <4>1. ~d /\ ~invoices[i].disturbed /\ r.behind = {}
        BY <1>4, <1>6, <2>1, <3>2
      <4>2. /\ invoices[i].paid = ReceivedIn(alloc, i) /\ ReceivedIn(alloc, i) <= invoices[i].total
        BY <1>2, <2>1, <3>2, <4>1, BalancedBySums DEF BooksInv
      <4>3. r.status \in {"cancelled", "void"} => invoices[i].paid = 0
        BY <1>1, <3>2, <4>1 DEF UpdateRequest
      <4>. QED BY <1>4, <1>6, <3>2, <4>2, <4>3
    <3>. QED BY <3>1, <3>2
  <2>. QED BY <1>1, <2>1, BalancedBySums, BalancedBySumsNext DEF BooksInv
<1>. QED BY <1>8, <1>9, <1>10, <1>11 DEF BooksInv

\* A new invoice has received nothing, and a new payment has spent nothing.
LEMMA CreateInvoiceBalances ==
  ASSUME BooksInv, NEW w \in Workers, CreateInvoice(w)
  PROVE  BooksInv'
<1>1. PICK total \in Totals, issue \in BOOLEAN, late \in BOOLEAN :
        /\ req[w].pc = "numbered" /\ req[w].number = Len(invoices) + 1
        /\ invoices' = Append(invoices,
             [status |-> IF issue THEN Refreshed("issued", late, FALSE) ELSE "draft",
              total |-> total, paid |-> 0, disturbed |-> FALSE])
        /\ usage' = usage + 1 /\ Commits(w, {}) /\ UNCHANGED <<payments, alloc>>
  BY DEF CreateInvoice
<1>2. PICK status : status = IF issue THEN Refreshed("issued", late, FALSE) ELSE "draft"
  BY Zenon
<1>3. status \in InvoiceStatuses
  BY <1>2 DEF Refreshed, InvoiceStatuses
<1>4. PICK row : row = [status |-> status, total |-> total, paid |-> 0, disturbed |-> FALSE]
  BY Zenon
<1>5. /\ row \in InvoiceRows /\ row.paid = 0 /\ row.total \in Nat
  <2>1. row \in InvoiceRows /\ row.paid = 0
    BY <1>3, <1>4 DEF InvoiceRows
  <2>. QED BY <2>1, InvoiceFields
<1>6. PICK n : n = Len(invoices) + 1
  BY Zenon
<1>7. invoices' = Append(invoices, row)
  BY <1>1, <1>2, <1>4
<1>8. /\ invoices' \in Seq(InvoiceRows) /\ Len(invoices') = n /\ n \notin DOMAIN invoices
      /\ DOMAIN invoices' = DOMAIN invoices \cup {n}
      /\ \A j \in DOMAIN invoices : invoices'[j] = invoices[j]
      /\ invoices'[n] = row
  BY <1>5, <1>6, <1>7, InvoicesAre
<1>9. n <= MaxInvoices
  BY <1>1, <1>6 DEF BooksInv, InOrder
<1>10. Keeps({})
  BY <1>1, <1>8 DEF Keeps
<1>11. req' \in [Workers -> Requests] /\ \A x \in Workers : InOrder(req[x])'
  BY <1>1, <1>10, CommitsInOrder
<1>12. TypeOK'
  BY <1>1, <1>8, <1>9, <1>11 DEF BooksInv, TypeOK
<1>13. Unallocated'
  BY <1>1, <1>8 DEF BooksInv, Unallocated
<1>14. LedgerBalanced'
  <2>1. ASSUME NEW j \in Billed \cap DOMAIN invoices', ~invoices'[j].disturbed
        PROVE  /\ invoices'[j].paid = ReceivedIn(alloc, j)
               /\ ReceivedIn(alloc, j) <= invoices'[j].total
               /\ invoices'[j].status \in {"cancelled", "void"} => ReceivedIn(alloc, j) = 0
    <3>1. CASE j \in DOMAIN invoices
      BY <1>8, <2>1, <3>1, BalancedBySums DEF BooksInv
    <3>2. CASE j = n
      <4>1. \A p \in Payments : alloc[p, j] = 0
        BY <1>8, <3>2 DEF BooksInv, Unallocated
      <4>2. ReceivedIn(alloc, j) = 0
        BY <4>1, ZeroSums
      <4>. QED BY <1>5, <1>8, <3>2, <4>2
    <3>. QED BY <1>8, <3>1, <3>2
  <2>. QED BY <1>1, <2>1, BalancedBySums, BalancedBySumsNext DEF BooksInv
<1>. QED BY <1>11, <1>12, <1>13, <1>14 DEF BooksInv

LEMMA CreatePaymentKeeps ==
  ASSUME BooksInv, NEW w \in Workers, CreatePayment(w)
  PROVE  BooksInv'
<1>1. PICK p \in Payments, amount \in Totals, status \in {"pending", "completed"} :
        /\ payments[p] = Absent
        /\ payments' = [payments EXCEPT ![p] = [Absent EXCEPT !.status = status, !.amount = amount]]
        /\ UNCHANGED <<invoices, alloc, usage, req>>
  BY DEF CreatePayment
<1>2. PICK row : row = [Absent EXCEPT !.status = status, !.amount = amount]
  BY Zenon
<1>3. /\ row \in PaymentRows /\ row.status = status /\ row.amount = amount /\ row.allocated = 0
      /\ amount \in Nat
  BY <1>2, LedgerAssumption DEF Absent, PaymentRows
<1>4. /\ payments' \in [Payments -> PaymentRows] /\ payments'[p] = row
      /\ \A q \in Payments \ {p} : payments'[q] = payments[q]
      /\ payments[p].status = "absent"
  BY <1>1, <1>2, <1>3 DEF BooksInv, TypeOK, Absent
<1>5. TypeOK'
  BY <1>1, <1>4 DEF BooksInv, TypeOK
<1>6. Keeps({})
  BY <1>1, <1>4 DEF Keeps
<1>7. ASSUME NEW x \in Workers PROVE InOrder(req[x])'
  <2>1. req[x] \in Requests /\ InOrder(req[x])
    BY DEF BooksInv, TypeOK
  <2>2. Follows(req'[x], req[x], {})
    BY <1>1, <2>1 DEF Follows
  <2>. QED BY <1>6, <2>1, <2>2, OthersInOrder
<1>8. Unallocated'
  BY <1>1, <1>4 DEF BooksInv, Unallocated
<1>9. LedgerBalanced'
  <2>1. ASSUME NEW q \in Payments, ~payments'[q].disturbed
        PROVE  payments'[q].allocated = SpentIn(alloc, q) /\ SpentIn(alloc, q) <= payments'[q].amount
    <3>1. CASE q # p
      BY <1>4, <2>1, <3>1, BalancedBySums DEF BooksInv
    <3>2. CASE q = p
      <4>1. \A i \in Billed : alloc[q, i] = 0
        BY <1>4, <3>2 DEF BooksInv, Unallocated
      <4>2. SpentIn(alloc, q) = 0
        BY <4>1, ZeroSums
      <4>. QED BY <1>3, <1>4, <3>2, <4>2
    <3>. QED BY <3>1, <3>2
  <2>. QED BY <1>1, <2>1, BalancedBySums, BalancedBySumsNext DEF BooksInv
<1>. QED BY <1>5, <1>7, <1>8, <1>9 DEF BooksInv

-----------------------------------------------------------------------------
\* The commit of an allocation adds its items to the payment and to the invoices, on the rows
\* and in the sums.
LEMMA AllocatePaymentKeeps ==
  ASSUME BooksInv, NEW w \in Workers, AllocatePayment(w)
  PROVE  BooksInv'
<1>. DEFINE r == req[w]
            p == r.payment
            touched == {r.read[k].invoice : k \in DOMAIN r.read}
            Item(i) == CHOOSE x \in ToSet(r.read) : x.invoice = i
<1>1. r \in Requests /\ r = req[w]
  BY DEF BooksInv, TypeOK
<1>2. p = r.payment
  OBVIOUS
<1>3. touched = {r.read[k].invoice : k \in DOMAIN r.read}
  OBVIOUS
<1>4. /\ r.pc = "allocating" /\ Len(r.read) = Len(r.items)
      /\ \A i \in touched : alloc[p, i] = 0
      /\ Commits(w, {p} \cup touched) /\ usage' = usage
  BY DEF AllocatePayment
<1>23. alloc' = [pair \in DOMAIN alloc |->
                  IF pair[1] = p /\ pair[2] \in touched THEN Item(pair[2]).amount
                  ELSE alloc[pair]]
  BY DEF AllocatePayment
<1>24. invoices' = [i \in DOMAIN invoices |->
           IF i \notin touched THEN invoices[i]
           ELSE [invoices[i] EXCEPT
                   !.paid = Item(i).paid,
                   !.status = IF Item(i).status # Item(i).was THEN Item(i).status ELSE @,
                   !.disturbed = @ \/ i \in r.behind]]
  BY DEF AllocatePayment
<1>25. payments' = [payments EXCEPT ![p].allocated = r.allocated + SumOf(r.items),
                                    ![p].disturbed = @ \/ p \in r.behind]
  BY DEF AllocatePayment
<1>. HIDE DEF r, p, touched
<1>5. AllocRequest(r)
  BY <1>1, <1>4 DEF BooksInv, InOrder
<1>6. /\ p \in Payments /\ r.allocated \in Nat /\ r.items \in Seq(Billed \X Amounts)
      /\ r.read \in Seq(ItemsRead) /\ DOMAIN r.read = DOMAIN r.items /\ SumOf(r.items) \in Nat
      /\ r.items \in Allocations
  <2>1. /\ p \in Payments /\ r.allocated \in Nat /\ r.items \in Seq(Billed \X Amounts)
        /\ r.read \in Seq(ItemsRead)
    BY <1>1, <1>2, <1>4, AllocatingFields
  <2>2. DOMAIN r.read = DOMAIN r.items
    <3>1. r.read \in Seq(ItemsRead) /\ r.items \in Seq(Billed \X Amounts) /\ Len(r.read) = Len(r.items)
      BY <1>4, <2>1
    <3>2. DOMAIN r.read = 1 .. Len(r.read) /\ DOMAIN r.items = 1 .. Len(r.items)
      BY <3>1
    <3>. QED BY <3>1, <3>2
  <2>. QED BY <1>5, <2>1, <2>2, SumOfNat DEF AllocRequest
<1>7. \A k \in DOMAIN r.items, m \in DOMAIN r.items : r.items[k][1] = r.items[m][1] => k = m
  BY <1>6, ItemsAre
\* The item of an invoice is the one that was read for it.
<1>8. ASSUME NEW k \in DOMAIN r.read
      PROVE  /\ Item(r.items[k][1]) = r.read[k] /\ r.items[k][1] \in touched
             /\ r.read[k].invoice = r.items[k][1] /\ r.read[k].amount = r.items[k][2]
             /\ r.items[k][1] \in Billed /\ r.items[k][1] \in DOMAIN invoices
             /\ r.read[k].paid \in Nat /\ r.read[k].status \in InvoiceStatuses
             /\ r.read[k].amount \in Nat
             /\ r.items[k][1] \notin r.behind => Agrees(r.read[k])
  <2>1. \A m \in DOMAIN r.read : r.read[m].invoice = r.items[m][1] /\ r.read[m].amount = r.items[m][2]
    BY <1>5 DEF AllocRequest
  <2>2. /\ r.read[k].invoice \in Billed /\ r.read[k].paid \in Nat /\ r.read[k].amount \in Amounts
        /\ r.read[k].status \in InvoiceStatuses
    BY <1>1, <1>4, ReadFields
  <2>3. /\ r.read[k].invoice \in DOMAIN invoices
        /\ r.read[k].invoice \notin r.behind => Agrees(r.read[k])
    BY <1>5 DEF AllocRequest
  <2>4. r.read[k] \in ToSet(r.read)
    BY DEF ToSet
  <2>5. ASSUME NEW x \in ToSet(r.read), x.invoice = r.items[k][1] PROVE x = r.read[k]
    <3>1. PICK m \in DOMAIN r.read : x = r.read[m]
      BY DEF ToSet
    <3>2. m = k
      BY <1>6, <1>7, <2>1, <2>5, <3>1
    <3>. QED BY <3>1, <3>2
  <2>6. Item(r.items[k][1]) = r.read[k]
    BY <2>1, <2>4, <2>5
  <2>7. r.read[k].amount \in Nat
    BY <2>2, LedgerAssumption
  <2>8. r.items[k][1] \in touched
    BY <1>3, <2>1
  <2>. HIDE DEF Item
  <2>. QED BY <2>1, <2>2, <2>3, <2>6, <2>7, <2>8
<1>9. touched \subseteq Billed \cap DOMAIN invoices /\ \A i \in touched : \E k \in DOMAIN r.read : i = r.items[k][1]
  <2>1. ASSUME NEW i \in touched PROVE \E k \in DOMAIN r.read : i = r.items[k][1]
    <3>1. PICK k \in DOMAIN r.read : i = r.read[k].invoice
      BY <1>3, <2>1
    <3>. QED BY <1>8, <3>1
  <2>. QED BY <1>8, <2>1
<1>. HIDE DEF Item
\* The rows after the commit.
<1>10. /\ alloc' \in Tables /\ alloc \in Tables
       /\ \A q \in Payments, i \in Billed : q # p \/ i \notin touched => alloc'[q, i] = alloc[q, i]
       /\ \A k \in DOMAIN r.items : alloc'[p, r.items[k][1]] = r.items[k][2]
  <2>1. alloc \in Tables /\ DOMAIN alloc = Payments \X Billed
    BY DEF BooksInv, TypeOK, Tables
  <2>2. ASSUME NEW q \in Payments, NEW i \in Billed
        PROVE  alloc'[q, i] = IF q = p /\ i \in touched THEN Item(i).amount ELSE alloc[q, i]
    BY <1>23, <2>1
  <2>3. \A i \in touched : Item(i).amount \in Nat
    BY <1>8, <1>9
  <2>4. \A q \in Payments, i \in Billed : alloc'[q, i] \in Nat
    BY <2>1, <2>2, <2>3 DEF Tables
  <2>5. alloc' \in Tables
    BY <1>23, <2>1, <2>4 DEF Tables
  <2>6. ASSUME NEW k \in DOMAIN r.items PROVE alloc'[p, r.items[k][1]] = r.items[k][2]
    <3>1. k \in DOMAIN r.read
      BY <1>6
    <3>2. PICK i : i = r.items[k][1]
      OBVIOUS
    <3>3. i \in Billed /\ i \in touched /\ Item(i).amount = r.items[k][2]
      BY <1>8, <3>1, <3>2
    <3>4. p \in Payments
      BY <1>6
    <3>. QED BY <2>2, <3>2, <3>3, <3>4
  <2>. QED BY <2>1, <2>2, <2>5, <2>6
<1>11. Adds(r.items, p, alloc, alloc')
  <2>1. \A i \in Billed : Spares(r.items, i) => i \notin touched
    BY <1>6, <1>9 DEF Spares
  <2>2. \A k \in DOMAIN r.items : alloc[p, r.items[k][1]] = 0
    BY <1>4, <1>6, <1>8
  <2>. QED BY <1>10, <2>1, <2>2 DEF Adds
<1>12. ASSUME NEW k \in DOMAIN r.read, NEW i, i = r.items[k][1]
       PROVE  /\ invoices'[i] \in InvoiceRows
              /\ invoices'[i].paid = r.read[k].paid /\ invoices'[i].total = invoices[i].total
              /\ invoices'[i].status = IF r.read[k].status # r.read[k].was THEN r.read[k].status
                                       ELSE invoices[i].status
              /\ invoices'[i].disturbed = (invoices[i].disturbed \/ i \in r.behind)
  <2>1. PICK x : x = r.read[k] BY Zenon
  <2>2. PICK s : s = IF x.status # x.was THEN x.status ELSE invoices[i].status BY Zenon
  <2>3. PICK d : d = (invoices[i].disturbed \/ i \in r.behind) BY Zenon
  <2>4. /\ i \in DOMAIN invoices /\ i \in touched /\ Item(i) = x /\ x.paid \in Nat
        /\ x.status \in InvoiceStatuses
    BY <1>8, <1>12, <2>1
  <2>5. invoices[i] \in InvoiceRows
    BY <2>4, InvoicesAre
  <2>6. s \in InvoiceStatuses /\ d \in BOOLEAN
    BY <2>2, <2>3, <2>4, <2>5, InvoiceFields
  <2>7. invoices'[i] = [invoices[i] EXCEPT !.paid = x.paid, !.status = s, !.disturbed = d]
    BY <1>24, <2>2, <2>3, <2>4
  <2>8. /\ invoices'[i] \in InvoiceRows /\ invoices'[i].paid = x.paid
        /\ invoices'[i].total = invoices[i].total /\ invoices'[i].status = s
        /\ invoices'[i].disturbed = d
    BY <2>4, <2>5, <2>6, <2>7 DEF InvoiceRows
  <2>. QED BY <2>1, <2>2, <2>3, <2>8
<1>13. /\ invoices' \in Seq(InvoiceRows) /\ Len(invoices') = Len(invoices)
       /\ DOMAIN invoices' = DOMAIN invoices
       /\ \A i \in DOMAIN invoices : i \notin touched => invoices'[i] = invoices[i]
  <2>1. DOMAIN invoices' = DOMAIN invoices
        /\ \A i \in DOMAIN invoices : i \notin touched => invoices'[i] = invoices[i]
    BY <1>24
  <2>2. \A i \in DOMAIN invoices : invoices'[i] \in InvoiceRows
    BY <1>9, <1>12, <2>1, InvoicesAre
  <2>3. invoices' \in [1 .. Len(invoices) -> InvoiceRows]
    BY <1>24, <2>1, <2>2, InvoicesAre
  <2>. QED BY <2>1, <2>3, InvoicesAre
<1>14. /\ payments' \in [Payments -> PaymentRows]
       /\ \A q \in Payments \ {p} : payments'[q] = payments[q]
       /\ payments'[p].allocated = r.allocated + SumOf(r.items)
       /\ payments'[p].amount = payments[p].amount /\ payments'[p].status = payments[p].status
       /\ payments'[p].disturbed = (payments[p].disturbed \/ p \in r.behind)
  <2>1. payments \in [Payments -> PaymentRows] /\ payments[p] \in PaymentRows
    BY <1>6 DEF BooksInv, TypeOK
  <2>2. PICK d : d = (payments[p].disturbed \/ p \in r.behind) BY Zenon
  <2>3. PICK n \in Nat : n = r.allocated + SumOf(r.items)
    BY <1>6
  <2>4. d \in BOOLEAN
    BY <2>1, <2>2, PaymentFields
  <2>5. PICK row : row = [payments[p] EXCEPT !.allocated = n, !.disturbed = d] BY Zenon
  <2>6. /\ row \in PaymentRows /\ row.allocated = n /\ row.disturbed = d
        /\ row.amount = payments[p].amount /\ row.status = payments[p].status
    BY <2>1, <2>3, <2>4, <2>5 DEF PaymentRows
  <2>7. payments' = [payments EXCEPT ![p] = row]
    BY <1>25, <1>6, <2>1, <2>2, <2>3, <2>5
  <2>. QED BY <1>6, <2>1, <2>2, <2>3, <2>6, <2>7
<1>15. Keeps({p} \cup touched)
  BY <1>13, <1>14 DEF Keeps
<1>16. req' \in [Workers -> Requests] /\ \A x \in Workers : InOrder(req[x])'
  BY <1>4, <1>15, CommitsInOrder
<1>17. TypeOK'
  BY <1>4, <1>10, <1>13, <1>14, <1>16 DEF BooksInv, TypeOK, Tables
<1>18. Unallocated'
  <2>1. payments[p].status = "completed"
    BY <1>2, <1>5 DEF AllocRequest
  <2>2. ASSUME NEW q \in Payments, NEW i \in Billed,
               payments'[q].status = "absent" \/ i \notin DOMAIN invoices'
        PROVE  alloc'[q, i] = 0
    <3>1. q # p \/ i \notin touched
      BY <1>9, <1>13, <1>14, <2>1, <2>2
    <3>2. payments[q].status = "absent" \/ i \notin DOMAIN invoices
      BY <1>13, <1>14, <2>2
    <3>. QED BY <1>10, <3>1, <3>2 DEF BooksInv, Unallocated
  <2>. QED BY <2>2 DEF Unallocated
\* The books after the commit.
<1>19. /\ SpentIn(alloc', p) = SpentIn(alloc, p) + SumOf(r.items)
       /\ \A q \in Payments \ {p} : SpentIn(alloc', q) = SpentIn(alloc, q)
       /\ \A k \in DOMAIN r.items :
            ReceivedIn(alloc', r.items[k][1]) = ReceivedIn(alloc, r.items[k][1]) + r.items[k][2]
       /\ \A i \in Billed : Spares(r.items, i) => ReceivedIn(alloc', i) = ReceivedIn(alloc, i)
  BY <1>6, <1>10, <1>11, AllocationSums
<1>20. ASSUME NEW q \in Payments, ~payments'[q].disturbed
       PROVE  payments'[q].allocated = SpentIn(alloc', q) /\ SpentIn(alloc', q) <= payments'[q].amount
  <2>1. CASE q # p
    BY <1>14, <1>19, <1>20, <2>1, BalancedBySums DEF BooksInv
  <2>2. CASE q = p
    <3>1. ~payments[p].disturbed /\ p \notin r.behind
      BY <1>14, <1>20, <2>2
    <3>2. payments[p].allocated = SpentIn(alloc, p)
      BY <1>6, <3>1, BalancedBySums DEF BooksInv
    <3>3. payments[p].allocated = r.allocated /\ r.allocated + SumOf(r.items) <= payments[p].amount
      BY <1>2, <1>5, <3>1 DEF AllocRequest
    <3>. QED BY <1>14, <1>19, <2>2, <3>2, <3>3
  <2>. QED BY <2>1, <2>2
<1>21. ASSUME NEW i \in Billed \cap DOMAIN invoices', ~invoices'[i].disturbed
       PROVE  /\ invoices'[i].paid = ReceivedIn(alloc', i)
              /\ ReceivedIn(alloc', i) <= invoices'[i].total
              /\ invoices'[i].status \in {"cancelled", "void"} => ReceivedIn(alloc', i) = 0
  <2>1. CASE i \notin touched
    <3>1. Spares(r.items, i)
      BY <1>6, <1>8, <2>1 DEF Spares
    <3>. QED BY <1>13, <1>19, <1>21, <2>1, <3>1, BalancedBySums DEF BooksInv
  <2>2. CASE i \in touched
    <3>1. PICK k \in DOMAIN r.read : i = r.items[k][1]
      BY <1>9, <2>2
    <3>2. ~invoices[i].disturbed /\ i \notin r.behind
      BY <1>12, <1>21, <3>1
    <3>3. invoices[i].paid = ReceivedIn(alloc, i)
      BY <1>13, <1>21, <3>2, BalancedBySums DEF BooksInv
    <3>4. Agrees(r.read[k]) /\ r.read[k].invoice = i /\ r.read[k].amount = r.items[k][2]
      BY <1>8, <3>1, <3>2
    <3>5. ReceivedIn(alloc', i) = ReceivedIn(alloc, i) + r.items[k][2]
      BY <1>6, <1>19, <3>1
    <3>6. invoices'[i].paid = r.read[k].paid /\ invoices'[i].total = invoices[i].total
      BY <1>12, <3>1
    <3>7. invoices'[i].status \notin {"cancelled", "void"}
      <4>1. invoices'[i].status = IF r.read[k].status # r.read[k].was THEN r.read[k].status
                                  ELSE invoices[i].status
        BY <1>12, <3>1
      <4>. QED BY <3>4, <4>1 DEF Agrees
    <3>. QED BY <3>3, <3>4, <3>5, <3>6, <3>7 DEF Agrees
  <2>. QED BY <2>1, <2>2
<1>22. LedgerBalanced'
  BY <1>20, <1>21, BalancedBySumsNext
<1>. QED BY <1>16, <1>17, <1>18, <1>22 DEF BooksInv

-----------------------------------------------------------------------------
(* The books.                                                              *)

LEMMA BooksInduction ==
  /\ Init => BooksInv
  /\ BooksInv /\ [Next]_vars => BooksInv'
<1>1. ASSUME Init PROVE BooksInv
  <2>1. /\ invoices = <<>> /\ DOMAIN invoices = {} /\ Len(invoices) = 0 /\ usage = 0
        /\ \A p \in Payments : payments[p] = Absent
        /\ \A p \in Payments, i \in Billed : alloc[p, i] = 0
        /\ \A w \in Workers : req[w] = Idle
    <3>1. invoices = <<>> /\ usage = 0 /\ payments = [p \in Payments |-> Absent]
      BY <1>1 DEF Init
    <3>2. DOMAIN invoices = {} /\ Len(invoices) = 0
      BY <3>1
    <3>3. alloc = [pair \in Payments \X Billed |-> 0] /\ req = [w \in Workers |-> Idle]
      BY <1>1 DEF Init
    <3>4. \A p \in Payments, i \in Billed : alloc[p, i] = 0
      BY <3>3
    <3>5. \A w \in Workers : req[w] = Idle
      BY <3>3, Zenon
    <3>6. \A p \in Payments : payments[p] = Absent
      BY <3>1, Zenon
    <3>. QED BY <3>1, <3>2, <3>4, <3>5, <3>6
  <2>2. Absent \in PaymentRows /\ Absent.allocated = 0 /\ Absent.amount = 0
    BY DEF Absent, PaymentRows
  <2>3. TypeOK
    <3>1. invoices \in Seq(InvoiceRows) /\ Len(invoices) <= MaxInvoices /\ usage \in Nat
      <4>1. invoices = <<>>
        BY <1>1 DEF Init
      <4>2. MaxInvoices \in Nat
        BY LedgerAssumption
      <4>3. Len(invoices) = 0 /\ usage = 0
        BY <2>1
      <4>. QED BY <4>1, <4>2, <4>3
    <3>2. payments \in [Payments -> PaymentRows]
      BY <1>1, <2>2 DEF Init
    <3>3. alloc \in [Payments \X Billed -> Nat]
      BY <1>1 DEF Init
    <3>4. Idle \in Requests
      BY Zenon DEF Requests
    <3>5. req \in [Workers -> Requests]
      BY <1>1, <3>4 DEF Init
    <3>. QED BY <3>1, <3>2, <3>3, <3>5 DEF TypeOK
  <2>4. \A w \in Workers : InOrder(req[w])
    <3>1. InOrder(Idle)
      BY DEF InOrder, Idle
    <3>. QED BY <2>1, <3>1
  <2>5. Unallocated
    BY <2>1 DEF Unallocated
  <2>6. \A p \in Payments : SpentIn(alloc, p) = 0
    BY <2>1, ZeroSums
  <2>7. \A p \in Payments : payments[p].allocated = 0 /\ payments[p].amount = 0
    BY <2>1, <2>2
  <2>8. LedgerBalanced
    <3>1. \A p \in Payments : payments[p].allocated = SpentIn(alloc, p) /\ SpentIn(alloc, p) <= payments[p].amount
      BY <2>6, <2>7
    <3>2. \A i \in Billed : i \notin DOMAIN invoices
      BY <2>1
    <3>. QED BY <3>1, <3>2, BalancedBySums
  <2>. QED BY <2>3, <2>4, <2>5, <2>8 DEF BooksInv
<1>2. ASSUME BooksInv, [Next]_vars PROVE BooksInv'
  <2>1. ASSUME NEW w \in Workers,
               \/ CheckLimit(w) \/ TakeNumber(w) \/ CreateInvoice(w)
               \/ ReadUpdate(w) \/ UpdateInvoice(w)
               \/ CreatePayment(w) \/ ReadPayment(w) \/ ReadInvoice(w) \/ AllocatePayment(w)
               \/ Fail(w)
        PROVE  BooksInv'
    BY <1>2, <2>1, SimpleReadsKeep, CreateInvoiceBalances, ReadUpdateKeeps, UpdateInvoiceKeeps,
       CreatePaymentKeeps, ReadPaymentKeeps, ReadInvoiceKeeps, AllocatePaymentKeeps
  <2>2. CASE UNCHANGED vars
    <3>1. TypeOK' /\ Unallocated'
      BY <1>2, <2>2 DEF vars, BooksInv, TypeOK, Unallocated
    <3>2. \A w \in Workers : InOrder(req[w])'
      BY <1>2, <2>2 DEF vars, BooksInv, InOrder, AllocRequest, UpdateRequest, Agrees
    <3>3. LedgerBalanced'
      BY <1>2, <2>2, BalancedBySums, BalancedBySumsNext DEF vars, BooksInv
    <3>. QED BY <3>1, <3>2, <3>3 DEF BooksInv
  <2>. QED BY <1>2, <2>1, <2>2 DEF Next
<1>. QED BY <1>1, <1>2

\* Rows and requests keep their types, for any workers, payments, totals and amounts (the
\* models of the finance module and what its service computes from them).
THEOREM TypeInvariant == Spec => []TypeOK
<1>1. BooksInv => TypeOK
  BY DEF BooksInv
<1>. QED BY <1>1, BooksInduction, PTL DEF Spec

\* The books balance for any workers, payments, invoices and amounts, whatever is committed
\* between the reads and the writes of a request: a row is out of balance only if a request
\* has written it over a change that it had not read (allocate_payment, update_invoice).
THEOREM BooksAreBalanced == Spec => []LedgerBalanced
<1>1. BooksInv => LedgerBalanced
  BY DEF BooksInv
<1>. QED BY <1>1, BooksInduction, PTL DEF Spec
=============================================================================
