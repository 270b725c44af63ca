------------------------- MODULE UsageLedgerProofs -------------------------
(***************************************************************************)
(* Type correctness and the safety of the usage ledger for every number of *)
(* workers, requests, keys and users; that its accounts add up; and that   *)
(* it implements ExactlyOnceBilling.  The sums come first: a fold over a   *)
(* finite set adds every element once, whichever it picks first.           *)
(***************************************************************************)
EXTENDS UsageLedger, FiniteSetTheorems, WellFoundedInduction, TLAPS

(* Sums over finite sets *)

\* The element a fold takes out of a set first.
Picked(s) == CHOOSE x \in s : TRUE

\* One step of a sum over a set: the element picked, then the rest.
SumStep(w, s, rest) == IF s = {} THEN 0 ELSE w[Picked(s)] + rest[s \ {Picked(s)}]

\* g is the sums of w over the sets of D.
Solves(g, w, D) == g = [s \in D |-> SumStep(w, s, g)]

\* The sums of w over every subset of S, as the folds compute them.
Sums(w, S) == CHOOSE g : Solves(g, w, SUBSET S)

\* The sum of the numbers w[x] for x in S.
Sum(w, S) == Sums(w, S)[S]

\* The total cost of rows, and what abstract billing takes for them, are sums.
LEMMA TotalCostIsSum == \A S : TotalCost(S) = Sum(Cost, S)
BY DEF TotalCost, MapThenSumSet, MapThenFoldSet, Sum, Sums, Solves, SumStep, Picked, CostOf

LEMMA DueIsSum ==
    \A S, u : Billing!Due(S, u)
                = Sum(Cost, {r \in S : [q \in Requests |-> UserOf(q)][r] = u})
BY DEF Billing!Due, Billing!MapThenSumSet, Billing!MapThenFoldSet, Billing!PriceOf,
       Sum, Sums, Solves, SumStep, Picked

\* A set of natural numbers that is not empty has a least element.
LEMMA LeastNumber ==
    ASSUME NEW T \in SUBSET Nat, T # {}
    PROVE  \E n \in T : \A m \in T : n <= m
<1> DEFINE R == {ss \in Nat \X Nat : ss[1] < ss[2]}
<1>1. IsWellFoundedOn(R, Nat)
  BY NatLessThanWellFounded DEF OpToRel
<1>2. \A x, y \in Nat : <<x, y>> \in R <=> x < y
  OBVIOUS
<1> HIDE DEF R
<1>3. \E n \in T : \A m \in T : ~(<<m, n>> \in R)
  BY <1>1, WFMin
<1>4. PICK n \in T : \A m \in T : ~(<<m, n>> \in R)
  BY <1>3
<1>5. \A m \in T : m \in Nat /\ n \in Nat /\ ~(m < n)
  BY <1>2, <1>4
<1>6. \A m \in T : n <= m
  BY <1>5
<1> QED BY <1>6

\* Among finite sets of which one is bad, some bad one has no smaller bad set:
\* induction on the size of a set, said without an operator.
LEMMA LeastSet ==
    ASSUME NEW S, IsFiniteSet(S), NEW Bad \in SUBSET (SUBSET S), Bad # {}
    PROVE  \E s \in Bad : \A x \in s : s \ {x} \notin Bad
<1> DEFINE sizes == {Cardinality(s) : s \in Bad}
<1>1. \A s \in Bad : IsFiniteSet(s) /\ Cardinality(s) \in Nat
  BY FS_Subset, FS_CardinalityType
<1>2. sizes \in SUBSET Nat /\ sizes # {}
  BY <1>1
<1>3. PICK n \in sizes : \A m \in sizes : n <= m
  BY <1>2, LeastNumber
<1>4. PICK s \in Bad : Cardinality(s) = n
  BY <1>3
<1>5. ASSUME NEW x \in s, s \ {x} \in Bad PROVE FALSE
  <2>1. Cardinality(s \ {x}) = Cardinality(s) - 1
    BY <1>1, FS_RemoveElement
  <2>2. Cardinality(s \ {x}) \in sizes /\ Cardinality(s) \in Nat
    BY <1>1, <1>5
  <2>3. Cardinality(s) <= Cardinality(s \ {x})
    BY <1>3, <1>4, <2>2
  <2> QED BY <2>1, <2>2, <2>3
<1> QED BY <1>5

\* The element picked is an element.
LEMMA PickedIn == \A s : s # {} => Picked(s) \in s
BY DEF Picked

\* The recursion has a solution on the subsets of bounded size.
LEMMA BoundedSums ==
    ASSUME NEW S, IsFiniteSet(S), NEW w, NEW n \in Nat
    PROVE  \E g : Solves(g, w, {t \in SUBSET S : Cardinality(t) <= n})
<1> DEFINE small(k) == {t \in SUBSET S : Cardinality(t) <= k}
           solves(g, k) == Solves(g, w, small(k))
           none == {k \in Nat : ~ \E g : solves(g, k)}
<1>1. \A s \in SUBSET S : IsFiniteSet(s) /\ Cardinality(s) \in Nat
  BY FS_Subset, FS_CardinalityType
<1>2. SUFFICES ASSUME none # {} PROVE FALSE
  OBVIOUS
<1>3. PICK k \in none : \A m \in none : k <= m
  <2>1. none \in SUBSET Nat
    OBVIOUS
  <2> HIDE DEF none
  <2> QED BY <1>2, <2>1, LeastNumber
<1>4. k # 0
  <2>1. \A s \in small(0) : s = {}
    BY <1>1, FS_EmptySet
  <2>2. solves([s \in small(0) |-> 0], 0)
    <3> DEFINE g == [s \in small(0) |-> 0]
    <3>1. \A s \in small(0) : SumStep(w, s, g) = 0
      BY <2>1 DEF SumStep
    <3> HIDE DEF small
    <3> QED BY <3>1 DEF Solves
  <2> HIDE DEF solves
  <2> QED BY <2>2
<1>5. k - 1 \in Nat /\ k - 1 \notin none
  <2>1. k \in Nat
    OBVIOUS
  <2> HIDE DEF none
  <2> QED BY <1>3, <1>4, <2>1
<1>6. PICK h : solves(h, k - 1)
  BY <1>5
<1> DEFINE g == [s \in small(k) |-> SumStep(w, s, h)]
<1>7. \A s \in small(k) : s # {} => s \ {Picked(s)} \in small(k - 1) \cap small(k)
  <2> SUFFICES ASSUME NEW s \in small(k), s # {}
               PROVE  s \ {Picked(s)} \in small(k - 1) \cap small(k)
    OBVIOUS
  <2>1. Cardinality(s \ {Picked(s)}) = Cardinality(s) - 1
    BY <1>1, PickedIn, FS_RemoveElement
  <2>2. Cardinality(s) \in Nat /\ Cardinality(s) <= k /\ k \in Nat
    BY <1>1, <1>5
  <2>3. s \ {Picked(s)} \in SUBSET S
    OBVIOUS
  <2> QED BY <2>1, <2>2, <2>3
<1>8. \A s \in small(k - 1) \cap small(k) : g[s] = h[s]
  <2> HIDE DEF small
  <2> QED BY <1>6 DEF Solves
<1>9. \A s \in small(k) : SumStep(w, s, g) = SumStep(w, s, h)
  <2> HIDE DEF g, small
  <2> QED BY <1>7, <1>8 DEF SumStep
<1>10. solves(g, k)
  <2> HIDE DEF small
  <2> QED BY <1>9 DEF Solves
<1> HIDE DEF solves, g
<1> QED BY <1>3, <1>10

\* The sums over the subsets of a finite set are what the recursion says.
LEMMA SumsDefined ==
    ASSUME NEW S, IsFiniteSet(S), NEW w
    PROVE  Sums(w, S) = [s \in SUBSET S |-> SumStep(w, s, Sums(w, S))]
<1> DEFINE n == Cardinality(S)
<1>1. n \in Nat /\ {t \in SUBSET S : Cardinality(t) <= n} = SUBSET S
  BY FS_CardinalityType, FS_Subset
<1>2. \E g : Solves(g, w, SUBSET S)
  <2> DEFINE D == {t \in SUBSET S : Cardinality(t) <= n}
  <2>1. \E g : Solves(g, w, D)
    <3>1. n \in Nat
      BY <1>1
    <3> HIDE DEF n
    <3> QED BY <3>1, BoundedSums
  <2>2. D = SUBSET S
    BY <1>1
  <2> HIDE DEF D
  <2> QED BY <2>1, <2>2
<1>3. Solves(Sums(w, S), w, SUBSET S)
  BY <1>2 DEF Sums
<1> QED BY <1>3 DEF Solves

\* A sum depends on the set alone, not on the set the recursion started from.
LEMMA SumsAgree ==
    ASSUME NEW S, IsFiniteSet(S), NEW w, NEW t \in SUBSET S
    PROVE  Sums(w, S)[t] = Sum(w, t)
<1> DEFINE Bad == {s \in SUBSET t : Sums(w, S)[s] # Sums(w, t)[s]}
<1>1. IsFiniteSet(t)
  BY FS_Subset
<1>2. ASSUME NEW s \in SUBSET t
      PROVE  /\ Sums(w, S)[s] = SumStep(w, s, Sums(w, S))
             /\ Sums(w, t)[s] = SumStep(w, s, Sums(w, t))
  BY <1>1, SumsDefined
<1>3. Bad = {}
  <2> SUFFICES ASSUME Bad # {} PROVE FALSE
    OBVIOUS
  <2>1. PICK s \in Bad : \A x \in s : s \ {x} \notin Bad
    <3>1. Bad \in SUBSET (SUBSET t)
      OBVIOUS
    <3> HIDE DEF Bad
    <3> QED BY <1>1, <3>1, LeastSet
  <2>2. SumStep(w, s, Sums(w, S)) = SumStep(w, s, Sums(w, t))
    <3>1. s # {} => Picked(s) \in s
      BY PickedIn
    <3>2. s # {} => Sums(w, S)[s \ {Picked(s)}] = Sums(w, t)[s \ {Picked(s)}]
      BY <2>1, <3>1
    <3> QED BY <3>2 DEF SumStep
  <2> QED BY <1>2, <2>1, <2>2
<1> QED BY <1>3 DEF Sum

\* The recursion of a sum.
LEMMA SumPicked ==
    ASSUME NEW S, IsFiniteSet(S), NEW w
    PROVE  /\ S = {} => Sum(w, S) = 0
           /\ S # {} => Sum(w, S) = w[Picked(S)] + Sum(w, S \ {Picked(S)})
<1>1. Sum(w, S) = SumStep(w, S, Sums(w, S))
  BY SumsDefined DEF Sum
<1>2. Sums(w, S)[S \ {Picked(S)}] = Sum(w, S \ {Picked(S)})
  BY SumsAgree
<1> QED BY <1>1, <1>2 DEF SumStep

\* A sum of natural numbers is one.
LEMMA SumNat ==
    ASSUME NEW S, IsFiniteSet(S), NEW w, \A x \in S : w[x] \in Nat
    PROVE  Sum(w, S) \in Nat
<1> DEFINE Bad == {s \in SUBSET S : Sum(w, s) \notin Nat}
<1>1. Bad = {}
  <2> SUFFICES ASSUME Bad # {} PROVE FALSE
    OBVIOUS
  <2>1. PICK s \in Bad : \A x \in s : s \ {x} \notin Bad
    <3>1. Bad \in SUBSET (SUBSET S)
      OBVIOUS
    <3> HIDE DEF Bad
    <3> QED BY <3>1, LeastSet
  <2>2. /\ s = {} => Sum(w, s) = 0
        /\ s # {} => Sum(w, s) = w[Picked(s)] + Sum(w, s \ {Picked(s)})
    BY FS_Subset, SumPicked
  <2>3. s # {} => Picked(s) \in s
    BY PickedIn
  <2>4. s # {} => w[Picked(s)] \in Nat /\ Sum(w, s \ {Picked(s)}) \in Nat
    BY <2>1, <2>3
  <2> QED BY <2>1, <2>2, <2>4
<1> QED BY <1>1

\* Any element may be taken out of a sum, whichever the fold picks.
LEMMA SumWithout ==
    ASSUME NEW S, IsFiniteSet(S), NEW w, \A x \in S : w[x] \in Nat, NEW a \in S
    PROVE  Sum(w, S) = w[a] + Sum(w, S \ {a})
<1> DEFINE Bad == {s \in SUBSET S : \E x \in s : Sum(w, s) # w[x] + Sum(w, s \ {x})}
<1>1. \A s \in SUBSET S : IsFiniteSet(s) /\ Sum(w, s) \in Nat
  BY FS_Subset, SumNat
<1>2. Bad = {}
  <2> SUFFICES ASSUME Bad # {} PROVE FALSE
    OBVIOUS
  <2>1. PICK s \in Bad : \A x \in s : s \ {x} \notin Bad
    <3>1. Bad \in SUBSET (SUBSET S)
      OBVIOUS
    <3> HIDE DEF Bad
    <3> QED BY <3>1, LeastSet
  <2>2. PICK x \in s : Sum(w, s) # w[x] + Sum(w, s \ {x})
    BY <2>1
  <2> DEFINE p == Picked(s)
  <2>3. p \in s /\ Sum(w, s) = w[p] + Sum(w, s \ {p})
    BY <1>1, PickedIn, SumPicked
  <2> HIDE DEF p
  <2>4. x # p
    BY <2>2, <2>3
  <2>5. s \ {p} \in SUBSET S /\ s \ {x} \in SUBSET S /\ s \ {p} \notin Bad /\ s \ {x} \notin Bad
    BY <2>1, <2>3
  <2>6. Sum(w, s \ {p}) = w[x] + Sum(w, (s \ {p}) \ {x})
    BY <2>4, <2>5
  <2>7. Sum(w, s \ {x}) = w[p] + Sum(w, (s \ {x}) \ {p})
    BY <2>3, <2>4, <2>5
  <2>8. (s \ {p}) \ {x} = (s \ {x}) \ {p}
    OBVIOUS
  <2> DEFINE both == (s \ {x}) \ {p}
  <2>9. w[x] \in Nat /\ w[p] \in Nat /\ Sum(w, both) \in Nat
    BY <1>1, <2>3
  <2>10. Sum(w, s) = w[p] + (w[x] + Sum(w, both)) /\ Sum(w, s \ {x}) = w[p] + Sum(w, both)
    BY <2>3, <2>6, <2>7, <2>8
  <2> HIDE DEF both
  <2>11. Sum(w, s) = w[x] + Sum(w, s \ {x})
    BY <2>9, <2>10
  <2> QED BY <2>2, <2>11
<1> QED BY <1>2

\* The sum over a set of two parts is the sum of the parts.
LEMMA SumUnion ==
    ASSUME NEW S, IsFiniteSet(S), NEW w, \A x \in S : w[x] \in Nat,
           NEW A \in SUBSET S, NEW B \in SUBSET S, A \cap B = {}
    PROVE  Sum(w, A \cup B) = Sum(w, A) + Sum(w, B)
<1> DEFINE Bad == {s \in SUBSET B : Sum(w, A \cup s) # Sum(w, A) + Sum(w, s)}
<1>1. \A s \in SUBSET S : IsFiniteSet(s) /\ Sum(w, s) \in Nat
  BY FS_Subset, SumNat
<1>2. Bad = {}
  <2> SUFFICES ASSUME Bad # {} PROVE FALSE
    OBVIOUS
  <2>1. PICK s \in Bad : \A x \in s : s \ {x} \notin Bad
    <3>1. Bad \in SUBSET (SUBSET B) /\ IsFiniteSet(B)
      BY <1>1
    <3> HIDE DEF Bad
    <3> QED BY <3>1, LeastSet
  <2>2. CASE s = {}
    <3>1. Sum(w, s) = 0 /\ A \cup s = A
      BY <1>1, <2>2, SumPicked
    <3> QED BY <1>1, <2>1, <3>1
  <2>3. CASE s # {}
    <3>1. PICK x \in s : TRUE
      BY <2>3
    <3>2. A \cup s \in SUBSET S /\ s \in SUBSET S /\ x \in A \cup s
      BY <2>1, <3>1
    <3>3. Sum(w, s) = w[x] + Sum(w, s \ {x})
      BY <1>1, <3>1, <3>2, SumWithout
    <3>4. Sum(w, A \cup s) = w[x] + Sum(w, (A \cup s) \ {x})
      BY <1>1, <3>2, SumWithout
    <3>5. (A \cup s) \ {x} = A \cup (s \ {x})
      BY <2>1, <3>1
    <3>6. Sum(w, A \cup (s \ {x})) = Sum(w, A) + Sum(w, s \ {x})
      BY <2>1, <3>1
    <3>7. w[x] \in Nat /\ Sum(w, A) \in Nat /\ Sum(w, s \ {x}) \in Nat
      BY <1>1, <3>2
    <3> QED BY <2>1, <3>3, <3>4, <3>5, <3>6, <3>7
  <2> QED BY <2>2, <2>3
<1> QED BY <1>2

\* The sum over one element.
LEMMA SumOne ==
    ASSUME NEW x, NEW w, w[x] \in Nat
    PROVE  Sum(w, {x}) = w[x] /\ Sum(w, {}) = 0
<1>1. IsFiniteSet({x}) /\ IsFiniteSet({}) /\ {x} \ {x} = {}
  BY FS_Singleton, FS_EmptySet
<1>2. Sum(w, {}) = 0
  BY <1>1, SumPicked
<1>3. Sum(w, {x}) = w[x] + Sum(w, {})
  BY <1>1, SumWithout
<1> QED BY <1>2, <1>3

\* The cost of rows is a number, nothing costs nothing, and the costs of
\* different rows add up.
LEMMA TotalCosts ==
    ASSUME NEW A \in SUBSET Requests, NEW B \in SUBSET Requests
    PROVE  /\ TotalCost(A) \in Nat
           /\ TotalCost({}) = 0
           /\ A \cap B = {} => TotalCost(A \cup B) = TotalCost(A) + TotalCost(B)
<1>1. \A x \in Requests : Cost[x] \in Nat
  BY ConstantsAssumption
<1>2. Sum(Cost, A) \in Nat
  BY <1>1, RequestsAssumption, FS_Subset, SumNat
<1>3. A \cap B = {} => Sum(Cost, A \cup B) = Sum(Cost, A) + Sum(Cost, B)
  BY <1>1, RequestsAssumption, SumUnion
<1>4. Sum(Cost, {}) = 0
  BY SumPicked, FS_EmptySet
<1> QED BY <1>2, <1>3, <1>4, TotalCostIsSum

\* One row costs what its request costs.
LEMMA CostOfOneRow == \A r \in Requests : TotalCost({r}) = Cost[r]
BY ConstantsAssumption, SumOne, TotalCostIsSum

-----------------------------------------------------------------------------
(* Books and rows *)

\* Debiting rows keeps a book a book.
LEMMA DebitType ==
    ASSUME NEW b \in Book, NEW S \in SUBSET Requests
    PROVE  /\ Debit(b, S) \in Book
           /\ Debit(b, S).keys = b.keys
           /\ Debit(b, S).users = b.users
           /\ Debit(b, S).debited = b.debited \cup S
<1> DEFINE bal == [u \in Users |-> b.bal[u] - TotalCost(RowsOfUser(S, u))]
           spent == [k \in Keys |-> b.spent[k] + TotalCost(RowsOfKey(S, k))]
<1>1. bal \in [Users -> Int]
  <2>1. \A u \in Users : TotalCost(RowsOfUser(S, u)) \in Nat
    BY TotalCosts DEF RowsOfUser
  <2>2. \A u \in Users : b.bal[u] \in Int
    BY DEF Book
  <2> QED BY <2>1, <2>2
<1>2. spent \in [Keys -> Int]
  <2>1. \A k \in Keys : TotalCost(RowsOfKey(S, k)) \in Nat
    BY TotalCosts DEF RowsOfKey
  <2>2. \A k \in Keys : b.spent[k] \in Int
    BY DEF Book
  <2> QED BY <2>1, <2>2
<1>3. Debit(b, S) = [b EXCEPT !.bal = bal, !.spent = spent,
                              !.debited = b.debited \cup S]
  BY DEF Debit
<1> HIDE DEF bal, spent
<1>4. /\ b.keys \in SUBSET Keys /\ b.users \in SUBSET Users
      /\ b.debited \cup S \in SUBSET Requests
      /\ b.credited \in [Users -> 0..MaxCredit]
  BY DEF Book
<1>5. Debit(b, S) = [bal |-> bal, spent |-> spent, keys |-> b.keys,
                     users |-> b.users, debited |-> b.debited \cup S,
                     credited |-> b.credited]
  BY <1>3 DEF Book
<1>6. Debit(b, S) \in Book
  BY <1>1, <1>2, <1>4, <1>5 DEF Book
<1> QED
  BY <1>5, <1>6

\* A prefix of an ordered selection is a selection.
LEMMA LowestSubset ==
    ASSUME NEW S, NEW k
    PROVE  Lowest(S, k) \subseteq S
BY DEF Lowest

\* The initial accounts are a book.
LEMMA EmptyBookType == EmptyBook \in Book
BY ConstantsAssumption DEF EmptyBook, Book

\* Row ids are numbers, because there are finitely many rows.
LEMMA NextRowIdType == \A n : NextRowId(n) \in Nat
<1> TAKE n
<1> DEFINE rows == {q \in Requests : home[q] = n /\ outcome[q] \in Recorded}
<1>1. IsFiniteSet(rows)
  BY FS_Subset, RequestsAssumption
<1>2. Cardinality(rows) \in Nat
  BY <1>1, FS_CardinalityType
<1> QED
  BY <1>2 DEF NextRowId

-----------------------------------------------------------------------------
(* Type correctness *)

\* An empty deployment, with nothing served yet, is well typed.
LEMMA InitTypeOK == Init => TypeOK
BY ConstantsAssumption, EmptyBookType
   DEF Init, TypeOK, ControlTypeOK, MoneyTypeOK

\* Serving a request, on a worker or on the master, keeps the types.
LEMMA ServeTypeOK == TypeOK /\ ServeStep => TypeOK'
<1> SUFFICES ASSUME TypeOK, NEW r \in Requests,
                    \/ \E n \in Nodes \cup {Master} : Begin(n, r)
                    \/ \E n \in Nodes : \/ RecordCharged(n, r) \/ RecordFree(n, r)
                                        \/ RecordAudio(n, r) \/ RecordDropped(n, r)
                    \/ MasterRecordCharged(r) \/ MasterRecordFree(r)
                    \/ MasterRecordDropped(r)
             PROVE  TypeOK'
  BY DEF ServeStep
<1> USE DEF TypeOK, ControlTypeOK, MoneyTypeOK, worker, master, requests, Recorded
<1>1. CASE \E n \in Nodes \cup {Master} : Begin(n, r)
  BY <1>1 DEF Begin
<1>2. ASSUME NEW n \in Nodes, RecordCharged(n, r) PROVE TypeOK'
  <2>1. Debit(mirror[n], {r}) \in Book
    BY DebitType
  <2> QED BY NextRowIdType, <1>2, <2>1 DEF RecordCharged, LedgerFree, AddRow
<1>3. ASSUME NEW n \in Nodes, RecordFree(n, r) \/ RecordAudio(n, r) PROVE TypeOK'
  BY NextRowIdType, <1>3 DEF RecordFree, RecordAudio, AddRow
<1>4. ASSUME NEW n \in Nodes, RecordDropped(n, r) PROVE TypeOK'
  BY <1>4 DEF RecordDropped
<1>5. CASE MasterRecordCharged(r)
  <2>1. Debit(book, {r}) \in Book
    BY DebitType
  <2> QED BY <1>5, <2>1 DEF MasterRecordCharged
<1>6. CASE MasterRecordFree(r)
  BY <1>6 DEF MasterRecordFree
<1>7. CASE MasterRecordDropped(r)
  BY <1>7 DEF MasterRecordDropped
<1> QED
  BY <1>1, <1>2, <1>3, <1>4, <1>5, <1>6, <1>7

\* Flushing, syncing, failing and crashing keep the types.
LEMMA WorkerTypeOK == ASSUME TypeOK, NEW n \in Nodes, WorkerStep(n) PROVE TypeOK'
<1> USE DEF TypeOK, ControlTypeOK, MoneyTypeOK, worker, master, requests
<1>a. Lowest(pending[n], BatchSize) \in SUBSET Requests
  BY LowestSubset
<1>b. BatchID(n, batch[n]) \in Nodes \X SUBSET Requests
  BY DEF BatchID
<1>1. CASE FlushBegin(n)
  BY <1>1, <1>a DEF FlushBegin, PostBatch
<1>2. CASE SyncBegin(n)
  BY <1>2 DEF SyncBegin
<1>3. CASE SyncDrain(n)
  BY <1>3, <1>a DEF SyncDrain, PostBatch
<1>4. CASE FlushAck(n)
  BY <1>4 DEF FlushAck
<1>5. CASE DeleteRows(n)
  BY <1>5 DEF DeleteRows
<1>6. CASE ApplySnapshot(n)
  BY <1>6 DEF ApplySnapshot
<1>7. CASE Refused(n)
  BY <1>7, ConstantsAssumption DEF Refused, GiveUp
<1>8. CASE Fail(n)
  <2>1. late' \in SUBSET (Nodes \X SUBSET Requests)
    BY <1>8, <1>b DEF Fail
  <2>2. faults' \in 0..MaxFaults
    BY <1>8, ConstantsAssumption DEF Fail
  <2> QED BY <1>8, <2>1, <2>2, ConstantsAssumption DEF Fail, GiveUp
<1>9. CASE Crash(n)
  <2>1. late' \in SUBSET (Nodes \X SUBSET Requests)
    BY <1>9, <1>b DEF Crash
  <2>2. faults' \in 0..MaxFaults
    BY <1>9, ConstantsAssumption DEF Crash
  <2> QED BY <1>9, <2>1, <2>2 DEF Crash
<1> QED
  BY <1>1, <1>2, <1>3, <1>4, <1>5, <1>6, <1>7, <1>8, <1>9 DEF WorkerStep

\* A usage post leaves the master's tables well typed.
LEMMA HandleUsageTypeOK ==
    ASSUME TypeOK, NEW n \in Nodes, NEW rows \in SUBSET Requests, HandleUsage(n, rows)
    PROVE  /\ batches' \subseteq Nodes \X SUBSET Requests
           /\ logs' \subseteq Requests
           /\ billed' \in [Requests -> Nat]
           /\ book' \in Book
           /\ revoked' \subseteq Nodes
<1> USE DEF TypeOK, ControlTypeOK, MoneyTypeOK
<1>1. Debit(book, ToBill(rows)) \in Book
  BY DebitType DEF ToBill, Fresh
<1>2. BatchID(n, rows) \in Nodes \X SUBSET Requests
  BY DEF BatchID
<1> QED
  BY <1>1, <1>2 DEF HandleUsage

\* The master's handlers and its administration keep the types.
LEMMA MasterTypeOK == TypeOK /\ MasterStep => TypeOK'
<1> SUFFICES ASSUME TypeOK, MasterStep PROVE TypeOK'
  OBVIOUS
<1> USE DEF TypeOK, ControlTypeOK, MoneyTypeOK, worker, master, requests
<1>1. ASSUME NEW n \in Nodes, MasterUsage(n) PROVE TypeOK'
  BY <1>1, HandleUsageTypeOK DEF MasterUsage
<1>2. ASSUME NEW n \in Nodes, MasterRefuse(n) PROVE TypeOK'
  BY <1>2 DEF MasterRefuse
<1>3. ASSUME NEW n \in Nodes, MasterSnapshot(n) PROVE TypeOK'
  BY <1>3 DEF MasterSnapshot
<1>4. ASSUME NEW m \in late, MasterUsageLate(m[1], m[2]) PROVE TypeOK'
  <2>1. m[1] \in Nodes /\ m[2] \in SUBSET Requests
    OBVIOUS
  <2>2. HandleUsage(m[1], m[2])
    BY <1>4 DEF MasterUsageLate
  <2> QED BY <1>4, <2>1, <2>2, HandleUsageTypeOK DEF MasterUsageLate
<1>5. ASSUME NEW u \in Users, Credit(u) PROVE TypeOK'
  <2> DEFINE bal == [book.bal EXCEPT ![u] = @ + 1]
             credited == [book.credited EXCEPT ![u] = @ + 1]
  <2>1. bal \in [Users -> Int] /\ credited \in [Users -> 0..MaxCredit]
    BY <1>5, ConstantsAssumption DEF Credit, Book
  <2>2. book' = [book EXCEPT !.bal = bal, !.credited = credited]
    BY <1>5 DEF Credit, Book
  <2>3. book' \in Book
    <3> HIDE DEF bal, credited
    <3> QED BY <2>1, <2>2 DEF Book
  <2> QED BY <1>5, <2>3 DEF Credit
<1>6. ASSUME NEW u \in Users, DeleteUser(u) PROVE TypeOK'
  <2>1. book' \in Book
    BY <1>6 DEF DeleteUser, Book
  <2> QED BY <1>6, <2>1 DEF DeleteUser
<1>7. ASSUME NEW k \in Keys, DeleteKey(k) PROVE TypeOK'
  <2>1. book' \in Book
    BY <1>7 DEF DeleteKey, Book
  <2> QED BY <1>7, <2>1 DEF DeleteKey
<1>8. ASSUME NEW n \in Nodes, RevokeNode(n) PROVE TypeOK'
  BY <1>8 DEF RevokeNode
<1> QED
  BY <1>1, <1>2, <1>3, <1>4, <1>5, <1>6, <1>7, <1>8 DEF MasterStep

\* Every variable keeps its type in every reachable state.
THEOREM TypeCorrect == Spec => []TypeOK
<1>1. TypeOK /\ [Next]_vars => TypeOK'
  <2>1. TypeOK /\ UNCHANGED vars => TypeOK'
    BY DEF TypeOK, ControlTypeOK, MoneyTypeOK, vars, worker, master, requests
  <2> QED
    BY <2>1, ServeTypeOK, WorkerTypeOK, MasterTypeOK DEF Next
<1> QED
  BY InitTypeOK, <1>1, PTL DEF Spec

-----------------------------------------------------------------------------
(* Safety *)

\* Before the first request there is nothing to lose and nothing to bill.
LEMMA InitLedgerInv == Init => LedgerInv
BY ConstantsAssumption
   DEF Init, LedgerInv, RowsRecorded, LockHeld, NoRowLost, AckedRowsAreDurable,
       DebitsMatchLogs, ChargesTravel, Due, HasUser, Recorded

\* A request whose row is not on the master has never been debited.
LEMMA NeverBilledUnlessCharged ==
    ASSUME TypeOK, LedgerInv, NEW r \in Requests,
           outcome[r] # "charged" \/ (HasUser(r) /\ r \notin logs)
    PROVE  billed[r] = 0
<1>1. billed[r] \in Nat
  BY DEF TypeOK, ControlTypeOK
<1>2. billed[r] =< 1 /\ billed[r] # 1
  BY DEF LedgerInv, DebitsMatchLogs
<1> QED BY <1>1, <1>2

\* Serving a request keeps the ledger safe: a worker's charge is in its mirror
\* and its outbox at once, a charge on the master in its books and its logs.
LEMMA ServeLedgerInv == TypeOK /\ LedgerInv /\ ServeStep => LedgerInv'
<1> SUFFICES ASSUME TypeOK, LedgerInv, NEW r \in Requests,
                    \/ \E n \in Nodes \cup {Master} : Begin(n, r)
                    \/ \E n \in Nodes : \/ RecordCharged(n, r) \/ RecordFree(n, r)
                                        \/ RecordAudio(n, r) \/ RecordDropped(n, r)
                    \/ MasterRecordCharged(r) \/ MasterRecordFree(r)
                    \/ MasterRecordDropped(r)
             PROVE  LedgerInv'
  BY DEF ServeStep
<1> USE DEF TypeOK, ControlTypeOK, MoneyTypeOK, worker, master, requests, Recorded,
            LedgerInv, RowsRecorded, LockHeld, NoRowLost, AckedRowsAreDurable,
            DebitsMatchLogs, ChargesTravel, OnMaster, Due, HasUser
<1>1. ASSUME NEW n \in Nodes \cup {Master}, Begin(n, r) PROVE LedgerInv'
  BY <1>1 DEF Begin
<1>2. ASSUME NEW n \in Nodes, RecordCharged(n, r) PROVE LedgerInv'
  BY <1>2, DebitType DEF RecordCharged, LedgerFree, AddRow
<1>3. ASSUME NEW n \in Nodes, RecordFree(n, r) \/ RecordAudio(n, r) PROVE LedgerInv'
  <2>1. /\ outcome[r] = "active" /\ home[r] = n
        /\ mirror' = mirror
        /\ AddRow(n, r, "free")
    BY <1>3 DEF RecordFree, RecordAudio
  <2> QED BY <2>1 DEF AddRow
<1>4. ASSUME NEW n \in Nodes, RecordDropped(n, r) PROVE LedgerInv'
  BY <1>4 DEF RecordDropped
<1>5. CASE MasterRecordCharged(r)
  <2>1. book'.users = book.users /\ book'.debited = book.debited \cup {r}
    BY <1>5, DebitType DEF MasterRecordCharged
  <2>2. /\ outcome[r] = "active" /\ home[r] = Master /\ HasUser(r)
        /\ outcome' = [outcome EXCEPT ![r] = "charged"]
        /\ logs' = logs \cup {r}
        /\ UNCHANGED <<home, rowId, worker, late, batches, revoked, faults>>
    BY <1>5 DEF MasterRecordCharged
  <2>3. billed' = [billed EXCEPT ![r] = billed[r] + 1]
    BY <1>5 DEF MasterRecordCharged
  <2>4. home[r] \notin Nodes
    BY <2>2, ConstantsAssumption
  <2>5. RowsRecorded' /\ LockHeld' /\ NoRowLost'
    BY <2>1, <2>2, <2>4
  <2>6. AckedRowsAreDurable'
    BY <2>1, <2>2, <2>4
  <2>7. DebitsMatchLogs'
    BY <2>1, <2>2, <2>3, NeverBilledUnlessCharged
  <2>8. ChargesTravel'
    BY <2>1, <2>2, <2>4
  <2> QED BY <2>5, <2>6, <2>7, <2>8
<1>6. CASE MasterRecordFree(r)
  BY <1>6, ConstantsAssumption DEF MasterRecordFree
<1>7. CASE MasterRecordDropped(r)
  BY <1>7 DEF MasterRecordDropped
<1> QED
  BY <1>1, <1>2, <1>3, <1>4, <1>5, <1>6, <1>7

\* A flush or a sync, cut off wherever it may be, keeps the ledger safe: rows
\* leave the outbox only after the acknowledgement, and a snapshot is applied
\* only when it contains everything the worker has charged.
LEMMA WorkerLedgerInv ==
    ASSUME TypeOK, LedgerInv, NEW n \in Nodes, WorkerStep(n) PROVE LedgerInv'
<1> USE DEF TypeOK, ControlTypeOK, MoneyTypeOK, worker, master, requests, Recorded,
            LedgerInv, RowsRecorded, LockHeld, NoRowLost, AckedRowsAreDurable,
            DebitsMatchLogs, ChargesTravel, OnMaster, Due, HasUser
<1>1. CASE FlushBegin(n)
  BY <1>1, LowestSubset DEF FlushBegin, PostBatch
<1>2. CASE SyncBegin(n)
  BY <1>2 DEF SyncBegin
<1>3. CASE SyncDrain(n)
  <2>1. CASE pending[n] # {}
    BY <1>3, <2>1, LowestSubset DEF SyncDrain, PostBatch
  <2>2. CASE pending[n] = {}
    BY <1>3, <2>2 DEF SyncDrain
  <2> QED BY <2>1, <2>2
<1>4. CASE FlushAck(n)
  BY <1>4 DEF FlushAck
<1>5. CASE DeleteRows(n)
  BY <1>5, LowestSubset DEF DeleteRows
<1>6. CASE ApplySnapshot(n)
  BY <1>6 DEF ApplySnapshot
<1>7. CASE Refused(n)
  BY <1>7 DEF Refused, GiveUp
<1>8. CASE Fail(n)
  BY <1>8 DEF Fail, GiveUp, BatchID
<1>9. CASE Crash(n)
  BY <1>9 DEF Crash, BatchID
<1> QED
  BY <1>1, <1>2, <1>3, <1>4, <1>5, <1>6, <1>7, <1>8, <1>9 DEF WorkerStep

\* A usage post that the master accepts, new or replayed, leaves every row of
\* the batch on the master, forgets nothing and debits nothing twice.
LEMMA HandleUsageSafe ==
    ASSUME TypeOK, LedgerInv, NEW n \in Nodes, NEW rows \in SUBSET Requests,
           \A r \in rows : home[r] = n /\ outcome[r] \in Recorded,
           HandleUsage(n, rows), UNCHANGED requests
    PROVE  /\ logs \subseteq logs'
           /\ book'.users = book.users /\ book.debited \subseteq book'.debited
           /\ \A r \in logs' : outcome[r] \in Recorded /\ HasUser(r)
           /\ \A r \in rows : OnMaster(r)'
           /\ \A m \in batches' : m \in batches \/ m = <<n, rows>>
           /\ DebitsMatchLogs'
<1> USE DEF TypeOK, ControlTypeOK, MoneyTypeOK, requests, HasUser, Due, OnMaster
<1>1. CASE Replayed(n, rows)
  <2>1. UNCHANGED <<batches, logs, book, billed>>
    BY <1>1 DEF HandleUsage
  <2>2. <<n, rows>> \in batches
    BY <1>1 DEF Replayed, BatchID
  <2>3. \A r \in rows : OnMaster(r)
    BY <2>2 DEF LedgerInv, AckedRowsAreDurable
  <2> QED
    BY <2>1, <2>3 DEF LedgerInv, RowsRecorded, DebitsMatchLogs
<1>2. CASE ~Replayed(n, rows)
  <2> DEFINE bill == ToBill(rows)
  <2>1. /\ Acceptable(rows)
        /\ batches' = batches \cup {<<n, rows>>}
        /\ logs' = logs \cup rows
        /\ book' = Debit(book, bill)
        /\ billed' = [r \in Requests |-> billed[r] + IF r \in bill THEN 1 ELSE 0]
    BY <1>2 DEF HandleUsage, BatchID
  <2>2. bill = {r \in rows \ logs : Due(r)}
    BY DEF ToBill, Fresh
  <2>3. \A r \in rows \ logs : HasUser(r)
    BY <2>1 DEF Acceptable, Fresh
  <2> HIDE DEF bill
  <2>4. book'.users = book.users /\ book'.debited = book.debited \cup bill
    BY <2>1, <2>2, DebitType
  <2>5. \A r \in logs' : outcome[r] \in Recorded /\ HasUser(r)
    BY <2>1, <2>3 DEF LedgerInv, RowsRecorded
  <2>6. \A r \in bill : billed[r] = 0
    BY <2>2, <2>3, NeverBilledUnlessCharged
  <2>7. \A r \in logs : Due(r) => r \in book.debited /\ billed[r] = 1
    BY DEF LedgerInv, DebitsMatchLogs
  <2>8. \A r \in rows : OnMaster(r)'
    BY <2>1, <2>2, <2>4, <2>7
  <2>9. DebitsMatchLogs'
    <3> SUFFICES ASSUME NEW r \in Requests
                 PROVE  /\ billed'[r] =< 1
                        /\ billed'[r] = 1 => outcome[r] = "charged" /\ (HasUser(r) => r \in logs')
                        /\ r \in logs' /\ Due(r) => billed'[r] = 1 /\ r \in book'.debited
      BY <2>4 DEF DebitsMatchLogs
    <3>1. CASE r \in bill
      BY <3>1, <2>1, <2>2, <2>4, <2>6
    <3>2. CASE r \notin bill
      <4>1. billed'[r] = billed[r]
        BY <3>2, <2>1
      <4> QED
        BY <3>2, <4>1, <2>1, <2>2, <2>4, <2>7 DEF LedgerInv, DebitsMatchLogs
    <3> QED BY <3>1, <3>2
  <2> QED
    BY <2>1, <2>4, <2>5, <2>8, <2>9
<1> QED BY <1>1, <1>2

\* The master's handlers and its administration keep the ledger safe.
LEMMA MasterLedgerInv == TypeOK /\ LedgerInv /\ MasterStep => LedgerInv'
<1> SUFFICES ASSUME TypeOK, LedgerInv, MasterStep PROVE LedgerInv'
  OBVIOUS
<1> USE DEF TypeOK, ControlTypeOK, MoneyTypeOK, worker, master, requests, Recorded,
            LedgerInv, RowsRecorded, LockHeld, NoRowLost, AckedRowsAreDurable,
            DebitsMatchLogs, ChargesTravel, OnMaster, Due, HasUser
<1>1. ASSUME NEW n \in Nodes, MasterUsage(n) PROVE LedgerInv'
  <2>1. HandleUsage(n, batch[n]) /\ UNCHANGED requests
    BY <1>1 DEF MasterUsage
  <2>2. /\ logs \subseteq logs'
        /\ book'.users = book.users /\ book.debited \subseteq book'.debited
        /\ \A r \in logs' : outcome[r] \in Recorded /\ HasUser(r)
        /\ \A r \in batch[n] : OnMaster(r)'
        /\ \A m \in batches' : m \in batches \/ m = <<n, batch[n]>>
        /\ DebitsMatchLogs'
    <3>1. batch[n] \in SUBSET Requests
      OBVIOUS
    <3>2. \A r \in batch[n] : home[r] = n /\ outcome[r] \in Recorded
      OBVIOUS
    <3> HIDE DEF LedgerInv, TypeOK, OnMaster, DebitsMatchLogs, HasUser, requests, Recorded
    <3> QED BY <2>1, <3>1, <3>2, HandleUsageSafe
  <2>3. RowsRecorded'
    BY <1>1, <2>2 DEF MasterUsage
  <2>4. LockHeld' /\ NoRowLost'
    BY <1>1, <2>2 DEF MasterUsage
  <2>5. AckedRowsAreDurable'
    BY <1>1, <2>2 DEF MasterUsage
  <2>6. ChargesTravel'
    BY <1>1, <2>2 DEF MasterUsage
  <2> QED BY <2>2, <2>3, <2>4, <2>5, <2>6
<1>2. ASSUME NEW n \in Nodes, MasterRefuse(n) PROVE LedgerInv'
  BY <1>2 DEF MasterRefuse
<1>3. ASSUME NEW n \in Nodes, MasterSnapshot(n) PROVE LedgerInv'
  BY <1>3 DEF MasterSnapshot
<1>4. ASSUME NEW p \in late, MasterUsageLate(p[1], p[2]) PROVE LedgerInv'
  <2>1. HandleUsage(p[1], p[2]) /\ UNCHANGED requests
    BY <1>4 DEF MasterUsageLate
  <2>2. /\ logs \subseteq logs'
        /\ book'.users = book.users /\ book.debited \subseteq book'.debited
        /\ \A r \in logs' : outcome[r] \in Recorded /\ HasUser(r)
        /\ \A r \in p[2] : OnMaster(r)'
        /\ \A m \in batches' : m \in batches \/ m = <<p[1], p[2]>>
        /\ DebitsMatchLogs'
    <3>1. p[1] \in Nodes /\ p[2] \in SUBSET Requests
      OBVIOUS
    <3>2. \A r \in p[2] : home[r] = p[1] /\ outcome[r] \in Recorded
      OBVIOUS
    <3> HIDE DEF LedgerInv, TypeOK, OnMaster, DebitsMatchLogs, HasUser, requests, Recorded
    <3> QED BY <2>1, <3>1, <3>2, HandleUsageSafe
  <2>3. RowsRecorded'
    BY <1>4, <2>2 DEF MasterUsageLate
  <2>4. LockHeld' /\ NoRowLost'
    BY <1>4, <2>2 DEF MasterUsageLate
  <2>5. AckedRowsAreDurable'
    BY <1>4, <2>2 DEF MasterUsageLate
  <2>6. ChargesTravel'
    BY <1>4, <2>2 DEF MasterUsageLate
  <2> QED BY <2>2, <2>3, <2>4, <2>5, <2>6
<1>5. ASSUME NEW u \in Users, Credit(u) PROVE LedgerInv'
  <2>1. book'.debited = book.debited /\ book'.users = book.users
    BY <1>5 DEF Credit, Book
  <2> QED BY <1>5, <2>1 DEF Credit
<1>6. ASSUME NEW u \in Users, DeleteUser(u) PROVE LedgerInv'
  <2>1. book'.debited = book.debited /\ book'.users = book.users \ {u}
    BY <1>6 DEF DeleteUser, Book
  <2> QED BY <1>6, <2>1 DEF DeleteUser
<1>7. ASSUME NEW k \in Keys, DeleteKey(k) PROVE LedgerInv'
  <2>1. book'.debited = book.debited /\ book'.users = book.users
    BY <1>7 DEF DeleteKey, Book
  <2> QED BY <1>7, <2>1 DEF DeleteKey
<1>8. ASSUME NEW n \in Nodes, RevokeNode(n) PROVE LedgerInv'
  BY <1>8 DEF RevokeNode
<1> QED
  BY <1>1, <1>2, <1>3, <1>4, <1>5, <1>6, <1>7, <1>8 DEF MasterStep

\* The inductive invariant holds in every reachable state.
THEOREM LedgerSafe == Spec => []LedgerInv
<1>1. TypeOK /\ LedgerInv /\ [Next]_vars => LedgerInv'
  <2>1. LedgerInv /\ UNCHANGED vars => LedgerInv'
    BY DEF LedgerInv, RowsRecorded, LockHeld, NoRowLost, AckedRowsAreDurable, OnMaster,
           DebitsMatchLogs, ChargesTravel, Due, HasUser, vars, worker, master, requests
  <2> QED
    BY <2>1, ServeLedgerInv, WorkerLedgerInv, MasterLedgerInv DEF Next
<1> QED
  BY InitLedgerInv, TypeCorrect, <1>1, PTL DEF Spec

\* Through every interleaving of retries, replays, crashes and deletions, a
\* recorded request stays in its worker's outbox until usage_logs has it.
THEOREM RowsAreNeverLost == Spec => []NoRowLost
<1>1. LedgerInv => NoRowLost
  BY DEF LedgerInv
<1> QED BY LedgerSafe, <1>1, PTL

\* The master debits a request at most once, and never a request that was not
\* charged.
THEOREM BillingIsExactlyOnce == Spec => []BilledExactlyOnce
<1>1. LedgerInv => BilledExactlyOnce
  BY DEF LedgerInv, DebitsMatchLogs, BilledExactlyOnce, Due
<1> QED BY LedgerSafe, <1>1, PTL

\* No snapshot returns to a worker's users what they already spent there.
THEOREM SnapshotsKeepSpending == Spec => []MirrorCoversLocalSpending
<1>1. LedgerInv => MirrorCoversLocalSpending
  BY DEF LedgerInv, ChargesTravel, MirrorCoversLocalSpending, Due
<1> QED BY LedgerSafe, <1>1, PTL

-----------------------------------------------------------------------------
(* The accounts *)

\* What debiting does to the totals.
LEMMA DebitAmounts ==
    ASSUME NEW b \in Book, NEW S \in SUBSET Requests
    PROVE  /\ \A u \in Users :
                 Debit(b, S).bal[u] = b.bal[u] - TotalCost(RowsOfUser(S, u))
           /\ \A k \in Keys :
                 Debit(b, S).spent[k] = b.spent[k] + TotalCost(RowsOfKey(S, k))
           /\ Debit(b, S).bal = [u \in Users |-> b.bal[u] - TotalCost(RowsOfUser(S, u))]
           /\ Debit(b, S).credited = b.credited
<1> DEFINE bal == [u \in Users |-> b.bal[u] - TotalCost(RowsOfUser(S, u))]
           spent == [k \in Keys |-> b.spent[k] + TotalCost(RowsOfKey(S, k))]
<1>1. Debit(b, S) = [b EXCEPT !.bal = bal, !.spent = spent,
                              !.debited = b.debited \cup S]
  BY DEF Debit
<1>2. /\ \A u \in Users : bal[u] = b.bal[u] - TotalCost(RowsOfUser(S, u))
      /\ \A k \in Keys : spent[k] = b.spent[k] + TotalCost(RowsOfKey(S, k))
      /\ bal = [u \in Users |-> b.bal[u] - TotalCost(RowsOfUser(S, u))]
  OBVIOUS
<1> HIDE DEF bal, spent
<1>3. Debit(b, S).bal = bal /\ Debit(b, S).spent = spent /\ Debit(b, S).credited = b.credited
  BY <1>1 DEF Book
<1> QED BY <1>2, <1>3

\* Debiting rows that a book does not account for yet keeps its accounts right.
LEMMA DebitAddsUp ==
    ASSUME NEW b \in Book, AddsUp(b), NEW S \in SUBSET Requests, S \cap b.debited = {}
    PROVE  AddsUp(Debit(b, S))
<1> DEFINE d == Debit(b, S)
<1>1. b.debited \in SUBSET Requests /\ d.debited = b.debited \cup S
  BY DebitType DEF Book
<1>2. d.credited = b.credited
  BY DebitAmounts
<1>3. ASSUME NEW u \in Users
      PROVE  d.bal[u] = InitBalance + d.credited[u] - TotalCost(RowsOfUser(d.debited, u))
  <2> DEFINE old == RowsOfUser(b.debited, u)
             new == RowsOfUser(S, u)
  <2>1. /\ old \in SUBSET Requests /\ new \in SUBSET Requests /\ old \cap new = {}
        /\ RowsOfUser(d.debited, u) = old \cup new
    BY <1>1 DEF RowsOfUser
  <2>2. d.bal[u] = b.bal[u] - TotalCost(new)
    BY DebitAmounts
  <2>3. b.bal[u] = InitBalance + b.credited[u] - TotalCost(old)
    BY DEF AddsUp
  <2> HIDE DEF old, new, d
  <2>4. /\ TotalCost(old) \in Nat /\ TotalCost(new) \in Nat
        /\ TotalCost(old \cup new) = TotalCost(old) + TotalCost(new)
    BY <2>1, TotalCosts
  <2>5. InitBalance \in Int /\ b.credited[u] \in Int
    BY ConstantsAssumption DEF Book
  <2> QED BY <1>2, <2>1, <2>2, <2>3, <2>4, <2>5
<1>4. ASSUME NEW k \in Keys PROVE d.spent[k] = TotalCost(RowsOfKey(d.debited, k))
  <2> DEFINE old == RowsOfKey(b.debited, k)
             new == RowsOfKey(S, k)
  <2>1. /\ old \in SUBSET Requests /\ new \in SUBSET Requests /\ old \cap new = {}
        /\ RowsOfKey(d.debited, k) = old \cup new
    BY <1>1 DEF RowsOfKey
  <2>2. d.spent[k] = b.spent[k] + TotalCost(new)
    BY DebitAmounts
  <2>3. b.spent[k] = TotalCost(old)
    BY DEF AddsUp
  <2> HIDE DEF old, new, d
  <2>4. /\ TotalCost(old) \in Nat /\ TotalCost(new) \in Nat
        /\ TotalCost(old \cup new) = TotalCost(old) + TotalCost(new)
    BY <2>1, TotalCosts
  <2> QED BY <2>1, <2>2, <2>3, <2>4
<1> HIDE DEF d
<1>5. AddsUp(d)
  BY <1>3, <1>4 DEF AddsUp
<1> QED BY <1>5 DEF d

\* The rows the master bills are due rows that its accounts do not contain.
LEMMA BilledRowsAreNew ==
    ASSUME TypeOK, LedgerInv, DebitedRowsAreCharged, NEW rows \in SUBSET Requests,
           Acceptable(rows)
    PROVE  /\ ToBill(rows) \in SUBSET Requests
           /\ ToBill(rows) \cap book.debited = {}
           /\ \A r \in ToBill(rows) : Due(r) /\ billed[r] = 0
<1>1. ToBill(rows) = {r \in rows \ logs : outcome[r] = "charged" /\ Cost[r] > 0}
  BY DEF ToBill, Fresh
<1>2. \A r \in rows \ logs : HasUser(r)
  BY DEF Acceptable, Fresh, HasUser
<1>3. \A r \in ToBill(rows) : billed[r] = 0
  BY <1>1, <1>2, NeverBilledUnlessCharged
<1>4. \A r \in book.debited : billed[r] = 1
  BY DEF DebitedRowsAreCharged
<1> QED BY <1>1, <1>3, <1>4 DEF Due

\* The accounts are right, and contain what they should, in every book.
AccountsInv == AccountsAddUp /\ DebitedRowsAreCharged

\* The opening accounts add up.
LEMMA InitAccounts == Init => AccountsInv
<1> SUFFICES ASSUME Init PROVE AccountsInv
  OBVIOUS
<1>1. AddsUp(EmptyBook)
  <2>1. \A u, k : RowsOfUser({}, u) = {} /\ RowsOfKey({}, k) = {}
    BY DEF RowsOfUser, RowsOfKey
  <2>2. TotalCost({}) = 0
    BY TotalCostIsSum, SumPicked, FS_EmptySet
  <2>3. InitBalance \in Int
    BY ConstantsAssumption
  <2>4. /\ EmptyBook.bal = [u \in Users |-> InitBalance]
        /\ EmptyBook.spent = [k \in Keys |-> 0]
        /\ EmptyBook.debited = {} /\ EmptyBook.credited = [u \in Users |-> 0]
    BY DEF EmptyBook
  <2>5. ASSUME NEW u \in Users
        PROVE  EmptyBook.bal[u] = InitBalance + EmptyBook.credited[u]
                                    - TotalCost(RowsOfUser(EmptyBook.debited, u))
    BY <2>1, <2>2, <2>3, <2>4
  <2>6. ASSUME NEW k \in Keys
        PROVE  EmptyBook.spent[k] = TotalCost(RowsOfKey(EmptyBook.debited, k))
    BY <2>1, <2>2, <2>4
  <2> QED BY <2>5, <2>6 DEF AddsUp
<1>2. book = EmptyBook /\ \A n \in Nodes : mirror[n] = EmptyBook /\ snap[n] = EmptyBook
  BY DEF Init
<1>3. EmptyBook.debited = {}
  BY DEF EmptyBook
<1> QED BY <1>1, <1>2, <1>3 DEF AccountsInv, AccountsAddUp, DebitedRowsAreCharged

\* A usage post keeps the master's accounts right, however often it arrives.
LEMMA HandleUsageAccounts ==
    ASSUME TypeOK, LedgerInv, AccountsInv, NEW n \in Nodes, NEW rows \in SUBSET Requests,
           HandleUsage(n, rows)
    PROVE  AddsUp(book') /\ \A r \in book'.debited : billed'[r] = 1
<1> USE DEF TypeOK, ControlTypeOK, MoneyTypeOK, AccountsInv, AccountsAddUp,
            DebitedRowsAreCharged
<1>1. CASE Replayed(n, rows)
  BY <1>1 DEF HandleUsage
<1>2. CASE ~Replayed(n, rows)
  <2> DEFINE bill == ToBill(rows)
  <2>1. /\ Acceptable(rows)
        /\ book' = Debit(book, bill)
        /\ billed' = [r \in Requests |-> billed[r] + IF r \in bill THEN 1 ELSE 0]
    BY <1>2 DEF HandleUsage
  <2>2. bill \in SUBSET Requests /\ bill \cap book.debited = {} /\ \A r \in bill : billed[r] = 0
    BY <2>1, BilledRowsAreNew
  <2> HIDE DEF bill
  <2>3. AddsUp(book')
    BY <2>1, <2>2, DebitAddsUp
  <2>4. book'.debited = book.debited \cup bill
    BY <2>1, <2>2, DebitType
  <2>5. book.debited \in SUBSET Requests
    BY DEF Book
  <2>6. ASSUME NEW r \in book'.debited PROVE billed'[r] = 1
    <3>1. CASE r \in bill
      BY <2>1, <2>2, <3>1
    <3>2. CASE r \notin bill
      <4>1. r \in book.debited /\ r \in Requests
        BY <2>4, <2>5, <3>2
      <4>2. billed'[r] = billed[r] + 0 /\ billed[r] = 1
        BY <2>1, <3>2, <4>1
      <4> QED BY <4>2
    <3> QED BY <3>1, <3>2
  <2> QED BY <2>3, <2>6
<1> QED BY <1>1, <1>2

\* Every step keeps every book right.
LEMMA NextAccounts ==
    ASSUME TypeOK, LedgerInv, AccountsInv, [Next]_vars PROVE AccountsInv'
<1> USE DEF worker, master, requests
<1> DEFINE Same == /\ UNCHANGED <<mirror, snap, book, billed>>
                   /\ \A r \in Requests : outcome[r] = "charged" => outcome'[r] = "charged"
<1>0. /\ book \in Book /\ \A n \in Nodes : mirror[n] \in Book /\ snap[n] \in Book
      /\ book.debited \in SUBSET Requests
      /\ \A n \in Nodes : /\ mirror[n].debited \in SUBSET Requests
                          /\ snap[n].debited \in SUBSET Requests
  BY DEF TypeOK, MoneyTypeOK, Book
<1>s. ASSUME Same PROVE AccountsInv'
  BY <1>s, <1>0 DEF AccountsInv, AccountsAddUp, DebitedRowsAreCharged, AddsUp
<1>b. ASSUME UNCHANGED <<mirror, snap, outcome>>, AddsUp(book'),
             \A r \in book'.debited : billed'[r] = 1
      PROVE  AccountsInv'
  BY <1>b DEF AccountsInv, AccountsAddUp, DebitedRowsAreCharged, AddsUp
<1>m. ASSUME NEW b \in Book, AddsUp(book), b.bal = book.bal, b.spent = book.spent,
             b.debited = book.debited, b.credited = book.credited
      PROVE  AddsUp(b)
  BY <1>m DEF AddsUp
<1>1. ASSUME NEW n \in Nodes \cup {Master}, NEW r \in Requests, Begin(n, r)
      PROVE  AccountsInv'
  BY <1>1, <1>s DEF Begin, TypeOK, ControlTypeOK
<1>2. ASSUME NEW n \in Nodes, NEW r \in Requests, RecordCharged(n, r) PROVE AccountsInv'
  <2>1. /\ outcome[r] = "active"
        /\ mirror' = [mirror EXCEPT ![n] = Debit(mirror[n], {r})]
        /\ outcome' = [outcome EXCEPT ![r] = "charged"]
        /\ UNCHANGED <<snap, book, billed>>
    BY <1>2 DEF RecordCharged, AddRow
  <2>2. {r} \cap mirror[n].debited = {}
    BY <2>1 DEF AccountsInv, DebitedRowsAreCharged
  <2>3. AddsUp(Debit(mirror[n], {r})) /\ Debit(mirror[n], {r}).debited = mirror[n].debited \cup {r}
    BY <1>0, <2>2, DebitAddsUp, DebitType DEF AccountsInv, AccountsAddUp
  <2>4. \A m \in Nodes : AddsUp(mirror'[m])
    BY <2>1, <2>3 DEF AccountsInv, AccountsAddUp, TypeOK, MoneyTypeOK
  <2>5. ASSUME NEW m \in Nodes, NEW q \in mirror'[m].debited \cup snap[m].debited
        PROVE  outcome'[q] = "charged"
    <3>1. q \in mirror[m].debited \cup snap[m].debited \cup {r}
      BY <2>1, <2>3 DEF TypeOK, MoneyTypeOK
    <3>2. q \in Requests /\ (q = r \/ outcome[q] = "charged")
      BY <1>0, <3>1 DEF AccountsInv, DebitedRowsAreCharged
    <3> QED BY <2>1, <3>2 DEF TypeOK, ControlTypeOK
  <2> QED BY <2>1, <2>4, <2>5 DEF AccountsInv, AccountsAddUp, DebitedRowsAreCharged, AddsUp
<1>3. ASSUME NEW n \in Nodes, NEW r \in Requests, RecordFree(n, r) \/ RecordAudio(n, r)
      PROVE  AccountsInv'
  BY <1>3, <1>s DEF RecordFree, RecordAudio, AddRow, TypeOK, ControlTypeOK
<1>4. ASSUME NEW n \in Nodes, NEW r \in Requests, RecordDropped(n, r) PROVE AccountsInv'
  BY <1>4, <1>s DEF RecordDropped, TypeOK, ControlTypeOK
<1>5. ASSUME NEW r \in Requests, MasterRecordCharged(r) PROVE AccountsInv'
  <2>1. /\ outcome[r] = "active"
        /\ book' = Debit(book, {r})
        /\ billed' = [billed EXCEPT ![r] = billed[r] + 1]
        /\ outcome' = [outcome EXCEPT ![r] = "charged"]
        /\ UNCHANGED <<mirror, snap>>
    BY <1>5 DEF MasterRecordCharged
  <2>2. billed[r] = 0
    BY <2>1, NeverBilledUnlessCharged
  <2>3. {r} \cap book.debited = {}
    BY <2>2 DEF AccountsInv, DebitedRowsAreCharged
  <2>4. AddsUp(book') /\ book'.debited = book.debited \cup {r}
    BY <1>0, <2>1, <2>3, DebitAddsUp, DebitType DEF AccountsInv, AccountsAddUp
  <2>5. ASSUME NEW q \in book'.debited PROVE billed'[q] = 1
    <3>1. billed \in [Requests -> Nat]
      BY DEF TypeOK, ControlTypeOK
    <3>2. CASE q = r
      BY <2>1, <2>2, <3>1, <3>2
    <3>3. CASE q # r
      <4>1. q \in book.debited /\ q \in Requests
        BY <1>0, <2>4, <3>3
      <4>2. billed[q] = 1
        BY <4>1 DEF AccountsInv, DebitedRowsAreCharged
      <4> QED BY <2>1, <3>1, <3>3, <4>1, <4>2
    <3> QED BY <3>2, <3>3
  <2>6. \A m \in Nodes : \A q \in mirror[m].debited \cup snap[m].debited :
           outcome'[q] = "charged"
    BY <1>0, <2>1 DEF AccountsInv, DebitedRowsAreCharged, TypeOK, ControlTypeOK
  <2> QED BY <2>1, <2>4, <2>5, <2>6
          DEF AccountsInv, AccountsAddUp, DebitedRowsAreCharged, AddsUp
<1>6. ASSUME NEW r \in Requests, MasterRecordFree(r) \/ MasterRecordDropped(r)
      PROVE  AccountsInv'
  BY <1>6, <1>s DEF MasterRecordFree, MasterRecordDropped, TypeOK, ControlTypeOK
<1>7. ASSUME NEW n \in Nodes, WorkerStep(n) PROVE AccountsInv'
  <2>1. CASE ApplySnapshot(n)
    <3>1. /\ mirror' = [mirror EXCEPT ![n] = snap[n]]
          /\ UNCHANGED <<snap, book, billed, outcome>>
      BY <2>1 DEF ApplySnapshot
    <3>2. \A m \in Nodes : mirror'[m] = mirror[m] \/ mirror'[m] = snap[m]
      BY <3>1 DEF TypeOK, MoneyTypeOK
    <3> QED BY <3>1, <3>2
            DEF AccountsInv, AccountsAddUp, DebitedRowsAreCharged, AddsUp
  <2>2. CASE Crash(n)
    BY <2>2, <1>s DEF Crash, TypeOK, ControlTypeOK
  <2>3. CASE FlushBegin(n) \/ SyncBegin(n) \/ SyncDrain(n) \/ FlushAck(n) \/ DeleteRows(n)
             \/ Refused(n) \/ Fail(n)
    <3>1. UNCHANGED <<mirror, snap, book, billed, outcome>>
      BY <2>3 DEF FlushBegin, SyncBegin, SyncDrain, FlushAck, DeleteRows, Refused, Fail,
                  GiveUp
    <3> QED BY <3>1, <1>s
  <2> QED BY <1>7, <2>1, <2>2, <2>3 DEF WorkerStep
<1>8. ASSUME NEW n \in Nodes, MasterUsage(n) PROVE AccountsInv'
  <2>1. HandleUsage(n, batch[n]) /\ UNCHANGED <<mirror, snap, outcome>>
    BY <1>8 DEF MasterUsage
  <2>2. batch[n] \in SUBSET Requests
    BY DEF TypeOK, ControlTypeOK
  <2> QED BY <1>b, <2>1, <2>2, HandleUsageAccounts
<1>9. ASSUME NEW m \in late, MasterUsageLate(m[1], m[2]) PROVE AccountsInv'
  <2>1. HandleUsage(m[1], m[2]) /\ UNCHANGED <<mirror, snap, outcome>>
    BY <1>9 DEF MasterUsageLate
  <2>2. m[1] \in Nodes /\ m[2] \in SUBSET Requests
    BY DEF TypeOK, ControlTypeOK
  <2> QED BY <1>b, <2>1, <2>2, HandleUsageAccounts
<1>10. ASSUME NEW n \in Nodes, MasterRefuse(n) \/ RevokeNode(n) PROVE AccountsInv'
  BY <1>10, <1>s DEF MasterRefuse, RevokeNode
<1>11. ASSUME NEW n \in Nodes, MasterSnapshot(n) PROVE AccountsInv'
  <2>1. /\ snap' = [snap EXCEPT ![n] = book]
        /\ UNCHANGED <<mirror, book, billed, outcome>>
    BY <1>11 DEF MasterSnapshot
  <2>2. \A m \in Nodes : snap'[m] = snap[m] \/ snap'[m] = book
    BY <2>1 DEF TypeOK, MoneyTypeOK
  <2>3. \A q \in book.debited : outcome[q] = "charged"
    BY <1>0 DEF AccountsInv, DebitedRowsAreCharged, LedgerInv, DebitsMatchLogs
  <2> QED BY <2>1, <2>2, <2>3
          DEF AccountsInv, AccountsAddUp, DebitedRowsAreCharged, AddsUp
<1>12. ASSUME NEW u \in Users, Credit(u) PROVE AccountsInv'
  <2> DEFINE bal == [book.bal EXCEPT ![u] = @ + 1]
             credited == [book.credited EXCEPT ![u] = @ + 1]
  <2>1. book' = [book EXCEPT !.bal = bal, !.credited = credited]
    BY <1>12, <1>0 DEF Credit, Book
  <2>2. /\ book.bal \in [Users -> Int] /\ book.credited \in [Users -> 0..MaxCredit]
        /\ InitBalance \in Int /\ MaxCredit \in Int
    BY <1>0, ConstantsAssumption DEF Book
  <2>3. ASSUME NEW v \in Users
        PROVE  bal[v] = InitBalance + credited[v] - TotalCost(RowsOfUser(book.debited, v))
    <3>1. book.bal[v] = InitBalance + book.credited[v]
                          - TotalCost(RowsOfUser(book.debited, v))
      BY DEF AccountsInv, AccountsAddUp, AddsUp
    <3>2. TotalCost(RowsOfUser(book.debited, v)) \in Nat
      <4>1. RowsOfUser(book.debited, v) \in SUBSET Requests
        BY <1>0 DEF RowsOfUser
      <4> QED BY <4>1, TotalCosts
    <3>3. book.credited[v] \in Int
      BY <2>2
    <3>4. CASE v = u
      BY <2>2, <3>1, <3>2, <3>3, <3>4
    <3>5. CASE v # u
      BY <2>2, <3>1, <3>5
    <3> QED BY <3>4, <3>5
  <2> HIDE DEF bal, credited
  <2>4. /\ book'.bal = bal /\ book'.credited = credited
        /\ book'.spent = book.spent /\ book'.debited = book.debited
    BY <1>0, <2>1 DEF Book
  <2>5. AddsUp(book')
    BY <2>3, <2>4 DEF AccountsInv, AccountsAddUp, AddsUp
  <2>6. \A q \in book'.debited : billed'[q] = 1
    BY <1>12, <2>4 DEF Credit, AccountsInv, DebitedRowsAreCharged
  <2>7. UNCHANGED <<mirror, snap, outcome>>
    BY <1>12 DEF Credit
  <2> QED BY <1>b, <2>5, <2>6, <2>7
<1>13. ASSUME NEW u \in Users, DeleteUser(u) PROVE AccountsInv'
  <2>1. /\ book' \in Book /\ book'.bal = book.bal /\ book'.spent = book.spent
        /\ book'.debited = book.debited /\ book'.credited = book.credited
    BY <1>13, <1>0 DEF DeleteUser, Book
  <2>2. AddsUp(book')
    BY <1>m, <2>1 DEF AccountsInv, AccountsAddUp
  <2>3. UNCHANGED <<mirror, snap, outcome, billed>>
    BY <1>13 DEF DeleteUser
  <2> QED BY <1>b, <2>1, <2>2, <2>3 DEF AccountsInv, DebitedRowsAreCharged
<1>14. ASSUME NEW k \in Keys, DeleteKey(k) PROVE AccountsInv'
  <2>1. /\ book' \in Book /\ book'.bal = book.bal /\ book'.spent = book.spent
        /\ book'.debited = book.debited /\ book'.credited = book.credited
    BY <1>14, <1>0 DEF DeleteKey, Book
  <2>2. AddsUp(book')
    BY <1>m, <2>1 DEF AccountsInv, AccountsAddUp
  <2>3. UNCHANGED <<mirror, snap, outcome, billed>>
    BY <1>14 DEF DeleteKey
  <2> QED BY <1>b, <2>1, <2>2, <2>3 DEF AccountsInv, DebitedRowsAreCharged
<1>15. CASE UNCHANGED vars
  BY <1>15, <1>s DEF vars
<1>16. CASE ServeStep
  BY <1>16, <1>1, <1>2, <1>3, <1>4, <1>5, <1>6 DEF ServeStep
<1>17. CASE MasterStep
  BY <1>17, <1>8, <1>9, <1>10, <1>11, <1>12, <1>13, <1>14 DEF MasterStep
<1> QED BY <1>7, <1>15, <1>16, <1>17 DEF Next

\* However requests, retries, replays, crashes, snapshots and top-ups are
\* interleaved, every balance of the master and of every mirror is the opening
\* balance and the top-ups less the cost of the rows debited, each once.
THEOREM BalancesAddUp == Spec => []AccountsAddUp
<1>1. AccountsInv => AccountsAddUp
  BY DEF AccountsInv
<1> QED BY InitAccounts, NextAccounts, TypeCorrect, LedgerSafe, <1>1, PTL DEF Spec
-----------------------------------------------------------------------------
(* Refinement of exactly-once billing *)

\* The rows owed and the rows paid, as the ledger keeps them.
Owed == {r \in Requests : outcome[r] = "charged" /\ Cost[r] > 0} \ book.debited
Paid == {r \in book.debited : Cost[r] > 0}

\* Nothing the abstract accounts show has changed.
SameBills == UNCHANGED <<Owed, Paid, book.bal>>

\* What one step of the ledger is to abstract billing.
BillingStep == Billing!Next \/ SameBills

\* An opening ledger owes nothing.
LEMMA InitBilling == Init => Billing!Init
<1> SUFFICES ASSUME Init PROVE Billing!Init
  OBVIOUS
<1>1. book = EmptyBook /\ \A r \in Requests : outcome[r] = "open"
  BY DEF Init
<1>2. book.debited = {} /\ book.bal = [u \in Users |-> InitBalance]
  BY <1>1 DEF EmptyBook
<1> QED BY <1>1, <1>2 DEF Billing!Init

\* A step that charges nobody and touches no balance is invisible.
LEMMA QuietStep ==
    ASSUME TypeOK, AccountsInv, book'.bal = book.bal, book'.debited = book.debited,
           \A r \in Requests : outcome'[r] = "charged" <=> outcome[r] = "charged"
    PROVE  SameBills
<1>1. Owed' = Owed
  BY DEF Owed
<1>2. Paid' = Paid
  BY DEF Paid
<1> QED BY <1>1, <1>2 DEF SameBills

\* A debited row was charged.
LEMMA DebitedIsCharged ==
    ASSUME TypeOK, LedgerInv, AccountsInv
    PROVE  /\ book \in Book /\ book.debited \in SUBSET Requests
           /\ \A r \in book.debited : outcome[r] = "charged"
BY DEF TypeOK, MoneyTypeOK, Book, AccountsInv, DebitedRowsAreCharged, LedgerInv,
       DebitsMatchLogs

\* A worker's charge is a service to be paid later.
LEMMA RecordChargedBills ==
    ASSUME TypeOK, LedgerInv, AccountsInv, NEW n \in Nodes, NEW r \in Requests,
           RecordCharged(n, r)
    PROVE  BillingStep
<1>1. /\ outcome[r] = "active" /\ UNCHANGED book
      /\ outcome' = [outcome EXCEPT ![r] = "charged"]
  BY DEF RecordCharged, AddRow, master
<1>2. r \notin book.debited
  BY <1>1, DebitedIsCharged
<1>3. \A q \in Requests : outcome'[q] = "charged" <=> (outcome[q] = "charged" \/ q = r)
  BY <1>1 DEF TypeOK, ControlTypeOK
<1>4. Paid' = Paid /\ book'.bal = book.bal
  BY <1>1 DEF Paid
<1>5. r \notin Owed \cup Paid
  BY <1>1, <1>2 DEF Owed, Paid
<1>6. CASE Cost[r] > 0
  <2>1. Owed' = Owed \cup {r}
    BY <1>1, <1>2, <1>3, <1>6 DEF Owed
  <2>2. Billing!Serve(r)
    BY <1>4, <1>5, <2>1 DEF Billing!Serve, Owed, Paid
  <2> QED BY <2>2 DEF BillingStep, Billing!Next
<1>7. CASE ~(Cost[r] > 0)
  <2>1. Owed' = Owed
    BY <1>1, <1>2, <1>3, <1>7 DEF Owed
  <2> QED BY <1>4, <2>1 DEF BillingStep, SameBills
<1> QED BY <1>6, <1>7

\* A charge on the master is a service paid at once, within the balance.
LEMMA MasterChargeBills ==
    ASSUME TypeOK, LedgerInv, AccountsInv, NEW r \in Requests, MasterRecordCharged(r)
    PROVE  BillingStep
<1> DEFINE u == UserOf(r)
<1>1. /\ outcome[r] = "active" /\ Chargeable(book, r) /\ book' = Debit(book, {r})
      /\ outcome' = [outcome EXCEPT ![r] = "charged"]
  BY DEF MasterRecordCharged
<1>2. book \in Book /\ r \notin book.debited /\ book.bal \in [Users -> Int]
  BY <1>1, DebitedIsCharged DEF Book
<1>3. \A q \in Requests : outcome'[q] = "charged" <=> (outcome[q] = "charged" \/ q = r)
  BY <1>1 DEF TypeOK, ControlTypeOK
<1>4. /\ book'.debited = book.debited \cup {r}
      /\ book'.bal = [v \in Users |-> book.bal[v] - TotalCost(RowsOfUser({r}, v))]
  <2>1. {r} \in SUBSET Requests
    OBVIOUS
  <2>2. Debit(book, {r}).debited = book.debited \cup {r}
    BY <1>2, <2>1, DebitType
  <2>3. Debit(book, {r}).bal
          = [v \in Users |-> book.bal[v] - TotalCost(RowsOfUser({r}, v))]
    BY <1>2, <2>1, DebitAmounts
  <2> QED BY <1>1, <2>2, <2>3
<1>5. u \in Users /\ Cost[r] \in Nat
  BY ConstantsAssumption DEF UserOf
<1>6. \A v \in Users : TotalCost(RowsOfUser({r}, v)) = IF v = u THEN Cost[r] ELSE 0
  <2>1. \A v : RowsOfUser({r}, v) = IF v = u THEN {r} ELSE {}
    BY DEF RowsOfUser
  <2> HIDE DEF u
  <2>2. TotalCost({r}) = Cost[r] /\ TotalCost({}) = 0
    BY CostOfOneRow, TotalCosts
  <2> QED BY <2>1, <2>2
<1> HIDE DEF u
<1>7. book'.bal = [book.bal EXCEPT ![u] = @ - Cost[r]]
  <2>1. ASSUME NEW v \in Users
        PROVE  book.bal[v] - TotalCost(RowsOfUser({r}, v))
                 = IF v = u THEN book.bal[u] - Cost[r] ELSE book.bal[v]
    <3>1. TotalCost(RowsOfUser({r}, v)) = IF v = u THEN Cost[r] ELSE 0
      BY <1>6
    <3>2. book.bal[v] \in Int
      BY <1>2
    <3> QED BY <3>1, <3>2
  <2>2. book'.bal = [v \in Users |-> IF v = u THEN book.bal[u] - Cost[r] ELSE book.bal[v]]
    BY <1>4, <2>1
  <2> QED BY <1>2, <1>5, <2>2
<1>8. Owed' = Owed
  BY <1>1, <1>2, <1>3, <1>4 DEF Owed
<1>9. CASE Cost[r] > 0
  <2>1. Paid' = Paid \cup {r} /\ r \notin Owed \cup Paid
    BY <1>1, <1>2, <1>4, <1>9 DEF Owed, Paid
  <2>2. book.bal[u] >= Cost[r]
    BY <1>1, <1>9 DEF Chargeable, u
  <2>3. [q \in Requests |-> UserOf(q)][r] = u
    BY DEF u
  <2>4. Billing!ServeAndSettle(r)
    BY <1>7, <1>8, <2>1, <2>2, <2>3 DEF Billing!ServeAndSettle, Owed, Paid
  <2> QED BY <2>4 DEF BillingStep, Billing!Next
<1>10. CASE ~(Cost[r] > 0)
  <2>1. Cost[r] = 0
    BY <1>5, <1>10
  <2>2. book'.bal = book.bal
    BY <1>2, <1>5, <1>7, <2>1
  <2>3. Paid' = Paid
    BY <1>4, <1>10 DEF Paid
  <2> QED BY <1>8, <2>2, <2>3 DEF BillingStep, SameBills
<1> QED BY <1>9, <1>10

\* A usage post settles owed rows at once, or is a replay that settles nothing.
LEMMA HandleUsageBills ==
    ASSUME TypeOK, LedgerInv, AccountsInv, NEW n \in Nodes, NEW rows \in SUBSET Requests,
           HandleUsage(n, rows), UNCHANGED outcome
    PROVE  BillingStep
<1>0. PICK bill : bill = ToBill(rows)
  OBVIOUS
<1>1. CASE Replayed(n, rows)
  <2>1. UNCHANGED book
    BY <1>1 DEF HandleUsage
  <2> QED BY <2>1, QuietStep DEF BillingStep
<1>2. CASE ~Replayed(n, rows)
  <2>1. Acceptable(rows) /\ book' = Debit(book, bill)
    BY <1>0, <1>2 DEF HandleUsage
  <2>2. /\ bill \in SUBSET Requests /\ bill \cap book.debited = {}
        /\ \A r \in bill : outcome[r] = "charged" /\ Cost[r] > 0
    BY <1>0, <2>1, BilledRowsAreNew DEF Due, AccountsInv
  <2>3. book \in Book /\ book.bal \in [Users -> Int] /\ book.debited \in SUBSET Requests
    BY DebitedIsCharged DEF Book
  <2>4. /\ book'.debited = book.debited \cup bill
        /\ book'.bal = [v \in Users |-> book.bal[v] - TotalCost(RowsOfUser(bill, v))]
    BY <2>1, <2>2, <2>3, DebitType, DebitAmounts
  <2>5. \A v \in Users : TotalCost(RowsOfUser(bill, v)) = Billing!Due(bill, v)
    <3>1. \A v : {r \in bill : [q \in Requests |-> UserOf(q)][r] = v} = RowsOfUser(bill, v)
      BY <2>2 DEF RowsOfUser
    <3> QED BY <3>1, TotalCostIsSum, DueIsSum
  <2>6. CASE bill = {}
    <3>1. \A v \in Users : TotalCost(RowsOfUser(bill, v)) = 0
      <4>1. \A v : RowsOfUser(bill, v) = {}
        BY <2>6 DEF RowsOfUser
      <4> QED BY <4>1, TotalCosts
    <3>2. book'.bal = book.bal
      BY <2>3, <2>4, <3>1
    <3>3. book'.debited = book.debited
      BY <2>4, <2>6
    <3> QED BY <3>2, <3>3, QuietStep DEF BillingStep
  <2>7. CASE bill # {}
    <3>1. bill \in SUBSET Owed
      BY <2>2 DEF Owed
    <3>2. Owed' = Owed \ bill
      BY <2>4 DEF Owed
    <3>3. Paid' = Paid \cup bill
      BY <2>2, <2>4 DEF Paid
    <3>4. book'.bal = [v \in Users |-> book.bal[v] - Billing!Due(bill, v)]
      BY <2>4, <2>5
    <3>5. Billing!Settle(bill)
      BY <2>7, <3>2, <3>3, <3>4 DEF Billing!Settle, Owed, Paid
    <3>6. \E S \in SUBSET Owed : Billing!Settle(S)
      BY <3>1, <3>5
    <3> QED BY <3>6 DEF BillingStep, Billing!Next, Owed
  <2> QED BY <2>6, <2>7
<1> QED BY <1>1, <1>2

\* A top-up is a deposit.
LEMMA CreditBills ==
    ASSUME TypeOK, LedgerInv, AccountsInv, NEW u \in Users, Credit(u)
    PROVE  BillingStep
<1>1. book \in Book
  BY DebitedIsCharged
<1>2. /\ book'.bal = [book.bal EXCEPT ![u] = @ + 1] /\ book'.debited = book.debited
      /\ UNCHANGED outcome
  BY <1>1 DEF Credit, Book, requests
<1>3. Owed' = Owed /\ Paid' = Paid
  BY <1>2 DEF Owed, Paid
<1>4. Billing!Deposit(u)
  BY <1>2, <1>3 DEF Billing!Deposit, Owed, Paid
<1> QED BY <1>4 DEF BillingStep, Billing!Next

\* Every step of the ledger is a step of exactly-once billing or is invisible.
LEMMA NextBills ==
    ASSUME TypeOK, LedgerInv, AccountsInv, [Next]_vars PROVE BillingStep
<1> USE DEF worker, master, requests
<1>q. ASSUME book'.bal = book.bal, book'.debited = book.debited,
             \A r \in Requests : outcome'[r] = "charged" <=> outcome[r] = "charged"
      PROVE  BillingStep
  BY <1>q, QuietStep DEF BillingStep
<1>t. outcome \in [Requests -> {"open", "active", "charged", "free", "dropped"}]
      /\ book \in Book
  BY DEF TypeOK, ControlTypeOK, MoneyTypeOK
<1>1. ASSUME NEW n \in Nodes \cup {Master}, NEW r \in Requests, Begin(n, r)
      PROVE  BillingStep
  BY <1>1, <1>q, <1>t DEF Begin
<1>2. ASSUME NEW n \in Nodes, NEW r \in Requests, RecordCharged(n, r) PROVE BillingStep
  BY <1>2, RecordChargedBills
<1>3. ASSUME NEW n \in Nodes, NEW r \in Requests, RecordFree(n, r) \/ RecordAudio(n, r)
      PROVE  BillingStep
  BY <1>3, <1>q, <1>t DEF RecordFree, RecordAudio, AddRow
<1>4. ASSUME NEW n \in Nodes, NEW r \in Requests, RecordDropped(n, r) PROVE BillingStep
  BY <1>4, <1>q, <1>t DEF RecordDropped
<1>5. ASSUME NEW r \in Requests, MasterRecordCharged(r) PROVE BillingStep
  BY <1>5, MasterChargeBills
<1>6. ASSUME NEW r \in Requests, MasterRecordFree(r) \/ MasterRecordDropped(r)
      PROVE  BillingStep
  BY <1>6, <1>q, <1>t DEF MasterRecordFree, MasterRecordDropped
<1>7. ASSUME NEW n \in Nodes, WorkerStep(n) PROVE BillingStep
  <2>1. CASE Crash(n)
    BY <2>1, <1>q, <1>t DEF Crash
  <2>2. CASE FlushBegin(n) \/ SyncBegin(n) \/ SyncDrain(n) \/ FlushAck(n) \/ DeleteRows(n)
             \/ ApplySnapshot(n) \/ Refused(n) \/ Fail(n)
    <3>1. UNCHANGED <<book, outcome>>
      BY <2>2 DEF FlushBegin, SyncBegin, SyncDrain, FlushAck, DeleteRows, ApplySnapshot,
                  Refused, Fail, GiveUp
    <3> QED BY <3>1, <1>q
  <2> QED BY <1>7, <2>1, <2>2 DEF WorkerStep
<1>8. ASSUME NEW n \in Nodes, MasterUsage(n) PROVE BillingStep
  <2>1. HandleUsage(n, batch[n]) /\ UNCHANGED outcome
    BY <1>8 DEF MasterUsage
  <2>2. batch[n] \in SUBSET Requests
    BY DEF TypeOK, ControlTypeOK
  <2> QED BY <2>1, <2>2, HandleUsageBills
<1>9. ASSUME NEW m \in late, MasterUsageLate(m[1], m[2]) PROVE BillingStep
  <2>1. HandleUsage(m[1], m[2]) /\ UNCHANGED outcome
    BY <1>9 DEF MasterUsageLate
  <2>2. m[1] \in Nodes /\ m[2] \in SUBSET Requests
    BY DEF TypeOK, ControlTypeOK
  <2> QED BY <2>1, <2>2, HandleUsageBills
<1>10. ASSUME NEW n \in Nodes, MasterRefuse(n) \/ MasterSnapshot(n) \/ RevokeNode(n)
       PROVE  BillingStep
  BY <1>10, <1>q DEF MasterRefuse, MasterSnapshot, RevokeNode
<1>11. ASSUME NEW u \in Users, Credit(u) PROVE BillingStep
  BY <1>11, CreditBills
<1>12. ASSUME NEW u \in Users, DeleteUser(u) PROVE BillingStep
  BY <1>12, <1>q, <1>t DEF DeleteUser, Book
<1>13. ASSUME NEW k \in Keys, DeleteKey(k) PROVE BillingStep
  BY <1>13, <1>q, <1>t DEF DeleteKey, Book
<1>14. CASE UNCHANGED vars
  BY <1>14, <1>q DEF vars
<1>15. CASE ServeStep
  BY <1>15, <1>1, <1>2, <1>3, <1>4, <1>5, <1>6 DEF ServeStep
<1>16. CASE MasterStep
  BY <1>16, <1>8, <1>9, <1>10, <1>11, <1>12, <1>13 DEF MasterStep
<1> QED BY <1>7, <1>14, <1>15, <1>16 DEF Next

\* The ledger with its nodes, outboxes, batches, retries and crashes takes
\* money exactly as the abstract billing does: a charged row is owed until it
\* is settled, once, and nothing else takes money out of an account.
THEOREM LedgerImplementsBilling == Spec => ImplementsExactlyOnceBilling
<1>1. TypeOK /\ LedgerInv /\ AccountsInv /\ [Next]_vars => [Billing!Next]_(Billing!vars)
  BY NextBills DEF BillingStep, SameBills, Billing!vars, Owed, Paid
<1>2. Spec => []AccountsInv
  BY InitAccounts, NextAccounts, TypeCorrect, LedgerSafe, PTL DEF Spec
<1> QED
  BY InitBilling, <1>1, <1>2, TypeCorrect, LedgerSafe, PTL
     DEF Spec, Billing!Spec, ImplementsExactlyOnceBilling
=============================================================================
