----------------------------- MODULE OfficeProofs -----------------------------
(***************************************************************************)
(* Four parts of the back office, proved for any number of requests that   *)
(* interleave at every database call and die at any.                       *)
(*                                                                         *)
(* Refunds, shifts and tills (module Drawer).  What a request of a till    *)
(* computes is a partial sum of what payments, movements and refunds come  *)
(* to (StillSo), and an open drawer holds that sum (Held); both only while *)
(* no other request or payment crossed it.  So the invariant says of every *)
(* state what lasts through races, and of a state without races that at    *)
(* most one request is in progress and that it knows what is so.           *)
(*                                                                         *)
(* The organization's subscription (module Subscriptions, as O), on rows   *)
(* of its own.  reconcileTransactionStatus asks PesaPal, records the       *)
(* answer by id, reads the subscription and activates it by id, each in a  *)
(* call of its own, and none of these rows can be trusted between the      *)
(* calls: a callback overwrites a COMPLETED transaction and                *)
(* updateSubscription any status.  What lasts is that a transaction was    *)
(* paid, that it was confirmed and that there is a subscription, so the    *)
(* invariant rests on those.                                               *)
(*                                                                         *)
(* Leave, swaps, clocking and schedules (module Staffing, as T).  A review *)
(* claims its row while it is PENDING, so that each row has one decision   *)
(* and one reviewer who was told of it (Decideds) through any race; what   *)
(* was only read before an insert or an update lasts while requests do not *)
(* overlap (StaffAlone).                                                   *)
(*                                                                         *)
(* Onboarding (module Onboarding, as N).  Nothing is in a transaction: the *)
(* last step to be marked is the one that is noticed, whoever notices it   *)
(* (StepsDone); of an invitation and of the branch a request knows what it *)
(* read only while no other overlaps it (BoardAlone).                      *)
(***************************************************************************)
EXTENDS Drawer, SumLemmas, SequenceTheorems

CONSTANTS Caps, MaxTransactions, MaxBranches, MaxArrivals, Clerks

VARIABLES sub, branches, txns, onboarded, charges, offered, paid, confirmed, activations,
          byHand, early, subReq, overlaps, arrived, subCrashes

O == INSTANCE Subscriptions WITH Requests <- Clerks, req <- subReq, crashes <- subCrashes

CONSTANTS Employees, Spans, Rosters, MaxLeaves, MaxSwaps, MaxSchedules

VARIABLES attendance, leaves, swaps, schedules, clocked, told, rostered, archived,
          staffReq, staffOverlaps, staffArrived, staffCrashes

T == INSTANCE Staffing WITH Requests <- Clerks, req <- staffReq, overlaps <- staffOverlaps,
                            arrived <- staffArrived, crashes <- staffCrashes

CONSTANTS Saves, Emails, MaxInvitations

VARIABLES exists, done, completed, firstBranches, invitations, lapsed, firstPaid, accepted, revived,
          paidLast, boardReq, boardOverlaps, boardArrived, boardCrashes

N == INSTANCE Onboarding WITH Requests <- Clerks, branches <- firstBranches, paid <- firstPaid,
                              req <- boardReq, overlaps <- boardOverlaps, arrived <- boardArrived,
                              crashes <- boardCrashes

-----------------------------------------------------------------------------
(* Sums over some rows of a sequence                                       *)

Amounts(rows) == [i \in DOMAIN rows |-> rows[i].amount]

\* What the rows at C come to.
SumAt(rows, C) == WSum(Within(Amounts(rows), C, DOMAIN rows), DOMAIN rows)

LEMMA AmountsFacts ==
  ASSUME NEW S, \A x \in S : x.amount \in Nat, NEW rows \in Seq(S), NEW C
  PROVE  /\ DOMAIN rows = 1..Len(rows) /\ Len(rows) \in Nat /\ IsFiniteSet(DOMAIN rows)
         /\ \A i \in DOMAIN rows :
                /\ rows[i] \in S /\ Amounts(rows)[i] \in Int
                /\ Within(Amounts(rows), C, DOMAIN rows)[i] = IF i \in C THEN rows[i].amount ELSE 0
                /\ Within(Amounts(rows), C, DOMAIN rows)[i] \in Nat
         /\ SumAt(rows, C) \in Nat
<1>1. DOMAIN rows = 1..Len(rows) /\ Len(rows) \in Nat
  OBVIOUS
<1>2. IsFiniteSet(DOMAIN rows)
  BY <1>1, FS_Interval
<1>3. \A i \in DOMAIN rows : rows[i] \in S
  OBVIOUS
<1>4. \A i \in DOMAIN rows :
                /\ rows[i] \in S /\ Amounts(rows)[i] \in Int
                /\ Within(Amounts(rows), C, DOMAIN rows)[i] = IF i \in C THEN rows[i].amount ELSE 0
                /\ Within(Amounts(rows), C, DOMAIN rows)[i] \in Nat
  BY <1>3 DEF Within, Amounts
<1>. DEFINE w == Within(Amounts(rows), C, DOMAIN rows)
<1>5. \A i \in DOMAIN rows : w[i] \in Nat
  BY <1>4
<1>. HIDE DEF w
<1>6. WSum(w, DOMAIN rows) \in Nat
  BY <1>2, <1>5, WSumNat
<1>. QED
  BY <1>1, <1>2, <1>4, <1>6 DEF SumAt, w

\* Rows with another one, x, at their end.
LEMMA SumAppended ==
  ASSUME NEW S, \A x \in S : x.amount \in Nat, NEW rows \in Seq(S), NEW x \in S, NEW C, NEW D,
         \A i \in DOMAIN rows : i \in D <=> i \in C
  PROVE  SumAt(Append(rows, x), D) = SumAt(rows, C) + (IF Len(rows) + 1 \in D THEN x.amount ELSE 0)
<1>. DEFINE n == Len(rows) + 1
            more == Append(rows, x)
            w == Within(Amounts(rows), C, DOMAIN rows)
            v == Within(Amounts(more), D, DOMAIN more)
<1>1. more \in Seq(S) /\ DOMAIN more = DOMAIN rows \cup {n} /\ n \notin DOMAIN rows
      /\ more[n] = x /\ \A i \in DOMAIN rows : more[i] = rows[i]
  OBVIOUS
<1>. HIDE DEF more
<1>2. /\ \A i \in DOMAIN more : v[i] = (IF i \in D THEN more[i].amount ELSE 0) /\ v[i] \in Nat
      /\ \A i \in DOMAIN rows : w[i] = (IF i \in C THEN rows[i].amount ELSE 0) /\ w[i] \in Nat
      /\ IsFiniteSet(DOMAIN rows)
  BY <1>1, AmountsFacts
<1>. HIDE DEF n, v, w
<1>3. v[n] = (IF n \in D THEN x.amount ELSE 0) /\ v[n] \in Int
  BY <1>1, <1>2
<1>4. \A i \in DOMAIN rows : w[i] \in Int /\ v[i] = w[i]
  BY <1>1, <1>2
<1>5. WSum(v, DOMAIN more) = WSum(w, DOMAIN rows) + v[n]
  <2>1. DOMAIN more = DOMAIN rows \cup {n} /\ n \notin DOMAIN rows /\ IsFiniteSet(DOMAIN rows)
    BY <1>1, <1>2
  <2>. QED
    BY <1>3, <1>4, <2>1, WSumAdd
<1>. QED
  BY <1>3, <1>5 DEF SumAt, v, w, n, more

\* Rows with the same amounts, of which perhaps one more counts.
LEMMA SumChanged ==
  ASSUME NEW S, \A x \in S : x.amount \in Nat, NEW rows \in Seq(S), NEW more \in Seq(S),
         DOMAIN more = DOMAIN rows, \A j \in DOMAIN rows : more[j].amount = rows[j].amount,
         NEW i \in DOMAIN rows, NEW C, NEW D, i \in C => i \in D,
         \A j \in DOMAIN rows \ {i} : j \in D <=> j \in C
  PROVE  SumAt(more, D) = SumAt(rows, C) + (IF i \in D /\ i \notin C THEN rows[i].amount ELSE 0)
<1>. DEFINE R == DOMAIN rows
            w == Within(Amounts(rows), C, DOMAIN rows)
            v == Within(Amounts(more), D, DOMAIN more)
<1>1. /\ \A j \in R : v[j] = (IF j \in D THEN rows[j].amount ELSE 0) /\ v[j] \in Nat
      /\ \A j \in R : w[j] = (IF j \in C THEN rows[j].amount ELSE 0) /\ w[j] \in Nat
      /\ IsFiniteSet(R) /\ IsFiniteSet(R \ {i}) /\ i \in R /\ DOMAIN more = R
  BY AmountsFacts, FS_RemoveElement
<1>2. \A j \in R \ {i} : v[j] = w[j]
  BY <1>1
<1>3. v[i] = w[i] + (IF i \in D /\ i \notin C THEN rows[i].amount ELSE 0)
  BY <1>1
<1>4. \A j \in R : v[j] \in Int /\ w[j] \in Int
  BY <1>1
<1>. HIDE DEF v, w, R
<1>5. WSum(v, R) = v[i] + WSum(v, R \ {i}) /\ WSum(w, R) = w[i] + WSum(w, R \ {i})
  BY <1>1, <1>4, WSumRemove
<1>6. WSum(v, R \ {i}) = WSum(w, R \ {i}) /\ WSum(w, R \ {i}) \in Int
  <2>1. \A j \in R \ {i} : w[j] \in Int /\ v[j] = w[j]
    BY <1>2, <1>4
  <2>. QED
    BY <1>1, <2>1, WSumSame, WSumStep
<1>7. WSum(v, R) = WSum(w, R) + (IF i \in D /\ i \notin C THEN rows[i].amount ELSE 0)
  <2>1. i \in D /\ i \notin C => rows[i].amount \in Nat
    BY <1>1 DEF R
  <2>2. w[i] \in Int /\ v[i] \in Int
    BY <1>1, <1>4
  <2>. DEFINE d == IF i \in D /\ i \notin C THEN rows[i].amount ELSE 0
  <2>3. d \in Int
    BY <2>1
  <2>. HIDE DEF d
  <2>4. v[i] = w[i] + d
    BY <1>3 DEF d
  <2>5. WSum(v, R) = WSum(w, R) + d
    BY <1>5, <1>6, <2>2, <2>3, <2>4
  <2>. QED
    BY <2>5 DEF d
<1>. QED
  BY <1>1, <1>7 DEF SumAt, v, w, R


-----------------------------------------------------------------------------
(* What refunds and movements come to                                      *)

RefundRows == [of : Payments, amount : RefundAmounts, status : RefundStatus]
MoveRows == [till : 1..MaxTills, type : {"OPENING_FLOAT", "SAFE_DROP"}, amount : Nat]

\* The sums of the model, of any rows.
BackOf(rows, p, statuses) ==
    FoldSeq(LAMBDA f, sum : IF f.of = p /\ f.status \in statuses THEN f.amount + sum ELSE sum,
            0, rows)
CompletedOf(rows) ==
    FoldSeq(LAMBDA f, sum : IF f.status = "COMPLETED" THEN f.amount + sum ELSE sum, 0, rows)
DroppedOf(rows, t) ==
    FoldSeq(LAMBDA m, sum : IF m.till = t /\ m.type = "SAFE_DROP" THEN m.amount + sum ELSE sum,
            0, rows)

\* The rows each of them counts.
Back(rows, p, statuses) == {i \in DOMAIN rows : rows[i].of = p /\ rows[i].status \in statuses}
Completed(rows) == {i \in DOMAIN rows : rows[i].status = "COMPLETED"}
Dropped(rows, t) == {i \in DOMAIN rows : rows[i].till = t /\ rows[i].type = "SAFE_DROP"}

LEMMA RowsHaveAmounts ==
  /\ \A f \in RefundRows : f.amount \in Nat /\ f.amount > 0
  /\ \A m \in MoveRows : m.amount \in Nat
<1>1. \A a \in RefundAmounts : a \in Nat /\ a > 0
  BY AmountAssumption
<1>. QED
  BY <1>1 DEF RefundRows, MoveRows

LEMMA BackIsSum ==
  ASSUME NEW rows \in Seq(RefundRows), NEW p, NEW st
  PROVE  BackOf(rows, p, st) = SumAt(rows, Back(rows, p, st))
<1>. DEFINE Step(g) == g = [s \in SUBSET DOMAIN rows |->
                               IF s = {} THEN 0
                               ELSE IF rows[Pick(s)].of = p /\ rows[Pick(s)].status \in st
                                    THEN rows[Pick(s)].amount + g[s \ {Pick(s)}]
                                    ELSE g[s \ {Pick(s)}]]
            f == CHOOSE g : Step(g)
            R == DOMAIN rows
            w == Amounts(rows)
            C == Back(rows, p, st)
<1>1. BackOf(rows, p, st) = f[DOMAIN rows]
  BY DEF BackOf, FoldSeq, FoldFunction, FoldFunctionOnSet, MapThenFoldSet, Pick
<1>2. ASSUME NEW g
      PROVE  Step(g) <=> Folding(g, w, C, R)
  <2>1. ASSUME NEW s \in SUBSET R
        PROVE  (IF s = {} THEN 0
                ELSE IF rows[Pick(s)].of = p /\ rows[Pick(s)].status \in st
                     THEN rows[Pick(s)].amount + g[s \ {Pick(s)}]
                     ELSE g[s \ {Pick(s)}])
               = (IF s = {} THEN 0
                  ELSE IF Pick(s) \in C THEN w[Pick(s)] + g[s \ {Pick(s)}]
                                        ELSE g[s \ {Pick(s)}])
    BY PickIn DEF Amounts, Back
  <2>. QED
    BY <2>1 DEF Folding
<1>3. IsFiniteSet(R) /\ \A i \in R : w[i] \in Int
  BY RowsHaveAmounts, AmountsFacts
<1>. HIDE DEF R, w, C, Step
<1>4. PICK g : Folding(g, w, C, R)
  BY <1>3, FoldingExists
<1>5. Step(f)
  BY <1>2, <1>4
<1>6. Folding(f, w, C, R)
  BY <1>2, <1>5
<1>. HIDE DEF f
<1>7. f[R] = WSum(Within(w, C, R), R)
  BY <1>3, <1>6, FoldingIsSum
<1>. QED
  BY <1>1, <1>7 DEF R, w, C, SumAt

LEMMA CompletedIsSum ==
  ASSUME NEW rows \in Seq(RefundRows)
  PROVE  CompletedOf(rows) = SumAt(rows, Completed(rows))
<1>. DEFINE Step(g) == g = [s \in SUBSET DOMAIN rows |->
                               IF s = {} THEN 0
                               ELSE IF rows[Pick(s)].status = "COMPLETED"
                                    THEN rows[Pick(s)].amount + g[s \ {Pick(s)}]
                                    ELSE g[s \ {Pick(s)}]]
            f == CHOOSE g : Step(g)
            R == DOMAIN rows
            w == Amounts(rows)
            C == Completed(rows)
<1>1. CompletedOf(rows) = f[DOMAIN rows]
  BY DEF CompletedOf, FoldSeq, FoldFunction, FoldFunctionOnSet, MapThenFoldSet, Pick
<1>2. ASSUME NEW g
      PROVE  Step(g) <=> Folding(g, w, C, R)
  <2>1. ASSUME NEW s \in SUBSET R
        PROVE  (IF s = {} THEN 0
                ELSE IF rows[Pick(s)].status = "COMPLETED"
                     THEN rows[Pick(s)].amount + g[s \ {Pick(s)}]
                     ELSE g[s \ {Pick(s)}])
               = (IF s = {} THEN 0
                  ELSE IF Pick(s) \in C THEN w[Pick(s)] + g[s \ {Pick(s)}]
                                        ELSE g[s \ {Pick(s)}])
    BY PickIn DEF Amounts, Completed
  <2>. QED
    BY <2>1 DEF Folding
<1>3. IsFiniteSet(R) /\ \A i \in R : w[i] \in Int
  BY RowsHaveAmounts, AmountsFacts
<1>. HIDE DEF R, w, C, Step
<1>4. PICK g : Folding(g, w, C, R)
  BY <1>3, FoldingExists
<1>5. Step(f)
  BY <1>2, <1>4
<1>6. Folding(f, w, C, R)
  BY <1>2, <1>5
<1>. HIDE DEF f
<1>7. f[R] = WSum(Within(w, C, R), R)
  BY <1>3, <1>6, FoldingIsSum
<1>. QED
  BY <1>1, <1>7 DEF R, w, C, SumAt

LEMMA DroppedIsSum ==
  ASSUME NEW rows \in Seq(MoveRows), NEW t
  PROVE  DroppedOf(rows, t) = SumAt(rows, Dropped(rows, t))
<1>. DEFINE Step(g) == g = [s \in SUBSET DOMAIN rows |->
                               IF s = {} THEN 0
                               ELSE IF rows[Pick(s)].till = t /\ rows[Pick(s)].type = "SAFE_DROP"
                                    THEN rows[Pick(s)].amount + g[s \ {Pick(s)}]
                                    ELSE g[s \ {Pick(s)}]]
            f == CHOOSE g : Step(g)
            R == DOMAIN rows
            w == Amounts(rows)
            C == Dropped(rows, t)
<1>1. DroppedOf(rows, t) = f[DOMAIN rows]
  BY DEF DroppedOf, FoldSeq, FoldFunction, FoldFunctionOnSet, MapThenFoldSet, Pick
<1>2. ASSUME NEW g
      PROVE  Step(g) <=> Folding(g, w, C, R)
  <2>1. ASSUME NEW s \in SUBSET R
        PROVE  (IF s = {} THEN 0
                ELSE IF rows[Pick(s)].till = t /\ rows[Pick(s)].type = "SAFE_DROP"
                     THEN rows[Pick(s)].amount + g[s \ {Pick(s)}]
                     ELSE g[s \ {Pick(s)}])
               = (IF s = {} THEN 0
                  ELSE IF Pick(s) \in C THEN w[Pick(s)] + g[s \ {Pick(s)}]
                                        ELSE g[s \ {Pick(s)}])
    BY PickIn DEF Amounts, Dropped
  <2>. QED
    BY <2>1 DEF Folding
<1>3. IsFiniteSet(R) /\ \A i \in R : w[i] \in Int
  BY RowsHaveAmounts, AmountsFacts
<1>. HIDE DEF R, w, C, Step
<1>4. PICK g : Folding(g, w, C, R)
  BY <1>3, FoldingExists
<1>5. Step(f)
  BY <1>2, <1>4
<1>6. Folding(f, w, C, R)
  BY <1>2, <1>5
<1>. HIDE DEF f
<1>7. f[R] = WSum(Within(w, C, R), R)
  BY <1>3, <1>6, FoldingIsSum
<1>. QED
  BY <1>1, <1>7 DEF R, w, C, SumAt

\* A refund is added.
LEMMA BackAppended ==
  ASSUME NEW rows \in Seq(RefundRows), NEW x \in RefundRows, NEW p, NEW st
  PROVE  /\ BackOf(rows, p, st) \in Nat
         /\ BackOf(Append(rows, x), p, st)
                = BackOf(rows, p, st) + (IF x.of = p /\ x.status \in st THEN x.amount ELSE 0)
<1>. DEFINE more == Append(rows, x)
            n == Len(rows) + 1
<1>1. more \in Seq(RefundRows) /\ DOMAIN more = DOMAIN rows \cup {n} /\ n \notin DOMAIN rows
      /\ more[n] = x /\ \A i \in DOMAIN rows : more[i] = rows[i]
  OBVIOUS
<1>2. BackOf(rows, p, st) = SumAt(rows, Back(rows, p, st))
      /\ BackOf(more, p, st) = SumAt(more, Back(more, p, st))
  BY <1>1, BackIsSum
<1>3. \A i \in DOMAIN rows : i \in Back(more, p, st) <=> i \in Back(rows, p, st)
  BY <1>1 DEF Back
<1>4. n \in Back(more, p, st) <=> x.of = p /\ x.status \in st
  BY <1>1 DEF Back
<1>. HIDE DEF more
<1>5. SumAt(Append(rows, x), Back(more, p, st)) = SumAt(rows, Back(rows, p, st))
          + (IF Len(rows) + 1 \in Back(more, p, st) THEN x.amount ELSE 0)
  BY <1>3, RowsHaveAmounts, SumAppended
<1>6. SumAt(rows, Back(rows, p, st)) \in Nat
  BY RowsHaveAmounts, AmountsFacts
<1>. QED
  BY <1>2, <1>4, <1>5, <1>6 DEF more

LEMMA CompletedAppended ==
  ASSUME NEW rows \in Seq(RefundRows), NEW x \in RefundRows
  PROVE  /\ CompletedOf(rows) \in Nat
         /\ CompletedOf(Append(rows, x))
                = CompletedOf(rows) + (IF x.status = "COMPLETED" THEN x.amount ELSE 0)
<1>. DEFINE more == Append(rows, x)
            n == Len(rows) + 1
<1>1. more \in Seq(RefundRows) /\ DOMAIN more = DOMAIN rows \cup {n} /\ n \notin DOMAIN rows
      /\ more[n] = x /\ \A i \in DOMAIN rows : more[i] = rows[i]
  OBVIOUS
<1>2. CompletedOf(rows) = SumAt(rows, Completed(rows))
      /\ CompletedOf(more) = SumAt(more, Completed(more))
  BY <1>1, CompletedIsSum
<1>3. \A i \in DOMAIN rows : i \in Completed(more) <=> i \in Completed(rows)
  BY <1>1 DEF Completed
<1>4. n \in Completed(more) <=> x.status = "COMPLETED"
  BY <1>1 DEF Completed
<1>. HIDE DEF more
<1>5. SumAt(Append(rows, x), Completed(more)) = SumAt(rows, Completed(rows))
          + (IF Len(rows) + 1 \in Completed(more) THEN x.amount ELSE 0)
  BY <1>3, RowsHaveAmounts, SumAppended
<1>6. SumAt(rows, Completed(rows)) \in Nat
  BY RowsHaveAmounts, AmountsFacts
<1>. QED
  BY <1>2, <1>4, <1>5, <1>6 DEF more

LEMMA DroppedAppended ==
  ASSUME NEW rows \in Seq(MoveRows), NEW x \in MoveRows, NEW t
  PROVE  /\ DroppedOf(rows, t) \in Nat
         /\ DroppedOf(Append(rows, x), t)
                = DroppedOf(rows, t) + (IF x.till = t /\ x.type = "SAFE_DROP" THEN x.amount ELSE 0)
<1>. DEFINE more == Append(rows, x)
            n == Len(rows) + 1
<1>1. more \in Seq(MoveRows) /\ DOMAIN more = DOMAIN rows \cup {n} /\ n \notin DOMAIN rows
      /\ more[n] = x /\ \A i \in DOMAIN rows : more[i] = rows[i]
  OBVIOUS
<1>2. DroppedOf(rows, t) = SumAt(rows, Dropped(rows, t))
      /\ DroppedOf(more, t) = SumAt(more, Dropped(more, t))
  BY <1>1, DroppedIsSum
<1>3. \A i \in DOMAIN rows : i \in Dropped(more, t) <=> i \in Dropped(rows, t)
  BY <1>1 DEF Dropped
<1>4. n \in Dropped(more, t) <=> x.till = t /\ x.type = "SAFE_DROP"
  BY <1>1 DEF Dropped
<1>. HIDE DEF more
<1>5. SumAt(Append(rows, x), Dropped(more, t)) = SumAt(rows, Dropped(rows, t))
          + (IF Len(rows) + 1 \in Dropped(more, t) THEN x.amount ELSE 0)
  BY <1>3, RowsHaveAmounts, SumAppended
<1>6. SumAt(rows, Dropped(rows, t)) \in Nat
  BY RowsHaveAmounts, AmountsFacts
<1>. QED
  BY <1>2, <1>4, <1>5, <1>6 DEF more

\* A refund is completed.
Completes(rows, more, i) == more = [rows EXCEPT ![i].status = "COMPLETED"]

LEMMA RowCompleted ==
  ASSUME NEW rows \in Seq(RefundRows), NEW i \in DOMAIN rows,
         NEW more, Completes(rows, more, i)
  PROVE  /\ more \in Seq(RefundRows) /\ DOMAIN more = DOMAIN rows /\ Len(more) = Len(rows)
         /\ \A j \in DOMAIN rows : /\ more[j].of = rows[j].of /\ more[j].amount = rows[j].amount
                                   /\ more[j].status = IF j = i THEN "COMPLETED" ELSE rows[j].status
<1>1. \A j \in DOMAIN rows : rows[j] \in RefundRows
  OBVIOUS
<1>2. more = [j \in DOMAIN rows |-> IF j = i THEN [rows[j] EXCEPT !.status = "COMPLETED"] ELSE rows[j]]
  BY DEF Completes
<1>3. \A j \in DOMAIN rows :
          LET f == [rows[j] EXCEPT !.status = "COMPLETED"]
          IN  f \in RefundRows /\ f.of = rows[j].of /\ f.amount = rows[j].amount /\ f.status = "COMPLETED"
  BY <1>1 DEF RefundRows, RefundStatus
<1>4. DOMAIN rows = 1..Len(rows) /\ Len(rows) \in Nat
  OBVIOUS
<1>5. more \in [1..Len(rows) -> RefundRows]
  BY <1>1, <1>2, <1>3, <1>4
<1>6. more \in Seq(RefundRows) /\ DOMAIN more = DOMAIN rows /\ Len(more) = Len(rows)
  BY <1>4, <1>5
<1>. QED
  BY <1>2, <1>3, <1>6

LEMMA BackCompleted ==
  ASSUME NEW rows \in Seq(RefundRows), NEW i \in DOMAIN rows,
         NEW more, Completes(rows, more, i), NEW p
  PROVE  /\ BackOf(more, p, RefundStatus) = BackOf(rows, p, RefundStatus)
         /\ BackOf(more, p, {"COMPLETED"}) >= BackOf(rows, p, {"COMPLETED"})
         /\ rows[i].of # p => BackOf(more, p, {"COMPLETED"}) = BackOf(rows, p, {"COMPLETED"})
<1>0. \A j \in DOMAIN rows : rows[j].status \in RefundStatus /\ more[j].status \in RefundStatus
      /\ rows[j].amount \in Nat
  <2>1. \A j \in DOMAIN rows : rows[j] \in RefundRows
    OBVIOUS
  <2>. QED
    <3>1. \A f \in RefundRows : f.status \in RefundStatus /\ f.amount \in Nat
      BY RowsHaveAmounts DEF RefundRows
    <3>2. more \in Seq(RefundRows) /\ DOMAIN more = DOMAIN rows
      BY RowCompleted
    <3>3. \A j \in DOMAIN rows : more[j] \in RefundRows
      BY <3>2
    <3>. QED
      BY <2>1, <3>1, <3>3
<1>1. ASSUME NEW st \in {RefundStatus, {"COMPLETED"}}
      PROVE  BackOf(more, p, st) = BackOf(rows, p, st)
                 + (IF i \in Back(more, p, st) /\ i \notin Back(rows, p, st) THEN rows[i].amount ELSE 0)
  <2>1. BackOf(rows, p, st) = SumAt(rows, Back(rows, p, st))
        /\ BackOf(more, p, st) = SumAt(more, Back(more, p, st))
    BY RowCompleted, BackIsSum
  <2>2. i \in Back(rows, p, st) => i \in Back(more, p, st)
    BY RowCompleted DEF Back, RefundStatus
  <2>3. \A j \in DOMAIN rows \ {i} : j \in Back(more, p, st) <=> j \in Back(rows, p, st)
    BY RowCompleted DEF Back
  <2>4. SumAt(more, Back(more, p, st)) = SumAt(rows, Back(rows, p, st))
            + (IF i \in Back(more, p, st) /\ i \notin Back(rows, p, st) THEN rows[i].amount ELSE 0)
    <3>1. /\ more \in Seq(RefundRows) /\ DOMAIN more = DOMAIN rows
          /\ \A j \in DOMAIN rows : more[j].amount = rows[j].amount
      BY RowCompleted
    <3>2. \A x \in RefundRows : x.amount \in Nat
      BY RowsHaveAmounts
    <3>. QED
      BY <2>2, <2>3, <3>1, <3>2, SumChanged
  <2>. QED
    BY <2>1, <2>4
<1>2. i \in Back(more, p, RefundStatus) => i \in Back(rows, p, RefundStatus)
  BY <1>0, RowCompleted DEF Back
<1>3. rows[i].of # p => i \notin Back(more, p, {"COMPLETED"})
  BY RowCompleted DEF Back
<1>4. BackOf(rows, p, RefundStatus) \in Nat /\ BackOf(rows, p, {"COMPLETED"}) \in Nat
  BY BackIsSum, RowsHaveAmounts, AmountsFacts
<1>. QED
  BY <1>0, <1>1, <1>2, <1>3, <1>4

\* The same, by what it does to the rows.
Ticks(rows, more, i) ==
    /\ more \in Seq(RefundRows) /\ DOMAIN more = DOMAIN rows
    /\ \A j \in DOMAIN rows : /\ more[j].amount = rows[j].amount
                              /\ more[j].status = IF j = i THEN "COMPLETED" ELSE rows[j].status

LEMMA CompletedCompleted ==
  ASSUME NEW rows \in Seq(RefundRows), NEW i \in DOMAIN rows,
         NEW more, Ticks(rows, more, i)
  PROVE  CompletedOf(more) = CompletedOf(rows)
             + (IF rows[i].status = "COMPLETED" THEN 0 ELSE rows[i].amount)
<1>1. CompletedOf(rows) = SumAt(rows, Completed(rows)) /\ CompletedOf(more) = SumAt(more, Completed(more))
  BY CompletedIsSum DEF Ticks
<1>2. i \in Completed(more) /\ (i \in Completed(rows) <=> rows[i].status = "COMPLETED")
  BY DEF Ticks, Completed
<1>3. \A j \in DOMAIN rows \ {i} : j \in Completed(more) <=> j \in Completed(rows)
  BY DEF Ticks, Completed
<1>4. SumAt(more, Completed(more)) = SumAt(rows, Completed(rows))
          + (IF i \in Completed(more) /\ i \notin Completed(rows) THEN rows[i].amount ELSE 0)
  <2>1. /\ more \in Seq(RefundRows) /\ DOMAIN more = DOMAIN rows
        /\ \A j \in DOMAIN rows : more[j].amount = rows[j].amount
    BY DEF Ticks
  <2>2. \A x \in RefundRows : x.amount \in Nat
    BY RowsHaveAmounts
  <2>. QED
    BY <1>2, <1>3, <2>1, <2>2, SumChanged
<1>. QED
  BY <1>1, <1>2, <1>4

\* The sums as the model states them.
LEMMA SumsAre ==
  /\ \A p, st : Refunded(p, st) = BackOf(refunds, p, st)
  /\ \A t : RefundedSince(t) = CompletedOf(SubSeq(refunds, tills[t].refunded + 1, Len(refunds)))
  /\ \A t : MovedOut(t) = DroppedOf(moves, t)
BY DEF Refunded, BackOf, RefundedSince, CompletedOf, MovedOut, DroppedOf

LEMMA SumsAreNext ==
  /\ (\A p, st : Refunded(p, st) = BackOf(refunds, p, st))'
  /\ (\A t : RefundedSince(t) = CompletedOf(SubSeq(refunds, tills[t].refunded + 1, Len(refunds))))'
  /\ (\A t : MovedOut(t) = DroppedOf(moves, t))'
<1>1. \A p, st : Refunded(p, st) = BackOf(refunds, p, st)
  BY SumsAre
<1>2. \A t : RefundedSince(t) = CompletedOf(SubSeq(refunds, tills[t].refunded + 1, Len(refunds)))
  BY SumsAre
<1>3. \A t : MovedOut(t) = DroppedOf(moves, t)
  BY SumsAre
<1>. QED
  BY <1>1, <1>2, <1>3, PTL

\* What refunds at some rows pay out.
MoneyOf(rows, set) == MapThenSumSet(LAMBDA i : rows[i].amount, set)

\* The refunds of cash payments that a step completes.
Fresh(old, new) ==
    {i \in DOMAIN new : /\ new[i].status = "COMPLETED" /\ new[i].of \in CashPayments
                        /\ i \in DOMAIN old => old[i].status = "PENDING"}

LEMMA PaidOutIs == PaidOut = MoneyOf(refunds', Fresh(refunds, refunds'))
BY DEF PaidOut, MoneyOf, Fresh

LEMMA MoneyIsSum ==
  ASSUME NEW rows \in Seq(RefundRows), NEW set \in SUBSET DOMAIN rows
  PROVE  MoneyOf(rows, set) = WSum(Amounts(rows), set)
<1>. DEFINE Step(g) == g = [s \in SUBSET set |->
                               IF s = {} THEN 0 ELSE rows[Pick(s)].amount + g[s \ {Pick(s)}]]
            f == CHOOSE g : Step(g)
            w == Amounts(rows)
<1>1. MoneyOf(rows, set) = f[set]
  BY DEF MoneyOf, MapThenSumSet, MapThenFoldSet, Pick
<1>2. IsFiniteSet(set) /\ \A i \in set : w[i] \in Int
  <2>1. IsFiniteSet(DOMAIN rows) /\ \A i \in DOMAIN rows : w[i] \in Int
    BY RowsHaveAmounts, AmountsFacts
  <2>. QED
    BY <2>1, FS_Subset
<1>3. ASSUME NEW g
      PROVE  Step(g) <=> Summing(g, w, set)
  <2>1. \A s \in SUBSET set : s # {} => w[Pick(s)] = rows[Pick(s)].amount
    BY PickIn DEF Amounts
  <2>. QED
    BY <2>1 DEF Summing
<1>. HIDE DEF Step, w
<1>4. PICK g : Summing(g, w, set)
  BY <1>2, SummingExists
<1>5. Step(f)
  BY <1>3, <1>4
<1>6. Summing(f, w, set)
  BY <1>3, <1>5
<1>. HIDE DEF f
<1>7. f[set] = WSum(w, set)
  BY <1>2, <1>6, WSumIs
<1>. QED
  BY <1>1, <1>7 DEF w

\* What no refund or one pays out.
LEMMA MoneyOut ==
  ASSUME NEW rows \in Seq(RefundRows)
  PROVE  /\ MoneyOf(rows, {}) = 0
         /\ \A i \in DOMAIN rows : MoneyOf(rows, {i}) = rows[i].amount
<1>1. MoneyOf(rows, {}) = WSum(Amounts(rows), {})
  BY MoneyIsSum
<1>2. IsFiniteSet({})
  BY FS_EmptySet
<1>3. WSum(Amounts(rows), {}) = 0
  <2>. DEFINE w == Amounts(rows)
  <2>1. \A x \in {} : w[x] \in Int
    OBVIOUS
  <2>. HIDE DEF w
  <2>2. WSum(w, {}) = 0
    BY <1>2, <2>1, WSumStep
  <2>. QED
    BY <2>2 DEF w
<1>4. ASSUME NEW i \in DOMAIN rows
      PROVE  MoneyOf(rows, {i}) = rows[i].amount
  <2>1. MoneyOf(rows, {i}) = WSum(Amounts(rows), {i})
    BY MoneyIsSum
  <2>. DEFINE w == Amounts(rows)
  <2>2. w[i] = rows[i].amount /\ w[i] \in Int
    BY RowsHaveAmounts, AmountsFacts DEF Amounts
  <2>3. WSum(w, {}) = 0
    BY <1>3
  <2>. HIDE DEF w
  <2>4. {i} = {} \cup {i} /\ i \notin {} /\ \A y \in {} : w[y] \in Int /\ w[y] = w[y]
    OBVIOUS
  <2>5. WSum(w, {i}) = WSum(w, {}) + w[i]
    BY <1>2, <2>2, <2>4, WSumAdd
  <2>. QED
    BY <2>1, <2>2, <2>3, <2>5 DEF w
<1>. QED
  BY <1>1, <1>3, <1>4

LEMMA RecordedIsSum ==
  ASSUME NEW set \in SUBSET CashPayments
  PROVE  /\ IsFiniteSet(set) /\ \A p \in set : Amount[p] \in Nat
         /\ Recorded(set) = WSum(Amount, set)
<1>. DEFINE Step(g) == g = [s \in SUBSET set |->
                               IF s = {} THEN 0 ELSE Amount[Pick(s)] + g[s \ {Pick(s)}]]
            f == CHOOSE g : Step(g)
<1>1. Recorded(set) = f[set]
  BY DEF Recorded, MapThenSumSet, MapThenFoldSet, Pick
<1>2. IsFiniteSet(set) /\ \A p \in set : Amount[p] \in Nat
  <2>1. set \subseteq Payments
    BY DrawerAssumption
  <2>. QED
    BY <2>1, DrawerAssumption, AmountAssumption, FS_Subset
<1>3. ASSUME NEW g
      PROVE  Step(g) <=> Summing(g, Amount, set)
  BY DEF Summing
<1>. HIDE DEF Step
<1>4. PICK g : Summing(g, Amount, set)
  <2>1. \A p \in set : Amount[p] \in Int
    BY <1>2
  <2>. QED
    BY <1>2, <2>1, SummingExists
<1>5. Step(f)
  BY <1>3, <1>4
<1>6. Summing(f, Amount, set)
  BY <1>3, <1>5
<1>. HIDE DEF f
<1>7. f[set] = WSum(Amount, set)
  BY <1>2, <1>6, WSumIs
<1>. QED
  BY <1>1, <1>2, <1>7

LEMMA RecordedAdds ==
  /\ Recorded({}) = 0
  /\ \A set \in SUBSET CashPayments : Recorded(set) \in Nat
  /\ \A set \in SUBSET CashPayments : \A p \in CashPayments \ set :
         Recorded(set \cup {p}) = Recorded(set) + Amount[p]
<1>0. \A set \in SUBSET CashPayments : /\ IsFiniteSet(set) /\ \A p \in set : Amount[p] \in Nat
                                       /\ Recorded(set) = WSum(Amount, set)
  BY RecordedIsSum
<1>1. Recorded({}) = 0
  <2>1. \A x \in {} : Amount[x] \in Int
    OBVIOUS
  <2>2. WSum(Amount, {}) = 0
    BY <2>1, FS_EmptySet, WSumStep
  <2>. QED
    BY <1>0, <2>2
<1>2. \A set \in SUBSET CashPayments : Recorded(set) \in Nat
  BY <1>0, WSumNat
<1>3. ASSUME NEW set \in SUBSET CashPayments, NEW p \in CashPayments \ set
      PROVE  Recorded(set \cup {p}) = Recorded(set) + Amount[p]
  <2>. DEFINE U == set \cup {p}
  <2>1. U \in SUBSET CashPayments /\ p \in U
    OBVIOUS
  <2>2. /\ Recorded(U) = WSum(Amount, U) /\ Recorded(set) = WSum(Amount, set)
        /\ IsFiniteSet(set) /\ Amount[p] \in Int /\ \A y \in set : Amount[y] \in Int /\ Amount[y] = Amount[y]
    BY <1>0, <2>1
  <2>3. U = set \cup {p} /\ p \notin set
    OBVIOUS
  <2>. HIDE DEF U
  <2>4. WSum(Amount, U) = WSum(Amount, set) + Amount[p]
    BY <2>2, <2>3, WSumAdd
  <2>. QED
    BY <2>2, <2>4 DEF U
<1>. QED
  BY <1>1, <1>2, <1>3

-----------------------------------------------------------------------------
(* The invariant of the refunds                                            *)

Slots == [pc : RefundPC \cup {"idle"}, of : Orders \cup {None}, payment : Payments \cup {None},
          amount : RefundAmounts \cup {0}, row : 0..MaxRefunds]

\* The calls that are about a payment, and those that have still to mark it.
OfPayment == {"payment", "sum", "insert", "flag", "approve", "markSum", "markWrite"}
Marking == {"markSum", "markWrite"}

\* What a request carries is there, and belongs together.
Carried(r) ==
    /\ req[r].pc = "idle" => req[r] = Idle
    /\ req[r].pc # "idle" => req[r].of \in Orders
    /\ req[r].pc \in OfPayment => /\ req[r].payment \in Payments
                                  /\ req[r].of = OrderOf[req[r].payment]
    /\ req[r].pc \in {"payment", "sum", "insert"} => req[r].amount \in RefundAmounts
    /\ req[r].pc = "approve" => /\ req[r].row \in DOMAIN refunds
                                /\ refunds[req[r].row].of = req[r].payment

Full(p) == Refunded(p, {"COMPLETED"}) >= Amount[p]

\* What a request has found out still holds at its next call.
Fits(r) ==
    \A p \in Payments : req[r].payment = p =>
        /\ req[r].pc = "insert" /\ OrderOf[p] \notin overlapped =>
               req[r].amount + Refunded(p, RefundStatus) <= Amount[p]
        /\ req[r].pc = "markWrite" => Full(p)

\* Two requests about one order have overlapped.
Apart ==
    \A r, q \in Requests :
        r # q /\ req[r].pc # "idle" /\ req[q].pc # "idle" /\ req[r].of = req[q].of
            => req[r].of \in overlapped

LargeWaits == \A i \in DOMAIN refunds : refunds[i].status = "PENDING" => refunds[i].amount > Threshold

RefundTypes == RefundTypeOK /\ req \in [Requests -> Slots]

RefundInv ==
    /\ RefundTypes /\ LargeWaits /\ Apart
    /\ \A r \in Requests : Carried(r) /\ Fits(r)
    /\ RefundsCovered /\ RefundedIsMarked

LEMMA SlotFacts ==
  ASSUME NEW s \in Slots
  PROVE  /\ \A q \in RefundPC \cup {"idle"} : LET d == [s EXCEPT !.pc = q] IN
              /\ d \in Slots /\ d.pc = q /\ d.of = s.of /\ d.payment = s.payment
              /\ d.amount = s.amount /\ d.row = s.row
         /\ Idle \in Slots /\ Idle.pc = "idle" /\ Idle.of = None /\ Idle.payment = None
         /\ RefundPC = OfPayment \cup {"void"} /\ "idle" \notin RefundPC
         /\ None \notin Orders /\ None \notin Payments
<1>1. Idle \in Slots /\ Idle.pc = "idle" /\ Idle.of = None /\ Idle.payment = None
  BY BoundsAssumption DEF Idle, Slots
<1>2. RefundPC = OfPayment \cup {"void"} /\ "idle" \notin RefundPC
  BY DEF RefundPC, OfPayment
<1>. QED
  BY <1>1, <1>2, BoundsAssumption DEF Slots

\* A step of request r that breaks nothing of what the others have found out.
LEMMA RefundMoves ==
  ASSUME RefundInv, NEW r \in Requests, NEW d \in Slots, req' = [req EXCEPT ![r] = d],
         RefundTypeOK', LargeWaits', overlapped \subseteq overlapped',
         DOMAIN refunds \subseteq DOMAIN refunds',
         \A i \in DOMAIN refunds : refunds'[i].of = refunds[i].of,
         Carried(r)', Fits(r)',
         \A q \in Requests \ {r} :
             d.pc # "idle" /\ req[q].pc # "idle" /\ req[q].of = d.of => d.of \in overlapped',
         \A p \in Payments : \/ Refunded(p, RefundStatus)' = Refunded(p, RefundStatus)
                             \/ d.pc # "idle" /\ d.of = OrderOf[p],
         \A p \in Payments : Full(p) => Full(p)',
         RefundsCovered', RefundedIsMarked'
  PROVE  RefundInv'
<1>1. req'[r] = d /\ (\A q \in Requests \ {r} : req'[q] = req[q]) /\ req' \in [Requests -> Slots]
  BY DEF RefundInv, RefundTypes
<1>2. Apart'
  <2>1. ASSUME NEW u \in Requests, NEW q \in Requests, u # q,
               req'[u].pc # "idle", req'[q].pc # "idle", req'[u].of = req'[q].of
        PROVE  req'[u].of \in overlapped'
    <3>1. CASE u # r /\ q # r
      BY <1>1, <2>1, <3>1 DEF RefundInv, Apart
    <3>2. CASE u = r
      BY <1>1, <2>1, <3>2
    <3>3. CASE q = r
      BY <1>1, <2>1, <3>3
    <3>. QED
      BY <3>1, <3>2, <3>3
  <2>. QED
    BY <2>1 DEF Apart
<1>3. ASSUME NEW q \in Requests \ {r}
      PROVE  Carried(q)' /\ Fits(q)'
  <2>1. req'[q] = req[q] /\ Carried(q) /\ Fits(q)
    BY <1>1 DEF RefundInv
  <2>2. Carried(q)'
    BY <2>1 DEF Carried
  <2>3. ASSUME NEW p \in Payments, req'[q].payment = p, req'[q].pc = "insert", OrderOf[p] \notin overlapped'
        PROVE  req'[q].amount + Refunded(p, RefundStatus)' <= Amount[p]
    <3>1. OrderOf[p] \notin overlapped /\ req[q].of = OrderOf[p] /\ req[q].pc # "idle"
      BY <2>1, <2>3 DEF Carried, OfPayment
    <3>2. ~ (d.pc # "idle" /\ d.of = OrderOf[p])
      BY <2>3, <3>1
    <3>. QED
      BY <2>1, <2>3, <3>1, <3>2 DEF Fits
  <2>4. ASSUME NEW p \in Payments, req'[q].payment = p, req'[q].pc = "markWrite"
        PROVE  Full(p)'
    BY <2>1, <2>4 DEF Fits
  <2>. QED
    BY <2>2, <2>3, <2>4 DEF Fits
<1>. QED
  BY <1>1, <1>2, <1>3 DEF RefundInv, RefundTypes

\* The sums stay if the refunds do.
LEMMA RefundedStays ==
  ASSUME refunds' = refunds
  PROVE  /\ \A p, st : Refunded(p, st)' = Refunded(p, st)
         /\ \A p : Full(p)' <=> Full(p)
<1>1. \A p, st : Refunded(p, st)' = Refunded(p, st)
  BY SumsAre, SumsAreNext
<1>. QED
  BY <1>1 DEF Full

\* A step of request r that writes no refund, and marks what it was to mark.
LEMMA RefundQuiet ==
  ASSUME RefundInv, NEW r \in Requests, NEW d \in Slots, req' = [req EXCEPT ![r] = d],
         refunds' = refunds, RefundTypeOK', overlapped \subseteq overlapped', crashes' >= crashes,
         Carried(r)', Fits(r)',
         \/ d.pc = "idle"
         \/ req[r].pc # "idle" /\ d.of = req[r].of
         \/ \A q \in Requests \ {r} : req[q].pc # "idle" /\ req[q].of = d.of => d.of \in overlapped',
         \A p \in Payments : pay'[p] = "REFUNDED" =>
             pay[p] = "REFUNDED" \/ Full(p) \/ order'[OrderOf[p]].status = "VOIDED",
         \A p \in Payments : pay[p] = "REFUNDED" => pay'[p] = "REFUNDED",
         \A o \in Orders : order[o].status = "VOIDED" => order'[o].status = "VOIDED",
         \A p \in Payments : req[r].pc \in Marking /\ req[r].payment = p /\ Full(p) =>
             \/ d.pc \in Marking /\ d.payment = p
             \/ pay'[p] = "REFUNDED"
             \/ crashes' > 0
  PROVE  RefundInv'
<1>1. req'[r] = d /\ \A q \in Requests \ {r} : req'[q] = req[q]
  BY DEF RefundInv, RefundTypes
<1>2. LargeWaits'
  BY DEF RefundInv, LargeWaits
<1>3. \A q \in Requests \ {r} :
          d.pc # "idle" /\ req[q].pc # "idle" /\ req[q].of = d.of => d.of \in overlapped'
  BY DEF RefundInv, Apart
<1>4. RefundsCovered'
  BY RefundedStays DEF RefundInv, RefundsCovered
<1>5. RefundedIsMarked'
  <2>. SUFFICES ASSUME NEW p \in Payments
                PROVE  /\ pay'[p] = "REFUNDED" => Full(p)' \/ order'[OrderOf[p]].status = "VOIDED"
                       /\ Full(p)' => \/ pay'[p] = "REFUNDED"
                                      \/ \E q \in Requests : req'[q].payment = p /\ req'[q].pc \in Marking
                                      \/ crashes' > 0
    BY DEF RefundedIsMarked, Full, Marking
  <2>1. /\ pay[p] = "REFUNDED" => Full(p) \/ order[OrderOf[p]].status = "VOIDED"
        /\ Full(p) => \/ pay[p] = "REFUNDED"
                      \/ \E q \in Requests : req[q].payment = p /\ req[q].pc \in Marking
                      \/ crashes > 0
    BY DEF RefundInv, RefundedIsMarked, Full, Marking
  <2>2. OrderOf[p] \in Orders /\ (Full(p)' <=> Full(p))
    BY OrderOfAssumption, RefundedStays
  <2>3. pay'[p] = "REFUNDED" => Full(p)' \/ order'[OrderOf[p]].status = "VOIDED"
    BY <2>1, <2>2
  <2>4. ASSUME Full(p), pay'[p] # "REFUNDED", ~ (crashes' > 0)
        PROVE  \E q \in Requests : req'[q].payment = p /\ req'[q].pc \in Marking
    <3>1. crashes \in Int /\ crashes' \in Int
      BY DEF RefundInv, RefundTypes, RefundTypeOK
    <3>2. PICK q \in Requests : req[q].payment = p /\ req[q].pc \in Marking
      BY <2>1, <2>4, <3>1
    <3>3. CASE q = r
      BY <1>1, <2>4, <3>2, <3>3
    <3>4. CASE q # r
      BY <1>1, <3>2, <3>4
    <3>. QED
      BY <3>3, <3>4
  <2>. QED
    BY <2>2, <2>3, <2>4
<1>. QED
  BY <1>2, <1>3, <1>4, <1>5, RefundedStays, RefundMoves

-----------------------------------------------------------------------------
(* The actions of the refunds                                              *)

\* No request works: the rows and the counter only.
LEMMA RefundRests ==
  ASSUME RefundInv, UNCHANGED <<refunds, req, overlapped>>, RefundTypeOK', crashes' >= crashes,
         \A p \in Payments : pay'[p] = "REFUNDED" <=> pay[p] = "REFUNDED",
         \A o \in Orders : order[o].status = "VOIDED" => order'[o].status = "VOIDED"
  PROVE  RefundInv'
<1>1. RefundTypes' /\ LargeWaits' /\ Apart'
  BY DEF RefundInv, RefundTypes, LargeWaits, Apart
<1>2. ASSUME NEW r \in Requests
      PROVE  Carried(r)' /\ Fits(r)'
  <2>1. Carried(r)'
    BY DEF RefundInv, Carried
  <2>. QED
    BY <2>1, RefundedStays DEF RefundInv, Fits
<1>3. RefundsCovered'
  BY RefundedStays DEF RefundInv, RefundsCovered
<1>4. RefundedIsMarked'
  <2>1. crashes \in Int /\ crashes' \in Int /\ (crashes > 0 => crashes' > 0)
    BY DEF RefundInv, RefundTypes, RefundTypeOK
  <2>. QED
    BY <2>1, RefundedStays, OrderOfAssumption DEF RefundInv, RefundedIsMarked, Full
<1>. QED
  BY <1>1, <1>2, <1>3, <1>4 DEF RefundInv

LEMMA RefundInit0 == RefundInit => RefundInv
<1>. SUFFICES ASSUME RefundInit PROVE RefundInv
  OBVIOUS
<1>1. RefundTypes
  <2>1. refunds \in Seq(RefundRows) /\ Len(refunds) <= MaxRefunds /\ crashes \in 0..MaxCrashes
    BY BoundsAssumption DEF RefundInit
  <2>2. req \in [Requests -> Slots]
    <3>1. Idle \in Slots
      BY BoundsAssumption DEF Idle, Slots
    <3>. QED
      BY <3>1 DEF RefundInit
  <2>. QED
    BY <2>1, <2>2 DEF RefundTypes, RefundTypeOK, RefundInit, RefundRows, OrderStatus, PaymentStatus
<1>2. \A p, st : Refunded(p, st) = 0
  <2>1. refunds = <<>>
    BY DEF RefundInit
  <2>2. <<>> \in Seq(RefundRows)
    OBVIOUS
  <2>3. ASSUME NEW p, NEW st
        PROVE  BackOf(<<>>, p, st) = 0
    <3>. DEFINE rows == <<>>
                w == Within(Amounts(rows), Back(rows, p, st), DOMAIN rows)
    <3>1. BackOf(rows, p, st) = SumAt(rows, Back(rows, p, st))
      BY <2>2, BackIsSum
    <3>2. DOMAIN rows = {}
      OBVIOUS
    <3>3. \A x \in {} : w[x] \in Int
      OBVIOUS
    <3>. HIDE DEF w
    <3>4. WSum(w, {}) = 0
      BY <3>3, FS_EmptySet, WSumStep
    <3>. QED
      BY <3>1, <3>2, <3>4 DEF SumAt, w
  <2>. QED
    BY <2>1, <2>3, SumsAre
<1>3. \A p \in Payments : Amount[p] \in Nat /\ Amount[p] > 0
  BY AmountAssumption
<1>4. \A r \in Requests : req[r] = Idle /\ req[r].pc = "idle"
  BY DEF RefundInit, Idle
<1>5. LargeWaits /\ Apart
  BY <1>4 DEF RefundInit, LargeWaits, Apart
<1>6. ASSUME NEW r \in Requests
      PROVE  Carried(r) /\ Fits(r)
  BY <1>4 DEF Carried, Fits, OfPayment
<1>7. RefundsCovered
  BY <1>2, <1>3 DEF RefundsCovered
<1>8. RefundedIsMarked
  BY <1>2, <1>3 DEF RefundedIsMarked, RefundInit
<1>. QED
  BY <1>1, <1>5, <1>6, <1>7, <1>8 DEF RefundInv

\* What a slot holds.
LEMMA RefundSlot ==
  ASSUME RefundInv, NEW r \in Requests
  PROVE  /\ req[r] \in Slots /\ Carried(r) /\ Fits(r)
         /\ \A d \in Slots : req' = [req EXCEPT ![r] = d] => req'[r] = d
         /\ \A o \in Orders : order[o] \in [status : OrderStatus, recent : BOOLEAN]
         /\ refunds \in Seq(RefundRows)
         /\ crashes \in Int
BY DEF RefundInv, RefundTypes, RefundTypeOK, RefundRows

\* A free slot takes a request about one order: nothing else changes.
LEMMA StartStep ==
  ASSUME RefundInv, NEW r \in Requests, NEW o \in Orders, NEW d \in Slots,
         d.of = o, d.pc # "idle", req[r].pc = "idle",
         req' = [req EXCEPT ![r] = d],
         overlapped' = IF \E q \in Requests \ {r} : req[q].of = o THEN overlapped \cup {o} ELSE overlapped,
         UNCHANGED <<order, pay, refunds, crashes>>,
         d.pc \notin {"insert", "markWrite"}, Carried(r)'
  PROVE  RefundInv'
<1>1. req'[r] = d
  BY RefundSlot
<1>2. Fits(r)'
  BY <1>1 DEF Fits
<1>3. RefundTypeOK' /\ overlapped \subseteq overlapped'
  BY DEF RefundInv, RefundTypes, RefundTypeOK
<1>4. \A q \in Requests \ {r} : req[q].pc # "idle" /\ req[q].of = d.of => d.of \in overlapped'
  OBVIOUS
<1>5. req[r].pc \notin Marking
  BY DEF Marking
<1>6. crashes' >= crashes
  BY RefundSlot
<1>. QED
  BY <1>2, <1>3, <1>4, <1>5, <1>6, RefundQuiet

\* Request r goes on, or ends, without a word to the rows.
LEMMA GoStep ==
  ASSUME RefundInv, NEW r \in Requests, NEW d \in Slots, req[r].pc # "idle",
         req' = [req EXCEPT ![r] = d], d = Idle \/ (d.pc # "idle" /\ d.of = req[r].of),
         UNCHANGED <<order, pay, refunds, overlapped, crashes>>, Carried(r)', Fits(r)',
         \A p \in Payments : req[r].pc \in Marking /\ req[r].payment = p /\ Full(p) =>
             d.pc \in Marking /\ d.payment = p
  PROVE  RefundInv'
<1>1. RefundTypeOK' /\ crashes' >= crashes
  BY DEF RefundInv, RefundTypes, RefundTypeOK
<1>2. d.pc = "idle" \/ d.of = req[r].of
  BY DEF Idle
<1>. QED
  BY <1>1, <1>2, RefundQuiet

LEMMA IdleFits ==
  ASSUME RefundInv, NEW r \in Requests, req'[r] = Idle
  PROVE  Carried(r)' /\ Fits(r)'
<1>1. Idle.pc = "idle"
  BY DEF Idle
<1>. QED
  BY <1>1 DEF Carried, Fits, OfPayment

LEMMA ReadSteps ==
  ASSUME RefundInv, NEW r \in Requests,
         \/ \E p \in Payments, a \in RefundAmounts : RefundRead(r, p, a)
         \/ ReadPayment(r) \/ SumRefunds(r) \/ MarkSum(r)
         \/ \E i \in DOMAIN refunds : ApproveRead(r, i)
         \/ \E o \in Orders : VoidRead(r, o)
  PROVE  RefundInv'
<1>0. Carried(r) /\ req[r] \in Slots /\ Idle \in Slots
  BY RefundSlot, SlotFacts
<1>1. ASSUME NEW p \in Payments, NEW a \in RefundAmounts, RefundRead(r, p, a)
      PROVE  RefundInv'
  <2>. DEFINE o == OrderOf[p]
              d == [[Idle EXCEPT !.pc = "payment", !.payment = p, !.amount = a] EXCEPT !.of = o]
  <2>1. o \in Orders
    BY OrderOfAssumption
  <2>2. /\ d \in Slots /\ d.pc = "payment" /\ d.of = o /\ d.payment = p /\ d.amount = a
    <3>1. 0 \in 0..MaxRefunds /\ "payment" \in RefundPC
      BY BoundsAssumption DEF RefundPC
    <3>. QED
      BY <2>1, <3>1 DEF Slots, Idle
  <2>3. /\ req[r].pc = "idle" /\ req' = [req EXCEPT ![r] = d]
        /\ overlapped' = IF \E q \in Requests \ {r} : req[q].of = o THEN overlapped \cup {o} ELSE overlapped
        /\ UNCHANGED <<order, pay, refunds, crashes>>
    BY <1>1 DEF RefundRead, Start
  <2>. HIDE DEF d
  <2>4. req'[r] = d
    BY <2>2, <2>3, RefundSlot
  <2>5. Carried(r)'
    BY <2>2, <2>4, <2>1 DEF Carried, OfPayment
  <2>. QED
    BY <2>1, <2>2, <2>3, <2>5, StartStep
<1>2. ASSUME NEW i \in DOMAIN refunds, ApproveRead(r, i)
      PROVE  RefundInv'
  <2>. DEFINE p == refunds[i].of
              o == OrderOf[p]
              d == [[Idle EXCEPT !.pc = "approve", !.payment = p, !.row = i] EXCEPT !.of = o]
  <2>1. /\ p \in Payments /\ o \in Orders /\ i \in 0..MaxRefunds
    <3>1. refunds \in Seq(RefundRows) /\ Len(refunds) <= MaxRefunds
      BY DEF RefundInv, RefundTypes, RefundTypeOK, RefundRows
    <3>2. refunds[i] \in RefundRows /\ i \in 1..Len(refunds) /\ Len(refunds) \in Nat
      BY <3>1
    <3>. QED
      BY <3>1, <3>2, OrderOfAssumption, BoundsAssumption DEF RefundRows
  <2>2. /\ d \in Slots /\ d.pc = "approve" /\ d.of = o /\ d.payment = p /\ d.row = i
    BY <2>1, AmountAssumption DEF Idle, Slots, RefundPC
  <2>3. /\ req[r].pc = "idle" /\ req' = [req EXCEPT ![r] = d]
        /\ overlapped' = IF \E q \in Requests \ {r} : req[q].of = o THEN overlapped \cup {o} ELSE overlapped
        /\ UNCHANGED <<order, pay, refunds, crashes>>
    BY <1>2 DEF ApproveRead, Start
  <2>. HIDE DEF d
  <2>4. req'[r] = d
    BY <2>2, <2>3, RefundSlot
  <2>5. Carried(r)'
    BY <2>2, <2>3, <2>4, <2>1 DEF Carried, OfPayment
  <2>. QED
    BY <2>1, <2>2, <2>3, <2>5, StartStep
<1>3. ASSUME NEW o \in Orders, VoidRead(r, o)
      PROVE  RefundInv'
  <2>. DEFINE d == [[Idle EXCEPT !.pc = "void"] EXCEPT !.of = o]
  <2>2. /\ d \in Slots /\ d.pc = "void" /\ d.of = o
    <3>1. 0 \in 0..MaxRefunds /\ "void" \in RefundPC
      BY BoundsAssumption DEF RefundPC
    <3>. QED
      BY <3>1 DEF Slots, Idle
  <2>3. /\ req[r].pc = "idle" /\ req' = [req EXCEPT ![r] = d]
        /\ overlapped' = IF \E q \in Requests \ {r} : req[q].of = o THEN overlapped \cup {o} ELSE overlapped
        /\ UNCHANGED <<order, pay, refunds, crashes>>
    BY <1>3 DEF VoidRead, Start
  <2>. HIDE DEF d
  <2>4. req'[r] = d
    BY <2>2, <2>3, RefundSlot
  <2>5. Carried(r)'
    BY <2>2, <2>4 DEF Carried, OfPayment
  <2>. QED
    BY <2>2, <2>3, <2>5, StartStep
\* The request ends.
<1>4. ASSUME Finish(r), req[r].pc # "idle", UNCHANGED <<order, pay, refunds, crashes>>,
             \A p \in Payments : req[r].pc \in Marking /\ req[r].payment = p => ~ Full(p)
      PROVE  RefundInv'
  <2>1. req' = [req EXCEPT ![r] = Idle] /\ UNCHANGED <<order, pay, refunds, overlapped, crashes>>
    BY <1>4 DEF Finish
  <2>2. req'[r] = Idle
    BY <1>0, <2>1, RefundSlot
  <2>3. Carried(r)' /\ Fits(r)'
    BY <2>2, IdleFits
  <2>. DEFINE d == Idle
  <2>4. /\ d \in Slots /\ req' = [req EXCEPT ![r] = d]
        /\ d = Idle \/ (d.pc # "idle" /\ d.of = req[r].of)
        /\ \A p \in Payments : req[r].pc \in Marking /\ req[r].payment = p /\ Full(p) =>
               d.pc \in Marking /\ d.payment = p
    BY <1>0, <1>4, <2>1
  <2>. HIDE DEF d
  <2>. QED
    BY <1>4, <2>1, <2>3, <2>4, GoStep
<1>5. CASE ReadPayment(r)
  <2>1. CASE pay[req[r].payment] = "COMPLETED"
    <3>. DEFINE d == [req[r] EXCEPT !.pc = "sum"]
    <3>1. req[r].pc = "payment" /\ req' = [req EXCEPT ![r] = d]
          /\ UNCHANGED <<order, pay, refunds, overlapped, crashes>>
      BY <1>5, <2>1 DEF ReadPayment, Goto
    <3>0. req[r] \in Slots /\ "sum" \in RefundPC \cup {"idle"}
      BY <1>0 DEF RefundPC
    <3>2. /\ d \in Slots /\ d.pc = "sum" /\ d.of = req[r].of /\ d.payment = req[r].payment
          /\ d.amount = req[r].amount
      BY <3>0, SlotFacts
    <3>. HIDE DEF d
    <3>3. req'[r] = d
      BY <3>1, <3>2, RefundSlot
    <3>4. Carried(r)' /\ Fits(r)'
      BY <1>0, <3>1, <3>2, <3>3 DEF Carried, Fits, OfPayment
    <3>. QED
      BY <3>1, <3>2, <3>4, GoStep DEF Marking
  <2>2. CASE pay[req[r].payment] # "COMPLETED"
    BY <1>4, <1>5, <2>2 DEF ReadPayment, Marking
  <2>. QED
    BY <2>1, <2>2
<1>6. CASE SumRefunds(r)
  <2>. DEFINE pp == req[r].payment
  <2>0. req[r].pc = "sum" /\ pp \in Payments /\ req[r].amount \in RefundAmounts /\ req[r].of = OrderOf[pp]
    BY <1>0, <1>6 DEF SumRefunds, Carried, OfPayment
  <2>1. CASE req[r].amount <= Amount[pp] - BackOf(refunds, pp, RefundStatus)
    <3>. DEFINE d == [req[r] EXCEPT !.pc = "insert"]
    <3>1. req' = [req EXCEPT ![r] = d] /\ UNCHANGED <<order, pay, refunds, overlapped, crashes>>
      BY <1>6, <2>1, SumsAre DEF SumRefunds, Goto
    <3>2. /\ d \in Slots /\ d.pc = "insert" /\ d.of = req[r].of /\ d.payment = req[r].payment
          /\ d.amount = req[r].amount
      BY <1>0, SlotFacts DEF RefundPC
    <3>. HIDE DEF d
    <3>3. req'[r] = d
      BY <3>1, <3>2, RefundSlot
    <3>4. Carried(r)'
      BY <1>0, <2>0, <3>1, <3>2, <3>3 DEF Carried, OfPayment
    <3>5. req[r].amount + BackOf(refunds, pp, RefundStatus) <= Amount[pp]
      <4>1. req[r].amount \in Int /\ Amount[pp] \in Int /\ BackOf(refunds, pp, RefundStatus) \in Int
        <5>1. BackOf(refunds, pp, RefundStatus) \in Nat
          BY BackIsSum, RowsHaveAmounts, AmountsFacts, RefundSlot
        <5>2. req[r].amount \in Nat
          BY <2>0, AmountAssumption
        <5>3. Amount[pp] \in Nat
          BY <2>0, AmountAssumption
        <5>. QED
          BY <5>1, <5>2, <5>3
      <4>. QED
        BY <2>1, <4>1
    <3>6. Fits(r)'
      <4>1. \A p \in Payments : d.payment = p =>
                d.amount + Refunded(p, RefundStatus)' <= Amount[p]
        BY <3>1, <3>2, <3>5, SumsAreNext
      <4>. QED
        BY <3>2, <3>3, <4>1 DEF Fits
    <3>. QED
      BY <2>0, <3>1, <3>2, <3>4, <3>6, GoStep DEF Marking
  <2>2. CASE ~ (req[r].amount <= Amount[pp] - BackOf(refunds, pp, RefundStatus))
    BY <1>4, <1>6, <2>0, <2>2, SumsAre DEF SumRefunds, Marking
  <2>. QED
    BY <2>1, <2>2
<1>7. CASE MarkSum(r)
  <2>. DEFINE pp == req[r].payment
  <2>0. req[r].pc = "markSum" /\ pp \in Payments /\ req[r].of = OrderOf[pp]
    BY <1>0, <1>7 DEF MarkSum, Carried, OfPayment
  <2>1. CASE BackOf(refunds, pp, {"COMPLETED"}) >= Amount[pp]
    <3>. DEFINE d == [req[r] EXCEPT !.pc = "markWrite"]
    <3>1. req' = [req EXCEPT ![r] = d] /\ UNCHANGED <<order, pay, refunds, overlapped, crashes>>
      BY <1>7, <2>1, SumsAre DEF MarkSum, Goto
    <3>2. /\ d \in Slots /\ d.pc = "markWrite" /\ d.of = req[r].of /\ d.payment = req[r].payment
      BY <1>0, SlotFacts DEF RefundPC
    <3>. HIDE DEF d
    <3>3. req'[r] = d
      BY <3>1, <3>2, RefundSlot
    <3>4. Carried(r)'
      BY <1>0, <2>0, <3>1, <3>2, <3>3 DEF Carried, OfPayment
    <3>5. Fits(r)'
      <4>1. \A p \in Payments : d.payment = p => Full(p)'
        <5>1. \A p \in Payments : d.payment = p => Refunded(p, {"COMPLETED"})' >= Amount[p]
          BY <2>1, <3>1, <3>2, SumsAreNext
        <5>. QED
          BY <5>1 DEF Full
      <4>. QED
        BY <3>2, <3>3, <4>1 DEF Fits
    <3>. QED
      BY <2>0, <3>1, <3>2, <3>4, <3>5, GoStep DEF Marking
  <2>2. CASE ~ (BackOf(refunds, pp, {"COMPLETED"}) >= Amount[pp])
    <3>1. \A p \in Payments : req[r].payment = p => ~ Full(p)
      BY <2>2, SumsAre DEF Full
    <3>2. Finish(r) /\ UNCHANGED <<order, pay, refunds, crashes>>
      BY <1>7, <2>2, SumsAre DEF MarkSum
    <3>. QED
      BY <1>4, <2>0, <3>1, <3>2
  <2>. QED
    BY <2>1, <2>2
<1>. QED
  BY <1>1, <1>2, <1>3, <1>5, <1>6, <1>7

\* A step of request r that adds or completes a refund of its payment: the
\* request goes on to mark the payment, unless the refund has yet to be approved.
LEMMA RefundWrites ==
  ASSUME RefundInv, NEW r \in Requests, NEW d \in Slots, NEW p \in Payments,
         req[r].pc # "idle", req[r].of = OrderOf[p], d.of = req[r].of, d.payment = p, d.pc # "idle",
         req' = [req EXCEPT ![r] = d], UNCHANGED <<order, pay, overlapped, crashes>>,
         RefundTypeOK', LargeWaits', DOMAIN refunds \subseteq DOMAIN refunds',
         \A i \in DOMAIN refunds : refunds'[i].of = refunds[i].of,
         Carried(r)', d.pc \notin {"insert", "markWrite"}, req[r].pc \notin Marking,
         \A q \in Payments \ {p} : /\ Refunded(q, RefundStatus)' = Refunded(q, RefundStatus)
                                   /\ Full(q)' <=> Full(q),
         OrderOf[p] \notin overlapped => Refunded(p, RefundStatus)' <= Amount[p],
         Full(p) => Full(p)',
         Full(p)' => Full(p) \/ d.pc \in Marking
  PROVE  RefundInv'
<1>1. req'[r] = d /\ \A q \in Requests \ {r} : req'[q] = req[q]
  BY DEF RefundInv, RefundTypes
<1>2. Fits(r)'
  BY <1>1 DEF Fits
<1>3. \A q \in Requests \ {r} :
          d.pc # "idle" /\ req[q].pc # "idle" /\ req[q].of = d.of => d.of \in overlapped'
  BY DEF RefundInv, Apart
<1>4. RefundsCovered'
  BY DEF RefundInv, RefundsCovered
<1>5. RefundedIsMarked'
  <2>. SUFFICES ASSUME NEW s \in Payments
                PROVE  /\ pay'[s] = "REFUNDED" => Full(s)' \/ order'[OrderOf[s]].status = "VOIDED"
                       /\ Full(s)' => \/ pay'[s] = "REFUNDED"
                                      \/ \E q \in Requests : req'[q].payment = s /\ req'[q].pc \in Marking
                                      \/ crashes' > 0
    BY DEF RefundedIsMarked, Full, Marking
  <2>1. /\ pay[s] = "REFUNDED" => Full(s) \/ order[OrderOf[s]].status = "VOIDED"
        /\ Full(s) => \/ pay[s] = "REFUNDED"
                      \/ \E q \in Requests : req[q].payment = s /\ req[q].pc \in Marking
                      \/ crashes > 0
    BY DEF RefundInv, RefundedIsMarked, Full, Marking
  <2>2. ASSUME NEW q \in Requests, req[q].payment = s, req[q].pc \in Marking
        PROVE  req'[q].payment = s /\ req'[q].pc \in Marking
    BY <1>1, <2>2
  <2>3. Full(s) => Full(s)'
    OBVIOUS
  <2>4. Full(s)' => Full(s) \/ (d.pc \in Marking /\ d.payment = s)
    OBVIOUS
  <2>. QED
    BY <1>1, <2>1, <2>2, <2>3, <2>4
<1>6. \A q \in Payments : \/ Refunded(q, RefundStatus)' = Refunded(q, RefundStatus)
                          \/ (d.pc # "idle" /\ d.of = OrderOf[q])
  OBVIOUS
<1>7. \A q \in Payments : Full(q) => Full(q)'
  OBVIOUS
<1>. QED
  BY <1>2, <1>3, <1>4, <1>5, <1>6, <1>7, RefundMoves

LEMMA InsertStep == ASSUME RefundInv, NEW r \in Requests, InsertRefund(r) PROVE RefundInv'
<1>0. req[r].pc = "insert" /\ req[r].payment \in Payments
  BY RefundSlot DEF InsertRefund, Carried, OfPayment
<1>. PICK p \in Payments : p = req[r].payment
  BY <1>0
<1>. DEFINE auto == req[r].amount <= Threshold
            st == IF auto THEN "COMPLETED" ELSE "PENDING"
            x == [of |-> p, amount |-> req[r].amount, status |-> st]
            pc == IF auto THEN "markSum" ELSE "flag"
            d == [req[r] EXCEPT !.pc = pc]
<1>1. /\ req[r].pc = "insert" /\ Len(refunds) < MaxRefunds /\ refunds' = Append(refunds, x)
      /\ req' = [req EXCEPT ![r] = d] /\ UNCHANGED <<order, pay, overlapped, crashes>>
  BY DEF InsertRefund, Goto
<1>2. /\ req[r] \in Slots /\ refunds \in Seq(RefundRows) /\ p \in Payments /\ req[r].of = OrderOf[p]
      /\ req[r].amount \in RefundAmounts /\ Carried(r) /\ Fits(r)
  BY <1>1, RefundSlot DEF Carried, OfPayment
<1>3. /\ d \in Slots /\ d.of = req[r].of /\ d.payment = p /\ d.pc = pc
  <2>1. pc \in RefundPC
    BY DEF RefundPC
  <2>. HIDE DEF pc
  <2>. QED
    BY <1>2, <2>1, SlotFacts
<1>. HIDE DEF d
<1>4. req'[r] = d
  BY <1>1, <1>3, RefundSlot
<1>5. x \in RefundRows /\ x.of = p /\ x.amount = req[r].amount /\ x.status = st /\ st \in RefundStatus
  BY <1>2 DEF RefundRows, RefundStatus
<1>6. auto => x.amount <= Threshold
  BY <1>5
<1>7. /\ refunds' \in Seq(RefundRows) /\ Len(refunds') = Len(refunds) + 1
      /\ DOMAIN refunds' = DOMAIN refunds \cup {Len(refunds) + 1} /\ Len(refunds) + 1 \notin DOMAIN refunds
      /\ refunds'[Len(refunds) + 1] = x /\ \A i \in DOMAIN refunds : refunds'[i] = refunds[i]
  BY <1>1, <1>2, <1>5
<1>8. \A q, s : /\ BackOf(refunds, q, s) \in Nat
                /\ BackOf(refunds', q, s) = BackOf(refunds, q, s)
                       + (IF x.of = q /\ x.status \in s THEN x.amount ELSE 0)
  <2>. HIDE DEF x, st
  <2>. QED
    BY <1>1, <1>2, <1>5, BackAppended
<1>9. \A q, s : Refunded(q, s) = BackOf(refunds, q, s) /\ Refunded(q, s)' = BackOf(refunds', q, s)
  BY SumsAre, SumsAreNext
<1>10. RefundTypeOK'
  <2>1. Len(refunds') <= MaxRefunds
    BY <1>1, <1>2, <1>7, BoundsAssumption
  <2>. QED
    BY <1>1, <1>7, <2>1 DEF RefundInv, RefundTypes, RefundTypeOK, RefundRows
<1>11. x.amount \in Nat /\ Threshold \in Nat
  BY <1>2, <1>5, AmountAssumption
<1>12. LargeWaits'
  <2>1. st = "PENDING" => x.amount > Threshold
    BY <1>5, <1>11
  <2>. QED
    BY <1>5, <1>7, <2>1 DEF RefundInv, LargeWaits
<1>13. Carried(r)'
  BY <1>1, <1>2, <1>3, <1>4 DEF Carried, OfPayment
<1>. HIDE DEF x, st
<1>14. \A q \in Payments \ {p} : /\ Refunded(q, RefundStatus)' = Refunded(q, RefundStatus)
                                 /\ Full(q)' <=> Full(q)
  BY <1>5, <1>8, <1>9 DEF Full
<1>15. OrderOf[p] \notin overlapped => Refunded(p, RefundStatus)' <= Amount[p]
  <2>1. BackOf(refunds', p, RefundStatus) = BackOf(refunds, p, RefundStatus) + x.amount
    BY <1>5, <1>8
  <2>2. OrderOf[p] \notin overlapped => x.amount + BackOf(refunds, p, RefundStatus) <= Amount[p]
    BY <1>1, <1>2, <1>5, <1>9 DEF Fits
  <2>. QED
    BY <1>8, <1>9, <1>11, <2>1, <2>2
<1>16. Full(p) => Full(p)'
  <2>1. BackOf(refunds', p, {"COMPLETED"}) >= BackOf(refunds, p, {"COMPLETED"})
        /\ BackOf(refunds', p, {"COMPLETED"}) \in Nat
    <3>1. BackOf(refunds', p, {"COMPLETED"}) = BackOf(refunds, p, {"COMPLETED"}) + x.amount
          \/ BackOf(refunds', p, {"COMPLETED"}) = BackOf(refunds, p, {"COMPLETED"}) + 0
      BY <1>8
    <3>. QED
      BY <1>8, <1>11, <3>1
  <2>2. Amount[p] \in Nat
    BY <1>2, AmountAssumption
  <2>. QED
    BY <1>8, <1>9, <2>1, <2>2 DEF Full
<1>17. Full(p)' => Full(p) \/ d.pc \in Marking
  <2>1. CASE auto
    BY <1>3, <2>1 DEF Marking
  <2>2. CASE ~auto
    <3>1. x.status = "PENDING"
      BY <1>5, <2>2 DEF st
    <3>2. BackOf(refunds', p, {"COMPLETED"}) = BackOf(refunds, p, {"COMPLETED"})
      BY <1>8, <3>1
    <3>. QED
      BY <1>9, <3>2 DEF Full
  <2>. QED
    BY <2>1, <2>2
<1>18. d.pc # "idle" /\ d.pc \notin {"insert", "markWrite"} /\ req[r].pc \notin Marking /\ req[r].pc # "idle"
  BY <1>1, <1>3 DEF Marking
<1>19. DOMAIN refunds \subseteq DOMAIN refunds' /\ \A i \in DOMAIN refunds : refunds'[i].of = refunds[i].of
  BY <1>7
<1>. QED
  BY <1>1, <1>2, <1>3, <1>10, <1>12, <1>13, <1>14, <1>15, <1>16, <1>17, <1>18, <1>19, RefundWrites

LEMMA ApproveStep == ASSUME RefundInv, NEW r \in Requests, ApproveWrite(r) PROVE RefundInv'
<1>0. req[r].pc = "approve" /\ req[r].payment \in Payments
  BY RefundSlot DEF ApproveWrite, Carried, OfPayment
<1>. PICK p \in Payments : p = req[r].payment
  BY <1>0
<1>. DEFINE i == req[r].row
            d == [req[r] EXCEPT !.pc = "markSum"]
<1>1. /\ req[r].pc = "approve" /\ Completes(refunds, refunds', i)
      /\ req' = [req EXCEPT ![r] = d] /\ UNCHANGED <<order, pay, overlapped, crashes>>
  BY DEF ApproveWrite, Goto, Completes
<1>2. /\ req[r] \in Slots /\ refunds \in Seq(RefundRows) /\ p \in Payments /\ req[r].of = OrderOf[p]
      /\ i \in DOMAIN refunds /\ refunds[i].of = p /\ Carried(r)
  BY <1>1, RefundSlot DEF Carried, OfPayment
<1>3. /\ d \in Slots /\ d.of = req[r].of /\ d.payment = p /\ d.pc = "markSum"
  BY <1>2, SlotFacts DEF RefundPC
<1>. HIDE DEF d
<1>4. req'[r] = d
  BY <1>1, <1>3, RefundSlot
<1>5. /\ refunds' \in Seq(RefundRows) /\ DOMAIN refunds' = DOMAIN refunds /\ Len(refunds') = Len(refunds)
      /\ \A j \in DOMAIN refunds :
             /\ refunds'[j].of = refunds[j].of /\ refunds'[j].amount = refunds[j].amount
             /\ refunds'[j].status = IF j = i THEN "COMPLETED" ELSE refunds[j].status
  BY <1>1, <1>2, RowCompleted
<1>6. \A q : /\ BackOf(refunds', q, RefundStatus) = BackOf(refunds, q, RefundStatus)
             /\ BackOf(refunds', q, {"COMPLETED"}) >= BackOf(refunds, q, {"COMPLETED"})
             /\ p # q => BackOf(refunds', q, {"COMPLETED"}) = BackOf(refunds, q, {"COMPLETED"})
  BY <1>1, <1>2, BackCompleted
<1>7. \A q, s : Refunded(q, s) = BackOf(refunds, q, s) /\ Refunded(q, s)' = BackOf(refunds', q, s)
  BY SumsAre, SumsAreNext
<1>8. RefundTypeOK'
  BY <1>1, <1>5 DEF RefundInv, RefundTypes, RefundTypeOK, RefundRows
<1>9. LargeWaits'
  BY <1>5 DEF RefundInv, LargeWaits
<1>10. Carried(r)'
  BY <1>1, <1>2, <1>3, <1>4 DEF Carried, OfPayment
<1>11. \A q \in Payments \ {p} : /\ Refunded(q, RefundStatus)' = Refunded(q, RefundStatus)
                                 /\ Full(q)' <=> Full(q)
  BY <1>6, <1>7 DEF Full
<1>12. OrderOf[p] \notin overlapped => Refunded(p, RefundStatus)' <= Amount[p]
  BY <1>2, <1>6, <1>7 DEF RefundInv, RefundsCovered
<1>13. Full(p) => Full(p)'
  <2>1. BackOf(refunds, p, {"COMPLETED"}) \in Nat /\ BackOf(refunds', p, {"COMPLETED"}) \in Nat
    BY <1>2, <1>5, BackIsSum, RowsHaveAmounts, AmountsFacts
  <2>2. Amount[p] \in Nat
    BY <1>2, AmountAssumption
  <2>3. BackOf(refunds', p, {"COMPLETED"}) >= BackOf(refunds, p, {"COMPLETED"})
    BY <1>6
  <2>. QED
    BY <1>7, <2>1, <2>2, <2>3 DEF Full
<1>14. d.pc # "idle" /\ d.pc \notin {"insert", "markWrite"} /\ req[r].pc \notin Marking
       /\ req[r].pc # "idle" /\ d.pc \in Marking
  BY <1>1, <1>3 DEF Marking
<1>15. DOMAIN refunds \subseteq DOMAIN refunds' /\ \A j \in DOMAIN refunds : refunds'[j].of = refunds[j].of
  BY <1>5
<1>. QED
  BY <1>1, <1>2, <1>3, <1>8, <1>9, <1>10, <1>11, <1>12, <1>13, <1>14, <1>15, RefundWrites

LEMMA EndSteps ==
  ASSUME RefundInv, NEW r \in Requests,
         FlagAnomaly(r) \/ MarkWrite(r) \/ VoidWrite(r) \/ Crash(r)
  PROVE  RefundInv'
<1>. DEFINE d == Idle
            o == req[r].of
            p == req[r].payment
<1>0. Carried(r) /\ Fits(r) /\ req[r] \in Slots /\ d \in Slots /\ d.pc = "idle" /\ crashes \in 0..MaxCrashes
      /\ order \in [Orders -> [status : OrderStatus, recent : BOOLEAN]]
      /\ pay \in [Payments -> PaymentStatus] /\ refunds \in Seq(RefundRows) /\ Len(refunds) <= MaxRefunds
      /\ overlapped \subseteq Orders
  BY RefundSlot, SlotFacts DEF RefundInv, RefundTypes, RefundTypeOK, RefundRows
<1>1. req[r].pc # "idle" /\ o \in Orders
      /\ req' = [req EXCEPT ![r] = d] /\ UNCHANGED <<refunds, overlapped>>
  BY <1>0 DEF FlagAnomaly, MarkWrite, VoidWrite, Crash, Finish, Carried
<1>. HIDE DEF d
<1>2. req'[r] = d
  BY <1>0, <1>1, RefundSlot
<1>3. Carried(r)' /\ Fits(r)'
  BY <1>2, IdleFits DEF d
<1>4. ASSUME order' \in [Orders -> [status : OrderStatus, recent : BOOLEAN]],
             pay' \in [Payments -> PaymentStatus], crashes' \in 0..MaxCrashes, crashes' >= crashes,
             \A q \in Payments : pay'[q] = "REFUNDED" =>
                 pay[q] = "REFUNDED" \/ Full(q) \/ order'[OrderOf[q]].status = "VOIDED",
             \A q \in Payments : pay[q] = "REFUNDED" => pay'[q] = "REFUNDED",
             \A u \in Orders : order[u].status = "VOIDED" => order'[u].status = "VOIDED",
             \A q \in Payments : req[r].pc \in Marking /\ req[r].payment = q /\ Full(q) =>
                 pay'[q] = "REFUNDED" \/ crashes' > 0
      PROVE  RefundInv'
  <2>1. RefundTypeOK'
    BY <1>0, <1>1, <1>4 DEF RefundTypeOK, RefundRows
  <2>. QED
    BY <1>0, <1>1, <1>3, <1>4, <2>1, RefundQuiet
<1>5. CASE FlagAnomaly(r)
  <2>1. req[r].pc = "flag" /\ order' = [order EXCEPT ![o].recent = TRUE] /\ UNCHANGED <<pay, crashes>>
    BY <1>5 DEF FlagAnomaly
  <2>2. /\ order' \in [Orders -> [status : OrderStatus, recent : BOOLEAN]]
        /\ \A u \in Orders : order'[u].status = order[u].status
    BY <1>0, <1>1, <2>1
  <2>3. crashes' \in 0..MaxCrashes /\ crashes' >= crashes
    BY <1>0, <2>1
  <2>. QED
    BY <1>0, <1>4, <2>1, <2>2, <2>3 DEF Marking
<1>6. CASE MarkWrite(r)
  <2>1. req[r].pc = "markWrite" /\ pay' = [pay EXCEPT ![p] = "REFUNDED"] /\ UNCHANGED <<order, crashes>>
    BY <1>6 DEF MarkWrite
  <2>2. p \in Payments /\ Full(p)
    BY <1>0, <2>1 DEF Carried, OfPayment, Fits
  <2>3. pay' \in [Payments -> PaymentStatus] /\ pay'[p] = "REFUNDED"
        /\ \A q \in Payments \ {p} : pay'[q] = pay[q]
    BY <1>0, <2>1, <2>2 DEF PaymentStatus
  <2>4. crashes' \in 0..MaxCrashes /\ crashes' >= crashes
    BY <1>0, <2>1
  <2>. QED
    BY <1>0, <1>4, <2>1, <2>2, <2>3, <2>4
<1>7. CASE VoidWrite(r)
  <2>1. /\ req[r].pc = "void" /\ order' = [order EXCEPT ![o] = [status |-> "VOIDED", recent |-> TRUE]]
        /\ pay' = [q \in Payments |-> IF OrderOf[q] = o /\ pay[q] = "COMPLETED" THEN "REFUNDED" ELSE pay[q]]
        /\ crashes' = crashes
    BY <1>7 DEF VoidWrite
  <2>2. order' \in [Orders -> [status : OrderStatus, recent : BOOLEAN]] /\ order'[o].status = "VOIDED"
        /\ \A u \in Orders \ {o} : order'[u] = order[u]
    <3>1. [status |-> "VOIDED", recent |-> TRUE] \in [status : OrderStatus, recent : BOOLEAN]
      BY DEF OrderStatus
    <3>. QED
      BY <1>0, <1>1, <2>1, <3>1
  <2>3. pay' \in [Payments -> PaymentStatus]
        /\ \A q \in Payments : pay'[q] = IF OrderOf[q] = o /\ pay[q] = "COMPLETED" THEN "REFUNDED" ELSE pay[q]
    BY <1>0, <2>1 DEF PaymentStatus
  <2>4. crashes' \in 0..MaxCrashes /\ crashes' >= crashes
    BY <1>0, <2>1
  <2>5. req[r].pc \notin Marking
    BY <2>1 DEF Marking
  <2>. QED
    BY <1>0, <1>4, <2>2, <2>3, <2>4, <2>5
<1>8. CASE Crash(r)
  <2>1. crashes' = crashes + 1 /\ crashes < MaxCrashes /\ UNCHANGED <<order, pay>>
    BY <1>8 DEF Crash
  <2>2. crashes' \in 0..MaxCrashes /\ crashes' >= crashes /\ crashes' > 0
    BY <1>0, <2>1, BoundsAssumption
  <2>. QED
    BY <1>0, <1>4, <2>1, <2>2
<1>. QED
  BY <1>5, <1>6, <1>7, <1>8

LEMMA SurroundingSteps ==
  ASSUME RefundInv,
         \/ \E p \in Payments : TakePayment(p)
         \/ \E o \in Orders : WindowPasses(o)
  PROVE  RefundInv'
<1>0. /\ order \in [Orders -> [status : OrderStatus, recent : BOOLEAN]]
      /\ pay \in [Payments -> PaymentStatus] /\ crashes \in 0..MaxCrashes
  BY DEF RefundInv, RefundTypes, RefundTypeOK
<1>1. ASSUME UNCHANGED <<refunds, req, overlapped, crashes>>,
             order' \in [Orders -> [status : OrderStatus, recent : BOOLEAN]],
             pay' \in [Payments -> PaymentStatus],
             \A p \in Payments : pay'[p] = "REFUNDED" <=> pay[p] = "REFUNDED",
             \A o \in Orders : order[o].status = "VOIDED" => order'[o].status = "VOIDED"
      PROVE  RefundInv'
  <2>1. RefundTypeOK' /\ crashes' >= crashes
    BY <1>1 DEF RefundInv, RefundTypes, RefundTypeOK
  <2>. QED
    BY <1>1, <2>1, RefundRests
<1>2. ASSUME NEW p \in Payments, TakePayment(p)
      PROVE  RefundInv'
  <2>. DEFINE o == OrderOf[p]
  <2>1. /\ order[o].status = "OPEN" /\ pay[p] = "ABSENT" /\ pay' = [pay EXCEPT ![p] = "COMPLETED"]
        /\ order' = [order EXCEPT ![o].status = "CLOSED"] \/ order' = order
        /\ UNCHANGED <<refunds, req, overlapped, crashes>>
    BY <1>2 DEF TakePayment
  <2>2. /\ pay' \in [Payments -> PaymentStatus] /\ pay'[p] = "COMPLETED"
        /\ \A q \in Payments \ {p} : pay'[q] = pay[q]
    BY <1>0, <2>1 DEF PaymentStatus
  <2>3. order' \in [Orders -> [status : OrderStatus, recent : BOOLEAN]]
        /\ \A u \in Orders : order[u].status = "VOIDED" => order'[u].status = "VOIDED"
    <3>1. CASE order' = order
      BY <1>0, <3>1
    <3>2. CASE order' = [order EXCEPT ![o].status = "CLOSED"]
      <4>1. o \in Orders /\ "CLOSED" \in OrderStatus
        BY OrderOfAssumption DEF OrderStatus
      <4>. QED
        BY <1>0, <2>1, <3>2, <4>1
    <3>. QED
      BY <2>1, <3>1, <3>2
  <2>4. \A q \in Payments : pay'[q] = "REFUNDED" <=> pay[q] = "REFUNDED"
    BY <2>1, <2>2
  <2>. QED
    BY <1>1, <2>1, <2>2, <2>3, <2>4
<1>3. ASSUME NEW o \in Orders, WindowPasses(o)
      PROVE  RefundInv'
  <2>1. order' = [order EXCEPT ![o].recent = FALSE] /\ UNCHANGED <<pay, refunds, req, overlapped, crashes>>
    BY <1>3 DEF WindowPasses
  <2>2. order' \in [Orders -> [status : OrderStatus, recent : BOOLEAN]]
        /\ \A u \in Orders : order'[u].status = order[u].status
    BY <1>0, <2>1
  <2>. QED
    BY <1>0, <1>1, <2>1, <2>2
<1>. QED
  BY <1>2, <1>3

LEMMA RefundInvStep == ASSUME RefundInv, RefundNext PROVE RefundInv'
BY ReadSteps, InsertStep, ApproveStep, EndSteps, SurroundingSteps DEF RefundNext

\* What else a step of the drawer may do to the variables of the refunds.
LEMMA RefundInvApart ==
  ASSUME RefundInv, UNCHANGED <<order, pay, refunds, req, overlapped>>,
         crashes' \in 0..MaxCrashes, crashes' >= crashes
  PROVE  RefundInv'
<1>1. RefundTypeOK'
  BY DEF RefundInv, RefundTypes, RefundTypeOK
<1>. QED
  BY <1>1, RefundRests

-----------------------------------------------------------------------------
(* The invariant of the drawer                                             *)

ShiftRows == [user : Users, open : BOOLEAN,
              summary : [made : BOOLEAN, sessions : SUBSET (1..MaxTills)]]
TillRows == [code : TillCodes, open : BOOLEAN, shift : 1..MaxShifts, expected : Int,
             paid : SUBSET Payments, refunded : 0..MaxRefunds]
WorkSlots == [pc : DrawerPC, user : Users \cup {None}, code : TillCodes \cup {None}, at : Nat,
              total : Int, seen : SUBSET (1..MaxTills)]

DrawerTypes ==
    /\ shifts \in Seq(ShiftRows) /\ Len(shifts) <= MaxShifts
    /\ tills \in Seq(TillRows) /\ Len(tills) <= MaxTills
    /\ moves \in Seq(MoveRows) /\ Len(moves) <= MaxMoves
    /\ work \in [Workers -> WorkSlots]
    /\ cash \in Seq(Int) /\ Len(cash) = Len(tills)
    /\ elsewhere \in Seq(Int) /\ Len(elsewhere) = Len(tills)
    /\ raced \in BOOLEAN

\* Sessions belong to shifts, movements to sessions, and what a session found
\* when it opened was there.
Linked ==
    /\ \A t \in DOMAIN tills :
           /\ tills[t].shift \in DOMAIN shifts
           /\ tills[t].refunded <= Len(refunds)
           /\ \A p \in tills[t].paid : pay[p] # "ABSENT"
    /\ \A i \in DOMAIN moves : moves[i].till \in DOMAIN tills

\* The calls that are about a shift, and those about a session.
OfShift == {"openTills", "sessions", "summary", "closeShift", "tillFree", "tillInsert"}
OfTill == {"float", "drop", "decrement", "cashSales", "moves", "refundsOut", "reconcile"}

\* What a request about them carries, whatever races it.
Known(d) ==
    /\ d.pc \in {"shiftNumber", "shiftInsert"} => d.user \in Users
    /\ d.pc \in OfShift => d.at \in DOMAIN shifts
    /\ d.pc \in {"tillFree", "tillInsert"} => d.code \in TillCodes
    /\ d.pc \in OfTill => d.at \in DOMAIN tills
    /\ d.pc = "closeShift" => shifts[d.at].summary.made
    /\ d.pc = "drop" => d.total \in Nat

Knows(w) == Known(work[w])

\* Unless requests raced: at most one is in progress,
Alone == \A x, y \in Busy : x = y

\* what it has read still is so,
Sales(t) == Recorded({p \in CashPayments \ tills[t].paid : pay[p] = "COMPLETED"})

StillSo(d) ==
    /\ \A s \in DOMAIN shifts : d.at = s =>
           /\ d.pc \in {"tillFree", "tillInsert"} => shifts[s].open
           /\ d.pc = "tillInsert" => \A t \in DOMAIN tills : tills[t].open => tills[t].code # d.code
           /\ d.pc \in {"sessions", "summary", "closeShift"} => OpenTills(s) = {}
           /\ d.pc = "summary" => d.seen = Sessions(s)
           /\ d.pc = "closeShift" => shifts[s].summary.sessions = Sessions(s)
    /\ \A t \in DOMAIN tills : d.at = t =>
           /\ d.pc \in OfTill => tills[t].open
           /\ d.pc = "cashSales" => d.total = Float
           /\ d.pc = "moves" => d.total = Float + Sales(t)
           /\ d.pc = "refundsOut" => d.total = Float + Sales(t) - MovedOut(t)
           /\ d.pc = "reconcile" => d.total = Float + Sales(t) - MovedOut(t) - RefundedSince(t)

Undisturbed(w) == StillSo(work[w])

\* and the rows say what an open drawer, and the others meanwhile, came to hold.
Held ==
    \A t \in DOMAIN tills : tills[t].open /\ Plain(t) =>
        Counted(t) = Float + Sales(t) - MovedOut(t) - RefundedSince(t)

Calm == Alone /\ Held /\ \A w \in Workers : Undisturbed(w)

DrawerInv ==
    /\ RefundInv /\ DrawerTypes /\ Linked
    /\ \A w \in Workers : Knows(w)
    /\ ShiftSettled /\ OneSessionPerTill /\ DrawerAgrees
    /\ ~raced => Calm

-----------------------------------------------------------------------------
(* What a step does to the money                                           *)

LEMMA DrawerTypesAre ==
  /\ RefundInv /\ DrawerTypes => TypeOK
  /\ TypeOK => DrawerTypes
<1>1. RefundInv /\ DrawerTypes => TypeOK
  BY DEF RefundInv, RefundTypes, DrawerTypes, TypeOK, Slots, ShiftRows, TillRows, MoveRows, WorkSlots
<1>2. TypeOK => DrawerTypes
  BY DEF DrawerTypes, TypeOK, ShiftRows, TillRows, MoveRows, WorkSlots
<1>. QED
  BY <1>1, <1>2

\* The rows from the k-th on.
LEMMA SinceIs ==
  ASSUME NEW S, NEW rows \in Seq(S), NEW k \in Nat, k <= Len(rows)
  PROVE  LET new == SubSeq(rows, k + 1, Len(rows))
         IN  /\ new \in Seq(S) /\ Len(new) = Len(rows) - k /\ DOMAIN new = 1..(Len(rows) - k)
             /\ \A j \in 1..(Len(rows) - k) : j + k \in DOMAIN rows /\ new[j] = rows[j + k]
<1>. DEFINE n == Len(rows)
            new == SubSeq(rows, k + 1, n)
<1>1. n \in Nat /\ DOMAIN rows = 1..n /\ \A j \in 1..n : rows[j] \in S
  BY LenProperties, ElementOfSeq
<1>2. \A j \in (k + 1)..n : rows[j] \in S
  BY <1>1
<1>3. k + 1 \in Int /\ n \in Int
  BY <1>1
<1>. HIDE DEF n
<1>4. /\ new \in Seq(S) /\ Len(new) = (IF k + 1 <= n THEN n - (k + 1) + 1 ELSE 0)
      /\ \A j \in 1..(n - (k + 1) + 1) : new[j] = rows[(k + 1) + j - 1]
  BY <1>2, <1>3, SubSeqProperties
<1>5. k <= n
  BY DEF n
<1>6. n - (k + 1) + 1 = n - k /\ Len(new) = n - k
  BY <1>1, <1>4, <1>5
<1>7. DOMAIN new = 1..(n - k)
  BY <1>4, <1>6, LenProperties
<1>8. \A j \in 1..(n - k) : j + k \in 1..n /\ (k + 1) + j - 1 = j + k
  BY <1>1
<1>9. \A j \in 1..(n - k) : new[j] = rows[j + k]
  BY <1>4, <1>6, <1>8
<1>. QED
  BY <1>1, <1>4, <1>6, <1>7, <1>8, <1>9 DEF n

\* The refunds since the k-th, when one is added or completed.
LEMMA SinceAppended ==
  ASSUME NEW rows \in Seq(RefundRows), NEW x \in RefundRows, NEW k \in Nat, k <= Len(rows)
  PROVE  SubSeq(Append(rows, x), k + 1, Len(Append(rows, x)))
             = Append(SubSeq(rows, k + 1, Len(rows)), x)
<1>. DEFINE more == Append(rows, x)
            old == SubSeq(rows, k + 1, Len(rows))
            new == SubSeq(more, k + 1, Len(more))
            n == Len(rows) - k
<1>1. Len(more) = Len(rows) + 1 /\ more \in Seq(RefundRows) /\ Len(rows) \in Nat
      /\ more[Len(rows) + 1] = x /\ \A i \in DOMAIN rows : more[i] = rows[i]
  OBVIOUS
<1>2. /\ old \in Seq(RefundRows) /\ Len(old) = n
      /\ \A j \in 1..n : j + k \in DOMAIN rows /\ old[j] = rows[j + k]
  BY SinceIs
<1>. HIDE DEF more
<1>3. k <= Len(more) /\ Len(more) - k = n + 1 /\ n \in Nat
  BY <1>1
<1>4. /\ new \in Seq(RefundRows) /\ Len(new) = Len(more) - k
      /\ \A j \in 1..(Len(more) - k) : new[j] = more[j + k]
  BY <1>1, <1>3, SinceIs
<1>. HIDE DEF old, new
<1>5. /\ Append(old, x) \in Seq(RefundRows) /\ Len(Append(old, x)) = n + 1
      /\ Append(old, x)[n + 1] = x /\ \A j \in 1..n : Append(old, x)[j] = old[j]
  BY <1>2, <1>3
<1>6. ASSUME NEW j \in 1..(n + 1)
      PROVE  new[j] = Append(old, x)[j]
  <2>0. new[j] = more[j + k]
    BY <1>3, <1>4
  <2>1. CASE j = n + 1
    <3>1. j + k = Len(rows) + 1
      BY <1>1, <2>1
    <3>. QED
      BY <1>1, <1>5, <2>0, <2>1, <3>1
  <2>2. CASE j # n + 1
    <3>1. j \in 1..n
      BY <1>3, <2>2
    <3>. QED
      BY <1>1, <1>2, <1>5, <2>0, <3>1
  <2>. QED
    BY <2>1, <2>2
<1>7. new = Append(old, x)
  <2>. DEFINE late == Append(old, x)
  <2>1. late \in Seq(RefundRows) /\ Len(new) = Len(late) /\ \A j \in 1..Len(new) : new[j] = late[j]
    BY <1>3, <1>4, <1>5, <1>6
  <2>. HIDE DEF late
  <2>2. new = late
    BY <1>4, <2>1, SeqEqual
  <2>. QED
    BY <2>2 DEF late
<1>. QED
  BY <1>7 DEF new, old, more

LEMMA SinceCompleted ==
  ASSUME NEW rows \in Seq(RefundRows), NEW i \in DOMAIN rows, NEW more, Completes(rows, more, i),
         NEW k \in Nat, k <= Len(rows)
  PROVE  CompletedOf(SubSeq(more, k + 1, Len(more))) = CompletedOf(SubSeq(rows, k + 1, Len(rows)))
             + (IF i <= k \/ rows[i].status = "COMPLETED" THEN 0 ELSE rows[i].amount)
<1>1. Len(rows) \in Nat /\ DOMAIN rows = 1..Len(rows)
  OBVIOUS
<1>2. /\ more \in Seq(RefundRows) /\ DOMAIN more = DOMAIN rows /\ Len(more) = Len(rows)
      /\ \A j \in DOMAIN rows : /\ more[j].amount = rows[j].amount
                                /\ more[j].status = IF j = i THEN "COMPLETED" ELSE rows[j].status
      /\ \A j \in DOMAIN rows \ {i} : more[j] = rows[j]
  <2>1. \A j \in DOMAIN rows \ {i} : more[j] = rows[j]
    BY DEF Completes
  <2>. QED
    BY <2>1, RowCompleted
<1>. DEFINE n == Len(rows) - k
            old == SubSeq(rows, k + 1, Len(rows))
            new == SubSeq(more, k + 1, Len(more))
<1>3. /\ old \in Seq(RefundRows) /\ Len(old) = n /\ DOMAIN old = 1..n
      /\ \A j \in 1..n : j + k \in DOMAIN rows /\ old[j] = rows[j + k]
  BY SinceIs
<1>4. /\ new \in Seq(RefundRows) /\ Len(new) = n /\ DOMAIN new = 1..n
      /\ \A j \in 1..n : new[j] = more[j + k]
  <2>1. more \in Seq(RefundRows) /\ k <= Len(more) /\ Len(more) - k = n
    BY <1>2
  <2>. HIDE DEF n
  <2>. QED
    BY <2>1, SinceIs
<1>5. CompletedOf(old) \in Nat /\ rows[i].amount \in Nat
  <2>1. rows[i] \in RefundRows
    OBVIOUS
  <2>. HIDE DEF old
  <2>2. SumAt(old, Completed(old)) \in Nat
    BY <1>3, RowsHaveAmounts, AmountsFacts
  <2>. QED
    BY <1>3, <2>1, <2>2, CompletedIsSum, RowsHaveAmounts
<1>6. n \in Nat
  BY <1>1
<1>. HIDE DEF old, new
<1>7. CASE i <= k
  <2>1. \A j \in 1..n : j + k # i
    BY <1>1, <1>7
  <2>2. \A j \in 1..n : new[j] = old[j]
    BY <1>2, <1>3, <1>4, <2>1
  <2>. HIDE DEF n
  <2>3. new = old
    BY <1>3, <1>4, <2>2, SeqEqual
  <2>4. CompletedOf(new) = CompletedOf(old) + 0
    BY <1>5, <2>3
  <2>. QED
    BY <1>7, <2>4 DEF old, new
<1>8. CASE i > k
  <2>. DEFINE m == i - k
  <2>1. m \in 1..n /\ m + k = i /\ \A j \in 1..n : j + k = i <=> j = m
    BY <1>1, <1>8
  <2>. HIDE DEF m, n
  <2>2. Ticks(old, new, m)
    BY <1>2, <1>3, <1>4, <2>1 DEF Ticks
  <2>3. CompletedOf(new) = CompletedOf(old) + (IF old[m].status = "COMPLETED" THEN 0 ELSE old[m].amount)
    BY <1>3, <2>1, <2>2, CompletedCompleted
  <2>4. old[m] = rows[i] /\ ~ (i <= k)
    BY <1>1, <1>3, <1>8, <2>1
  <2>. QED
    BY <2>3, <2>4 DEF old, new
<1>. QED
  BY <1>1, <1>7, <1>8

\* What a session adds up, of whatever rows there are.
LEMMA SumsAreNat ==
  ASSUME RefundInv, DrawerTypes, Linked, NEW t \in DOMAIN tills
  PROVE  /\ tills[t] \in TillRows /\ tills[t].refunded \in Nat /\ tills[t].refunded <= Len(refunds)
         /\ refunds \in Seq(RefundRows) /\ moves \in Seq(MoveRows)
         /\ Sales(t) \in Nat /\ MovedOut(t) \in Nat /\ RefundedSince(t) \in Nat
<1>1. refunds \in Seq(RefundRows) /\ moves \in Seq(MoveRows) /\ tills \in Seq(TillRows)
  BY DEF RefundInv, RefundTypes, RefundTypeOK, RefundRows, DrawerTypes
<1>2. tills[t] \in TillRows
  BY <1>1
<1>3. tills[t].refunded \in Nat /\ tills[t].refunded <= Len(refunds)
  BY <1>2, BoundsAssumption DEF TillRows, Linked
<1>4. Sales(t) \in Nat
  <2>1. {p \in CashPayments \ tills[t].paid : pay[p] = "COMPLETED"} \in SUBSET CashPayments
    OBVIOUS
  <2>. QED
    BY <2>1, RecordedAdds DEF Sales
<1>5. MovedOut(t) \in Nat
  <2>1. SumAt(moves, Dropped(moves, t)) \in Nat
    BY <1>1, RowsHaveAmounts, AmountsFacts
  <2>. QED
    BY <1>1, <2>1, SumsAre, DroppedIsSum
<1>6. RefundedSince(t) \in Nat
  <2>. DEFINE rows == SubSeq(refunds, tills[t].refunded + 1, Len(refunds))
  <2>1. rows \in Seq(RefundRows)
    BY <1>1, <1>3, SinceIs
  <2>2. RefundedSince(t) = CompletedOf(rows)
    BY SumsAre
  <2>. HIDE DEF rows
  <2>3. SumAt(rows, Completed(rows)) \in Nat
    BY <2>1, RowsHaveAmounts, AmountsFacts
  <2>. QED
    BY <2>1, <2>2, <2>3, CompletedIsSum
<1>. QED
  BY <1>1, <1>2, <1>3, <1>4, <1>5, <1>6

\* The four things a step of the refunds may do to the money.
Paying == refunds' = refunds
          /\ \E p \in Payments : pay[p] = "ABSENT" /\ pay' = [pay EXCEPT ![p] = "COMPLETED"]
GivingUp == refunds' = refunds /\ \A p \in Payments : pay'[p] = pay[p] \/ pay'[p] = "REFUNDED"
Adding == pay' = pay /\ \E x \in RefundRows : refunds' = Append(refunds, x)
Completing == pay' = pay /\ \E i \in DOMAIN refunds : Completes(refunds, refunds', i)

LEMMA RefundEffects ==
  ASSUME RefundInv, RefundNext
  PROVE  Paying \/ GivingUp \/ Adding \/ Completing
<1>0. pay \in [Payments -> PaymentStatus]
  BY DEF RefundInv, RefundTypes, RefundTypeOK
<1>1. ASSUME NEW p \in Payments, TakePayment(p)
      PROVE  Paying
  BY <1>1 DEF TakePayment, Paying
<1>2. ASSUME UNCHANGED <<pay, refunds>>
      PROVE  GivingUp
  BY <1>2 DEF GivingUp
<1>3. ASSUME NEW o \in Orders, WindowPasses(o)
      PROVE  GivingUp
  BY <1>2, <1>3 DEF WindowPasses
<1>4. ASSUME NEW r \in Requests,
             \/ \E p \in Payments, a \in RefundAmounts : RefundRead(r, p, a)
             \/ ReadPayment(r) \/ SumRefunds(r) \/ FlagAnomaly(r) \/ MarkSum(r)
             \/ \E i \in DOMAIN refunds : ApproveRead(r, i)
             \/ \E o \in Orders : VoidRead(r, o)
             \/ Crash(r)
      PROVE  GivingUp
  <2>1. UNCHANGED <<pay, refunds>>
    BY <1>4 DEF RefundRead, ReadPayment, SumRefunds, FlagAnomaly, MarkSum, ApproveRead, VoidRead, Crash
  <2>. QED
    BY <1>2, <2>1
<1>5. ASSUME NEW r \in Requests, InsertRefund(r)
      PROVE  Adding
  <2>. DEFINE st == IF req[r].amount <= Threshold THEN "COMPLETED" ELSE "PENDING"
              x == [of |-> req[r].payment, amount |-> req[r].amount, status |-> st]
  <2>1. req[r].pc = "insert" /\ refunds' = Append(refunds, x) /\ pay' = pay
    BY <1>5 DEF InsertRefund
  <2>2. x \in RefundRows
    BY <2>1, RefundSlot DEF Carried, OfPayment, RefundRows, RefundStatus
  <2>. HIDE DEF x
  <2>. QED
    BY <2>1, <2>2 DEF Adding
<1>6. ASSUME NEW r \in Requests, ApproveWrite(r)
      PROVE  Completing
  <2>1. req[r].pc = "approve" /\ Completes(refunds, refunds', req[r].row) /\ pay' = pay
    BY <1>6 DEF ApproveWrite, Completes
  <2>2. req[r].row \in DOMAIN refunds
    BY <2>1, RefundSlot DEF Carried
  <2>. QED
    BY <2>1, <2>2 DEF Completing
<1>7. ASSUME NEW r \in Requests, MarkWrite(r)
      PROVE  GivingUp
  BY <1>0, <1>7 DEF MarkWrite, GivingUp
<1>8. ASSUME NEW r \in Requests, VoidWrite(r)
      PROVE  GivingUp
  BY <1>0, <1>8 DEF VoidWrite, GivingUp
<1>. QED
  BY <1>1, <1>3, <1>4, <1>5, <1>6, <1>7, <1>8 DEF RefundNext

\* Refunds keep what they are about, payments stay taken and stay given back.
LEMMA MoneyKept ==
  ASSUME RefundInv, RefundNext
  PROVE  /\ Len(refunds) <= Len(refunds') /\ DOMAIN refunds \subseteq DOMAIN refunds'
         /\ \A i \in DOMAIN refunds : /\ refunds'[i].of = refunds[i].of
                                      /\ refunds'[i].amount = refunds[i].amount
         /\ \A p \in Payments : /\ pay[p] = "REFUNDED" => pay'[p] = "REFUNDED"
                                /\ pay[p] # "ABSENT" => pay'[p] # "ABSENT"
<1>0. pay \in [Payments -> PaymentStatus] /\ refunds \in Seq(RefundRows)
  BY DEF RefundInv, RefundTypes, RefundTypeOK, RefundRows
<1>1. CASE Paying
  BY <1>0, <1>1 DEF Paying, PaymentStatus
<1>2. CASE GivingUp
  BY <1>0, <1>2 DEF GivingUp
<1>3. CASE Adding
  BY <1>0, <1>3 DEF Adding
<1>4. CASE Completing
  BY <1>0, <1>4, RowCompleted DEF Completing
<1>. QED
  BY <1>1, <1>2, <1>3, <1>4, RefundEffects

LEMMA PlainBefore ==
  ASSUME RefundInv, RefundNext, tills' = tills, NEW t, Plain(t)'
  PROVE  Plain(t)
<1>1. \A p \in CashPayments : p \in Payments
  BY DrawerAssumption
<1>. QED
  BY <1>1, MoneyKept DEF Plain

\* The cash payments a step takes.
Taken == {p \in CashPayments : pay[p] = "ABSENT" /\ pay'[p] = "COMPLETED"}

\* What a step of the refunds pays in and out is what a plain session's sums
\* change by.
LEMMA MoneyMoves ==
  ASSUME RefundInv, DrawerTypes, Linked, RefundNext, RefundInv', UNCHANGED <<tills, moves>>,
         NEW t \in DOMAIN tills, Plain(t)'
  PROVE  /\ Recorded(Taken) \in Int /\ PaidOut \in Int /\ MovedOut(t)' = MovedOut(t)
         /\ Sales(t)' - RefundedSince(t)' = Sales(t) - RefundedSince(t) + Recorded(Taken) - PaidOut
<1>. DEFINE k == tills[t].refunded
            since == SubSeq(refunds, k + 1, Len(refunds))
            since1 == SubSeq(refunds', k + 1, Len(refunds'))
<1>1. /\ Plain(t) /\ k \in Nat /\ k <= Len(refunds) /\ refunds \in Seq(RefundRows)
      /\ refunds' \in Seq(RefundRows) /\ pay \in [Payments -> PaymentStatus]
      /\ pay' \in [Payments -> PaymentStatus]
      /\ Sales(t) \in Nat /\ RefundedSince(t) \in Nat /\ CashPayments \subseteq Payments
  BY PlainBefore, SumsAreNat, DrawerAssumption DEF RefundInv, RefundTypes, RefundTypeOK, RefundRows
<1>2. /\ RefundedSince(t) = CompletedOf(since) /\ RefundedSince(t)' = CompletedOf(since1)
      /\ MovedOut(t)' = MovedOut(t)
  BY SumsAre, SumsAreNext
<1>3. ASSUME refunds' = refunds
      PROVE  RefundedSince(t)' = RefundedSince(t) /\ PaidOut = 0
  <2>1. \A i \in DOMAIN refunds : ~ (refunds[i].status = "COMPLETED" /\ refunds[i].status = "PENDING")
    OBVIOUS
  <2>2. Fresh(refunds, refunds') = {}
    BY <1>3, <2>1 DEF Fresh
  <2>3. PaidOut = 0
    BY <1>1, <2>2, PaidOutIs, MoneyOut
  <2>. QED
    BY <1>2, <1>3, <2>3
<1>4. ASSUME pay' = pay
      PROVE  Sales(t)' = Sales(t) /\ Recorded(Taken) = 0
  <2>1. Taken = {}
    BY <1>4 DEF Taken
  <2>. QED
    BY <1>4, <2>1, RecordedAdds DEF Sales
<1>5. CASE Paying
  <2>1. PICK p \in Payments : pay[p] = "ABSENT" /\ pay' = [pay EXCEPT ![p] = "COMPLETED"]
    BY <1>5 DEF Paying
  <2>2. pay'[p] = "COMPLETED" /\ \A q \in Payments \ {p} : pay'[q] = pay[q]
    BY <1>1, <2>1
  <2>3. p \notin tills[t].paid
    BY <2>1 DEF Linked
  <2>. DEFINE sold == {q \in CashPayments \ tills[t].paid : pay[q] = "COMPLETED"}
              sold1 == {q \in CashPayments \ tills[t].paid : pay'[q] = "COMPLETED"}
  <2>4. Sales(t) = Recorded(sold) /\ Sales(t)' = Recorded(sold1)
    BY DEF Sales
  <2>5. CASE p \in CashPayments
    <3>1. sold1 = sold \cup {p} /\ p \notin sold /\ sold \in SUBSET CashPayments
      BY <1>1, <2>1, <2>2, <2>3, <2>5
    <3>2. Taken = {} \cup {p}
      BY <1>1, <2>1, <2>2, <2>5 DEF Taken
    <3>. HIDE DEF sold, sold1
    <3>3. Recorded(sold \cup {p}) = Recorded(sold) + Amount[p]
      BY <2>5, <3>1, RecordedAdds
    <3>4. Recorded({} \cup {p}) = Recorded({}) + Amount[p] /\ Recorded({}) = 0
      BY <2>5, RecordedAdds
    <3>5. Amount[p] \in Nat
      BY AmountAssumption
    <3>6. Recorded(Taken) = Amount[p] /\ Sales(t)' = Sales(t) + Amount[p]
      BY <2>4, <3>1, <3>2, <3>3, <3>4, <3>5
    <3>7. RefundedSince(t)' = RefundedSince(t) /\ PaidOut = 0
      BY <1>3, <1>5 DEF Paying
    <3>. QED
      BY <1>1, <1>2, <3>5, <3>6, <3>7
  <2>6. CASE p \notin CashPayments
    <3>1. sold1 = sold /\ Taken = {}
      BY <1>1, <2>2, <2>6 DEF Taken
    <3>2. Recorded(Taken) = 0 /\ Sales(t)' = Sales(t)
      BY <2>4, <3>1, RecordedAdds
    <3>7. RefundedSince(t)' = RefundedSince(t) /\ PaidOut = 0
      BY <1>3, <1>5 DEF Paying
    <3>. QED
      BY <1>1, <1>2, <3>2, <3>7
  <2>. QED
    BY <2>5, <2>6
<1>6. CASE GivingUp
  <2>1. \A q \in CashPayments : pay'[q] # "REFUNDED"
    BY DEF Plain
  <2>2. \A q \in CashPayments : pay'[q] = pay[q]
    BY <1>1, <1>6, <2>1 DEF GivingUp
  <2>3. Taken = {}
    BY <2>2 DEF Taken
  <2>4. {q \in CashPayments \ tills[t].paid : pay'[q] = "COMPLETED"}
            = {q \in CashPayments \ tills[t].paid : pay[q] = "COMPLETED"}
    BY <2>2
  <2>5. Sales(t)' = Sales(t) /\ Recorded(Taken) = 0
    BY <2>3, <2>4, RecordedAdds DEF Sales
  <2>6. RefundedSince(t)' = RefundedSince(t) /\ PaidOut = 0
    BY <1>3, <1>6 DEF GivingUp
  <2>. QED
    BY <1>1, <1>2, <2>5, <2>6
<1>7. CASE Adding
  <2>1. PICK x \in RefundRows : refunds' = Append(refunds, x)
    BY <1>7 DEF Adding
  <2>. DEFINE n == Len(refunds) + 1
  <2>2. /\ DOMAIN refunds' = DOMAIN refunds \cup {n} /\ n \notin DOMAIN refunds /\ refunds'[n] = x
        /\ \A i \in DOMAIN refunds : refunds'[i] = refunds[i]
        /\ n \in Nat /\ n > k /\ x.amount \in Nat /\ x.status \in RefundStatus
    BY <1>1, <2>1, RowsHaveAmounts DEF RefundRows
  <2>3. x.of \in CashPayments
    <3>1. n \in DOMAIN refunds' /\ ~ (n <= k)
      BY <1>1, <2>2
    <3>2. refunds'[n].of \in CashPayments
      BY <3>1 DEF Plain
    <3>. QED
      BY <2>2, <3>2
  <2>4. /\ CompletedOf(since) \in Nat
        /\ CompletedOf(since1) = CompletedOf(since) + (IF x.status = "COMPLETED" THEN x.amount ELSE 0)
    <3>1. since \in Seq(RefundRows)
      BY <1>1, SinceIs
    <3>2. since1 = Append(since, x)
      BY <1>1, <2>1, SinceAppended
    <3>. HIDE DEF since, since1
    <3>. QED
      BY <3>1, <3>2, CompletedAppended
  <2>5. Fresh(refunds, refunds') = IF x.status = "COMPLETED" THEN {n} ELSE {}
    <3>1. \A i \in DOMAIN refunds : i \notin Fresh(refunds, refunds')
      BY <2>2 DEF Fresh
    <3>2. n \in Fresh(refunds, refunds') <=> x.status = "COMPLETED"
      BY <2>2, <2>3 DEF Fresh
    <3>3. Fresh(refunds, refunds') \subseteq DOMAIN refunds'
      BY DEF Fresh
    <3>. QED
      BY <2>2, <3>1, <3>2, <3>3
  <2>6. PaidOut = IF x.status = "COMPLETED" THEN x.amount ELSE 0
    <3>1. MoneyOf(refunds', {}) = 0 /\ MoneyOf(refunds', {n}) = refunds'[n].amount
      BY <1>1, <2>2, MoneyOut
    <3>. QED
      BY <2>2, <2>5, <3>1, PaidOutIs
  <2>7. Sales(t)' = Sales(t) /\ Recorded(Taken) = 0
    BY <1>4, <1>7 DEF Adding
  <2>. HIDE DEF since, since1
  <2>. QED
    BY <1>1, <1>2, <2>2, <2>4, <2>6, <2>7
<1>8. CASE Completing
  <2>1. PICK i \in DOMAIN refunds : Completes(refunds, refunds', i)
    BY <1>8 DEF Completing
  <2>2. /\ DOMAIN refunds' = DOMAIN refunds
        /\ \A j \in DOMAIN refunds :
               /\ refunds'[j].of = refunds[j].of /\ refunds'[j].amount = refunds[j].amount
               /\ refunds'[j].status = IF j = i THEN "COMPLETED" ELSE refunds[j].status
    BY <1>1, <2>1, RowCompleted
  <2>3. refunds[i] \in RefundRows /\ refunds[i].amount \in Nat /\ i \in Nat
        /\ refunds[i].status \in {"PENDING", "COMPLETED"}
    <3>1. refunds[i] \in RefundRows /\ i \in Nat
      BY <1>1
    <3>. QED
      BY <3>1, RowsHaveAmounts DEF RefundRows, RefundStatus
  <2>4. i <= k => refunds[i].status = "COMPLETED"
    <3>1. i <= k => refunds[i].amount <= Threshold
      BY <1>1 DEF Plain
    <3>2. refunds[i].status = "PENDING" => refunds[i].amount > Threshold
      BY DEF RefundInv, LargeWaits
    <3>. QED
      BY <2>3, <3>1, <3>2, AmountAssumption
  <2>5. ~ (i <= k) => refunds[i].of \in CashPayments
    BY <1>1 DEF Plain
  <2>6. CompletedOf(since1) = CompletedOf(since) + (IF refunds[i].status = "COMPLETED" THEN 0 ELSE refunds[i].amount)
    <3>1. CompletedOf(since1) = CompletedOf(since)
              + (IF i <= k \/ refunds[i].status = "COMPLETED" THEN 0 ELSE refunds[i].amount)
      BY <1>1, <2>1, SinceCompleted
    <3>. HIDE DEF since, since1
    <3>. QED
      BY <2>4, <3>1
  <2>7. Fresh(refunds, refunds') = IF refunds[i].status = "PENDING" THEN {i} ELSE {}
    <3>1. \A j \in DOMAIN refunds \ {i} : j \notin Fresh(refunds, refunds')
      BY <2>2 DEF Fresh
    <3>2. i \in Fresh(refunds, refunds') <=> refunds[i].status = "PENDING"
      BY <2>2, <2>3, <2>4, <2>5 DEF Fresh
    <3>3. Fresh(refunds, refunds') \subseteq DOMAIN refunds
      BY <2>2 DEF Fresh
    <3>. QED
      BY <3>1, <3>2, <3>3
  <2>8. PaidOut = IF refunds[i].status = "PENDING" THEN refunds[i].amount ELSE 0
    <3>1. MoneyOf(refunds', {}) = 0 /\ MoneyOf(refunds', {i}) = refunds'[i].amount
      BY <1>1, <2>2, MoneyOut
    <3>. QED
      BY <2>2, <2>7, <3>1, PaidOutIs
  <2>9. Sales(t)' = Sales(t) /\ Recorded(Taken) = 0
    BY <1>4, <1>8 DEF Completing
  <2>. HIDE DEF since, since1
  <2>. QED
    BY <1>1, <1>2, <2>3, <2>6, <2>8, <2>9
<1>. QED
  BY <1>5, <1>6, <1>7, <1>8, RefundEffects

-----------------------------------------------------------------------------
(* The drawer and the races                                                *)

\* What a step makes of the cash of a session that was there and of its others.
CashMoved(t) ==
    /\ Counted(t) \in Int /\ Dropping(t) \in Nat
    /\ ~tills[t].open => Counted(t)' = Counted(t)
    /\ tills[t].open => Counted(t)' = Counted(t) + Recorded(Taken) - PaidOut - Dropping(t)

LEMMA MoneyTyped ==
  ASSUME RefundInv'
  PROVE  Recorded(Taken) \in Int /\ PaidOut \in Int
<1>1. Taken \in SUBSET CashPayments
  BY DEF Taken
<1>2. Recorded(Taken) \in Nat
  BY <1>1, RecordedAdds
<1>3. refunds' \in Seq(RefundRows)
  BY DEF RefundInv, RefundTypes, RefundTypeOK, RefundRows
<1>. PICK rows \in Seq(RefundRows) : rows = refunds'
  BY <1>3
<1>. DEFINE set == Fresh(refunds, rows)
            w == Amounts(rows)
<1>4. set \in SUBSET DOMAIN rows
  BY DEF Fresh
<1>5. IsFiniteSet(DOMAIN rows) /\ \A i \in DOMAIN rows : w[i] \in Nat
  <2>1. IsFiniteSet(DOMAIN rows)
    BY RowsHaveAmounts, AmountsFacts
  <2>2. ASSUME NEW i \in DOMAIN rows
        PROVE  w[i] \in Nat
    <3>1. rows[i] \in RefundRows
      OBVIOUS
    <3>. QED
      BY <3>1, RowsHaveAmounts DEF Amounts
  <2>. QED
    BY <2>1, <2>2
<1>6. PaidOut = MoneyOf(rows, set)
  BY PaidOutIs
<1>. HIDE DEF set, w
<1>7. IsFiniteSet(set) /\ \A i \in set : w[i] \in Nat
  BY <1>4, <1>5, FS_Subset
<1>8. WSum(w, set) \in Nat
  BY <1>7, WSumNat
<1>. QED
  BY <1>2, <1>4, <1>6, <1>8, MoneyIsSum DEF w

LEMMA NoMoney ==
  ASSUME RefundInv, refunds' = refunds, pay' = pay
  PROVE  Recorded(Taken) = 0 /\ PaidOut = 0
<1>1. Taken = {}
  BY DEF Taken
<1>2. refunds \in Seq(RefundRows)
  BY DEF RefundInv, RefundTypes, RefundTypeOK, RefundRows
<1>3. Fresh(refunds, refunds') = {}
  <2>1. \A i \in DOMAIN refunds : ~ (refunds[i].status = "COMPLETED" /\ refunds[i].status = "PENDING")
    OBVIOUS
  <2>. QED
    BY <2>1 DEF Fresh
<1>4. PaidOut = 0
  BY <1>2, <1>3, PaidOutIs, MoneyOut
<1>. QED
  BY <1>1, <1>4, RecordedAdds

LEMMA CashIs ==
  ASSUME RefundInv', DrawerTypes, CashFlow, tills' \in Seq(TillRows), moves' \in Seq(MoveRows)
  PROVE  /\ cash' \in Seq(Int) /\ Len(cash') = Len(tills')
         /\ elsewhere' \in Seq(Int) /\ Len(elsewhere') = Len(tills')
         /\ \A t \in DOMAIN tills : t \in DOMAIN tills' => CashMoved(t)
         /\ \A t \in DOMAIN tills' \ DOMAIN tills : Counted(t)' = Float
<1>1. Recorded(Taken) \in Int /\ PaidOut \in Int
  BY MoneyTyped
<1>2. /\ DOMAIN tills' = 1..Len(tills') /\ Len(tills') \in Nat
      /\ \A t \in DOMAIN tills : cash[t] \in Int /\ elsewhere[t] \in Int
  BY DEF DrawerTypes
<1>3. ASSUME NEW t
      PROVE  Dropping(t) \in Nat
  <2>1. Len(moves') \in Nat /\ Len(moves) \in Nat
    BY DEF DrawerTypes
  <2>2. Len(moves') > Len(moves) => moves'[Len(moves')] \in MoveRows
    BY <2>1
  <2>. QED
    BY <2>2, RowsHaveAmounts DEF Dropping
<1>. DEFINE through == Recorded(Taken) - PaidOut
            open == {t \in DOMAIN tills : tills[t].open}
<1>4. PICK d \in IF open = {} THEN {0} ELSE open :
          /\ cash' = [t \in DOMAIN tills' |->
                 IF t \notin DOMAIN tills THEN Float
                 ELSE IF t \notin open THEN cash[t]
                 ELSE cash[t] - Dropping(t) + (IF t = d THEN through ELSE 0)]
          /\ elsewhere' = [t \in DOMAIN tills' |->
                 IF t \notin DOMAIN tills THEN 0
                 ELSE elsewhere[t] + (IF t \in open /\ t # d THEN through ELSE 0)]
  BY DEF CashFlow, Taken
<1>. DEFINE own(t) == IF t \notin DOMAIN tills THEN Float
                      ELSE IF t \notin open THEN cash[t]
                      ELSE cash[t] - Dropping(t) + (IF t = d THEN through ELSE 0)
            others(t) == IF t \notin DOMAIN tills THEN 0
                         ELSE elsewhere[t] + (IF t \in open /\ t # d THEN through ELSE 0)
<1>5. \A t \in DOMAIN tills' : own(t) \in Int /\ others(t) \in Int
  <2>1. through \in Int
    BY <1>1
  <2>. HIDE DEF through, open
  <2>. QED
    BY <1>2, <1>3, <2>1, DrawerAssumption
<1>6. /\ cash' \in Seq(Int) /\ Len(cash') = Len(tills')
      /\ elsewhere' \in Seq(Int) /\ Len(elsewhere') = Len(tills')
      /\ \A t \in DOMAIN tills' : cash'[t] = own(t) /\ elsewhere'[t] = others(t)
  <2>1. cash' = [t \in 1..Len(tills') |-> own(t)] /\ elsewhere' = [t \in 1..Len(tills') |-> others(t)]
    BY <1>2, <1>4
  <2>. HIDE DEF own, others
  <2>2. cash' \in [1..Len(tills') -> Int] /\ elsewhere' \in [1..Len(tills') -> Int]
    BY <1>2, <1>5, <2>1
  <2>3. \A n \in Nat : \A f \in [1..n -> Int] : f \in Seq(Int) /\ Len(f) = n
    OBVIOUS
  <2>4. Len(tills') \in Nat
    BY <1>2
  <2>5. \A t \in DOMAIN tills' : cash'[t] = own(t) /\ elsewhere'[t] = others(t)
    BY <1>2, <2>1
  <2>. QED
    BY <2>2, <2>3, <2>4, <2>5
<1>7. ASSUME NEW t \in DOMAIN tills, t \in DOMAIN tills'
      PROVE  CashMoved(t)
  <2>1. cash[t] \in Int /\ elsewhere[t] \in Int /\ Dropping(t) \in Nat /\ through \in Int
    BY <1>1, <1>2, <1>3, <1>7
  <2>2. cash'[t] = own(t) /\ elsewhere'[t] = others(t)
    BY <1>6, <1>7
  <2>3. ~tills[t].open => cash'[t] + elsewhere'[t] = cash[t] + elsewhere[t]
    BY <1>7, <2>1, <2>2
  <2>4. tills[t].open => cash'[t] + elsewhere'[t] = cash[t] + elsewhere[t] + through - Dropping(t)
    <3>. HIDE DEF through
    <3>. QED
      BY <1>7, <2>1, <2>2
  <2>5. \A a, b, c, e \in Int : a + b + (c - e) = a + b + c - e
    OBVIOUS
  <2>. QED
    BY <1>1, <2>1, <2>3, <2>4, <2>5 DEF CashMoved, Counted
<1>8. ASSUME NEW t \in DOMAIN tills' \ DOMAIN tills
      PROVE  Counted(t)' = Float
  <2>1. cash'[t] = Float /\ elsewhere'[t] = 0
    BY <1>6, <1>8
  <2>. QED
    BY <2>1, DrawerAssumption DEF Counted
<1>. QED
  BY <1>6, <1>7, <1>8

\* A request that meets nobody.
LEMMA NotRaced ==
  ASSUME DrawerTypes, ~raced',
         raced' = \/ raced
                  \/ Cardinality(Busy') > 1
                  \/ pay' # pay /\ \E w \in Workers : work[w].pc # "idle"
  PROVE  /\ ~raced /\ Alone' /\ (pay' = pay \/ \A w \in Workers : work[w].pc = "idle")
<1>1. ~raced /\ ~ (Cardinality(Busy') > 1) /\ (pay' = pay \/ \A w \in Workers : work[w].pc = "idle")
  OBVIOUS
<1>2. IsFiniteSet(Busy')
  <2>1. IsFiniteSet(Requests \cup Workers) /\ Busy' \subseteq Requests \cup Workers
    BY DrawerAssumption, FS_Union DEF Busy
  <2>. QED
    BY <2>1, FS_Subset
<1>3. ASSUME NEW x \in Busy', NEW y \in Busy', x # y
      PROVE  FALSE
  <2>1. IsFiniteSet({x}) /\ Cardinality({x}) = 1
    BY FS_Singleton
  <2>2. Cardinality({x} \cup {y}) = 2
    BY <1>3, <2>1, FS_AddElement
  <2>3. {x} \cup {y} \subseteq Busy'
    OBVIOUS
  <2>4. Cardinality({x} \cup {y}) <= Cardinality(Busy')
    BY <1>2, <2>3, FS_Subset
  <2>5. Cardinality(Busy') \in Nat
    BY <1>2, FS_CardinalityType
  <2>. QED
    BY <1>1, <2>2, <2>4, <2>5
<1>. QED
  BY <1>1, <1>3 DEF Alone

Races == raced' = \/ raced
                  \/ Cardinality(Busy') > 1
                  \/ pay' # pay /\ \E w \in Workers : work[w].pc # "idle"

\* Every call in progress is a payment's or a till's.
LEMMA NoRefundAlone ==
  ASSUME RefundInv, RefundNext, pay' = pay, \A r \in Requests : req[r].pc = "idle"
  PROVE  refunds' = refunds
<1>1. ASSUME NEW r \in Requests
      PROVE  ~ InsertRefund(r) /\ ~ ApproveWrite(r)
  BY DEF InsertRefund, ApproveWrite
<1>. QED
  BY <1>1 DEF RefundNext, TakePayment, WindowPasses, RefundRead, ReadPayment, SumRefunds,
              FlagAnomaly, MarkSum, MarkWrite, ApproveRead, VoidRead, VoidWrite, Crash

\* The sums of a session that a step leaves alone.
LEMMA SumsStay ==
  ASSUME refunds' = refunds, pay' = pay, NEW t, tills'[t].paid = tills[t].paid,
         tills'[t].refunded = tills[t].refunded
  PROVE  /\ Sales(t)' = Sales(t) /\ RefundedSince(t)' = RefundedSince(t)
         /\ Plain(t)' <=> Plain(t)
<1>1. Sales(t)' = Sales(t)
  BY DEF Sales
<1>2. RefundedSince(t)' = RefundedSince(t)
  BY SumsAre, SumsAreNext
<1>3. Plain(t)' <=> Plain(t)
  BY DEF Plain
<1>. QED
  BY <1>1, <1>2, <1>3

LEMMA MovedStays ==
  ASSUME moves' = moves
  PROVE  \A t : MovedOut(t)' = MovedOut(t)
BY SumsAre, SumsAreNext

LEMMA SumsAreNatNext ==
  (RefundInv /\ DrawerTypes /\ Linked
      => \A t \in DOMAIN tills : Sales(t) \in Nat /\ RefundedSince(t) \in Nat)'
<1>1. RefundInv /\ DrawerTypes /\ Linked
          => \A t \in DOMAIN tills : Sales(t) \in Nat /\ RefundedSince(t) \in Nat
  BY SumsAreNat
<1>. QED
  BY <1>1, PTL

LEMMA RefundStepKeeps ==
  ASSUME DrawerInv, RefundNext, UNCHANGED drawerVars, CashFlow, Races
  PROVE  DrawerInv'
<1>0. /\ RefundInv /\ RefundInv' /\ DrawerTypes /\ Linked
      /\ UNCHANGED <<shifts, tills, moves, work>>
  BY RefundInvStep DEF DrawerInv, drawerVars
<1>1. tills' \in Seq(TillRows) /\ moves' \in Seq(MoveRows) /\ DOMAIN tills' = DOMAIN tills
      /\ raced' \in BOOLEAN
  BY <1>0 DEF DrawerTypes, Races
<1>2. /\ cash' \in Seq(Int) /\ Len(cash') = Len(tills')
      /\ elsewhere' \in Seq(Int) /\ Len(elsewhere') = Len(tills')
      /\ \A t \in DOMAIN tills : CashMoved(t)
  BY <1>0, <1>1, CashIs
<1>3. DrawerTypes'
  BY <1>0, <1>1, <1>2 DEF DrawerTypes
<1>4. \A t : Dropping(t) = 0
  <2>1. Len(moves) \in Nat
    BY <1>0 DEF DrawerTypes
  <2>. QED
    BY <1>0, <2>1 DEF Dropping
<1>5. Linked'
  <2>1. ASSUME NEW t \in DOMAIN tills
        PROVE  /\ tills[t].shift \in DOMAIN shifts
               /\ tills[t].refunded <= Len(refunds')
               /\ \A p \in tills[t].paid : pay'[p] # "ABSENT"
    <3>1. tills[t] \in TillRows /\ tills[t].refunded \in Nat /\ tills[t].refunded <= Len(refunds)
          /\ Len(refunds) \in Nat /\ Len(refunds') \in Nat
      BY <1>0, SumsAreNat DEF RefundInv, RefundTypes, RefundTypeOK
    <3>2. tills[t].paid \subseteq Payments
      BY <3>1 DEF TillRows
    <3>3. tills[t].refunded <= Len(refunds')
      BY <1>0, <3>1, MoneyKept
    <3>. QED
      BY <1>0, <3>2, <3>3, MoneyKept DEF Linked
  <2>. QED
    BY <1>0, <2>1 DEF Linked
<1>6. \A w \in Workers : Knows(w)'
  BY <1>0 DEF DrawerInv, Knows, Known
<1>7. raced => raced'
  BY <1>0 DEF Races, DrawerTypes
<1>8. ShiftSettled' /\ OneSessionPerTill'
  BY <1>0, <1>7 DEF DrawerInv, ShiftSettled, OneSessionPerTill, OpenTills, Sessions
<1>9. DrawerAgrees'
  BY <1>0, <1>2, <1>7, PlainBefore DEF DrawerInv, DrawerAgrees, CashMoved
<1>10. ASSUME ~raced'
       PROVE  Calm'
  <2>1. ~raced /\ Alone' /\ Calm /\ (pay' = pay \/ \A w \in Workers : work[w].pc = "idle")
    BY <1>0, <1>10, NotRaced DEF Races, DrawerInv
  <2>2. Held'
    <3>1. ASSUME NEW t \in DOMAIN tills, tills[t].open, Plain(t)'
          PROVE  Counted(t)' = Float + Sales(t)' - MovedOut(t)' - RefundedSince(t)'
      <4>1. Plain(t) /\ Counted(t) = Float + Sales(t) - MovedOut(t) - RefundedSince(t)
        BY <1>0, <2>1, <3>1, PlainBefore DEF Calm, Held
      <4>2. /\ Recorded(Taken) \in Int /\ PaidOut \in Int /\ MovedOut(t)' = MovedOut(t)
            /\ Sales(t)' - RefundedSince(t)' = Sales(t) - RefundedSince(t) + Recorded(Taken) - PaidOut
        BY <1>0, <3>1, MoneyMoves
      <4>3. Sales(t) \in Nat /\ MovedOut(t) \in Nat /\ RefundedSince(t) \in Nat
        BY <1>0, SumsAreNat
      <4>4. Sales(t)' \in Nat /\ RefundedSince(t)' \in Nat
        <5>1. t \in DOMAIN tills'
          BY <1>1
        <5>. QED
          BY <1>0, <1>3, <1>5, <5>1, SumsAreNatNext
      <4>5. Counted(t)' = Counted(t) + Recorded(Taken) - PaidOut
        BY <1>2, <1>4, <3>1, <4>2 DEF CashMoved
      <4>6. \A a, b, m, f, i, o \in Int : \A x, y \in Int : x - y = a - b + i - o
                => f + a - m - b + i - o = f + x - m - y
        OBVIOUS
      <4>. QED
        BY <4>1, <4>2, <4>3, <4>4, <4>5, <4>6, DrawerAssumption
    <3>. QED
      BY <1>0, <3>1 DEF Held
  <2>3. ASSUME NEW w \in Workers
        PROVE  Undisturbed(w)'
    <3>1. CASE work[w].pc = "idle"
      <4>1. work'[w].pc = "idle"
        BY <1>0, <3>1
      <4>. QED
        BY <4>1 DEF Undisturbed, StillSo, OfTill
    <3>2. CASE work[w].pc # "idle"
      <4>1. pay' = pay
        BY <2>1, <3>2
      <4>2. ASSUME NEW r \in Requests
            PROVE  req[r].pc = "idle"
        <5>1. w \in Busy /\ r # w
          BY <3>2, DrawerAssumption DEF Busy
        <5>2. r \notin Busy
          BY <2>1, <5>1 DEF Calm, Alone
        <5>. QED
          BY <5>2 DEF Busy
      <4>3. refunds' = refunds
        BY <1>0, <4>1, <4>2, NoRefundAlone
      <4>4. \A t : /\ Sales(t)' = Sales(t) /\ RefundedSince(t)' = RefundedSince(t)
                   /\ MovedOut(t)' = MovedOut(t)
        BY <1>0, <4>1, <4>3, SumsStay, MovedStays
      <4>5. \A s : OpenTills(s)' = OpenTills(s) /\ Sessions(s)' = Sessions(s)
        BY <1>0 DEF OpenTills, Sessions
      <4>6. Undisturbed(w)
        BY <2>1 DEF Calm
      <4>. QED
        BY <1>0, <4>4, <4>5, <4>6 DEF Undisturbed, StillSo
    <3>. QED
      BY <3>1, <3>2
  <2>. QED
    BY <2>1, <2>2, <2>3 DEF Calm
<1>. QED
  BY <1>0, <1>3, <1>5, <1>6, <1>8, <1>9, <1>10 DEF DrawerInv

-----------------------------------------------------------------------------
(* The steps of a shift or till request                                    *)

WorkStep(w, d) ==
    /\ work' = [work EXCEPT ![w] = d]
    /\ work[w].pc # "idle" \/ d.pc # "idle"
    /\ UNCHANGED <<order, pay, refunds, req, overlapped>>
    /\ crashes' \in 0..MaxCrashes /\ crashes' >= crashes
    /\ CashFlow /\ Races

\* The rows it leaves.
RowsTyped ==
    /\ shifts' \in Seq(ShiftRows) /\ Len(shifts') <= MaxShifts
    /\ tills' \in Seq(TillRows) /\ Len(tills') <= MaxTills
    /\ moves' \in Seq(MoveRows) /\ Len(moves') <= MaxMoves
    /\ DOMAIN shifts \subseteq DOMAIN shifts' /\ DOMAIN tills \subseteq DOMAIN tills'

LEMMA WorkFacts ==
  ASSUME DrawerInv, NEW w \in Workers, NEW d \in WorkSlots, WorkStep(w, d), RowsTyped
  PROVE  /\ RefundInv' /\ DrawerTypes'
         /\ work'[w] = d /\ \A u \in Workers \ {w} : work'[u] = work[u]
         /\ raced => raced'
         /\ ~raced' => /\ ~raced /\ Calm /\ Alone'
                       /\ \A u \in Workers \ {w} : work[u].pc = "idle" /\ work'[u].pc = "idle"
         /\ \A t \in DOMAIN tills : /\ Counted(t) \in Int /\ Dropping(t) \in Nat
                                    /\ tills[t].open => Counted(t)' = Counted(t) - Dropping(t)
                                    /\ ~tills[t].open => Counted(t)' = Counted(t)
         /\ \A t \in DOMAIN tills' \ DOMAIN tills : Counted(t)' = Float
<1>0. RefundInv /\ DrawerTypes
  BY DEF DrawerInv
<1>1. RefundInv'
  BY <1>0, RefundInvApart DEF WorkStep
<1>2. work \in [Workers -> WorkSlots] /\ raced \in BOOLEAN
  BY <1>0 DEF DrawerTypes
<1>3. work'[w] = d /\ (\A u \in Workers \ {w} : work'[u] = work[u]) /\ work' \in [Workers -> WorkSlots]
  BY <1>2 DEF WorkStep
<1>4. raced' \in BOOLEAN /\ (raced => raced')
  BY <1>2 DEF WorkStep, Races
<1>5. /\ cash' \in Seq(Int) /\ Len(cash') = Len(tills')
      /\ elsewhere' \in Seq(Int) /\ Len(elsewhere') = Len(tills')
      /\ \A t \in DOMAIN tills : t \in DOMAIN tills' => CashMoved(t)
      /\ \A t \in DOMAIN tills' \ DOMAIN tills : Counted(t)' = Float
  BY <1>0, <1>1, CashIs DEF WorkStep, RowsTyped
<1>6. Recorded(Taken) = 0 /\ PaidOut = 0
  BY <1>0, NoMoney DEF WorkStep
<1>7. \A t \in DOMAIN tills : /\ Counted(t) \in Int /\ Dropping(t) \in Nat
                              /\ tills[t].open => Counted(t)' = Counted(t) - Dropping(t)
                              /\ ~tills[t].open => Counted(t)' = Counted(t)
  <2>1. \A t \in DOMAIN tills : CashMoved(t)
    BY <1>5 DEF RowsTyped
  <2>. QED
    BY <1>6, <2>1 DEF CashMoved
<1>8. DrawerTypes'
  BY <1>3, <1>4, <1>5 DEF DrawerTypes, RowsTyped
<1>9. ASSUME ~raced'
      PROVE  /\ ~raced /\ Calm /\ Alone'
             /\ \A u \in Workers \ {w} : work[u].pc = "idle" /\ work'[u].pc = "idle"
  <2>1. ~raced /\ Alone'
    BY <1>0, <1>9, NotRaced DEF WorkStep, Races
  <2>2. Calm
    BY <2>1 DEF DrawerInv
  <2>3. ASSUME NEW u \in Workers \ {w}
        PROVE  work[u].pc = "idle" /\ work'[u].pc = "idle"
    <3>1. work'[u] = work[u]
      BY <1>3
    <3>2. CASE work[w].pc # "idle"
      <4>1. w \in Busy
        BY <3>2 DEF Busy
      <4>2. u \notin Busy
        BY <2>2, <4>1 DEF Calm, Alone
      <4>. QED
        BY <3>1, <4>2 DEF Busy
    <3>3. CASE d.pc # "idle"
      <4>1. w \in Busy'
        BY <1>3, <3>3 DEF Busy
      <4>2. u \notin Busy'
        BY <2>1, <4>1 DEF Alone
      <4>. QED
        BY <3>1, <4>2 DEF Busy
    <3>. QED
      BY <3>2, <3>3 DEF WorkStep
  <2>. QED
    BY <2>1, <2>2, <2>3
<1>. QED
  BY <1>1, <1>3, <1>4, <1>5, <1>7, <1>8, <1>9

LEMMA WorkKeeps ==
  ASSUME DrawerInv, NEW w \in Workers, NEW d \in WorkSlots, WorkStep(w, d), RowsTyped,
         \A s \in DOMAIN shifts : shifts[s].summary.made => shifts'[s].summary.made,
         Linked', Knows(w)', ShiftSettled', OneSessionPerTill', DrawerAgrees',
         ~raced' => Held' /\ Undisturbed(w)'
  PROVE  DrawerInv'
<1>1. /\ RefundInv' /\ DrawerTypes' /\ \A u \in Workers \ {w} : work'[u] = work[u]
      /\ ~raced' => Alone' /\ \A u \in Workers \ {w} : work'[u].pc = "idle"
  BY WorkFacts
<1>2. ASSUME NEW u \in Workers
      PROVE  Knows(u)'
  <2>1. CASE u = w
    BY <2>1
  <2>2. CASE u # w
    <3>1. Knows(u) /\ work'[u] = work[u]
      BY <1>1, <2>2 DEF DrawerInv
    <3>2. OfShift \cap OfTill = {} /\ "closeShift" \in OfShift
      BY DEF OfShift, OfTill
    <3>. QED
      BY <3>1, <3>2 DEF Knows, Known, RowsTyped
  <2>. QED
    BY <2>1, <2>2
<1>3. ASSUME ~raced'
      PROVE  Calm'
  <2>1. ASSUME NEW u \in Workers
        PROVE  Undisturbed(u)'
    <3>1. CASE u = w
      BY <1>3, <3>1
    <3>2. CASE u # w
      <4>1. work'[u].pc = "idle"
        BY <1>1, <1>3, <3>2
      <4>. QED
        BY <4>1 DEF Undisturbed, StillSo, OfTill
    <3>. QED
      BY <3>1, <3>2
  <2>. QED
    BY <1>1, <1>3, <2>1 DEF Calm
<1>. QED
  BY <1>1, <1>2, <1>3 DEF DrawerInv

\* A step that only reads, or ends.
LEMMA ReadKeeps ==
  ASSUME DrawerInv, NEW w \in Workers, NEW d \in WorkSlots, WorkStep(w, d),
         UNCHANGED <<shifts, tills, moves>>, Known(d), ~raced /\ Calm => StillSo(d)
  PROVE  DrawerInv'
<1>0. DrawerTypes /\ Linked
  BY DEF DrawerInv
<1>1. RowsTyped
  BY <1>0 DEF DrawerTypes, RowsTyped
<1>2. /\ raced => raced'
      /\ ~raced' => ~raced /\ Calm
      /\ \A t \in DOMAIN tills : /\ Counted(t) \in Int /\ Dropping(t) \in Nat
                                 /\ tills[t].open => Counted(t)' = Counted(t) - Dropping(t)
                                 /\ ~tills[t].open => Counted(t)' = Counted(t)
  BY <1>1, WorkFacts
<1>3. \A t : Dropping(t) = 0
  <2>1. Len(moves) \in Nat
    BY <1>0 DEF DrawerTypes
  <2>. QED
    BY <2>1 DEF Dropping
<1>4. \A t \in DOMAIN tills : Counted(t)' = Counted(t)
  BY <1>2, <1>3
<1>5. \A t : /\ Sales(t)' = Sales(t) /\ RefundedSince(t)' = RefundedSince(t)
             /\ (Plain(t)' <=> Plain(t)) /\ MovedOut(t)' = MovedOut(t)
  BY SumsStay, MovedStays DEF WorkStep
<1>6. Linked'
  BY <1>0 DEF Linked, WorkStep
<1>7. ShiftSettled' /\ OneSessionPerTill'
  BY <1>2 DEF DrawerInv, ShiftSettled, OneSessionPerTill, OpenTills, Sessions
<1>8. DrawerAgrees'
  BY <1>2, <1>4, <1>5 DEF DrawerInv, DrawerAgrees
<1>9. ~raced' => Held'
  BY <1>2, <1>4, <1>5 DEF Calm, Held
<1>10. work'[w] = d
  BY <1>1, WorkFacts
<1>11. Knows(w)'
  BY <1>10 DEF Knows, Known
<1>12. StillSo(d) => Undisturbed(w)'
  BY <1>5, <1>10 DEF Undisturbed, StillSo, OpenTills, Sessions
<1>. QED
  BY <1>1, <1>2, <1>6, <1>7, <1>8, <1>9, <1>11, <1>12, WorkKeeps

LEMMA Calls ==
  {"shiftNumber", "shiftInsert", "openTills", "tillFree", "drop", "cashSales"} \subseteq DrawerPC
BY DEF DrawerPC

LEMMA WorkSlotFacts ==
  /\ NoWork \in WorkSlots /\ NoWork.pc = "idle" /\ Known(NoWork) /\ StillSo(NoWork)
  /\ \A s \in WorkSlots : \A q \in DrawerPC : LET d == [s EXCEPT !.pc = q] IN
         /\ d \in WorkSlots /\ d.pc = q /\ d.user = s.user /\ d.code = s.code /\ d.at = s.at
         /\ d.total = s.total /\ d.seen = s.seen
<1>1. NoWork \in WorkSlots /\ NoWork.pc = "idle"
  BY DEF NoWork, WorkSlots, DrawerPC
<1>2. Known(NoWork) /\ StillSo(NoWork)
  <2>. HIDE DEF NoWork
  <2>. QED
    BY <1>1 DEF Known, StillSo, OfShift, OfTill
<1>. QED
  BY <1>1, <1>2 DEF WorkSlots

\* What surrounds a request's call.
Around == UNCHANGED refundVars /\ CashFlow /\ Races

LEMMA AroundIsStep ==
  ASSUME DrawerInv, Around, NEW w \in Workers, NEW d \in WorkSlots,
         work' = [work EXCEPT ![w] = d], work[w].pc # "idle" \/ d.pc # "idle"
  PROVE  WorkStep(w, d)
<1>1. crashes \in 0..MaxCrashes /\ crashes >= crashes
  BY BoundsAssumption DEF DrawerInv, RefundInv, RefundTypes, RefundTypeOK
<1>. QED
  BY <1>1 DEF Around, refundVars, WorkStep

\* A call that only reads puts d into its slot.
LEMMA ReadIs ==
  ASSUME DrawerInv, Around, NEW w \in Workers, NEW d \in WorkSlots,
         work' = [work EXCEPT ![w] = d], work[w].pc # "idle" \/ d.pc # "idle",
         UNCHANGED <<shifts, tills, moves>>, Known(d), ~raced /\ Calm => StillSo(d)
  PROVE  DrawerInv'
BY AroundIsStep, ReadKeeps

LEMMA EndIs ==
  ASSUME DrawerInv, Around, NEW w \in Workers, Done(w), work[w].pc # "idle",
         UNCHANGED <<shifts, tills, moves>>
  PROVE  DrawerInv'
BY WorkSlotFacts, ReadIs DEF Done

\* What a slot holds.
LEMMA WorkSlot ==
  ASSUME DrawerInv, NEW w \in Workers
  PROVE  /\ work[w] \in WorkSlots /\ Known(work[w]) /\ (~raced /\ Calm => StillSo(work[w]))
         /\ DOMAIN shifts = 1..Len(shifts) /\ DOMAIN tills = 1..Len(tills)
         /\ Len(shifts) \in Nat /\ Len(tills) \in Nat /\ Len(tills) <= MaxTills
         /\ Len(shifts) <= MaxShifts /\ MaxTills \in Nat /\ MaxShifts \in Nat
         /\ RefundInv /\ DrawerTypes /\ Linked
BY DrawerAssumption DEF DrawerInv, DrawerTypes, Knows, Calm, Undisturbed

LEMMA TakeSteps ==
  ASSUME DrawerInv, Around, NEW w \in Workers, TillRequest(w)
  PROVE  DrawerInv'
<1>0. /\ DOMAIN shifts = 1..Len(shifts) /\ DOMAIN tills = 1..Len(tills)
      /\ Len(shifts) \in Nat /\ Len(tills) \in Nat
      /\ DropAmounts \subseteq Nat /\ Float \in Int
  BY WorkSlot, DrawerAssumption
<1>6. NoWork \in WorkSlots
      /\ {"shiftNumber", "shiftInsert", "openTills", "tillFree", "drop", "cashSales"} \subseteq DrawerPC
  BY WorkSlotFacts, Calls
<1>7. /\ (\A s \in DOMAIN shifts : s \in Nat) /\ \A t \in DOMAIN tills : t \in Nat
      /\ (\A a \in DropAmounts : a \in Nat /\ a \in Int) /\ Float \in Int
  BY <1>0
<1>1. ASSUME NEW u \in Users, OpenShiftRead(w, u)
      PROVE  DrawerInv'
  <2>. DEFINE d == [NoWork EXCEPT !.pc = "shiftNumber", !.user = u]
  <2>1. d \in WorkSlots /\ d.pc = "shiftNumber" /\ d.user = u
    BY <1>6, <1>7 DEF WorkSlots
  <2>2. work' = [work EXCEPT ![w] = d] /\ UNCHANGED <<shifts, tills, moves>>
    BY <1>1 DEF OpenShiftRead, Take
  <2>. HIDE DEF d
  <2>3. Known(d) /\ StillSo(d)
    BY <2>1 DEF Known, StillSo, OfShift, OfTill
  <2>. QED
    BY <2>1, <2>2, <2>3, ReadIs
<1>2. ASSUME NEW s \in DOMAIN shifts, CloseShiftRead(w, s)
      PROVE  DrawerInv'
  <2>. DEFINE d == [NoWork EXCEPT !.pc = "openTills", !.at = s]
  <2>1. d \in WorkSlots /\ d.pc = "openTills" /\ d.at = s
    BY <1>6, <1>7 DEF WorkSlots
  <2>2. work' = [work EXCEPT ![w] = d] /\ UNCHANGED <<shifts, tills, moves>>
    BY <1>2 DEF CloseShiftRead, Take
  <2>. HIDE DEF d
  <2>3. Known(d) /\ StillSo(d)
    BY <2>1 DEF Known, StillSo, OfShift, OfTill
  <2>. QED
    BY <2>1, <2>2, <2>3, ReadIs
<1>3. ASSUME NEW u \in Users, NEW s \in DOMAIN shifts, NEW c \in TillCodes, OpenTillRead(w, u, s, c)
      PROVE  DrawerInv'
  <2>. DEFINE d == [NoWork EXCEPT !.pc = "tillFree", !.user = u, !.at = s, !.code = c]
  <2>1. d \in WorkSlots /\ d.pc = "tillFree" /\ d.at = s /\ d.code = c
    BY <1>6, <1>7 DEF WorkSlots
  <2>2. work' = [work EXCEPT ![w] = d] /\ UNCHANGED <<shifts, tills, moves>> /\ shifts[s].open
    BY <1>3 DEF OpenTillRead, Take, OpenShifts
  <2>. HIDE DEF d
  <2>3. Known(d) /\ StillSo(d)
    BY <2>1, <2>2 DEF Known, StillSo, OfShift, OfTill
  <2>. QED
    BY <2>1, <2>2, <2>3, ReadIs
<1>4. ASSUME NEW t \in DOMAIN tills, NEW a \in DropAmounts, SafeDropRead(w, t, a)
      PROVE  DrawerInv'
  <2>. DEFINE d == [NoWork EXCEPT !.pc = "drop", !.at = t, !.total = a]
  <2>1. d \in WorkSlots /\ d.pc = "drop" /\ d.at = t /\ d.total = a /\ a \in Nat
    BY <1>6, <1>7 DEF WorkSlots
  <2>2. work' = [work EXCEPT ![w] = d] /\ UNCHANGED <<shifts, tills, moves>> /\ tills[t].open
    BY <1>4 DEF SafeDropRead, Take
  <2>. HIDE DEF d
  <2>3. Known(d) /\ StillSo(d)
    BY <2>1, <2>2 DEF Known, StillSo, OfShift, OfTill
  <2>. QED
    BY <2>1, <2>2, <2>3, ReadIs
<1>5. ASSUME NEW t \in DOMAIN tills, ReconcileRead(w, t)
      PROVE  DrawerInv'
  <2>. DEFINE d == [NoWork EXCEPT !.pc = "cashSales", !.at = t, !.total = Float]
  <2>1. d \in WorkSlots /\ d.pc = "cashSales" /\ d.at = t /\ d.total = Float
    BY <1>6, <1>7 DEF WorkSlots
  <2>2. work' = [work EXCEPT ![w] = d] /\ UNCHANGED <<shifts, tills, moves>> /\ tills[t].open
    BY <1>5 DEF ReconcileRead, Take
  <2>. HIDE DEF d
  <2>3. Known(d) /\ StillSo(d)
    BY <2>1, <2>2 DEF Known, StillSo, OfShift, OfTill
  <2>. QED
    BY <2>1, <2>2, <2>3, ReadIs
<1>. QED
  BY <1>1, <1>2, <1>3, <1>4, <1>5 DEF TillRequest

LEMMA LookSteps ==
  ASSUME DrawerInv, Around, NEW w \in Workers,
         ReadShiftNumber(w) \/ FindOpenTills(w) \/ ReadSessions(w) \/ FindTill(w)
  PROVE  DrawerInv'
<1>0. /\ work[w] \in WorkSlots /\ Known(work[w]) /\ (~raced /\ Calm => StillSo(work[w]))
      /\ DOMAIN shifts = 1..Len(shifts) /\ DOMAIN tills = 1..Len(tills)
      /\ Len(shifts) \in Nat /\ Len(tills) \in Nat /\ Len(tills) <= MaxTills /\ MaxTills \in Nat
  BY WorkSlot
<1>1. CASE ReadShiftNumber(w)
  <2>. DEFINE d == [work[w] EXCEPT !.pc = "shiftInsert", !.at = Len(shifts) + 1]
  <2>0. work[w].pc = "shiftNumber" /\ UNCHANGED <<shifts, tills, moves>>
    BY <1>1 DEF ReadShiftNumber
  <2>1. d \in WorkSlots /\ d.pc = "shiftInsert" /\ d.user = work[w].user
    <3>1. "shiftInsert" \in DrawerPC /\ Len(shifts) + 1 \in Nat
      BY <1>0, Calls
    <3>. QED
      BY <1>0, <3>1 DEF WorkSlots
  <2>2. work' = [work EXCEPT ![w] = d]
    BY <1>1 DEF ReadShiftNumber
  <2>. HIDE DEF d
  <2>3. Known(d) /\ StillSo(d)
    BY <1>0, <2>0, <2>1 DEF Known, StillSo, OfShift, OfTill
  <2>. QED
    BY <2>0, <2>1, <2>2, <2>3, ReadIs
<1>2. CASE FindOpenTills(w)
  <2>0. work[w].pc = "openTills" /\ UNCHANGED <<shifts, tills, moves>>
    BY <1>2 DEF FindOpenTills
  <2>1. CASE OpenTills(work[w].at) = {}
    <3>. DEFINE d == [work[w] EXCEPT !.pc = "sessions"]
    <3>1. work' = [work EXCEPT ![w] = d]
      BY <1>2, <2>1 DEF FindOpenTills, Then
    <3>2. d \in WorkSlots /\ d.pc = "sessions" /\ d.at = work[w].at
      <4>1. "sessions" \in DrawerPC
        BY DEF DrawerPC
      <4>. QED
        BY <1>0, <4>1 DEF WorkSlots
    <3>. HIDE DEF d
    <3>3. Known(d) /\ StillSo(d)
      BY <1>0, <2>0, <2>1, <3>2 DEF Known, StillSo, OfShift, OfTill
    <3>. QED
      BY <2>0, <3>1, <3>2, <3>3, ReadIs
  <2>2. CASE OpenTills(work[w].at) # {}
    <3>1. Done(w)
      BY <1>2, <2>2 DEF FindOpenTills
    <3>. QED
      BY <2>0, <3>1, EndIs
  <2>. QED
    BY <2>1, <2>2
<1>3. CASE ReadSessions(w)
  <2>. DEFINE d == [work[w] EXCEPT !.pc = "summary", !.seen = Sessions(work[w].at)]
  <2>0. work[w].pc = "sessions" /\ UNCHANGED <<shifts, tills, moves>>
    BY <1>3 DEF ReadSessions
  <2>1. Sessions(work[w].at) \subseteq 1..MaxTills
    BY <1>0 DEF Sessions
  <2>2. d \in WorkSlots /\ d.pc = "summary" /\ d.at = work[w].at /\ d.seen = Sessions(work[w].at)
    BY <1>0, <2>1 DEF WorkSlots, DrawerPC
  <2>3. work' = [work EXCEPT ![w] = d]
    BY <1>3 DEF ReadSessions
  <2>. HIDE DEF d
  <2>4. Known(d)
    BY <1>0, <2>0, <2>2 DEF Known, OfShift, OfTill
  <2>5. ~raced /\ Calm => StillSo(d)
    BY <1>0, <2>0, <2>2 DEF StillSo, OfTill
  <2>. QED
    BY <2>0, <2>2, <2>3, <2>4, <2>5, ReadIs
<1>4. CASE FindTill(w)
  <2>0. work[w].pc = "tillFree" /\ UNCHANGED <<shifts, tills, moves>>
    BY <1>4 DEF FindTill
  <2>1. CASE Done(w)
    BY <2>0, <2>1, EndIs
  <2>2. CASE /\ Then(w, "tillInsert")
             /\ \A t \in DOMAIN tills : tills[t].open => tills[t].code # work[w].code
    <3>. DEFINE d == [work[w] EXCEPT !.pc = "tillInsert"]
    <3>1. work' = [work EXCEPT ![w] = d]
      BY <2>2 DEF Then
    <3>2. d \in WorkSlots /\ d.pc = "tillInsert" /\ d.at = work[w].at /\ d.code = work[w].code
      <4>1. "tillInsert" \in DrawerPC
        BY DEF DrawerPC
      <4>. QED
        BY <1>0, <4>1 DEF WorkSlots
    <3>. HIDE DEF d
    <3>3. Known(d)
      BY <1>0, <2>0, <3>2 DEF Known, OfShift, OfTill
    <3>4. ~raced /\ Calm => StillSo(d)
      BY <1>0, <2>0, <2>2, <3>2 DEF StillSo, OfTill
    <3>. QED
      BY <2>0, <3>1, <3>2, <3>3, <3>4, ReadIs
  <2>. QED
    BY <1>4, <2>1, <2>2 DEF FindTill
<1>. QED
  BY <1>1, <1>2, <1>3, <1>4

\* The three sums of a reconciliation.
LEMMA AddSteps ==
  ASSUME DrawerInv, Around, NEW w \in Workers, SumCashSales(w) \/ SumMoves(w) \/ SumRefundsOut(w)
  PROVE  DrawerInv'
<1>0. /\ work[w] \in WorkSlots /\ Known(work[w]) /\ (~raced /\ Calm => StillSo(work[w]))
      /\ Float \in Int /\ work[w].total \in Int
  BY WorkSlot, DrawerAssumption DEF WorkSlots
<1>1. ASSUME NEW q \in {"moves", "refundsOut", "reconcile"}, NEW sum \in Int,
             work[w].pc \in OfTill, UNCHANGED <<shifts, tills, moves>>,
             work' = [work EXCEPT ![w].pc = q, ![w].total = sum],
             \A t \in DOMAIN tills : work[w].at = t /\ ~raced /\ Calm =>
                 /\ q = "moves" => sum = Float + Sales(t)
                 /\ q = "refundsOut" => sum = Float + Sales(t) - MovedOut(t)
                 /\ q = "reconcile" => sum = Float + Sales(t) - MovedOut(t) - RefundedSince(t)
      PROVE  DrawerInv'
  <2>. DEFINE d == [work[w] EXCEPT !.pc = q, !.total = sum]
  <2>1. d \in WorkSlots /\ d.pc = q /\ d.at = work[w].at /\ d.total = sum
    BY <1>0, <1>1 DEF WorkSlots, DrawerPC
  <2>2. work' = [work EXCEPT ![w] = d] /\ work[w].pc # "idle"
    BY <1>1 DEF OfTill
  <2>. HIDE DEF d
  <2>3. Known(d)
    BY <1>0, <1>1, <2>1 DEF Known, OfShift, OfTill
  <2>4. ASSUME ~raced, Calm
        PROVE  StillSo(d)
    <3>1. StillSo(work[w])
      BY <1>0, <2>4
    <3>2. ASSUME NEW t \in DOMAIN tills, work[w].at = t
          PROVE  tills[t].open
      BY <1>1, <3>1, <3>2 DEF StillSo
    <3>. QED
      BY <1>1, <2>1, <2>4, <3>2 DEF StillSo, OfTill
  <2>. QED
    BY <1>1, <2>1, <2>2, <2>3, <2>4, ReadIs
<1>2. \A t \in DOMAIN tills : Sales(t) \in Nat /\ MovedOut(t) \in Nat /\ RefundedSince(t) \in Nat
  BY WorkSlot, SumsAreNat
<1>3. work[w].pc \in OfTill => work[w].at \in DOMAIN tills
  BY <1>0 DEF Known
<1>4. CASE SumCashSales(w)
  <2>. DEFINE sum == work[w].total + Sales(work[w].at)
  <2>1. /\ work[w].pc = "cashSales" /\ UNCHANGED <<shifts, tills, moves>>
        /\ work' = [work EXCEPT ![w].pc = "moves", ![w].total = sum]
    BY <1>4 DEF SumCashSales, Sales
  <2>2. work[w].pc \in OfTill
    BY <2>1 DEF OfTill
  <2>3. sum \in Int
    BY <1>0, <1>2, <1>3, <2>2
  <2>4. \A t \in DOMAIN tills : work[w].at = t /\ ~raced /\ Calm => sum = Float + Sales(t)
    BY <1>0, <2>1 DEF StillSo
  <2>. HIDE DEF sum
  <2>. QED
    BY <1>1, <2>1, <2>2, <2>3, <2>4
<1>5. CASE SumMoves(w)
  <2>. DEFINE sum == work[w].total - MovedOut(work[w].at)
  <2>1. /\ work[w].pc = "moves" /\ UNCHANGED <<shifts, tills, moves>>
        /\ work' = [work EXCEPT ![w].pc = "refundsOut", ![w].total = sum]
    BY <1>5 DEF SumMoves
  <2>2. work[w].pc \in OfTill
    BY <2>1 DEF OfTill
  <2>3. sum \in Int
    BY <1>0, <1>2, <1>3, <2>2
  <2>4. ASSUME NEW t \in DOMAIN tills, work[w].at = t, ~raced, Calm
        PROVE  sum = Float + Sales(t) - MovedOut(t)
    <3>1. work[w].total = Float + Sales(work[w].at)
      BY <1>0, <2>1, <2>4 DEF StillSo
    <3>. QED
      BY <1>0, <1>2, <2>4, <3>1
  <2>. HIDE DEF sum
  <2>. QED
    BY <1>1, <2>1, <2>2, <2>3, <2>4
<1>6. CASE SumRefundsOut(w)
  <2>. DEFINE sum == work[w].total - RefundedSince(work[w].at)
  <2>1. /\ work[w].pc = "refundsOut" /\ UNCHANGED <<shifts, tills, moves>>
        /\ work' = [work EXCEPT ![w].pc = "reconcile", ![w].total = sum]
    BY <1>6 DEF SumRefundsOut
  <2>2. work[w].pc \in OfTill
    BY <2>1 DEF OfTill
  <2>3. sum \in Int
    BY <1>0, <1>2, <1>3, <2>2
  <2>4. ASSUME NEW t \in DOMAIN tills, work[w].at = t, ~raced, Calm
        PROVE  sum = Float + Sales(t) - MovedOut(t) - RefundedSince(t)
    <3>1. work[w].total = Float + Sales(work[w].at) - MovedOut(work[w].at)
      BY <1>0, <2>1, <2>4 DEF StillSo
    <3>. QED
      BY <1>0, <1>2, <2>4, <3>1
  <2>. HIDE DEF sum
  <2>. QED
    BY <1>1, <2>1, <2>2, <2>3, <2>4
<1>. QED
  BY <1>4, <1>5, <1>6

\* No session is written: what holds of them still does.
LEMMA SessionsRest ==
  ASSUME DrawerInv, NEW w \in Workers, NEW d \in WorkSlots, WorkStep(w, d), RowsTyped,
         UNCHANGED <<tills, moves>>
  PROVE  /\ Linked' /\ OneSessionPerTill' /\ DrawerAgrees' /\ (~raced' => Held')
         /\ \A s : OpenTills(s)' = OpenTills(s) /\ Sessions(s)' = Sessions(s)
<1>0. DrawerTypes /\ Linked
  BY DEF DrawerInv
<1>1. /\ raced => raced'
      /\ ~raced' => ~raced /\ Calm
      /\ \A t \in DOMAIN tills : /\ Counted(t) \in Int /\ Dropping(t) \in Nat
                                 /\ tills[t].open => Counted(t)' = Counted(t) - Dropping(t)
                                 /\ ~tills[t].open => Counted(t)' = Counted(t)
  BY WorkFacts
<1>2. \A t : Dropping(t) = 0
  <2>1. Len(moves) \in Nat
    BY <1>0 DEF DrawerTypes
  <2>. QED
    BY <2>1 DEF Dropping
<1>3. \A t \in DOMAIN tills : Counted(t)' = Counted(t)
  BY <1>1, <1>2
<1>4. \A t : /\ Sales(t)' = Sales(t) /\ RefundedSince(t)' = RefundedSince(t)
             /\ (Plain(t)' <=> Plain(t)) /\ MovedOut(t)' = MovedOut(t)
  BY SumsStay, MovedStays DEF WorkStep
<1>5. Linked'
  BY <1>0 DEF Linked, WorkStep, RowsTyped
<1>6. OneSessionPerTill' /\ DrawerAgrees'
  <2>1. OneSessionPerTill'
    BY <1>1 DEF DrawerInv, OneSessionPerTill
  <2>2. DrawerAgrees'
    BY <1>1, <1>3, <1>4 DEF DrawerInv, DrawerAgrees
  <2>. QED
    BY <2>1, <2>2
<1>7. ~raced' => Held'
  BY <1>1, <1>3, <1>4 DEF Calm, Held
<1>8. \A s : OpenTills(s)' = OpenTills(s) /\ Sessions(s)' = Sessions(s)
  BY DEF OpenTills, Sessions
<1>. QED
  BY <1>5, <1>6, <1>7, <1>8

\* The three steps that write a shift.
LEMMA ShiftSteps ==
  ASSUME DrawerInv, Around, NEW w \in Workers, InsertShift(w) \/ InsertSummary(w) \/ CloseShift(w)
  PROVE  DrawerInv'
<1>0. /\ work[w] \in WorkSlots /\ Known(work[w]) /\ (~raced /\ Calm => StillSo(work[w]))
      /\ DOMAIN shifts = 1..Len(shifts) /\ Len(shifts) \in Nat /\ Len(shifts) <= MaxShifts
      /\ MaxShifts \in Nat /\ RefundInv /\ DrawerTypes /\ Linked
      /\ shifts \in Seq(ShiftRows) /\ \A s \in DOMAIN shifts : shifts[s] \in ShiftRows
  BY WorkSlot DEF DrawerTypes
<1>. DEFINE at == work[w].at
\* Whatever the step writes, if it closes no shift but a settled one.
<1>1. ASSUME NEW d \in WorkSlots, work' = [work EXCEPT ![w] = d], work[w].pc # "idle",
             UNCHANGED <<tills, moves>>, shifts' \in Seq(ShiftRows), Len(shifts') <= MaxShifts,
             DOMAIN shifts \subseteq DOMAIN shifts',
             \A s \in DOMAIN shifts : shifts[s].summary.made => shifts'[s].summary.made,
             \A s \in DOMAIN shifts' : ~shifts'[s].open =>
                 \/ s \in DOMAIN shifts /\ ~shifts[s].open /\ shifts'[s].summary = shifts[s].summary
                 \/ /\ shifts'[s].summary.made
                    /\ ~raced /\ Calm =>
                           OpenTills(s) = {} /\ shifts'[s].summary.sessions = Sessions(s),
             Known(d)', ~raced /\ Calm => StillSo(d)'
      PROVE  DrawerInv'
  <2>1. WorkStep(w, d)
    BY <1>1, AroundIsStep
  <2>2. RowsTyped
    BY <1>0, <1>1 DEF DrawerTypes, RowsTyped
  <2>3. work'[w] = d /\ (raced => raced') /\ (~raced' => ~raced /\ Calm)
    BY <2>1, <2>2, WorkFacts
  <2>4. /\ Linked' /\ OneSessionPerTill' /\ DrawerAgrees' /\ (~raced' => Held')
        /\ \A s : OpenTills(s)' = OpenTills(s) /\ Sessions(s)' = Sessions(s)
    BY <1>1, <2>1, <2>2, SessionsRest
  <2>5. ShiftSettled'
    <3>. SUFFICES ASSUME NEW s \in DOMAIN shifts', ~shifts'[s].open
                  PROVE  /\ shifts'[s].summary.made
                         /\ ~raced' => OpenTills(s)' = {} /\ shifts'[s].summary.sessions = Sessions(s)'
      BY DEF ShiftSettled
    <3>1. CASE s \in DOMAIN shifts /\ ~shifts[s].open /\ shifts'[s].summary = shifts[s].summary
      BY <2>3, <2>4, <3>1 DEF DrawerInv, ShiftSettled
    <3>2. CASE /\ shifts'[s].summary.made
               /\ ~raced /\ Calm =>
                      OpenTills(s) = {} /\ shifts'[s].summary.sessions = Sessions(s)
      BY <2>3, <2>4, <3>2
    <3>. QED
      BY <1>1, <3>1, <3>2
  <2>6. Knows(w)' /\ (~raced' => Undisturbed(w)')
    BY <1>1, <2>3 DEF Knows, Known, Undisturbed, StillSo
  <2>. QED
    BY <1>1, <2>1, <2>2, <2>4, <2>5, <2>6, WorkKeeps
<1>2. CASE InsertShift(w)
  <2>. DEFINE row == [user |-> work[w].user, open |-> TRUE, summary |-> NoSummary]
  <2>0. work[w].pc = "shiftInsert" /\ Done(w) /\ UNCHANGED <<tills, moves>> /\ Len(shifts) < MaxShifts
        /\ shifts' = IF at \in DOMAIN shifts THEN shifts ELSE Append(shifts, row)
    BY <1>2 DEF InsertShift
  <2>1. NoWork \in WorkSlots /\ work' = [work EXCEPT ![w] = NoWork]
    BY <2>0, WorkSlotFacts DEF Done
  <2>2. Known(NoWork)' /\ StillSo(NoWork)'
    <3>1. NoWork.pc = "idle"
      BY DEF NoWork
    <3>. QED
      BY <3>1 DEF Known, StillSo, OfShift, OfTill
  <2>3. row \in ShiftRows /\ row.open
    BY <1>0, <2>0 DEF ShiftRows, Known, NoSummary
  <2>. HIDE DEF row
  <2>4. /\ shifts' \in Seq(ShiftRows) /\ Len(shifts') <= MaxShifts /\ DOMAIN shifts \subseteq DOMAIN shifts'
        /\ \A s \in DOMAIN shifts : shifts'[s] = shifts[s]
        /\ \A s \in DOMAIN shifts' \ DOMAIN shifts : shifts'[s].open
    <3>1. CASE at \in DOMAIN shifts
      <4>1. shifts' = shifts
        BY <2>0, <3>1
      <4>. QED
        BY <1>0, <4>1
    <3>2. CASE at \notin DOMAIN shifts
      <4>1. shifts' = Append(shifts, row)
        BY <2>0, <3>2
      <4>2. shifts' \in Seq(ShiftRows) /\ Len(shifts') = Len(shifts) + 1
            /\ shifts'[Len(shifts) + 1] = row /\ \A s \in DOMAIN shifts : shifts'[s] = shifts[s]
        BY <1>0, <2>3, <4>1
      <4>3. DOMAIN shifts' = 1..(Len(shifts) + 1)
        BY <4>2
      <4>. QED
        BY <1>0, <2>0, <2>3, <4>2, <4>3
    <3>. QED
      BY <3>1, <3>2
  <2>. QED
    BY <1>1, <2>0, <2>1, <2>2, <2>4
<1>3. CASE InsertSummary(w)
  <2>1. [work[w] EXCEPT !.pc = "closeShift"] \in WorkSlots
    BY <1>0, WorkSlotFacts DEF DrawerPC
  <2>. PICK d \in WorkSlots : d = [work[w] EXCEPT !.pc = "closeShift"]
    BY <2>1
  <2>. DEFINE sum == [made |-> TRUE, sessions |-> work[w].seen]
  <2>0. work[w].pc = "summary" /\ UNCHANGED <<tills, moves>> /\ work' = [work EXCEPT ![w] = d]
        /\ shifts' = [shifts EXCEPT ![at].summary = sum]
    BY <1>3 DEF InsertSummary, Then
  <2>8. d.pc = "closeShift" /\ d.at = at
    BY <1>0, WorkSlotFacts DEF DrawerPC
  <2>2. at \in DOMAIN shifts
    BY <1>0, <2>0 DEF Known, OfShift
  <2>3. /\ shifts' \in Seq(ShiftRows) /\ DOMAIN shifts' = DOMAIN shifts /\ Len(shifts') = Len(shifts)
        /\ \A s \in DOMAIN shifts \ {at} : shifts'[s] = shifts[s]
        /\ shifts'[at].summary = sum /\ shifts'[at].open = shifts[at].open
    <3>1. sum \in [made : BOOLEAN, sessions : SUBSET (1..MaxTills)]
      BY <1>0 DEF WorkSlots
    <3>. DEFINE row == [shifts[at] EXCEPT !.summary = sum]
    <3>2. row \in ShiftRows /\ row.summary = sum /\ row.open = shifts[at].open
      <4>1. shifts[at] \in ShiftRows
        BY <1>0, <2>2
      <4>. HIDE DEF sum
      <4>. QED
        BY <3>1, <4>1 DEF ShiftRows
    <3>3. shifts' = [shifts EXCEPT ![at] = row]
      BY <2>0
    <3>. HIDE DEF row, sum
    <3>. QED
      BY <1>0, <2>2, <3>2, <3>3
  <2>4. sum.made = TRUE /\ sum.sessions = work[w].seen
    OBVIOUS
  <2>5. ~raced /\ Calm => OpenTills(at) = {} /\ work[w].seen = Sessions(at)
    BY <1>0, <2>0, <2>2 DEF StillSo
  <2>. HIDE DEF sum
  <2>6. Known(d)'
    BY <2>8, <2>2, <2>3, <2>4 DEF Known, OfShift, OfTill
  <2>7. ~raced /\ Calm => StillSo(d)'
    <3>1. \A s : OpenTills(s)' = OpenTills(s) /\ Sessions(s)' = Sessions(s)
      BY <2>0 DEF OpenTills, Sessions
    <3>. QED
      BY <2>0, <2>8, <2>3, <2>4, <2>5, <3>1 DEF StillSo, OfTill
  <2>9. \A s \in DOMAIN shifts : shifts[s].summary.made => shifts'[s].summary.made
    BY <2>3, <2>4
  <2>10. ASSUME NEW s \in DOMAIN shifts', ~shifts'[s].open
         PROVE  \/ s \in DOMAIN shifts /\ ~shifts[s].open /\ shifts'[s].summary = shifts[s].summary
                \/ /\ shifts'[s].summary.made
                   /\ ~raced /\ Calm =>
                          OpenTills(s) = {} /\ shifts'[s].summary.sessions = Sessions(s)
    <3>1. CASE s = at
      BY <2>3, <2>4, <2>5, <3>1
    <3>2. CASE s # at
      BY <2>3, <2>10, <3>2
    <3>. QED
      BY <3>1, <3>2
  <2>11. work[w].pc # "idle" /\ Len(shifts') <= MaxShifts /\ DOMAIN shifts \subseteq DOMAIN shifts'
    BY <1>0, <2>0, <2>3
  <2>. QED
    BY <1>1, <2>0, <2>3, <2>6, <2>7, <2>9, <2>10, <2>11
<1>4. CASE CloseShift(w)
  <2>0. work[w].pc = "closeShift" /\ UNCHANGED <<tills, moves>> /\ Done(w)
        /\ shifts' = [shifts EXCEPT ![at].open = FALSE]
    BY <1>4 DEF CloseShift
  <2>1. NoWork \in WorkSlots /\ work' = [work EXCEPT ![w] = NoWork]
    BY <2>0, WorkSlotFacts DEF Done
  <2>2. at \in DOMAIN shifts /\ shifts[at].summary.made
    BY <1>0, <2>0 DEF Known, OfShift
  <2>3. /\ shifts' \in Seq(ShiftRows) /\ DOMAIN shifts' = DOMAIN shifts /\ Len(shifts') = Len(shifts)
        /\ \A s \in DOMAIN shifts \ {at} : shifts'[s] = shifts[s]
        /\ shifts'[at].summary = shifts[at].summary
    <3>. DEFINE row == [shifts[at] EXCEPT !.open = FALSE]
    <3>2. row \in ShiftRows /\ row.summary = shifts[at].summary
      <4>1. shifts[at] \in ShiftRows
        BY <1>0, <2>2
      <4>. QED
        BY <4>1 DEF ShiftRows
    <3>3. shifts' = [shifts EXCEPT ![at] = row]
      BY <2>0
    <3>. HIDE DEF row
    <3>. QED
      BY <1>0, <2>2, <3>2, <3>3
  <2>4. ~raced /\ Calm => OpenTills(at) = {} /\ shifts[at].summary.sessions = Sessions(at)
    BY <1>0, <2>0, <2>2 DEF StillSo
  <2>5. Known(NoWork)' /\ StillSo(NoWork)'
    <3>1. NoWork.pc = "idle"
      BY DEF NoWork
    <3>. QED
      BY <3>1 DEF Known, StillSo, OfShift, OfTill
  <2>. QED
    BY <1>0, <1>1, <2>0, <2>1, <2>2, <2>3, <2>4, <2>5
<1>. QED
  BY <1>2, <1>3, <1>4

\* A movement is recorded: what leaves the drawer is what the sum takes out.
LEMMA MoveKeeps ==
  ASSUME DrawerInv, Around, NEW w \in Workers, NEW d \in WorkSlots, NEW m \in MoveRows,
         m.till \in DOMAIN tills, work' = [work EXCEPT ![w] = d], work[w].pc # "idle",
         UNCHANGED <<shifts, tills>>, Len(moves) < MaxMoves, moves' = Append(moves, m),
         Known(d), ~raced /\ Calm => StillSo(d)'
  PROVE  DrawerInv'
<1>0. DrawerTypes /\ Linked /\ RefundInv /\ moves \in Seq(MoveRows) /\ MaxMoves \in Nat
  BY DrawerAssumption DEF DrawerInv, DrawerTypes
<1>1. /\ moves' \in Seq(MoveRows) /\ Len(moves') = Len(moves) + 1 /\ Len(moves) \in Nat
      /\ DOMAIN moves' = DOMAIN moves \cup {Len(moves) + 1} /\ moves'[Len(moves) + 1] = m
      /\ \A i \in DOMAIN moves : moves'[i] = moves[i]
  BY <1>0
<1>2. WorkStep(w, d) /\ RowsTyped
  <2>1. Len(moves') <= MaxMoves
    BY <1>0, <1>1
  <2>. QED
    BY <1>0, <1>1, <2>1, AroundIsStep DEF DrawerTypes, RowsTyped
<1>3. /\ work'[w] = d
      /\ raced => raced'
      /\ ~raced' => ~raced /\ Calm
      /\ \A t \in DOMAIN tills : /\ Counted(t) \in Int /\ Dropping(t) \in Nat
                                 /\ tills[t].open => Counted(t)' = Counted(t) - Dropping(t)
                                 /\ ~tills[t].open => Counted(t)' = Counted(t)
  BY <1>2, WorkFacts
<1>4. \A t : /\ Sales(t)' = Sales(t) /\ RefundedSince(t)' = RefundedSince(t)
             /\ (Plain(t)' <=> Plain(t))
  BY SumsStay DEF Around, refundVars
<1>5. ASSUME NEW t \in DOMAIN tills
      PROVE  MovedOut(t)' = MovedOut(t) + Dropping(t) /\ MovedOut(t) \in Nat
  <2>1. MovedOut(t) = DroppedOf(moves, t) /\ MovedOut(t)' = DroppedOf(moves', t)
    BY SumsAre, SumsAreNext
  <2>2. /\ DroppedOf(moves, t) \in Nat
        /\ DroppedOf(Append(moves, m), t)
               = DroppedOf(moves, t) + (IF m.till = t /\ m.type = "SAFE_DROP" THEN m.amount ELSE 0)
    BY <1>0, DroppedAppended
  <2>3. Dropping(t) = IF m.till = t /\ m.type = "SAFE_DROP" THEN m.amount ELSE 0
    BY <1>1 DEF Dropping
  <2>. QED
    BY <2>1, <2>2, <2>3
<1>6. Linked'
  <2>1. \A i \in DOMAIN moves' : moves'[i].till \in DOMAIN tills
    BY <1>0, <1>1 DEF Linked
  <2>. QED
    BY <1>0, <2>1 DEF Linked, Around, refundVars
<1>7. ShiftSettled' /\ OneSessionPerTill'
  BY <1>3 DEF DrawerInv, ShiftSettled, OneSessionPerTill, OpenTills, Sessions
<1>8. DrawerAgrees'
  BY <1>3, <1>4 DEF DrawerInv, DrawerAgrees
<1>9. ASSUME ~raced'
      PROVE  Held'
  <2>1. ASSUME NEW t \in DOMAIN tills, tills[t].open, Plain(t)
        PROVE  Counted(t)' = Float + Sales(t) - MovedOut(t)' - RefundedSince(t)
    <3>1. Counted(t) = Float + Sales(t) - MovedOut(t) - RefundedSince(t)
      BY <1>3, <1>9, <2>1 DEF Calm, Held
    <3>2. Counted(t)' = Counted(t) - Dropping(t) /\ MovedOut(t)' = MovedOut(t) + Dropping(t)
          /\ Dropping(t) \in Nat
      BY <1>3, <1>5, <2>1
    <3>3. Sales(t) \in Nat /\ MovedOut(t) \in Nat /\ RefundedSince(t) \in Nat /\ Float \in Nat
      BY <1>0, SumsAreNat, DrawerAssumption
    <3>4. \A f, a, b, c, e \in Int : f + a - b - c - e = f + a - (b + e) - c
      OBVIOUS
    <3>. QED
      BY <3>1, <3>2, <3>3, <3>4
  <2>. QED
    BY <1>4, <2>1 DEF Held
<1>10. Knows(w)' /\ (~raced' => Undisturbed(w)')
  BY <1>3 DEF Knows, Known, Undisturbed, StillSo
<1>. QED
  BY <1>2, <1>6, <1>7, <1>8, <1>9, <1>10, WorkKeeps

LEMMA MoveSteps ==
  ASSUME DrawerInv, Around, NEW w \in Workers, InsertFloat(w) \/ InsertDrop(w)
  PROVE  DrawerInv'
<1>0. /\ work[w] \in WorkSlots /\ Known(work[w]) /\ (~raced /\ Calm => StillSo(work[w]))
      /\ DOMAIN tills = 1..Len(tills) /\ Len(tills) \in Nat /\ Len(tills) <= MaxTills /\ MaxTills \in Nat
  BY WorkSlot
<1>. DEFINE at == work[w].at
<1>1. at \in DOMAIN tills => at \in 1..MaxTills
  BY <1>0
<1>2. CASE InsertFloat(w)
  <2>0. /\ work[w].pc = "float" /\ Len(moves) < MaxMoves /\ Done(w) /\ UNCHANGED <<shifts, tills>>
        /\ moves' = Append(moves, [till |-> at, type |-> "OPENING_FLOAT", amount |-> Float])
    BY <1>2 DEF InsertFloat
  <2>1. at \in DOMAIN tills
    BY <1>0, <2>0 DEF Known, OfTill
  <2>2. [till |-> at, type |-> "OPENING_FLOAT", amount |-> Float] \in MoveRows
    BY <1>1, <2>1, DrawerAssumption DEF MoveRows
  <2>. PICK m \in MoveRows : m = [till |-> at, type |-> "OPENING_FLOAT", amount |-> Float]
    BY <2>2
  <2>3. m.till \in DOMAIN tills /\ moves' = Append(moves, m)
    BY <2>0, <2>1
  <2>4. NoWork \in WorkSlots /\ work' = [work EXCEPT ![w] = NoWork] /\ Known(NoWork)
    BY <2>0, WorkSlotFacts DEF Done
  <2>5. StillSo(NoWork)'
    <3>1. NoWork.pc = "idle"
      BY DEF NoWork
    <3>. QED
      BY <3>1 DEF StillSo, OfTill
  <2>. QED
    BY <2>0, <2>3, <2>4, <2>5, MoveKeeps
<1>3. CASE InsertDrop(w)
  <2>1. [work[w] EXCEPT !.pc = "decrement"] \in WorkSlots
    BY <1>0, WorkSlotFacts DEF DrawerPC
  <2>. PICK d \in WorkSlots : d = [work[w] EXCEPT !.pc = "decrement"]
    BY <2>1
  <2>2. d.pc = "decrement" /\ d.at = at /\ d.total = work[w].total
    BY <1>0, WorkSlotFacts DEF DrawerPC
  <2>3. /\ work[w].pc = "drop" /\ Len(moves) < MaxMoves /\ UNCHANGED <<shifts, tills>>
        /\ work' = [work EXCEPT ![w] = d]
        /\ moves' = Append(moves, [till |-> at, type |-> "SAFE_DROP", amount |-> work[w].total])
    BY <1>3 DEF InsertDrop, Then
  <2>4. at \in DOMAIN tills /\ work[w].total \in Nat
    BY <1>0, <2>3 DEF Known, OfTill
  <2>5. [till |-> at, type |-> "SAFE_DROP", amount |-> work[w].total] \in MoveRows
    BY <1>1, <2>4 DEF MoveRows
  <2>. PICK m \in MoveRows : m = [till |-> at, type |-> "SAFE_DROP", amount |-> work[w].total]
    BY <2>5
  <2>6. m.till \in DOMAIN tills /\ moves' = Append(moves, m)
    BY <2>3, <2>4
  <2>7. Known(d)
    BY <2>2, <2>4 DEF Known, OfShift, OfTill
  <2>8. ASSUME ~raced, Calm
        PROVE  StillSo(d)'
    <3>1. tills[at].open
      BY <1>0, <2>3, <2>4, <2>8 DEF StillSo, OfTill
    <3>. QED
      BY <2>2, <2>3, <3>1 DEF StillSo
  <2>. QED
    BY <2>3, <2>6, <2>7, <2>8, MoveKeeps
<1>. QED
  BY <1>2, <1>3

\* A session's row is written: its expected cash, and perhaps its end.
LEMMA TillKeeps ==
  ASSUME DrawerInv, Around, NEW w \in Workers, Done(w), work[w].pc # "idle",
         UNCHANGED <<shifts, moves>>,
         NEW u \in DOMAIN tills, NEW row \in TillRows, tills' = [tills EXCEPT ![u] = row],
         row.code = tills[u].code, row.shift = tills[u].shift, row.paid = tills[u].paid,
         row.refunded = tills[u].refunded,
         row.open => tills[u].open,
         ~raced /\ Calm => row.open \/ (Plain(u) => Counted(u) = row.expected)
  PROVE  DrawerInv'
<1>0. /\ DrawerTypes /\ Linked /\ RefundInv /\ tills \in Seq(TillRows) /\ NoWork \in WorkSlots
      /\ Len(tills) \in Nat /\ moves \in Seq(MoveRows)
  BY WorkSlotFacts DEF DrawerInv, DrawerTypes
<1>1. /\ tills' \in Seq(TillRows) /\ Len(tills') = Len(tills) /\ DOMAIN tills' = DOMAIN tills
      /\ tills'[u] = row /\ \A t \in DOMAIN tills \ {u} : tills'[t] = tills[t]
  BY <1>0
<1>2. \A t \in DOMAIN tills : /\ tills'[t].shift = tills[t].shift /\ tills'[t].paid = tills[t].paid
                              /\ tills'[t].refunded = tills[t].refunded
                              /\ tills'[t].code = tills[t].code
                              /\ tills'[t].open => tills[t].open
  BY <1>1
<1>3. WorkStep(w, NoWork) /\ RowsTyped
  <2>1. RowsTyped
    BY <1>0, <1>1 DEF DrawerTypes, RowsTyped
  <2>. QED
    BY <1>0, <2>1, AroundIsStep DEF Done
<1>4. /\ work'[w] = NoWork
      /\ raced => raced'
      /\ ~raced' => ~raced /\ Calm
      /\ \A t \in DOMAIN tills : /\ Counted(t) \in Int /\ Dropping(t) \in Nat
                                 /\ tills[t].open => Counted(t)' = Counted(t) - Dropping(t)
                                 /\ ~tills[t].open => Counted(t)' = Counted(t)
  BY <1>0, <1>3, WorkFacts
<1>5. \A t : Dropping(t) = 0
  <2>1. Len(moves) \in Nat
    BY <1>0
  <2>. QED
    BY <2>1 DEF Dropping
<1>6. \A t \in DOMAIN tills : Counted(t)' = Counted(t)
  BY <1>4, <1>5
<1>7. \A t \in DOMAIN tills : /\ Sales(t)' = Sales(t) /\ RefundedSince(t)' = RefundedSince(t)
                              /\ (Plain(t)' <=> Plain(t)) /\ MovedOut(t)' = MovedOut(t)
  BY <1>2, SumsStay, MovedStays DEF Around, refundVars
<1>8. \A s : OpenTills(s)' \subseteq OpenTills(s) /\ Sessions(s)' = Sessions(s)
  BY <1>1, <1>2 DEF OpenTills, Sessions
<1>9. Linked'
  BY <1>0, <1>1, <1>2 DEF Linked, Around, refundVars
<1>10. ShiftSettled'
  <2>1. \A s : OpenTills(s) = {} => OpenTills(s)' = {}
    BY <1>8
  <2>. QED
    BY <1>4, <1>8, <2>1 DEF DrawerInv, ShiftSettled
<1>11. OneSessionPerTill'
  BY <1>1, <1>2, <1>4 DEF DrawerInv, OneSessionPerTill
<1>12. DrawerAgrees'
  <2>1. ASSUME NEW t \in DOMAIN tills, ~tills'[t].open, ~raced', Plain(t)
        PROVE  Counted(t)' = tills'[t].expected
    <3>1. CASE t = u
      BY <1>1, <1>4, <1>6, <2>1, <3>1
    <3>2. CASE t # u
      BY <1>1, <1>4, <1>6, <2>1, <3>2 DEF DrawerInv, DrawerAgrees
    <3>. QED
      BY <3>1, <3>2
  <2>. QED
    BY <1>1, <1>7, <2>1 DEF DrawerAgrees
<1>13. ~raced' => Held'
  BY <1>1, <1>2, <1>4, <1>6, <1>7 DEF Calm, Held
<1>14. Knows(w)' /\ Undisturbed(w)'
  <2>1. NoWork.pc = "idle"
    BY DEF NoWork
  <2>. QED
    BY <1>4, <2>1 DEF Knows, Known, Undisturbed, StillSo, OfShift, OfTill
<1>. QED
  BY <1>0, <1>3, <1>9, <1>10, <1>11, <1>12, <1>13, <1>14, WorkKeeps

LEMMA TillSteps ==
  ASSUME DrawerInv, Around, NEW w \in Workers, Decrement(w) \/ Reconcile(w)
  PROVE  DrawerInv'
<1>0. /\ work[w] \in WorkSlots /\ Known(work[w]) /\ (~raced /\ Calm => StillSo(work[w]))
      /\ tills \in Seq(TillRows) /\ work[w].total \in Int
  BY WorkSlot DEF DrawerTypes, WorkSlots
<1>1. work[w].pc \in OfTill
  BY DEF Decrement, Reconcile, OfTill
<1>2. work[w].at \in DOMAIN tills
  BY <1>0, <1>1 DEF Known
<1>. PICK u \in DOMAIN tills : u = work[w].at
  BY <1>2
<1>3. tills[u] \in TillRows /\ tills[u].expected \in Int
  <2>1. tills[u] \in TillRows
    BY <1>0
  <2>. QED
    BY <2>1 DEF TillRows
<1>4. ~raced /\ Calm => tills[u].open
  BY <1>0, <1>1 DEF StillSo
<1>5. CASE Decrement(w)
  <2>. DEFINE left == tills[u].expected - work[w].total
              r == [tills[u] EXCEPT !.expected = left]
  <2>1. /\ r \in TillRows /\ r.shift = tills[u].shift /\ r.paid = tills[u].paid
        /\ r.refunded = tills[u].refunded /\ r.open = tills[u].open /\ r.code = tills[u].code
    <3>1. left \in Int
      BY <1>0, <1>3
    <3>. HIDE DEF left
    <3>. QED
      BY <1>3, <3>1 DEF TillRows
  <2>2. Done(w) /\ work[w].pc # "idle" /\ UNCHANGED <<shifts, moves>> /\ tills' = [tills EXCEPT ![u] = r]
    BY <1>5 DEF Decrement
  <2>. PICK row \in TillRows : row = r
    BY <2>1
  <2>3. /\ tills' = [tills EXCEPT ![u] = row]
        /\ row.shift = tills[u].shift /\ row.paid = tills[u].paid
        /\ row.refunded = tills[u].refunded /\ (row.open <=> tills[u].open)
        /\ row.code = tills[u].code
    BY <2>1, <2>2
  <2>. HIDE DEF r
  <2>4. ~raced /\ Calm => row.open
    BY <1>4, <2>3
  <2>. QED
    BY <2>2, <2>3, <2>4, TillKeeps
<1>6. CASE Reconcile(w)
  <2>. DEFINE r == [tills[u] EXCEPT !.open = FALSE, !.expected = work[w].total]
  <2>1. /\ r \in TillRows /\ r.shift = tills[u].shift /\ r.paid = tills[u].paid
        /\ r.refunded = tills[u].refunded /\ r.open = FALSE /\ r.expected = work[w].total
        /\ r.code = tills[u].code
    BY <1>0, <1>3 DEF TillRows
  <2>2. /\ Done(w) /\ work[w].pc = "reconcile" /\ UNCHANGED <<shifts, moves>>
        /\ tills' = [tills EXCEPT ![u] = r]
    BY <1>6 DEF Reconcile
  <2>. PICK row \in TillRows : row = r
    BY <2>1
  <2>3. /\ tills' = [tills EXCEPT ![u] = row]
        /\ row.shift = tills[u].shift /\ row.paid = tills[u].paid
        /\ row.refunded = tills[u].refunded /\ ~row.open /\ row.expected = work[w].total
        /\ row.code = tills[u].code
    BY <2>1, <2>2
  <2>. HIDE DEF r
  <2>4. ASSUME ~raced, Calm, Plain(u)
        PROVE  Counted(u) = row.expected
    <3>1. Counted(u) = Float + Sales(u) - MovedOut(u) - RefundedSince(u)
      BY <1>4, <2>4 DEF Calm, Held
    <3>2. work[w].total = Float + Sales(u) - MovedOut(u) - RefundedSince(u)
      BY <1>0, <2>2, <2>4 DEF StillSo
    <3>. QED
      BY <2>3, <3>1, <3>2
  <2>. QED
    BY <2>2, <2>3, <2>4, TillKeeps
<1>. QED
  BY <1>5, <1>6

\* A session that was just opened has no sums.
LEMMA NewSums ==
  ASSUME DrawerInv, Around, moves' = moves, NEW n, n \notin DOMAIN tills, NEW row \in TillRows,
         row.paid = {p \in Payments : pay[p] # "ABSENT"}, row.refunded = Len(refunds),
         tills'[n] = row
  PROVE  Sales(n)' = 0 /\ MovedOut(n)' = 0 /\ RefundedSince(n)' = 0
<1>0. /\ RefundInv /\ DrawerTypes /\ Linked /\ refunds \in Seq(RefundRows) /\ moves \in Seq(MoveRows)
      /\ CashPayments \subseteq Payments /\ UNCHANGED <<pay, refunds>>
  BY DrawerAssumption
     DEF DrawerInv, RefundInv, RefundTypes, RefundTypeOK, RefundRows, DrawerTypes, Around, refundVars
<1>1. Sales(n)' = 0
  <2>1. {p \in CashPayments \ tills'[n].paid : pay'[p] = "COMPLETED"} = {}
    BY <1>0
  <2>. QED
    BY <2>1, RecordedAdds DEF Sales
<1>2. MovedOut(n)' = 0
  <2>1. Dropped(moves, n) = {}
    BY <1>0 DEF Dropped, Linked
  <2>. DEFINE w == Within(Amounts(moves), {}, DOMAIN moves)
  <2>2. DroppedOf(moves, n) = WSum(w, DOMAIN moves)
    BY <1>0, <2>1, DroppedIsSum DEF SumAt
  <2>3. IsFiniteSet(DOMAIN moves) /\ \A i \in DOMAIN moves : w[i] = 0
    <3>1. IsFiniteSet(DOMAIN moves)
      BY <1>0, RowsHaveAmounts, AmountsFacts
    <3>. QED
      BY <3>1 DEF Within
  <2>. HIDE DEF w
  <2>4. WSum(w, DOMAIN moves) = 0
    BY <2>3, WSumZero
  <2>. QED
    BY <2>2, <2>4, SumsAreNext
<1>3. RefundedSince(n)' = 0
  <2>. DEFINE rows == SubSeq(refunds, Len(refunds) + 1, Len(refunds))
  <2>1. RefundedSince(n)' = CompletedOf(rows)
    BY <1>0, SumsAreNext
  <2>2. rows \in Seq(RefundRows) /\ DOMAIN rows = {}
    <3>1. Len(refunds) \in Nat /\ Len(refunds) <= Len(refunds)
      BY <1>0
    <3>2. rows \in Seq(RefundRows) /\ DOMAIN rows = 1..(Len(refunds) - Len(refunds))
      BY <1>0, <3>1, SinceIs
    <3>. QED
      BY <3>1, <3>2
  <2>. HIDE DEF rows
  <2>. DEFINE w == Within(Amounts(rows), Completed(rows), DOMAIN rows)
  <2>3. CompletedOf(rows) = WSum(w, DOMAIN rows)
    BY <2>2, CompletedIsSum DEF SumAt
  <2>4. \A i \in {} : w[i] = 0
    OBVIOUS
  <2>. HIDE DEF w
  <2>5. WSum(w, {}) = 0
    BY <2>4, FS_EmptySet, WSumZero
  <2>. QED
    BY <2>1, <2>2, <2>3, <2>5
<1>. QED
  BY <1>1, <1>2, <1>3

LEMMA OpenTillStep == ASSUME DrawerInv, Around, NEW w \in Workers, InsertTill(w) PROVE DrawerInv'
<1>0. /\ work[w] \in WorkSlots /\ Known(work[w]) /\ (~raced /\ Calm => StillSo(work[w]))
      /\ DOMAIN shifts = 1..Len(shifts) /\ DOMAIN tills = 1..Len(tills)
      /\ Len(shifts) \in Nat /\ Len(tills) \in Nat /\ Len(tills) <= MaxTills
      /\ Len(shifts) <= MaxShifts /\ MaxTills \in Nat /\ MaxShifts \in Nat
      /\ RefundInv /\ DrawerTypes /\ Linked /\ Float \in Int
      /\ refunds \in Seq(RefundRows) /\ Len(refunds) <= MaxRefunds /\ moves \in Seq(MoveRows)
      /\ tills \in Seq(TillRows)
  <2>1. /\ work[w] \in WorkSlots /\ Known(work[w]) /\ (~raced /\ Calm => StillSo(work[w]))
        /\ DOMAIN shifts = 1..Len(shifts) /\ DOMAIN tills = 1..Len(tills)
        /\ Len(shifts) \in Nat /\ Len(tills) \in Nat /\ Len(tills) <= MaxTills
    BY WorkSlot
  <2>2. RefundInv /\ DrawerTypes /\ Linked
    BY DEF DrawerInv
  <2>3. /\ Len(shifts) <= MaxShifts /\ moves \in Seq(MoveRows) /\ tills \in Seq(TillRows)
    BY <2>2 DEF DrawerTypes
  <2>4. refunds \in Seq(RefundRows) /\ Len(refunds) <= MaxRefunds
    BY <2>2 DEF RefundInv, RefundTypes, RefundTypeOK, RefundRows
  <2>5. MaxTills \in Nat /\ MaxShifts \in Nat /\ Float \in Int
    BY DrawerAssumption
  <2>. QED
    BY <2>1, <2>2, <2>3, <2>4, <2>5
<1>. PICK n \in Nat : n = Len(tills) + 1
  BY <1>0
<1>. DEFINE at == work[w].at
            r == [code |-> work[w].code, open |-> TRUE, shift |-> at, expected |-> Float,
                  paid |-> {p \in Payments : pay[p] # "ABSENT"}, refunded |-> Len(refunds)]
<1>1. /\ work[w].pc = "tillInsert" /\ Len(tills) < MaxTills /\ UNCHANGED <<shifts, moves>>
      /\ tills' = Append(tills, r) /\ work' = [work EXCEPT ![w].pc = "float", ![w].at = n]
  BY DEF InsertTill
<1>2. /\ at \in DOMAIN shifts /\ work[w].code \in TillCodes
      /\ ~raced /\ Calm =>
             shifts[at].open /\ \A t \in DOMAIN tills : tills[t].open => tills[t].code # work[w].code
  BY <1>0, <1>1 DEF Known, StillSo, OfShift
<1>3. r \in TillRows
  <2>1. at \in 1..MaxShifts /\ Len(refunds) \in 0..MaxRefunds
    BY <1>0, <1>2, BoundsAssumption
  <2>. QED
    BY <1>0, <1>2, <2>1 DEF TillRows
<1>. PICK row \in TillRows : row = r
  BY <1>3
<1>4. /\ row.open /\ row.code = work[w].code /\ row.shift = at
      /\ row.paid = {p \in Payments : pay[p] # "ABSENT"}
      /\ row.refunded = Len(refunds) /\ tills' = Append(tills, row)
  BY <1>1
<1>5. [work[w] EXCEPT !.pc = "float", !.at = n] \in WorkSlots
  BY <1>0 DEF WorkSlots, DrawerPC
<1>. PICK d \in WorkSlots : d = [work[w] EXCEPT !.pc = "float", !.at = n]
  BY <1>5
<1>6. d.pc = "float" /\ d.at = n /\ work' = [work EXCEPT ![w] = d]
  BY <1>0, <1>1 DEF WorkSlots
<1>. HIDE DEF r
<1>7. /\ tills' \in Seq(TillRows) /\ Len(tills') = n /\ n \notin DOMAIN tills /\ n \in DOMAIN tills'
      /\ DOMAIN tills' = DOMAIN tills \cup {n} /\ tills'[n] = row
      /\ \A t \in DOMAIN tills : tills'[t] = tills[t]
  <2>1. tills' \in Seq(TillRows) /\ Len(tills') = n /\ tills'[n] = row
        /\ \A t \in DOMAIN tills : tills'[t] = tills[t]
    BY <1>0, <1>4
  <2>2. DOMAIN tills' = 1..n
    BY <2>1
  <2>. QED
    BY <1>0, <2>1, <2>2
<1>8. WorkStep(w, d) /\ RowsTyped
  <2>1. RowsTyped
    BY <1>0, <1>1, <1>7 DEF DrawerTypes, RowsTyped
  <2>. QED
    BY <1>1, <1>6, <2>1, AroundIsStep
<1>9. /\ work'[w] = d
      /\ raced => raced'
      /\ ~raced' => ~raced /\ Calm
      /\ \A t \in DOMAIN tills : /\ Counted(t) \in Int /\ Dropping(t) \in Nat
                                 /\ tills[t].open => Counted(t)' = Counted(t) - Dropping(t)
                                 /\ ~tills[t].open => Counted(t)' = Counted(t)
      /\ Counted(n)' = Float
  BY <1>7, <1>8, WorkFacts
<1>10. \A t : Dropping(t) = 0
  <2>1. Len(moves) \in Nat
    BY <1>0
  <2>. QED
    BY <1>1, <2>1 DEF Dropping
<1>11. \A t \in DOMAIN tills : Counted(t)' = Counted(t)
  BY <1>9, <1>10
<1>12. \A t \in DOMAIN tills : /\ Sales(t)' = Sales(t) /\ RefundedSince(t)' = RefundedSince(t)
                               /\ (Plain(t)' <=> Plain(t)) /\ MovedOut(t)' = MovedOut(t)
  BY <1>1, <1>7, SumsStay, MovedStays DEF Around, refundVars
<1>13. Linked'
  <2>1. /\ tills'[n].shift \in DOMAIN shifts /\ tills'[n].refunded <= Len(refunds)
        /\ \A p \in tills'[n].paid : pay[p] # "ABSENT"
    BY <1>0, <1>2, <1>4, <1>7
  <2>. QED
    BY <1>0, <1>1, <1>7, <2>1 DEF Linked, Around, refundVars
<1>14. ShiftSettled'
  <2>1. \A s : s # at => OpenTills(s)' = OpenTills(s) /\ Sessions(s)' = Sessions(s)
    BY <1>4, <1>7 DEF OpenTills, Sessions
  <2>. QED
    BY <1>1, <1>2, <1>9, <2>1 DEF DrawerInv, ShiftSettled
<1>15. OneSessionPerTill'
  <2>. SUFFICES ASSUME ~raced', NEW t \in DOMAIN tills', NEW v \in DOMAIN tills',
                       tills'[t].open, tills'[v].open, tills'[t].code = tills'[v].code
                PROVE  t = v
    BY DEF OneSessionPerTill
  <2>1. /\ \A x, y \in DOMAIN tills :
               tills[x].open /\ tills[y].open /\ tills[x].code = tills[y].code => x = y
        /\ \A x \in DOMAIN tills : tills[x].open => tills[x].code # work[w].code
    BY <1>2, <1>9 DEF DrawerInv, OneSessionPerTill
  <2>. QED
    BY <1>4, <1>7, <2>1
<1>16. DrawerAgrees'
  BY <1>4, <1>7, <1>9, <1>11, <1>12 DEF DrawerInv, DrawerAgrees
<1>17. ASSUME ~raced'
       PROVE  Held'
  <2>1. Sales(n)' = 0 /\ MovedOut(n)' = 0 /\ RefundedSince(n)' = 0
    BY <1>1, <1>4, <1>7, NewSums
  <2>2. Counted(n)' = Float + Sales(n)' - MovedOut(n)' - RefundedSince(n)'
    BY <1>0, <1>9, <2>1
  <2>3. \A t \in DOMAIN tills : tills'[t].open /\ Plain(t)' =>
            Counted(t)' = Float + Sales(t)' - MovedOut(t)' - RefundedSince(t)'
    BY <1>7, <1>9, <1>11, <1>12, <1>17 DEF Calm, Held
  <2>. QED
    BY <1>7, <2>2, <2>3 DEF Held
<1>18. Knows(w)' /\ Undisturbed(w)'
  <2>1. Known(d)'
    BY <1>6, <1>7 DEF Known, OfShift
  <2>2. StillSo(d)'
    <3>1. tills'[n].open
      BY <1>4, <1>7
    <3>. QED
      BY <1>6, <3>1 DEF StillSo
  <2>. QED
    BY <1>9, <2>1, <2>2 DEF Knows, Undisturbed
<1>. QED
  BY <1>1, <1>8, <1>13, <1>14, <1>15, <1>16, <1>17, <1>18, WorkKeeps

LEMMA CrashKeeps ==
  ASSUME DrawerInv, NEW w \in Workers, CrashWork(w), CashFlow, Races
  PROVE  DrawerInv'
<1>1. /\ work[w].pc # "idle" /\ crashes' = crashes + 1 /\ crashes < MaxCrashes
      /\ UNCHANGED <<order, pay, refunds, req, overlapped, shifts, tills, moves>>
      /\ work' = [work EXCEPT ![w] = NoWork]
  BY DEF CrashWork, Done
<1>2. crashes' \in 0..MaxCrashes /\ crashes' >= crashes
  <2>1. crashes \in 0..MaxCrashes
    BY DEF DrawerInv, RefundInv, RefundTypes, RefundTypeOK
  <2>. QED
    BY <1>1, <2>1, BoundsAssumption
<1>3. WorkStep(w, NoWork)
  BY <1>1, <1>2 DEF WorkStep
<1>. QED
  BY <1>1, <1>3, WorkSlotFacts, ReadKeeps

-----------------------------------------------------------------------------
(* The invariants of the drawer                                            *)

LEMMA DrawerStarts == Init => DrawerInv
<1>. SUFFICES ASSUME Init PROVE DrawerInv
  OBVIOUS
<1>1. RefundInv
  BY RefundInit0 DEF Init
<1>2. DrawerTypes
  <2>1. work \in [Workers -> WorkSlots]
    BY WorkSlotFacts DEF Init
  <2>2. /\ shifts = <<>> /\ tills = <<>> /\ moves = <<>> /\ cash = <<>> /\ elsewhere = <<>> /\ raced = FALSE
    BY DEF Init
  <2>3. /\ <<>> \in Seq(ShiftRows) /\ <<>> \in Seq(TillRows) /\ <<>> \in Seq(MoveRows)
        /\ <<>> \in Seq(Int) /\ Len(<<>>) = 0
    OBVIOUS
  <2>4. MaxShifts >= 0 /\ MaxTills >= 0 /\ MaxMoves >= 0
    BY DrawerAssumption
  <2>. QED
    BY <2>1, <2>2, <2>3, <2>4 DEF DrawerTypes
<1>3. Linked
  BY DEF Init, Linked
<1>4. \A w \in Workers : work[w] = NoWork
  BY DEF Init
<1>5. \A w \in Workers : Knows(w) /\ Undisturbed(w)
  BY <1>4, WorkSlotFacts DEF Knows, Undisturbed
<1>6. ShiftSettled /\ OneSessionPerTill /\ DrawerAgrees /\ Held
  BY DEF Init, ShiftSettled, OneSessionPerTill, DrawerAgrees, Held
<1>7. Alone
  <2>1. Busy = {}
    BY <1>4, WorkSlotFacts DEF Init, RefundInit, Idle, Busy
  <2>. QED
    BY <2>1 DEF Alone
<1>. QED
  BY <1>1, <1>2, <1>3, <1>5, <1>6, <1>7 DEF DrawerInv, Calm

LEMMA DrawerStutters == ASSUME DrawerInv, UNCHANGED vars PROVE DrawerInv'
<1>0. UNCHANGED <<order, pay, refunds, req, overlapped, crashes, shifts, tills, moves, work, cash, elsewhere,
               raced>>
  BY DEF vars, refundVars, drawerVars
<1>1. RefundInv /\ crashes \in 0..MaxCrashes /\ crashes >= crashes
  BY BoundsAssumption DEF DrawerInv, RefundInv, RefundTypes, RefundTypeOK
<1>2. RefundInv'
  BY <1>0, <1>1, RefundInvApart
<1>3. \A t : /\ Sales(t)' = Sales(t) /\ RefundedSince(t)' = RefundedSince(t)
             /\ (Plain(t)' <=> Plain(t)) /\ MovedOut(t)' = MovedOut(t)
  BY <1>0, SumsStay, MovedStays
<1>4. \A s : OpenTills(s)' = OpenTills(s) /\ Sessions(s)' = Sessions(s)
  BY <1>0 DEF OpenTills, Sessions
<1>5. DrawerTypes' /\ Linked' /\ \A w \in Workers : Knows(w)'
  BY <1>0 DEF DrawerInv, DrawerTypes, Linked, Knows, Known
<1>6. \A t : Counted(t)' = Counted(t)
  BY <1>0 DEF Counted
<1>7. ShiftSettled' /\ OneSessionPerTill' /\ DrawerAgrees'
  BY <1>0, <1>3, <1>4, <1>6 DEF DrawerInv, ShiftSettled, OneSessionPerTill, DrawerAgrees
<1>8. ~raced => Alone' /\ Held' /\ \A w \in Workers : Undisturbed(w)'
  <2>1. Busy' = Busy
    BY <1>0 DEF Busy
  <2>2. ASSUME ~raced
        PROVE  Alone' /\ Held'
    BY <1>0, <1>3, <1>6, <2>1, <2>2 DEF DrawerInv, Calm, Alone, Held
  <2>3. ASSUME ~raced, NEW w \in Workers
        PROVE  Undisturbed(w)'
    BY <1>0, <1>3, <1>4, <2>3 DEF DrawerInv, Calm, Undisturbed, StillSo
  <2>. QED
    BY <2>2, <2>3
<1>. QED
  BY <1>0, <1>2, <1>5, <1>7, <1>8 DEF DrawerInv, Calm

LEMMA DrawerSteps == ASSUME DrawerInv, [Next]_vars PROVE DrawerInv'
<1>1. ASSUME RefundNext, UNCHANGED drawerVars, CashFlow, Races
      PROVE  DrawerInv'
  BY <1>1, RefundStepKeeps
<1>2. ASSUME NEW w \in Workers, TillRequest(w) \/ TillProceed(w), UNCHANGED refundVars, CashFlow, Races
      PROVE  DrawerInv'
  <2>1. Around
    BY <1>2 DEF Around
  <2>2. CASE TillRequest(w)
    BY <2>1, <2>2, TakeSteps
  <2>3. CASE TillProceed(w)
    BY <2>1, <2>3, LookSteps, AddSteps, ShiftSteps, MoveSteps, TillSteps, OpenTillStep DEF TillProceed
  <2>. QED
    BY <1>2, <2>2, <2>3
<1>3. ASSUME NEW w \in Workers, CrashWork(w), CashFlow, Races
      PROVE  DrawerInv'
  BY <1>3, CrashKeeps
<1>. QED
  BY <1>1, <1>2, <1>3, DrawerStutters DEF Next, Races

\* However payments, refunds, shifts and tills interleave, race and crash, the
\* drawer's invariant holds.
THEOREM DrawerInvariant == Spec => []DrawerInv
<1>1. Init => DrawerInv
  BY DrawerStarts
<1>2. DrawerInv /\ [Next]_vars => DrawerInv'
  BY DrawerSteps
<1>. QED
  BY <1>1, <1>2, PTL DEF Spec

\* The rows of the five tables and what the requests carry are of their types.
THEOREM DrawerIsTyped == Spec => []TypeOK
<1>1. DrawerInv => TypeOK
  BY DrawerTypesAre DEF DrawerInv
<1>. QED
  BY <1>1, DrawerInvariant, PTL

\* Refunds stay within their payment and are marked, a closed shift is settled, a
\* till has one session at a time, and of any number of drawers open together
\* a reconciled one held what was expected less what went through the others
\* (createRefund, checkAndMarkPaymentRefunded, closeShift, openTill,
\* reconcileTill).
THEOREM CashIsRight == Spec => []CashAgrees
<1>1. DrawerInv => CashAgrees
  BY DEF DrawerInv, RefundInv, CashAgrees
<1>. QED
  BY <1>1, DrawerInvariant, PTL

\* Without a drawer too: the refunds of a payment stay within it and mark it
\* when they reach it (createRefund, approveRefund, checkAndMarkPaymentRefunded),
\* as the house has them.
THEOREM RefundsAreRight ==
  RefundInit /\ [][RefundNext]_refundVars => [](RefundsCovered /\ RefundedIsMarked)
<1>1. RefundInv /\ [RefundNext]_refundVars => RefundInv'
  <2>1. ASSUME RefundInv, UNCHANGED refundVars PROVE RefundInv'
    <3>1. crashes' \in 0..MaxCrashes /\ crashes' >= crashes
      BY <2>1 DEF refundVars, RefundInv, RefundTypes, RefundTypeOK
    <3>. QED
      BY <2>1, <3>1, RefundInvApart DEF refundVars
  <2>. QED
    BY <2>1, RefundInvStep
<1>2. RefundInv => RefundsCovered /\ RefundedIsMarked
  BY DEF RefundInv
<1>. QED
  BY <1>1, <1>2, RefundInit0, PTL

-----------------------------------------------------------------------------
(* The invariant of the subscription                                       *)

\* What the theorems about it assume of the constants.
Numbers ==
    /\ MaxTransactions \in Nat /\ MaxBranches \in Nat /\ MaxArrivals \in Nat /\ MaxCrashes \in Nat
    /\ Caps \subseteq Nat
    /\ None \notin O!Status \cup O!Charges

SubSlots == [pc : O!PC, txn : 0..MaxTransactions, seen : O!Charges \cup {None},
             to : O!Status \cup {None}, cap : Caps \cup {0}]

\* The calls that are about a transaction, and those that follow a confirmation.
OfTxn == {"findSub", "createSub", "redirect", "ask", "save"}
Confirming == {"readSub", "activate", "onboard"}

\* What a request knows at its next call: its transaction is there, what it saw
\* paid was paid, what it follows up was confirmed, and by hand nothing is put
\* back to PENDING_PAYMENT.
SubKnows(r) ==
    /\ subReq[r].pc \in OfTxn => subReq[r].txn \in DOMAIN txns
    /\ subReq[r].pc = "save" => /\ subReq[r].seen \in O!Charges
                                /\ subReq[r].seen = "COMPLETED" => subReq[r].txn \in paid
    /\ subReq[r].pc \in Confirming => confirmed # {}
    /\ subReq[r].pc = "update" => subReq[r].to \in O!Status \ {"PENDING_PAYMENT"}

\* A payer is sent to PesaPal once there is a subscription, and what PesaPal or
\* the code calls paid was paid.
Paid ==
    /\ offered # {} => sub.status # None
    /\ \A i \in DOMAIN charges : charges[i] = "COMPLETED" => i \in paid
    /\ confirmed \subseteq paid

SubInv == O!TypeOK /\ (\A r \in Clerks : SubKnows(r)) /\ Paid /\ O!PaymentBacked /\ O!ConfirmedActivates

USE DEF Numbers

-----------------------------------------------------------------------------

LEMMA Words ==
  ASSUME Numbers
  PROVE  /\ O!Status = {"PENDING_PAYMENT", "ACTIVE", "GRACE_PERIOD", "PAST_DUE", "SUSPENDED", "CANCELLED"}
         /\ \A s \in O!Status : O!VALID_TRANSITIONS[s] \subseteq O!Status \ {"PENDING_PAYMENT"}
         /\ \A c \in O!Charges : /\ O!Recorded[c] \in O!TxnStatus
                                 /\ O!Recorded[c] = "COMPLETED" => c = "COMPLETED"
         /\ O!Idle \in SubSlots /\ O!Idle.pc = "idle"
<1>1. O!Status = {"PENDING_PAYMENT", "ACTIVE", "GRACE_PERIOD", "PAST_DUE", "SUSPENDED", "CANCELLED"}
  BY DEF O!Status, O!VALID_TRANSITIONS
<1>2. \A s \in O!Status : O!VALID_TRANSITIONS[s] \subseteq O!Status \ {"PENDING_PAYMENT"}
  BY <1>1 DEF O!VALID_TRANSITIONS
<1>3. \A c \in O!Charges : /\ O!Recorded[c] \in O!TxnStatus
                           /\ O!Recorded[c] = "COMPLETED" => c = "COMPLETED"
  BY DEF O!Charges, O!Recorded, O!TxnStatus
<1>4. O!Idle \in SubSlots /\ O!Idle.pc = "idle"
  BY DEF O!Idle, SubSlots, O!PC
<1>. QED
  BY <1>1, <1>2, <1>3, <1>4

LEMMA InitSubInv == ASSUME Numbers, O!Init PROVE SubInv
<1>1. O!TypeOK
  <2>1. subReq \in [Clerks -> SubSlots]
    BY Words DEF O!Init
  <2>2. /\ sub \in [status : O!Status \cup {None}, cap : Caps \cup {0}]
        /\ charges \in [1..MaxTransactions -> O!Charges]
        /\ txns \in Seq(O!TxnStatus) /\ Len(txns) <= MaxTransactions /\ byHand \in Seq(O!Status)
    BY DEF O!Init, O!Charges
  <2>3. /\ branches \in 0..MaxBranches /\ early \in 0..MaxBranches /\ arrived \in 0..MaxArrivals
        /\ subCrashes \in 0..MaxCrashes /\ activations \in Nat
    BY DEF O!Init
  <2>4. /\ offered \subseteq DOMAIN txns /\ paid \subseteq offered /\ confirmed \subseteq DOMAIN txns
        /\ onboarded \in BOOLEAN /\ overlaps \in BOOLEAN
    BY DEF O!Init
  <2>. QED
    BY <2>1, <2>2, <2>3, <2>4 DEF O!TypeOK, SubSlots
<1>2. (\A r \in Clerks : SubKnows(r)) /\ Paid
  BY Words DEF O!Init, SubKnows, Paid, OfTxn, Confirming
<1>3. O!PaymentBacked /\ O!ConfirmedActivates
  BY DEF O!Init, O!PaymentBacked, O!ConfirmedActivates
<1>. QED
  BY <1>1, <1>2, <1>3 DEF SubInv

\* What request r leaves of ConfirmedActivates.
Follows(r) ==
    confirmed' # {} /\ sub'.status = "PENDING_PAYMENT" =>
        \/ subCrashes' > 0
        \/ subReq'[r].pc \in {"readSub", "activate"}
        \/ /\ confirmed # {} /\ sub.status = "PENDING_PAYMENT"
           /\ subReq[r].pc \notin {"readSub", "activate"}

\* A step of request r that takes nothing away from what the others know.
LEMMA SubMoves ==
  ASSUME Numbers, SubInv, O!TypeOK', NEW r \in Clerks, NEW d \in SubSlots,
         subReq' = [subReq EXCEPT ![r] = d],
         DOMAIN txns \subseteq DOMAIN txns', paid' = paid, confirmed \subseteq confirmed',
         subCrashes' >= subCrashes,
         SubKnows(r)', Paid', O!PaymentBacked', Follows(r)
  PROVE  SubInv'
<1>1. subReq'[r] = d /\ \A q \in Clerks \ {r} : subReq'[q] = subReq[q]
  BY DEF SubInv, O!TypeOK
<1>2. \A q \in Clerks \ {r} : SubKnows(q)'
  BY <1>1 DEF SubInv, SubKnows
<1>3. O!ConfirmedActivates'
  BY <1>1 DEF SubInv, O!TypeOK, O!ConfirmedActivates, Follows
<1>. QED
  BY <1>2, <1>3 DEF SubInv

\* A step of request r that writes no row but its own slot and the counters.
LEMMA SubQuiet ==
  ASSUME Numbers, SubInv, NEW r \in Clerks, NEW d \in SubSlots,
         subReq' = [subReq EXCEPT ![r] = d], UNCHANGED <<O!rows, O!outside, O!history>>,
         overlaps' \in BOOLEAN, arrived' \in 0..MaxArrivals, subCrashes' \in 0..MaxCrashes,
         subCrashes' >= subCrashes,
         SubKnows(r)',
         subReq[r].pc \in {"readSub", "activate"} =>
                \/ subCrashes' > 0
                \/ d.pc \in {"readSub", "activate"}
                \/ sub.status # "PENDING_PAYMENT"
  PROVE  SubInv'
<1>1. subReq \in [Clerks -> SubSlots]
  BY DEF SubInv, O!TypeOK, SubSlots
<1>2. subReq' \in [Clerks -> SubSlots] /\ subReq'[r] = d
  BY <1>1
<1>3. O!TypeOK'
  BY <1>2 DEF SubInv, O!TypeOK, O!rows, O!outside, O!history, SubSlots
<1>4. Paid' /\ O!PaymentBacked' /\ Follows(r)
  BY <1>2 DEF SubInv, Paid, O!PaymentBacked, Follows, O!rows, O!outside, O!history
<1>. QED
  BY <1>3, <1>4, SubMoves DEF O!rows, O!outside, O!history

-----------------------------------------------------------------------------
(* The actions                                                             *)

\* A request arrives.
LEMMA ArriveStep == ASSUME Numbers, SubInv, NEW r \in Clerks, O!Arrive(r) PROVE SubInv'
<1>0. /\ subReq \in [Clerks -> SubSlots] /\ arrived \in 0..MaxArrivals /\ subCrashes \in 0..MaxCrashes
      /\ sub.status \in O!Status \cup {None} /\ sub.cap \in Caps \cup {0}
      /\ txns \in Seq(O!TxnStatus) /\ Len(txns) <= MaxTransactions
  BY DEF SubInv, O!TypeOK, SubSlots
<1>1. ASSUME NEW d \in SubSlots, O!Start(r, d), d.pc \notin {"save"} \cup Confirming,
             d.pc \in OfTxn => d.txn \in DOMAIN txns,
             d.pc = "update" => d.to \in O!Status \ {"PENDING_PAYMENT"}
      PROVE  SubInv'
  <2>1. /\ subReq[r].pc = "idle" /\ subReq' = [subReq EXCEPT ![r] = d] /\ UNCHANGED <<O!rows, O!outside, O!history>>
        /\ overlaps' \in BOOLEAN /\ arrived' \in 0..MaxArrivals /\ subCrashes' = subCrashes
    <3>1. overlaps' \in BOOLEAN
      BY <1>1 DEF O!Start, SubInv, O!TypeOK
    <3>2. arrived' \in 0..MaxArrivals
      BY <1>0, <1>1 DEF O!Start
    <3>. QED
      BY <1>1, <3>1, <3>2 DEF O!Start
  <2>2. subReq'[r] = d
    BY <1>0, <2>1
  <2>3. SubKnows(r)'
    BY <1>1, <2>1, <2>2 DEF SubKnows, O!rows
  <2>. QED
    <3>1. subCrashes' >= subCrashes /\ subCrashes' \in 0..MaxCrashes
      BY <1>0, <2>1
    <3>2. subReq[r].pc \notin {"readSub", "activate"}
      BY <2>1
    <3>. QED
      BY <1>1, <2>1, <2>3, <3>1, <3>2, SubQuiet
<1>2. ASSUME NEW cap \in Caps, O!Checkout(r, cap) \/ O!PlanRead(r, cap)
      PROVE  SubInv'
  <2>1. \A p \in {"cancelOld", "planCount"} :
            LET d == [O!Idle EXCEPT !.pc = p, !.cap = cap] IN d \in SubSlots /\ d.pc = p
    BY Words DEF O!Idle, SubSlots, O!PC
  <2>2. PICK p \in {"cancelOld", "planCount"} : O!Start(r, [O!Idle EXCEPT !.pc = p, !.cap = cap])
    BY <1>2 DEF O!Checkout, O!PlanRead
  <2>. QED
    BY <1>1, <2>1, <2>2 DEF OfTxn, Confirming
<1>3. ASSUME NEW i \in DOMAIN txns, O!CallbackRead(r, i) \/ O!ReconcileRead(r, i)
      PROVE  SubInv'
  <2>1. i \in 0..MaxTransactions
    BY <1>0
  <2>2. \A p \in {"redirect", "ask"} :
            LET d == [O!Idle EXCEPT !.pc = p, !.txn = i] IN d \in SubSlots /\ d.pc = p /\ d.txn = i
    BY <2>1, Words DEF O!Idle, SubSlots, O!PC
  <2>3. PICK p \in {"redirect", "ask"} : O!Start(r, [O!Idle EXCEPT !.pc = p, !.txn = i])
    BY <1>3 DEF O!CallbackRead, O!ReconcileRead
  <2>. QED
    BY <1>1, <2>2, <2>3 DEF Confirming
<1>4. ASSUME NEW to \in O!Status, O!UpdateRead(r, to)
      PROVE  SubInv'
  <2>. DEFINE d == [O!Idle EXCEPT !.pc = "update", !.to = to]
  <2>1. d \in SubSlots /\ d.pc = "update" /\ d.to = to
    BY Words DEF O!Idle, SubSlots, O!PC
  <2>2. O!Start(r, d) /\ to \in O!Status \ {"PENDING_PAYMENT"}
    BY <1>0, <1>4, Words DEF O!UpdateRead
  <2>. QED
    BY <1>1, <2>1, <2>2 DEF OfTxn, Confirming
<1>5. ASSUME O!BranchRead(r)
      PROVE  SubInv'
  <2>1. \A p \in {"insertBranch", "limit"} : LET d == [O!Idle EXCEPT !.pc = p] IN d \in SubSlots /\ d.pc = p
    BY Words DEF O!Idle, SubSlots, O!PC
  <2>2. PICK p \in {"insertBranch", "limit"} : O!Start(r, [O!Idle EXCEPT !.pc = p])
    BY <1>5 DEF O!BranchRead
  <2>. QED
    BY <1>1, <2>1, <2>2 DEF OfTxn, Confirming
<1>. QED
  BY <1>2, <1>3, <1>4, <1>5 DEF O!Arrive

\* A request goes on without writing a row.
LEMMA ReadStep ==
  ASSUME Numbers, SubInv, NEW r \in Clerks,
         \/ O!Submit(r) \/ (O!FindSub(r) /\ sub.status = None) \/ (O!CreateSub(r) /\ sub.status # None)
         \/ O!AskProvider(r) \/ O!ReadSub(r) \/ O!PlanCount(r) \/ O!ReadLimit(r) \/ O!CountBranches(r)
         \/ O!Crash(r)
  PROVE  SubInv'
<1>0. /\ subReq \in [Clerks -> SubSlots] /\ subReq[r] \in SubSlots
      /\ arrived \in 0..MaxArrivals /\ subCrashes \in 0..MaxCrashes /\ overlaps \in BOOLEAN
      /\ SubKnows(r)
  BY DEF SubInv, O!TypeOK, SubSlots
<1>1. ASSUME NEW d \in SubSlots, O!Become(r, d), UNCHANGED <<O!rows, O!outside, O!history>>, SubKnows(r)',
             subReq[r].pc \in {"readSub", "activate"} =>
                    d.pc \in {"readSub", "activate"} \/ sub.status # "PENDING_PAYMENT"
      PROVE  SubInv'
  <2>1. /\ subReq' = [subReq EXCEPT ![r] = d] /\ overlaps' \in BOOLEAN
        /\ arrived' \in 0..MaxArrivals /\ subCrashes' \in 0..MaxCrashes /\ subCrashes' >= subCrashes
    BY <1>0, <1>1 DEF O!Become
  <2>. QED
    BY <1>1, <2>1, SubQuiet
\* To a call about nothing but the request's own data.
<1>2. ASSUME NEW d \in SubSlots, O!Become(r, d), UNCHANGED <<O!rows, O!outside, O!history>>,
             d.pc \notin OfTxn \cup Confirming \cup {"update"},
             subReq[r].pc \in {"readSub", "activate"} => sub.status # "PENDING_PAYMENT"
      PROVE  SubInv'
  <2>1. subReq'[r] = d
    BY <1>0, <1>2 DEF O!Become
  <2>2. SubKnows(r)'
    BY <1>2, <2>1 DEF SubKnows, OfTxn, Confirming
  <2>. QED
    BY <1>1, <1>2, <2>2
<1>3. \A p \in O!PC : LET d == [subReq[r] EXCEPT !.pc = p] IN
                      d \in SubSlots /\ d.pc = p /\ d.txn = subReq[r].txn
  BY <1>0 DEF SubSlots
<1>4. CASE O!Submit(r)
  <2>1. subReq[r].pc = "submit" /\ \/ O!Goto(r, "insert") /\ UNCHANGED <<O!rows, O!outside, O!history>>
                                   \/ O!Refuse(r)
    BY <1>4 DEF O!Submit
  <2>. QED
    BY <1>2, <1>3, <2>1, Words DEF O!Goto, O!Refuse, O!Finish, OfTxn, Confirming, O!PC
<1>5. CASE O!FindSub(r) /\ sub.status = None
  <2>. DEFINE d == [subReq[r] EXCEPT !.pc = "createSub"]
  <2>1. subReq[r].pc = "findSub" /\ O!Become(r, d) /\ UNCHANGED <<O!rows, O!outside, O!history>>
    BY <1>5 DEF O!FindSub, O!Goto
  <2>2. d \in SubSlots /\ d.pc = "createSub" /\ d.txn = subReq[r].txn
    BY <1>3 DEF O!PC
  <2>. HIDE DEF d
  <2>3. subReq'[r] = d
    BY <1>0, <2>1 DEF O!Become
  <2>4. SubKnows(r)'
    BY <1>0, <2>1, <2>2, <2>3 DEF SubKnows, OfTxn, Confirming, O!rows
  <2>. QED
    BY <1>1, <2>1, <2>2, <2>4
<1>6. CASE O!CreateSub(r) /\ sub.status # None
  BY <1>2, <1>6, Words DEF O!CreateSub, O!Refuse, O!Finish, OfTxn, Confirming
<1>7. CASE O!AskProvider(r)
  <2>1. CASE O!Refuse(r)
    BY <1>2, <1>7, <2>1, Words DEF O!AskProvider, O!Refuse, O!Finish, OfTxn, Confirming
  <2>2. CASE ~O!Refuse(r)
    <3>. DEFINE d == [subReq[r] EXCEPT !.pc = "save", !.seen = charges[subReq[r].txn]]
    <3>1. /\ subReq[r].pc = "ask" /\ O!Become(r, d) /\ UNCHANGED <<O!rows, O!outside, O!history>>
      BY <1>7, <2>2 DEF O!AskProvider
    <3>2. subReq[r].txn \in DOMAIN txns /\ subReq[r].txn \in DOMAIN charges
          /\ charges \in [1..MaxTransactions -> O!Charges]
      BY <1>0, <3>1 DEF SubKnows, OfTxn, SubInv, O!TypeOK
    <3>3. charges[subReq[r].txn] \in O!Charges /\ (charges[subReq[r].txn] = "COMPLETED" => subReq[r].txn \in paid)
      BY <3>2 DEF SubInv, Paid
    <3>4. /\ d \in SubSlots /\ d.pc = "save" /\ d.txn = subReq[r].txn /\ d.seen = charges[subReq[r].txn]
      BY <1>0, <3>3 DEF SubSlots, O!PC
    <3>. HIDE DEF d
    <3>5. subReq'[r] = d
      BY <1>0, <3>1 DEF O!Become
    <3>6. SubKnows(r)'
      BY <3>1, <3>2, <3>3, <3>4, <3>5 DEF SubKnows, Confirming, O!rows, O!outside
    <3>. QED
      BY <1>1, <3>1, <3>4, <3>6
  <2>. QED
    BY <2>1, <2>2
<1>8. CASE O!ReadSub(r)
  <2>1. CASE sub.status \in {"PENDING_PAYMENT", "PAST_DUE"}
    <3>. DEFINE d == [subReq[r] EXCEPT !.pc = "activate"]
    <3>1. subReq[r].pc = "readSub" /\ O!Become(r, d) /\ UNCHANGED <<O!rows, O!outside, O!history>>
      BY <1>8, <2>1 DEF O!ReadSub, O!Goto
    <3>2. d \in SubSlots /\ d.pc = "activate"
      BY <1>3 DEF O!PC
    <3>. HIDE DEF d
    <3>3. subReq'[r] = d
      BY <1>0, <3>1 DEF O!Become
    <3>4. SubKnows(r)'
      BY <1>0, <3>1, <3>2, <3>3 DEF SubKnows, OfTxn, Confirming, O!history
    <3>. QED
      BY <1>1, <3>1, <3>2, <3>4
  <2>2. CASE sub.status \notin {"PENDING_PAYMENT", "PAST_DUE"}
    BY <1>2, <1>8, <2>2, Words DEF O!ReadSub, O!Finish, OfTxn, Confirming
  <2>. QED
    BY <2>1, <2>2
<1>9. CASE O!PlanCount(r) \/ O!CountBranches(r)
  <2>1. /\ subReq[r].pc \in {"planCount", "count"} /\ UNCHANGED <<O!rows, O!outside, O!history>>
        /\ O!Finish(r) \/ \E p \in {"setPlan", "insertBranch"} : O!Goto(r, p)
    BY <1>9 DEF O!PlanCount, O!CountBranches
  <2>. QED
    BY <1>2, <1>3, <2>1, Words DEF O!Goto, O!Finish, OfTxn, Confirming, O!PC
<1>10. CASE O!ReadLimit(r)
  <2>1. CASE sub.status = "CANCELLED"
    BY <1>2, <1>10, <2>1, Words DEF O!ReadLimit, O!Finish, OfTxn, Confirming
  <2>2. CASE sub.status # "CANCELLED"
    <3>. DEFINE d == [subReq[r] EXCEPT !.pc = "count", !.cap = sub.cap]
    <3>1. sub.cap \in Caps \cup {0}
      BY DEF SubInv, O!TypeOK
    <3>2. d \in SubSlots /\ d.pc = "count"
      BY <1>0, <3>1 DEF SubSlots, O!PC
    <3>3. subReq[r].pc = "limit" /\ O!Become(r, d) /\ UNCHANGED <<O!rows, O!outside, O!history>>
      BY <1>10, <2>2 DEF O!ReadLimit
    <3>. HIDE DEF d
    <3>. QED
      BY <1>2, <3>2, <3>3 DEF OfTxn, Confirming
  <2>. QED
    BY <2>1, <2>2
<1>11. CASE O!Crash(r)
  <2>1. /\ subReq' = [subReq EXCEPT ![r] = O!Idle] /\ subCrashes' = subCrashes + 1 /\ subCrashes' \in 0..MaxCrashes
        /\ subCrashes' > 0 /\ subCrashes' >= subCrashes
        /\ UNCHANGED <<O!rows, O!outside, O!history, overlaps, arrived>>
    BY <1>0, <1>11 DEF O!Crash
  <2>2. subReq'[r] = O!Idle
    BY <1>0, <2>1
  <2>3. SubKnows(r)'
    BY <2>2, Words DEF SubKnows, OfTxn, Confirming
  <2>. QED
    BY <1>0, <2>1, <2>3, SubQuiet, Words
<1>. QED
  BY <1>4, <1>5, <1>6, <1>7, <1>8, <1>9, <1>10, <1>11

\* A request writes a row.
LEMMA WriteStep ==
  ASSUME Numbers, SubInv, NEW r \in Clerks,
         \/ O!CancelOld(r) \/ O!InsertTxn(r) \/ (O!FindSub(r) /\ sub.status # None)
         \/ (O!CreateSub(r) /\ sub.status = None) \/ O!Redirect(r) \/ O!SaveStatus(r) \/ O!Activate(r)
         \/ O!Onboard(r) \/ O!Update(r) \/ O!SetPlan(r) \/ O!InsertBranch(r)
  PROVE  SubInv'
<1>0. /\ subReq \in [Clerks -> SubSlots] /\ subReq[r] \in SubSlots
      /\ arrived \in 0..MaxArrivals /\ subCrashes \in 0..MaxCrashes /\ overlaps \in BOOLEAN
      /\ txns \in Seq(O!TxnStatus) /\ Len(txns) \in Nat /\ DOMAIN txns = 1..Len(txns)
      /\ Len(txns) <= MaxTransactions
      /\ sub \in [status : O!Status \cup {None}, cap : Caps \cup {0}]
      /\ SubKnows(r)
  BY DEF SubInv, O!TypeOK, SubSlots
<1>1. ASSUME NEW d \in SubSlots, O!Become(r, d), UNCHANGED <<charges, paid>>,
             sub' \in [status : O!Status \cup {None}, cap : Caps \cup {0}],
             branches' \in 0..MaxBranches, early' \in 0..MaxBranches,
             txns' \in Seq(O!TxnStatus), Len(txns') <= MaxTransactions,
             DOMAIN txns \subseteq DOMAIN txns',
             offered' \subseteq DOMAIN txns', paid \subseteq offered',
             confirmed' \subseteq DOMAIN txns', confirmed \subseteq confirmed', confirmed' \subseteq paid,
             onboarded' \in BOOLEAN, activations' \in Nat, byHand' \in Seq(O!Status),
             SubKnows(r)', offered' # {} => sub'.status # None,
             O!PaymentBacked', Follows(r)
      PROVE  SubInv'
  <2>1. /\ subReq' = [subReq EXCEPT ![r] = d] /\ subReq' \in [Clerks -> SubSlots]
        /\ UNCHANGED <<overlaps, arrived, subCrashes>>
    BY <1>0, <1>1 DEF O!Become
  <2>2. O!TypeOK'
    BY <1>0, <1>1, <2>1 DEF SubInv, O!TypeOK, SubSlots
  <2>3. Paid'
    BY <1>1 DEF SubInv, Paid
  <2>4. subCrashes' >= subCrashes
    BY <1>0, <2>1
  <2>. QED
    BY <1>1, <2>1, <2>2, <2>3, <2>4, SubMoves
<1>2. /\ offered \subseteq DOMAIN txns /\ paid \subseteq offered /\ confirmed \subseteq DOMAIN txns
      /\ confirmed \subseteq paid /\ (offered # {} => sub.status # None)
      /\ branches \in 0..MaxBranches /\ early \in 0..MaxBranches
      /\ onboarded \in BOOLEAN /\ activations \in Nat /\ byHand \in Seq(O!Status)
      /\ O!PaymentBacked /\ O!ConfirmedActivates
  BY DEF SubInv, O!TypeOK, Paid
<1>3. ASSUME O!Finish(r)
      PROVE  O!Become(r, O!Idle) /\ subReq'[r].pc = "idle" /\ SubKnows(r)'
  BY <1>0, <1>3, Words DEF O!Finish, O!Become, SubKnows, OfTxn, Confirming
<1>4. ASSUME NEW p \in O!PC, O!Goto(r, p), p \notin OfTxn \cup {"update"},
             p \in Confirming => confirmed' # {}
      PROVE  /\ [subReq[r] EXCEPT !.pc = p] \in SubSlots /\ O!Become(r, [subReq[r] EXCEPT !.pc = p])
             /\ subReq'[r].pc = p /\ SubKnows(r)'
  <2>1. [subReq[r] EXCEPT !.pc = p] \in SubSlots /\ [subReq[r] EXCEPT !.pc = p].pc = p
    BY <1>0 DEF SubSlots
  <2>2. subReq'[r] = [subReq[r] EXCEPT !.pc = p]
    BY <1>0, <1>4 DEF O!Goto, O!Become
  <2>. QED
    BY <1>4, <2>1, <2>2 DEF O!Goto, SubKnows, OfTxn, Confirming
\* A request that ends, with nothing confirmed or activated.
<1>5. ASSUME O!Finish(r), UNCHANGED <<charges, paid, sub, early, confirmed, activations, byHand, onboarded>>,
             branches' \in 0..MaxBranches,
             txns' \in Seq(O!TxnStatus), Len(txns') <= MaxTransactions, DOMAIN txns = DOMAIN txns',
             \A j \in DOMAIN txns : txns'[j] = "COMPLETED" => txns[j] = "COMPLETED",
             offered' \subseteq DOMAIN txns', paid \subseteq offered',
             offered' # {} => sub.status # None,
             subReq[r].pc \notin {"readSub", "activate"}
      PROVE  SubInv'
  <2>1. O!PaymentBacked'
    BY <1>2, <1>5 DEF O!PaymentBacked
  <2>2. Follows(r)
    BY <1>5 DEF Follows
  <2>3. /\ sub' \in [status : O!Status \cup {None}, cap : Caps \cup {0}]
        /\ early' \in 0..MaxBranches /\ confirmed' \subseteq DOMAIN txns'
        /\ confirmed' \subseteq paid /\ onboarded' \in BOOLEAN /\ activations' \in Nat
        /\ byHand' \in Seq(O!Status) /\ (offered' # {} => sub'.status # None)
    BY <1>0, <1>2, <1>5
  <2>. QED
    BY <1>1, <1>3, <1>5, <2>1, <2>2, <2>3, Words
<1>6. CASE O!CancelOld(r)
  <2>1. /\ subReq[r].pc = "cancelOld" /\ O!Goto(r, "submit")
        /\ UNCHANGED <<charges, paid, offered, sub, branches, early, confirmed, activations, byHand, onboarded>>
        /\ txns' = [i \in DOMAIN txns |-> IF txns[i] = "INITIATED" THEN "CANCELLED" ELSE txns[i]]
    BY <1>6 DEF O!CancelOld, O!outside, O!history
  <2>2. /\ txns' \in Seq(O!TxnStatus) /\ DOMAIN txns' = DOMAIN txns /\ Len(txns') <= MaxTransactions
        /\ \A j \in DOMAIN txns : txns'[j] = "COMPLETED" => txns[j] = "COMPLETED"
    <3>1. \A i \in 1..Len(txns) : txns[i] \in O!TxnStatus
      BY <1>0
    <3>2. txns' \in [1..Len(txns) -> O!TxnStatus]
      BY <1>0, <2>1, <3>1 DEF O!TxnStatus
    <3>3. txns' \in Seq(O!TxnStatus) /\ Len(txns') = Len(txns)
      BY <1>0, <3>2
    <3>. QED
      BY <1>0, <2>1, <3>3
  <2>3. O!PaymentBacked' /\ Follows(r)
    BY <1>2, <2>1, <2>2 DEF O!PaymentBacked, Follows
  <2>4. /\ [subReq[r] EXCEPT !.pc = "submit"] \in SubSlots /\ O!Become(r, [subReq[r] EXCEPT !.pc = "submit"])
        /\ SubKnows(r)'
    BY <1>4, <2>1 DEF OfTxn, Confirming, O!PC
  <2>. QED
    BY <1>0, <1>1, <1>2, <2>1, <2>2, <2>3, <2>4
<1>7. CASE O!InsertTxn(r)
  <2>. DEFINE n == Len(txns) + 1
              d == [subReq[r] EXCEPT !.pc = "findSub", !.txn = n]
  <2>1. /\ subReq[r].pc = "insert" /\ O!Become(r, d) /\ Len(txns) < MaxTransactions
        /\ UNCHANGED <<charges, paid, offered, sub, branches, early, confirmed, activations, byHand, onboarded>>
        /\ txns' = Append(txns, "INITIATED")
    BY <1>7 DEF O!InsertTxn, O!outside, O!history
  <2>2. /\ txns' \in Seq(O!TxnStatus) /\ Len(txns') = n /\ DOMAIN txns' = 1..n
        /\ txns'[n] = "INITIATED" /\ \A j \in 1..Len(txns) : txns'[j] = txns[j]
    BY <1>0, <2>1 DEF O!TxnStatus
  <2>3. n \in 0..MaxTransactions /\ n \in DOMAIN txns' /\ DOMAIN txns \subseteq DOMAIN txns'
    BY <1>0, <2>1, <2>2
  <2>4. d \in SubSlots /\ d.pc = "findSub" /\ d.txn = n
    BY <1>0, <2>3 DEF SubSlots, O!PC
  <2>. HIDE DEF d
  <2>5. subReq'[r] = d
    BY <1>0, <2>1 DEF O!Become
  <2>6. SubKnows(r)'
    BY <2>3, <2>4, <2>5 DEF SubKnows, Confirming
  <2>7. O!PaymentBacked'
    <3>1. \A j \in DOMAIN txns' : txns'[j] = "COMPLETED" => j \in DOMAIN txns /\ txns[j] = "COMPLETED"
      BY <1>0, <2>2
    <3>. QED
      BY <1>2, <2>1, <3>1 DEF O!PaymentBacked
  <2>8. Follows(r) /\ Len(txns') <= MaxTransactions
    BY <1>0, <2>1, <2>2 DEF Follows
  <2>. QED
    BY <1>0, <1>1, <1>2, <2>1, <2>2, <2>3, <2>4, <2>6, <2>7, <2>8
<1>8. CASE O!FindSub(r) /\ sub.status # None
  <2>1. /\ subReq[r].pc = "findSub" /\ O!Finish(r) /\ offered' = offered \cup {subReq[r].txn}
        /\ UNCHANGED <<charges, paid, txns, sub, branches, early, confirmed, activations, byHand, onboarded>>
    BY <1>8 DEF O!FindSub, O!Answer, O!rows, O!history
  <2>2. subReq[r].txn \in DOMAIN txns
    BY <1>0, <2>1 DEF SubKnows, OfTxn
  <2>3. offered' \subseteq DOMAIN txns' /\ paid \subseteq offered'
    BY <1>2, <2>1, <2>2
  <2>. QED
    BY <1>0, <1>2, <1>5, <1>8, <2>1, <2>3
<1>9. CASE O!CreateSub(r) /\ sub.status = None
  <2>1. /\ subReq[r].pc = "createSub" /\ O!Finish(r) /\ offered' = offered \cup {subReq[r].txn}
        /\ sub' = [status |-> "PENDING_PAYMENT", cap |-> subReq[r].cap] /\ early' = branches
        /\ UNCHANGED <<charges, paid, txns, branches, confirmed, activations, byHand, onboarded>>
    BY <1>9 DEF O!CreateSub, O!Answer
  <2>2. subReq[r].txn \in DOMAIN txns /\ subReq[r].cap \in Caps \cup {0}
    BY <1>0, <2>1 DEF SubKnows, OfTxn, SubSlots
  <2>3. offered' \subseteq DOMAIN txns' /\ paid \subseteq offered' /\ confirmed = {}
    BY <1>2, <1>9, <2>1, <2>2
  <2>4. sub' \in [status : O!Status \cup {None}, cap : Caps \cup {0}] /\ sub'.status = "PENDING_PAYMENT"
    BY <2>1, <2>2, Words
  <2>5. O!PaymentBacked' /\ Follows(r)
    BY <1>2, <2>1, <2>3, <2>4 DEF O!PaymentBacked, Follows
  <2>. QED
    BY <1>0, <1>1, <1>2, <1>3, <2>1, <2>3, <2>4, <2>5, Words
<1>10. CASE O!Redirect(r)
  <2>1. /\ subReq[r].pc = "redirect" /\ O!Finish(r) /\ txns' = [txns EXCEPT ![subReq[r].txn] = "REDIRECTED"]
        /\ UNCHANGED <<charges, paid, offered, sub, branches, early, confirmed, activations, byHand, onboarded>>
    BY <1>10 DEF O!Redirect, O!outside, O!history
  <2>2. /\ txns' \in Seq(O!TxnStatus) /\ DOMAIN txns' = DOMAIN txns /\ Len(txns') = Len(txns)
        /\ \A j \in DOMAIN txns : txns'[j] = "COMPLETED" => txns[j] = "COMPLETED"
    <3>1. subReq[r].txn \in DOMAIN txns /\ "REDIRECTED" \in O!TxnStatus
      BY <1>0, <2>1 DEF SubKnows, OfTxn, O!TxnStatus
    <3>2. txns' \in Seq(O!TxnStatus) /\ DOMAIN txns' = DOMAIN txns /\ Len(txns') = Len(txns)
      BY <1>0, <2>1, <3>1
    <3>3. \A j \in DOMAIN txns : txns'[j] = IF j = subReq[r].txn THEN "REDIRECTED" ELSE txns[j]
      BY <1>0, <2>1
    <3>. QED
      BY <3>2, <3>3
  <2>. QED
    BY <1>0, <1>2, <1>5, <2>1, <2>2
<1>11. CASE O!SaveStatus(r)
  <2>. DEFINE i == subReq[r].txn
              new == O!Recorded[subReq[r].seen]
  <2>1. /\ subReq[r].pc = "save" /\ txns' = [txns EXCEPT ![i] = new]
        /\ IF new = "COMPLETED" THEN O!Goto(r, "readSub") /\ confirmed' = confirmed \cup {i}
           ELSE O!Finish(r) /\ UNCHANGED confirmed
        /\ UNCHANGED <<charges, paid, offered, sub, branches, early, activations, byHand, onboarded>>
    BY <1>11 DEF O!SaveStatus, O!outside
  <2>2. /\ i \in DOMAIN txns /\ new \in O!TxnStatus /\ (new = "COMPLETED" => i \in paid)
    BY <1>0, <2>1, Words DEF SubKnows, OfTxn
  <2>. HIDE DEF i, new
  <2>3. /\ txns' \in Seq(O!TxnStatus) /\ DOMAIN txns' = DOMAIN txns /\ Len(txns') = Len(txns)
        /\ txns'[i] = new /\ \A j \in DOMAIN txns \ {i} : txns'[j] = txns[j]
    BY <1>0, <2>1, <2>2
  <2>4. CASE new = "COMPLETED"
    <3>1. /\ [subReq[r] EXCEPT !.pc = "readSub"] \in SubSlots /\ O!Become(r, [subReq[r] EXCEPT !.pc = "readSub"])
          /\ subReq'[r].pc = "readSub" /\ SubKnows(r)'
      BY <1>4, <2>1, <2>4 DEF OfTxn, O!PC
    <3>2. O!PaymentBacked'
      BY <1>2, <2>1, <2>2, <2>3, <2>4 DEF O!PaymentBacked
    <3>3. Follows(r)
      BY <3>1 DEF Follows
    <3>4. confirmed' = confirmed \cup {i}
      BY <2>1, <2>4
    <3>. QED
      BY <1>0, <1>1, <1>2, <2>1, <2>2, <2>3, <2>4, <3>1, <3>2, <3>3, <3>4
  <2>5. CASE new # "COMPLETED"
    BY <1>0, <1>2, <1>5, <2>1, <2>3, <2>5
  <2>. QED
    BY <2>4, <2>5
<1>12. CASE O!Activate(r)
  <2>1. /\ subReq[r].pc = "activate" /\ O!Goto(r, "onboard") /\ sub' = [sub EXCEPT !.status = "ACTIVE"]
        /\ activations' = activations + 1
        /\ UNCHANGED <<charges, paid, offered, txns, branches, early, confirmed, byHand, onboarded>>
    BY <1>12 DEF O!Activate, O!outside
  <2>2. confirmed # {}
    BY <1>0, <2>1 DEF SubKnows, Confirming
  <2>3. sub' \in [status : O!Status \cup {None}, cap : Caps \cup {0}] /\ sub'.status = "ACTIVE"
    BY <1>0, <2>1, Words
  <2>4. O!PaymentBacked' /\ Follows(r)
    BY <1>2, <2>1, <2>2, <2>3 DEF O!PaymentBacked, Follows
  <2>5. /\ [subReq[r] EXCEPT !.pc = "onboard"] \in SubSlots /\ O!Become(r, [subReq[r] EXCEPT !.pc = "onboard"])
        /\ SubKnows(r)'
    BY <1>4, <2>1, <2>2 DEF OfTxn, Confirming, O!PC
  <2>6. sub'.status # None /\ activations' \in Nat
    BY <1>2, <2>1, <2>3, Words
  <2>. QED
    BY <1>0, <1>1, <1>2, <2>1, <2>3, <2>4, <2>5, <2>6
<1>13. CASE O!Onboard(r)
  <2>1. /\ subReq[r].pc = "onboard" /\ O!Finish(r) /\ onboarded' = TRUE
        /\ UNCHANGED <<charges, paid, offered, txns, sub, branches, early, confirmed, activations, byHand>>
    BY <1>13 DEF O!Onboard, O!outside, O!history
  <2>2. confirmed # {}
    BY <1>0, <2>1 DEF SubKnows, Confirming
  <2>3. O!PaymentBacked' /\ Follows(r)
    BY <1>2, <2>1, <2>2 DEF O!PaymentBacked, Follows
  <2>. QED
    BY <1>0, <1>1, <1>2, <1>3, <2>1, <2>3, Words
<1>14. CASE O!Update(r)
  <2>1. /\ subReq[r].pc = "update" /\ O!Finish(r) /\ sub' = [sub EXCEPT !.status = subReq[r].to]
        /\ byHand' = Append(byHand, subReq[r].to)
        /\ UNCHANGED <<charges, paid, offered, txns, branches, early, confirmed, activations, onboarded>>
    BY <1>14 DEF O!Update, O!outside
  <2>2. subReq[r].to \in O!Status \ {"PENDING_PAYMENT"}
    BY <1>0, <2>1 DEF SubKnows
  <2>3. sub' \in [status : O!Status \cup {None}, cap : Caps \cup {0}] /\ sub'.status = subReq[r].to
    BY <1>0, <2>1, <2>2
  <2>4. byHand' \in Seq(O!Status) /\ byHand' # <<>>
    BY <1>2, <2>1, <2>2
  <2>5. O!PaymentBacked' /\ Follows(r)
    BY <1>2, <2>1, <2>2, <2>3, <2>4 DEF O!PaymentBacked, Follows
  <2>6. sub'.status # None
    BY <2>2, <2>3
  <2>. QED
    BY <1>0, <1>1, <1>2, <1>3, <2>1, <2>3, <2>4, <2>5, <2>6, Words
<1>15. CASE O!SetPlan(r)
  <2>1. /\ subReq[r].pc = "setPlan" /\ O!Finish(r) /\ sub' = [sub EXCEPT !.cap = subReq[r].cap]
        /\ UNCHANGED <<charges, paid, offered, txns, branches, early, confirmed, activations, byHand, onboarded>>
    BY <1>15 DEF O!SetPlan, O!outside, O!history
  <2>2. subReq[r].cap \in Caps \cup {0}
    BY <1>0 DEF SubSlots
  <2>3. sub' \in [status : O!Status \cup {None}, cap : Caps \cup {0}] /\ sub'.status = sub.status
    BY <1>0, <2>1, <2>2
  <2>4. O!PaymentBacked' /\ Follows(r)
    BY <1>2, <2>1, <2>3 DEF O!PaymentBacked, Follows
  <2>. QED
    BY <1>0, <1>1, <1>2, <1>3, <2>1, <2>3, <2>4, Words
<1>16. CASE O!InsertBranch(r)
  <2>1. /\ subReq[r].pc = "insertBranch" /\ O!Finish(r) /\ branches < MaxBranches /\ branches' = branches + 1
        /\ UNCHANGED <<charges, paid, offered, txns, sub, early, confirmed, activations, byHand, onboarded>>
    BY <1>16 DEF O!InsertBranch, O!outside, O!history
  <2>2. branches' \in 0..MaxBranches
    BY <1>2, <2>1
  <2>. QED
    BY <1>0, <1>2, <1>5, <2>1, <2>2
<1>. QED
  BY <1>6, <1>7, <1>8, <1>9, <1>10, <1>11, <1>12, <1>13, <1>14, <1>15, <1>16

\* The payer pays, gives up, or has a payment reversed.
LEMMA DecideStep == ASSUME Numbers, SubInv, NEW i \in DOMAIN txns, O!Decide(i) PROVE SubInv'
<1>1. /\ i \in offered /\ UNCHANGED <<O!rows, offered, O!history, subReq, overlaps, arrived, subCrashes>>
      /\ charges \in [1..MaxTransactions -> O!Charges] /\ i \in 1..MaxTransactions
      /\ paid \subseteq offered
  <2>1. txns \in Seq(O!TxnStatus) /\ Len(txns) <= MaxTransactions
    BY DEF SubInv, O!TypeOK
  <2>2. i \in 1..MaxTransactions
    BY <2>1
  <2>. QED
    BY <2>2 DEF O!Decide, SubInv, O!TypeOK
<1>2. /\ charges' \in [1..MaxTransactions -> O!Charges]
      /\ paid \subseteq paid' /\ paid' \subseteq offered
      /\ \A j \in 1..MaxTransactions : charges'[j] = "COMPLETED" => charges[j] = "COMPLETED" \/ j \in paid'
  BY <1>1 DEF O!Decide, O!Charges
<1>3. O!TypeOK'
  BY <1>1, <1>2 DEF SubInv, O!TypeOK, O!rows, O!history
<1>4. \A r \in Clerks : SubKnows(r)'
  BY <1>1, <1>2 DEF SubInv, SubKnows, O!rows, O!history
<1>5. Paid'
  BY <1>1, <1>2 DEF SubInv, Paid, O!rows, O!history
<1>6. O!PaymentBacked' /\ O!ConfirmedActivates'
  BY <1>1, <1>2 DEF SubInv, O!PaymentBacked, O!ConfirmedActivates, O!rows, O!history
<1>. QED
  BY <1>3, <1>4, <1>5, <1>6 DEF SubInv

LEMMA SubInvStep == ASSUME Numbers, SubInv, [O!Next]_(O!vars) PROVE SubInv'
<1>1. CASE UNCHANGED O!vars
  BY <1>1 DEF SubInv, O!TypeOK, SubKnows, Paid, O!PaymentBacked, O!ConfirmedActivates, O!vars, O!rows, O!outside, O!history
<1>2. ASSUME NEW r \in Clerks, O!Proceed(r) PROVE SubInv'
  BY <1>2, ReadStep, WriteStep DEF O!Proceed
<1>3. ASSUME NEW r \in Clerks, O!Crash(r) PROVE SubInv'
  BY <1>3, ReadStep
<1>. QED
  BY <1>1, <1>2, <1>3, ArriveStep, DecideStep DEF O!Next

-----------------------------------------------------------------------------
(* The theorems                                                            *)

\* The inductive invariant holds in every behaviour.
THEOREM SubscriptionsInvariance == ASSUME Numbers PROVE O!Spec => []SubInv
<1>1. O!Init => SubInv
  BY InitSubInv
<1>2. SubInv /\ [O!Next]_(O!vars) => SubInv'
  BY SubInvStep
<1>. QED
  BY <1>1, <1>2, PTL DEF O!Spec

\* Every variable keeps its type.
THEOREM SubscriptionsTypeCorrect == ASSUME Numbers PROVE O!Spec => []O!TypeOK
<1>1. SubInv => O!TypeOK
  BY DEF SubInv
<1>. QED
  BY <1>1, SubscriptionsInvariance, PTL

\* However notifications repeat and requests race, a transaction says COMPLETED
\* only if it was paid, and nobody is let in without a payment but by hand
\* (reconcileTransactionStatus).
THEOREM PaymentsBackAccess == ASSUME Numbers PROVE O!Spec => []O!PaymentBacked
<1>1. SubInv => O!PaymentBacked
  BY DEF SubInv
<1>. QED
  BY <1>1, SubscriptionsInvariance, PTL

\* A confirmed payment does not leave the subscription waiting for one, unless a
\* request is about to activate it or one died (reconcileTransactionStatus).
THEOREM ConfirmationsActivate == ASSUME Numbers PROVE O!Spec => []O!ConfirmedActivates
<1>1. SubInv => O!ConfirmedActivates
  BY DEF SubInv
<1>. QED
  BY <1>1, SubscriptionsInvariance, PTL

-----------------------------------------------------------------------------
(* The invariant of staffing                                               *)

\* What the theorems about it assume of the constants.
StaffSizes ==
    /\ MaxLeaves \in Nat /\ MaxSwaps \in Nat /\ MaxSchedules \in Nat
    /\ MaxArrivals \in Nat /\ MaxCrashes \in Nat
    /\ Rosters \subseteq SUBSET Employees

StaffSlots == [pc : T!PC, of : Employees \cup {None}, to : Employees \cup {None},
               span : Spans \cup {None}, at : Nat, decision : T!Decisions \cup {None}]

\* The types, those of what requests carry among them.
StaffTyped == T!TypeOK /\ staffReq \in [Clerks -> StaffSlots]

\* What a request carries to its next call, whoever races it.
StaffKnows(r) ==
    LET q == staffReq[r] IN
    /\ q.pc \in {"clockOut", "policy", "clockIn", "insertLeave"} => q.of \in Employees
    /\ q.pc = "clockOut" => attendance[q.of] # "NONE"
    /\ q.pc = "insertLeave" => q.span \in Spans
    /\ q.pc = "decideLeave" => q.at \in DOMAIN leaves /\ q.decision \in T!Decisions
    /\ q.pc = "decideSwap" => q.at \in DOMAIN swaps /\ q.decision \in T!Decisions
    /\ q.pc \in {"targetAssignment", "pendingSwap", "insertSwap"} => q.of \in rostered /\ q.to \in Employees
    /\ q.pc \in {"pendingSwap", "insertSwap"} => q.to \in rostered
    /\ q.pc \in {"publish", "archive"} => q.at \in DOMAIN schedules

\* What it knows besides while no other request overlapped any.
StaffAlone(r) ==
    LET q == staffReq[r] IN
    /\ q.pc # "idle" => \A o \in Clerks \ {r} : staffReq[o].pc = "idle"
    /\ q.pc = "clockOut" => attendance[q.of] = "IN"
    /\ q.pc = "insertLeave" =>
           \A l \in DOMAIN leaves :
               leaves[l].of = q.of /\ T!Live(leaves[l]) => ~T!Share(leaves[l].span, q.span)
    /\ q.pc = "insertSwap" =>
           \A s \in DOMAIN swaps : swaps[s].of = q.of => swaps[s].status # "PENDING"
    /\ q.pc = "publish" => schedules[q.at].status = "DRAFT"

Carrying ==
    \A r \in Clerks : StaffKnows(r) /\ (~staffOverlaps => StaffAlone(r))

About(t, kind, k) == told[t].kind = kind /\ told[t].at = k

\* A row with this status was decided by one reviewer, who was told so, or not at all.
Decided(kind, k, status) ==
    /\ \A t \in DOMAIN told : About(t, kind, k) => told[t].decision = status
    /\ status # "PENDING" => \E t \in DOMAIN told : About(t, kind, k)
    /\ \A t, u \in DOMAIN told : About(t, kind, k) /\ About(u, kind, k) => t = u

\* Decisions are about rows there are, and every row is decided once.
Decideds ==
    /\ \A t \in DOMAIN told : \/ told[t].kind = "leave" /\ told[t].at \in DOMAIN leaves
                              \/ told[t].kind = "swap" /\ told[t].at \in DOMAIN swaps
    /\ \A l \in DOMAIN leaves : Decided("leave", l, leaves[l].status)
    /\ \A s \in DOMAIN swaps : Decided("swap", s, swaps[s].status)

\* Who is on a published roster was on one, a draft is as it was made; and unless
\* requests overlapped what RosterKept says of leaves, swaps and schedules.
Rostered ==
    /\ \A s \in DOMAIN swaps : {swaps[s].of, swaps[s].to} \subseteq rostered
    /\ archived \subseteq DOMAIN schedules
    /\ \A s \in DOMAIN schedules :
           /\ schedules[s].status = "PUBLISHED" => schedules[s].who \subseteq rostered
           /\ schedules[s].status = "DRAFT" => schedules[s].version = 1

Unspoiled ==
    /\ \A k, l \in DOMAIN leaves :
           k # l /\ leaves[k].of = leaves[l].of /\ T!Live(leaves[k]) /\ T!Live(leaves[l])
               => ~T!Share(leaves[k].span, leaves[l].span)
    /\ \A k, l \in DOMAIN swaps :
           swaps[k].status = "PENDING" /\ swaps[l].status = "PENDING" /\ swaps[k].of = swaps[l].of => k = l
    /\ \A s \in archived : schedules[s].status = "ARCHIVED"
    /\ \A s \in DOMAIN schedules : schedules[s].version <= 2

StaffInv ==
    /\ StaffTyped /\ Carrying /\ Decideds /\ T!ClockedInOrder
    /\ Rostered /\ (~staffOverlaps => Unspoiled)

USE DEF StaffSizes

-----------------------------------------------------------------------------

LEMMA StaffWords ==
  ASSUME StaffSizes
  PROVE  /\ T!Idle \in StaffSlots /\ T!Idle.pc = "idle"
         /\ T!Decisions = {"APPROVED", "REJECTED"}
  BY DEF T!Idle, StaffSlots, T!PC, T!Decisions

LEMMA InitStaffInv == ASSUME StaffSizes, T!Init PROVE StaffInv
<1>1. staffReq \in [Clerks -> StaffSlots] /\ \A r \in Clerks : staffReq[r] = T!Idle
  BY StaffWords DEF T!Init
<1>2. T!TypeOK
  <2>1. \A r \in Clerks : staffReq[r].pc \in T!PC
    BY <1>1 DEF StaffSlots
  <2>2. staffOverlaps \in BOOLEAN
    BY DEF T!Init
  <2>5. staffArrived \in 0..MaxArrivals /\ staffCrashes \in 0..MaxCrashes
    BY DEF T!Init
  <2>4. attendance \in [Employees -> {"NONE", "IN", "OUT"}] /\ clocked \in [Employees -> Nat]
    BY DEF T!Init
  <2>3. ASSUME NEW S PROVE <<>> \in Seq(S) /\ Len(<<>>) = 0
    OBVIOUS
  <2>. QED
    BY <2>1, <2>2, <2>3, <2>4, <2>5 DEF T!Init, T!TypeOK
<1>3. Carrying
  BY <1>1, StaffWords DEF Carrying, StaffKnows, StaffAlone
<1>4. Decideds /\ T!ClockedInOrder /\ Rostered /\ Unspoiled
  BY DEF T!Init, Decideds, T!ClockedInOrder, Rostered, Unspoiled
<1>. QED
  BY <1>1, <1>2, <1>3, <1>4 DEF StaffInv, StaffTyped

\* What a step leaves of the rows requests rely on.
Keeps ==
    /\ DOMAIN leaves \subseteq DOMAIN leaves' /\ DOMAIN swaps \subseteq DOMAIN swaps'
    /\ DOMAIN schedules \subseteq DOMAIN schedules' /\ rostered \subseteq rostered'
    /\ \A e \in Employees : attendance[e] # "NONE" => attendance'[e] # "NONE"

\* A step of a request that overlaps with none tells the others nothing new.
LEMMA StaffMoves ==
  ASSUME StaffInv, NEW r \in Clerks, NEW d \in StaffSlots,
         staffReq' = [staffReq EXCEPT ![r] = d], Keeps,
         ~staffOverlaps' => /\ ~staffOverlaps
                            /\ \/ staffReq[r].pc # "idle"
                               \/ \A q \in Clerks \ {r} : staffReq[q].pc = "idle",
         StaffKnows(r)',
         ~staffOverlaps' => d.pc = "idle" \/ StaffAlone(r)'
  PROVE  /\ Carrying' /\ staffReq' \in [Clerks -> StaffSlots]
         /\ \A q \in Clerks : staffReq'[q].pc \in T!PC
<1>1. staffReq \in [Clerks -> StaffSlots]
  BY DEF StaffInv, StaffTyped
<1>2. /\ staffReq' \in [Clerks -> StaffSlots] /\ staffReq'[r] = d
      /\ \A q \in Clerks \ {r} : staffReq'[q] = staffReq[q]
  BY <1>1
<1>3. \A q \in Clerks : staffReq'[q].pc \in T!PC
  BY <1>2 DEF StaffSlots
<1>4. \A q \in Clerks \ {r} : StaffKnows(q)'
  BY <1>2 DEF StaffInv, Carrying, StaffKnows, Keeps
<1>5. ASSUME ~staffOverlaps', NEW q \in Clerks \ {r}
      PROVE  staffReq'[q].pc = "idle"
  BY <1>2, <1>5 DEF StaffInv, Carrying, StaffAlone
<1>6. ASSUME ~staffOverlaps', NEW q \in Clerks PROVE StaffAlone(q)'
  <2>1. CASE q = r /\ d.pc # "idle"
    BY <1>6, <2>1
  <2>2. CASE staffReq'[q].pc = "idle"
    BY <2>2 DEF StaffAlone
  <2>. QED
    BY <1>2, <1>5, <1>6, <2>1, <2>2
<1>. QED
  BY <1>2, <1>3, <1>4, <1>6 DEF Carrying

\* A step that writes no row.
LEMMA StaffQuiet ==
  ASSUME StaffInv, NEW r \in Clerks, NEW d \in StaffSlots,
         staffReq' = [staffReq EXCEPT ![r] = d], UNCHANGED <<T!rows, T!history>>,
         staffOverlaps' \in BOOLEAN, staffArrived' \in 0..MaxArrivals, staffCrashes' \in 0..MaxCrashes,
         ~staffOverlaps' => /\ ~staffOverlaps
                            /\ \/ staffReq[r].pc # "idle"
                               \/ \A q \in Clerks \ {r} : staffReq[q].pc = "idle",
         StaffKnows(r)',
         ~staffOverlaps' => d.pc = "idle" \/ StaffAlone(r)'
  PROVE  StaffInv'
<1>1. UNCHANGED <<attendance, leaves, swaps, schedules, clocked, told, rostered, archived>>
  BY DEF T!rows, T!history
<1>2. Keeps
  BY <1>1 DEF Keeps
<1>3. /\ Carrying' /\ staffReq' \in [Clerks -> StaffSlots]
      /\ \A q \in Clerks : staffReq'[q].pc \in T!PC
  BY <1>2, StaffMoves
<1>4. StaffTyped'
  BY <1>1, <1>3 DEF StaffInv, StaffTyped, T!TypeOK
<1>5. Decideds' /\ T!ClockedInOrder' /\ Rostered'
  BY <1>1 DEF StaffInv, Decideds, Decided, About, T!ClockedInOrder, Rostered
<1>6. ~staffOverlaps' => Unspoiled'
  BY <1>1 DEF StaffInv, Unspoiled
<1>. QED
  BY <1>3, <1>4, <1>5, <1>6 DEF StaffInv

-----------------------------------------------------------------------------
(* The actions                                                             *)

\* A request arrives.
LEMMA StaffArrives == ASSUME StaffSizes, StaffInv, NEW r \in Clerks, T!Arrive(r) PROVE StaffInv'
<1>. DEFINE New(d) == staffReq'[r] = d /\ UNCHANGED <<T!rows, T!history>>
            Only == \A q \in Clerks \ {r} : staffReq'[q].pc = "idle"
<1>0. /\ staffReq \in [Clerks -> StaffSlots] /\ staffArrived \in 0..MaxArrivals
      /\ staffCrashes \in 0..MaxCrashes /\ staffOverlaps \in BOOLEAN
      /\ leaves \in Seq([of : Employees, span : Spans, status : T!Decisions \cup {"PENDING"}])
      /\ swaps \in Seq([of : Employees, to : Employees, status : T!Decisions \cup {"PENDING"}])
      /\ schedules \in Seq([who : Rosters, status : {"DRAFT", "PUBLISHED", "ARCHIVED"},
                            version : Nat \ {0}])
  BY DEF StaffInv, StaffTyped, T!TypeOK
<1>1. ASSUME NEW d \in StaffSlots, T!Start(r, d),
             New(d) => StaffKnows(r)', New(d) /\ Only => StaffAlone(r)'
      PROVE  StaffInv'
  <2>1. /\ staffReq' = [staffReq EXCEPT ![r] = d] /\ UNCHANGED <<T!rows, T!history>>
        /\ staffReq'[r] = d /\ \A q \in Clerks \ {r} : staffReq'[q] = staffReq[q]
        /\ staffCrashes' = staffCrashes
    BY <1>0, <1>1 DEF T!Start
  <2>2. staffArrived' \in 0..MaxArrivals
    BY <1>0, <1>1 DEF T!Start
  <2>3. /\ staffOverlaps' \in BOOLEAN
        /\ ~staffOverlaps' => ~staffOverlaps /\ \A q \in Clerks \ {r} : staffReq[q].pc = "idle"
    BY <1>0, <1>1 DEF T!Start
  <2>4. ~staffOverlaps' => StaffAlone(r)'
    <3>1. ~staffOverlaps' => Only
      BY <2>1, <2>3
    <3>. QED
      BY <1>1, <2>1, <3>1
  <2>5. StaffKnows(r)'
    BY <1>1, <2>1
  <2>. QED
    BY <1>0, <2>1, <2>2, <2>3, <2>4, <2>5, StaffQuiet
<1>2. ASSUME NEW e \in Employees, T!Clock(r, e) PROVE StaffInv'
  <2>. DEFINE p == IF attendance[e] = "IN" THEN "clockOut" ELSE "policy"
              d == [T!Idle EXCEPT !.of = e, !.pc = p]
  <2>1. d \in StaffSlots /\ d.pc = p /\ d.of = e
    BY StaffWords DEF StaffSlots, T!Idle, T!PC
  <2>2. T!Start(r, d)
    BY <1>2 DEF T!Clock
  <2>3. p \in {"clockOut", "policy"} /\ (p = "clockOut" => attendance[e] = "IN")
    OBVIOUS
  <2>. HIDE DEF p, d
  <2>4. New(d) => StaffKnows(r)'
    BY <2>1, <2>3 DEF StaffKnows, T!rows
  <2>5. New(d) /\ Only => StaffAlone(r)'
    BY <2>1, <2>3 DEF StaffAlone, T!rows
  <2>. QED
    BY <1>1, <2>1, <2>2, <2>4, <2>5
<1>3. ASSUME NEW e \in Employees, NEW span \in Spans, T!AskLeave(r, e, span) PROVE StaffInv'
  <2>. DEFINE d == [T!Idle EXCEPT !.pc = "insertLeave", !.of = e, !.span = span]
  <2>1. d \in StaffSlots /\ d.pc = "insertLeave" /\ d.of = e /\ d.span = span
    BY StaffWords DEF StaffSlots, T!Idle, T!PC
  <2>2. /\ T!Start(r, d)
        /\ \A l \in DOMAIN leaves :
               leaves[l].of = e /\ T!Live(leaves[l]) => ~T!Share(leaves[l].span, span)
    BY <1>3 DEF T!AskLeave
  <2>. HIDE DEF d
  <2>3. New(d) => StaffKnows(r)'
    BY <2>1 DEF StaffKnows
  <2>4. New(d) /\ Only => StaffAlone(r)'
    BY <2>1, <2>2 DEF StaffAlone, T!rows
  <2>. QED
    BY <1>1, <2>1, <2>2, <2>3, <2>4
<1>4. ASSUME NEW e \in Employees, NEW f \in Employees, T!AskSwap(r, e, f) PROVE StaffInv'
  <2>. DEFINE d == [T!Idle EXCEPT !.pc = "targetAssignment", !.of = e, !.to = f]
  <2>1. d \in StaffSlots /\ d.pc = "targetAssignment" /\ d.of = e /\ d.to = f
    BY StaffWords DEF StaffSlots, T!Idle, T!PC
  <2>2. T!Start(r, d) /\ e \in rostered
    BY <1>4 DEF T!AskSwap, T!Assigned, StaffInv, Rostered
  <2>. HIDE DEF d
  <2>3. New(d) => StaffKnows(r)'
    BY <2>1, <2>2 DEF StaffKnows, T!history
  <2>4. New(d) /\ Only => StaffAlone(r)'
    BY <2>1 DEF StaffAlone
  <2>. QED
    BY <1>1, <2>1, <2>2, <2>3, <2>4
<1>5. ASSUME NEW k \in Nat, NEW decision \in T!Decisions, NEW p \in {"decideLeave", "decideSwap"},
             T!Start(r, [T!Idle EXCEPT !.pc = p, !.at = k, !.decision = decision]),
             p = "decideLeave" => k \in DOMAIN leaves, p = "decideSwap" => k \in DOMAIN swaps
      PROVE  StaffInv'
  <2>. DEFINE d == [T!Idle EXCEPT !.pc = p, !.at = k, !.decision = decision]
  <2>1. d \in StaffSlots /\ d.pc = p /\ d.at = k /\ d.decision = decision
    BY StaffWords DEF StaffSlots, T!Idle, T!PC
  <2>2. T!Start(r, d)
    BY <1>5
  <2>. HIDE DEF d
  <2>3. New(d) => StaffKnows(r)'
    BY <1>5, <2>1 DEF StaffKnows, T!rows
  <2>4. New(d) /\ Only => StaffAlone(r)'
    BY <1>5, <2>1 DEF StaffAlone
  <2>. QED
    BY <1>1, <2>1, <2>2, <2>3, <2>4
<1>6. ASSUME NEW l \in DOMAIN leaves, NEW decision \in T!Decisions, T!ReviewLeave(r, l, decision)
      PROVE  StaffInv'
  <2>1. l \in Nat
    BY <1>0
  <2>. QED
    BY <1>5, <1>6, <2>1 DEF T!ReviewLeave
<1>7. ASSUME NEW s \in DOMAIN swaps, NEW decision \in T!Decisions, T!ReviewSwap(r, s, decision)
      PROVE  StaffInv'
  <2>1. s \in Nat
    BY <1>0
  <2>. QED
    BY <1>5, <1>7, <2>1 DEF T!ReviewSwap
<1>8. ASSUME NEW s \in DOMAIN schedules, T!PublishRead(r, s) \/ T!ArchiveRead(r, s) PROVE StaffInv'
  <2>0. s \in Nat
    BY <1>0
  <2>1. PICK p \in {"publish", "archive"} :
            /\ T!Start(r, [T!Idle EXCEPT !.pc = p, !.at = s])
            /\ p = "publish" => schedules[s].status = "DRAFT"
    BY <1>8 DEF T!PublishRead, T!ArchiveRead
  <2>. DEFINE d == [T!Idle EXCEPT !.pc = p, !.at = s]
  <2>2. d \in StaffSlots /\ d.pc = p /\ d.at = s
    BY <2>0, StaffWords DEF StaffSlots, T!Idle, T!PC
  <2>3. T!Start(r, d)
    BY <2>1
  <2>. HIDE DEF d
  <2>4. New(d) => StaffKnows(r)'
    BY <2>1, <2>2 DEF StaffKnows, T!rows
  <2>5. New(d) /\ Only => StaffAlone(r)'
    BY <2>1, <2>2 DEF StaffAlone, T!rows
  <2>. QED
    BY <1>1, <2>2, <2>3, <2>4, <2>5
<1>. QED
  BY <1>2, <1>3, <1>4, <1>6, <1>7, <1>8 DEF T!Arrive

\* A request that reads goes on or is refused; one dies.
LEMMA StaffReads ==
  ASSUME StaffSizes, StaffInv, NEW r \in Clerks,
         \/ T!ReadPolicy(r) \/ T!TargetAssignment(r) \/ T!PendingSwap(r) \/ T!Crash(r)
  PROVE  StaffInv'
<1>0. /\ staffReq \in [Clerks -> StaffSlots] /\ staffReq[r] \in StaffSlots
      /\ staffArrived \in 0..MaxArrivals /\ staffCrashes \in 0..MaxCrashes /\ staffOverlaps \in BOOLEAN
  BY DEF StaffInv, StaffTyped, T!TypeOK
<1>1. ASSUME NEW q, q \in {"clockIn", "pendingSwap", "insertSwap"},
             T!Goto(r, q), staffReq[r].pc # "idle",
             staffReq'[r] = [staffReq[r] EXCEPT !.pc = q] /\ UNCHANGED <<T!rows, T!history>>
                 => StaffKnows(r)',
             q = "insertSwap" => \A s \in DOMAIN swaps :
                                     swaps[s].of = staffReq[r].of => swaps[s].status # "PENDING"
      PROVE  StaffInv'
  <2>. DEFINE d == [staffReq[r] EXCEPT !.pc = q]
  <2>1. q \in T!PC
    BY <1>1 DEF T!PC
  <2>2. d \in StaffSlots /\ d.pc = q /\ d.of = staffReq[r].of
    BY <1>0, <2>1 DEF StaffSlots
  <2>3. /\ staffReq' = [staffReq EXCEPT ![r] = d]
        /\ UNCHANGED <<T!rows, T!history, staffOverlaps, staffArrived, staffCrashes>>
    BY <1>1 DEF T!Goto
  <2>. HIDE DEF d
  <2>4. staffReq'[r] = d /\ \A o \in Clerks \ {r} : staffReq'[o] = staffReq[o]
    BY <1>0, <2>2, <2>3
  <2>5. StaffKnows(r)'
    BY <1>1, <2>3, <2>4 DEF d
  <2>6. ~staffOverlaps => StaffAlone(r)'
    <3>1. ~staffOverlaps => \A o \in Clerks \ {r} : staffReq'[o].pc = "idle"
      BY <1>1, <2>4 DEF StaffInv, Carrying, StaffAlone
    <3>. QED
      BY <1>1, <2>2, <2>3, <2>4, <3>1 DEF StaffAlone, T!rows
  <2>. QED
    BY <1>0, <1>1, <2>2, <2>3, <2>5, <2>6, StaffQuiet
<1>2. ASSUME staffReq' = [staffReq EXCEPT ![r] = T!Idle], staffReq[r].pc # "idle",
             UNCHANGED <<T!rows, T!history, staffOverlaps, staffArrived>>,
             staffCrashes' \in 0..MaxCrashes
      PROVE  StaffInv'
  <2>1. staffReq'[r] = T!Idle
    BY <1>0, <1>2
  <2>2. StaffKnows(r)'
    BY <2>1, StaffWords DEF StaffKnows
  <2>. QED
    BY <1>0, <1>2, <2>2, StaffWords, StaffQuiet
<1>3. CASE T!ReadPolicy(r)
  <2>1. staffReq[r].pc = "policy" /\ T!Goto(r, "clockIn") /\ staffReq[r].of \in Employees
    BY <1>3 DEF T!ReadPolicy, StaffInv, Carrying, StaffKnows
  <2>2. staffReq'[r] = [staffReq[r] EXCEPT !.pc = "clockIn"] => StaffKnows(r)'
    BY <1>0, <2>1 DEF StaffKnows, StaffSlots
  <2>. QED
    BY <1>1, <2>1, <2>2
<1>4. CASE T!TargetAssignment(r)
  <2>1. CASE T!Refuse(r)
    BY <1>0, <1>2, <1>4, <2>1 DEF T!TargetAssignment, T!Refuse, T!Finish
  <2>2. CASE T!Assigned(staffReq[r].to) /\ T!Goto(r, "pendingSwap")
    <3>1. /\ staffReq[r].pc = "targetAssignment" /\ staffReq[r].of \in rostered
          /\ staffReq[r].to \in rostered /\ staffReq[r].to \in Employees
      BY <1>4, <2>2 DEF T!TargetAssignment, T!Assigned, StaffInv, Carrying, StaffKnows, Rostered
    <3>2. staffReq'[r] = [staffReq[r] EXCEPT !.pc = "pendingSwap"] /\ UNCHANGED T!history => StaffKnows(r)'
      BY <1>0, <3>1 DEF StaffKnows, StaffSlots, T!history
    <3>. QED
      BY <1>1, <2>2, <3>1, <3>2
  <2>. QED
    BY <1>4, <2>1, <2>2 DEF T!TargetAssignment
<1>5. CASE T!PendingSwap(r)
  <2>1. CASE T!Refuse(r)
    BY <1>0, <1>2, <1>5, <2>1 DEF T!PendingSwap, T!Refuse, T!Finish
  <2>2. CASE /\ T!Goto(r, "insertSwap")
             /\ \A s \in DOMAIN swaps : swaps[s].of = staffReq[r].of => swaps[s].status # "PENDING"
    <3>1. /\ staffReq[r].pc = "pendingSwap" /\ staffReq[r].of \in rostered
          /\ staffReq[r].to \in rostered /\ staffReq[r].to \in Employees
      BY <1>5 DEF T!PendingSwap, StaffInv, Carrying, StaffKnows
    <3>2. staffReq'[r] = [staffReq[r] EXCEPT !.pc = "insertSwap"] /\ UNCHANGED T!history => StaffKnows(r)'
      BY <1>0, <3>1 DEF StaffKnows, StaffSlots, T!history
    <3>. QED
      BY <1>1, <2>2, <3>1, <3>2
  <2>. QED
    BY <1>5, <2>1, <2>2 DEF T!PendingSwap
<1>6. CASE T!Crash(r)
  <2>1. staffCrashes' \in 0..MaxCrashes
    BY <1>0, <1>6 DEF T!Crash
  <2>. QED
    BY <1>2, <1>6, <2>1 DEF T!Crash
<1>. QED
  BY <1>3, <1>4, <1>5, <1>6

\* A request makes its write and is answered.
LEMMA StaffWrites ==
  ASSUME StaffSizes, StaffInv, NEW r \in Clerks, T!Finish(r), staffReq[r].pc # "idle", Keeps
  PROVE  /\ Carrying' /\ staffReq' \in [Clerks -> StaffSlots]
         /\ \A q \in Clerks : staffReq'[q].pc \in T!PC
         /\ UNCHANGED <<staffOverlaps, staffArrived, staffCrashes>>
<1>1. /\ staffReq' = [staffReq EXCEPT ![r] = T!Idle]
      /\ UNCHANGED <<staffOverlaps, staffArrived, staffCrashes>>
  BY DEF T!Finish
<1>2. staffReq'[r] = T!Idle
  BY <1>1 DEF StaffInv, StaffTyped
<1>3. StaffKnows(r)'
  BY <1>2, StaffWords DEF StaffKnows
<1>. QED
  BY <1>1, <1>3, StaffWords, StaffMoves

\* The parts of the invariant that rest on rows a step leaves alone.
LEMMA StaffFrame ==
  ASSUME StaffInv
  PROVE  /\ UNCHANGED <<leaves, swaps, told>> => Decideds'
         /\ UNCHANGED <<attendance, clocked, staffOverlaps>> => T!ClockedInOrder'
         /\ UNCHANGED <<swaps, schedules, rostered, archived>> => Rostered'
         /\ UNCHANGED <<leaves, swaps, schedules, archived, staffOverlaps>>
                => (~staffOverlaps' => Unspoiled')
<1>1. UNCHANGED <<leaves, swaps, told>> => Decideds'
  BY DEF StaffInv, Decideds, Decided, About
<1>2. UNCHANGED <<attendance, clocked, staffOverlaps>> => T!ClockedInOrder'
  BY DEF StaffInv, T!ClockedInOrder
<1>3. UNCHANGED <<swaps, schedules, rostered, archived>> => Rostered'
  BY DEF StaffInv, Rostered
<1>4. UNCHANGED <<leaves, swaps, schedules, archived, staffOverlaps>>
          => (~staffOverlaps' => Unspoiled')
  BY DEF StaffInv, Unspoiled
<1>. QED
  BY <1>1, <1>2, <1>3, <1>4

\* What an append leaves and adds.
LEMMA AddedRow ==
  ASSUME NEW S, NEW rows \in Seq(S), NEW row \in S, NEW n \in Nat, Len(rows) < n
  PROVE  LET new == Append(rows, row) IN
         /\ new \in Seq(S) /\ Len(new) <= n /\ Len(new) = Len(rows) + 1
         /\ DOMAIN new = DOMAIN rows \cup {Len(rows) + 1} /\ Len(rows) + 1 \notin DOMAIN rows
         /\ new[Len(rows) + 1] = row /\ \A i \in DOMAIN rows : new[i] = rows[i]
  OBVIOUS

\* Somebody clocks in or out.
LEMMA StaffClocks ==
  ASSUME StaffSizes, StaffInv, NEW r \in Clerks, T!ClockOut(r) \/ T!ClockIn(r)
  PROVE  StaffInv'
<1>. DEFINE e == staffReq[r].of
<1>0. /\ attendance \in [Employees -> {"NONE", "IN", "OUT"}] /\ clocked \in [Employees -> Nat]
      /\ e \in Employees /\ staffReq[r].pc \in {"clockOut", "clockIn"}
      /\ staffReq[r].pc = "clockOut" => attendance[e] # "NONE" /\ (~staffOverlaps => attendance[e] = "IN")
      /\ attendance[e] = "NONE" <=> clocked[e] = 0
      /\ attendance[e] = "IN" <=> clocked[e] = 1
  BY DEF StaffInv, StaffTyped, T!TypeOK, Carrying, StaffKnows, StaffAlone, T!ClockedInOrder,
         T!ClockOut, T!ClockIn
<1>1. /\ T!Finish(r) /\ UNCHANGED <<leaves, swaps, schedules, told, rostered, archived>>
      /\ \/ UNCHANGED <<attendance, clocked>>
         \/ \E to \in {"IN", "OUT"} :
                /\ attendance' = [attendance EXCEPT ![e] = to]
                /\ clocked' = [clocked EXCEPT ![e] = clocked[e] + 1]
                /\ to = "IN" => attendance[e] = "NONE"
                /\ to = "OUT" => staffReq[r].pc = "clockOut"
  BY <1>0 DEF T!ClockOut, T!ClockIn
<1>2. /\ attendance' \in [Employees -> {"NONE", "IN", "OUT"}] /\ clocked' \in [Employees -> Nat]
      /\ \A f \in Employees : attendance[f] # "NONE" => attendance'[f] # "NONE"
  BY <1>0, <1>1
<1>3. Keeps
  BY <1>1, <1>2 DEF Keeps
<1>4. /\ Carrying' /\ staffReq' \in [Clerks -> StaffSlots]
      /\ \A q \in Clerks : staffReq'[q].pc \in T!PC
      /\ UNCHANGED <<staffOverlaps, staffArrived, staffCrashes>>
  BY <1>0, <1>1, <1>3, StaffWrites
<1>5. StaffTyped'
  BY <1>1, <1>2, <1>4 DEF StaffInv, StaffTyped, T!TypeOK
<1>6. T!ClockedInOrder'
  <2>1. CASE UNCHANGED <<attendance, clocked>>
    BY <1>4, <2>1, StaffFrame
  <2>2. ASSUME NEW to \in {"IN", "OUT"},
               attendance' = [attendance EXCEPT ![e] = to],
               clocked' = [clocked EXCEPT ![e] = clocked[e] + 1],
               to = "IN" => attendance[e] = "NONE", to = "OUT" => staffReq[r].pc = "clockOut"
        PROVE  T!ClockedInOrder'
    <3>1. /\ attendance'[e] = to /\ clocked'[e] = clocked[e] + 1 /\ clocked[e] \in Nat
          /\ \A f \in Employees \ {e} : attendance'[f] = attendance[f] /\ clocked'[f] = clocked[f]
      BY <1>0, <2>2
    <3>2. /\ to = "IN" => clocked[e] = 0
          /\ to = "OUT" => clocked[e] > 0 /\ (~staffOverlaps => clocked[e] = 1)
      BY <1>0, <2>2, <3>1
    <3>. HIDE DEF e
    <3>3. \A f \in Employees \ {e} : /\ attendance'[f] = "NONE" <=> clocked'[f] = 0
                                     /\ attendance'[f] = "IN" <=> clocked'[f] = 1
                                     /\ ~staffOverlaps' => clocked'[f] <= 2
      BY <1>4, <3>1 DEF StaffInv, T!ClockedInOrder
    <3>4. /\ attendance'[e] = "NONE" <=> clocked'[e] = 0
          /\ attendance'[e] = "IN" <=> clocked'[e] = 1
          /\ ~staffOverlaps' => clocked'[e] <= 2
      BY <1>4, <3>1, <3>2
    <3>. QED
      BY <3>3, <3>4 DEF T!ClockedInOrder
  <2>. QED
    BY <1>1, <2>1, <2>2
<1>. QED
  BY <1>1, <1>4, <1>5, <1>6, StaffFrame DEF StaffInv

\* A leave is asked for.
LEMMA StaffLeaves == ASSUME StaffSizes, StaffInv, NEW r \in Clerks, T!InsertLeave(r) PROVE StaffInv'
<1>. DEFINE q == staffReq[r]
            Leaves == [of : Employees, span : Spans, status : T!Decisions \cup {"PENDING"}]
            row == [of |-> q.of, span |-> q.span, status |-> "PENDING"]
            n == Len(leaves) + 1
<1>1. /\ T!Finish(r) /\ q.pc = "insertLeave" /\ leaves' = Append(leaves, row) /\ Len(leaves) < MaxLeaves
      /\ UNCHANGED <<attendance, swaps, schedules, clocked, told, rostered, archived>>
  BY DEF T!InsertLeave, T!history
<1>2. row \in Leaves /\ leaves \in Seq(Leaves)
  BY <1>1 DEF StaffInv, StaffTyped, T!TypeOK, Carrying, StaffKnows
<1>3. /\ leaves' \in Seq(Leaves) /\ Len(leaves') <= MaxLeaves
      /\ DOMAIN leaves' = DOMAIN leaves \cup {n} /\ n \notin DOMAIN leaves
      /\ leaves'[n] = row /\ \A l \in DOMAIN leaves : leaves'[l] = leaves[l]
  BY <1>1, <1>2, AddedRow
<1>4. ~staffOverlaps => \A l \in DOMAIN leaves :
          leaves[l].of = q.of /\ T!Live(leaves[l]) => ~T!Share(leaves[l].span, q.span)
  BY <1>1 DEF StaffInv, Carrying, StaffAlone
<1>5. row.of = q.of /\ row.span = q.span /\ row.status = "PENDING"
  OBVIOUS
<1>. HIDE DEF row, n
<1>6. Keeps
  BY <1>1, <1>3 DEF Keeps
<1>7. /\ Carrying' /\ staffReq' \in [Clerks -> StaffSlots]
      /\ \A o \in Clerks : staffReq'[o].pc \in T!PC
      /\ UNCHANGED <<staffOverlaps, staffArrived, staffCrashes>>
  BY <1>1, <1>6, StaffWrites
<1>8. StaffTyped'
  BY <1>1, <1>3, <1>7 DEF StaffInv, StaffTyped, T!TypeOK
<1>9. Decideds'
  <2>1. \A t \in DOMAIN told : ~About(t, "leave", n)
    BY <1>3 DEF StaffInv, Decideds, About
  <2>2. Decided("leave", n, "PENDING")
    BY <2>1 DEF Decided
  <2>. QED
    BY <1>1, <1>3, <1>5, <2>2 DEF StaffInv, Decideds, Decided, About
<1>10. ~staffOverlaps' => Unspoiled'
  <2>1. SUFFICES ASSUME ~staffOverlaps PROVE Unspoiled'
    BY <1>7
  <2>2. \A l \in DOMAIN leaves : leaves[l].of = row.of /\ T!Live(leaves[l])
            => ~T!Share(leaves[l].span, row.span) /\ ~T!Share(row.span, leaves[l].span)
    BY <1>4, <1>5, <2>1 DEF T!Share
  <2>. QED
    BY <1>1, <1>3, <2>1, <2>2 DEF StaffInv, Unspoiled
<1>. QED
  BY <1>1, <1>7, <1>8, <1>9, <1>10, StaffFrame DEF StaffInv

\* A swap is asked for.
LEMMA StaffSwaps == ASSUME StaffSizes, StaffInv, NEW r \in Clerks, T!InsertSwap(r) PROVE StaffInv'
<1>. DEFINE q == staffReq[r]
            Swaps == [of : Employees, to : Employees, status : T!Decisions \cup {"PENDING"}]
            row == [of |-> q.of, to |-> q.to, status |-> "PENDING"]
            n == Len(swaps) + 1
<1>1. /\ T!Finish(r) /\ q.pc = "insertSwap" /\ swaps' = Append(swaps, row) /\ Len(swaps) < MaxSwaps
      /\ UNCHANGED <<attendance, leaves, schedules, clocked, told, rostered, archived>>
  BY DEF T!InsertSwap, T!history
<1>2. /\ q.of \in rostered /\ q.to \in rostered
      /\ ~staffOverlaps => \A s \in DOMAIN swaps : swaps[s].of = q.of => swaps[s].status # "PENDING"
  BY <1>1 DEF StaffInv, Carrying, StaffKnows, StaffAlone
<1>3. row \in Swaps /\ swaps \in Seq(Swaps)
  BY <1>2 DEF StaffInv, StaffTyped, T!TypeOK
<1>4. /\ swaps' \in Seq(Swaps) /\ Len(swaps') <= MaxSwaps
      /\ DOMAIN swaps' = DOMAIN swaps \cup {n} /\ n \notin DOMAIN swaps
      /\ swaps'[n] = row /\ \A s \in DOMAIN swaps : swaps'[s] = swaps[s]
  BY <1>1, <1>3, AddedRow
<1>5. row.of = q.of /\ row.to = q.to /\ row.status = "PENDING"
  OBVIOUS
<1>. HIDE DEF row, n
<1>6. Keeps
  BY <1>1, <1>4 DEF Keeps
<1>7. /\ Carrying' /\ staffReq' \in [Clerks -> StaffSlots]
      /\ \A o \in Clerks : staffReq'[o].pc \in T!PC
      /\ UNCHANGED <<staffOverlaps, staffArrived, staffCrashes>>
  BY <1>1, <1>6, StaffWrites
<1>8. StaffTyped'
  BY <1>1, <1>4, <1>7 DEF StaffInv, StaffTyped, T!TypeOK
<1>9. Decideds'
  <2>1. \A t \in DOMAIN told : ~About(t, "swap", n)
    BY <1>4 DEF StaffInv, Decideds, About
  <2>2. Decided("swap", n, "PENDING")
    BY <2>1 DEF Decided
  <2>. QED
    BY <1>1, <1>4, <1>5, <2>2 DEF StaffInv, Decideds, Decided, About
<1>10. Rostered'
  BY <1>1, <1>2, <1>4, <1>5 DEF StaffInv, Rostered
<1>11. ~staffOverlaps' => Unspoiled'
  BY <1>1, <1>2, <1>4, <1>5, <1>7 DEF StaffInv, Unspoiled
<1>. QED
  BY <1>1, <1>7, <1>8, <1>9, <1>10, <1>11, StaffFrame DEF StaffInv

\* A row of a sequence.
LEMMA RowOf ==
  ASSUME NEW S, NEW rows \in Seq(S), NEW k \in DOMAIN rows
  PROVE  rows[k] \in S /\ k \in Nat
  OBVIOUS

\* A decision of a row that was PENDING is the only one about it.
LEMMA ToldOnce ==
  ASSUME StaffInv, NEW kind \in {"leave", "swap"}, NEW k \in Nat, NEW decision \in T!Decisions,
         told' = Append(told, [kind |-> kind, at |-> k, decision |-> decision]),
         Decided(kind, k, "PENDING")
  PROVE  /\ told' \in Seq([kind : {"leave", "swap"}, at : Nat, decision : T!Decisions])
         /\ Decided(kind, k, decision)'
         /\ \A other, at, status : <<other, at>> # <<kind, k>> /\ Decided(other, at, status)
                => Decided(other, at, status)'
         /\ \A t \in DOMAIN told' : \/ t \in DOMAIN told /\ told'[t] = told[t]
                                    \/ told'[t].kind = kind /\ told'[t].at = k
<1>. DEFINE Tellings == [kind : {"leave", "swap"}, at : Nat, decision : T!Decisions]
            row == [kind |-> kind, at |-> k, decision |-> decision]
            n == Len(told) + 1
<1>1. told \in Seq(Tellings) /\ row \in Tellings
  BY DEF StaffInv, StaffTyped, T!TypeOK
<1>2. row.kind = kind /\ row.at = k /\ row.decision = decision
  OBVIOUS
<1>. HIDE DEF row
<1>3. told' = Append(told, row)
  BY DEF row
<1>4. /\ told' \in Seq(Tellings)
      /\ DOMAIN told' = DOMAIN told \cup {n} /\ n \notin DOMAIN told
      /\ told'[n] = row /\ \A t \in DOMAIN told : told'[t] = told[t]
  BY <1>1, <1>3, AppendProperties
<1>. HIDE DEF n
<1>5. \A t \in DOMAIN told : ~About(t, kind, k)
  <2>1. \A t \in DOMAIN told : told[t] \in Tellings
    BY <1>1, RowOf
  <2>2. \A t \in DOMAIN told : told[t].decision # "PENDING"
    BY <2>1 DEF T!Decisions
  <2>. QED
    BY <2>2 DEF Decided
<1>6. \A t \in DOMAIN told' : About(t, kind, k)' <=> t = n
  BY <1>2, <1>4, <1>5 DEF About
<1>7. Decided(kind, k, decision)'
  BY <1>2, <1>4, <1>6 DEF Decided
<1>8. ASSUME NEW other, NEW at, NEW status, <<other, at>> # <<kind, k>>, Decided(other, at, status)
      PROVE  Decided(other, at, status)'
  BY <1>2, <1>4, <1>8 DEF Decided, About
<1>9. \A t \in DOMAIN told' : \/ t \in DOMAIN told /\ told'[t] = told[t]
                              \/ told'[t].kind = kind /\ told'[t].at = k
  BY <1>2, <1>4
<1>. QED
  BY <1>4, <1>7, <1>8, <1>9

\* What an update of one row leaves.
LEMMA SetRow ==
  ASSUME NEW S, NEW rows \in Seq(S), NEW i \in DOMAIN rows, NEW row \in S
  PROVE  LET new == [rows EXCEPT ![i] = row] IN
         /\ new \in Seq(S) /\ Len(new) = Len(rows) /\ DOMAIN new = DOMAIN rows
         /\ new[i] = row /\ \A j \in DOMAIN rows \ {i} : new[j] = rows[j]
  OBVIOUS

\* A leave is decided.
LEMMA LeaveDecided == ASSUME StaffSizes, StaffInv, NEW r \in Clerks, T!DecideLeave(r) PROVE StaffInv'
<1>0. PICK k, decision : k = staffReq[r].at /\ decision = staffReq[r].decision
  OBVIOUS
<1>. DEFINE Leaves == [of : Employees, span : Spans, status : T!Decisions \cup {"PENDING"}]
            row == [leaves[k] EXCEPT !.status = decision]
<1>1. /\ staffReq[r].pc = "decideLeave" /\ T!Finish(r)
      /\ UNCHANGED <<attendance, swaps, schedules, clocked, rostered, archived>>
      /\ \/ UNCHANGED <<leaves, told>>
         \/ /\ leaves[k].status = "PENDING" /\ leaves' = [leaves EXCEPT ![k] = row]
            /\ told' = Append(told, [kind |-> "leave", at |-> k, decision |-> decision])
  BY <1>0 DEF T!DecideLeave
<1>2. k \in DOMAIN leaves /\ decision \in T!Decisions /\ leaves \in Seq(Leaves)
  BY <1>0, <1>1 DEF StaffInv, StaffTyped, T!TypeOK, Carrying, StaffKnows
<1>3. /\ row \in Leaves /\ row.of = leaves[k].of /\ row.span = leaves[k].span /\ row.status = decision
      /\ k \in Nat
  <2>1. leaves[k] \in Leaves /\ k \in Nat
    BY <1>2, RowOf
  <2>. QED
    BY <1>2, <2>1
<1>. HIDE DEF row
<1>4. /\ leaves' \in Seq(Leaves) /\ Len(leaves') = Len(leaves) /\ DOMAIN leaves' = DOMAIN leaves
      /\ \A l \in DOMAIN leaves : /\ leaves'[l].of = leaves[l].of /\ leaves'[l].span = leaves[l].span
                                  /\ l # k => leaves'[l] = leaves[l]
                                  /\ T!Live(leaves'[l]) => T!Live(leaves[l])
  <2>1. CASE UNCHANGED leaves
    BY <1>2, <2>1
  <2>2. CASE leaves[k].status = "PENDING" /\ leaves' = [leaves EXCEPT ![k] = row]
    BY <1>2, <1>3, <2>2, SetRow DEF T!Live
  <2>. QED
    BY <1>1, <2>1, <2>2
<1>5. Keeps
  BY <1>1, <1>4 DEF Keeps
<1>6. /\ Carrying' /\ staffReq' \in [Clerks -> StaffSlots]
      /\ \A o \in Clerks : staffReq'[o].pc \in T!PC
      /\ UNCHANGED <<staffOverlaps, staffArrived, staffCrashes>>
  BY <1>1, <1>5, StaffWrites
<1>7. Decideds' /\ told' \in Seq([kind : {"leave", "swap"}, at : Nat, decision : T!Decisions])
  <2>1. CASE UNCHANGED <<leaves, told>>
    BY <1>1, <2>1, StaffFrame DEF StaffInv, StaffTyped, T!TypeOK
  <2>2. CASE /\ leaves[k].status = "PENDING" /\ leaves' = [leaves EXCEPT ![k] = row]
             /\ told' = Append(told, [kind |-> "leave", at |-> k, decision |-> decision])
    <3>1. Decided("leave", k, "PENDING")
      BY <1>2, <2>2 DEF StaffInv, Decideds
    <3>2. /\ told' \in Seq([kind : {"leave", "swap"}, at : Nat, decision : T!Decisions])
          /\ Decided("leave", k, decision)'
          /\ \A other, at, status : <<other, at>> # <<"leave", k>> /\ Decided(other, at, status)
                => Decided(other, at, status)'
          /\ \A t \in DOMAIN told' : \/ t \in DOMAIN told /\ told'[t] = told[t]
                                     \/ told'[t].kind = "leave" /\ told'[t].at = k
      BY <1>2, <1>3, <2>2, <3>1, ToldOnce
    <3>3. leaves'[k].status = decision
      BY <1>2, <1>3, <2>2, SetRow
    <3>4. (\A l \in DOMAIN leaves : Decided("leave", l, leaves[l].status))'
      BY <1>4, <3>2, <3>3 DEF StaffInv, Decideds
    <3>5. (\A s \in DOMAIN swaps : Decided("swap", s, swaps[s].status))'
      BY <1>1, <3>2 DEF StaffInv, Decideds
    <3>6. \A t \in DOMAIN told' : \/ told'[t].kind = "leave" /\ told'[t].at \in DOMAIN leaves'
                                  \/ told'[t].kind = "swap" /\ told'[t].at \in DOMAIN swaps'
      BY <1>1, <1>2, <1>4, <3>2 DEF StaffInv, Decideds
    <3>. QED
      BY <3>2, <3>4, <3>5, <3>6 DEF Decideds
  <2>. QED
    BY <1>1, <2>1, <2>2
<1>8. StaffTyped'
  BY <1>1, <1>4, <1>6, <1>7 DEF StaffInv, StaffTyped, T!TypeOK
<1>9. ~staffOverlaps' => Unspoiled'
  BY <1>1, <1>4, <1>6 DEF StaffInv, Unspoiled
<1>. QED
  BY <1>1, <1>6, <1>7, <1>8, <1>9, StaffFrame DEF StaffInv

\* A swap is decided.
LEMMA SwapDecided == ASSUME StaffSizes, StaffInv, NEW r \in Clerks, T!DecideSwap(r) PROVE StaffInv'
<1>0. PICK k, decision : k = staffReq[r].at /\ decision = staffReq[r].decision
  OBVIOUS
<1>. DEFINE Swaps == [of : Employees, to : Employees, status : T!Decisions \cup {"PENDING"}]
            row == [swaps[k] EXCEPT !.status = decision]
<1>1. /\ staffReq[r].pc = "decideSwap" /\ T!Finish(r)
      /\ UNCHANGED <<attendance, leaves, schedules, clocked, rostered, archived>>
      /\ \/ UNCHANGED <<swaps, told>>
         \/ /\ swaps[k].status = "PENDING" /\ swaps' = [swaps EXCEPT ![k] = row]
            /\ told' = Append(told, [kind |-> "swap", at |-> k, decision |-> decision])
  BY <1>0 DEF T!DecideSwap
<1>2. k \in DOMAIN swaps /\ decision \in T!Decisions /\ swaps \in Seq(Swaps)
  BY <1>0, <1>1 DEF StaffInv, StaffTyped, T!TypeOK, Carrying, StaffKnows
<1>3. /\ row \in Swaps /\ row.of = swaps[k].of /\ row.to = swaps[k].to /\ row.status = decision
      /\ k \in Nat
  <2>1. swaps[k] \in Swaps /\ k \in Nat
    BY <1>2, RowOf
  <2>. QED
    BY <1>2, <2>1
<1>. HIDE DEF row
<1>4. /\ swaps' \in Seq(Swaps) /\ Len(swaps') = Len(swaps) /\ DOMAIN swaps' = DOMAIN swaps
      /\ \A s \in DOMAIN swaps : /\ swaps'[s].of = swaps[s].of /\ swaps'[s].to = swaps[s].to
                                 /\ s # k => swaps'[s] = swaps[s]
                                 /\ swaps'[s].status = "PENDING" => swaps[s].status = "PENDING"
  <2>1. CASE UNCHANGED swaps
    BY <1>2, <2>1
  <2>2. CASE swaps[k].status = "PENDING" /\ swaps' = [swaps EXCEPT ![k] = row]
    BY <1>2, <1>3, <2>2, SetRow
  <2>. QED
    BY <1>1, <2>1, <2>2
<1>5. Keeps
  BY <1>1, <1>4 DEF Keeps
<1>6. /\ Carrying' /\ staffReq' \in [Clerks -> StaffSlots]
      /\ \A o \in Clerks : staffReq'[o].pc \in T!PC
      /\ UNCHANGED <<staffOverlaps, staffArrived, staffCrashes>>
  BY <1>1, <1>5, StaffWrites
<1>7. Decideds' /\ told' \in Seq([kind : {"leave", "swap"}, at : Nat, decision : T!Decisions])
  <2>1. CASE UNCHANGED <<swaps, told>>
    BY <1>1, <2>1, StaffFrame DEF StaffInv, StaffTyped, T!TypeOK
  <2>2. CASE /\ swaps[k].status = "PENDING" /\ swaps' = [swaps EXCEPT ![k] = row]
             /\ told' = Append(told, [kind |-> "swap", at |-> k, decision |-> decision])
    <3>1. Decided("swap", k, "PENDING")
      BY <1>2, <2>2 DEF StaffInv, Decideds
    <3>2. /\ told' \in Seq([kind : {"leave", "swap"}, at : Nat, decision : T!Decisions])
          /\ Decided("swap", k, decision)'
          /\ \A other, at, status : <<other, at>> # <<"swap", k>> /\ Decided(other, at, status)
                => Decided(other, at, status)'
          /\ \A t \in DOMAIN told' : \/ t \in DOMAIN told /\ told'[t] = told[t]
                                     \/ told'[t].kind = "swap" /\ told'[t].at = k
      BY <1>2, <1>3, <2>2, <3>1, ToldOnce
    <3>3. swaps'[k].status = decision
      BY <1>2, <1>3, <2>2, SetRow
    <3>4. (\A s \in DOMAIN swaps : Decided("swap", s, swaps[s].status))'
      BY <1>4, <3>2, <3>3 DEF StaffInv, Decideds
    <3>5. (\A l \in DOMAIN leaves : Decided("leave", l, leaves[l].status))'
      BY <1>1, <3>2 DEF StaffInv, Decideds
    <3>6. \A t \in DOMAIN told' : \/ told'[t].kind = "leave" /\ told'[t].at \in DOMAIN leaves'
                                  \/ told'[t].kind = "swap" /\ told'[t].at \in DOMAIN swaps'
      BY <1>1, <1>2, <1>4, <3>2 DEF StaffInv, Decideds
    <3>. QED
      BY <3>2, <3>4, <3>5, <3>6 DEF Decideds
  <2>. QED
    BY <1>1, <2>1, <2>2
<1>8. StaffTyped'
  BY <1>1, <1>4, <1>6, <1>7 DEF StaffInv, StaffTyped, T!TypeOK
<1>9. Rostered'
  BY <1>1, <1>4 DEF StaffInv, Rostered
<1>10. ~staffOverlaps' => Unspoiled'
  BY <1>1, <1>4, <1>6 DEF StaffInv, Unspoiled
<1>. QED
  BY <1>1, <1>6, <1>7, <1>8, <1>9, <1>10, StaffFrame DEF StaffInv

\* What a schedule's rows keep while one is made, published or archived.
LEMMA StaffSchedules ==
  ASSUME StaffSizes, StaffInv, NEW r \in Clerks, T!Publish(r) \/ T!Archive(r)
  PROVE  StaffInv'
<1>0. PICK k : k = staffReq[r].at
  OBVIOUS
<1>. DEFINE Schedules == [who : Rosters, status : {"DRAFT", "PUBLISHED", "ARCHIVED"}, version : Nat \ {0}]
<1>1. /\ T!Finish(r) /\ staffReq[r].pc \in {"publish", "archive"}
      /\ UNCHANGED <<attendance, leaves, swaps, clocked, told>>
  BY DEF T!Publish, T!Archive
<1>2. /\ k \in DOMAIN schedules /\ schedules \in Seq(Schedules)
      /\ ~staffOverlaps /\ staffReq[r].pc = "publish" => schedules[k].status = "DRAFT"
  BY <1>0, <1>1 DEF StaffInv, StaffTyped, T!TypeOK, Carrying, StaffKnows, StaffAlone
<1>3. schedules[k] \in Schedules /\ k \in Nat
  BY <1>2, RowOf
<1>4. PICK row \in Schedules :
          /\ schedules' = [schedules EXCEPT ![k] = row] /\ row.who = schedules[k].who
          /\ \/ /\ staffReq[r].pc = "publish" /\ row.status = "PUBLISHED"
                /\ row.version = schedules[k].version + 1
                /\ rostered' = rostered \cup schedules[k].who /\ archived' = archived
             \/ /\ row.status = "ARCHIVED" /\ row.version = schedules[k].version
                /\ rostered' = rostered /\ archived' = archived \cup {k}
  <2>1. CASE T!Publish(r)
    <3>. DEFINE row == [schedules[k] EXCEPT !.status = "PUBLISHED", !.version = schedules[k].version + 1]
    <3>1. schedules[k].version + 1 \in Nat \ {0}
      BY <1>3
    <3>2. /\ row \in Schedules /\ row.who = schedules[k].who /\ row.status = "PUBLISHED"
          /\ row.version = schedules[k].version + 1
      BY <1>3, <3>1
    <3>3. /\ schedules' = [schedules EXCEPT ![k] = row] /\ staffReq[r].pc = "publish"
          /\ rostered' = rostered \cup schedules[k].who /\ archived' = archived
      BY <1>0, <1>2, <2>1 DEF T!Publish
    <3>. HIDE DEF row
    <3>. QED
      BY <3>2, <3>3
  <2>2. CASE T!Archive(r)
    <3>. DEFINE row == [schedules[k] EXCEPT !.status = "ARCHIVED"]
    <3>1. /\ row \in Schedules /\ row.who = schedules[k].who /\ row.status = "ARCHIVED"
          /\ row.version = schedules[k].version
      BY <1>3
    <3>2. /\ schedules' = [schedules EXCEPT ![k] = row]
          /\ rostered' = rostered /\ archived' = archived \cup {k}
      BY <1>0, <2>2 DEF T!Archive
    <3>. HIDE DEF row
    <3>. QED
      BY <3>1, <3>2
  <2>. QED
    BY <2>1, <2>2
<1>5. /\ schedules' \in Seq(Schedules) /\ Len(schedules') = Len(schedules)
      /\ DOMAIN schedules' = DOMAIN schedules /\ schedules'[k] = row
      /\ \A s \in DOMAIN schedules \ {k} : schedules'[s] = schedules[s]
  BY <1>2, <1>4, SetRow
<1>6. /\ rostered' \subseteq Employees /\ archived' \subseteq 1..MaxSchedules
      /\ rostered \subseteq rostered' /\ Len(schedules') <= MaxSchedules
  <2>1. schedules[k].who \subseteq Employees
    BY <1>3
  <2>2. k \in 1..MaxSchedules
    BY <1>2 DEF StaffInv, StaffTyped, T!TypeOK
  <2>. QED
    BY <1>4, <1>5, <2>1, <2>2 DEF StaffInv, StaffTyped, T!TypeOK
<1>7. Keeps
  BY <1>1, <1>5, <1>6 DEF Keeps
<1>8. /\ Carrying' /\ staffReq' \in [Clerks -> StaffSlots]
      /\ \A o \in Clerks : staffReq'[o].pc \in T!PC
      /\ UNCHANGED <<staffOverlaps, staffArrived, staffCrashes>>
  BY <1>1, <1>7, StaffWrites
<1>9. StaffTyped'
  BY <1>1, <1>5, <1>6, <1>8 DEF StaffInv, StaffTyped, T!TypeOK
<1>10. Rostered'
  <2>1. \A s \in DOMAIN swaps' : {swaps'[s].of, swaps'[s].to} \subseteq rostered'
    BY <1>1, <1>6 DEF StaffInv, Rostered
  <2>2. archived' \subseteq DOMAIN schedules'
    BY <1>2, <1>4, <1>5 DEF StaffInv, Rostered
  <2>3. \A s \in DOMAIN schedules' \ {k} :
            /\ schedules'[s].status = "PUBLISHED" => schedules'[s].who \subseteq rostered'
            /\ schedules'[s].status = "DRAFT" => schedules'[s].version = 1
    BY <1>5, <1>6 DEF StaffInv, Rostered
  <2>4. row.status # "DRAFT" /\ (row.status = "PUBLISHED" => row.who \subseteq rostered')
    BY <1>4
  <2>. QED
    BY <1>5, <2>1, <2>2, <2>3, <2>4 DEF Rostered
<1>11. ~staffOverlaps' => Unspoiled'
  <2>1. SUFFICES ASSUME ~staffOverlaps PROVE Unspoiled'
    BY <1>8
  <2>2. /\ schedules[k].status = "DRAFT" => schedules[k].version = 1
        /\ \A s \in archived : schedules[s].status = "ARCHIVED"
        /\ \A s \in DOMAIN schedules : schedules[s].version <= 2
        /\ archived \subseteq DOMAIN schedules
    BY <1>2, <2>1 DEF StaffInv, Rostered, Unspoiled
  <2>3. row.version <= 2
    BY <1>2, <1>4, <2>1, <2>2
  <2>4. k \in archived' => row.status = "ARCHIVED"
    BY <1>2, <1>4, <2>1, <2>2
  <2>5. archived' \subseteq archived \cup {k}
    BY <1>4
  <2>6. \A s \in archived' : schedules'[s].status = "ARCHIVED"
    BY <1>5, <2>2, <2>4, <2>5
  <2>7. \A s \in DOMAIN schedules' : schedules'[s].version <= 2
    BY <1>5, <2>2, <2>3
  <2>. QED
    BY <1>1, <2>1, <2>6, <2>7 DEF StaffInv, Unspoiled
<1>. QED
  BY <1>1, <1>8, <1>9, <1>10, <1>11, StaffFrame DEF StaffInv

\* A schedule is made.
LEMMA ScheduleMade == ASSUME StaffSizes, StaffInv, NEW who \in Rosters, T!CreateSchedule(who) PROVE StaffInv'
<1>. DEFINE Schedules == [who : Rosters, status : {"DRAFT", "PUBLISHED", "ARCHIVED"}, version : Nat \ {0}]
            row == [who |-> who, status |-> "DRAFT", version |-> 1]
            n == Len(schedules) + 1
<1>1. /\ schedules' = Append(schedules, row) /\ Len(schedules) < MaxSchedules
      /\ UNCHANGED <<attendance, leaves, swaps, clocked, told, rostered, archived,
                     staffReq, staffOverlaps, staffCrashes>>
      /\ staffArrived' \in 0..MaxArrivals
  <2>1. staffArrived' \in 0..MaxArrivals
    BY DEF StaffInv, StaffTyped, T!TypeOK, T!CreateSchedule
  <2>. QED
    BY <2>1 DEF T!CreateSchedule, T!history
<1>2. row \in Schedules /\ schedules \in Seq(Schedules)
  BY DEF StaffInv, StaffTyped, T!TypeOK
<1>3. row.status = "DRAFT" /\ row.version = 1
  OBVIOUS
<1>. HIDE DEF row
<1>4. /\ schedules' \in Seq(Schedules) /\ Len(schedules') <= MaxSchedules
      /\ DOMAIN schedules' = DOMAIN schedules \cup {n} /\ n \notin DOMAIN schedules
      /\ schedules'[n] = row /\ \A s \in DOMAIN schedules : schedules'[s] = schedules[s]
  BY <1>1, <1>2, AddedRow
<1>. HIDE DEF n
<1>5. StaffTyped'
  BY <1>1, <1>4 DEF StaffInv, StaffTyped, T!TypeOK
<1>6. Carrying'
  BY <1>1, <1>4 DEF StaffInv, Carrying, StaffKnows, StaffAlone
<1>7. Rostered'
  BY <1>1, <1>3, <1>4 DEF StaffInv, Rostered
<1>8. ~staffOverlaps' => Unspoiled'
  BY <1>1, <1>3, <1>4 DEF StaffInv, Rostered, Unspoiled
<1>. QED
  BY <1>1, <1>5, <1>6, <1>7, <1>8, StaffFrame DEF StaffInv

LEMMA StaffInvStep == ASSUME StaffSizes, StaffInv, [T!Next]_(T!vars) PROVE StaffInv'
<1>1. CASE UNCHANGED T!vars
  <2>1. UNCHANGED <<attendance, leaves, swaps, schedules, clocked, told, rostered, archived,
                    staffReq, staffOverlaps, staffArrived, staffCrashes>>
    BY <1>1 DEF T!vars, T!rows, T!history
  <2>2. StaffTyped' /\ Carrying'
    BY <2>1 DEF StaffInv, StaffTyped, T!TypeOK, Carrying, StaffKnows, StaffAlone
  <2>. QED
    BY <2>1, <2>2, StaffFrame DEF StaffInv
<1>2. ASSUME NEW r \in Clerks, T!Proceed(r) PROVE StaffInv'
  BY <1>2, StaffReads, StaffClocks, StaffLeaves, StaffSwaps, LeaveDecided, SwapDecided, StaffSchedules
     DEF T!Proceed
<1>3. ASSUME NEW r \in Clerks, T!Crash(r) PROVE StaffInv'
  BY <1>3, StaffReads
<1>. QED
  BY <1>1, <1>2, <1>3, StaffArrives, ScheduleMade DEF T!Next

\* The cardinality of Staffing is that of the theorems about finite sets.
LEMMA SameCardinality == ASSUME NEW S PROVE T!Cardinality(S) = Cardinality(S)
  BY DEF T!Cardinality, Cardinality

DecisionsOf(kind, k) == {t \in DOMAIN told : told[t].kind = kind /\ told[t].at = k}

\* How many decisions there are about a row, and which.
LEMMA DecisionsCounted ==
  ASSUME StaffInv, NEW kind, NEW k, NEW status \in T!Decisions \cup {"PENDING"}, Decided(kind, k, status)
  PROVE  /\ T!Cardinality(DecisionsOf(kind, k))
                = IF status = "PENDING" THEN 0 ELSE 1
         /\ \A t \in DecisionsOf(kind, k) : told[t].decision = status
<1>. DEFINE D == DecisionsOf(kind, k)
<1>1. \A t \in D : told[t].decision = status
  BY DEF Decided, About, DecisionsOf
<1>2. CASE status = "PENDING"
  <2>1. \A t \in DOMAIN told : told[t].decision \in T!Decisions
    <3>1. \A t \in DOMAIN told : told[t] \in [kind : {"leave", "swap"}, at : Nat, decision : T!Decisions]
      BY RowOf DEF StaffInv, StaffTyped, T!TypeOK
    <3>. QED
      BY <3>1
  <2>2. D = {}
    BY <1>1, <1>2, <2>1 DEF T!Decisions, DecisionsOf
  <2>. QED
    BY <1>1, <1>2, <2>2, FS_EmptySet, SameCardinality
<1>3. CASE status # "PENDING"
  <2>1. PICK t \in D : TRUE
    BY <1>3 DEF Decided, About, DecisionsOf
  <2>2. D = {t}
    BY <2>1 DEF Decided, About, DecisionsOf
  <2>. HIDE DEF D
  <2>3. T!Cardinality(D) = 1
    BY <2>2, FS_Singleton, SameCardinality
  <2>. QED
    BY <1>1, <1>3, <2>3 DEF D
<1>. QED
  BY <1>2, <1>3

\* The invariant implies what must hold.
LEMMA StaffHolds == ASSUME StaffSizes, StaffInv PROVE T!StaffingAgrees
<1>1. T!ReviewedOnce
  <2>1. \A l \in DOMAIN leaves : leaves[l].status \in T!Decisions \cup {"PENDING"}
    <3>1. \A l \in DOMAIN leaves :
              leaves[l] \in [of : Employees, span : Spans, status : T!Decisions \cup {"PENDING"}]
      BY RowOf DEF StaffInv, StaffTyped, T!TypeOK
    <3>. QED
      BY <3>1
  <2>2. \A s \in DOMAIN swaps : swaps[s].status \in T!Decisions \cup {"PENDING"}
    <3>1. \A s \in DOMAIN swaps :
              swaps[s] \in [of : Employees, to : Employees, status : T!Decisions \cup {"PENDING"}]
      BY RowOf DEF StaffInv, StaffTyped, T!TypeOK
    <3>. QED
      BY <3>1
  <2>3. /\ \A l \in DOMAIN leaves : Decided("leave", l, leaves[l].status)
        /\ \A s \in DOMAIN swaps : Decided("swap", s, swaps[s].status)
    BY DEF StaffInv, Decideds
  <2>4. ASSUME NEW l \in DOMAIN leaves
        PROVE  /\ T!Cardinality(DecisionsOf("leave", l))
                      = IF leaves[l].status = "PENDING" THEN 0 ELSE 1
               /\ \A t \in DecisionsOf("leave", l) :
                      told[t].decision = leaves[l].status
    BY <2>1, <2>3, DecisionsCounted
  <2>5. ASSUME NEW s \in DOMAIN swaps
        PROVE  /\ T!Cardinality(DecisionsOf("swap", s))
                      = IF swaps[s].status = "PENDING" THEN 0 ELSE 1
               /\ \A t \in DecisionsOf("swap", s) :
                      told[t].decision = swaps[s].status
    BY <2>2, <2>3, DecisionsCounted
  <2>. QED
    BY <2>4, <2>5 DEF T!ReviewedOnce, DecisionsOf
<1>2. T!RosterKept
  <2>1. ASSUME ~staffOverlaps, NEW e \in Employees
        PROVE  T!Cardinality({s \in DOMAIN swaps : swaps[s].of = e /\ swaps[s].status = "PENDING"}) <= 1
    <3>. DEFINE D == {s \in DOMAIN swaps : swaps[s].of = e /\ swaps[s].status = "PENDING"}
    <3>1. D = {} \/ \E s \in D : D = {s}
      BY <2>1 DEF StaffInv, Unspoiled
    <3>. HIDE DEF D
    <3>2. T!Cardinality(D) \in {0, 1}
      BY <3>1, FS_EmptySet, FS_Singleton, SameCardinality
    <3>. QED
      BY <3>2 DEF D
  <2>2. \A s \in DOMAIN swaps : {swaps[s].of, swaps[s].to} \subseteq rostered
    BY DEF StaffInv, Rostered
  <2>3. ~staffOverlaps => Unspoiled
    BY DEF StaffInv
  <2>. QED
    BY <2>1, <2>2, <2>3 DEF Unspoiled, T!RosterKept
<1>. QED
  BY <1>1, <1>2 DEF StaffInv, T!StaffingAgrees

\* The inductive invariant holds in every behaviour.
THEOREM StaffingInvariance == ASSUME StaffSizes PROVE T!Spec => []StaffInv
<1>1. T!Init => StaffInv
  BY InitStaffInv
<1>2. StaffInv /\ [T!Next]_(T!vars) => StaffInv'
  BY StaffInvStep
<1>. QED
  BY <1>1, <1>2, PTL DEF T!Spec

\* Every variable keeps its type.
THEOREM StaffingTypeCorrect == ASSUME StaffSizes PROVE T!Spec => []T!TypeOK
<1>1. StaffInv => T!TypeOK
  BY DEF StaffInv, StaffTyped
<1>. QED
  BY <1>1, StaffingInvariance, PTL

\* However reviewers race, a leave or a swap is decided once and one of them is
\* told so (reviewLeaveRequest, approveShiftSwap); nobody clocks in twice, and a
\* swap is between people who were on a published roster; and unless requests
\* overlapped no two live leaves share a day and what was archived stays so.
THEOREM StaffingIsRight == ASSUME StaffSizes PROVE T!Spec => []T!StaffingAgrees
<1>1. StaffInv => T!StaffingAgrees
  BY StaffHolds
<1>. QED
  BY <1>1, StaffingInvariance, PTL

-----------------------------------------------------------------------------
(* The invariant of onboarding                                             *)

\* What the theorems about it assume of the constants: the payment is not a
\* step that somebody saves.
BoardSizes ==
    /\ MaxBranches \in Nat /\ MaxInvitations \in Nat /\ MaxArrivals \in Nat /\ MaxCrashes \in Nat
    /\ "subscriptionPaid" \notin Saves

BoardSlots == [pc : N!PC, step : N!Steps \cup {None}, email : Emails \cup {None}, at : 0..MaxInvitations]

InvitationRows == [email : Emails, status : N!InvitationStatus]

\* What a request carries to its next call, whoever races it.
BoardKnows(r) ==
    LET q == boardReq[r] IN
    /\ q.pc \in {"branch", "supersede", "invite", "mark"} => q.step \in N!Steps \ {"subscriptionPaid"}
    /\ q.pc = "branch" => q.step = "firstBranchCreated"
    /\ q.pc \in {"supersede", "invite"} => q.email \in Emails
    /\ q.pc = "complete" => done = N!Steps
    /\ q.pc \in {"resend", "revoke", "expire", "accept"} => q.at \in DOMAIN invitations

\* What it knows besides while no other request overlapped any.
BoardAlone(r) ==
    LET q == boardReq[r] IN
    /\ q.pc # "idle" => \A o \in Clerks \ {r} : boardReq[o].pc = "idle"
    /\ q.pc = "branch" /\ boardCrashes = 0 => firstBranches = 0
    /\ q.pc = "invite" =>
           \A i \in DOMAIN invitations : invitations[i].email = q.email => invitations[i].status # "PENDING"
    /\ q.pc \in {"resend", "revoke"} => invitations[q.at].status \notin {"ACCEPTED", "REVOKED"}
    /\ q.pc \in {"expire", "accept"} => invitations[q.at].status = "PENDING"

BoardCarrying ==
    \A r \in Clerks : BoardKnows(r) /\ (~boardOverlaps => BoardAlone(r))

\* The steps are done when the onboarding is complete, the payment once there was
\* one, and when they are somebody is about to notice.
StepsDone == ("subscriptionPaid" \in done => firstPaid) /\ N!CompletesWhenDone

\* The branch is marked, or about to be.
BranchMarked ==
    boardCrashes = 0 /\ firstBranches # 0 =>
        \/ "firstBranchCreated" \in done
        \/ \E r \in Clerks : boardReq[r].pc = "mark" /\ boardReq[r].step = "firstBranchCreated"

\* At most one invitation is open to each, and what was accepted stays so.
OpenOnce ==
    \A i, j \in DOMAIN invitations :
        invitations[i].email = invitations[j].email /\ invitations[i].email \notin revived
            /\ invitations[i].status = "PENDING" /\ invitations[j].status = "PENDING" => i = j

Kept == \A i \in accepted : invitations[i].status = "ACCEPTED"

\* What is so while no other request overlapped any.
Orderly ==
    /\ BranchMarked /\ (boardCrashes = 0 => firstBranches <= 1)
    /\ OpenOnce /\ Kept

BoardInv ==
    /\ N!TypeOK /\ BoardCarrying /\ StepsDone
    /\ (~boardOverlaps => Orderly)

USE DEF BoardSizes

-----------------------------------------------------------------------------

LEMMA BoardWords ==
  ASSUME BoardSizes
  PROVE  /\ N!Idle \in BoardSlots /\ N!Idle.pc = "idle"
         /\ "firstBranchCreated" \in N!Steps \ {"subscriptionPaid"}
         /\ "teamInvited" \in N!Steps \ {"subscriptionPaid"}
         /\ "organizationCreated" \in N!Steps \ {"subscriptionPaid"}
         /\ Saves \subseteq N!Steps \ {"subscriptionPaid"} /\ "subscriptionPaid" \in N!Steps
  BY DEF N!Idle, BoardSlots, N!PC, N!Steps

LEMMA InitBoardInv == ASSUME BoardSizes, N!Init PROVE BoardInv
<1>1. boardReq \in [Clerks -> BoardSlots] /\ \A r \in Clerks : boardReq[r] = N!Idle
  BY BoardWords DEF N!Init
<1>2. N!TypeOK
  <2>1. ASSUME NEW S PROVE <<>> \in Seq(S) /\ Len(<<>>) = 0
    OBVIOUS
  <2>2. invitations \in Seq(InvitationRows) /\ Len(invitations) <= MaxInvitations
    BY <2>1 DEF N!Init
  <2>3. boardReq \in [Clerks -> BoardSlots]
    BY <1>1
  <2>4. /\ exists \in BOOLEAN /\ done \subseteq N!Steps /\ completed \in BOOLEAN
        /\ firstPaid \in BOOLEAN /\ paidLast \in BOOLEAN /\ boardOverlaps \in BOOLEAN
        /\ lapsed \subseteq DOMAIN invitations /\ accepted \subseteq DOMAIN invitations
        /\ revived \subseteq Emails
    BY Zenon DEF N!Init
  <2>5. firstBranches \in 0..MaxBranches
    BY DEF N!Init
  <2>6. boardArrived \in 0..MaxArrivals /\ boardCrashes \in 0..MaxCrashes
    BY DEF N!Init
  <2>. QED
    BY <2>2, <2>3, <2>4, <2>5, <2>6 DEF N!TypeOK, BoardSlots, InvitationRows
<1>3. BoardCarrying
  BY <1>1, BoardWords DEF BoardCarrying, BoardKnows, BoardAlone
<1>4. StepsDone
  BY BoardWords DEF N!Init, StepsDone, N!CompletesWhenDone
<1>5. Orderly
  BY DEF N!Init, Orderly, BranchMarked, OpenOnce, Kept
<1>. QED
  BY <1>2, <1>3, <1>4, <1>5 DEF BoardInv

\* The types, as the proofs use them.
LEMMA BoardTypes ==
  ASSUME BoardSizes, BoardInv
  PROVE  /\ boardReq \in [Clerks -> BoardSlots]
         /\ invitations \in Seq(InvitationRows) /\ Len(invitations) <= MaxInvitations
         /\ DOMAIN invitations = 1..Len(invitations) /\ Len(invitations) \in Nat
         /\ DOMAIN invitations \subseteq 0..MaxInvitations
         /\ \A i \in DOMAIN invitations : invitations[i] \in InvitationRows
         /\ done \subseteq N!Steps /\ exists \in BOOLEAN /\ completed \in BOOLEAN
         /\ firstBranches \in 0..MaxBranches
         /\ lapsed \subseteq DOMAIN invitations /\ accepted \subseteq DOMAIN invitations
         /\ firstPaid \in BOOLEAN /\ revived \subseteq Emails /\ paidLast \in BOOLEAN
         /\ boardOverlaps \in BOOLEAN /\ boardArrived \in 0..MaxArrivals /\ boardCrashes \in 0..MaxCrashes
<1>1. invitations \in Seq(InvitationRows) /\ Len(invitations) <= MaxInvitations
  BY DEF BoardInv, N!TypeOK, InvitationRows
<1>2. \A i \in DOMAIN invitations : invitations[i] \in InvitationRows
  BY <1>1, RowOf
<1>3. /\ DOMAIN invitations = 1..Len(invitations) /\ Len(invitations) \in Nat
      /\ DOMAIN invitations \subseteq 0..MaxInvitations
  BY <1>1
<1>. QED
  BY <1>1, <1>2, <1>3 DEF BoardInv, N!TypeOK, BoardSlots

\* What a step leaves of the rows requests rely on.
BoardKeeps ==
    DOMAIN invitations \subseteq DOMAIN invitations' /\ done \subseteq done' /\ done' \subseteq N!Steps

\* A request enters only where no other is, unless requests overlap.
Enters(r) ==
    ~boardOverlaps' => /\ ~boardOverlaps
                       /\ \/ boardReq[r].pc # "idle"
                          \/ \A q \in Clerks \ {r} : boardReq[q].pc = "idle"

\* A step of a request that overlaps with none tells the others nothing new.
LEMMA BoardMoves ==
  ASSUME BoardSizes, BoardInv, NEW r \in Clerks, NEW d \in BoardSlots,
         boardReq' = [boardReq EXCEPT ![r] = d], BoardKeeps, Enters(r), BoardKnows(r)',
         ~boardOverlaps' => d.pc = "idle" \/ BoardAlone(r)'
  PROVE  BoardCarrying' /\ boardReq' \in [Clerks -> BoardSlots]
<1>1. boardReq \in [Clerks -> BoardSlots]
  BY BoardTypes
<1>2. /\ boardReq' \in [Clerks -> BoardSlots] /\ boardReq'[r] = d
      /\ \A q \in Clerks \ {r} : boardReq'[q] = boardReq[q]
  BY <1>1
<1>4. ASSUME NEW q \in Clerks \ {r} PROVE BoardKnows(q)'
  <2>1. boardReq'[q] = boardReq[q] /\ BoardKnows(q)
    BY <1>2 DEF BoardInv, BoardCarrying
  <2>. QED
    BY <2>1 DEF BoardKnows, BoardKeeps
<1>5. ASSUME ~boardOverlaps', NEW q \in Clerks \ {r}
      PROVE  boardReq'[q].pc = "idle"
  BY <1>2, <1>5 DEF BoardInv, BoardCarrying, BoardAlone, Enters
<1>6. ASSUME ~boardOverlaps', NEW q \in Clerks PROVE BoardAlone(q)'
  <2>1. CASE q = r /\ d.pc # "idle"
    BY <1>6, <2>1
  <2>2. CASE boardReq'[q].pc = "idle"
    BY <2>2 DEF BoardAlone
  <2>. QED
    BY <1>2, <1>5, <1>6, <2>1, <2>2
<1>. QED
  BY <1>2, <1>4, <1>6 DEF BoardCarrying

\* A step that marks nothing and ends no mark or check, or that dies.
LEMMA BoardStill ==
  ASSUME BoardSizes, BoardInv, NEW r \in Clerks, NEW d \in BoardSlots,
         boardReq' = [boardReq EXCEPT ![r] = d],
         UNCHANGED <<done, completed, firstPaid, paidLast>>,
         \/ boardCrashes' = boardCrashes /\ boardReq[r].pc \notin {"check", "complete", "mark"}
         \/ boardCrashes' = boardCrashes + 1
  PROVE  StepsDone' /\ (BranchMarked /\ firstBranches' = firstBranches => BranchMarked')
<1>1. boardReq \in [Clerks -> BoardSlots] /\ boardCrashes \in Nat
  BY BoardTypes
<1>2. StepsDone
  BY DEF BoardInv
<1>3. CASE boardCrashes' = boardCrashes + 1
  <2>1. boardCrashes' > 0 /\ boardCrashes' # 0
    BY <1>1, <1>3
  <2>. QED
    BY <1>2, <2>1 DEF StepsDone, N!CompletesWhenDone, BranchMarked
<1>4. CASE boardCrashes' = boardCrashes /\ boardReq[r].pc \notin {"check", "complete", "mark"}
  <2>1. \A q \in Clerks : boardReq[q].pc \in {"check", "complete", "mark"} => boardReq'[q] = boardReq[q]
    BY <1>1, <1>4
  <2>2. StepsDone'
    BY <1>2, <1>4, <2>1 DEF StepsDone, N!CompletesWhenDone
  <2>3. BranchMarked /\ firstBranches' = firstBranches => BranchMarked'
    BY <1>4, <2>1 DEF BranchMarked
  <2>. QED
    BY <2>2, <2>3
<1>. QED
  BY <1>3, <1>4

\* A step that writes nothing but perhaps the row of the progress.
LEMMA BoardQuiet ==
  ASSUME BoardSizes, BoardInv, NEW r \in Clerks, NEW d \in BoardSlots,
         boardReq' = [boardReq EXCEPT ![r] = d],
         UNCHANGED <<done, completed, firstBranches, invitations, lapsed, N!history>>,
         exists' \in BOOLEAN, boardOverlaps' \in BOOLEAN,
         boardArrived' \in 0..MaxArrivals, boardCrashes' \in 0..MaxCrashes,
         boardCrashes' = 0 => boardCrashes = 0,
         Enters(r), BoardKnows(r)', ~boardOverlaps' => d.pc = "idle" \/ BoardAlone(r)',
         StepsDone', BranchMarked => BranchMarked'
  PROVE  BoardInv'
<1>1. UNCHANGED <<done, completed, firstBranches, invitations, lapsed, firstPaid, accepted, revived, paidLast>>
  BY DEF N!history
<1>2. BoardKeeps
  BY <1>1, BoardTypes DEF BoardKeeps
<1>3. BoardCarrying' /\ boardReq' \in [Clerks -> BoardSlots]
  BY <1>2, BoardMoves
<1>4. N!TypeOK'
  BY <1>1, <1>3 DEF BoardInv, N!TypeOK, BoardSlots
<1>5. ~boardOverlaps' => ~boardOverlaps
  BY DEF Enters
<1>6. ~boardOverlaps' => Orderly'
  BY <1>1, <1>5 DEF BoardInv, Orderly, OpenOnce, Kept
<1>. QED
  BY <1>3, <1>4, <1>6 DEF BoardInv

-----------------------------------------------------------------------------
(* The actions                                                             *)

\* A request arrives.
LEMMA BoardArrives == ASSUME BoardSizes, BoardInv, NEW r \in Clerks, N!Arrive(r) PROVE BoardInv'
<1>. DEFINE New(d) == boardReq'[r] = d /\ UNCHANGED <<N!rows, N!history, boardCrashes>>
            Only == \A q \in Clerks : boardReq[q].pc = "idle" /\ (q # r => boardReq'[q].pc = "idle")
<1>0. /\ boardReq \in [Clerks -> BoardSlots] /\ boardArrived \in 0..MaxArrivals
      /\ boardOverlaps \in BOOLEAN /\ DOMAIN invitations \subseteq 0..MaxInvitations
      /\ exists \in BOOLEAN /\ boardCrashes \in 0..MaxCrashes
  BY BoardTypes
<1>1. ASSUME NEW d \in BoardSlots, N!Start(r, d),
             New(d) => BoardKnows(r)', New(d) /\ Only /\ ~boardOverlaps => BoardAlone(r)'
      PROVE  BoardInv'
  <2>1. /\ boardReq' = [boardReq EXCEPT ![r] = d] /\ UNCHANGED <<N!rows, N!history>>
        /\ boardReq'[r] = d /\ \A q \in Clerks \ {r} : boardReq'[q] = boardReq[q]
        /\ boardCrashes' = boardCrashes /\ boardReq[r].pc = "idle"
    BY <1>0, <1>1 DEF N!Start
  <2>2. boardArrived' \in 0..MaxArrivals
    BY <1>0, <1>1 DEF N!Start
  <2>3. /\ boardOverlaps' \in BOOLEAN
        /\ ~boardOverlaps' => ~boardOverlaps /\ \A q \in Clerks \ {r} : boardReq[q].pc = "idle"
    BY <1>0, <1>1 DEF N!Start
  <2>4. ~boardOverlaps' => BoardAlone(r)'
    <3>1. ~boardOverlaps' => Only /\ ~boardOverlaps
      BY <2>1, <2>3
    <3>. QED
      BY <1>1, <2>1, <3>1
  <2>5. BoardKnows(r)' /\ Enters(r)
    BY <1>1, <2>1, <2>3 DEF Enters
  <2>6. /\ UNCHANGED <<done, completed, firstBranches, invitations, lapsed, N!history>>
        /\ UNCHANGED <<firstPaid, paidLast>> /\ exists' \in BOOLEAN
    BY <1>0, <2>1 DEF N!rows, N!history
  <2>7. StepsDone' /\ (BranchMarked => BranchMarked')
    BY <2>1, <2>6, BoardStill
  <2>. QED
    BY <1>0, <2>1, <2>2, <2>3, <2>4, <2>5, <2>6, <2>7, BoardQuiet
<1>2. ASSUME N!GetStatus(r) PROVE BoardInv'
  <2>. DEFINE d == [N!Idle EXCEPT !.pc = "progress"]
  <2>1. d \in BoardSlots /\ d.pc = "progress"
    BY BoardWords DEF BoardSlots, N!Idle, N!PC
  <2>2. N!Start(r, d)
    BY <1>2 DEF N!GetStatus
  <2>. HIDE DEF d
  <2>3. New(d) => BoardKnows(r)'
    BY <2>1 DEF BoardKnows
  <2>4. New(d) /\ Only => BoardAlone(r)'
    BY <2>1 DEF BoardAlone
  <2>. QED
    BY <1>1, <2>1, <2>2, <2>3, <2>4
<1>3. ASSUME NEW s \in N!Steps \ {"subscriptionPaid"}, N!Start(r, [N!Idle EXCEPT !.pc = "mark", !.step = s])
      PROVE  BoardInv'
  <2>. DEFINE d == [N!Idle EXCEPT !.pc = "mark", !.step = s]
  <2>1. d \in BoardSlots /\ d.pc = "mark" /\ d.step = s
    BY BoardWords DEF BoardSlots, N!Idle, N!PC
  <2>2. N!Start(r, d)
    BY <1>3
  <2>. HIDE DEF d
  <2>3. New(d) => BoardKnows(r)'
    BY <2>1 DEF BoardKnows
  <2>4. New(d) /\ Only => BoardAlone(r)'
    BY <2>1 DEF BoardAlone
  <2>. QED
    BY <1>1, <2>1, <2>2, <2>3, <2>4
<1>4. ASSUME N!BeginBranch(r) PROVE BoardInv'
  <2>. DEFINE d == [N!Idle EXCEPT !.pc = "branch", !.step = "firstBranchCreated"]
  <2>1. d \in BoardSlots /\ d.pc = "branch" /\ d.step = "firstBranchCreated"
    BY BoardWords DEF BoardSlots, N!Idle, N!PC
  <2>2. N!Start(r, d) /\ "firstBranchCreated" \notin done
    BY <1>4 DEF N!BeginBranch
  <2>. HIDE DEF d
  <2>3. New(d) => BoardKnows(r)'
    BY <2>1, BoardWords DEF BoardKnows
  <2>4. ASSUME New(d), Only, ~boardOverlaps PROVE BoardAlone(r)'
    <3>1. firstBranches' = firstBranches /\ boardCrashes' = boardCrashes
      BY <2>4 DEF N!rows
    <3>2. boardCrashes = 0 => firstBranches = 0
      BY <2>2, <2>4 DEF BoardInv, Orderly, BranchMarked
    <3>. QED
      BY <2>1, <2>4, <3>1, <3>2 DEF BoardAlone
  <2>. QED
    BY <1>1, <2>1, <2>2, <2>3, <2>4
<1>5. ASSUME NEW e \in Emails, N!BeginInvite(r, e) PROVE BoardInv'
  <2>. DEFINE d == [N!Idle EXCEPT !.pc = "supersede", !.step = "teamInvited", !.email = e]
  <2>1. d \in BoardSlots /\ d.pc = "supersede" /\ d.step = "teamInvited" /\ d.email = e
    BY BoardWords DEF BoardSlots, N!Idle, N!PC
  <2>2. N!Start(r, d)
    BY <1>5 DEF N!BeginInvite
  <2>. HIDE DEF d
  <2>3. New(d) => BoardKnows(r)'
    BY <2>1, BoardWords DEF BoardKnows
  <2>4. New(d) /\ Only => BoardAlone(r)'
    BY <2>1 DEF BoardAlone
  <2>. QED
    BY <1>1, <2>1, <2>2, <2>3, <2>4
<1>6. ASSUME NEW i \in DOMAIN invitations, N!ResendRead(r, i) \/ N!RevokeRead(r, i) \/ N!AcceptRead(r, i)
      PROVE  BoardInv'
  <2>1. PICK p \in {"resend", "revoke", "expire", "accept"} :
            /\ N!Start(r, [N!Idle EXCEPT !.pc = p, !.at = i])
            /\ p \in {"resend", "revoke"} => invitations[i].status \notin {"ACCEPTED", "REVOKED"}
            /\ p \in {"expire", "accept"} => invitations[i].status = "PENDING"
    BY <1>6 DEF N!ResendRead, N!RevokeRead, N!AcceptRead
  <2>. DEFINE d == [N!Idle EXCEPT !.pc = p, !.at = i]
  <2>2. d \in BoardSlots /\ d.pc = p /\ d.at = i
    BY <1>0, BoardWords DEF BoardSlots, N!Idle, N!PC
  <2>3. N!Start(r, d)
    BY <2>1
  <2>. HIDE DEF d
  <2>4. New(d) => BoardKnows(r)'
    BY <2>1, <2>2 DEF BoardKnows, N!rows
  <2>5. New(d) /\ Only => BoardAlone(r)'
    BY <2>1, <2>2 DEF BoardAlone, N!rows
  <2>. QED
    BY <1>1, <2>2, <2>3, <2>4, <2>5
<1>7. N!BeginOrganization(r) => BoardInv'
  BY <1>3, BoardWords DEF N!BeginOrganization
<1>8. \A s \in Saves : N!BeginSave(r, s) => BoardInv'
  BY <1>3, BoardWords DEF N!BeginSave
<1>. QED
  BY <1>2, <1>4, <1>5, <1>6, <1>7, <1>8 DEF N!Arrive

\* What Goto and Finish do.
LEMMA BoardGoes ==
  ASSUME BoardSizes, BoardInv, NEW r \in Clerks, boardReq[r].pc # "idle"
  PROVE  /\ \A p \in N!PC : N!Goto(r, p) =>
                \E d \in BoardSlots :
                    /\ boardReq' = [boardReq EXCEPT ![r] = d] /\ boardReq'[r] = d
                    /\ d.pc = p /\ d.step = boardReq[r].step /\ d.email = boardReq[r].email
                    /\ UNCHANGED <<boardOverlaps, boardArrived, boardCrashes>>
         /\ N!Finish(r) => /\ boardReq' = [boardReq EXCEPT ![r] = N!Idle] /\ boardReq'[r] = N!Idle
                           /\ UNCHANGED <<boardOverlaps, boardArrived, boardCrashes>>
         /\ ~boardOverlaps => \A q \in Clerks \ {r} : boardReq[q].pc = "idle"
         /\ boardReq[r] \in BoardSlots /\ BoardKnows(r) /\ (~boardOverlaps => BoardAlone(r))
         /\ boardOverlaps' = boardOverlaps => Enters(r)
         /\ boardReq'[r] = N!Idle => BoardKnows(r)'
<1>1. boardReq \in [Clerks -> BoardSlots]
  BY BoardTypes
<1>2. ASSUME NEW p \in N!PC, N!Goto(r, p)
      PROVE  \E d \in BoardSlots :
                 /\ boardReq' = [boardReq EXCEPT ![r] = d] /\ boardReq'[r] = d
                 /\ d.pc = p /\ d.step = boardReq[r].step /\ d.email = boardReq[r].email
                 /\ UNCHANGED <<boardOverlaps, boardArrived, boardCrashes>>
  <2>. DEFINE d == [boardReq[r] EXCEPT !.pc = p]
  <2>1. d \in BoardSlots /\ d.pc = p /\ d.step = boardReq[r].step /\ d.email = boardReq[r].email
    BY <1>1 DEF BoardSlots
  <2>2. boardReq' = [boardReq EXCEPT ![r] = d]
    BY <1>1, <1>2 DEF N!Goto
  <2>3. boardReq'[r] = d
    BY <1>1, <2>2
  <2>. HIDE DEF d
  <2>. QED
    BY <1>2, <2>1, <2>2, <2>3 DEF N!Goto
<1>3. N!Finish(r) => /\ boardReq' = [boardReq EXCEPT ![r] = N!Idle] /\ boardReq'[r] = N!Idle
                     /\ UNCHANGED <<boardOverlaps, boardArrived, boardCrashes>>
  BY <1>1 DEF N!Finish
<1>4. BoardKnows(r) /\ (~boardOverlaps => BoardAlone(r))
  BY DEF BoardInv, BoardCarrying
<1>5. ~boardOverlaps => \A q \in Clerks \ {r} : boardReq[q].pc = "idle"
  BY <1>4 DEF BoardAlone
<1>6. boardReq'[r] = N!Idle => BoardKnows(r)'
  BY BoardWords DEF BoardKnows
<1>. QED
  BY <1>1, <1>2, <1>3, <1>4, <1>5, <1>6 DEF Enters

\* While requests do not overlap the others rest as one goes on.
LEMMA BoardOnward ==
  ASSUME BoardSizes, BoardInv, NEW r \in Clerks, NEW d \in BoardSlots, boardReq[r].pc # "idle",
         boardReq' = [boardReq EXCEPT ![r] = d], boardOverlaps' = boardOverlaps
  PROVE  /\ ~boardOverlaps' => \A q \in Clerks \ {r} : boardReq'[q].pc = "idle"
         /\ \A q \in Clerks \ {r} : boardReq'[q] = boardReq[q]
<1>1. boardReq \in [Clerks -> BoardSlots]
  BY BoardTypes
<1>2. \A q \in Clerks \ {r} : boardReq'[q] = boardReq[q]
  BY <1>1
<1>3. ~boardOverlaps => \A q \in Clerks \ {r} : boardReq[q].pc = "idle"
  BY BoardGoes
<1>. QED
  BY <1>2, <1>3

\* The row of the progress is made, a check is done, or a request dies.
LEMMA BoardLight ==
  ASSUME BoardSizes, BoardInv, NEW r \in Clerks, N!CreateProgress(r) \/ N!Check(r) \/ N!Crash(r)
  PROVE  BoardInv'
<1>0. /\ exists \in BOOLEAN /\ boardOverlaps \in BOOLEAN /\ boardArrived \in 0..MaxArrivals
      /\ boardCrashes \in 0..MaxCrashes /\ boardReq \in [Clerks -> BoardSlots]
  BY BoardTypes
<1>1. CASE N!CreateProgress(r)
  <2>1. /\ boardReq[r].pc = "progress" /\ N!Finish(r) /\ exists' \in BOOLEAN
        /\ UNCHANGED <<done, completed, firstBranches, invitations, lapsed, N!history>>
        /\ UNCHANGED <<firstPaid, paidLast>>
    BY <1>1 DEF N!CreateProgress, N!history
  <2>2. /\ boardReq' = [boardReq EXCEPT ![r] = N!Idle] /\ BoardKnows(r)' /\ Enters(r)
        /\ UNCHANGED <<boardOverlaps, boardArrived, boardCrashes>>
    BY <2>1, BoardGoes
  <2>3. StepsDone' /\ (BranchMarked => BranchMarked')
    BY <2>1, <2>2, BoardStill, BoardWords
  <2>. QED
    BY <1>0, <2>1, <2>2, <2>3, BoardWords, BoardQuiet
<1>2. CASE N!Crash(r)
  <2>1. /\ boardReq' = [boardReq EXCEPT ![r] = N!Idle] /\ boardReq[r].pc # "idle"
        /\ UNCHANGED <<exists, done, completed, firstBranches, invitations, lapsed, N!history>>
        /\ UNCHANGED <<firstPaid, paidLast, boardOverlaps, boardArrived>>
        /\ boardCrashes' = boardCrashes + 1 /\ boardCrashes < MaxCrashes
    BY <1>2 DEF N!Crash, N!history, N!rows
  <2>2. boardReq'[r] = N!Idle
    BY <1>0, <2>1
  <2>3. BoardKnows(r)' /\ Enters(r)
    BY <2>1, <2>2, BoardGoes
  <2>4. StepsDone' /\ (BranchMarked => BranchMarked')
    BY <2>1, BoardStill, BoardWords
  <2>5. boardCrashes' \in 0..MaxCrashes /\ (boardCrashes' = 0 => boardCrashes = 0)
    BY <1>0, <2>1
  <2>. QED
    BY <1>0, <2>1, <2>3, <2>4, <2>5, BoardWords, BoardQuiet
<1>3. CASE N!Check(r)
  <2>1. /\ boardReq[r].pc = "check"
        /\ UNCHANGED <<exists, done, completed, firstBranches, invitations, lapsed, N!history>>
        /\ UNCHANGED <<firstPaid, paidLast>>
    BY <1>3 DEF N!Check, N!history, N!rows
  <2>2. PICK d \in BoardSlots :
            /\ boardReq' = [boardReq EXCEPT ![r] = d] /\ boardReq'[r] = d
            /\ UNCHANGED <<boardOverlaps, boardArrived, boardCrashes>>
            /\ \/ d.pc = "complete" /\ done = N!Steps
               \/ d.pc = "idle" /\ (done # N!Steps \/ completed)
    <3>1. CASE done = N!Steps /\ ~completed
      <4>1. N!Goto(r, "complete") /\ "complete" \in N!PC
        BY <1>3, <3>1 DEF N!Check, N!PC
      <4>2. PICK d \in BoardSlots :
                /\ boardReq' = [boardReq EXCEPT ![r] = d] /\ boardReq'[r] = d /\ d.pc = "complete"
                /\ UNCHANGED <<boardOverlaps, boardArrived, boardCrashes>>
        BY <2>1, <4>1, BoardGoes
      <4>. QED
        BY <3>1, <4>2
    <3>2. CASE done # N!Steps \/ completed
      <4>1. N!Finish(r)
        BY <1>3, <3>2 DEF N!Check
      <4>. QED
        BY <2>1, <3>2, <4>1, BoardGoes, BoardWords
    <3>. QED
      BY <3>1, <3>2
  <2>3. BoardKnows(r)' /\ Enters(r)
    BY <2>1, <2>2 DEF BoardKnows, Enters
  <2>4. ~boardOverlaps' => BoardAlone(r)'
    <3>1. ~boardOverlaps' => \A q \in Clerks \ {r} : boardReq'[q].pc = "idle"
      BY <2>1, <2>2, BoardOnward
    <3>. QED
      BY <2>2, <3>1 DEF BoardAlone
  <2>5. StepsDone'
    <3>1. \A q \in Clerks \ {r} : boardReq'[q] = boardReq[q]
      BY <1>0, <2>2
    <3>. QED
      BY <2>1, <2>2, <3>1 DEF BoardInv, StepsDone, N!CompletesWhenDone
  <2>6. BranchMarked => BranchMarked'
    <3>1. \A q \in Clerks : boardReq[q].pc = "mark" => boardReq'[q] = boardReq[q]
      BY <1>0, <2>1, <2>2
    <3>. QED
      BY <2>1, <2>2, <3>1 DEF BranchMarked
  <2>. QED
    BY <1>0, <2>1, <2>2, <2>3, <2>4, <2>5, <2>6, BoardQuiet
<1>. QED
  BY <1>1, <1>2, <1>3

\* A step is marked: somebody checks.
LEMMA BoardMarks == ASSUME BoardSizes, BoardInv, NEW r \in Clerks, N!Mark(r) PROVE BoardInv'
<1>1. /\ boardReq[r].pc = "mark" /\ N!Goto(r, "check") /\ "check" \in N!PC /\ exists' = TRUE
      /\ done' = done \cup {boardReq[r].step}
      /\ UNCHANGED <<completed, firstBranches, invitations, lapsed, firstPaid, accepted, revived, paidLast>>
  BY DEF N!Mark, N!history, N!PC
<1>2. PICK d \in BoardSlots :
          /\ boardReq' = [boardReq EXCEPT ![r] = d] /\ boardReq'[r] = d /\ d.pc = "check"
          /\ UNCHANGED <<boardOverlaps, boardArrived, boardCrashes>>
  BY <1>1, BoardGoes
<1>3. /\ ~boardOverlaps' => \A q \in Clerks \ {r} : boardReq'[q].pc = "idle"
      /\ \A q \in Clerks \ {r} : boardReq'[q] = boardReq[q]
  BY <1>1, <1>2, BoardOnward
<1>4. boardReq[r].step \in N!Steps \ {"subscriptionPaid"} /\ done \subseteq N!Steps
  BY <1>1, BoardGoes, BoardTypes DEF BoardKnows
<1>5. BoardKeeps
  BY <1>1, <1>4 DEF BoardKeeps
<1>6. BoardKnows(r)' /\ (~boardOverlaps' => BoardAlone(r)') /\ Enters(r)
  BY <1>1, <1>2, <1>3 DEF BoardKnows, BoardAlone, Enters
<1>7. BoardCarrying' /\ boardReq' \in [Clerks -> BoardSlots]
  BY <1>2, <1>5, <1>6, BoardMoves
<1>8. N!TypeOK'
  BY <1>1, <1>2, <1>5, <1>7 DEF BoardInv, N!TypeOK, BoardSlots, BoardKeeps
<1>9. StepsDone'
  <2>1. "subscriptionPaid" \in done' => firstPaid'
    BY <1>1, <1>4 DEF BoardInv, StepsDone
  <2>2. completed' => done' = N!Steps
    BY <1>1, <1>5 DEF BoardInv, StepsDone, N!CompletesWhenDone, BoardKeeps
  <2>. QED
    BY <1>2, <2>1, <2>2 DEF StepsDone, N!CompletesWhenDone
<1>10. BranchMarked => BranchMarked'
  <2>. SUFFICES ASSUME BranchMarked, boardCrashes' = 0, firstBranches' # 0 PROVE BranchMarked'
    BY DEF BranchMarked
  <2>1. CASE "firstBranchCreated" \in done
    BY <1>1, <2>1 DEF BranchMarked
  <2>2. CASE \E q \in Clerks : boardReq[q].pc = "mark" /\ boardReq[q].step = "firstBranchCreated"
    <3>1. PICK q \in Clerks : boardReq[q].pc = "mark" /\ boardReq[q].step = "firstBranchCreated"
      BY <2>2
    <3>2. CASE q = r
      BY <1>1, <3>1, <3>2 DEF BranchMarked
    <3>3. CASE q # r
      BY <1>3, <3>1, <3>3 DEF BranchMarked
    <3>. QED
      BY <3>2, <3>3
  <2>. QED
    BY <1>1, <1>2, <2>1, <2>2 DEF BranchMarked
<1>11. ~boardOverlaps' => Orderly'
  BY <1>1, <1>2, <1>10 DEF BoardInv, Orderly, OpenOnce, Kept
<1>. QED
  BY <1>7, <1>8, <1>9, <1>11 DEF BoardInv

\* The onboarding is complete.
LEMMA BoardCompletes == ASSUME BoardSizes, BoardInv, NEW r \in Clerks, N!Complete(r) PROVE BoardInv'
<1>1. /\ boardReq[r].pc = "complete" /\ N!Finish(r) /\ completed' = TRUE
      /\ UNCHANGED <<exists, done, firstBranches, invitations, lapsed, firstPaid, accepted, revived, paidLast>>
  BY DEF N!Complete, N!history
<1>2. /\ boardReq' = [boardReq EXCEPT ![r] = N!Idle] /\ boardReq'[r] = N!Idle /\ BoardKnows(r)' /\ Enters(r)
      /\ UNCHANGED <<boardOverlaps, boardArrived, boardCrashes>>
  BY <1>1, BoardGoes
<1>3. \A q \in Clerks \ {r} : boardReq'[q] = boardReq[q]
  BY <1>1, <1>2, BoardOnward, BoardWords
<1>4. BoardKeeps
  BY <1>1, BoardTypes DEF BoardKeeps
<1>5. BoardCarrying' /\ boardReq' \in [Clerks -> BoardSlots]
  BY <1>2, <1>4, BoardMoves, BoardWords
<1>6. N!TypeOK'
  BY <1>1, <1>2, <1>5 DEF BoardInv, N!TypeOK, BoardSlots
<1>7. done = N!Steps
  BY <1>1, BoardGoes DEF BoardKnows
<1>8. StepsDone'
  BY <1>1, <1>7 DEF BoardInv, StepsDone, N!CompletesWhenDone
<1>9. BranchMarked => BranchMarked'
  BY <1>1, <1>2, <1>3 DEF BranchMarked
<1>10. ~boardOverlaps' => Orderly'
  BY <1>1, <1>2, <1>9 DEF BoardInv, Orderly, OpenOnce, Kept
<1>. QED
  BY <1>5, <1>6, <1>8, <1>10 DEF BoardInv

\* A branch is made, to be marked.
LEMMA BoardBranches == ASSUME BoardSizes, BoardInv, NEW r \in Clerks, N!InsertBranch(r) PROVE BoardInv'
<1>1. /\ boardReq[r].pc = "branch" /\ N!Goto(r, "mark") /\ "mark" \in N!PC
      /\ firstBranches < MaxBranches /\ firstBranches' = firstBranches + 1
      /\ UNCHANGED <<exists, done, completed, invitations, lapsed, firstPaid, accepted, revived, paidLast>>
  BY DEF N!InsertBranch, N!history, N!PC
<1>2. PICK d \in BoardSlots :
          /\ boardReq' = [boardReq EXCEPT ![r] = d] /\ boardReq'[r] = d
          /\ d.pc = "mark" /\ d.step = boardReq[r].step
          /\ UNCHANGED <<boardOverlaps, boardArrived, boardCrashes>>
  BY <1>1, BoardGoes
<1>3. /\ ~boardOverlaps' => \A q \in Clerks \ {r} : boardReq'[q].pc = "idle"
      /\ \A q \in Clerks \ {r} : boardReq'[q] = boardReq[q]
  BY <1>1, <1>2, BoardOnward
<1>4. boardReq[r].step = "firstBranchCreated" /\ (~boardOverlaps => BoardAlone(r))
  BY <1>1, BoardGoes DEF BoardKnows
<1>5. BoardKeeps /\ firstBranches \in 0..MaxBranches
  BY <1>1, BoardTypes DEF BoardKeeps
<1>6. BoardKnows(r)' /\ (~boardOverlaps' => BoardAlone(r)') /\ Enters(r)
  BY <1>1, <1>2, <1>3, <1>4, BoardWords DEF BoardKnows, BoardAlone, Enters
<1>7. BoardCarrying' /\ boardReq' \in [Clerks -> BoardSlots]
  BY <1>2, <1>5, <1>6, BoardMoves
<1>8. N!TypeOK'
  <2>1. firstBranches' \in 0..MaxBranches
    BY <1>1, <1>5
  <2>. QED
    BY <1>1, <1>2, <1>7, <2>1 DEF BoardInv, N!TypeOK, BoardSlots
<1>9. StepsDone'
  BY <1>1, <1>2, BoardStill
<1>10. BranchMarked'
  BY <1>2, <1>4 DEF BranchMarked
<1>11. ~boardOverlaps' /\ boardCrashes' = 0 => firstBranches' <= 1
  BY <1>1, <1>2, <1>4, <1>5 DEF BoardAlone
<1>12. ~boardOverlaps' => Orderly'
  BY <1>1, <1>2, <1>10, <1>11 DEF BoardInv, Orderly, OpenOnce, Kept
<1>. QED
  BY <1>7, <1>8, <1>9, <1>12 DEF BoardInv

\* Somebody's earlier invitations expire.
LEMMA BoardSupersedes == ASSUME BoardSizes, BoardInv, NEW r \in Clerks, N!Supersede(r) PROVE BoardInv'
<1>. DEFINE e == boardReq[r].email
            Open(i) == invitations[i].email = e /\ invitations[i].status = "PENDING"
<1>1. /\ boardReq[r].pc = "supersede" /\ N!Goto(r, "invite") /\ "invite" \in N!PC
      /\ invitations' = [i \in DOMAIN invitations |->
             IF Open(i) THEN [invitations[i] EXCEPT !.status = "EXPIRED"] ELSE invitations[i]]
      /\ UNCHANGED <<exists, done, completed, firstBranches, lapsed, firstPaid, accepted, revived, paidLast>>
  BY DEF N!Supersede, N!history, N!PC
<1>2. PICK d \in BoardSlots :
          /\ boardReq' = [boardReq EXCEPT ![r] = d] /\ boardReq'[r] = d
          /\ d.pc = "invite" /\ d.step = boardReq[r].step /\ d.email = e
          /\ UNCHANGED <<boardOverlaps, boardArrived, boardCrashes>>
  BY <1>1, BoardGoes
<1>3. ~boardOverlaps' => \A q \in Clerks \ {r} : boardReq'[q].pc = "idle"
  BY <1>1, <1>2, BoardOnward
<1>4. boardReq[r].step \in N!Steps \ {"subscriptionPaid"} /\ e \in Emails
  BY <1>1, BoardGoes DEF BoardKnows
<1>5. /\ invitations \in Seq(InvitationRows) /\ Len(invitations) <= MaxInvitations
      /\ DOMAIN invitations = 1..Len(invitations) /\ Len(invitations) \in Nat
      /\ \A i \in DOMAIN invitations : invitations[i] \in InvitationRows
      /\ accepted \subseteq DOMAIN invitations
  BY BoardTypes
<1>. HIDE DEF e
<1>6. /\ DOMAIN invitations' = DOMAIN invitations
      /\ \A i \in DOMAIN invitations :
             /\ invitations'[i] \in InvitationRows /\ invitations'[i].email = invitations[i].email
             /\ Open(i) => invitations'[i].status = "EXPIRED"
             /\ ~Open(i) => invitations'[i] = invitations[i]
  <2>1. DOMAIN invitations' = DOMAIN invitations
    BY <1>1
  <2>2. ASSUME NEW i \in DOMAIN invitations, Open(i)
        PROVE  /\ invitations'[i] \in InvitationRows /\ invitations'[i].email = invitations[i].email
               /\ invitations'[i].status = "EXPIRED"
    <3>1. invitations'[i] = [invitations[i] EXCEPT !.status = "EXPIRED"] /\ invitations[i] \in InvitationRows
      BY <1>1, <1>5, <2>2
    <3>. QED
      BY <3>1 DEF InvitationRows, N!InvitationStatus
  <2>3. ASSUME NEW i \in DOMAIN invitations, ~Open(i) PROVE invitations'[i] = invitations[i]
    BY <1>1, <2>3
  <2>. QED
    BY <1>5, <2>1, <2>2, <2>3
<1>. HIDE DEF Open
<1>7. invitations' \in Seq(InvitationRows) /\ Len(invitations') <= MaxInvitations
  <2>1. invitations' \in [1..Len(invitations) -> InvitationRows]
    BY <1>1, <1>5, <1>6
  <2>. QED
    BY <1>5, <2>1
<1>8. BoardKeeps
  BY <1>1, <1>6, BoardTypes DEF BoardKeeps
<1>9. BoardKnows(r)' /\ (~boardOverlaps' => BoardAlone(r)') /\ Enters(r)
  <2>1. BoardKnows(r)' /\ Enters(r)
    BY <1>1, <1>2, <1>4 DEF BoardKnows, Enters
  <2>2. \A i \in DOMAIN invitations' : invitations'[i].email = e => invitations'[i].status # "PENDING"
    BY <1>6 DEF Open
  <2>. QED
    BY <1>2, <1>3, <2>1, <2>2 DEF BoardAlone
<1>10. BoardCarrying' /\ boardReq' \in [Clerks -> BoardSlots]
  BY <1>2, <1>8, <1>9, BoardMoves
<1>11. N!TypeOK'
  BY <1>1, <1>2, <1>6, <1>7, <1>10 DEF BoardInv, N!TypeOK, BoardSlots, InvitationRows
<1>12. StepsDone' /\ (BranchMarked => BranchMarked')
  BY <1>1, <1>2, BoardStill
<1>13. OpenOnce => OpenOnce'
  BY <1>1, <1>6 DEF OpenOnce, Open
<1>14. Kept => Kept'
  BY <1>1, <1>5, <1>6 DEF Kept, Open
<1>. QED
  BY <1>1, <1>2, <1>10, <1>11, <1>12, <1>13, <1>14 DEF BoardInv, Orderly

\* Somebody is invited, to be marked.
LEMMA BoardInvites == ASSUME BoardSizes, BoardInv, NEW r \in Clerks, N!InsertInvitation(r) PROVE BoardInv'
<1>. DEFINE e == boardReq[r].email
            row == [email |-> e, status |-> "PENDING"]
            n == Len(invitations) + 1
<1>1. /\ boardReq[r].pc = "invite" /\ N!Goto(r, "mark") /\ "mark" \in N!PC
      /\ Len(invitations) < MaxInvitations /\ invitations' = Append(invitations, row)
      /\ UNCHANGED <<exists, done, completed, firstBranches, lapsed, firstPaid, accepted, revived, paidLast>>
  BY DEF N!InsertInvitation, N!history, N!PC
<1>2. PICK d \in BoardSlots :
          /\ boardReq' = [boardReq EXCEPT ![r] = d] /\ boardReq'[r] = d
          /\ d.pc = "mark" /\ d.step = boardReq[r].step
          /\ UNCHANGED <<boardOverlaps, boardArrived, boardCrashes>>
  BY <1>1, BoardGoes
<1>3. ~boardOverlaps' => \A q \in Clerks \ {r} : boardReq'[q].pc = "idle"
  BY <1>1, <1>2, BoardOnward
<1>4. /\ boardReq[r].step \in N!Steps \ {"subscriptionPaid"} /\ e \in Emails
      /\ ~boardOverlaps => \A i \in DOMAIN invitations :
             invitations[i].email = e => invitations[i].status # "PENDING"
  BY <1>1, BoardGoes DEF BoardKnows, BoardAlone
<1>. HIDE DEF e
<1>5. row \in InvitationRows /\ row.email = e /\ row.status = "PENDING"
  BY <1>4 DEF InvitationRows, N!InvitationStatus
<1>. HIDE DEF row
<1>6. /\ invitations' \in Seq(InvitationRows) /\ Len(invitations') <= MaxInvitations
      /\ DOMAIN invitations' = DOMAIN invitations \cup {n} /\ n \notin DOMAIN invitations
      /\ invitations'[n] = row /\ \A i \in DOMAIN invitations : invitations'[i] = invitations[i]
  BY <1>1, <1>5, AddedRow, BoardTypes
<1>. HIDE DEF n
<1>7. accepted \subseteq DOMAIN invitations /\ lapsed \subseteq DOMAIN invitations
  BY BoardTypes
<1>8. BoardKeeps
  BY <1>1, <1>6, BoardTypes DEF BoardKeeps
<1>9. BoardKnows(r)' /\ (~boardOverlaps' => BoardAlone(r)') /\ Enters(r)
  BY <1>1, <1>2, <1>3, <1>4 DEF BoardKnows, BoardAlone, Enters
<1>10. BoardCarrying' /\ boardReq' \in [Clerks -> BoardSlots]
  BY <1>2, <1>8, <1>9, BoardMoves
<1>11. N!TypeOK'
  BY <1>1, <1>2, <1>6, <1>7, <1>10 DEF BoardInv, N!TypeOK, BoardSlots, InvitationRows
<1>12. StepsDone' /\ (BranchMarked => BranchMarked')
  BY <1>1, <1>2, BoardStill
<1>13. ~boardOverlaps /\ OpenOnce => OpenOnce'
  BY <1>1, <1>4, <1>5, <1>6 DEF OpenOnce
<1>14. Kept => Kept'
  BY <1>1, <1>6, <1>7 DEF Kept
<1>. QED
  BY <1>1, <1>2, <1>10, <1>11, <1>12, <1>13, <1>14 DEF BoardInv, Orderly

\* An invitation becomes something else.
LEMMA BoardBecomes ==
  ASSUME BoardSizes, BoardInv, NEW r \in Clerks, NEW i, i = boardReq[r].at,
         boardReq[r].pc \in {"resend", "revoke", "expire", "accept"},
         NEW status \in N!InvitationStatus, N!Become(i, status), N!Finish(r),
         UNCHANGED <<exists, done, completed, firstBranches, firstPaid, paidLast>>,
         lapsed' \subseteq lapsed, revived \subseteq revived', revived' \subseteq Emails,
         status = "PENDING" /\ invitations[i].status # "PENDING" =>
             boardOverlaps \/ invitations[i].email \in revived',
         \/ accepted' = accepted /\ (invitations[i].status = "ACCEPTED" => boardOverlaps)
         \/ accepted' = accepted \cup {i} /\ status = "ACCEPTED"
  PROVE  BoardInv'
<1>1. i \in DOMAIN invitations
  BY BoardGoes DEF BoardKnows
<1>2. /\ boardReq' = [boardReq EXCEPT ![r] = N!Idle] /\ boardReq'[r] = N!Idle /\ BoardKnows(r)' /\ Enters(r)
      /\ UNCHANGED <<boardOverlaps, boardArrived, boardCrashes>>
  BY BoardGoes
<1>3. /\ invitations \in Seq(InvitationRows) /\ Len(invitations) <= MaxInvitations
      /\ invitations[i] \in InvitationRows
      /\ accepted \subseteq DOMAIN invitations /\ lapsed \subseteq DOMAIN invitations
  BY <1>1, BoardTypes
<1>. DEFINE row == [invitations[i] EXCEPT !.status = status]
<1>4. row \in InvitationRows /\ row.email = invitations[i].email /\ row.status = status
  BY <1>3 DEF InvitationRows
<1>5. invitations' = [invitations EXCEPT ![i] = row]
  BY <1>1, <1>3 DEF N!Become
<1>. HIDE DEF row
<1>6. /\ invitations' \in Seq(InvitationRows) /\ Len(invitations') <= MaxInvitations
      /\ DOMAIN invitations' = DOMAIN invitations /\ invitations'[i] = row
      /\ \A j \in DOMAIN invitations \ {i} : invitations'[j] = invitations[j]
  BY <1>1, <1>3, <1>4, <1>5, SetRow
<1>7. BoardKeeps
  BY <1>6, BoardTypes DEF BoardKeeps
<1>8. BoardCarrying' /\ boardReq' \in [Clerks -> BoardSlots]
  BY <1>2, <1>7, BoardMoves, BoardWords
<1>9. lapsed' \subseteq DOMAIN invitations' /\ accepted' \subseteq DOMAIN invitations'
  BY <1>1, <1>3, <1>6
<1>10. N!TypeOK'
  BY <1>2, <1>6, <1>8, <1>9 DEF BoardInv, N!TypeOK, BoardSlots, InvitationRows
<1>11. StepsDone' /\ (BranchMarked => BranchMarked')
  BY <1>2, BoardStill, BoardWords
<1>12. ~boardOverlaps /\ OpenOnce => OpenOnce'
  BY <1>4, <1>6 DEF OpenOnce
<1>13. ~boardOverlaps /\ Kept => Kept'
  BY <1>4, <1>6, <1>3 DEF Kept
<1>. QED
  BY <1>2, <1>8, <1>10, <1>11, <1>12, <1>13 DEF BoardInv, Orderly

LEMMA BoardAnswers ==
  ASSUME BoardSizes, BoardInv, NEW r \in Clerks,
         N!Resend(r) \/ N!Revoke(r) \/ N!Expire(r) \/ N!Accept(r)
  PROVE  BoardInv'
<1>1. PICK i : i = boardReq[r].at
  OBVIOUS
<1>2. /\ {"PENDING", "ACCEPTED", "REVOKED", "EXPIRED"} = N!InvitationStatus
      /\ revived \subseteq Emails
      /\ \A j \in DOMAIN invitations : /\ invitations[j].email \in Emails
                                       /\ invitations[j].status \in N!InvitationStatus
  BY BoardTypes DEF N!InvitationStatus, InvitationRows
<1>3. BoardKnows(r) /\ (~boardOverlaps => BoardAlone(r))
  BY DEF BoardInv, BoardCarrying
<1>4. CASE N!Resend(r)
  <2>1. /\ boardReq[r].pc = "resend" /\ N!Become(i, "PENDING") /\ N!Finish(r)
        /\ UNCHANGED <<exists, done, completed, firstBranches, firstPaid, accepted, paidLast>>
        /\ lapsed' = lapsed \ {i}
        /\ revived' = IF invitations[i].status = "EXPIRED" THEN revived \cup {invitations[i].email} ELSE revived
    BY <1>1, <1>4 DEF N!Resend
  <2>2. i \in DOMAIN invitations
    BY <1>1, <1>3, <2>1 DEF BoardKnows
  <2>3. ~boardOverlaps => invitations[i].status \notin {"ACCEPTED", "REVOKED"}
    BY <1>1, <1>3, <2>1 DEF BoardAlone
  <2>. QED
    BY <1>1, <1>2, <2>1, <2>2, <2>3, BoardBecomes
<1>5. CASE N!Revoke(r)
  <2>1. /\ boardReq[r].pc = "revoke" /\ N!Become(i, "REVOKED") /\ N!Finish(r)
        /\ UNCHANGED <<exists, done, completed, firstBranches, lapsed, firstPaid, accepted, revived, paidLast>>
    BY <1>1, <1>5 DEF N!Revoke, N!history
  <2>2. ~boardOverlaps => invitations[i].status # "ACCEPTED"
    BY <1>1, <1>3, <2>1 DEF BoardAlone
  <2>. QED
    BY <1>1, <1>2, <2>1, <2>2, BoardBecomes
<1>6. CASE N!Expire(r)
  <2>1. /\ boardReq[r].pc = "expire" /\ N!Become(i, "EXPIRED") /\ N!Finish(r)
        /\ UNCHANGED <<exists, done, completed, firstBranches, lapsed, firstPaid, accepted, revived, paidLast>>
    BY <1>1, <1>6 DEF N!Expire, N!history
  <2>2. ~boardOverlaps => invitations[i].status # "ACCEPTED"
    BY <1>1, <1>3, <2>1 DEF BoardAlone
  <2>. QED
    BY <1>1, <1>2, <2>1, <2>2, BoardBecomes
<1>7. CASE N!Accept(r)
  <2>1. /\ boardReq[r].pc = "accept" /\ N!Become(i, "ACCEPTED") /\ N!Finish(r)
        /\ UNCHANGED <<exists, done, completed, firstBranches, lapsed, firstPaid, revived, paidLast>>
        /\ accepted' = accepted \cup {i}
    BY <1>1, <1>7 DEF N!Accept
  <2>. QED
    BY <1>1, <1>2, <2>1, BoardBecomes
<1>. QED
  BY <1>4, <1>5, <1>6, <1>7

\* The payment is marked, or two weeks pass.
LEMMA BoardOutside ==
  ASSUME BoardSizes, BoardInv, N!ConfirmPayment \/ \E i \in DOMAIN invitations : N!Lapse(i)
  PROVE  BoardInv'
<1>1. /\ UNCHANGED <<exists, completed, firstBranches, invitations, accepted, revived,
                     boardReq, boardOverlaps, boardArrived, boardCrashes>>
      /\ done \subseteq done' /\ done' \subseteq done \cup {"subscriptionPaid"}
      /\ lapsed' \subseteq lapsed \cup DOMAIN invitations
  BY DEF N!ConfirmPayment, N!Lapse, N!history
<1>2. firstPaid' \in BOOLEAN /\ paidLast' \in BOOLEAN
  BY BoardTypes DEF N!ConfirmPayment, N!Lapse, N!history
<1>3. done' \subseteq N!Steps /\ lapsed' \subseteq DOMAIN invitations
  BY <1>1, BoardTypes, BoardWords
<1>4. N!TypeOK'
  BY <1>1, <1>2, <1>3 DEF BoardInv, N!TypeOK
<1>5. BoardCarrying'
  <2>1. ASSUME NEW r \in Clerks PROVE BoardKnows(r)' /\ (BoardAlone(r) => BoardAlone(r)')
    <3>1. BoardKnows(r) /\ done' \subseteq N!Steps /\ done \subseteq done'
      BY <1>1, <1>3 DEF BoardInv, BoardCarrying
    <3>2. BoardKnows(r)'
      BY <1>1, <3>1 DEF BoardKnows
    <3>3. BoardAlone(r) => BoardAlone(r)'
      BY <1>1 DEF BoardAlone
    <3>. QED
      BY <3>2, <3>3
  <2>. QED
    BY <1>1, <2>1 DEF BoardInv, BoardCarrying
<1>6. StepsDone'
  <2>1. StepsDone
    BY DEF BoardInv
  <2>2. CASE UNCHANGED <<done, firstPaid, paidLast>>
    BY <1>1, <2>1, <2>2 DEF StepsDone, N!CompletesWhenDone
  <2>3. CASE N!ConfirmPayment
    <3>1. "subscriptionPaid" \notin done /\ firstPaid' = TRUE
      BY <2>1, <2>3 DEF N!ConfirmPayment, StepsDone
    <3>2. ~completed
      BY <2>1, <3>1, BoardWords DEF StepsDone, N!CompletesWhenDone
    <3>3. done' = N!Steps => paidLast'
      BY <2>3, <3>1, BoardWords DEF N!ConfirmPayment
    <3>. QED
      BY <1>1, <3>1, <3>2, <3>3 DEF StepsDone, N!CompletesWhenDone
  <2>. QED
    BY <2>2, <2>3 DEF N!Lapse, N!history
<1>7. BranchMarked => BranchMarked'
  BY <1>1 DEF BranchMarked
<1>8. ~boardOverlaps' => Orderly'
  BY <1>1, <1>7 DEF BoardInv, Orderly, OpenOnce, Kept
<1>. QED
  BY <1>4, <1>5, <1>6, <1>8 DEF BoardInv

LEMMA BoardInvStep == ASSUME BoardSizes, BoardInv, [N!Next]_(N!vars) PROVE BoardInv'
<1>1. CASE UNCHANGED N!vars
  <2>1. UNCHANGED <<exists, done, completed, firstBranches, invitations, lapsed, firstPaid, accepted,
                    revived, paidLast, boardReq, boardOverlaps, boardArrived, boardCrashes>>
    BY <1>1 DEF N!vars, N!rows, N!history
  <2>2. N!TypeOK' /\ BoardCarrying'
    BY <2>1 DEF BoardInv, N!TypeOK, BoardCarrying, BoardKnows, BoardAlone
  <2>3. StepsDone' /\ (Orderly => Orderly')
    BY <2>1 DEF BoardInv, StepsDone, N!CompletesWhenDone, Orderly, BranchMarked, OpenOnce, Kept
  <2>. QED
    BY <2>1, <2>2, <2>3 DEF BoardInv
<1>2. ASSUME NEW r \in Clerks, N!Proceed(r) PROVE BoardInv'
  BY <1>2, BoardLight, BoardMarks, BoardCompletes, BoardBranches, BoardSupersedes, BoardInvites, BoardAnswers
     DEF N!Proceed
<1>3. ASSUME NEW r \in Clerks, N!Crash(r) PROVE BoardInv'
  BY <1>3, BoardLight
<1>. QED
  BY <1>1, <1>2, <1>3, BoardArrives, BoardOutside DEF N!Next

\* The cardinality of Onboarding is that of the theorems about finite sets.
LEMMA BoardCardinality == ASSUME NEW S PROVE N!Cardinality(S) = Cardinality(S)
  BY DEF N!Cardinality, Cardinality

\* The invariant implies what must hold.
LEMMA BoardHolds == ASSUME BoardSizes, BoardInv PROVE N!OnboardingAgrees
<1>1. ASSUME ~boardOverlaps, NEW e \in Emails \ revived
      PROVE  N!Cardinality({i \in DOMAIN invitations :
                 invitations[i].email = e /\ invitations[i].status = "PENDING"}) <= 1
  <2>. DEFINE D == {i \in DOMAIN invitations : invitations[i].email = e /\ invitations[i].status = "PENDING"}
  <2>1. D = {} \/ \E i \in D : D = {i}
    BY <1>1 DEF BoardInv, Orderly, OpenOnce
  <2>. HIDE DEF D
  <2>2. N!Cardinality(D) \in {0, 1}
    BY <2>1, FS_EmptySet, FS_Singleton, BoardCardinality
  <2>. QED
    BY <2>2 DEF D
<1>2. N!AcceptedOnce
  BY DEF BoardInv, Orderly, Kept, N!AcceptedOnce
<1>. QED
  BY <1>1, <1>2 DEF BoardInv, StepsDone, N!SingleInvite, N!OnboardingAgrees

\* The inductive invariant holds in every behaviour.
THEOREM OnboardingInvariance == ASSUME BoardSizes PROVE N!Spec => []BoardInv
<1>1. N!Init => BoardInv
  BY InitBoardInv
<1>2. BoardInv /\ [N!Next]_(N!vars) => BoardInv'
  BY BoardInvStep
<1>. QED
  BY <1>1, <1>2, PTL DEF N!Spec

\* Every variable keeps its type.
THEOREM OnboardingTypeCorrect == ASSUME BoardSizes PROVE N!Spec => []N!TypeOK
<1>1. BoardInv => N!TypeOK
  BY DEF BoardInv
<1>. QED
  BY <1>1, OnboardingInvariance, PTL

\* However the steps of an onboarding race, it is complete only once all were done
\* (checkAutoComplete), and it is once they are unless the payment came last or a
\* request goes on or died; unless requests overlapped, nobody has two open
\* invitations (inviteOne) but those sent again after they expired, what was
\* accepted stays so, and createBranch made one branch or somebody died.
THEOREM OnboardingIsRight == ASSUME BoardSizes PROVE N!Spec => []N!OnboardingAgrees
<1>1. BoardInv => N!OnboardingAgrees
  BY BoardHolds
<1>. QED
  BY <1>1, OnboardingInvariance, PTL

=============================================================================
