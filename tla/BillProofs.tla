----------------------------- MODULE BillProofs -----------------------------
(***************************************************************************)
(* What an order costs is what its items and its latest approved discount  *)
(* come to, and no handoff loses an item, proved for any numbers of        *)
(* orders, requests, rows and discounts and for lists of any length.       *)
(*                                                                         *)
(* A request is alone with its orders or they are disturbed (Apart), so    *)
(* what it read is still so when it writes (Held).  An order is then right *)
(* whenever the requests about it have changed nothing yet (Settled), and  *)
(* in between the request that changed it knows the right totals as far as *)
(* it has come (Recalculating).  Which discount is the latest is settled   *)
(* by the approvals' places being all different (Numbered).                *)
(*                                                                         *)
(* Each call is first described by what it does to the state ("...Does"),  *)
(* then by what it leaves alone (Around, Aside).  Subtotals and numbers of *)
(* items are folds; SumLemmas turns them into sums over the rows.          *)
(***************************************************************************)
EXTENDS Bill, SumLemmas, SequenceTheorems

\* What a slot holds, given the sets of items and the lists of parts there may be.
SlotOver(Sets, Lists) ==
    [pc : PC, of : Orders \cup {None}, to : Orders \cup {None},
     row : Nat, n : 0..MaxQuantity, seen : Sets, parts : Lists,
     kind : Kinds \cup {None}, status : DiscountStatus, sum : Nat, cut : Nat, full : BOOLEAN]
Slot == SlotOver(SUBSET (1..MaxRows), Seq(Part))
BillRow == [status : OrderStatus, subtotal : Nat, discount : Nat, total : Money,
            into : Orders \cup {None}]
LineRow == [of : Orders \cup {None}, qty : 1..MaxQuantity]
DiscountRow == [of : Orders, kind : Kinds, status : DiscountStatus, at : 0..MaxDiscounts]

\* The orders a request is about, the items it divides, and the rows it is about
\* to write.
Its(x) == {x.of, x.to} \ {None}
Divided(parts) == {parts[k].row : k \in DOMAIN parts}
Touched(x) == IF x.pc = "change" THEN {x.row} \ {0}
              ELSE IF x.pc = "merge" THEN x.seen
              ELSE IF x.pc = "move" THEN x.seen \cup Divided(x.parts)
              ELSE {}

\* Each part and what it leaves are what there is of its item.
Fits(parts, ls) == \A k \in DOMAIN parts : parts[k].n + parts[k].rest = ls[parts[k].row].qty

\* What a request carries is there.
Carried ==
    \A r \in Requests :
        /\ IF req[r].pc = "idle" THEN req[r] = Idle ELSE req[r].of \in Orders
        /\ IF req[r].pc \in {"merge", "move"} THEN req[r].to \in Orders \ {req[r].of}
                                              ELSE req[r].to = None
        /\ req[r].pc = "change" => /\ req[r].row \in 0..Len(lines)
                                   /\ req[r].row = 0 => req[r].n > 0
        /\ req[r].pc \in {"merge", "move"} => Touched(req[r]) \subseteq DOMAIN lines
        /\ req[r].pc = "insertDiscount" => req[r].kind \in Kinds
        /\ req[r].pc = "claim" => /\ req[r].row \in DOMAIN discounts
                                  /\ discounts[req[r].row].of = req[r].of
                                  /\ req[r].status \in {"APPROVED", "REJECTED"}

\* Requests that meet are about disturbed orders, and so are they as a whole.
Apart ==
    \A r \in Requests :
        /\ Its(req[r]) \cap disturbed # {} => Its(req[r]) \subseteq disturbed
        /\ \A q \in Requests \ {r} :
               Its(req[r]) \cap Its(req[q]) # {} => Its(req[r]) \subseteq disturbed

\* The rows a request will write are on its order, or on others that are
\* disturbed as well; what a handoff read is still so, unless it was disturbed.
Held ==
    \A r \in Requests :
        /\ \A i \in Touched(req[r]) :
               \/ lines[i].of = req[r].of
               \/ req[r].of \in disturbed /\ lines[i].of \in disturbed \cup {None}
        /\ req[r].of \notin disturbed =>
               /\ req[r].pc = "move" => Fits(req[r].parts, lines)
               /\ req[r].pc = "merge" => req[r].seen = {i \in DOMAIN lines : lines[i].of = req[r].of}

AllApproved(ds) == {d \in DOMAIN ds : ds[d].status = "APPROVED"}
Approved(ds, o) == {d \in DOMAIN ds : ds[d].of = o /\ ds[d].status = "APPROVED"}

\* Approvals are numbered as they come.
Numbered ==
    /\ \A d \in AllApproved(discounts) : discounts[d].at \in 1..Cardinality(AllApproved(discounts))
    /\ \A d, e \in AllApproved(discounts) : discounts[d].at = discounts[e].at => d = e

\* c is what the latest approved discount takes off s.
Latest(ds, o, s, c) ==
    /\ c <= s
    /\ Approved(ds, o) = {} => c = 0
    /\ \A d \in Approved(ds, o) : \/ c = AmountOff(ds[d].kind, s)
                                  \/ \E e \in Approved(ds, o) : ds[e].at > ds[d].at

\* What an order says is what its rows and discounts come to.
Correct(b, ls, ds, o) ==
    /\ b[o].subtotal = Subtotal(ls, o)
    /\ b[o].total = b[o].subtotal - b[o].discount
    /\ o \notin handed => Latest(ds, o, b[o].subtotal, b[o].discount)

\* Requests that have changed nothing yet.
Before == {"idle", "change", "insertDiscount", "claim", "merge", "move"}

\* The bill is right when no request is between its change and its totals, ...
Settled ==
    \A o \in Orders \ disturbed :
        (\A r \in Requests : o \in Its(req[r]) => req[r].pc \in Before)
            => Correct(bill, lines, discounts, o)

\* ... and a request that is knows the right totals, as far as it has come.
Recalculating ==
    \A r \in Requests : req[r].of \notin disturbed =>
        /\ req[r].pc = "subtotal" => bill[req[r].of].subtotal = Subtotal(lines, req[r].of)
        /\ req[r].pc \in {"latest", "totals"} =>
               /\ req[r].sum = Subtotal(lines, req[r].of)
               /\ ~ req[r].full => bill[req[r].of].subtotal = req[r].sum
        /\ req[r].pc = "totals" => Latest(discounts, req[r].of, req[r].sum, req[r].cut)

\* An order that was merged away is VOIDED, and no request is at work on it
\* unless some met.
Merged ==
    /\ \A o \in Orders : bill[o].into # None => bill[o].status = "VOIDED"
    /\ disturbed = {} =>
           \A r \in Requests : req[r].pc \in {"change", "merge", "move"} =>
               \A o \in Its(req[r]) : bill[o].into = None

IInv == /\ TypeOK /\ Carried /\ Apart /\ Held /\ Numbered /\ Settled /\ Recalculating /\ Merged
        /\ ItemsConserved

\* What the types say, row by row.
LEMMA Types ==
    ASSUME TypeOK
    PROVE  /\ bill \in [Orders -> BillRow]
           /\ \A o \in Orders : /\ bill[o].status \in OrderStatus
                                /\ bill[o].subtotal \in Nat
                                /\ bill[o].discount \in Nat
                                /\ bill[o].total \in Int
                                /\ bill[o].into \in Orders \cup {None}
           /\ lines \in Seq(LineRow)
           /\ DOMAIN lines = 1..Len(lines) /\ Len(lines) \in Nat /\ Len(lines) <= MaxRows
           /\ \A i \in DOMAIN lines : /\ lines[i] \in LineRow
                                      /\ lines[i].of \in Orders \cup {None}
                                      /\ lines[i].qty \in 1..MaxQuantity
           /\ discounts \in Seq(DiscountRow)
           /\ DOMAIN discounts = 1..Len(discounts)
           /\ Len(discounts) \in Nat /\ Len(discounts) <= MaxDiscounts
           /\ \A d \in DOMAIN discounts : /\ discounts[d] \in DiscountRow
                                          /\ discounts[d].of \in Orders
                                          /\ discounts[d].kind \in Kinds
                                          /\ discounts[d].status \in DiscountStatus
                                          /\ discounts[d].at \in 0..MaxDiscounts
<1>1. /\ bill \in [Orders -> BillRow]
      /\ lines \in Seq(LineRow) /\ Len(lines) <= MaxRows
      /\ discounts \in Seq(DiscountRow) /\ Len(discounts) <= MaxDiscounts
    BY DEF TypeOK, BillRow, LineRow, DiscountRow
<1>2. \A i \in DOMAIN lines : lines[i] \in LineRow
    BY <1>1
<1>3. \A d \in DOMAIN discounts : discounts[d] \in DiscountRow
    BY <1>1
<1>4. /\ DOMAIN lines = 1..Len(lines) /\ Len(lines) \in Nat
      /\ DOMAIN discounts = 1..Len(discounts) /\ Len(discounts) \in Nat
    BY <1>1
<1>5. \A o \in Orders : bill[o] \in BillRow
    BY <1>1
<1>6. \A row \in BillRow : /\ row.status \in OrderStatus /\ row.subtotal \in Nat
                           /\ row.discount \in Nat /\ row.total \in Int
                           /\ row.into \in Orders \cup {None}
    BY DEF BillRow, Money
<1>7. \A row \in LineRow : row.of \in Orders \cup {None} /\ row.qty \in 1..MaxQuantity
    BY DEF LineRow
<1>8. \A row \in DiscountRow : /\ row.of \in Orders /\ row.kind \in Kinds
                               /\ row.status \in DiscountStatus /\ row.at \in 0..MaxDiscounts
    BY DEF DiscountRow
<1> QED
    BY <1>1, <1>2, <1>3, <1>4, <1>5, <1>6, <1>7, <1>8

LEMMA SlotTypes ==
    ASSUME TypeOK
    PROVE  /\ req \in [Requests -> Slot]
           /\ \A r \in Requests : /\ req[r] \in Slot
                                  /\ req[r].pc \in PC
                                  /\ req[r].of \in Orders \cup {None}
                                  /\ req[r].to \in Orders \cup {None}
                                  /\ req[r].row \in Nat
                                  /\ req[r].n \in 0..MaxQuantity
                                  /\ req[r].seen \subseteq 1..MaxRows
                                  /\ req[r].parts \in Seq(Part)
                                  /\ req[r].kind \in Kinds \cup {None}
                                  /\ req[r].status \in DiscountStatus
                                  /\ req[r].sum \in Nat
                                  /\ req[r].cut \in Nat
                                  /\ req[r].full \in BOOLEAN
<1>1. req \in [Requests -> Slot]
    BY DEF TypeOK, Slot, SlotOver
<1>2. \A r \in Requests : req[r] \in Slot
    BY <1>1
<1>3. \A x \in Slot : /\ x.pc \in PC
                      /\ x.of \in Orders \cup {None}
                      /\ x.to \in Orders \cup {None}
                      /\ x.row \in Nat
                      /\ x.n \in 0..MaxQuantity
                      /\ x.seen \subseteq 1..MaxRows
                      /\ x.parts \in Seq(Part)
                      /\ x.kind \in Kinds \cup {None}
                      /\ x.status \in DiscountStatus
                      /\ x.sum \in Nat
                      /\ x.cut \in Nat
                      /\ x.full \in BOOLEAN
    BY DEF Slot, SlotOver
<1> QED
    BY <1>1, <1>2, <1>3

-----------------------------------------------------------------------------
(* What the rows of an order cost, and how many units there are            *)

Costs(rows) == [i \in DOMAIN rows |-> rows[i].qty * UnitPrice]
Counts(rows) == [i \in DOMAIN rows |-> rows[i].qty]
Rows(rows, o) == {i \in DOMAIN rows : rows[i].of = o}

LEMMA RowsFacts ==
    ASSUME NEW rows \in Seq(LineRow)
    PROVE  /\ IsFiniteSet(DOMAIN rows)
           /\ \A i \in DOMAIN rows :
                  /\ rows[i] \in LineRow
                  /\ rows[i].qty \in Nat
                  /\ rows[i].qty * UnitPrice \in Nat
<1>1. DOMAIN rows = 1..Len(rows) /\ Len(rows) \in Nat
    OBVIOUS
<1>2. IsFiniteSet(DOMAIN rows)
    BY <1>1, FS_Interval
<1>3. \A i \in DOMAIN rows : rows[i] \in LineRow
    OBVIOUS
<1>4. ASSUME NEW i \in DOMAIN rows
      PROVE  rows[i].qty \in Nat /\ rows[i].qty * UnitPrice \in Nat
    <2>1. rows[i].qty \in Nat
        BY <1>3, NumbersAssumption DEF LineRow
    <2>2. \A a, b \in Nat : a * b \in Nat
        OBVIOUS
    <2> QED
        BY <2>1, <2>2, NumbersAssumption
<1> QED
    BY <1>2, <1>3, <1>4

LEMMA SubtotalIsSum ==
    ASSUME NEW rows \in Seq(LineRow), NEW o
    PROVE  Subtotal(rows, o) = WSum(Within(Costs(rows), Rows(rows, o), DOMAIN rows), DOMAIN rows)
<1> DEFINE D == DOMAIN rows
           w == Costs(rows)
           C == Rows(rows, o)
           Step(g) == g = [s \in SUBSET DOMAIN rows |->
                              IF s = {} THEN 0
                              ELSE IF rows[Pick(s)].of = o
                                   THEN rows[Pick(s)].qty * UnitPrice + g[s \ {Pick(s)}]
                                   ELSE g[s \ {Pick(s)}]]
           f == CHOOSE g : Step(g)
<1>1. Subtotal(rows, o) = f[DOMAIN rows]
    BY DEF Subtotal, FoldSeq, FoldFunction, FoldFunctionOnSet, MapThenFoldSet, Pick
<1>2. IsFiniteSet(D) /\ \A x \in D : w[x] \in Int
    BY RowsFacts DEF Costs
<1>3. ASSUME NEW g
      PROVE  Step(g) <=> Folding(g, w, C, D)
    <2>1. ASSUME NEW s \in SUBSET D
          PROVE  (IF s = {} THEN 0
                  ELSE IF rows[Pick(s)].of = o
                       THEN rows[Pick(s)].qty * UnitPrice + g[s \ {Pick(s)}]
                       ELSE g[s \ {Pick(s)}])
                 = (IF s = {} THEN 0
                    ELSE IF Pick(s) \in C THEN w[Pick(s)] + g[s \ {Pick(s)}]
                                          ELSE g[s \ {Pick(s)}])
        BY PickIn DEF Costs, Rows
    <2> QED
        BY <2>1 DEF Folding
<1> HIDE DEF D, w, C, Step
<1>4. PICK g : Folding(g, w, C, D)
    BY <1>2, FoldingExists
<1>5. Step(f)
    BY <1>3, <1>4
<1>6. Folding(f, w, C, D)
    BY <1>3, <1>5
<1> HIDE DEF f
<1>7. f[D] = WSum(Within(w, C, D), D)
    BY <1>2, <1>6, FoldingIsSum
<1> QED
    BY <1>1, <1>7 DEF D, w, C

LEMMA UnitsIsSum ==
    ASSUME NEW rows \in Seq(LineRow)
    PROVE  Units(rows) = WSum(Within(Counts(rows), DOMAIN rows \ Rows(rows, None), DOMAIN rows),
                              DOMAIN rows)
<1> DEFINE D == DOMAIN rows
           w == Counts(rows)
           C == D \ Rows(rows, None)
           Step(g) == g = [s \in SUBSET DOMAIN rows |->
                              IF s = {} THEN 0
                              ELSE IF rows[Pick(s)].of = None
                                   THEN g[s \ {Pick(s)}]
                                   ELSE rows[Pick(s)].qty + g[s \ {Pick(s)}]]
           f == CHOOSE g : Step(g)
<1>1. Units(rows) = f[DOMAIN rows]
    BY DEF Units, FoldSeq, FoldFunction, FoldFunctionOnSet, MapThenFoldSet, Pick
<1>2. IsFiniteSet(D) /\ \A x \in D : w[x] \in Int
    BY RowsFacts DEF Counts
<1>3. ASSUME NEW g
      PROVE  Step(g) <=> Folding(g, w, C, D)
    <2>1. ASSUME NEW s \in SUBSET D
          PROVE  (IF s = {} THEN 0
                  ELSE IF rows[Pick(s)].of = None
                       THEN g[s \ {Pick(s)}]
                       ELSE rows[Pick(s)].qty + g[s \ {Pick(s)}])
                 = (IF s = {} THEN 0
                    ELSE IF Pick(s) \in C THEN w[Pick(s)] + g[s \ {Pick(s)}]
                                          ELSE g[s \ {Pick(s)}])
        BY PickIn DEF Counts, Rows
    <2> QED
        BY <2>1 DEF Folding
<1> HIDE DEF D, w, C, Step
<1>4. PICK g : Folding(g, w, C, D)
    BY <1>2, FoldingExists
<1>5. Step(f)
    BY <1>3, <1>4
<1>6. Folding(f, w, C, D)
    BY <1>3, <1>5
<1> HIDE DEF f
<1>7. f[D] = WSum(Within(w, C, D), D)
    BY <1>2, <1>6, FoldingIsSum
<1> QED
    BY <1>1, <1>7 DEF D, w, C

LEMMA CostsWithin ==
    ASSUME NEW rows \in Seq(LineRow), NEW o, NEW i \in DOMAIN rows
    PROVE  LET w == Within(Costs(rows), Rows(rows, o), DOMAIN rows)
           IN  w[i] = (IF rows[i].of = o THEN rows[i].qty * UnitPrice ELSE 0) /\ w[i] \in Nat
BY RowsFacts DEF Within, Costs, Rows

LEMMA CountsWithin ==
    ASSUME NEW rows \in Seq(LineRow), NEW i \in DOMAIN rows
    PROVE  LET w == Within(Counts(rows), DOMAIN rows \ Rows(rows, None), DOMAIN rows)
           IN  w[i] = (IF rows[i].of = None THEN 0 ELSE rows[i].qty) /\ w[i] \in Nat
BY RowsFacts DEF Within, Counts, Rows

LEMMA SubtotalNat ==
    ASSUME NEW rows \in Seq(LineRow), NEW o
    PROVE  Subtotal(rows, o) \in Nat
<1> DEFINE w == Within(Costs(rows), Rows(rows, o), DOMAIN rows)
<1>1. IsFiniteSet(DOMAIN rows) /\ \A i \in DOMAIN rows : w[i] \in Nat
    BY RowsFacts, CostsWithin
<1>2. Subtotal(rows, o) = WSum(w, DOMAIN rows)
    BY SubtotalIsSum
<1> HIDE DEF w
<1> QED
    BY <1>1, <1>2, WSumNat

\* Only the rows that are the order's count, and their quantities.
LEMMA SubtotalSame ==
    ASSUME NEW rows \in Seq(LineRow), NEW more \in Seq(LineRow), NEW o,
           Len(more) >= Len(rows),
           \A i \in DOMAIN rows : \/ more[i] = rows[i]
                                  \/ more[i].of = rows[i].of /\ more[i].qty = rows[i].qty
                                  \/ more[i].of # o /\ rows[i].of # o,
           \A i \in DOMAIN more \ DOMAIN rows : more[i].of # o
    PROVE  Subtotal(more, o) = Subtotal(rows, o)
<1> DEFINE w == Within(Costs(rows), Rows(rows, o), DOMAIN rows)
           v == Within(Costs(more), Rows(more, o), DOMAIN more)
           added == DOMAIN more \ DOMAIN rows
<1>1. IsFiniteSet(DOMAIN rows) /\ IsFiniteSet(DOMAIN more) /\ IsFiniteSet(added)
    BY RowsFacts, FS_Difference
<1>2. \A i \in DOMAIN rows : w[i] = (IF rows[i].of = o THEN rows[i].qty * UnitPrice ELSE 0)
                             /\ w[i] \in Int
    BY CostsWithin
<1>3. \A i \in DOMAIN more : v[i] = (IF more[i].of = o THEN more[i].qty * UnitPrice ELSE 0)
                             /\ v[i] \in Int
    BY CostsWithin
<1>4. /\ Subtotal(rows, o) = WSum(w, DOMAIN rows)
      /\ Subtotal(more, o) = WSum(v, DOMAIN more)
    BY SubtotalIsSum
<1>5. DOMAIN rows = 1..Len(rows) /\ DOMAIN more = 1..Len(more) /\ Len(rows) \in Nat
    OBVIOUS
<1> HIDE DEF w, v
<1>6. DOMAIN rows \subseteq DOMAIN more
    <2>1. \A k, m \in Nat : m >= k => 1..k \subseteq 1..m
        OBVIOUS
    <2>2. Len(more) \in Nat
        OBVIOUS
    <2> QED
        BY <1>5, <2>1, <2>2
<1>7. \A i \in DOMAIN rows : w[i] \in Int /\ v[i] = w[i]
    BY <1>2, <1>3, <1>6
<1>8. \A i \in added : v[i] = 0
    BY <1>3
<1>9. WSum(v, DOMAIN more) = WSum(v, DOMAIN rows) + WSum(v, added)
    <2> DEFINE D == DOMAIN rows
               U == DOMAIN more
    <2>1. D \cap added = {} /\ U = D \cup added
        BY <1>6
    <2>2. /\ IsFiniteSet(D) /\ IsFiniteSet(added)
          /\ \A i \in D : v[i] \in Int
          /\ \A i \in added : v[i] \in Int
        <3> HIDE DEF added
        <3> QED
            BY <1>1, <1>7, <1>8
    <2> HIDE DEF D, U, added
    <2>3. WSum(v, U) = WSum(v, D) + WSum(v, added)
        BY <2>1, <2>2, WSumUnion
    <2> QED
        BY <2>3 DEF D, U
<1> HIDE DEF added
<1>10. WSum(v, added) = 0 /\ WSum(v, DOMAIN rows) = WSum(w, DOMAIN rows)
    BY <1>1, <1>7, <1>8, WSumSame, WSumZero
<1>11. WSum(w, DOMAIN rows) \in Int
    BY <1>1, <1>2, WSumStep
<1> QED
    BY <1>4, <1>9, <1>10, <1>11

LEMMA UnitsAppend ==
    ASSUME NEW rows \in Seq(LineRow), NEW row \in LineRow, row.of # None
    PROVE  /\ Append(rows, row) \in Seq(LineRow)
           /\ Units(rows) \in Int
           /\ Units(Append(rows, row)) = Units(rows) + row.qty
<1> DEFINE more == Append(rows, row)
           w == Within(Counts(rows), DOMAIN rows \ Rows(rows, None), DOMAIN rows)
           v == Within(Counts(more), DOMAIN more \ Rows(more, None), DOMAIN more)
           n == Len(rows) + 1
<1>0. /\ more \in Seq(LineRow)
      /\ \A i \in DOMAIN rows : more[i] = rows[i]
      /\ more[n] = row
      /\ n \notin DOMAIN rows /\ DOMAIN more = DOMAIN rows \cup {n}
    OBVIOUS
<1> HIDE DEF more, n
<1>1. IsFiniteSet(DOMAIN rows)
    BY RowsFacts
<1>2. \A i \in DOMAIN rows : w[i] = (IF rows[i].of = None THEN 0 ELSE rows[i].qty) /\ w[i] \in Int
    BY CountsWithin
<1>3. \A i \in DOMAIN more : v[i] = (IF more[i].of = None THEN 0 ELSE more[i].qty) /\ v[i] \in Int
    BY <1>0, CountsWithin
<1>4. /\ Units(rows) = WSum(w, DOMAIN rows)
      /\ Units(more) = WSum(v, DOMAIN more)
    BY <1>0, UnitsIsSum
<1> HIDE DEF w, v
<1>5. \A i \in DOMAIN rows : w[i] \in Int /\ v[i] = w[i]
    BY <1>0, <1>2, <1>3
<1>6. v[n] = row.qty /\ v[n] \in Int
    BY <1>0, <1>3
<1>7. WSum(v, DOMAIN rows \cup {n}) = WSum(w, DOMAIN rows) + v[n]
    <2> DEFINE D == DOMAIN rows
    <2>1. /\ IsFiniteSet(D) /\ n \notin D /\ v[n] \in Int
          /\ \A i \in D : w[i] \in Int /\ v[i] = w[i]
        BY <1>0, <1>1, <1>5, <1>6
    <2> HIDE DEF D
    <2>2. WSum(v, D \cup {n}) = WSum(w, D) + v[n]
        BY <2>1, WSumAdd
    <2> QED
        BY <2>2 DEF D
<1>8. WSum(w, DOMAIN rows) \in Int
    BY <1>1, <1>5, WSumStep
<1> QED
    BY <1>0, <1>4, <1>6, <1>7, <1>8 DEF more

LEMMA UnitsChange ==
    ASSUME NEW rows \in Seq(LineRow), NEW more \in Seq(LineRow), NEW i \in DOMAIN rows,
           Len(more) = Len(rows), \A j \in DOMAIN rows \ {i} : more[j] = rows[j]
    PROVE  Units(more) = Units(rows) - (IF rows[i].of = None THEN 0 ELSE rows[i].qty)
                                     + (IF more[i].of = None THEN 0 ELSE more[i].qty)
<1> DEFINE w == Within(Counts(rows), DOMAIN rows \ Rows(rows, None), DOMAIN rows)
           v == Within(Counts(more), DOMAIN more \ Rows(more, None), DOMAIN more)
<1>0. DOMAIN more = DOMAIN rows
    OBVIOUS
<1>1. IsFiniteSet(DOMAIN rows)
    BY RowsFacts
<1>2. \A j \in DOMAIN rows : w[j] = (IF rows[j].of = None THEN 0 ELSE rows[j].qty) /\ w[j] \in Int
    BY CountsWithin
<1>3. \A j \in DOMAIN rows : v[j] = (IF more[j].of = None THEN 0 ELSE more[j].qty) /\ v[j] \in Int
    BY <1>0, CountsWithin
<1>4. /\ Units(rows) = WSum(w, DOMAIN rows)
      /\ Units(more) = WSum(v, DOMAIN rows)
    BY <1>0, UnitsIsSum
<1> HIDE DEF w, v
<1>5. \A j \in DOMAIN rows : w[j] \in Int /\ v[j] \in Int
    BY <1>2, <1>3
<1>6. \A j \in DOMAIN rows \ {i} : v[j] = w[j]
    BY <1>2, <1>3
<1>7. WSum(v, DOMAIN rows) = WSum(w, DOMAIN rows) - w[i] + v[i]
    <2> DEFINE D == DOMAIN rows
    <2>1. IsFiniteSet(D) /\ i \in D /\ \A j \in D : w[j] \in Int /\ v[j] \in Int
        BY <1>1, <1>5
    <2>2. \A j \in D \ {i} : w[j] \in Int /\ v[j] = w[j]
        BY <1>5, <1>6
    <2> HIDE DEF D
    <2>3. WSum(v, D) = v[i] + WSum(v, D \ {i})
        BY <2>1, WSumRemove
    <2>4. WSum(w, D) = w[i] + WSum(w, D \ {i})
        BY <2>1, WSumRemove
    <2>5. IsFiniteSet(D \ {i})
        BY <2>1, FS_Subset
    <2>6. WSum(v, D \ {i}) = WSum(w, D \ {i}) /\ WSum(w, D \ {i}) \in Int
        BY <2>2, <2>5, WSumSame, WSumStep
    <2> QED
        BY <2>1, <2>3, <2>4, <2>6 DEF D
<1> QED
    BY <1>2, <1>3, <1>4, <1>7

LEMMA UnitsSame ==
    ASSUME NEW rows \in Seq(LineRow), NEW more \in Seq(LineRow), Len(more) = Len(rows),
           \A i \in DOMAIN rows : /\ more[i].qty = rows[i].qty
                                  /\ more[i].of = None <=> rows[i].of = None
    PROVE  Units(more) = Units(rows)
<1> DEFINE w == Within(Counts(rows), DOMAIN rows \ Rows(rows, None), DOMAIN rows)
           v == Within(Counts(more), DOMAIN more \ Rows(more, None), DOMAIN more)
<1>0. DOMAIN more = DOMAIN rows
    OBVIOUS
<1>1. IsFiniteSet(DOMAIN rows)
    BY RowsFacts
<1>2. \A j \in DOMAIN rows : w[j] = (IF rows[j].of = None THEN 0 ELSE rows[j].qty) /\ w[j] \in Int
    BY CountsWithin
<1>3. \A j \in DOMAIN rows : v[j] = (IF more[j].of = None THEN 0 ELSE more[j].qty) /\ v[j] \in Int
    BY <1>0, CountsWithin
<1>4. /\ Units(rows) = WSum(w, DOMAIN rows)
      /\ Units(more) = WSum(v, DOMAIN rows)
    BY <1>0, UnitsIsSum
<1> HIDE DEF w, v
<1>5. \A j \in DOMAIN rows : w[j] \in Int /\ v[j] = w[j]
    BY <1>2, <1>3
<1> QED
    BY <1>1, <1>4, <1>5, WSumSame

LEMMA UnitsInt ==
    ASSUME NEW rows \in Seq(LineRow)
    PROVE  Units(rows) \in Int
<1> DEFINE w == Within(Counts(rows), DOMAIN rows \ Rows(rows, None), DOMAIN rows)
<1>1. IsFiniteSet(DOMAIN rows) /\ \A j \in DOMAIN rows : w[j] \in Int
    BY RowsFacts, CountsWithin
<1>2. Units(rows) = WSum(w, DOMAIN rows)
    BY UnitsIsSum
<1> HIDE DEF w
<1> QED
    BY <1>1, <1>2, WSumStep

-----------------------------------------------------------------------------
(* Amounts of discounts, and the latest approval                           *)

LEMMA MinOfTwo ==
    ASSUME NEW a \in Int, NEW b \in Int
    PROVE  Min({a, b}) = IF a <= b THEN a ELSE b
<1>1. \E x \in {a, b} : \A y \in {a, b} : x <= y
    OBVIOUS
<1>2. Min({a, b}) \in {a, b} /\ \A y \in {a, b} : Min({a, b}) <= y
    BY <1>1 DEF Min
<1> QED
    BY <1>2

LEMMA MaxOfTwo ==
    ASSUME NEW a \in Int, NEW b \in Int
    PROVE  Max({a, b}) = IF a >= b THEN a ELSE b
<1>1. \E x \in {a, b} : \A y \in {a, b} : x >= y
    OBVIOUS
<1>2. Max({a, b}) \in {a, b} /\ \A y \in {a, b} : Max({a, b}) >= y
    BY <1>1 DEF Max
<1> QED
    BY <1>2

\* A discount is at most what it is taken off.
LEMMA AmountOffBounds ==
    ASSUME NEW kind \in Kinds, NEW s \in Nat
    PROVE  AmountOff(kind, s) \in Nat /\ AmountOff(kind, s) <= s
<1>1. /\ kind.value \in Nat
      /\ kind.type \in {"FIXED", "PERCENTAGE"}
      /\ kind.type = "PERCENTAGE" => kind.value <= 100
    BY KindsAssumption
<1>2. CASE kind.type = "PERCENTAGE"
    <2> DEFINE x == s * kind.value
    <2>1. \A v \in 0..100 : s * v \in Nat /\ s * v <= 100 * s
        OBVIOUS
    <2>2. x \in Nat /\ x <= 100 * s
        BY <1>1, <1>2, <2>1
    <2> HIDE DEF x
    <2>3. x \div 100 \in Nat /\ x \div 100 <= s
        BY <2>2
    <2> QED
        BY <1>2, <2>3 DEF AmountOff, x
<1>3. CASE kind.type = "FIXED"
    <2>1. Min({kind.value, s}) = IF kind.value <= s THEN kind.value ELSE s
        BY <1>1, MinOfTwo
    <2> QED
        BY <1>1, <1>3, <2>1 DEF AmountOff
<1> QED
    BY <1>1, <1>2, <1>3

\* What is taken off is nothing, or the amount of the latest approved discount.
LEMMA DiscountOfLatest ==
    ASSUME TypeOK, Numbered, NEW o \in Orders, NEW s \in Nat
    PROVE  DiscountOf(o, s) \in Nat /\ Latest(discounts, o, s, DiscountOf(o, s))
<1>1. \A d \in DOMAIN discounts : /\ discounts[d].kind \in Kinds
                                  /\ discounts[d].at \in 0..MaxDiscounts
    BY Types
<1>2. CASE Approved(discounts, o) = {}
    <2>1. DiscountOf(o, s) = 0
        BY <1>2 DEF DiscountOf, Approved
    <2> QED
        BY <1>2, <2>1 DEF Latest
<1>3. CASE Approved(discounts, o) # {}
    <2> DEFINE places == {discounts[d].at : d \in Approved(discounts, o)}
    <2>1. places \subseteq 0..MaxDiscounts /\ places # {} /\ MaxDiscounts \in Nat
        BY <1>1, <1>3, NumbersAssumption DEF Approved
    <2>2. PICK m \in places : \A t \in places : t <= m
        <3> HIDE DEF places
        <3> QED
            BY <2>1, GreatestNatural
    <2>3. \E i \in Approved(discounts, o) :
              \A j \in Approved(discounts, o) : discounts[i].at >= discounts[j].at
        <3>1. PICK i \in Approved(discounts, o) : discounts[i].at = m
            OBVIOUS
        <3>2. \A j \in Approved(discounts, o) : discounts[j].at <= discounts[i].at
            BY <2>2, <3>1
        <3> QED
            BY <1>1, <3>2 DEF Approved
    <2> DEFINE i == CHOOSE i \in Approved(discounts, o) :
                        \A j \in Approved(discounts, o) : discounts[i].at >= discounts[j].at
    <2>4. /\ i \in Approved(discounts, o)
          /\ \A j \in Approved(discounts, o) : discounts[i].at >= discounts[j].at
        BY <2>3
    <2>5. DiscountOf(o, s) = AmountOff(discounts[i].kind, s)
        BY <1>3 DEF DiscountOf, Approved
    <2> HIDE DEF i
    <2>6. discounts[i].kind \in Kinds
        BY <1>1, <2>4 DEF Approved
    <2>7. DiscountOf(o, s) \in Nat /\ DiscountOf(o, s) <= s
        BY <2>5, <2>6, AmountOffBounds
    <2>8. ASSUME NEW d \in Approved(discounts, o)
          PROVE  d = i \/ discounts[i].at > discounts[d].at
        <3>1. d \in AllApproved(discounts) /\ i \in AllApproved(discounts)
            BY <2>4 DEF Approved, AllApproved
        <3>2. discounts[i].at = discounts[d].at => i = d
            BY <3>1 DEF Numbered
        <3>3. discounts[i].at \in Int /\ discounts[d].at \in Int
            BY <1>1, <2>4 DEF Approved
        <3> QED
            BY <2>4, <3>2, <3>3
    <2> QED
        BY <1>3, <2>4, <2>5, <2>7, <2>8 DEF Latest
<1> QED
    BY <1>2, <1>3

\* Approvals can be counted, and one more is still within the bound.
LEMMA NextApprovalBounds ==
    ASSUME TypeOK, NEW d \in 1..MaxDiscounts, d \notin AllApproved(discounts)
    PROVE  /\ IsFiniteSet(AllApproved(discounts))
           /\ Cardinality(AllApproved(discounts)) \in Nat
           /\ NextApproval = 1 + Cardinality(AllApproved(discounts))
           /\ NextApproval \in 1..MaxDiscounts
<1> DEFINE M == 1..MaxDiscounts
<1>1. IsFiniteSet(M) /\ Cardinality(M) = MaxDiscounts
    BY NumbersAssumption, FS_Interval
<1>2. DOMAIN discounts \subseteq M
    BY Types, NumbersAssumption
<1>3. AllApproved(discounts) \subseteq M \ {d}
    BY <1>2 DEF AllApproved
<1>4. IsFiniteSet(M \ {d}) /\ Cardinality(M \ {d}) = MaxDiscounts - 1
    <2>1. d \in M
        OBVIOUS
    <2> HIDE DEF M
    <2> QED
        BY <1>1, <2>1, FS_RemoveElement
<1> HIDE DEF M
<1>5. /\ IsFiniteSet(AllApproved(discounts)) /\ Cardinality(AllApproved(discounts)) <= MaxDiscounts - 1
    BY <1>3, <1>4, FS_Subset
<1>6. Cardinality(AllApproved(discounts)) \in Nat
    BY <1>5, FS_CardinalityType
<1>7. NextApproval = 1 + Cardinality(AllApproved(discounts))
    BY DEF NextApproval, AllApproved
<1> QED
    BY <1>5, <1>6, <1>7, NumbersAssumption

-----------------------------------------------------------------------------
(* Requests that arrive                                                    *)

\* A new request carries what it read.
Asked(d) ==
    /\ d \in Slot
    /\ d.pc \in {"change", "insertDiscount", "claim", "merge", "move"}
    /\ d.of \in Orders
    /\ IF d.pc \in {"merge", "move"} THEN d.to \in Orders \ {d.of} ELSE d.to = None
    /\ d.pc = "change" => /\ d.row \in 0..Len(lines)
                          /\ d.row = 0 => d.n > 0
                          /\ d.row # 0 => lines[d.row].of = d.of
    /\ d.pc = "move" => /\ Touched(d) \subseteq ItemsOf(d.of)
                        /\ Fits(d.parts, lines)
    /\ d.pc = "merge" => d.seen = {i \in DOMAIN lines : lines[i].of = d.of}
    /\ d.pc = "insertDiscount" => d.kind \in Kinds
    /\ d.pc = "claim" => /\ d.row \in DOMAIN discounts
                         /\ discounts[d.row].of = d.of
                         /\ d.status \in {"APPROVED", "REJECTED"}
    /\ d.pc \in {"change", "merge", "move"} => \A o \in Its(d) : bill[o].status # "VOIDED"

Ask(r, d) == Start(r, d) /\ UNCHANGED <<bill, lines, discounts, units, handed, doubled, crashes>>

LEMMA IdleSlot == Idle \in Slot /\ Idle.to = None /\ Its(Idle) = {} /\ Touched(Idle) = {}
BY NumbersAssumption DEF Idle, Slot, SlotOver, PC, DiscountStatus, Its, Touched

LEMMA AboutIts == \A r : About(r) = Its(req[r])
BY DEF About, Its

LEMMA Arriving ==
    ASSUME TypeOK, NEW r \in Requests, Arrive(r)
    PROVE  \E d : Asked(d) /\ Ask(r, d)
<1> USE DEF Ask
<1>0. /\ None \notin Orders /\ MaxQuantity \in Nat /\ MaxRows \in Nat
      /\ DOMAIN lines = 1..Len(lines) /\ Len(lines) \in Nat /\ Len(lines) <= MaxRows
    BY Types, OrdersAssumption, NumbersAssumption
<1>1. ASSUME NEW o \in Orders, NEW i \in 0..Len(lines), NEW n \in 0..MaxQuantity,
             i = 0 => n > 0, ItemRead(r, o, i, n)
      PROVE  \E d : Asked(d) /\ Ask(r, d)
    <2> DEFINE d == [Idle EXCEPT !.pc = "change", !.of = o, !.row = i, !.n = n]
    <2>0. i \in Nat
        BY <1>0
    <2>1. d \in Slot /\ d.pc = "change" /\ d.of = o /\ d.to = None /\ d.row = i /\ d.n = n
        BY <1>0, <2>0, IdleSlot DEF Slot, SlotOver, PC, DiscountStatus
    <2>2. bill[o].status # "VOIDED" /\ (i # 0 => lines[i].of = o) /\ Ask(r, d)
        BY <1>0, <1>1 DEF ItemRead
    <2> HIDE DEF d
    <2>3. Asked(d)
        BY <1>1, <2>1, <2>2 DEF Asked, Its
    <2> QED
        BY <2>2, <2>3
<1>2. ASSUME NEW o \in Orders, NEW kind \in Kinds, DiscountRead(r, o, kind)
      PROVE  \E d : Asked(d) /\ Ask(r, d)
    <2> DEFINE d == [Idle EXCEPT !.pc = "insertDiscount", !.of = o, !.kind = kind,
                                 !.sum = bill[o].subtotal]
    <2>0. bill[o].subtotal \in Nat
        BY Types
    <2>1. d \in Slot /\ d.pc = "insertDiscount" /\ d.of = o /\ d.to = None /\ d.kind = kind
        BY <1>0, <2>0, IdleSlot DEF Slot, SlotOver, PC, DiscountStatus
    <2>2. Ask(r, d)
        BY <1>2 DEF DiscountRead
    <2> HIDE DEF d
    <2>3. Asked(d)
        BY <2>1 DEF Asked
    <2> QED
        BY <2>2, <2>3
<1>3. ASSUME NEW e \in DOMAIN discounts, NEW s \in {"APPROVED", "REJECTED"}, DecideRead(r, e, s)
      PROVE  \E d : Asked(d) /\ Ask(r, d)
    <2> DEFINE d == [Idle EXCEPT !.pc = "claim", !.of = discounts[e].of, !.row = e, !.status = s]
    <2>0. discounts[e].of \in Orders /\ e \in Nat
        BY Types
    <2>1. /\ d \in Slot /\ d.pc = "claim" /\ d.of = discounts[e].of /\ d.to = None
          /\ d.row = e /\ d.status = s
        BY <1>0, <2>0, IdleSlot DEF Slot, SlotOver, PC, DiscountStatus
    <2>2. Ask(r, d)
        BY <1>3 DEF DecideRead
    <2> HIDE DEF d
    <2>3. Asked(d)
        BY <2>0, <2>1 DEF Asked
    <2> QED
        BY <2>2, <2>3
<1>4. ASSUME NEW o \in Orders, NEW t \in Orders, MergeRead(r, o, t)
      PROVE  \E d : Asked(d) /\ Ask(r, d)
    <2> DEFINE S == {i \in DOMAIN lines : lines[i].of = o}
               d == [Idle EXCEPT !.pc = "merge", !.of = o, !.to = t, !.seen = S]
    <2>0. S \in SUBSET (1..MaxRows)
        BY <1>0
    <2>1. d \in Slot /\ d.pc = "merge" /\ d.of = o /\ d.to = t /\ d.seen = S
        <3> HIDE DEF S
        <3>1. ASSUME NEW Sets, NEW Lists, Idle \in SlotOver(Sets, Lists), S \in Sets
              PROVE  /\ d \in SlotOver(Sets, Lists)
                     /\ d.pc = "merge" /\ d.of = o /\ d.to = t /\ d.seen = S
            BY <3>1 DEF SlotOver, PC
        <3> QED
            BY <2>0, <3>1, IdleSlot DEF Slot
    <2>2. o # t /\ bill[o].status # "VOIDED" /\ bill[t].status # "VOIDED" /\ Ask(r, d)
        BY <1>4 DEF MergeRead, HANDOFF_OPEN_STATUSES
    <2> HIDE DEF d
    <2>3. Asked(d)
        BY <2>1, <2>2 DEF Asked, Its
    <2> QED
        BY <2>2, <2>3
<1>5. ASSUME NEW o \in Orders, NEW t \in Orders, MoveRead(r, o, t)
      PROVE  \E d : Asked(d) /\ Ask(r, d)
    <2>1. PICK whole \in SUBSET ItemsOf(o), parts \in SeqOf(PartsOf(o), MaxParts) :
              Start(r, MoveOf(o, t, whole, parts))
        BY <1>5 DEF MoveRead
    <2> DEFINE d == MoveOf(o, t, whole, parts)
    <2>2. /\ parts \in Seq(Part) /\ Divided(parts) \subseteq ItemsOf(o)
          /\ Fits(parts, lines)
        <3>1. PICK m \in 0..MaxParts : parts \in [1..m -> PartsOf(o)]
            BY DEF SeqOf
        <3>2. m \in Nat /\ PartsOf(o) \subseteq Part
            BY NumbersAssumption DEF PartsOf
        <3>3. parts \in Seq(Part)
            BY <3>1, <3>2
        <3>4. \A k \in DOMAIN parts : parts[k] \in PartsOf(o)
            BY <3>1
        <3> QED
            BY <3>3, <3>4 DEF PartsOf, Divided, Fits
    <2>3. whole \in SUBSET (1..MaxRows) /\ whole \subseteq ItemsOf(o)
        BY <1>0 DEF ItemsOf
    <2>4. d \in Slot /\ d.pc = "move" /\ d.of = o /\ d.to = t /\ d.seen = whole /\ d.parts = parts
        <3>1. ASSUME NEW Sets, NEW Lists, Idle \in SlotOver(Sets, Lists),
                     whole \in Sets, parts \in Lists
              PROVE  /\ d \in SlotOver(Sets, Lists) /\ d.pc = "move" /\ d.of = o /\ d.to = t
                     /\ d.seen = whole /\ d.parts = parts
            BY <3>1 DEF SlotOver, PC, MoveOf
        <3> QED
            BY <2>2, <2>3, <3>1, IdleSlot DEF Slot
    <2>5. o # t /\ bill[o].status # "VOIDED" /\ bill[t].status # "VOIDED" /\ Ask(r, d)
        BY <1>5, <2>1 DEF MoveRead, HANDOFF_OPEN_STATUSES
    <2> HIDE DEF d
    <2>6. Asked(d)
        BY <2>2, <2>3, <2>4, <2>5 DEF Asked, Its, Touched
    <2> QED
        BY <2>5, <2>6
<1> QED
    BY <1>1, <1>2, <1>3, <1>4, <1>5 DEF Arrive

-----------------------------------------------------------------------------
(* The types                                                               *)

LEMMA TypeInit == Init => TypeOK
<1> SUFFICES ASSUME Init PROVE TypeOK
    OBVIOUS
<1>1. bill \in [Orders -> BillRow]
    BY DEF Init, BillRow, OrderStatus, Money
<1>2. req \in [Requests -> Slot]
    BY IdleSlot DEF Init
<1>3. /\ lines \in Seq(LineRow) /\ Len(lines) <= MaxRows
      /\ discounts \in Seq(DiscountRow) /\ Len(discounts) <= MaxDiscounts
    BY NumbersAssumption DEF Init
<1>4. /\ units = 0 /\ handed = {} /\ doubled = FALSE /\ disturbed = {}
      /\ arrived = 0 /\ crashes = 0
    BY DEF Init
<1>5. units \in Int /\ arrived \in 0..MaxArrivals /\ crashes \in 0..MaxCrashes
    BY <1>4, NumbersAssumption
<1>6. handed \subseteq Orders /\ doubled \in BOOLEAN /\ disturbed \subseteq Orders
    BY <1>4
<1> QED
    BY <1>1, <1>2, <1>3, <1>5, <1>6 DEF TypeOK, BillRow, Slot, SlotOver, LineRow, DiscountRow

\* Some entry is the last of those about an item.
LEMMA LastIsOne ==
    ASSUME NEW parts \in Seq(Part), NEW i, Naming(parts, i) # {}
    PROVE  /\ LastNaming(parts, i) \in Naming(parts, i)
           /\ \A j \in Naming(parts, i) : j <= LastNaming(parts, i)
<1>1. Naming(parts, i) \subseteq 0..Len(parts) /\ Len(parts) \in Nat
    BY DEF Naming
<1>2. \E k \in Naming(parts, i) : \A j \in Naming(parts, i) : j <= k
    BY <1>1, GreatestNatural
<1> QED
    BY <1>2 DEF LastNaming

\* ls are the rows after the items of S and parts of others were moved to t.
After(ls, S, parts, t) ==
    /\ ls \in Seq(LineRow) /\ Len(ls) = Len(lines) + Len(parts)
    /\ \A i \in DOMAIN lines :
           /\ ls[i].of = IF i \in S THEN t ELSE lines[i].of
           /\ ls[i].qty = IF i \in Divided(parts) THEN parts[LastNaming(parts, i)].rest
                          ELSE lines[i].qty
    /\ \A k \in DOMAIN parts : /\ ls[Len(lines) + k].of = t
                               /\ ls[Len(lines) + k].qty = parts[k].n

LEMMA MovedRows ==
    ASSUME TypeOK, NEW S, NEW parts \in Seq(Part), NEW t \in Orders,
           Len(lines) + Len(parts) <= MaxRows,
           NEW rows, rows = Moved(S, parts, t)
    PROVE  /\ After(rows, S, parts, t) /\ Len(rows) <= MaxRows
           /\ \A i \in DOMAIN rows \ DOMAIN lines : rows[i].of = t
<1>1. /\ lines \in Seq(LineRow) /\ Len(lines) \in Nat /\ DOMAIN lines = 1..Len(lines)
      /\ \A i \in DOMAIN lines : lines[i].of \in Orders \cup {None} /\ lines[i].qty \in 1..MaxQuantity
    BY Types
<1>2. /\ Len(parts) \in Nat /\ DOMAIN parts = 1..Len(parts)
      /\ \A k \in DOMAIN parts : parts[k].n \in 1..MaxQuantity /\ parts[k].rest \in 1..MaxQuantity
    <2>1. \A k \in DOMAIN parts : parts[k] \in Part
        OBVIOUS
    <2>2. \A x \in Part : x.n \in 1..MaxQuantity /\ x.rest \in 1..MaxQuantity
        BY DEF Part
    <2> QED
        BY <2>1, <2>2
<1>3. \A i : i \in Divided(parts) <=> Naming(parts, i) # {}
    BY DEF Divided, Naming
<1> DEFINE of(i) == IF i \in S THEN t ELSE lines[i].of
           qty(i) == IF i \in Divided(parts) THEN parts[LastNaming(parts, i)].rest ELSE lines[i].qty
           kept == [i \in DOMAIN lines |-> [of |-> of(i), qty |-> qty(i)]]
           new == [k \in DOMAIN parts |-> [of |-> t, qty |-> parts[k].n]]
<1>4. rows = kept \o new
    BY <1>3 DEF Moved
<1>5. \A i \in DOMAIN lines : of(i) \in Orders \cup {None} /\ qty(i) \in 1..MaxQuantity
    <2>1. ASSUME NEW i \in Divided(parts)
          PROVE  LastNaming(parts, i) \in DOMAIN parts
        BY <1>3, LastIsOne DEF Naming
    <2> QED
        BY <1>1, <1>2, <2>1
<1>6. /\ kept \in [1..Len(lines) -> LineRow]
      /\ \A i \in DOMAIN lines : kept[i].of = of(i) /\ kept[i].qty = qty(i)
    <2> HIDE DEF of, qty
    <2> QED
        BY <1>1, <1>5 DEF LineRow
<1>7. /\ new \in [1..Len(parts) -> LineRow]
      /\ \A k \in DOMAIN parts : new[k].of = t /\ new[k].qty = parts[k].n
    BY <1>2 DEF LineRow
<1> HIDE DEF kept, new
<1>8. \A m \in Nat : \A f \in [1..m -> LineRow] : f \in Seq(LineRow) /\ Len(f) = m
    OBVIOUS
<1>9. kept \in Seq(LineRow) /\ new \in Seq(LineRow) /\ Len(kept) = Len(lines) /\ Len(new) = Len(parts)
    BY <1>1, <1>2, <1>6, <1>7, <1>8
<1>10. /\ rows \in Seq(LineRow) /\ Len(rows) = Len(lines) + Len(parts)
       /\ \A i \in 1..Len(lines) : rows[i] = kept[i]
       /\ \A k \in 1..Len(parts) : rows[Len(lines) + k] = new[k]
    <2> DEFINE a == Len(lines)
               b == Len(parts)
               both == kept \o new
    <2>1. /\ both \in Seq(LineRow) /\ Len(both) = Len(kept) + Len(new)
          /\ \A i \in 1..(Len(kept) + Len(new)) :
                 both[i] = IF i <= Len(kept) THEN kept[i] ELSE new[i - Len(kept)]
        BY <1>9, ConcatProperties
    <2> HIDE DEF both
    <2>2. /\ Len(both) = a + b
          /\ \A i \in 1..(a + b) : both[i] = IF i <= a THEN kept[i] ELSE new[i - a]
        BY <1>9, <2>1
    <2>3. a \in Nat /\ b \in Nat
        BY <1>1, <1>2
    <2> HIDE DEF a, b
    <2>4. \A i \in 1..a : i \in 1..(a + b) /\ i <= a
        BY <2>3
    <2>5. \A k \in 1..b : a + k \in 1..(a + b) /\ ~ (a + k <= a) /\ (a + k) - a = k
        BY <2>3
    <2>6. /\ \A i \in 1..a : both[i] = kept[i]
          /\ \A k \in 1..b : both[a + k] = new[k]
        BY <2>2, <2>4, <2>5
    <2> QED
        BY <1>4, <2>1, <2>2, <2>6 DEF a, b, both
<1>11. After(rows, S, parts, t) /\ Len(rows) <= MaxRows
    <2> HIDE DEF of, qty
    <2>1. \A k \in DOMAIN parts : rows[Len(lines) + k].of = t /\ rows[Len(lines) + k].qty = parts[k].n
        BY <1>2, <1>7, <1>10
    <2>2. \A i \in DOMAIN lines : rows[i].of = of(i) /\ rows[i].qty = qty(i)
        BY <1>1, <1>6, <1>10
    <2> QED
        BY <1>10, <2>1, <2>2 DEF After, of, qty
<1>12. ASSUME NEW i \in DOMAIN rows \ DOMAIN lines
       PROVE  rows[i].of = t
    <2>1. i - Len(lines) \in DOMAIN parts /\ i = Len(lines) + (i - Len(lines))
        BY <1>1, <1>2, <1>10
    <2> QED
        BY <1>11, <2>1 DEF After
<1> QED
    BY <1>11, <1>12

\* The rows after those of a merged order went to t.
MergedInto(S, t) ==
    [i \in DOMAIN lines |-> IF i \in S THEN [lines[i] EXCEPT !.of = t] ELSE lines[i]]

LEMMA MergedRows ==
    ASSUME TypeOK, NEW S, NEW t \in Orders, NEW rows, rows = MergedInto(S, t)
    PROVE  /\ rows \in Seq(LineRow) /\ Len(rows) = Len(lines)
           /\ \A i \in DOMAIN lines : IF i \in S THEN rows[i].of = t /\ rows[i].qty = lines[i].qty
                                                 ELSE rows[i] = lines[i]
<1>1. /\ lines \in Seq(LineRow)
      /\ DOMAIN lines = 1..Len(lines) /\ Len(lines) \in Nat
      /\ \A i \in DOMAIN lines : lines[i] \in LineRow
    BY Types
<1>2. ASSUME NEW row \in LineRow
      PROVE  /\ [row EXCEPT !.of = t] \in LineRow
             /\ [row EXCEPT !.of = t].of = t
             /\ [row EXCEPT !.of = t].qty = row.qty
    BY DEF LineRow
<1>3. \A i \in DOMAIN lines :
          /\ rows[i] \in LineRow
          /\ IF i \in S THEN rows[i].of = t /\ rows[i].qty = lines[i].qty
                        ELSE rows[i] = lines[i]
    BY <1>1, <1>2 DEF MergedInto
<1>4. rows \in [1..Len(lines) -> LineRow]
    BY <1>1, <1>3 DEF MergedInto
<1>5. rows \in Seq(LineRow) /\ Len(rows) = Len(lines)
    BY <1>1, <1>4
<1> QED
    BY <1>3, <1>5

\* One request's step leaves the others where they were.
LEMMA SlotStep ==
    ASSUME TypeOK, NEW q \in Requests, NEW x \in Slot, req' = [req EXCEPT ![q] = x]
    PROVE  /\ req' \in [Requests -> Slot]
           /\ req'[q] = x
           /\ \A p \in Requests \ {q} : req'[p] = req[p]
BY SlotTypes

LEMMA FinishStep ==
    ASSUME TypeOK, NEW q \in Requests, Finish(q)
    PROVE  /\ req' \in [Requests -> Slot]
           /\ req'[q] = Idle
           /\ \A p \in Requests \ {q} : req'[p] = req[p]
           /\ disturbed' = disturbed /\ arrived' = arrived
BY IdleSlot, SlotStep DEF Finish

\* On to the next call, with what was carried.
OnTo(x, y, k) ==
    /\ x.pc = k /\ x.of = y.of /\ x.to = y.to /\ x.row = y.row /\ x.n = y.n /\ x.seen = y.seen
    /\ x.parts = y.parts /\ x.kind = y.kind /\ x.status = y.status

LEMMA GotoStep ==
    ASSUME TypeOK, NEW q \in Requests, NEW k \in PC, Goto(q, k)
    PROVE  /\ req' \in [Requests -> Slot]
           /\ OnTo(req'[q], req[q], k)
           /\ \A p \in Requests \ {q} : req'[p] = req[p]
           /\ disturbed' = disturbed /\ arrived' = arrived
<1> DEFINE x == [req[q] EXCEPT !.pc = k]
<1>1. req[q] \in Slot
    BY SlotTypes
<1>2. x \in Slot /\ OnTo(x, req[q], k)
    BY <1>1 DEF Slot, SlotOver, OnTo
<1>3. req' = [req EXCEPT ![q] = x]
    BY DEF Goto
<1> HIDE DEF x
<1> QED
    BY <1>2, <1>3, SlotStep DEF Goto

LEMMA ReadStep ==
    ASSUME TypeOK, NEW q \in Requests
    PROVE  /\ SumItems(q) =>
                  /\ req' \in [Requests -> Slot]
                  /\ OnTo(req'[q], req[q], "latest")
                  /\ req'[q].sum = Subtotal(lines, req[q].of) /\ req'[q].full = TRUE
                  /\ \A p \in Requests \ {q} : req'[p] = req[p]
           /\ ReadSubtotal(q) /\ req[q].of \in Orders =>
                  /\ req' \in [Requests -> Slot]
                  /\ OnTo(req'[q], req[q], "latest")
                  /\ req'[q].sum = bill[req[q].of].subtotal /\ req'[q].full = FALSE
                  /\ \A p \in Requests \ {q} : req'[p] = req[p]
           /\ ReadDiscount(q) /\ Numbered /\ req[q].of \in Orders =>
                  /\ req' \in [Requests -> Slot]
                  /\ OnTo(req'[q], req[q], "totals")
                  /\ req'[q].sum = req[q].sum /\ req'[q].full = req[q].full
                  /\ req'[q].cut = DiscountOf(req[q].of, req[q].sum)
                  /\ \A p \in Requests \ {q} : req'[p] = req[p]
<1>1. req[q] \in Slot /\ req[q].sum \in Nat
    BY SlotTypes
<1>2. ASSUME SumItems(q)
      PROVE  /\ req' \in [Requests -> Slot]
             /\ OnTo(req'[q], req[q], "latest")
             /\ req'[q].sum = Subtotal(lines, req[q].of) /\ req'[q].full = TRUE
             /\ \A p \in Requests \ {q} : req'[p] = req[p]
    <2> DEFINE s == Subtotal(lines, req[q].of)
               x == [req[q] EXCEPT !.pc = "latest", !.full = TRUE, !.sum = s]
    <2>1. s \in Nat
        BY Types, SubtotalNat
    <2>2. req' = [req EXCEPT ![q] = x]
        BY <1>2 DEF SumItems
    <2> HIDE DEF s
    <2>3. x \in Slot /\ OnTo(x, req[q], "latest") /\ x.sum = s /\ x.full = TRUE
        BY <1>1, <2>1 DEF Slot, SlotOver, OnTo, PC
    <2> HIDE DEF x
    <2> QED
        BY <2>2, <2>3, SlotStep DEF s
<1>3. ASSUME ReadSubtotal(q), req[q].of \in Orders
      PROVE  /\ req' \in [Requests -> Slot]
             /\ OnTo(req'[q], req[q], "latest")
             /\ req'[q].sum = bill[req[q].of].subtotal /\ req'[q].full = FALSE
             /\ \A p \in Requests \ {q} : req'[p] = req[p]
    <2> DEFINE s == bill[req[q].of].subtotal
               x == [req[q] EXCEPT !.pc = "latest", !.full = FALSE, !.sum = s]
    <2>1. s \in Nat
        BY <1>3, Types
    <2>2. req' = [req EXCEPT ![q] = x]
        BY <1>3 DEF ReadSubtotal
    <2> HIDE DEF s
    <2>3. x \in Slot /\ OnTo(x, req[q], "latest") /\ x.sum = s /\ x.full = FALSE
        BY <1>1, <2>1 DEF Slot, SlotOver, OnTo, PC
    <2> HIDE DEF x
    <2> QED
        BY <2>2, <2>3, SlotStep DEF s
<1>4. ASSUME ReadDiscount(q), Numbered, req[q].of \in Orders
      PROVE  /\ req' \in [Requests -> Slot]
             /\ OnTo(req'[q], req[q], "totals")
             /\ req'[q].sum = req[q].sum /\ req'[q].full = req[q].full
             /\ req'[q].cut = DiscountOf(req[q].of, req[q].sum)
             /\ \A p \in Requests \ {q} : req'[p] = req[p]
    <2> DEFINE c == DiscountOf(req[q].of, req[q].sum)
               x == [req[q] EXCEPT !.pc = "totals", !.cut = c]
    <2>1. c \in Nat
        BY <1>1, <1>4, DiscountOfLatest
    <2>2. req' = [req EXCEPT ![q] = x]
        BY <1>4 DEF ReadDiscount
    <2> HIDE DEF c
    <2>3. /\ x \in Slot /\ OnTo(x, req[q], "totals")
          /\ x.sum = req[q].sum /\ x.full = req[q].full /\ x.cut = c
        BY <1>1, <2>1 DEF Slot, SlotOver, OnTo, PC
    <2> HIDE DEF x
    <2> QED
        BY <2>2, <2>3, SlotStep DEF c
<1> QED
    BY <1>2, <1>3, <1>4

-----------------------------------------------------------------------------
(* What each step does                                                     *)

\* Nothing but the slot of q changes among the requests: it is free again, or
\* it goes on to k.
Freed(q) == /\ req' \in [Requests -> Slot]
            /\ req'[q] = Idle
            /\ \A p \in Requests \ {q} : req'[p] = req[p]
            /\ disturbed' = disturbed /\ arrived' = arrived

Went(q, k) == /\ req' \in [Requests -> Slot]
              /\ OnTo(req'[q], req[q], k)
              /\ \A p \in Requests \ {q} : req'[p] = req[p]
              /\ disturbed' = disturbed /\ arrived' = arrived

LEMMA AddItemDoes ==
    ASSUME TypeOK, Carried, NEW q \in Requests, AddItem(q)
    PROVE  LET k == Len(lines) + 1
           IN  /\ req[q].pc = "change" /\ req[q].row = 0
               /\ req[q].n \in 1..MaxQuantity /\ req[q].of \in Orders
               /\ Went(q, "items")
               /\ lines' = Append(lines, [of |-> req[q].of, qty |-> req[q].n])
               /\ [of |-> req[q].of, qty |-> req[q].n] \in LineRow
               /\ lines' \in Seq(LineRow) /\ Len(lines') = k /\ Len(lines') <= MaxRows
               /\ \A j \in DOMAIN lines : lines'[j] = lines[j]
               /\ lines'[k].of = req[q].of
               /\ units' = units + req[q].n
               /\ UNCHANGED <<bill, discounts, handed, doubled, crashes>>
<1>1. /\ req[q].pc = "change" /\ req[q].row = 0 /\ Len(lines) < MaxRows
      /\ lines' = Append(lines, [of |-> req[q].of, qty |-> req[q].n])
      /\ units' = units + req[q].n
      /\ Goto(q, "items")
      /\ UNCHANGED <<bill, discounts, handed, doubled, crashes>>
    BY DEF AddItem
<1>2. req[q].n \in 1..MaxQuantity /\ req[q].of \in Orders
    <2>1. req[q].n \in 0..MaxQuantity
        BY SlotTypes
    <2>2. req[q].n > 0 /\ req[q].of \in Orders
        BY <1>1 DEF Carried
    <2> QED
        BY <2>1, <2>2, NumbersAssumption
<1>3. Went(q, "items")
    BY <1>1, GotoStep DEF Went, PC
<1> DEFINE row == [of |-> req[q].of, qty |-> req[q].n]
<1>4. row \in LineRow /\ row.of = req[q].of
    BY <1>2 DEF LineRow
<1>5. lines' = Append(lines, row)
    BY <1>1
<1> HIDE DEF row
<1>6. /\ lines \in Seq(LineRow) /\ DOMAIN lines = 1..Len(lines) /\ Len(lines) \in Nat
    BY Types
<1>7. /\ lines' \in Seq(LineRow) /\ Len(lines') = Len(lines) + 1
      /\ \A j \in DOMAIN lines : lines'[j] = lines[j]
      /\ lines'[Len(lines) + 1] = row
    BY <1>4, <1>5, <1>6
<1>8. Len(lines') <= MaxRows
    BY <1>1, <1>6, <1>7, NumbersAssumption
<1> QED
    BY <1>1, <1>2, <1>3, <1>4, <1>7, <1>8 DEF row

LEMMA ChangeItemDoes ==
    ASSUME TypeOK, Carried, NEW q \in Requests, ChangeItem(q)
    PROVE  LET i == req[q].row
           IN  /\ req[q].pc = "change" /\ i \in DOMAIN lines /\ req[q].of \in Orders
               /\ i \in Touched(req[q]) /\ req[q].n \in 0..MaxQuantity
               /\ \/ /\ lines[i].of = None
                     /\ Freed(q)
                     /\ UNCHANGED <<lines, units>>
                  \/ /\ lines[i].of # None
                     /\ Went(q, "items")
                     /\ lines' \in Seq(LineRow) /\ Len(lines') = Len(lines)
                     /\ \A j \in DOMAIN lines \ {i} : lines'[j] = lines[j]
                     /\ IF req[q].n > 0 THEN lines'[i].of = lines[i].of /\ lines'[i].qty = req[q].n
                                        ELSE lines'[i].of = None
                     /\ units' = units - lines[i].qty + req[q].n
               /\ UNCHANGED <<bill, discounts, handed, doubled, crashes>>
<1> DEFINE i == req[q].row
<1>1. /\ req[q].pc = "change" /\ i # 0
      /\ UNCHANGED <<bill, discounts, handed, doubled, crashes>>
    BY DEF ChangeItem
<1>2. /\ i \in DOMAIN lines /\ req[q].of \in Orders /\ i \in Touched(req[q])
      /\ req[q].n \in 0..MaxQuantity
    <2>1. i \in 0..Len(lines) /\ req[q].of \in Orders
        BY <1>1 DEF Carried
    <2>2. i \in Touched(req[q])
        BY <1>1 DEF Touched
    <2> QED
        BY <1>1, <2>1, <2>2, Types, SlotTypes
<1>3. CASE lines[i].of = None
    <2>1. Finish(q) /\ UNCHANGED <<lines, units>>
        BY <1>3 DEF ChangeItem
    <2> QED
        BY <1>1, <1>2, <1>3, <2>1, FinishStep DEF Freed
<1>4. CASE lines[i].of # None
    <2>1. /\ Goto(q, "items")
          /\ lines' = IF req[q].n > 0 THEN [lines EXCEPT ![i].qty = req[q].n]
                      ELSE [lines EXCEPT ![i].of = None]
          /\ units' = units - lines[i].qty + req[q].n
        BY <1>4 DEF ChangeItem
    <2>2. Went(q, "items")
        BY <2>1, GotoStep DEF Went, PC
    <2> DEFINE row == IF req[q].n > 0 THEN [lines[i] EXCEPT !.qty = req[q].n]
                      ELSE [lines[i] EXCEPT !.of = None]
    <2>3. /\ row \in LineRow
          /\ IF req[q].n > 0 THEN row.of = lines[i].of /\ row.qty = req[q].n ELSE row.of = None
        <3>1. lines[i] \in LineRow
            BY <1>2, Types
        <3>2. req[q].n > 0 => req[q].n \in 1..MaxQuantity
            BY <1>2, NumbersAssumption
        <3> QED
            BY <3>1, <3>2 DEF LineRow
    <2>4. lines' = [lines EXCEPT ![i] = row]
        BY <2>1
    <2> HIDE DEF row, i
    <2>5. /\ lines' \in Seq(LineRow) /\ Len(lines') = Len(lines) /\ lines'[i] = row
          /\ \A j \in DOMAIN lines \ {i} : lines'[j] = lines[j]
        BY <1>2, <2>3, <2>4, Types
    <2> QED
        BY <1>1, <1>2, <1>4, <2>1, <2>2, <2>3, <2>5 DEF i
<1> QED
    BY <1>3, <1>4

LEMMA InsertDiscountDoes ==
    ASSUME TypeOK, Carried, NEW q \in Requests, InsertDiscount(q)
    PROVE  LET k == Len(discounts) + 1
           IN  /\ req[q].pc = "insertDiscount" /\ req[q].of \in Orders
               /\ discounts' \in Seq(DiscountRow) /\ Len(discounts') = k
               /\ Len(discounts') <= MaxDiscounts
               /\ \A d \in DOMAIN discounts : discounts'[d] = discounts[d]
               /\ discounts'[k].of = req[q].of
               /\ \/ /\ discounts'[k].status = "APPROVED"
                     /\ discounts'[k].at = 1 + Cardinality(AllApproved(discounts))
                     /\ Went(q, "subtotal")
                  \/ /\ discounts'[k].status = "PENDING"
                     /\ Freed(q)
               /\ UNCHANGED <<bill, lines, units, handed, doubled, crashes>>
<1> DEFINE k == Len(discounts) + 1
           kind == req[q].kind
           auto == (IF kind.type = "FIXED" THEN kind.value ELSE AmountOff(kind, req[q].sum)) <= Threshold
           row == [of |-> req[q].of, kind |-> kind, status |-> IF auto THEN "APPROVED" ELSE "PENDING",
                   at |-> IF auto THEN NextApproval ELSE 0]
<1>1. /\ req[q].pc = "insertDiscount" /\ Len(discounts) < MaxDiscounts
      /\ discounts' = Append(discounts, row)
      /\ IF auto THEN Goto(q, "subtotal") ELSE Finish(q)
      /\ UNCHANGED <<bill, lines, units, handed, doubled, crashes>>
    BY DEF InsertDiscount
<1>2. req[q].of \in Orders /\ kind \in Kinds
    BY <1>1 DEF Carried
<1> HIDE DEF auto, kind
<1>3. /\ NextApproval = 1 + Cardinality(AllApproved(discounts))
      /\ NextApproval \in 1..MaxDiscounts
    <2>1. /\ k \in 1..MaxDiscounts /\ k \notin AllApproved(discounts)
        BY <1>1, Types, NumbersAssumption DEF AllApproved
    <2> QED
        BY <2>1, NextApprovalBounds
<1>4. /\ row \in DiscountRow /\ row.of = req[q].of
      /\ IF auto THEN row.status = "APPROVED" /\ row.at = NextApproval ELSE row.status = "PENDING"
    BY <1>2, <1>3, NumbersAssumption DEF DiscountRow, DiscountStatus
<1> HIDE DEF row
<1>5. /\ discounts' \in Seq(DiscountRow) /\ Len(discounts') = k
      /\ \A d \in DOMAIN discounts : discounts'[d] = discounts[d]
      /\ discounts'[k] = row
    BY <1>1, <1>4, Types
<1>6. Len(discounts') <= MaxDiscounts
    BY <1>1, <1>5, Types, NumbersAssumption
<1>7. IF auto THEN Went(q, "subtotal") ELSE Freed(q)
    BY <1>1, GotoStep, FinishStep DEF Went, Freed, PC
<1> QED
    BY <1>1, <1>2, <1>3, <1>4, <1>5, <1>6, <1>7

LEMMA ClaimDoes ==
    ASSUME TypeOK, Carried, NEW q \in Requests, Claim(q)
    PROVE  LET d == req[q].row
           IN  /\ req[q].pc = "claim" /\ req[q].of \in Orders
               /\ d \in DOMAIN discounts /\ discounts[d].of = req[q].of
               /\ \/ /\ discounts[d].status # "PENDING"
                     /\ discounts' = discounts
                     /\ Freed(q)
                  \/ /\ discounts[d].status = "PENDING"
                     /\ discounts' \in Seq(DiscountRow) /\ Len(discounts') = Len(discounts)
                     /\ \A e \in DOMAIN discounts \ {d} : discounts'[e] = discounts[e]
                     /\ discounts'[d].of = discounts[d].of
                     /\ \/ /\ discounts'[d].status = "APPROVED"
                           /\ discounts'[d].at = 1 + Cardinality(AllApproved(discounts))
                           /\ Went(q, "subtotal")
                        \/ /\ discounts'[d].status = "REJECTED"
                           /\ Freed(q)
               /\ UNCHANGED <<bill, lines, units, handed, doubled, crashes>>
<1> DEFINE d == req[q].row
           s == req[q].status
<1>1. req[q].pc = "claim" /\ UNCHANGED <<bill, lines, units, handed, doubled, crashes>>
    BY DEF Claim
<1>2. /\ req[q].of \in Orders /\ d \in DOMAIN discounts /\ discounts[d].of = req[q].of
      /\ s \in {"APPROVED", "REJECTED"}
    BY <1>1 DEF Carried
<1>3. CASE discounts[d].status # "PENDING"
    <2>1. Finish(q) /\ discounts' = discounts
        BY <1>3 DEF Claim
    <2> QED
        BY <1>1, <1>2, <1>3, <2>1, FinishStep DEF Freed
<1>4. CASE discounts[d].status = "PENDING"
    <2> DEFINE a == IF s = "APPROVED" THEN NextApproval ELSE discounts[d].at
               row == [discounts[d] EXCEPT !.status = s, !.at = a]
    <2>1. /\ discounts' = [discounts EXCEPT ![d].status = s,
                               ![d].at = IF s = "APPROVED" THEN NextApproval ELSE @]
          /\ IF s = "APPROVED" THEN Goto(q, "subtotal") ELSE Finish(q)
        BY <1>4 DEF Claim
    <2>2. discounts' = [discounts EXCEPT ![d] = row]
        BY <1>2, <2>1, Types
    <2>3. discounts[d] \in DiscountRow /\ discounts[d].at \in 0..MaxDiscounts /\ d \in 1..MaxDiscounts
        BY <1>2, Types, NumbersAssumption
    <2>4. /\ NextApproval = 1 + Cardinality(AllApproved(discounts))
          /\ NextApproval \in 1..MaxDiscounts
        BY <1>4, <2>3, NextApprovalBounds DEF AllApproved
    <2>5. a \in 0..MaxDiscounts
        BY <2>3, <2>4, NumbersAssumption
    <2> HIDE DEF a
    <2>6. row \in DiscountRow /\ row.of = discounts[d].of /\ row.status = s /\ row.at = a
        BY <1>2, <2>3, <2>5 DEF DiscountRow, DiscountStatus
    <2> HIDE DEF row, d
    <2>7. /\ discounts' \in Seq(DiscountRow) /\ Len(discounts') = Len(discounts)
          /\ \A e \in DOMAIN discounts \ {d} : discounts'[e] = discounts[e]
          /\ discounts'[d] = row
        BY <1>2, <2>2, <2>6, Types
    <2>8. IF s = "APPROVED" THEN Went(q, "subtotal") ELSE Freed(q)
        BY <2>1, GotoStep, FinishStep DEF Went, Freed, PC
    <2> QED
        BY <1>1, <1>2, <1>4, <2>4, <2>6, <2>7, <2>8 DEF d, a
<1> QED
    BY <1>3, <1>4

LEMMA WriteTotalsDoes ==
    ASSUME TypeOK, Carried, NEW q \in Requests, WriteTotals(q)
    PROVE  LET o == req[q].of
           IN  /\ req[q].pc = "totals" /\ o \in Orders
               /\ bill' \in [Orders -> BillRow]
               /\ \A u \in Orders \ {o} : bill'[u] = bill[u]
               /\ bill'[o].subtotal = IF req[q].full THEN req[q].sum ELSE bill[o].subtotal
               /\ bill'[o].discount = req[q].cut
               /\ req[q].cut <= req[q].sum => bill'[o].total = req[q].sum - req[q].cut
               /\ bill'[o].status = bill[o].status /\ bill'[o].into = bill[o].into
               /\ handed' = handed \ {o}
               /\ Freed(q)
               /\ UNCHANGED <<lines, discounts, units, doubled, crashes>>
<1> DEFINE o == req[q].of
           s == IF req[q].full THEN req[q].sum ELSE bill[o].subtotal
           t == Max({req[q].sum - req[q].cut, 0})
           row == [bill[o] EXCEPT !.subtotal = s, !.discount = req[q].cut, !.total = t]
<1>1. /\ req[q].pc = "totals" /\ handed' = handed \ {o} /\ Finish(q)
      /\ UNCHANGED <<lines, discounts, units, doubled, crashes>>
    BY DEF WriteTotals
<1>2. o \in Orders
    BY <1>1 DEF Carried
<1>3. bill' = [bill EXCEPT ![o] = row]
    BY <1>2, Types DEF WriteTotals
<1>4. /\ req[q].sum \in Nat /\ req[q].cut \in Nat /\ s \in Nat /\ bill[o] \in BillRow
    BY <1>2, SlotTypes, Types
<1>5. t \in Int /\ (req[q].cut <= req[q].sum => t = req[q].sum - req[q].cut)
    <2> DEFINE a == req[q].sum - req[q].cut
    <2>1. a \in Int /\ (req[q].cut <= req[q].sum => a >= 0)
        BY <1>4
    <2> HIDE DEF a
    <2>2. Max({a, 0}) = IF a >= 0 THEN a ELSE 0
        BY <2>1, MaxOfTwo
    <2> QED
        BY <2>1, <2>2 DEF a
<1> HIDE DEF s, t
<1>6. /\ row \in BillRow /\ row.subtotal = s /\ row.discount = req[q].cut /\ row.total = t
      /\ row.status = bill[o].status /\ row.into = bill[o].into
    BY <1>4, <1>5 DEF BillRow, Money
<1> HIDE DEF row, o
<1>7. /\ bill' \in [Orders -> BillRow] /\ bill'[o] = row
      /\ \A u \in Orders \ {o} : bill'[u] = bill[u]
    BY <1>2, <1>3, <1>6, Types
<1>8. Freed(q)
    BY <1>1, FinishStep DEF Freed
<1> QED
    BY <1>1, <1>2, <1>5, <1>6, <1>7, <1>8 DEF o, s

\* What recomputeAndSaveOrderTotals leaves: its rows' sum, the same discount.
Recounted(new, old, rows, o) ==
    /\ new.subtotal = Subtotal(rows, o)
    /\ new.discount = old.discount
    /\ new.total = new.subtotal - new.discount

LEMMA RecomputedRow ==
    ASSUME NEW row \in BillRow, NEW rows \in Seq(LineRow), NEW o
    PROVE  /\ Recomputed(row, rows, o) \in BillRow
           /\ Recounted(Recomputed(row, rows, o), row, rows, o)
           /\ Recomputed(row, rows, o).status = row.status
           /\ Recomputed(row, rows, o).into = row.into
<1> DEFINE s == Subtotal(rows, o)
           t == s - row.discount
<1>1. s \in Nat
    BY SubtotalNat
<1>2. row.discount \in Nat
    BY DEF BillRow
<1>3. t \in Int
    BY <1>1, <1>2
<1>4. Recomputed(row, rows, o) = [row EXCEPT !.subtotal = s, !.total = t]
    BY DEF Recomputed
<1> HIDE DEF s, t
<1>5. /\ [row EXCEPT !.subtotal = s, !.total = t] \in BillRow
      /\ [row EXCEPT !.subtotal = s, !.total = t].subtotal = s
      /\ [row EXCEPT !.subtotal = s, !.total = t].total = t
      /\ [row EXCEPT !.subtotal = s, !.total = t].discount = row.discount
      /\ [row EXCEPT !.subtotal = s, !.total = t].status = row.status
      /\ [row EXCEPT !.subtotal = s, !.total = t].into = row.into
    BY <1>1, <1>3 DEF BillRow, Money
<1> QED
    BY <1>4, <1>5 DEF Recounted, s, t

LEMMA MergeDoes ==
    ASSUME TypeOK, Carried, NEW q \in Requests, Merge(q)
    PROVE  LET o == req[q].of
               t == req[q].to
               S == req[q].seen
           IN  /\ req[q].pc = "merge" /\ o \in Orders /\ t \in Orders /\ o # t
               /\ S \subseteq DOMAIN lines /\ Touched(req[q]) = S
               /\ \/ /\ \E i \in S : lines[i].of = None
                     /\ UNCHANGED <<bill, lines, handed>>
                  \/ /\ \A i \in S : lines[i].of # None
                     /\ lines' \in Seq(LineRow) /\ Len(lines') = Len(lines)
                     /\ \A i \in DOMAIN lines :
                            IF i \in S THEN lines'[i].of = t /\ lines'[i].qty = lines[i].qty
                                       ELSE lines'[i] = lines[i]
                     /\ bill' \in [Orders -> BillRow]
                     /\ \A u \in Orders \ {o, t} : bill'[u] = bill[u]
                     /\ Recounted(bill'[o], bill[o], lines', o)
                     /\ Recounted(bill'[t], bill[t], lines', t)
                     /\ bill'[o].status = "VOIDED" /\ bill'[o].into = t
                     /\ bill'[t].status = bill[t].status /\ bill'[t].into = bill[t].into
                     /\ handed' = handed \cup {o, t}
               /\ Freed(q)
               /\ UNCHANGED <<discounts, units, doubled, crashes>>
<1> DEFINE o == req[q].of
           t == req[q].to
           S == req[q].seen
<1>1. req[q].pc = "merge" /\ Finish(q) /\ UNCHANGED <<discounts, units, doubled, crashes>>
    BY DEF Merge
<1>2. o \in Orders /\ t \in Orders /\ o # t /\ S \subseteq DOMAIN lines /\ Touched(req[q]) = S
    BY <1>1 DEF Carried, Touched
<1>3. Freed(q)
    BY <1>1, FinishStep DEF Freed
<1>4. CASE \E i \in S : lines[i].of = None
    <2>1. UNCHANGED <<bill, lines, handed>>
        BY <1>4 DEF Merge
    <2> QED
        BY <1>1, <1>2, <1>3, <1>4, <2>1
<1>5. CASE ~ \E i \in S : lines[i].of = None
    <2> DEFINE rows == [i \in DOMAIN lines |->
                           IF i \in S THEN [lines[i] EXCEPT !.of = t] ELSE lines[i]]
               new == [Recomputed(bill[o], rows, o) EXCEPT !.status = "VOIDED", !.into = t]
    <2>1. /\ lines' = rows
          /\ bill' = [bill EXCEPT ![t] = Recomputed(@, rows, t),
                          ![o] = [Recomputed(@, rows, o) EXCEPT !.status = "VOIDED", !.into = t]]
          /\ handed' = handed \cup {o, t}
        BY <1>5 DEF Merge
    <2>2. /\ rows \in Seq(LineRow) /\ Len(rows) = Len(lines)
          /\ \A i \in DOMAIN lines :
                 IF i \in S THEN rows[i].of = t /\ rows[i].qty = lines[i].qty
                            ELSE rows[i] = lines[i]
        <3> DEFINE ls == rows
        <3>1. ls = MergedInto(S, t)
            BY DEF MergedInto
        <3> HIDE DEF ls, rows, new, o, t, S
        <3>2. /\ ls \in Seq(LineRow) /\ Len(ls) = Len(lines)
              /\ \A i \in DOMAIN lines : IF i \in S THEN ls[i].of = t /\ ls[i].qty = lines[i].qty
                                                    ELSE ls[i] = lines[i]
            BY <1>2, <3>1, MergedRows
        <3> QED
            BY <3>2 DEF ls
    <2> HIDE DEF rows
    <2>3. bill \in [Orders -> BillRow]
        BY Types
    <2>4. /\ bill' \in [Orders -> BillRow]
          /\ bill'[o] = new /\ bill'[t] = Recomputed(bill[t], rows, t)
          /\ \A u \in Orders \ {o, t} : bill'[u] = bill[u]
        <3>1. /\ Recomputed(bill[t], rows, t) \in BillRow
              /\ Recomputed(bill[o], rows, o) \in BillRow
            BY <1>2, <2>2, <2>3, RecomputedRow
        <3>2. new \in BillRow
            BY <1>2, <3>1 DEF BillRow, OrderStatus
        <3>3. bill' = [u \in Orders |-> IF u = o THEN new
                                        ELSE IF u = t THEN Recomputed(bill[t], rows, t) ELSE bill[u]]
            BY <1>2, <2>1, <2>3
        <3> HIDE DEF new
        <3> QED
            BY <1>2, <2>3, <3>1, <3>2, <3>3
    <2>5. /\ Recounted(new, bill[o], rows, o)
          /\ new.status = "VOIDED" /\ new.into = t
        <3> DEFINE x == Recomputed(bill[o], rows, o)
        <3>1. x \in BillRow /\ Recounted(x, bill[o], rows, o)
            BY <1>2, <2>2, <2>3, RecomputedRow
        <3> HIDE DEF x
        <3>2. new = [x EXCEPT !.status = "VOIDED", !.into = t]
            BY DEF x
        <3> QED
            BY <3>1, <3>2 DEF Recounted, BillRow
    <2>6. /\ Recounted(bill'[t], bill[t], rows, t)
          /\ bill'[t].status = bill[t].status /\ bill'[t].into = bill[t].into
        BY <1>2, <2>2, <2>3, <2>4, RecomputedRow
    <2> HIDE DEF new, o, t, S
    <2> QED
        BY <1>1, <1>2, <1>3, <1>5, <2>1, <2>2, <2>4, <2>5, <2>6 DEF o, t, S
<1> QED
    BY <1>4, <1>5

LEMMA MoveDoes ==
    ASSUME TypeOK, Carried, NEW q \in Requests, Move(q)
    PROVE  LET o == req[q].of
               t == req[q].to
               S == req[q].seen
               parts == req[q].parts
           IN  /\ req[q].pc = "move" /\ o \in Orders /\ t \in Orders /\ o # t
               /\ Touched(req[q]) = S \cup Divided(parts) /\ Touched(req[q]) \subseteq DOMAIN lines
               /\ parts \in Seq(Part)
               /\ \/ /\ \E i \in Touched(req[q]) : lines[i].of = None
                     /\ UNCHANGED <<bill, lines, handed, doubled>>
                  \/ /\ \A i \in Touched(req[q]) : lines[i].of # None
                     /\ After(lines', S, parts, t)
                     /\ lines' \in Seq(LineRow) /\ Len(lines') <= MaxRows
                     /\ Len(lines') >= Len(lines)
                     /\ \A i \in DOMAIN lines' \ DOMAIN lines : lines'[i].of = t
                     /\ bill' \in [Orders -> BillRow]
                     /\ \A u \in Orders \ {o, t} : bill'[u] = bill[u]
                     /\ Recounted(bill'[o], bill[o], lines', o)
                     /\ Recounted(bill'[t], bill[t], lines', t)
                     /\ bill'[o].status = bill[o].status
                     /\ bill[t].status = "VOIDED" => bill'[t].status = "VOIDED"
                     /\ bill'[o].into = bill[o].into /\ bill'[t].into = bill[t].into
                     /\ handed' = handed \cup {o, t}
                     /\ doubled' = (doubled \/ \E k, j \in DOMAIN parts :
                                                  k # j /\ parts[k].row = parts[j].row)
               /\ doubled' \in BOOLEAN
               /\ Freed(q)
               /\ UNCHANGED <<discounts, units, crashes>>
<1> DEFINE o == req[q].of
           t == req[q].to
           S == req[q].seen
           parts == req[q].parts
           rows == Moved(S, parts, t)
           gone == \E i \in Touched(req[q]) : lines[i].of = None
           twice == \E k, j \in DOMAIN parts : k # j /\ parts[k].row = parts[j].row
<1>1. /\ req[q].pc = "move" /\ Finish(q) /\ UNCHANGED <<discounts, units, crashes>>
      /\ Len(lines) + Len(parts) <= MaxRows
    BY DEF Move
<1>2. /\ o \in Orders /\ t \in Orders /\ o # t /\ parts \in Seq(Part)
      /\ Touched(req[q]) = S \cup Divided(parts) /\ Touched(req[q]) \subseteq DOMAIN lines
    BY <1>1, SlotTypes DEF Carried, Touched
<1>3. Freed(q)
    BY <1>1, FinishStep DEF Freed
<1>4. gone <=> \E i \in DOMAIN lines : lines[i].of = None /\ (i \in S \/ Naming(parts, i) # {})
    BY <1>2 DEF Divided, Naming
<1>5. CASE gone
    <2>1. UNCHANGED <<bill, lines, handed, doubled>>
        <3> HIDE DEF gone
        <3> QED
            BY <1>4, <1>5 DEF Move
    <2> QED
        BY <1>1, <1>2, <1>3, <1>5, <2>1 DEF TypeOK
<1>6. CASE ~ gone
    <2> DEFINE s == IF bill[t].status = "ABSENT" THEN "NEW" ELSE bill[t].status
               new == [Recomputed(bill[t], rows, t) EXCEPT !.status = s]
    <2>1. /\ lines' = rows
          /\ bill' = [bill EXCEPT ![o] = Recomputed(@, rows, o),
                          ![t] = [Recomputed(@, rows, t) EXCEPT
                                     !.status = IF bill[t].status = "ABSENT" THEN "NEW"
                                                ELSE bill[t].status]]
          /\ handed' = handed \cup {o, t}
          /\ doubled' = (doubled \/ twice)
        <3> HIDE DEF gone
        <3> QED
            BY <1>4, <1>6 DEF Move
    <2>2. /\ After(rows, S, parts, t) /\ Len(rows) <= MaxRows /\ rows \in Seq(LineRow)
          /\ Len(rows) >= Len(lines)
          /\ \A i \in DOMAIN rows \ DOMAIN lines : rows[i].of = t
        <3> DEFINE ls == rows
        <3>1. ls = Moved(S, parts, t)
            OBVIOUS
        <3> HIDE DEF ls, S, parts, t
        <3>2. /\ After(ls, S, parts, t) /\ Len(ls) <= MaxRows
              /\ \A i \in DOMAIN ls \ DOMAIN lines : ls[i].of = t
            BY <1>1, <1>2, <3>1, MovedRows
        <3>3. /\ ls \in Seq(LineRow) /\ Len(ls) = Len(lines) + Len(parts)
              /\ Len(parts) \in Nat /\ Len(lines) \in Nat
            BY <1>2, <3>2, Types DEF After
        <3> QED
            BY <3>2, <3>3 DEF ls
    <2>3. bill \in [Orders -> BillRow] /\ s \in OrderStatus
        BY <1>2, Types DEF OrderStatus
    <2> DEFINE x == Recomputed(bill[t], rows, t)
               y == Recomputed(bill[o], rows, o)
    <2>4. /\ x \in BillRow /\ Recounted(x, bill[t], rows, t)
          /\ x.status = bill[t].status /\ x.into = bill[t].into
          /\ y \in BillRow /\ Recounted(y, bill[o], rows, o)
          /\ y.status = bill[o].status /\ y.into = bill[o].into
        <3> HIDE DEF rows
        <3> QED
            BY <1>2, <2>2, <2>3, RecomputedRow
    <2>5. new = [x EXCEPT !.status = s]
        OBVIOUS
    <2>6. bill' = [bill EXCEPT ![o] = y, ![t] = new]
        BY <1>2, <2>1, <2>3
    <2> HIDE DEF x, y, s, new, rows, twice
    <2>7. /\ new \in BillRow /\ Recounted(new, bill[t], rows, t)
          /\ new.status = s /\ new.into = bill[t].into
        BY <2>3, <2>4, <2>5 DEF Recounted, BillRow
    <2>8. /\ bill' \in [Orders -> BillRow] /\ bill'[o] = y /\ bill'[t] = new
          /\ \A u \in Orders \ {o, t} : bill'[u] = bill[u]
        BY <1>2, <2>3, <2>4, <2>6, <2>7
    <2>9. bill[t].status = "VOIDED" => s = "VOIDED"
        BY DEF s
    <2>10. doubled' \in BOOLEAN
        BY <2>1 DEF TypeOK
    <2> HIDE DEF o, t, S, parts
    <2> QED
        BY <1>1, <1>2, <1>3, <1>6, <2>1, <2>2, <2>4, <2>7, <2>8, <2>9, <2>10
        DEF o, t, S, parts, twice
<1> QED
    BY <1>5, <1>6

LEMMA AskDoes ==
    ASSUME TypeOK, NEW q \in Requests, NEW d, Asked(d), Ask(q, d)
    PROVE  /\ req[q].pc = "idle"
           /\ req' \in [Requests -> Slot] /\ req'[q] = d
           /\ \A p \in Requests \ {q} : req'[p] = req[p]
           /\ disturbed \subseteq disturbed' /\ disturbed' \subseteq Orders
           /\ \/ /\ disturbed' = disturbed
                 /\ Its(d) \cap disturbed = {}
                 /\ \A p \in Requests \ {q} : Its(req[p]) \cap Its(d) = {}
              \/ /\ Its(d) \subseteq disturbed'
                 /\ \A p \in Requests \ {q} :
                        Its(req[p]) \cap Its(d) # {} => Its(req[p]) \subseteq disturbed'
                 /\ \A o \in disturbed' :
                        \/ o \in disturbed \cup Its(d)
                        \/ \E p \in Requests \ {q} : o \in Its(req[p]) /\ Its(req[p]) \cap Its(d) # {}
           /\ arrived' \in 0..MaxArrivals
           /\ UNCHANGED <<bill, lines, discounts, units, handed, doubled, crashes>>
<1> DEFINE met == UNION {Its(req[p]) : p \in {p \in Requests \ {q} : Its(req[p]) \cap Its(d) # {}}}
<1>1. /\ req[q].pc = "idle" /\ arrived < MaxArrivals /\ arrived' = arrived + 1
      /\ req' = [req EXCEPT ![q] = d]
      /\ disturbed' = IF met = {} /\ Its(d) \cap disturbed = {} THEN disturbed
                      ELSE disturbed \cup Its(d) \cup met
      /\ UNCHANGED <<bill, lines, discounts, units, handed, doubled, crashes>>
    BY DEF Ask, Start, About, Its
<1>2. /\ req' \in [Requests -> Slot] /\ req'[q] = d
      /\ \A p \in Requests \ {q} : req'[p] = req[p]
    BY <1>1, SlotStep DEF Asked
<1>3. met \subseteq Orders /\ Its(d) \subseteq Orders /\ disturbed \subseteq Orders
    <2>1. \A p \in Requests : Its(req[p]) \subseteq Orders
        BY SlotTypes DEF Its
    <2> QED
        BY <2>1 DEF Asked, Its, TypeOK
<1>4. /\ \A p \in Requests \ {q} : Its(req[p]) \cap Its(d) # {} => Its(req[p]) \subseteq met
      /\ \A o \in met : \E p \in Requests \ {q} : o \in Its(req[p]) /\ Its(req[p]) \cap Its(d) # {}
    OBVIOUS
<1>5. arrived' \in 0..MaxArrivals
    <2>1. arrived \in 0..MaxArrivals
        BY DEF TypeOK
    <2> QED
        BY <1>1, <2>1, NumbersAssumption
<1> HIDE DEF met
<1>6. CASE met = {} /\ Its(d) \cap disturbed = {}
    <2>1. \A p \in Requests \ {q} : Its(req[p]) \cap Its(d) = {}
        BY <1>4, <1>6
    <2> QED
        BY <1>1, <1>2, <1>3, <1>5, <1>6, <2>1
<1>7. CASE ~ (met = {} /\ Its(d) \cap disturbed = {})
    <2>1. disturbed' = disturbed \cup Its(d) \cup met
        BY <1>1, <1>7
    <2> QED
        BY <1>1, <1>2, <1>3, <1>4, <1>5, <2>1
<1> QED
    BY <1>6, <1>7

LEMMA CrashDoes ==
    ASSUME TypeOK, NEW q \in Requests, Crash(q)
    PROVE  /\ req[q].pc # "idle"
           /\ req' \in [Requests -> Slot] /\ req'[q] = Idle
           /\ \A p \in Requests \ {q} : req'[p] = req[p]
           /\ disturbed' = disturbed \cup Its(req[q]) /\ disturbed' \subseteq Orders
           /\ crashes' \in 0..MaxCrashes
           /\ UNCHANGED <<bill, lines, discounts, units, handed, doubled, arrived>>
<1>1. /\ req[q].pc # "idle" /\ crashes < MaxCrashes /\ crashes' = crashes + 1
      /\ req' = [req EXCEPT ![q] = Idle]
      /\ disturbed' = disturbed \cup Its(req[q])
      /\ UNCHANGED <<bill, lines, discounts, units, handed, doubled, arrived>>
    BY DEF Crash, About, Its
<1>2. /\ req' \in [Requests -> Slot] /\ req'[q] = Idle
      /\ \A p \in Requests \ {q} : req'[p] = req[p]
    BY <1>1, IdleSlot, SlotStep
<1>3. disturbed' \subseteq Orders
    BY <1>1, SlotTypes DEF Its, TypeOK
<1>4. crashes' \in 0..MaxCrashes
    BY <1>1, NumbersAssumption DEF TypeOK
<1> QED
    BY <1>1, <1>2, <1>3, <1>4

LEMMA ProgressDoes ==
    ASSUME TypeOK, NEW o \in Orders, NEW s \in {"SERVED", "CLOSED"}, Progress(o, s)
    PROVE  /\ bill' \in [Orders -> BillRow]
           /\ \A u \in Orders \ {o} : bill'[u] = bill[u]
           /\ bill[o].status \in {"NEW", "SERVED"}
           /\ bill'[o].subtotal = bill[o].subtotal /\ bill'[o].discount = bill[o].discount
           /\ bill'[o].total = bill[o].total /\ bill'[o].into = bill[o].into
           /\ UNCHANGED <<lines, discounts, req, units, handed, disturbed, arrived, doubled, crashes>>
<1> DEFINE row == [bill[o] EXCEPT !.status = s]
<1>1. /\ bill[o].status \in {"NEW", "SERVED"}
      /\ bill' = [bill EXCEPT ![o] = row]
      /\ UNCHANGED <<lines, discounts, req, units, handed, disturbed, arrived, doubled, crashes>>
    BY DEF Progress
<1>2. bill \in [Orders -> BillRow] /\ bill[o] \in BillRow
    BY Types
<1>3. /\ row \in BillRow
      /\ row.subtotal = bill[o].subtotal /\ row.discount = bill[o].discount
      /\ row.total = bill[o].total /\ row.into = bill[o].into
    BY <1>2 DEF BillRow, OrderStatus
<1> HIDE DEF row
<1> QED
    BY <1>1, <1>2, <1>3

-----------------------------------------------------------------------------
(* The types, again                                                        *)

LEMMA TypeStep ==
    ASSUME TypeOK, Carried, Numbered, Next
    PROVE  TypeOK'
<1> USE DEF TypeOK, BillRow, LineRow, DiscountRow, Slot, SlotOver
<1> DEFINE Rows1 == /\ bill' \in [Orders -> BillRow]
                    /\ lines' \in Seq(LineRow) /\ Len(lines') <= MaxRows
                    /\ discounts' \in Seq(DiscountRow) /\ Len(discounts') <= MaxDiscounts
                    /\ req' \in [Requests -> Slot]
           Others == /\ units' \in Int
                     /\ handed' \subseteq Orders /\ doubled' \in BOOLEAN
                     /\ disturbed' \subseteq Orders
                     /\ arrived' \in 0..MaxArrivals /\ crashes' \in 0..MaxCrashes
<1>0. Rows1 /\ Others => TypeOK'
    OBVIOUS
<1> HIDE DEF TypeOK, BillRow, LineRow, DiscountRow, Slot, SlotOver
<1>1. /\ bill \in [Orders -> BillRow]
      /\ lines \in Seq(LineRow) /\ Len(lines) <= MaxRows
      /\ \A i \in DOMAIN lines : lines[i].qty \in Nat
      /\ discounts \in Seq(DiscountRow) /\ Len(discounts) <= MaxDiscounts
      /\ req \in [Requests -> Slot]
    BY Types, SlotTypes, RowsFacts
<1>2. /\ units \in Int /\ handed \subseteq Orders /\ doubled \in BOOLEAN
      /\ disturbed \subseteq Orders /\ arrived \in 0..MaxArrivals /\ crashes \in 0..MaxCrashes
    BY DEF TypeOK
<1>3. ASSUME NEW q \in Requests, Arrive(q)
      PROVE  Rows1 /\ Others
    <2>1. PICK d : Asked(d) /\ Ask(q, d)
        BY <1>3, Arriving
    <2> QED
        BY <1>1, <1>2, <2>1, AskDoes
<1>4. ASSUME NEW q \in Requests, Proceed(q)
      PROVE  Rows1 /\ Others
    <2>1. CASE AddItem(q)
        <3>1. /\ req[q].n \in 1..MaxQuantity /\ units' = units + req[q].n
              /\ req' \in [Requests -> Slot] /\ lines' \in Seq(LineRow) /\ Len(lines') <= MaxRows
              /\ disturbed' = disturbed /\ arrived' = arrived
              /\ UNCHANGED <<bill, discounts, handed, doubled, crashes>>
            BY <2>1, AddItemDoes DEF Went
        <3>2. units' \in Int
            BY <1>2, <3>1, NumbersAssumption
        <3> QED
            BY <1>1, <1>2, <3>1, <3>2
    <2>2. CASE ChangeItem(q)
        <3>1. units - lines[req[q].row].qty + req[q].n \in Int
            BY <1>1, <1>2, <2>2, ChangeItemDoes
        <3> QED
            BY <1>1, <1>2, <2>2, <3>1, ChangeItemDoes DEF Went, Freed
    <2>3. CASE InsertDiscount(q)
        BY <1>1, <1>2, <2>3, InsertDiscountDoes DEF Went, Freed
    <2>4. CASE Claim(q)
        BY <1>1, <1>2, <2>4, ClaimDoes DEF Went, Freed
    <2>5. CASE SumItems(q)
        <3>1. UNCHANGED <<bill, lines, discounts, units, handed, doubled, disturbed, arrived, crashes>>
            BY <2>5 DEF SumItems
        <3> QED
            BY <1>1, <1>2, <2>5, <3>1, ReadStep
    <2>6. CASE ReadSubtotal(q)
        <3>1. req[q].of \in Orders
            BY <2>6 DEF ReadSubtotal, Carried
        <3>2. UNCHANGED <<bill, lines, discounts, units, handed, doubled, disturbed, arrived, crashes>>
            BY <2>6 DEF ReadSubtotal
        <3> QED
            BY <1>1, <1>2, <2>6, <3>1, <3>2, ReadStep
    <2>7. CASE ReadDiscount(q)
        <3>1. req[q].of \in Orders
            BY <2>7 DEF ReadDiscount, Carried
        <3>2. UNCHANGED <<bill, lines, discounts, units, handed, doubled, disturbed, arrived, crashes>>
            BY <2>7 DEF ReadDiscount
        <3> QED
            BY <1>1, <1>2, <2>7, <3>1, <3>2, ReadStep
    <2>8. CASE WriteTotals(q)
        BY <1>1, <1>2, <2>8, WriteTotalsDoes DEF Freed
    <2>9. CASE Merge(q)
        BY <1>1, <1>2, <2>9, MergeDoes DEF Freed
    <2>10. CASE Move(q)
        <3>1. /\ req' \in [Requests -> Slot] /\ doubled' \in BOOLEAN
              /\ disturbed' = disturbed /\ arrived' = arrived
              /\ UNCHANGED <<discounts, units, crashes>>
            BY <2>10, MoveDoes DEF Freed
        <3>2. \/ UNCHANGED <<bill, lines, handed>>
              \/ /\ lines' \in Seq(LineRow) /\ Len(lines') <= MaxRows
                 /\ bill' \in [Orders -> BillRow]
                 /\ handed' = handed \cup {req[q].of, req[q].to}
                 /\ {req[q].of, req[q].to} \subseteq Orders
            BY <2>10, MoveDoes
        <3> QED
            BY <1>1, <1>2, <3>1, <3>2
    <2> QED
        BY <1>4, <2>1, <2>2, <2>3, <2>4, <2>5, <2>6, <2>7, <2>8, <2>9, <2>10 DEF Proceed
<1>5. ASSUME NEW q \in Requests, Crash(q)
      PROVE  Rows1 /\ Others
    BY <1>1, <1>2, <1>5, CrashDoes
<1>6. ASSUME NEW o \in Orders, NEW s \in {"SERVED", "CLOSED"}, Progress(o, s)
      PROVE  Rows1 /\ Others
    BY <1>1, <1>2, <1>6, ProgressDoes
<1> QED
    BY <1>0, <1>3, <1>4, <1>5, <1>6 DEF Next

-----------------------------------------------------------------------------
(* What a step leaves alone                                                *)

\* The call of q goes on or ends; it changes its orders, rows it holds, and
\* discounts of its orders.
Around(q) ==
    /\ \A p \in Requests \ {q} : req'[p] = req[p]
    /\ \/ req'[q] = Idle
       \/ /\ req[q].pc \notin {"idle", "merge", "move"}
          /\ \E k \in {"items", "subtotal", "latest", "totals"} : OnTo(req'[q], req[q], k)
    /\ disturbed' = disturbed
    /\ \A o \in Orders \ Its(req[q]) : bill'[o] = bill[o] /\ (o \in handed' <=> o \in handed)
    /\ lines' \in Seq(LineRow) /\ Len(lines') >= Len(lines)
    /\ \A i \in DOMAIN lines : \/ lines'[i] = lines[i]
                               \/ /\ i \in Touched(req[q])
                                  /\ lines'[i].of \in Its(req[q]) \cup {None, lines[i].of}
    /\ \A i \in DOMAIN lines' \ DOMAIN lines : lines'[i].of \in Its(req[q])
    /\ DOMAIN discounts \subseteq DOMAIN discounts'
    /\ \A d \in DOMAIN discounts : /\ discounts'[d].of = discounts[d].of
                                   /\ discounts'[d] = discounts[d] \/ discounts[d].of \in Its(req[q])
    /\ \A d \in DOMAIN discounts' \ DOMAIN discounts : discounts'[d].of \in Its(req[q])

\* A row that a handoff does not name stays; one that it names stays on its order
\* or goes to the target.
LEMMA MovedRow ==
    ASSUME TypeOK, Carried, NEW q \in Requests, Move(q), NEW i \in DOMAIN lines
    PROVE  \/ lines'[i] = lines[i]
           \/ /\ i \in Touched(req[q])
              /\ lines'[i].of \in {req[q].to, lines[i].of}
<1> DEFINE S == req[q].seen
           parts == req[q].parts
<1>1. \/ lines' = lines
      \/ After(lines', S, parts, req[q].to) /\ lines' \in Seq(LineRow) /\ Len(lines') >= Len(lines)
    BY MoveDoes
<1>2. Touched(req[q]) = S \cup Divided(parts)
    BY MoveDoes
<1>3. lines[i] \in LineRow /\ DOMAIN lines = 1..Len(lines) /\ Len(lines) \in Nat
    BY Types
<1> HIDE DEF S, parts
<1>4. ASSUME After(lines', S, parts, req[q].to), lines' \in Seq(LineRow), Len(lines') >= Len(lines),
             i \notin Touched(req[q])
      PROVE  lines'[i] = lines[i]
    <2>1. lines'[i].of = lines[i].of /\ lines'[i].qty = lines[i].qty
        BY <1>2, <1>4 DEF After
    <2>2. i \in DOMAIN lines'
        BY <1>3, <1>4
    <2>3. lines'[i] \in LineRow
        BY <1>4, <2>2
    <2> QED
        BY <1>3, <2>1, <2>3 DEF LineRow
<1> QED
    BY <1>1, <1>2, <1>4 DEF After

LEMMA AroundStep ==
    ASSUME TypeOK, Carried, Numbered, NEW q \in Requests, Proceed(q)
    PROVE  Around(q)
<1>0. None \notin Orders
    BY OrdersAssumption
<1>1. CASE AddItem(q)
    <2>1. /\ req[q].of \in Its(req[q]) /\ Len(lines') = Len(lines) + 1
          /\ lines'[Len(lines) + 1].of = req[q].of
          /\ \A i \in DOMAIN lines : lines'[i] = lines[i]
          /\ lines' \in Seq(LineRow) /\ Went(q, "items") /\ req[q].pc = "change"
          /\ UNCHANGED <<bill, discounts, handed>>
        BY <1>0, <1>1, AddItemDoes DEF Its
    <2>2. DOMAIN lines' \ DOMAIN lines = {Len(lines) + 1}
        BY <2>1, Types
    <2> QED
        BY <2>1, <2>2 DEF Around, Went
<1>2. CASE ChangeItem(q)
    <2>1. /\ req[q].pc = "change" /\ req[q].row \in Touched(req[q])
          /\ Freed(q) \/ Went(q, "items")
          /\ UNCHANGED <<bill, discounts, handed>>
          /\ \/ lines' = lines
             \/ /\ lines' \in Seq(LineRow) /\ Len(lines') = Len(lines)
                /\ \A j \in DOMAIN lines \ {req[q].row} : lines'[j] = lines[j]
                /\ lines'[req[q].row].of \in {None, lines[req[q].row].of}
        BY <1>2, ChangeItemDoes
    <2>2. lines' \in Seq(LineRow) /\ DOMAIN lines' = DOMAIN lines /\ Len(lines') = Len(lines)
        BY <2>1, Types
    <2> QED
        BY <2>1, <2>2 DEF Around, Went, Freed
<1>3. CASE InsertDiscount(q)
    <2>1. /\ req[q].of \in Its(req[q]) /\ Len(discounts') = Len(discounts) + 1
          /\ discounts' \in Seq(DiscountRow)
          /\ discounts'[Len(discounts) + 1].of = req[q].of
          /\ \A d \in DOMAIN discounts : discounts'[d] = discounts[d]
          /\ Freed(q) \/ Went(q, "subtotal")
          /\ req[q].pc = "insertDiscount"
          /\ UNCHANGED <<bill, lines, handed>>
        BY <1>0, <1>3, InsertDiscountDoes DEF Its
    <2>2. /\ DOMAIN discounts' \ DOMAIN discounts = {Len(discounts) + 1}
          /\ DOMAIN discounts \subseteq DOMAIN discounts'
        BY <2>1, Types
    <2>3. lines \in Seq(LineRow)
        BY Types
    <2> QED
        BY <2>1, <2>2, <2>3 DEF Around, Went, Freed
<1>4. CASE Claim(q)
    <2>1. /\ req[q].of \in Its(req[q]) /\ req[q].pc = "claim"
          /\ Freed(q) \/ Went(q, "subtotal")
          /\ discounts[req[q].row].of = req[q].of
          /\ UNCHANGED <<bill, lines, handed>>
          /\ \/ discounts' = discounts
             \/ /\ discounts' \in Seq(DiscountRow) /\ Len(discounts') = Len(discounts)
                /\ \A e \in DOMAIN discounts \ {req[q].row} : discounts'[e] = discounts[e]
                /\ discounts'[req[q].row].of = discounts[req[q].row].of
        BY <1>0, <1>4, ClaimDoes DEF Its
    <2>2. DOMAIN discounts' = DOMAIN discounts
        BY <2>1, Types
    <2>3. lines \in Seq(LineRow)
        BY Types
    <2> QED
        BY <2>1, <2>2, <2>3 DEF Around, Went, Freed
<1>5. CASE SumItems(q) \/ ReadSubtotal(q) \/ ReadDiscount(q)
    <2>1. /\ req[q].pc \in {"items", "subtotal", "latest"}
          /\ UNCHANGED <<bill, lines, discounts, handed, disturbed>>
        BY <1>5 DEF SumItems, ReadSubtotal, ReadDiscount
    <2>2. req[q].of \in Orders
        BY <2>1 DEF Carried
    <2>3. /\ \A p \in Requests \ {q} : req'[p] = req[p]
          /\ OnTo(req'[q], req[q], "latest") \/ OnTo(req'[q], req[q], "totals")
        BY <1>5, <2>2, ReadStep
    <2>4. lines \in Seq(LineRow)
        BY Types
    <2> QED
        BY <2>1, <2>3, <2>4 DEF Around
<1>6. CASE WriteTotals(q)
    <2>1. /\ req[q].of \in Its(req[q]) /\ Freed(q)
          /\ \A u \in Orders \ {req[q].of} : bill'[u] = bill[u]
          /\ handed' = handed \ {req[q].of}
          /\ UNCHANGED <<lines, discounts>>
        BY <1>0, <1>6, WriteTotalsDoes DEF Its
    <2>2. lines \in Seq(LineRow)
        BY Types
    <2> QED
        BY <2>1, <2>2 DEF Around, Freed
<1>7. CASE Merge(q)
    <2>1. /\ {req[q].of, req[q].to} = Its(req[q]) /\ Freed(q)
          /\ discounts' = discounts
          /\ \/ UNCHANGED <<bill, lines, handed>>
             \/ /\ \A u \in Orders \ {req[q].of, req[q].to} : bill'[u] = bill[u]
                /\ handed' = handed \cup {req[q].of, req[q].to}
                /\ lines' \in Seq(LineRow) /\ Len(lines') = Len(lines)
                /\ \A i \in DOMAIN lines :
                       IF i \in Touched(req[q]) THEN lines'[i].of = req[q].to ELSE lines'[i] = lines[i]
        BY <1>0, <1>7, MergeDoes DEF Its
    <2>2. lines' \in Seq(LineRow) /\ DOMAIN lines' = DOMAIN lines /\ Len(lines') = Len(lines)
        BY <2>1, Types
    <2> QED
        BY <2>1, <2>2 DEF Around, Freed
<1>8. CASE Move(q)
    <2>1. /\ {req[q].of, req[q].to} = Its(req[q]) /\ Freed(q)
          /\ discounts' = discounts
          /\ \/ UNCHANGED <<bill, lines, handed>>
             \/ /\ \A u \in Orders \ {req[q].of, req[q].to} : bill'[u] = bill[u]
                /\ handed' = handed \cup {req[q].of, req[q].to}
                /\ lines' \in Seq(LineRow) /\ Len(lines') >= Len(lines)
                /\ \A i \in DOMAIN lines' \ DOMAIN lines : lines'[i].of = req[q].to
        BY <1>0, <1>8, MoveDoes DEF Its
    <2>2. /\ lines' \in Seq(LineRow) /\ Len(lines') >= Len(lines)
          /\ \A i \in DOMAIN lines' \ DOMAIN lines : lines'[i].of = req[q].to
        BY <2>1, Types
    <2>3. ASSUME NEW i \in DOMAIN lines
          PROVE  \/ lines'[i] = lines[i]
                 \/ /\ i \in Touched(req[q])
                    /\ lines'[i].of \in {req[q].to, lines[i].of}
        BY <1>8, MovedRow
    <2> QED
        BY <2>1, <2>2, <2>3 DEF Around, Freed
<1> QED
    BY <1>1, <1>2, <1>3, <1>4, <1>5, <1>6, <1>7, <1>8 DEF Proceed

LEMMA Busy ==
    ASSUME TypeOK, Carried, NEW q \in Requests
    PROVE  /\ Its(req[q]) \subseteq Orders
           /\ Touched(req[q]) \subseteq DOMAIN lines
           /\ Touched(req[q]) # {} => req[q].of \in Orders /\ req[q].of \in Its(req[q])
           /\ req[q].of \in Orders => req[q].of \in Its(req[q])
           /\ req[q].pc # "idle" => req[q].of \in Orders
<1>1. Its(req[q]) \subseteq Orders
    BY SlotTypes DEF Its
<1>2. req[q].of \in Orders => req[q].of \in Its(req[q])
    BY OrdersAssumption DEF Its
<1>3. req[q].pc # "idle" => req[q].of \in Orders
    BY DEF Carried
<1>4. Touched(req[q]) # {} => req[q].pc # "idle"
    BY DEF Touched
<1>5. Touched(req[q]) \subseteq DOMAIN lines
    <2>1. CASE req[q].pc = "merge"
        BY <2>1 DEF Touched, Carried
    <2>2. CASE req[q].pc = "change"
        <3>1. req[q].row \in 0..Len(lines)
            BY <2>2 DEF Carried
        <3>2. Touched(req[q]) = {req[q].row} \ {0}
            BY <2>2 DEF Touched
        <3> QED
            BY <3>1, <3>2, Types
    <2>3. CASE req[q].pc = "move"
        BY <2>3 DEF Touched, Carried
    <2>4. CASE req[q].pc \notin {"merge", "change", "move"}
        BY <2>4 DEF Touched
    <2> QED
        BY <2>1, <2>2, <2>3, <2>4
<1> QED
    BY <1>1, <1>2, <1>3, <1>4, <1>5

LEMMA Grows ==
    ASSUME TypeOK, NEW q \in Requests, Around(q)
    PROVE  Len(lines) <= Len(lines') /\ DOMAIN lines \subseteq DOMAIN lines' /\ Len(lines') \in Nat
<1> DEFINE m == Len(lines)
           n == Len(lines')
<1>1. lines' \in Seq(LineRow) /\ n >= m
    BY DEF Around
<1>2. DOMAIN lines = 1..m /\ m \in Nat
    BY Types
<1>3. DOMAIN lines' = 1..n /\ n \in Nat
    <2> DEFINE ls == lines'
    <2>1. ls \in Seq(LineRow)
        BY <1>1
    <2> HIDE DEF ls
    <2>2. DOMAIN ls = 1..Len(ls) /\ Len(ls) \in Nat
        BY <2>1
    <2> QED
        BY <2>2 DEF ls
<1> HIDE DEF m, n
<1>5. m <= n
    BY <1>1, <1>2, <1>3
<1>4. \A a, b \in Nat : a <= b => 1..a \subseteq 1..b
    OBVIOUS
<1> QED
    BY <1>2, <1>3, <1>4, <1>5 DEF m, n

LEMMA GoesOn ==
    ASSUME TypeOK, Carried, NEW q \in Requests, Around(q)
    PROVE  /\ Its(req'[q]) \subseteq Its(req[q])
           /\ Touched(req'[q]) = {}
           /\ req'[q].pc \in {"idle", "items", "subtotal", "latest", "totals"}
           /\ req'[q] = Idle \/ (req'[q].of = req[q].of /\ Its(req'[q]) = Its(req[q]))
<1>1. CASE req'[q] = Idle
    <2>1. Idle.pc = "idle"
        BY DEF Idle
    <2> QED
        BY <1>1, <2>1, IdleSlot
<1>2. ASSUME NEW k \in {"items", "subtotal", "latest", "totals"}, OnTo(req'[q], req[q], k)
      PROVE  /\ Its(req'[q]) \subseteq Its(req[q])
             /\ Touched(req'[q]) = {}
             /\ req'[q].pc \in {"idle", "items", "subtotal", "latest", "totals"}
             /\ req'[q].of = req[q].of /\ Its(req'[q]) = Its(req[q])
    BY <1>2 DEF OnTo, Its, Touched
<1> QED
    BY <1>1, <1>2 DEF Around

\* An order that is not disturbed and not the request's is left alone.
LEMMA Aside ==
    ASSUME TypeOK, Carried, Held, NEW q \in Requests, Around(q),
           NEW o \in Orders, o \notin disturbed, o \notin Its(req[q])
    PROVE  /\ \A i \in Touched(req[q]) : lines[i].of # o
           /\ Rows(lines', o) = Rows(lines, o)
           /\ \A i \in Rows(lines, o) : lines'[i] = lines[i]
           /\ Subtotal(lines', o) = Subtotal(lines, o)
           /\ bill'[o] = bill[o] /\ (o \in handed' <=> o \in handed)
           /\ Approved(discounts', o) = Approved(discounts, o)
           /\ \A s, c : Latest(discounts, o, s, c) => Latest(discounts', o, s, c)
<1>0. /\ lines \in Seq(LineRow) /\ DOMAIN lines = 1..Len(lines) /\ Len(lines) \in Nat
      /\ None \notin Orders
    BY Types, OrdersAssumption
<1>1. \A i \in Touched(req[q]) : lines[i].of # o
    <2>1. ASSUME NEW i \in Touched(req[q])
          PROVE  lines[i].of # o
        <3>1. \/ lines[i].of = req[q].of
              \/ lines[i].of \in disturbed \cup {None}
            BY DEF Held
        <3>2. req[q].of \in Its(req[q])
            BY Busy
        <3> QED
            BY <1>0, <3>1, <3>2
    <2> QED
        BY <2>1
<1>2. \A i \in DOMAIN lines : \/ lines'[i] = lines[i]
                              \/ lines[i].of # o /\ lines'[i].of # o
    BY <1>0, <1>1 DEF Around
<1>3. \A i \in DOMAIN lines' \ DOMAIN lines : lines'[i].of # o
    BY DEF Around
<1>4. /\ lines' \in Seq(LineRow) /\ Len(lines') >= Len(lines)
    BY DEF Around
<1>5. Subtotal(lines', o) = Subtotal(lines, o)
    BY <1>0, <1>2, <1>3, <1>4, SubtotalSame
<1>6. DOMAIN lines \subseteq DOMAIN lines'
    BY Grows
<1>7. Rows(lines', o) = Rows(lines, o) /\ \A i \in Rows(lines, o) : lines'[i] = lines[i]
    BY <1>2, <1>3, <1>6 DEF Rows
<1>8. bill'[o] = bill[o] /\ (o \in handed' <=> o \in handed)
    BY DEF Around
<1>9. /\ Approved(discounts', o) = Approved(discounts, o)
      /\ \A d \in Approved(discounts, o) : discounts'[d] = discounts[d]
    <2>1. \A d \in DOMAIN discounts : /\ d \in DOMAIN discounts'
                                      /\ discounts'[d].of = discounts[d].of
                                      /\ discounts[d].of = o => discounts'[d] = discounts[d]
        BY DEF Around
    <2>2. \A d \in DOMAIN discounts' : d \in DOMAIN discounts \/ discounts'[d].of # o
        BY DEF Around
    <2> QED
        BY <2>1, <2>2 DEF Approved
<1>10. \A s, c : Latest(discounts, o, s, c) => Latest(discounts', o, s, c)
    BY <1>9 DEF Latest
<1> QED
    BY <1>1, <1>5, <1>7, <1>8, <1>9, <1>10

-----------------------------------------------------------------------------
(* The parts of the invariant about requests                               *)

\* What a slot may carry, given the rows that there are.
CarriedBy(x, rows, ds) ==
    /\ IF x.pc = "idle" THEN x = Idle ELSE x.of \in Orders
    /\ IF x.pc \in {"merge", "move"} THEN x.to \in Orders \ {x.of} ELSE x.to = None
    /\ x.pc = "change" => /\ x.row \in 0..Len(rows)
                          /\ x.row = 0 => x.n > 0
    /\ x.pc \in {"merge", "move"} => Touched(x) \subseteq DOMAIN rows
    /\ x.pc = "insertDiscount" => x.kind \in Kinds
    /\ x.pc = "claim" => /\ x.row \in DOMAIN ds
                         /\ ds[x.row].of = x.of
                         /\ x.status \in {"APPROVED", "REJECTED"}

LEMMA CarriedIs == /\ Carried <=> \A r \in Requests : CarriedBy(req[r], lines, discounts)
                   /\ Carried' <=> \A r \in Requests : CarriedBy(req'[r], lines', discounts')
BY DEF Carried, CarriedBy

LEMMA CarriedStep ==
    ASSUME TypeOK, Carried, Numbered, Next
    PROVE  Carried'
<1> USE DEF CarriedBy
<1>0. \A r \in Requests : CarriedBy(req[r], lines, discounts)
    BY CarriedIs
<1>1. CarriedBy(Idle, lines', discounts')
    BY DEF Idle
<1>2. ASSUME NEW q \in Requests, Arrive(q), NEW r \in Requests
      PROVE  CarriedBy(req'[r], lines', discounts')
    <2>1. PICK d : Asked(d) /\ Ask(q, d)
        BY <1>2, Arriving
    <2>2. req'[q] = d /\ \A p \in Requests \ {q} : req'[p] = req[p]
        BY <2>1, AskDoes
    <2>3. lines' = lines /\ discounts' = discounts
        BY <2>1, AskDoes
    <2>4. CarriedBy(d, lines, discounts)
        BY <2>1 DEF Asked, ItemsOf, Touched
    <2> HIDE DEF CarriedBy
    <2> QED
        BY <1>0, <2>2, <2>3, <2>4
<1>3. ASSUME NEW q \in Requests, Proceed(q), NEW r \in Requests
      PROVE  CarriedBy(req'[r], lines', discounts')
    <2>1. Around(q)
        BY <1>3, AroundStep
    <2>2. CASE r = q
        <3>1. CASE req'[q] = Idle
            BY <1>1, <2>2, <3>1
        <3>2. CASE req'[q] # Idle
            <4>1. PICK k \in {"items", "subtotal", "latest", "totals"} : OnTo(req'[q], req[q], k)
                BY <2>1, <3>2 DEF Around
            <4>2. req[q].pc \notin {"idle", "merge", "move"}
                BY <2>1, <3>2 DEF Around
            <4>3. req[q].of \in Orders /\ req[q].to = None
                BY <1>0, <4>2
            <4> QED
                BY <2>2, <4>1, <4>3 DEF OnTo
        <3> QED
            BY <3>1, <3>2
    <2>3. CASE r # q
        <3>1. req'[r] = req[r]
            BY <2>1, <2>3 DEF Around
        <3>2. Len(lines) <= Len(lines') /\ DOMAIN lines \subseteq DOMAIN lines' /\ Len(lines') \in Nat
            BY <2>1, Grows
        <3>3. \A d \in DOMAIN discounts : d \in DOMAIN discounts' /\ discounts'[d].of = discounts[d].of
            BY <2>1 DEF Around
        <3>4. Len(lines) \in Nat
            BY Types
        <3>5. req[r].row \in 0..Len(lines) => req[r].row \in 0..Len(lines')
            BY <3>2, <3>4
        <3> QED
            BY <1>0, <3>1, <3>2, <3>3, <3>5
    <2> QED
        BY <2>2, <2>3
<1> HIDE DEF CarriedBy
<1>4. ASSUME NEW q \in Requests, Crash(q), NEW r \in Requests
      PROVE  CarriedBy(req'[r], lines', discounts')
    <2>1. /\ req'[q] = Idle /\ \A p \in Requests \ {q} : req'[p] = req[p]
          /\ lines' = lines /\ discounts' = discounts
        BY <1>4, CrashDoes
    <2> QED
        BY <1>0, <1>1, <2>1
<1>5. ASSUME NEW o \in Orders, NEW s \in {"SERVED", "CLOSED"}, Progress(o, s), NEW r \in Requests
      PROVE  CarriedBy(req'[r], lines', discounts')
    BY <1>0, <1>5, ProgressDoes
<1> QED
    BY <1>2, <1>3, <1>4, <1>5, CarriedIs DEF Next

LEMMA ApartStep ==
    ASSUME TypeOK, Carried, Numbered, Apart, Next
    PROVE  Apart'
<1>0. \A p \in Requests :
          /\ Its(req[p]) \cap disturbed # {} => Its(req[p]) \subseteq disturbed
          /\ \A u \in Requests \ {p} :
                 Its(req[p]) \cap Its(req[u]) # {} => Its(req[p]) \subseteq disturbed
    BY DEF Apart
<1> DEFINE A(p) == /\ Its(req'[p]) \cap disturbed' # {} => Its(req'[p]) \subseteq disturbed'
                   /\ \A u \in Requests \ {p} :
                          Its(req'[p]) \cap Its(req'[u]) # {} => Its(req'[p]) \subseteq disturbed'
<1>1. (\A p \in Requests : A(p)) => Apart'
    BY DEF Apart
<1>2. ASSUME NEW q \in Requests, Arrive(q), NEW p \in Requests
      PROVE  A(p)
    <2>1. PICK d : Asked(d) /\ Ask(q, d)
        BY <1>2, Arriving
    <2>2. /\ req'[q] = d /\ \A r \in Requests \ {q} : req'[r] = req[r]
          /\ disturbed \subseteq disturbed'
        BY <2>1, AskDoes
    <2>3. CASE /\ disturbed' = disturbed
               /\ Its(d) \cap disturbed = {}
               /\ \A r \in Requests \ {q} : Its(req[r]) \cap Its(d) = {}
        BY <1>0, <2>2, <2>3
    <2>4. CASE /\ Its(d) \subseteq disturbed'
               /\ \A r \in Requests \ {q} :
                      Its(req[r]) \cap Its(d) # {} => Its(req[r]) \subseteq disturbed'
               /\ \A o \in disturbed' :
                      \/ o \in disturbed \cup Its(d)
                      \/ \E r \in Requests \ {q} : o \in Its(req[r]) /\ Its(req[r]) \cap Its(d) # {}
        <3>1. CASE p = q
            BY <2>2, <2>4, <3>1
        <3>2. CASE p # q
            <4>1. ASSUME Its(req[p]) \cap disturbed' # {}
                  PROVE  Its(req[p]) \subseteq disturbed'
                <5>1. PICK o \in Its(req[p]) : o \in disturbed'
                    BY <4>1
                <5>2. CASE o \in disturbed
                    BY <1>0, <2>2, <5>1, <5>2
                <5>3. CASE o \in Its(d)
                    BY <2>4, <3>2, <5>1, <5>3
                <5>4. ASSUME NEW r \in Requests \ {q}, o \in Its(req[r]), Its(req[r]) \cap Its(d) # {}
                      PROVE  Its(req[p]) \subseteq disturbed'
                    <6>1. CASE r = p
                        BY <2>4, <3>2, <5>4, <6>1
                    <6>2. CASE r # p
                        BY <1>0, <2>2, <5>1, <5>4, <6>2
                    <6> QED
                        BY <6>1, <6>2
                <5> QED
                    BY <2>4, <5>1, <5>2, <5>3, <5>4
            <4>2. ASSUME NEW u \in Requests \ {p}, Its(req[p]) \cap Its(req'[u]) # {}
                  PROVE  Its(req[p]) \subseteq disturbed'
                <5>1. CASE u = q
                    BY <2>2, <2>4, <3>2, <4>2, <5>1
                <5>2. CASE u # q
                    BY <1>0, <2>2, <4>2, <5>2
                <5> QED
                    BY <5>1, <5>2
            <4>3. req'[p] = req[p]
                BY <2>2, <3>2
            <4> QED
                BY <4>1, <4>2, <4>3
        <3> QED
            BY <3>1, <3>2
    <2> QED
        BY <2>1, <2>3, <2>4, AskDoes
<1>3. ASSUME NEW q \in Requests, NEW p \in Requests,
             \A r \in Requests \ {q} : req'[r] = req[r],
             Its(req'[q]) \subseteq Its(req[q]), disturbed' = disturbed
      PROVE  A(p)
    <2>1. \A r \in Requests : Its(req'[r]) \subseteq Its(req[r])
        BY <1>3
    <2> QED
        BY <1>0, <1>3, <2>1
<1>4. ASSUME NEW q \in Requests, Proceed(q), NEW p \in Requests
      PROVE  A(p)
    <2>1. Around(q) /\ Its(req'[q]) \subseteq Its(req[q])
        BY <1>4, AroundStep, GoesOn
    <2>2. disturbed' = disturbed /\ \A r \in Requests \ {q} : req'[r] = req[r]
        BY <2>1 DEF Around
    <2> QED
        BY <1>3, <2>1, <2>2
<1>5. ASSUME NEW q \in Requests, Crash(q), NEW p \in Requests
      PROVE  A(p)
    <2>1. /\ Its(req'[q]) = {} /\ disturbed' = disturbed \cup Its(req[q])
          /\ \A r \in Requests \ {q} : req'[r] = req[r]
        BY <1>5, CrashDoes, IdleSlot
    <2> QED
        BY <1>0, <2>1
<1>6. ASSUME NEW o \in Orders, NEW s \in {"SERVED", "CLOSED"}, Progress(o, s), NEW p \in Requests
      PROVE  A(p)
    <2>1. req' = req /\ disturbed' = disturbed
        BY <1>6, ProgressDoes
    <2> QED
        BY <1>0, <2>1
<1> HIDE DEF A
<1> QED
    BY <1>1, <1>2, <1>4, <1>5, <1>6 DEF Next

LEMMA HeldStep ==
    ASSUME TypeOK, Carried, Numbered, Apart, Held, Next
    PROVE  Held'
<1> DEFINE On(x, rows, dis) == \A i \in Touched(x) : \/ rows[i].of = x.of
                                                     \/ x.of \in dis /\ rows[i].of \in dis \cup {None}
           Seen(x, rows, dis) == x.of \notin dis =>
               /\ x.pc = "move" => Fits(x.parts, rows)
               /\ x.pc = "merge" => x.seen = {i \in DOMAIN rows : rows[i].of = x.of}
<1>0. /\ \A p \in Requests : On(req[p], lines, disturbed) /\ Seen(req[p], lines, disturbed)
      /\ (\A p \in Requests : On(req'[p], lines', disturbed') /\ Seen(req'[p], lines', disturbed'))
            => Held'
    BY DEF Held
<1>1. None \notin Orders /\ Touched(Idle) = {} /\ Idle.pc = "idle"
    BY OrdersAssumption, IdleSlot DEF Idle
<1>2. ASSUME NEW q \in Requests, Arrive(q), NEW p \in Requests
      PROVE  On(req'[p], lines', disturbed') /\ Seen(req'[p], lines', disturbed')
    <2>1. PICK d : Asked(d) /\ Ask(q, d)
        BY <1>2, Arriving
    <2>2. /\ req'[q] = d /\ \A r \in Requests \ {q} : req'[r] = req[r]
          /\ disturbed \subseteq disturbed' /\ lines' = lines
        BY <2>1, AskDoes
    <2>3. \A i \in Touched(d) : lines[i].of = d.of
        BY <2>1 DEF Asked, Touched, ItemsOf
    <2>4. Seen(d, lines, disturbed')
        BY <2>1 DEF Asked
    <2> QED
        BY <1>0, <2>2, <2>3, <2>4
<1>3. ASSUME NEW q \in Requests, Proceed(q), NEW p \in Requests
      PROVE  On(req'[p], lines', disturbed') /\ Seen(req'[p], lines', disturbed')
    <2>1. Around(q)
        BY <1>3, AroundStep
    <2>2. CASE p = q
        <3>1. Touched(req'[q]) = {} /\ req'[q].pc \notin {"move", "merge"}
            BY <2>1, GoesOn
        <3> QED
            BY <2>2, <3>1
    <2>3. CASE p # q
        <3>1. req'[p] = req[p] /\ disturbed' = disturbed
            BY <2>1, <2>3 DEF Around
        <3>2. Its(req[p]) \cap Its(req[q]) # {} =>
                  Its(req[p]) \subseteq disturbed /\ Its(req[q]) \subseteq disturbed
            BY <2>3 DEF Apart
        <3>3. /\ Its(req[q]) \cap disturbed # {} => Its(req[q]) \subseteq disturbed
              /\ Its(req[p]) \cap disturbed # {} => Its(req[p]) \subseteq disturbed
            BY DEF Apart
        <3>4. disturbed \subseteq Orders
            BY DEF TypeOK
        <3>5. On(req[p], lines', disturbed)
            <4> SUFFICES ASSUME NEW i \in Touched(req[p])
                         PROVE  \/ lines'[i].of = req[p].of
                                \/ req[p].of \in disturbed /\ lines'[i].of \in disturbed \cup {None}
                OBVIOUS
            <4>1. i \in DOMAIN lines /\ req[p].of \in Its(req[p])
                BY Busy
            <4>2. \/ lines[i].of = req[p].of
                  \/ req[p].of \in disturbed /\ lines[i].of \in disturbed \cup {None}
                BY <1>0
            <4>3. CASE lines'[i] = lines[i]
                BY <4>2, <4>3
            <4>4. CASE /\ i \in Touched(req[q])
                       /\ lines'[i].of \in Its(req[q]) \cup {None, lines[i].of}
                <5>1. req[q].of \in Its(req[q])
                    BY <4>4, Busy
                <5>2. \/ lines[i].of = req[q].of
                      \/ req[q].of \in disturbed /\ lines[i].of \in disturbed \cup {None}
                    BY <1>0, <4>4
                <5>3. /\ Its(req[p]) \subseteq Orders /\ Its(req[q]) \subseteq Orders
                    BY Busy
                <5>4. Its(req[p]) \subseteq disturbed /\ Its(req[q]) \subseteq disturbed
                    BY <1>1, <3>2, <3>3, <4>1, <4>2, <5>1, <5>2, <5>3
                <5>5. lines[i].of \in disturbed \cup {None}
                    BY <4>1, <4>2, <5>4
                <5> QED
                    BY <4>1, <4>4, <5>4, <5>5
            <4> QED
                BY <2>1, <4>1, <4>3, <4>4 DEF Around
        <3>6. Seen(req[p], lines', disturbed)
            <4> SUFFICES ASSUME req[p].of \notin disturbed, req[p].pc \in {"move", "merge"}
                         PROVE  /\ req[p].pc = "move" => Fits(req[p].parts, lines')
                                /\ req[p].pc = "merge" =>
                                       req[p].seen = {i \in DOMAIN lines' : lines'[i].of = req[p].of}
                BY <1>0
            <4>1. req[p].of \in Orders /\ req[p].of \in Its(req[p])
                BY Busy
            <4>2. req[p].of \notin Its(req[q])
                BY <3>2, <4>1
            <4>3. /\ Rows(lines', req[p].of) = Rows(lines, req[p].of)
                  /\ \A i \in Rows(lines, req[p].of) : lines'[i] = lines[i]
                <5> DEFINE o == req[p].of
                <5>1. o \in Orders /\ o \notin disturbed /\ o \notin Its(req[q])
                    BY <4>1, <4>2
                <5> HIDE DEF o
                <5>2. /\ Rows(lines', o) = Rows(lines, o)
                      /\ \A i \in Rows(lines, o) : lines'[i] = lines[i]
                    BY <2>1, <5>1, Aside
                <5> QED
                    BY <5>2 DEF o
            <4>4. CASE req[p].pc = "move"
                <5>1. Divided(req[p].parts) \subseteq Rows(lines, req[p].of)
                    <6>1. Divided(req[p].parts) \subseteq Touched(req[p])
                        BY <4>4 DEF Touched
                    <6>2. \A i \in Touched(req[p]) : i \in DOMAIN lines /\ lines[i].of = req[p].of
                        BY <1>0, Busy
                    <6> QED
                        BY <6>1, <6>2 DEF Rows
                <5>2. Fits(req[p].parts, lines)
                    BY <1>0, <4>4
                <5>3. ASSUME NEW k \in DOMAIN req[p].parts
                      PROVE  lines'[req[p].parts[k].row] = lines[req[p].parts[k].row]
                    <6>1. req[p].parts[k].row \in Divided(req[p].parts)
                        BY DEF Divided
                    <6> QED
                        BY <4>3, <5>1, <6>1
                <5>4. Fits(req[p].parts, lines')
                    BY <5>2, <5>3 DEF Fits
                <5> QED
                    BY <4>4, <5>4
            <4>5. CASE req[p].pc = "merge"
                BY <1>0, <4>3, <4>5 DEF Rows
            <4> QED
                BY <4>4, <4>5
        <3> QED
            BY <3>1, <3>5, <3>6
    <2> QED
        BY <2>2, <2>3
<1>4. ASSUME NEW q \in Requests, Crash(q), NEW p \in Requests
      PROVE  On(req'[p], lines', disturbed') /\ Seen(req'[p], lines', disturbed')
    <2>1. /\ req'[q] = Idle /\ disturbed \subseteq disturbed' /\ lines' = lines
          /\ \A r \in Requests \ {q} : req'[r] = req[r]
        BY <1>4, CrashDoes
    <2> QED
        BY <1>0, <1>1, <2>1
<1>5. ASSUME NEW o \in Orders, NEW s \in {"SERVED", "CLOSED"}, Progress(o, s), NEW p \in Requests
      PROVE  On(req'[p], lines', disturbed') /\ Seen(req'[p], lines', disturbed')
    <2>1. req' = req /\ disturbed' = disturbed /\ lines' = lines
        BY <1>5, ProgressDoes
    <2> QED
        BY <1>0, <2>1
<1> HIDE DEF On, Seen
<1> QED
    BY <1>0, <1>2, <1>3, <1>4, <1>5 DEF Next

-----------------------------------------------------------------------------
(* Approvals are numbered                                                  *)

LEMMA ApprovalAdded ==
    ASSUME TypeOK, Numbered, NEW ds, NEW k, k \notin AllApproved(discounts), k \in 1..MaxDiscounts,
           AllApproved(ds) = AllApproved(discounts) \cup {k},
           \A d \in AllApproved(discounts) : ds[d].at = discounts[d].at,
           ds[k].at = 1 + Cardinality(AllApproved(discounts))
    PROVE  /\ \A d \in AllApproved(ds) : ds[d].at \in 1..Cardinality(AllApproved(ds))
           /\ \A d, e \in AllApproved(ds) : ds[d].at = ds[e].at => d = e
<1> DEFINE A == AllApproved(discounts)
           c == Cardinality(A)
<1>1. IsFiniteSet(A) /\ c \in Nat
    BY NextApprovalBounds
<1>2. Cardinality(A \cup {k}) = c + 1
    BY <1>1, FS_AddElement
<1>3. \A d \in A : ds[d].at \in 1..c
    BY DEF Numbered
<1>4. \A d, e \in A : ds[d].at = ds[e].at => d = e
    BY DEF Numbered
<1>5. AllApproved(ds) = A \cup {k} /\ ds[k].at = 1 + c
    OBVIOUS
<1> HIDE DEF A, c
<1>6. \A d \in A : ds[d].at # ds[k].at /\ ds[d].at \in 1..(c + 1)
    BY <1>1, <1>3, <1>5
<1>7. ds[k].at \in 1..(c + 1)
    BY <1>1, <1>5
<1> QED
    BY <1>2, <1>4, <1>5, <1>6, <1>7

\* Two kinds of calls write the discounts.
LEMMA OnlyDiscounts ==
    ASSUME NEW q \in Requests, Proceed(q), ~ InsertDiscount(q), ~ Claim(q)
    PROVE  discounts' = discounts
<1>1. CASE AddItem(q) \/ ChangeItem(q) \/ WriteTotals(q)
    BY <1>1 DEF AddItem, ChangeItem, WriteTotals
<1>2. CASE SumItems(q) \/ ReadSubtotal(q) \/ ReadDiscount(q)
    BY <1>2 DEF SumItems, ReadSubtotal, ReadDiscount
<1>3. CASE Merge(q)
    BY <1>3 DEF Merge
<1>4. CASE Move(q)
    BY <1>4 DEF Move
<1> QED
    BY <1>1, <1>2, <1>3, <1>4 DEF Proceed

LEMMA NumberedStep ==
    ASSUME TypeOK, Carried, Numbered, Next
    PROVE  Numbered'
<1>0. /\ discounts' = discounts => Numbered'
      /\ (/\ \A d \in AllApproved(discounts') :
                 discounts'[d].at \in 1..Cardinality(AllApproved(discounts'))
          /\ \A d, e \in AllApproved(discounts') : discounts'[d].at = discounts'[e].at => d = e)
             => Numbered'
    BY DEF Numbered
<1>1. ASSUME NEW q \in Requests, InsertDiscount(q)
      PROVE  Numbered'
    <2> DEFINE k == Len(discounts) + 1
    <2>1. /\ discounts' \in Seq(DiscountRow) /\ Len(discounts') = k /\ Len(discounts') <= MaxDiscounts
          /\ \A d \in DOMAIN discounts : discounts'[d] = discounts[d]
          /\ \/ /\ discounts'[k].status = "APPROVED"
                /\ discounts'[k].at = 1 + Cardinality(AllApproved(discounts))
             \/ discounts'[k].status = "PENDING"
        BY <1>1, InsertDiscountDoes
    <2>2. /\ DOMAIN discounts' = DOMAIN discounts \cup {k} /\ k \notin DOMAIN discounts
          /\ k \in 1..MaxDiscounts
        BY <2>1, Types, NumbersAssumption
    <2> HIDE DEF k
    <2>3. CASE discounts'[k].status = "PENDING"
        <3>1. AllApproved(discounts') = AllApproved(discounts)
            BY <2>1, <2>2, <2>3 DEF AllApproved
        <3>2. \A d \in AllApproved(discounts) : discounts'[d] = discounts[d]
            BY <2>1 DEF AllApproved
        <3> QED
            BY <1>0, <3>1, <3>2 DEF Numbered
    <2>4. CASE /\ discounts'[k].status = "APPROVED"
               /\ discounts'[k].at = 1 + Cardinality(AllApproved(discounts))
        <3>1. /\ AllApproved(discounts') = AllApproved(discounts) \cup {k}
              /\ k \notin AllApproved(discounts)
              /\ \A d \in AllApproved(discounts) : discounts'[d].at = discounts[d].at
            BY <2>1, <2>2, <2>4 DEF AllApproved
        <3> QED
            BY <1>0, <2>2, <2>4, <3>1, ApprovalAdded
    <2> QED
        BY <2>1, <2>3, <2>4
<1>2. ASSUME NEW q \in Requests, Claim(q)
      PROVE  Numbered'
    <2> DEFINE k == req[q].row
    <2>1. /\ k \in DOMAIN discounts
          /\ \/ discounts' = discounts
             \/ /\ discounts[k].status = "PENDING"
                /\ discounts' \in Seq(DiscountRow) /\ Len(discounts') = Len(discounts)
                /\ \A e \in DOMAIN discounts \ {k} : discounts'[e] = discounts[e]
                /\ \/ /\ discounts'[k].status = "APPROVED"
                      /\ discounts'[k].at = 1 + Cardinality(AllApproved(discounts))
                   \/ discounts'[k].status = "REJECTED"
        BY <1>2, ClaimDoes
    <2> HIDE DEF k
    <2>2. CASE discounts' = discounts
        BY <1>0, <2>2
    <2>3. CASE discounts' # discounts
        <3>1. /\ DOMAIN discounts' = DOMAIN discounts /\ k \in 1..MaxDiscounts
              /\ k \notin AllApproved(discounts)
            BY <2>1, <2>3, Types, NumbersAssumption DEF AllApproved
        <3>2. CASE discounts'[k].status = "REJECTED"
            <4>1. AllApproved(discounts') = AllApproved(discounts)
                BY <2>1, <2>3, <3>1, <3>2 DEF AllApproved
            <4>2. \A d \in AllApproved(discounts) : discounts'[d] = discounts[d]
                BY <2>1, <3>1 DEF AllApproved
            <4> QED
                BY <1>0, <4>1, <4>2 DEF Numbered
        <3>3. CASE /\ discounts'[k].status = "APPROVED"
                   /\ discounts'[k].at = 1 + Cardinality(AllApproved(discounts))
            <4>1. /\ AllApproved(discounts') = AllApproved(discounts) \cup {k}
                  /\ \A d \in AllApproved(discounts) : discounts'[d].at = discounts[d].at
                BY <2>1, <2>3, <3>1, <3>3 DEF AllApproved
            <4> QED
                BY <1>0, <3>1, <3>3, <4>1, ApprovalAdded
        <3> QED
            BY <2>1, <2>3, <3>2, <3>3
    <2> QED
        BY <2>2, <2>3
<1>3. ASSUME NEW q \in Requests, Arrive(q)
      PROVE  discounts' = discounts
    BY <1>3, Arriving, AskDoes
<1>4. ASSUME NEW q \in Requests, Proceed(q), ~ InsertDiscount(q), ~ Claim(q)
      PROVE  discounts' = discounts
    BY <1>4, OnlyDiscounts
<1>5. ASSUME NEW q \in Requests, Crash(q)
      PROVE  discounts' = discounts
    BY <1>5 DEF Crash
<1>6. ASSUME NEW o \in Orders, NEW s \in {"SERVED", "CLOSED"}, Progress(o, s)
      PROVE  discounts' = discounts
    BY <1>6 DEF Progress
<1> QED
    BY <1>0, <1>1, <1>2, <1>3, <1>4, <1>5, <1>6 DEF Next

-----------------------------------------------------------------------------
(* The bill is right, or a request knows what is                           *)

\* No request about o is between its change and its totals.
Quiet(o) == \A r \in Requests : o \in Its(req[r]) => req[r].pc \in Before

\* A request knows the right totals, as far as it has come.
Known(x) ==
    x.of \notin disturbed =>
        /\ x.pc = "subtotal" => bill[x.of].subtotal = Subtotal(lines, x.of)
        /\ x.pc \in {"latest", "totals"} =>
               /\ x.sum = Subtotal(lines, x.of)
               /\ ~ x.full => bill[x.of].subtotal = x.sum
        /\ x.pc = "totals" => Latest(discounts, x.of, x.sum, x.cut)

LEMMA SettledIs ==
    /\ Settled <=> \A o \in Orders \ disturbed : Quiet(o) => Correct(bill, lines, discounts, o)
    /\ Settled' <=> \A o \in Orders \ disturbed' : Quiet(o)' => Correct(bill, lines, discounts, o)'
    /\ Recalculating <=> \A r \in Requests : Known(req[r])
    /\ Recalculating' <=> \A r \in Requests : Known(req[r])'
BY DEF Settled, Quiet, Recalculating, Known

\* Nobody else is about the orders of a request, unless they are disturbed.
LEMMA Alone ==
    ASSUME Apart, NEW q \in Requests, NEW o \in Its(req[q]), o \notin disturbed
    PROVE  /\ Its(req[q]) \cap disturbed = {}
           /\ \A r \in Requests \ {q} : o \notin Its(req[r])
BY DEF Apart

\* Before its change, a request finds its orders right.
LEMMA FoundRight ==
    ASSUME TypeOK, Carried, Apart, Settled, NEW q \in Requests, NEW o \in Its(req[q]),
           o \notin disturbed, req[q].pc \in Before
    PROVE  Correct(bill, lines, discounts, o)
<1>1. o \in Orders
    BY Busy
<1>2. Quiet(o)
    BY Alone DEF Quiet
<1> QED
    BY <1>1, <1>2, SettledIs

\* What a request does not concern stays right.
LEMMA OthersRight ==
    ASSUME TypeOK, Carried, Apart, Held, Settled, Recalculating, NEW q \in Requests, Around(q)
    PROVE  /\ \A o \in Orders \ disturbed :
                  o \notin Its(req[q]) /\ Quiet(o)' => Correct(bill, lines, discounts, o)'
           /\ \A r \in Requests \ {q} : Known(req[r])'
<1>0. disturbed' = disturbed /\ \A r \in Requests \ {q} : req'[r] = req[r]
    BY DEF Around
<1>1. ASSUME NEW o \in Orders, o \notin disturbed, o \notin Its(req[q]), Quiet(o)'
      PROVE  Correct(bill, lines, discounts, o)'
    <2>1. Quiet(o)
        BY <1>0, <1>1 DEF Quiet
    <2>2. Correct(bill, lines, discounts, o)
        BY <1>1, <2>1, SettledIs
    <2>3. /\ Subtotal(lines', o) = Subtotal(lines, o)
          /\ bill'[o] = bill[o] /\ (o \in handed' <=> o \in handed)
          /\ \A s, c : Latest(discounts, o, s, c) => Latest(discounts', o, s, c)
        BY <1>1, Aside
    <2> QED
        BY <2>2, <2>3 DEF Correct
<1>2. ASSUME NEW r \in Requests \ {q}
      PROVE  Known(req[r])'
    <2>1. CASE req[r].pc = "idle"
        BY <1>0, <2>1 DEF Known
    <2>2. CASE req[r].pc # "idle" /\ req[r].of \notin disturbed
        <3> DEFINE o == req[r].of
        <3>1. o \in Orders /\ o \in Its(req[r])
            BY <2>2, Busy
        <3>2. o \notin Its(req[q])
            BY <2>2, <3>1, Alone
        <3>3. o \notin disturbed
            BY <2>2
        <3> HIDE DEF o
        <3>4. /\ Subtotal(lines', o) = Subtotal(lines, o)
              /\ bill'[o] = bill[o]
              /\ \A s, c : Latest(discounts, o, s, c) => Latest(discounts', o, s, c)
            BY <3>1, <3>2, <3>3, Aside
        <3>5. Known(req[r])
            BY SettledIs
        <3> QED
            BY <1>0, <2>2, <3>4, <3>5 DEF Known, o
    <2>3. CASE req[r].of \in disturbed
        BY <1>0, <2>3 DEF Known
    <2> QED
        BY <2>1, <2>2, <2>3
<1> QED
    BY <1>1, <1>2

\* After its change, a request leaves its orders to its recalculation.
LEMMA OwnLeft ==
    ASSUME TypeOK, Carried, NEW q \in Requests, NEW k \in {"items", "subtotal", "latest", "totals"},
           Went(q, k), NEW o \in Its(req[q])
    PROVE  ~ Quiet(o)'
<1>1. Its(req'[q]) = Its(req[q]) /\ req'[q].pc = k
    BY DEF Went, OnTo, Its
<1> QED
    BY <1>1 DEF Quiet, Before

LEMMA KnownIdle == \A q \in Requests : req'[q] = Idle => Known(req[q])'
BY DEF Known, Idle

\* What a request does to its own orders.
Own(q) == /\ \A o \in Its(req[q]) \ disturbed : Quiet(o)' => Correct(bill, lines, discounts, o)'
          /\ Known(req[q])'

\* A discount that is not approved changes nothing.
LEMMA SameDiscounts ==
    ASSUME Numbered, NEW o, Approved(discounts', o) = Approved(discounts, o),
           \A d \in Approved(discounts, o) : discounts'[d] = discounts[d],
           bill' = bill, lines' = lines, handed' = handed, Correct(bill, lines, discounts, o)
    PROVE  Correct(bill, lines, discounts, o)'
<1>1. \A s, c : Latest(discounts, o, s, c) => Latest(discounts', o, s, c)
    BY DEF Latest
<1> QED
    BY <1>1 DEF Correct

LEMMA OwnItems ==
    ASSUME TypeOK, Carried, Held, NEW q \in Requests, AddItem(q) \/ ChangeItem(q)
    PROVE  Own(q)
<1>1. CASE Went(q, "items")
    <2>1. \A o \in Its(req[q]) : ~ Quiet(o)'
        BY <1>1, OwnLeft
    <2>2. req'[q].pc = "items"
        BY <1>1 DEF Went, OnTo
    <2>3. Known(req[q])'
        BY <2>2 DEF Known
    <2> QED
        BY <2>1, <2>3 DEF Own
<1>2. CASE ~ Went(q, "items")
    <2> DEFINE i == req[q].row
    <2>0. ChangeItem(q)
        BY <1>2, AddItemDoes
    <2>1. /\ req[q].pc = "change" /\ req[q].of \in Orders /\ i \in Touched(req[q])
          /\ lines[i].of = None /\ Freed(q)
        BY <1>2, <2>0, ChangeItemDoes
    <2>2. req[q].of \in disturbed
        BY <2>1, OrdersAssumption DEF Held
    <2>3. Its(req[q]) \subseteq {req[q].of}
        BY <2>1 DEF Its, Carried
    <2>4. Known(req[q])'
        BY <2>1, KnownIdle DEF Freed
    <2> QED
        BY <2>2, <2>3, <2>4 DEF Own
<1> QED
    BY <1>1, <1>2

LEMMA OwnDiscount ==
    ASSUME TypeOK, Carried, Apart, Numbered, Settled, NEW q \in Requests,
           InsertDiscount(q) \/ Claim(q)
    PROVE  Own(q)
<1> DEFINE o == req[q].of
<1>1. /\ req[q].pc \in Before /\ o \in Orders
      /\ bill' = bill /\ lines' = lines /\ handed' = handed
      /\ Went(q, "subtotal") \/ Freed(q)
    BY InsertDiscountDoes, ClaimDoes DEF Before
<1>2. Its(req[q]) = {o}
    <2>1. req[q].pc \in {"insertDiscount", "claim"}
        BY InsertDiscountDoes, ClaimDoes
    <2> QED
        BY <1>1, <2>1, OrdersAssumption DEF Carried, Its
<1>3. o \notin disturbed => Correct(bill, lines, discounts, o)
    BY <1>1, <1>2, FoundRight
<1>4. CASE Went(q, "subtotal")
    <2>1. \A u \in Its(req[q]) : ~ Quiet(u)'
        BY <1>4, OwnLeft
    <2>2. req'[q].pc = "subtotal" /\ req'[q].of = o /\ disturbed' = disturbed
        BY <1>4 DEF Went, OnTo
    <2>3. Known(req[q])'
        BY <1>1, <1>3, <2>2 DEF Known, Correct
    <2> QED
        BY <2>1, <2>3 DEF Own
<1>5. CASE Freed(q) /\ ~ Went(q, "subtotal")
    <2>1. Approved(discounts', o) = Approved(discounts, o)
          /\ \A d \in Approved(discounts, o) : discounts'[d] = discounts[d]
        <3>1. CASE InsertDiscount(q)
            <4> DEFINE k == Len(discounts) + 1
            <4>1. /\ discounts' \in Seq(DiscountRow) /\ Len(discounts') = k
                  /\ \A d \in DOMAIN discounts : discounts'[d] = discounts[d]
                  /\ discounts'[k].status = "PENDING"
                BY <1>5, <3>1, InsertDiscountDoes
            <4>2. DOMAIN discounts' = DOMAIN discounts \cup {k}
                BY <4>1, Types
            <4> HIDE DEF k
            <4> QED
                BY <4>1, <4>2 DEF Approved
        <3>2. CASE Claim(q)
            <4> DEFINE d == req[q].row
            <4>1. /\ d \in DOMAIN discounts
                  /\ \/ discounts' = discounts
                     \/ /\ discounts[d].status = "PENDING"
                        /\ discounts' \in Seq(DiscountRow) /\ Len(discounts') = Len(discounts)
                        /\ \A e \in DOMAIN discounts \ {d} : discounts'[e] = discounts[e]
                        /\ discounts'[d].status = "REJECTED"
                BY <1>5, <3>2, ClaimDoes
            <4>2. DOMAIN discounts' = DOMAIN discounts
                BY <4>1, Types
            <4> HIDE DEF d
            <4> QED
                BY <4>1, <4>2 DEF Approved
        <3> QED
            BY <3>1, <3>2
    <2>2. ASSUME NEW u \in Its(req[q]) \ disturbed
          PROVE  Correct(bill, lines, discounts, u)'
        <3>1. u = o /\ Correct(bill, lines, discounts, u)
            BY <1>2, <1>3, <2>2
        <3>2. /\ Approved(discounts', u) = Approved(discounts, u)
              /\ \A d \in Approved(discounts, u) : discounts'[d] = discounts[d]
            BY <2>1, <3>1
        <3> QED
            BY <1>1, <3>1, <3>2, SameDiscounts
    <2>3. Known(req[q])'
        BY <1>5, KnownIdle DEF Freed
    <2> QED
        BY <1>2, <2>2, <2>3 DEF Own
<1> QED
    BY <1>1, <1>4, <1>5

LEMMA OwnReads ==
    ASSUME TypeOK, Carried, Numbered, Recalculating, NEW q \in Requests,
           SumItems(q) \/ ReadSubtotal(q) \/ ReadDiscount(q)
    PROVE  Own(q)
<1> DEFINE o == req[q].of
<1>0. /\ req[q].pc \in {"items", "subtotal", "latest"}
      /\ bill' = bill /\ lines' = lines /\ discounts' = discounts /\ disturbed' = disturbed
      /\ arrived' = arrived
    BY DEF SumItems, ReadSubtotal, ReadDiscount
<1>1. o \in Orders /\ req[q].sum \in Nat
    BY <1>0, Busy, SlotTypes
<1>2. Known(req[q])
    BY SettledIs
<1>3. CASE SumItems(q) \/ ReadSubtotal(q)
    <2>1. Went(q, "latest")
        BY <1>0, <1>1, <1>3, ReadStep DEF Went
    <2>2. req'[q].pc = "latest" /\ req'[q].of = o
        BY <2>1 DEF Went, OnTo
    <2>3. o \notin disturbed => /\ req'[q].sum = Subtotal(lines, o)
                                /\ ~ req'[q].full => bill[o].subtotal = req'[q].sum
        <3>1. CASE SumItems(q)
            BY <3>1, ReadStep
        <3>2. CASE ReadSubtotal(q)
            <4>1. req[q].pc = "subtotal"
                BY <3>2 DEF ReadSubtotal
            <4> QED
                BY <1>1, <1>2, <3>2, <4>1, ReadStep DEF Known
        <3> QED
            BY <1>3, <3>1, <3>2
    <2>4. Known(req[q])'
        BY <1>0, <2>2, <2>3 DEF Known
    <2>5. \A u \in Its(req[q]) : ~ Quiet(u)'
        BY <2>1, OwnLeft
    <2> QED
        BY <2>4, <2>5 DEF Own
<1>4. CASE ReadDiscount(q)
    <2>1. Went(q, "totals")
        BY <1>0, <1>1, <1>4, ReadStep DEF Went
    <2>2. /\ req'[q].pc = "totals" /\ req'[q].of = o
          /\ req'[q].sum = req[q].sum /\ req'[q].full = req[q].full
          /\ req'[q].cut = DiscountOf(o, req[q].sum)
          /\ req[q].pc = "latest"
        BY <1>1, <1>4, ReadStep DEF OnTo, ReadDiscount
    <2>3. Latest(discounts, o, req[q].sum, req'[q].cut)
        BY <1>1, <2>2, DiscountOfLatest
    <2>4. Known(req[q])'
        BY <1>0, <1>2, <2>2, <2>3 DEF Known
    <2>5. \A u \in Its(req[q]) : ~ Quiet(u)'
        BY <2>1, OwnLeft
    <2> QED
        BY <2>4, <2>5 DEF Own
<1> QED
    BY <1>3, <1>4

LEMMA OwnTotals ==
    ASSUME TypeOK, Carried, Recalculating, NEW q \in Requests, WriteTotals(q)
    PROVE  Own(q)
<1> DEFINE o == req[q].of
<1>1. /\ req[q].pc = "totals" /\ o \in Orders
      /\ bill'[o].subtotal = IF req[q].full THEN req[q].sum ELSE bill[o].subtotal
      /\ bill'[o].discount = req[q].cut
      /\ req[q].cut <= req[q].sum => bill'[o].total = req[q].sum - req[q].cut
      /\ Freed(q) /\ lines' = lines /\ discounts' = discounts
    BY WriteTotalsDoes
<1>2. Its(req[q]) = {o}
    BY <1>1, OrdersAssumption DEF Carried, Its
<1>3. Known(req[q])
    BY SettledIs
<1>4. req[q].full \in BOOLEAN
    BY SlotTypes
<1>5. ASSUME NEW u \in Its(req[q]) \ disturbed
      PROVE  Correct(bill, lines, discounts, u)'
    <2>0. u = o
        BY <1>2, <1>5
    <2>1. /\ req[q].sum = Subtotal(lines, o)
          /\ ~ req[q].full => bill[o].subtotal = req[q].sum
          /\ Latest(discounts, o, req[q].sum, req[q].cut)
        BY <1>1, <1>3, <1>5, <2>0 DEF Known
    <2>2. bill'[o].subtotal = req[q].sum
        BY <1>1, <1>4, <2>1
    <2>3. bill'[o].total = req[q].sum - req[q].cut
        BY <1>1, <2>1 DEF Latest
    <2> HIDE DEF o
    <2> QED
        BY <1>1, <2>0, <2>1, <2>2, <2>3 DEF Correct
<1>6. Known(req[q])'
    BY <1>1, KnownIdle DEF Freed
<1> QED
    BY <1>2, <1>5, <1>6 DEF Own

LEMMA OwnHandoff ==
    ASSUME TypeOK, Carried, Apart, Held, Settled, NEW q \in Requests, Merge(q) \/ Move(q)
    PROVE  Own(q)
<1> DEFINE o == req[q].of
           t == req[q].to
<1>1. /\ o \in Orders /\ t \in Orders /\ Freed(q) /\ Its(req[q]) = {o, t}
      /\ \/ \E i \in Touched(req[q]) : lines[i].of = None
         \/ /\ Recounted(bill'[o], bill[o], lines', o)
            /\ Recounted(bill'[t], bill[t], lines', t)
            /\ handed' = handed \cup {o, t}
    <2>0. o \in Orders /\ t \in Orders => Its(req[q]) = {o, t}
        BY OrdersAssumption DEF Its
    <2>1. CASE Merge(q)
        BY <2>0, <2>1, MergeDoes
    <2>2. CASE Move(q)
        <3>1. /\ o \in Orders /\ t \in Orders /\ Freed(q)
              /\ \/ \E i \in Touched(req[q]) : lines[i].of = None
                 \/ /\ Recounted(bill'[o], bill[o], lines', o)
                    /\ Recounted(bill'[t], bill[t], lines', t)
                    /\ handed' = handed \cup {o, t}
            BY <2>2, MoveDoes
        <3> QED
            BY <2>0, <3>1
    <2> QED
        BY <2>1, <2>2
<1>2. Known(req[q])'
    BY <1>1, KnownIdle DEF Freed
<1>3. CASE \E i \in Touched(req[q]) : lines[i].of = None
    <2>1. o \in disturbed
        BY <1>1, <1>3, OrdersAssumption DEF Held
    <2>2. \A u \in Its(req[q]) : u \in disturbed
        BY <1>1, <2>1 DEF Apart
    <2> QED
        BY <1>2, <2>2 DEF Own
<1>4. CASE /\ Recounted(bill'[o], bill[o], lines', o)
           /\ Recounted(bill'[t], bill[t], lines', t)
           /\ handed' = handed \cup {o, t}
    <2>1. \A u \in {o, t} : u \in handed' /\ Recounted(bill'[u], bill[u], lines', u)
        BY <1>4
    <2>2. \A u \in {o, t} : Correct(bill, lines, discounts, u)'
        BY <2>1 DEF Recounted, Correct
    <2> QED
        BY <1>1, <1>2, <2>2 DEF Own
<1> QED
    BY <1>1, <1>3, <1>4

LEMMA RightStep ==
    ASSUME TypeOK, Carried, Apart, Held, Numbered, Settled, Recalculating, Next
    PROVE  Settled' /\ Recalculating'
<1>1. ASSUME NEW q \in Requests, Arrive(q)
      PROVE  Settled' /\ Recalculating'
    <2>1. PICK d : Asked(d) /\ Ask(q, d)
        BY <1>1, Arriving
    <2>2. /\ req[q].pc = "idle" /\ req'[q] = d
          /\ \A p \in Requests \ {q} : req'[p] = req[p]
          /\ disturbed \subseteq disturbed'
          /\ bill' = bill /\ lines' = lines /\ discounts' = discounts /\ handed' = handed
        BY <2>1, AskDoes
    <2>3. ASSUME NEW o \in Orders \ disturbed', Quiet(o)'
          PROVE  Correct(bill, lines, discounts, o)'
        <3>1. Quiet(o)
            BY <2>2, <2>3 DEF Quiet, Before
        <3> QED
            BY <2>2, <2>3, <3>1, SettledIs DEF Correct
    <2>4. Known(req[q])'
        BY <2>1, <2>2 DEF Known, Asked
    <2>5. \A r \in Requests \ {q} : Known(req[r])'
        BY <2>2, SettledIs DEF Known
    <2> QED
        BY <2>3, <2>4, <2>5, SettledIs
<1>2. ASSUME NEW q \in Requests, Proceed(q)
      PROVE  Settled' /\ Recalculating'
    <2>1. Around(q) /\ disturbed' = disturbed
        BY <1>2, AroundStep DEF Around
    <2>2. Own(q)
        BY <1>2, OwnItems, OwnDiscount, OwnReads, OwnTotals, OwnHandoff DEF Proceed
    <2>3. /\ \A o \in Orders \ disturbed :
                 o \notin Its(req[q]) /\ Quiet(o)' => Correct(bill, lines, discounts, o)'
          /\ \A r \in Requests \ {q} : Known(req[r])'
        BY <2>1, OthersRight
    <2> QED
        BY <2>1, <2>2, <2>3, SettledIs DEF Own
<1>3. ASSUME NEW q \in Requests, Crash(q)
      PROVE  Settled' /\ Recalculating'
    <2>1. /\ req'[q] = Idle /\ \A p \in Requests \ {q} : req'[p] = req[p]
          /\ disturbed' = disturbed \cup Its(req[q])
          /\ bill' = bill /\ lines' = lines /\ discounts' = discounts /\ handed' = handed
        BY <1>3, CrashDoes
    <2>2. ASSUME NEW o \in Orders \ disturbed', Quiet(o)'
          PROVE  Correct(bill, lines, discounts, o)'
        <3>1. Quiet(o)
            BY <2>1, <2>2 DEF Quiet
        <3> QED
            BY <2>1, <2>2, <3>1, SettledIs DEF Correct
    <2>3. Known(req[q])'
        BY <2>1, KnownIdle
    <2>4. \A r \in Requests \ {q} : Known(req[r])'
        BY <2>1, SettledIs DEF Known
    <2> QED
        BY <2>2, <2>3, <2>4, SettledIs
<1>4. ASSUME NEW u \in Orders, NEW s \in {"SERVED", "CLOSED"}, Progress(u, s)
      PROVE  Settled' /\ Recalculating'
    <2>1. /\ \A o \in Orders : /\ bill'[o].subtotal = bill[o].subtotal
                               /\ bill'[o].discount = bill[o].discount
                               /\ bill'[o].total = bill[o].total
          /\ req' = req /\ disturbed' = disturbed
          /\ lines' = lines /\ discounts' = discounts /\ handed' = handed
        BY <1>4, ProgressDoes
    <2>2. ASSUME NEW o \in Orders \ disturbed', Quiet(o)'
          PROVE  Correct(bill, lines, discounts, o)'
        <3>1. Quiet(o)
            BY <2>1, <2>2 DEF Quiet
        <3> QED
            BY <2>1, <2>2, <3>1, SettledIs DEF Correct
    <2>3. ASSUME NEW r \in Requests
          PROVE  Known(req[r])'
        <3>1. Known(req[r])
            BY SettledIs
        <3>2. req[r].of \in Orders \/ req[r].pc = "idle"
            BY DEF Carried
        <3> QED
            BY <2>1, <3>1, <3>2 DEF Known
    <2> QED
        BY <2>2, <2>3, SettledIs
<1> QED
    BY <1>1, <1>2, <1>3, <1>4 DEF Next

-----------------------------------------------------------------------------
(* Orders that were merged away, and the items there are                   *)

\* Only a merge says where an order went.
IntoKept == \A o \in Orders : /\ bill'[o].into = bill[o].into
                              /\ bill[o].status = "VOIDED" => bill'[o].status = "VOIDED"

LEMMA IntoMoved ==
    ASSUME TypeOK, Carried, NEW q \in Requests, Move(q)
    PROVE  IntoKept
<1> DEFINE o == req[q].of
           t == req[q].to
<1>1. \/ bill' = bill
      \/ /\ \A u \in Orders \ {o, t} : bill'[u] = bill[u]
         /\ bill'[o].status = bill[o].status
         /\ bill[t].status = "VOIDED" => bill'[t].status = "VOIDED"
         /\ bill'[o].into = bill[o].into /\ bill'[t].into = bill[t].into
    BY MoveDoes
<1> HIDE DEF o, t
<1> QED
    BY <1>1 DEF IntoKept

LEMMA IntoStep ==
    ASSUME TypeOK, Carried, Numbered, NEW q \in Requests, Proceed(q), ~ Merge(q)
    PROVE  IntoKept
<1>1. CASE bill' = bill
    BY <1>1 DEF IntoKept
<1>2. CASE WriteTotals(q)
    <2> DEFINE o == req[q].of
    <2>1. /\ o \in Orders /\ \A u \in Orders \ {o} : bill'[u] = bill[u]
          /\ bill'[o].status = bill[o].status /\ bill'[o].into = bill[o].into
        BY <1>2, WriteTotalsDoes
    <2> HIDE DEF o
    <2> QED
        BY <2>1 DEF IntoKept
<1>3. CASE Move(q)
    BY <1>3, IntoMoved
<1> QED
    BY <1>1, <1>2, <1>3 DEF Proceed, AddItem, ChangeItem, InsertDiscount, Claim, SumItems,
        ReadSubtotal, ReadDiscount

LEMMA MergedStep ==
    ASSUME TypeOK, Carried, Numbered, Apart, Merged, Next
    PROVE  Merged'
<1>0. /\ \A o \in Orders : bill[o].into # None => bill[o].status = "VOIDED"
      /\ disturbed = {} =>
             \A r \in Requests : req[r].pc \in {"change", "merge", "move"} =>
                 \A o \in Its(req[r]) : bill[o].into = None
    BY DEF Merged
<1>1. \A r \in Requests : Its(req[r]) \subseteq Orders
    BY Busy
<1>2. ASSUME IntoKept, disturbed \subseteq disturbed',
             \A r \in Requests : \/ req'[r] = req[r]
                                 \/ req'[r].pc \notin {"change", "merge", "move"}
      PROVE  Merged'
    BY <1>0, <1>1, <1>2 DEF Merged, IntoKept
<1>3. ASSUME NEW q \in Requests, Arrive(q)
      PROVE  Merged'
    <2>1. PICK d : Asked(d) /\ Ask(q, d)
        BY <1>3, Arriving
    <2>2. /\ req'[q] = d /\ \A p \in Requests \ {q} : req'[p] = req[p]
          /\ disturbed \subseteq disturbed' /\ bill' = bill
        BY <2>1, AskDoes
    <2>3. d.pc \in {"change", "merge", "move"} => \A o \in Its(d) : bill[o].into = None
        <3>1. Its(d) \subseteq Orders
            BY <2>1 DEF Asked, Its
        <3> QED
            BY <1>0, <2>1, <3>1 DEF Asked
    <2> QED
        BY <1>0, <2>2, <2>3 DEF Merged
<1>4. ASSUME NEW q \in Requests, Proceed(q)
      PROVE  Merged'
    <2>1. Around(q)
        BY <1>4, AroundStep
    <2>2. /\ disturbed' = disturbed /\ \A p \in Requests \ {q} : req'[p] = req[p]
          /\ req'[q].pc \notin {"change", "merge", "move"}
        BY <2>1, GoesOn DEF Around
    <2>3. CASE ~ Merge(q)
        BY <1>2, <1>4, <2>2, <2>3, IntoStep
    <2>4. CASE Merge(q)
        <3> DEFINE o == req[q].of
                   t == req[q].to
        <3>1. /\ o \in Orders /\ t \in Orders /\ o # t
              /\ \/ bill' = bill
                 \/ /\ \A u \in Orders \ {o, t} : bill'[u] = bill[u]
                    /\ bill'[o].status = "VOIDED"
                    /\ bill'[t].status = bill[t].status /\ bill'[t].into = bill[t].into
            BY <2>4, MergeDoes
        <3>2. o \in Its(req[q])
            BY <3>1, OrdersAssumption DEF Its
        <3> HIDE DEF o, t
        <3>3. \A u \in Orders : bill'[u].into # None => bill'[u].status = "VOIDED"
            BY <1>0, <3>1
        <3>4. \A u \in Orders \ {o} : bill'[u].into = bill[u].into
            BY <3>1
        <3>5. ASSUME disturbed = {}, NEW r \in Requests, req'[r].pc \in {"change", "merge", "move"},
                     NEW u \in Its(req'[r])
              PROVE  bill'[u].into = None
            <4>1. r # q /\ req'[r] = req[r]
                BY <2>2, <3>5
            <4>2. u # o
                BY <3>2, <3>5, <4>1, Alone
            <4> QED
                BY <1>0, <1>1, <3>4, <3>5, <4>1, <4>2
        <3> QED
            BY <2>2, <3>3, <3>5 DEF Merged
    <2> QED
        BY <2>3, <2>4
<1>5. ASSUME NEW q \in Requests, Crash(q)
      PROVE  Merged'
    <2>1. /\ req'[q] = Idle /\ \A p \in Requests \ {q} : req'[p] = req[p]
          /\ disturbed \subseteq disturbed' /\ bill' = bill
        BY <1>5, CrashDoes
    <2>2. Idle.pc \notin {"change", "merge", "move"}
        BY DEF Idle
    <2> QED
        BY <1>2, <2>1, <2>2 DEF IntoKept
<1>6. ASSUME NEW u \in Orders, NEW s \in {"SERVED", "CLOSED"}, Progress(u, s)
      PROVE  Merged'
    <2>1. /\ \A o \in Orders \ {u} : bill'[o] = bill[o]
          /\ bill[u].status \in {"NEW", "SERVED"} /\ bill'[u].into = bill[u].into
          /\ req' = req /\ disturbed' = disturbed
        BY <1>6, ProgressDoes
    <2>2. IntoKept
        BY <2>1 DEF IntoKept
    <2> QED
        BY <1>2, <2>1, <2>2
<1> QED
    BY <1>3, <1>4, <1>5, <1>6 DEF Next

\* Every row is on an order that was not merged away.
Placed == \A i \in DOMAIN lines : lines[i].of # None => bill[lines[i].of].into = None

\* There are as many units as requests left, or more after a list took two
\* parts of one item.
Balanced == units <= Units(lines) /\ (~ doubled => units = Units(lines))

\* A call that changes the units of the items by as many as it counts.
Evenly == units' - Units(lines') = units - Units(lines) /\ doubled' = doubled

LEMMA ConservedIs ==
    /\ ItemsConserved <=> (disturbed = {} => Balanced /\ Placed)
    /\ ItemsConserved' <=> (disturbed' = {} => Balanced' /\ Placed')
BY DEF ItemsConserved, Balanced, Placed

LEMMA UnitsAreInt ==
    ASSUME TypeOK
    PROVE  units \in Int /\ Units(lines) \in Int
BY Types, UnitsInt DEF TypeOK

LEMMA EvenlyBalanced ==
    ASSUME TypeOK, TypeOK', Balanced, Evenly
    PROVE  Balanced'
<1>1. /\ units \in Int /\ Units(lines) \in Int
      /\ units' \in Int /\ Units(lines') \in Int
    <2>1. lines' \in Seq(LineRow) /\ units' \in Int
        BY DEF TypeOK, LineRow
    <2> QED
        BY <2>1, UnitsAreInt, UnitsInt
<1> QED
    BY <1>1 DEF Balanced, Evenly

\* What a request is about to write is where it was read.
LEMMA StillThere ==
    ASSUME TypeOK, Carried, Held, Merged, disturbed = {}, NEW q \in Requests,
           req[q].pc \in {"change", "merge", "move"}
    PROVE  /\ req[q].of \in Orders /\ bill[req[q].of].into = None
           /\ \A i \in Touched(req[q]) : i \in DOMAIN lines /\ lines[i].of = req[q].of
           /\ req[q].pc = "move" => Fits(req[q].parts, lines)
           /\ req[q].pc = "merge" => req[q].seen = {i \in DOMAIN lines : lines[i].of = req[q].of}
           /\ req[q].to \in Orders => bill[req[q].to].into = None
<1>1. req[q].of \in Orders /\ req[q].of \in Its(req[q]) /\ Touched(req[q]) \subseteq DOMAIN lines
    BY Busy
<1>2. \A o \in Its(req[q]) : bill[o].into = None
    BY DEF Merged
<1>3. req[q].to \in Orders => req[q].to \in Its(req[q])
    BY OrdersAssumption DEF Its
<1>4. /\ \A i \in Touched(req[q]) : lines[i].of = req[q].of
      /\ req[q].pc = "move" => Fits(req[q].parts, lines)
      /\ req[q].pc = "merge" => req[q].seen = {i \in DOMAIN lines : lines[i].of = req[q].of}
    BY DEF Held
<1> QED
    BY <1>1, <1>2, <1>3, <1>4

LEMMA AddConserves ==
    ASSUME TypeOK, Carried, Held, Merged, NEW q \in Requests, AddItem(q), disturbed = {}, Placed
    PROVE  Evenly /\ Placed'
<1> DEFINE k == Len(lines) + 1
           row == [of |-> req[q].of, qty |-> req[q].n]
<1>1. /\ req[q].pc = "change" /\ req[q].of \in Orders
      /\ lines' = Append(lines, row) /\ row \in LineRow
      /\ lines' \in Seq(LineRow) /\ Len(lines') = k
      /\ \A j \in DOMAIN lines : lines'[j] = lines[j]
      /\ lines'[k].of = req[q].of
      /\ units' = units + req[q].n
      /\ bill' = bill /\ doubled' = doubled
    BY AddItemDoes
<1>2. row.of = req[q].of /\ row.qty = req[q].n /\ row.of # None
    BY <1>1, OrdersAssumption
<1>3. lines \in Seq(LineRow)
    BY Types
<1>4. DOMAIN lines' = DOMAIN lines \cup {k}
    BY <1>1, Types
<1> HIDE DEF row, k
<1>5. Units(lines') = Units(lines) + row.qty
    BY <1>1, <1>2, <1>3, UnitsAppend
<1>6. bill[req[q].of].into = None
    BY <1>1, StillThere
<1>7. Evenly
    <2>1. row.qty \in Int
        BY <1>1, NumbersAssumption DEF LineRow
    <2> QED
        BY <1>1, <1>2, <1>5, <2>1, UnitsAreInt DEF Evenly
<1> QED
    BY <1>1, <1>2, <1>4, <1>6, <1>7 DEF Placed

LEMMA ChangeConserves ==
    ASSUME TypeOK, Carried, Held, Merged, NEW q \in Requests, ChangeItem(q), disturbed = {}, Placed
    PROVE  Evenly /\ Placed'
<1> DEFINE i == req[q].row
           n == req[q].n
<1>1. /\ i \in DOMAIN lines /\ bill' = bill /\ n \in 0..MaxQuantity /\ doubled' = doubled
      /\ \/ lines' = lines /\ units' = units
         \/ /\ lines[i].of # None
            /\ lines' \in Seq(LineRow) /\ Len(lines') = Len(lines)
            /\ \A j \in DOMAIN lines \ {i} : lines'[j] = lines[j]
            /\ IF n > 0 THEN lines'[i].of = lines[i].of /\ lines'[i].qty = n
                        ELSE lines'[i].of = None
            /\ units' = units - lines[i].qty + n
    BY ChangeItemDoes
<1> HIDE DEF i, n
<1>2. CASE lines' = lines /\ units' = units
    BY <1>1, <1>2 DEF Placed, Evenly
<1>3. CASE lines' # lines \/ units' # units
    <2>1. lines \in Seq(LineRow) /\ lines[i].qty \in Int /\ Units(lines) \in Int
        BY <1>1, Types, UnitsInt
    <2>2. Units(lines') = Units(lines) - lines[i].qty
                            + (IF lines'[i].of = None THEN 0 ELSE lines'[i].qty)
        BY <1>1, <1>3, <2>1, UnitsChange
    <2>3. (IF lines'[i].of = None THEN 0 ELSE lines'[i].qty) = n
        BY <1>1, <1>3, NumbersAssumption
    <2>4. DOMAIN lines' = DOMAIN lines
        BY <1>1, <1>3, Types
    <2>5. Evenly
        <3> DEFINE u == Units(lines)
                   x == lines[i].qty
        <3>1. units \in Int /\ u \in Int /\ x \in Int /\ n \in Int
            BY <1>1, <2>1, NumbersAssumption, UnitsAreInt
        <3>2. Units(lines') = u - x + n /\ units' = units - x + n
            BY <1>1, <1>3, <2>2, <2>3
        <3> HIDE DEF u, x
        <3>3. units' - Units(lines') = units - u
            BY <3>1, <3>2
        <3> QED
            BY <1>1, <3>3 DEF Evenly, u
    <2> QED
        BY <1>1, <1>3, <2>4, <2>5 DEF Placed
<1> QED
    BY <1>2, <1>3

LEMMA MergeConserves ==
    ASSUME TypeOK, Carried, Held, Merged, NEW q \in Requests, Merge(q), disturbed = {}, Placed
    PROVE  Evenly /\ Placed'
<1> DEFINE o == req[q].of
           t == req[q].to
           S == req[q].seen
<1>1. /\ req[q].pc = "merge" /\ o \in Orders /\ t \in Orders /\ o # t
      /\ units' = units /\ doubled' = doubled
      /\ \/ bill' = bill /\ lines' = lines
         \/ /\ \A i \in S : lines[i].of # None
            /\ lines' \in Seq(LineRow) /\ Len(lines') = Len(lines)
            /\ \A i \in DOMAIN lines :
                   IF i \in S THEN lines'[i].of = t /\ lines'[i].qty = lines[i].qty
                              ELSE lines'[i] = lines[i]
            /\ \A u \in Orders \ {o, t} : bill'[u] = bill[u]
            /\ bill'[t].into = bill[t].into
    BY MergeDoes
<1>2. S = {i \in DOMAIN lines : lines[i].of = o} /\ bill[t].into = None
    BY <1>1, StillThere
<1> HIDE DEF o, t, S
<1>3. CASE bill' = bill /\ lines' = lines
    BY <1>1, <1>3 DEF Placed, Evenly
<1>4. CASE ~ (bill' = bill /\ lines' = lines)
    <2>1. lines \in Seq(LineRow) /\ DOMAIN lines' = DOMAIN lines
        BY <1>1, <1>4, Types
    <2>2. \A i \in DOMAIN lines : /\ lines'[i].qty = lines[i].qty
                                  /\ lines'[i].of = None <=> lines[i].of = None
        BY <1>1, <1>4, OrdersAssumption
    <2>3. Units(lines') = Units(lines)
        BY <1>1, <1>4, <2>1, <2>2, UnitsSame
    <2>4. ASSUME NEW i \in DOMAIN lines, lines'[i].of # None
          PROVE  bill'[lines'[i].of].into = None
        <3>1. CASE i \in S
            BY <1>1, <1>2, <1>4, <3>1
        <3>2. CASE i \notin S
            <4>1. lines'[i] = lines[i] /\ lines[i].of \in Orders \ {o}
                BY <1>1, <1>2, <1>4, <2>4, <3>2, Types
            <4> QED
                BY <1>1, <1>2, <1>4, <2>4, <4>1 DEF Placed
        <3> QED
            BY <3>1, <3>2
    <2> QED
        BY <1>1, <2>1, <2>3, <2>4 DEF Placed, Evenly
<1> QED
    BY <1>3, <1>4

\* A list of parts leaves of every item what the last entry about it leaves; the
\* part of any entry before that one is there twice.
LEMMA MovedUnits ==
    ASSUME TypeOK, NEW S, S \subseteq DOMAIN lines,
           NEW parts \in Seq(Part), Divided(parts) \subseteq DOMAIN lines, Fits(parts, lines),
           \A i \in S \cup Divided(parts) : lines[i].of # None,
           NEW t \in Orders, NEW ls, After(ls, S, parts, t)
    PROVE  /\ Units(ls) \in Int /\ Units(ls) >= Units(lines)
           /\ (\A k, j \in DOMAIN parts : parts[k].row = parts[j].row => k = j)
                  => Units(ls) = Units(lines)
<1> DEFINE m == Len(lines)
           B == DOMAIN lines
           D == DOMAIN parts
           C == Divided(parts)
           Final(i) == LastNaming(parts, i)
           h == [k \in D |-> m + k]
           E == ImageOf(h, D)
           L == {k \in D : k = Final(parts[k].row)}
           w == Within(Counts(lines), DOMAIN lines \ Rows(lines, None), DOMAIN lines)
           v == Within(Counts(ls), DOMAIN ls \ Rows(ls, None), DOMAIN ls)
           n == [k \in D |-> parts[k].n]
           g == [i \in C |-> parts[Final(i)].n]
<1>1. /\ lines \in Seq(LineRow) /\ m \in Nat /\ B = 1..m
      /\ ls \in Seq(LineRow) /\ Len(ls) = m + Len(parts)
      /\ Len(parts) \in Nat /\ D = 1..Len(parts) /\ t # None
    BY Types, OrdersAssumption DEF After
<1>2. \A k \in D : parts[k].n \in Nat /\ parts[k].rest \in Nat
    <2>1. \A k \in D : parts[k] \in Part
        OBVIOUS
    <2>2. \A x \in Part : x.n \in Nat /\ x.rest \in Nat
        BY NumbersAssumption DEF Part
    <2> QED
        BY <2>1, <2>2
<1>3. \A i \in C : Final(i) \in D /\ parts[Final(i)].row = i
    <2>1. \A i \in C : Naming(parts, i) # {}
        BY DEF Divided, Naming
    <2> QED
        BY <2>1, LastIsOne DEF Naming
<1>4. E = {m + k : k \in D} /\ DOMAIN ls = B \cup E /\ B \cap E = {}
    <2>1. E = {m + k : k \in D}
        BY DEF ImageOf
    <2>2. DOMAIN ls = 1..(m + Len(parts))
        BY <1>1
    <2>3. \A i \in DOMAIN ls : i \in B \/ (i - m \in D /\ i = m + (i - m))
        BY <1>1, <2>2
    <2>4. \A k \in D : m + k \in DOMAIN ls /\ m + k \notin B
        BY <1>1, <2>2
    <2>5. B \subseteq DOMAIN ls
        BY <1>1, <2>2
    <2> HIDE DEF B, D, E
    <2> QED
        BY <2>1, <2>3, <2>4, <2>5
<1>5. /\ IsFiniteSet(B) /\ IsFiniteSet(DOMAIN ls) /\ IsFiniteSet(D)
      /\ IsFiniteSet(C) /\ IsFiniteSet(B \ C) /\ IsFiniteSet(E)
      /\ IsFiniteSet(L) /\ IsFiniteSet(D \ L)
    <2>1. IsFiniteSet(B) /\ IsFiniteSet(DOMAIN ls)
        BY <1>1, RowsFacts
    <2>2. IsFiniteSet(D)
        BY <1>1, FS_Interval
    <2>3. /\ E \subseteq DOMAIN ls /\ L \subseteq D /\ D \ L \subseteq D
          /\ C \subseteq B /\ B \ C \subseteq B
        BY <1>4
    <2>4. IsFiniteSet(DOMAIN ls)
        BY <2>1
    <2> HIDE DEF B, D, C, E, L
    <2>5. IsFiniteSet(E)
        BY <2>3, <2>4, FS_Subset
    <2>6. IsFiniteSet(L) /\ IsFiniteSet(D \ L)
        BY <2>2, <2>3, FS_Subset
    <2>7. IsFiniteSet(C) /\ IsFiniteSet(B \ C)
        BY <2>1, <2>3, FS_Subset
    <2> QED
        BY <2>1, <2>2, <2>5, <2>6, <2>7
<1>0. lines \in Seq(LineRow) /\ ls \in Seq(LineRow)
    BY Types DEF After
<1>6. \A i \in DOMAIN lines :
          w[i] = (IF lines[i].of = None THEN 0 ELSE lines[i].qty) /\ w[i] \in Int
    BY <1>0, CountsWithin
<1>7. \A i \in DOMAIN ls : v[i] = (IF ls[i].of = None THEN 0 ELSE ls[i].qty) /\ v[i] \in Int
    BY <1>0, CountsWithin
<1>8. Units(lines) = WSum(w, B) /\ Units(ls) = WSum(v, DOMAIN ls)
    BY <1>1, UnitsIsSum
<1>9. \A i \in B \ C : v[i] = w[i]
    <2>1. ASSUME NEW i \in B \ C
          PROVE  v[i] = w[i]
        <3>1. i \in DOMAIN lines /\ i \in DOMAIN ls
            BY <1>4
        <3>2. ls[i].of = (IF i \in S THEN t ELSE lines[i].of) /\ ls[i].qty = lines[i].qty
            BY <3>1 DEF After
        <3>3. ls[i].of = None <=> lines[i].of = None
            BY <1>1, <3>2
        <3>4. /\ w[i] = (IF lines[i].of = None THEN 0 ELSE lines[i].qty)
              /\ v[i] = (IF ls[i].of = None THEN 0 ELSE ls[i].qty)
            BY <1>6, <1>7, <3>1
        <3> HIDE DEF w, v
        <3> QED
            BY <3>2, <3>3, <3>4
    <2> QED
        BY <2>1
<1>10. \A i \in C : v[i] + g[i] = w[i] /\ g[i] \in Int
    <2>1. ASSUME NEW i \in C
          PROVE  v[i] + g[i] = w[i] /\ g[i] \in Int
        <3>1. i \in B /\ i \in DOMAIN ls /\ lines[i].of # None
            BY <1>4
        <3>2. ls[i].of # None /\ ls[i].qty = parts[Final(i)].rest
            BY <1>1, <3>1 DEF After
        <3>3. parts[Final(i)].n + parts[Final(i)].rest = lines[i].qty
            BY <1>3 DEF Fits
        <3>4. v[i] = parts[Final(i)].rest /\ w[i] = lines[i].qty /\ g[i] = parts[Final(i)].n
            BY <1>6, <1>7, <3>1, <3>2
        <3>5. parts[Final(i)].n \in Nat /\ parts[Final(i)].rest \in Nat
            BY <1>2, <1>3
        <3> QED
            BY <3>3, <3>4, <3>5
    <2> QED
        BY <2>1
<1>11. Renames(h, D, n, v)
    <2>1. ASSUME NEW k \in D
          PROVE  n[k] \in Int /\ v[h[k]] = n[k]
        <3>1. m + k \in DOMAIN ls
            BY <1>4
        <3>2. ls[m + k].of = t /\ ls[m + k].qty = parts[k].n
            BY DEF After
        <3> QED
            BY <1>1, <1>2, <1>7, <3>1, <3>2
    <2>2. \A k, j \in D : h[k] = h[j] => k = j
        BY <1>1
    <2> HIDE DEF h, n, v, D
    <2> QED
        BY <2>1, <2>2 DEF Renames
<1> DEFINE r == [k \in L |-> parts[k].row]
<1>12. Renames(r, L, n, g) /\ ImageOf(r, L) = C
    <2>1. ASSUME NEW k \in L
          PROVE  n[k] \in Int /\ g[r[k]] = n[k]
        <3>1. k \in D /\ k = Final(parts[k].row) /\ parts[k].row \in C
            BY DEF Divided
        <3> QED
            BY <1>2, <3>1
    <2>2. \A k, j \in L : r[k] = r[j] => k = j
        OBVIOUS
    <2>3. \A i \in C : Final(i) \in L /\ r[Final(i)] = i
        BY <1>3
    <2>4. \A k \in L : r[k] \in C
        BY DEF Divided
    <2> HIDE DEF r, L, n, g, C, Final
    <2>5. ImageOf(r, L) = C
        BY <2>3, <2>4 DEF ImageOf
    <2> QED
        BY <2>1, <2>2, <2>5 DEF Renames
<1>13. C \subseteq B /\ L \subseteq D /\ \A k \in D : n[k] \in Nat
    BY <1>2
<1>14. (\A k, j \in D : parts[k].row = parts[j].row => k = j) => D \ L = {}
    <2>1. \A k \in D : parts[k].row \in C
        BY DEF Divided
    <2> QED
        BY <1>3, <2>1
<1> HIDE DEF m, B, D, C, Final, h, E, L, w, v, n, g, r
<1>15. WSum(v, DOMAIN ls) = WSum(v, B) + WSum(v, E)
    <2>1. \A i \in B \cup E : v[i] \in Int
        BY <1>4, <1>7
    <2> QED
        BY <1>4, <1>5, <2>1, WSumUnion
<1>16. /\ WSum(v, B) = WSum(v, C) + WSum(v, B \ C)
       /\ WSum(w, B) = WSum(w, C) + WSum(w, B \ C)
    <2> DEFINE R == B \ C
    <2>1. B = C \cup R /\ C \cap R = {} /\ IsFiniteSet(R)
        BY <1>5, <1>13
    <2>2. \A i \in C \cup R : v[i] \in Int /\ w[i] \in Int
        BY <1>4, <1>6, <1>7, <1>13 DEF B
    <2> HIDE DEF R
    <2>3. WSum(v, B) = WSum(v, C) + WSum(v, R)
        BY <1>5, <2>1, <2>2, WSumUnion
    <2>4. WSum(w, B) = WSum(w, C) + WSum(w, R)
        BY <1>5, <2>1, <2>2, WSumUnion
    <2> QED
        BY <2>3, <2>4 DEF R
<1>17. WSum(v, B \ C) = WSum(w, B \ C)
    <2>1. \A i \in B \ C : w[i] \in Int /\ v[i] = w[i]
        BY <1>6, <1>9 DEF B
    <2> QED
        BY <1>5, <2>1, WSumSame
<1>18. WSum(w, C) = WSum(v, C) + WSum(g, C)
    <2>1. \A i \in C : v[i] \in Int /\ g[i] \in Int /\ w[i] = v[i] + g[i]
        BY <1>4, <1>7, <1>10, <1>13
    <2> QED
        BY <1>5, <2>1, WSumPlus
<1>19. WSum(v, E) = WSum(n, D) /\ WSum(g, C) = WSum(n, L)
    <2>1. E = ImageOf(h, D)
        BY DEF E
    <2> QED
        BY <1>5, <1>11, <1>12, <2>1, WSumImage
<1>20. WSum(n, D) = WSum(n, L) + WSum(n, D \ L)
    <2> DEFINE R == D \ L
    <2>1. D = L \cup R /\ L \cap R = {} /\ IsFiniteSet(R) /\ \A k \in L \cup R : n[k] \in Int
        BY <1>5, <1>13
    <2> HIDE DEF R
    <2>2. WSum(n, D) = WSum(n, L) + WSum(n, R)
        BY <1>5, <2>1, WSumUnion
    <2> QED
        BY <2>2 DEF R
<1>21. /\ WSum(n, D \ L) \in Nat
       /\ D \ L = {} => WSum(n, D \ L) = 0
    <2> DEFINE R == D \ L
    <2>1. IsFiniteSet(R) /\ R \subseteq D
        BY <1>5
    <2> HIDE DEF R
    <2>2. \A k \in R : n[k] \in Nat
        BY <1>13, <2>1
    <2>3. WSum(n, R) \in Nat
        BY <2>1, <2>2, WSumNat
    <2>4. \A k \in R : n[k] \in Int
        BY <2>2
    <2>5. R = {} => WSum(n, R) = 0
        BY <2>1, <2>4, WSumStep
    <2> QED
        BY <2>3, <2>5 DEF R
<1>22. /\ WSum(v, C) \in Int /\ WSum(g, C) \in Int /\ WSum(w, B \ C) \in Int
    <2>1. /\ \A i \in C : v[i] \in Int /\ g[i] \in Int
          /\ \A i \in B \ C : w[i] \in Int
        BY <1>4, <1>6, <1>7, <1>10, <1>13 DEF B
    <2> QED
        BY <1>5, <2>1, WSumStep
<1> DEFINE extra == WSum(n, D \ L)
<1>23. Units(ls) = Units(lines) + extra /\ Units(lines) \in Int
    BY <1>8, <1>15, <1>16, <1>17, <1>18, <1>19, <1>20, <1>21, <1>22
<1>24. extra \in Nat /\ ((\A k, j \in D : parts[k].row = parts[j].row => k = j) => extra = 0)
    BY <1>14, <1>21
<1> HIDE DEF extra
<1> QED
    BY <1>23, <1>24 DEF D

LEMMA MoveConserves ==
    ASSUME TypeOK, Carried, Held, Merged, NEW q \in Requests, Move(q), disturbed = {},
           Balanced, Placed
    PROVE  Balanced' /\ Placed'
<1> DEFINE t == req[q].to
           S == req[q].seen
           parts == req[q].parts
           twice == \E k, j \in DOMAIN parts : k # j /\ parts[k].row = parts[j].row
<1>1. /\ req[q].pc = "move" /\ t \in Orders /\ units' = units /\ parts \in Seq(Part)
      /\ Touched(req[q]) = S \cup Divided(parts) /\ Touched(req[q]) \subseteq DOMAIN lines
    BY MoveDoes
<1>2. /\ req[q].of \in Orders /\ Fits(parts, lines) /\ bill[t].into = None
      /\ \A i \in Touched(req[q]) : lines[i].of = req[q].of
    BY <1>1, StillThere
<1>3. \A i \in S \cup Divided(parts) : i \in DOMAIN lines /\ lines[i].of # None
    BY <1>1, <1>2, OrdersAssumption
<1>4. /\ After(lines', S, parts, t) /\ doubled' = (doubled \/ twice)
      /\ \A i \in DOMAIN lines' \ DOMAIN lines : lines'[i].of = t
    BY <1>1, <1>3, MoveDoes
<1>5. \A u \in Orders : bill'[u].into = bill[u].into
    BY IntoMoved DEF IntoKept
<1>6. Balanced'
    <2> DEFINE ls == lines'
    <2>1. After(ls, S, parts, t)
        BY <1>4
    <2> HIDE DEF ls, S, parts, t
    <2>2. /\ Units(ls) \in Int /\ Units(ls) >= Units(lines)
          /\ ~ twice => Units(ls) = Units(lines)
        BY <1>1, <1>2, <1>3, <2>1, MovedUnits
    <2>3. units \in Int /\ Units(lines) \in Int /\ doubled \in BOOLEAN
        BY UnitsAreInt DEF TypeOK
    <2>4. /\ units' = units /\ doubled' = (doubled \/ twice)
          /\ units <= Units(lines) /\ (~ doubled => units = Units(lines))
        BY <1>1, <1>4 DEF Balanced
    <2> HIDE DEF twice
    <2>5. units <= Units(ls)
        BY <2>2, <2>3, <2>4
    <2>6. ~ (doubled \/ twice) => units = Units(ls)
        BY <2>2, <2>4
    <2>7. units' <= Units(lines') /\ (~ doubled' => units' = Units(lines'))
        BY <2>4, <2>5, <2>6 DEF ls
    <2> QED
        BY <2>7 DEF Balanced
<1>7. Placed'
    <2>1. ASSUME NEW i \in DOMAIN lines'
          PROVE  lines'[i].of = t \/ (i \in DOMAIN lines /\ lines'[i].of = lines[i].of)
        BY <1>4 DEF After
    <2>2. \A i \in DOMAIN lines : lines[i].of \in Orders \cup {None}
        BY Types
    <2> HIDE DEF t
    <2> QED
        BY <1>1, <1>2, <1>5, <2>1, <2>2 DEF Placed
<1> QED
    BY <1>6, <1>7

LEMMA ConservedStep ==
    ASSUME TypeOK, Carried, Numbered, Held, Merged, ItemsConserved, Next
    PROVE  ItemsConserved'
<1>1. disturbed \subseteq disturbed'
    <2>1. ASSUME NEW q \in Requests, Arrive(q)
          PROVE  disturbed \subseteq disturbed'
        BY <2>1, Arriving, AskDoes
    <2>2. ASSUME NEW q \in Requests, Proceed(q)
          PROVE  disturbed \subseteq disturbed'
        BY <2>2, AroundStep DEF Around
    <2>3. ASSUME NEW q \in Requests, Crash(q)
          PROVE  disturbed \subseteq disturbed'
        BY <2>3 DEF Crash
    <2> QED
        BY <2>1, <2>2, <2>3 DEF Next, Progress
<1> SUFFICES ASSUME disturbed = {}
             PROVE  Balanced' /\ Placed'
    BY <1>1, ConservedIs
<1>2. Balanced /\ Placed /\ TypeOK'
    BY ConservedIs, TypeStep
<1>3. ASSUME units' = units, lines' = lines, doubled' = doubled, IntoKept
      PROVE  Balanced' /\ Placed'
    <2>1. \A i \in DOMAIN lines : lines[i].of \in Orders \cup {None}
        BY Types
    <2> QED
        BY <1>2, <1>3, <2>1 DEF Placed, Balanced, IntoKept
<1>4. ASSUME NEW q \in Requests, Arrive(q)
      PROVE  Balanced' /\ Placed'
    <2>1. units' = units /\ lines' = lines /\ doubled' = doubled /\ bill' = bill
        BY <1>4, Arriving, AskDoes
    <2> QED
        BY <1>3, <2>1 DEF IntoKept
<1>5. ASSUME NEW q \in Requests, Proceed(q)
      PROVE  Balanced' /\ Placed'
    <2>1. CASE AddItem(q) \/ ChangeItem(q) \/ Merge(q) \/ Move(q)
        BY <1>2, <2>1, AddConserves, ChangeConserves, MergeConserves, MoveConserves, EvenlyBalanced
    <2>2. CASE ~ (AddItem(q) \/ ChangeItem(q) \/ Merge(q) \/ Move(q))
        <3>1. units' = units /\ lines' = lines /\ doubled' = doubled
            BY <1>5, <2>2 DEF Proceed, InsertDiscount, Claim, SumItems, ReadSubtotal, ReadDiscount,
                WriteTotals
        <3> QED
            BY <1>3, <1>5, <2>2, <3>1, IntoStep
    <2> QED
        BY <2>1, <2>2
<1>6. ASSUME NEW q \in Requests, Crash(q)
      PROVE  Balanced' /\ Placed'
    <2>1. units' = units /\ lines' = lines /\ doubled' = doubled /\ bill' = bill
        BY <1>6, CrashDoes
    <2> QED
        BY <1>3, <2>1 DEF IntoKept
<1>7. ASSUME NEW u \in Orders, NEW s \in {"SERVED", "CLOSED"}, Progress(u, s)
      PROVE  Balanced' /\ Placed'
    <2>1. /\ units' = units /\ lines' = lines /\ doubled' = doubled
          /\ \A o \in Orders \ {u} : bill'[o] = bill[o]
          /\ bill[u].status \in {"NEW", "SERVED"} /\ bill'[u].into = bill[u].into
        BY <1>7, ProgressDoes
    <2>2. IntoKept
        BY <2>1 DEF IntoKept
    <2> QED
        BY <1>3, <2>1, <2>2
<1> QED
    BY <1>4, <1>5, <1>6, <1>7 DEF Next

-----------------------------------------------------------------------------
(* The invariant, and what follows from it                                 *)

LEMMA NoRows == Units(<<>>) = 0 /\ \A o : Subtotal(<<>>, o) = 0
<1> DEFINE rows == <<>>
<1>1. rows \in Seq(LineRow) /\ DOMAIN rows = {} /\ IsFiniteSet({})
    BY FS_EmptySet
<1> HIDE DEF rows
<1>2. \A w : WSum(w, {}) = 0
    BY <1>1, WSumStep
<1>3. Units(rows) = 0
    BY <1>1, <1>2, UnitsIsSum
<1>4. \A o : Subtotal(rows, o) = 0
    BY <1>1, <1>2, SubtotalIsSum
<1> QED
    BY <1>3, <1>4 DEF rows

LEMMA InvariantInit == Init => IInv
<1> SUFFICES ASSUME Init PROVE IInv
    OBVIOUS
<1>1. /\ lines = <<>> /\ DOMAIN lines = {} /\ discounts = <<>> /\ DOMAIN discounts = {}
      /\ units = 0 /\ handed = {} /\ disturbed = {} /\ doubled = FALSE
      /\ \A r \in Requests : req[r] = Idle
      /\ \A o \in Orders : /\ bill[o].subtotal = 0 /\ bill[o].discount = 0 /\ bill[o].total = 0
                           /\ bill[o].into = None
    BY DEF Init
<1>2. TypeOK
    BY TypeInit
<1>3. Idle.pc = "idle" /\ Idle.to = None /\ Its(Idle) = {} /\ Touched(Idle) = {}
    BY IdleSlot DEF Idle
<1>4. Carried
    BY <1>1, <1>3 DEF Carried
<1>5. Apart
    BY <1>1, <1>3 DEF Apart
<1>6. Held
    BY <1>1, <1>3 DEF Held
<1>7. Numbered
    BY <1>1 DEF Numbered, AllApproved
<1>8. Settled
    <2>1. \A o \in Orders : Subtotal(lines, o) = 0 /\ Approved(discounts, o) = {}
        BY <1>1, NoRows DEF Approved
    <2>2. ASSUME NEW o \in Orders
          PROVE  Correct(bill, lines, discounts, o)
        BY <1>1, <2>1 DEF Correct, Latest
    <2> QED
        BY <2>2 DEF Settled
<1>9. Recalculating
    BY <1>1, <1>3 DEF Recalculating
<1>10. Merged
    BY <1>1, <1>3 DEF Merged
<1>11. ItemsConserved
    BY <1>1, NoRows, ConservedIs DEF Placed, Balanced
<1> QED
    BY <1>2, <1>4, <1>5, <1>6, <1>7, <1>8, <1>9, <1>10, <1>11 DEF IInv

LEMMA InvariantStep == IInv /\ [Next]_vars => IInv'
<1> SUFFICES ASSUME IInv, [Next]_vars PROVE IInv'
    OBVIOUS
<1>0. /\ TypeOK /\ Carried /\ Apart /\ Held /\ Numbered /\ Settled /\ Recalculating /\ Merged
      /\ ItemsConserved
    BY DEF IInv
<1>1. CASE Next
    BY <1>0, <1>1, TypeStep, CarriedStep, ApartStep, HeldStep, NumberedStep, RightStep, MergedStep,
       ConservedStep DEF IInv
<1>2. CASE UNCHANGED vars
    <2>1. TypeOK'
        BY <1>0, <1>2 DEF TypeOK, vars
    <2>2. Carried'
        BY <1>0, <1>2 DEF Carried, vars
    <2>3. Apart'
        BY <1>0, <1>2 DEF Apart, vars
    <2>4. Held'
        BY <1>0, <1>2 DEF Held, vars
    <2>5. Numbered'
        BY <1>0, <1>2 DEF Numbered, vars
    <2>6. Settled'
        BY <1>0, <1>2 DEF Settled, Correct, vars
    <2>7. Recalculating'
        BY <1>0, <1>2 DEF Recalculating, vars
    <2>8. Merged'
        BY <1>0, <1>2 DEF Merged, vars
    <2>9. ItemsConserved'
        BY <1>0, <1>2, ConservedIs DEF Placed, Balanced, vars
    <2> QED
        BY <2>1, <2>2, <2>3, <2>4, <2>5, <2>6, <2>7, <2>8, <2>9 DEF IInv
<1> QED
    BY <1>1, <1>2

\* The invariant that the others follow from: requests hold what they read
\* unless they met or died, approvals are numbered, the bill is right or a
\* request is about to make it so, and no item is lost.
THEOREM BillInvariant == Spec => []IInv
BY InvariantInit, InvariantStep, PTL DEF Spec

\* Every row of orders, order_items and discounts, and every request's carried
\* values, keep their types, whatever the items, discounts and handoffs do.
THEOREM BillTypes == Spec => []TypeOK
<1>1. IInv => TypeOK
    BY DEF IInv
<1> QED
    BY <1>1, BillInvariant, PTL

\* The three recalculations agree: recalcOrderTotals, recalcOrderDiscount and
\* recomputeAndSaveOrderTotals leave an order that no request is about, and that
\* none met or died on, with its items' subtotal, its latest approved discount
\* (unless a handoff wrote it last) and their difference.
THEOREM BillIsTrue == Spec => []BillTrue
<1>1. IInv => BillTrue
    <2> SUFFICES ASSUME TypeOK, Settled, NEW o \in Orders \ disturbed,
                        \A r \in Requests : o \notin About(r)
                 PROVE  /\ bill[o].subtotal = Subtotal(lines, o)
                        /\ bill[o].total = bill[o].subtotal - bill[o].discount
                        /\ o \notin handed =>
                               /\ bill[o].total >= 0
                               /\ Approved(discounts, o) = {} => bill[o].discount = 0
                               /\ \A d \in Approved(discounts, o) :
                                      \/ bill[o].discount = AmountOff(discounts[d].kind,
                                                                      bill[o].subtotal)
                                      \/ \E e \in Approved(discounts, o) :
                                             discounts[e].at > discounts[d].at
        BY DEF IInv, BillTrue, Approved
    <2>1. Correct(bill, lines, discounts, o)
        BY AboutIts DEF Settled
    <2>2. bill[o].subtotal \in Nat /\ bill[o].discount \in Nat
        BY Types
    <2> QED
        BY <2>1, <2>2 DEF Correct, Latest
<1> QED
    BY <1>1, BillInvariant, PTL

\* mergeOrders, moveItems and splitItems lose no item, and a VOIDED source keeps
\* none, as long as no request met another or died; they invent none either,
\* whatever lists they are given, unless a list divides one item twice (the
\* quantity in the loop's map of items is not brought up to date).
THEOREM ItemsAreConserved == Spec => []ItemsConserved
<1>1. IInv => ItemsConserved
    BY DEF IInv
<1> QED
    BY <1>1, BillInvariant, PTL

\* approveDiscount and rejectDiscount decide a discount once: only the update
\* that finds it PENDING writes the row.
THEOREM DecidedOnlyOnce == Spec => DecidedOnce
<1> DEFINE Once == \A d \in DOMAIN discounts :
                       discounts[d].status # "PENDING" => discounts'[d] = discounts[d]
<1>1. ASSUME IInv, [Next]_vars
      PROVE  Once
    <2>0. TypeOK /\ Carried
        BY <1>1 DEF IInv
    <2>1. ASSUME NEW q \in Requests, InsertDiscount(q)
          PROVE  Once
        BY <2>0, <2>1, InsertDiscountDoes
    <2>2. ASSUME NEW q \in Requests, Claim(q)
          PROVE  Once
        <3> DEFINE k == req[q].row
        <3>1. \/ discounts' = discounts
              \/ /\ discounts[k].status = "PENDING"
                 /\ \A d \in DOMAIN discounts \ {k} : discounts'[d] = discounts[d]
            BY <2>0, <2>2, ClaimDoes
        <3> HIDE DEF k
        <3> QED
            BY <3>1
    <2>3. ASSUME NEW q \in Requests, Arrive(q)
          PROVE  discounts' = discounts
        BY <2>0, <2>3, Arriving, AskDoes
    <2>4. ASSUME NEW q \in Requests, Proceed(q), ~ InsertDiscount(q), ~ Claim(q)
          PROVE  discounts' = discounts
        BY <2>4, OnlyDiscounts
    <2>5. CASE discounts' = discounts
        BY <2>5
    <2> QED
        BY <1>1, <2>1, <2>2, <2>3, <2>4, <2>5 DEF Next, Crash, Progress, vars
<1>2. IInv /\ [Next]_vars => [Once]_vars
    BY <1>1
<1> QED
    BY <1>2, BillInvariant, PTL DEF Spec, DecidedOnce

=============================================================================
