--------------------------------- MODULE Bill ---------------------------------
(***************************************************************************)
(* What an order costs: its items (OrdersService), its discounts           *)
(* (DiscountsService), and the handoffs that split, merge and move orders  *)
(* (PosHandoffService).  Three recalculations write an order's totals.     *)
(*                                                                         *)
(* A request is a sequence of single database calls; a handoff is a read   *)
(* of the orders and one transaction that trusts what was read.  All units *)
(* cost UnitPrice.  The list of a split or move may name an item twice:    *)
(* each entry is held against, and taken off, the quantity that was read.  *)
(***************************************************************************)
EXTENDS Integers, Sequences, SequencesExt, FiniteSetsExt

CONSTANTS
    Orders,         \* orders a behaviour may use
    Taken,          \* those that exist from the start; the others are split off
    UnitPrice,
    Kinds,          \* discounts asked for: their type and value
    Threshold,      \* above it a discount needs approval
    Requests,       \* requests in progress at a time
    None,
    MaxQuantity, MaxRows, MaxParts, MaxDiscounts, MaxArrivals, MaxCrashes  \* bounds

ASSUME OrdersAssumption == Taken \subseteq Orders /\ None \notin Orders
ASSUME KindsAssumption ==
    /\ Kinds \subseteq [type : {"FIXED", "PERCENTAGE"}, value : Nat]
    /\ \A k \in Kinds : k.type = "PERCENTAGE" => k.value <= 100
ASSUME NumbersAssumption ==
    /\ UnitPrice \in Nat /\ Threshold \in Nat /\ MaxQuantity \in Nat
    /\ MaxRows \in Nat /\ MaxParts \in Nat /\ MaxDiscounts \in Nat
    /\ MaxArrivals \in Nat /\ MaxCrashes \in Nat

VARIABLES
    bill,       \* orders rows: status, subtotal, discount, total, mergedIntoOrderId
    lines,      \* order_items rows: their order (None once deleted) and quantity
    discounts,  \* discounts rows; at is the place of its approvedAt among approvals
    req,        \* req[r]: the request's next call and what it carries
    units,      \* what the items requests added less what they removed
    handed,     \* orders whose totals were last written by a handoff
    doubled,    \* whether a handoff was written that took two parts of one item
    disturbed,  \* orders of requests that overlapped or died, and of later ones about them
    arrived,    \* requests taken
    crashes

vars == <<bill, lines, discounts, req, units, handed, doubled, disturbed, arrived, crashes>>

\* NEW stands for the states that accept a discount: NEW, SENT, IN_KITCHEN, READY.
OrderStatus == {"ABSENT", "NEW", "SERVED", "CLOSED", "VOIDED"}
DISCOUNTABLE_STATES == {"NEW"}
HANDOFF_OPEN_STATUSES == {"NEW", "SERVED"}
DiscountStatus == {"PENDING", "APPROVED", "REJECTED"}

PC == {"idle", "change", "items", "latest", "totals", "insertDiscount", "subtotal",
       "claim", "merge", "move"}

\* to is the other order of a handoff; row and n an item and a quantity, or a
\* discount; seen the items to be moved as they are; parts, in order, the parts
\* of items to be moved and what each is to leave of its item; full whether the
\* items are summed too.
Idle == [pc |-> "idle", of |-> None, to |-> None, row |-> 0, n |-> 0, seen |-> {}, parts |-> <<>>,
         kind |-> None, status |-> "PENDING", sum |-> 0, cut |-> 0, full |-> TRUE]

Part == [row : 1..MaxRows, n : 1..MaxQuantity, rest : 1..MaxQuantity]

Money == Int

TypeOK ==
    /\ bill \in [Orders -> [status : OrderStatus, subtotal : Nat, discount : Nat,
                            total : Money, into : Orders \cup {None}]]
    /\ lines \in Seq([of : Orders \cup {None}, qty : 1..MaxQuantity]) /\ Len(lines) <= MaxRows
    /\ discounts \in Seq([of : Orders, kind : Kinds, status : DiscountStatus, at : 0..MaxDiscounts])
    /\ Len(discounts) <= MaxDiscounts
    /\ req \in [Requests -> [pc : PC, of : Orders \cup {None}, to : Orders \cup {None},
                             row : Nat, n : 0..MaxQuantity,
                             seen : SUBSET (1..MaxRows), parts : Seq(Part),
                             kind : Kinds \cup {None}, status : DiscountStatus,
                             sum : Nat, cut : Nat, full : BOOLEAN]]
    /\ units \in Int
    /\ handed \subseteq Orders /\ doubled \in BOOLEAN /\ disturbed \subseteq Orders
    /\ arrived \in 0..MaxArrivals /\ crashes \in 0..MaxCrashes

Init ==
    /\ bill = [o \in Orders |-> [status |-> IF o \in Taken THEN "NEW" ELSE "ABSENT",
                                 subtotal |-> 0, discount |-> 0, total |-> 0, into |-> None]]
    /\ lines = <<>>
    /\ discounts = <<>>
    /\ req = [r \in Requests |-> Idle]
    /\ units = 0
    /\ handed = {} /\ doubled = FALSE /\ disturbed = {}
    /\ arrived = 0 /\ crashes = 0

-----------------------------------------------------------------------------
(* Building blocks                                                         *)

\* What the rows of order o cost.
Subtotal(rows, o) ==
    FoldSeq(LAMBDA l, sum : IF l.of = o THEN l.qty * UnitPrice + sum ELSE sum, 0, rows)

\* The amount of a discount on a subtotal.
AmountOff(kind, subtotal) ==
    IF kind.type = "PERCENTAGE" THEN (subtotal * kind.value) \div 100
    ELSE Min({kind.value, subtotal})

\* "one active approved discount per order (latest approved wins)".
DiscountOf(o, subtotal) ==
    LET approved == {i \in DOMAIN discounts : discounts[i].of = o /\ discounts[i].status = "APPROVED"}
    IN  IF approved = {} THEN 0
        ELSE AmountOff(discounts[CHOOSE i \in approved : \A j \in approved :
                                  discounts[i].at >= discounts[j].at].kind, subtotal)

\* The next approval's place.
NextApproval == 1 + Cardinality({i \in DOMAIN discounts : discounts[i].status = "APPROVED"})

About(r) == {req[r].of, req[r].to} \ {None}

\* A free slot takes a request about these orders.
Start(r, d) ==
    LET about == {d.of, d.to} \ {None}
        met == UNION {About(q) : q \in {q \in Requests \ {r} : About(q) \cap about # {}}}
    IN
    /\ req[r].pc = "idle"
    /\ arrived < MaxArrivals
    /\ arrived' = arrived + 1
    /\ req' = [req EXCEPT ![r] = d]
    /\ disturbed' = IF met = {} /\ about \cap disturbed = {} THEN disturbed
                    ELSE disturbed \cup about \cup met

Goto(r, q) == req' = [req EXCEPT ![r].pc = q] /\ UNCHANGED <<disturbed, arrived>>
Finish(r) == req' = [req EXCEPT ![r] = Idle] /\ UNCHANGED <<disturbed, arrived>>

-----------------------------------------------------------------------------
(* The recalculations                                                      *)

\* recalcOrderTotals starts from the items ...
SumItems(r) ==
    /\ req[r].pc = "items"
    /\ req' = [req EXCEPT ![r].pc = "latest", ![r].full = TRUE,
                          ![r].sum = Subtotal(lines, req[r].of)]
    /\ UNCHANGED <<bill, lines, discounts, units, handed, doubled, disturbed, arrived, crashes>>

\* ... recalcOrderDiscount from the subtotal on the order; ...
ReadSubtotal(r) ==
    /\ req[r].pc = "subtotal"
    /\ req' = [req EXCEPT ![r].pc = "latest", ![r].full = FALSE,
                          ![r].sum = bill[req[r].of].subtotal]
    /\ UNCHANGED <<bill, lines, discounts, units, handed, doubled, disturbed, arrived, crashes>>

\* ... both take the latest approved discount off it ...
ReadDiscount(r) ==
    /\ req[r].pc = "latest"
    /\ req' = [req EXCEPT ![r].pc = "totals", ![r].cut = DiscountOf(req[r].of, req[r].sum)]
    /\ UNCHANGED <<bill, lines, discounts, units, handed, doubled, disturbed, arrived, crashes>>

\* ... and write what comes of it, the subtotal only if it was summed.
WriteTotals(r) ==
    LET o == req[r].of IN
    /\ req[r].pc = "totals"
    /\ bill' = [bill EXCEPT ![o] = [@ EXCEPT
                    !.subtotal = IF req[r].full THEN req[r].sum ELSE bill[o].subtotal,
                    !.discount = req[r].cut,
                    !.total = Max({req[r].sum - req[r].cut, 0})]]
    /\ handed' = handed \ {o}
    /\ Finish(r)
    /\ UNCHANGED <<lines, discounts, units, doubled, crashes>>

-----------------------------------------------------------------------------
(* Items: add one, or give one another quantity, or delete it (n = 0)      *)

ItemRead(r, o, i, n) ==
    /\ bill[o].status \in {"NEW", "SERVED"}
    /\ i \in DOMAIN lines => lines[i].of = o
    /\ Start(r, [Idle EXCEPT !.pc = "change", !.of = o, !.row = i, !.n = n])
    /\ UNCHANGED <<bill, lines, discounts, units, handed, doubled, crashes>>

AddItem(r) ==
    /\ req[r].pc = "change" /\ req[r].row = 0
    /\ Len(lines) < MaxRows
    /\ lines' = Append(lines, [of |-> req[r].of, qty |-> req[r].n])
    /\ units' = units + req[r].n
    /\ Goto(r, "items")
    /\ UNCHANGED <<bill, discounts, handed, doubled, crashes>>

\* Mutant: an item is deleted by leaving none of it.
ChangeItemZero(r) ==
    LET i == req[r].row IN
    /\ req[r].pc = "change" /\ i # 0
    /\ IF lines[i].of = None THEN Finish(r) /\ UNCHANGED <<lines, units>>
       ELSE /\ lines' = [lines EXCEPT ![i].qty = req[r].n]
            /\ units' = units - lines[i].qty + req[r].n
            /\ Goto(r, "items")
    /\ UNCHANGED <<bill, discounts, handed, doubled, crashes>>

\* By the item's id, whatever order it is on by now; nothing if it is gone.
ChangeItem(r) ==
    LET i == req[r].row IN
    /\ req[r].pc = "change" /\ i # 0
    /\ IF lines[i].of = None THEN Finish(r) /\ UNCHANGED <<lines, units>>
       ELSE /\ lines' = IF req[r].n > 0 THEN [lines EXCEPT ![i].qty = req[r].n]
                        ELSE [lines EXCEPT ![i].of = None]
            /\ units' = units - lines[i].qty + req[r].n
            /\ Goto(r, "items")
    /\ UNCHANGED <<bill, discounts, handed, doubled, crashes>>

-----------------------------------------------------------------------------
(* Discounts                                                               *)

DiscountRead(r, o, kind) ==
    /\ bill[o].status \in DISCOUNTABLE_STATES
    /\ Start(r, [Idle EXCEPT !.pc = "insertDiscount", !.of = o, !.kind = kind,
                             !.sum = bill[o].subtotal])
    /\ UNCHANGED <<bill, lines, discounts, units, handed, doubled, crashes>>

\* Mutant: the totals are left to the next recalculation.
InsertDiscountOnly(r) ==
    LET kind == req[r].kind
        auto == (IF kind.type = "FIXED" THEN kind.value ELSE AmountOff(kind, req[r].sum)) <= Threshold
    IN
    /\ req[r].pc = "insertDiscount"
    /\ Len(discounts) < MaxDiscounts
    /\ discounts' = Append(discounts,
           [of |-> req[r].of, kind |-> kind, status |-> IF auto THEN "APPROVED" ELSE "PENDING",
            at |-> IF auto THEN NextApproval ELSE 0])
    /\ Finish(r)
    /\ UNCHANGED <<bill, lines, units, handed, doubled, crashes>>

\* A fixed discount is compared with the threshold before it is capped.
InsertDiscount(r) ==
    LET kind == req[r].kind
        auto == (IF kind.type = "FIXED" THEN kind.value ELSE AmountOff(kind, req[r].sum)) <= Threshold
    IN
    /\ req[r].pc = "insertDiscount"
    /\ Len(discounts) < MaxDiscounts
    /\ discounts' = Append(discounts,
           [of |-> req[r].of, kind |-> kind, status |-> IF auto THEN "APPROVED" ELSE "PENDING",
            at |-> IF auto THEN NextApproval ELSE 0])
    /\ IF auto THEN Goto(r, "subtotal") ELSE Finish(r)
    /\ UNCHANGED <<bill, lines, units, handed, doubled, crashes>>

\* approveDiscount looks at the order too, rejectDiscount does not.
DecideRead(r, d, status) ==
    /\ discounts[d].status = "PENDING"
    /\ status = "APPROVED" => bill[discounts[d].of].status \in DISCOUNTABLE_STATES
    /\ Start(r, [Idle EXCEPT !.pc = "claim", !.of = discounts[d].of, !.row = d, !.status = status])
    /\ UNCHANGED <<bill, lines, discounts, units, handed, doubled, crashes>>

\* Mutant: the decision is written by id.
ClaimAny(r) ==
    LET d == req[r].row IN
    /\ req[r].pc = "claim"
    /\ discounts' = [discounts EXCEPT ![d].status = req[r].status,
                         ![d].at = IF req[r].status = "APPROVED" THEN NextApproval ELSE @]
    /\ IF req[r].status = "APPROVED" THEN Goto(r, "subtotal") ELSE Finish(r)
    /\ UNCHANGED <<bill, lines, units, handed, doubled, crashes>>

\* The "concurrency-safe claim": only while the row is still PENDING.
Claim(r) ==
    LET d == req[r].row IN
    /\ req[r].pc = "claim"
    /\ IF discounts[d].status = "PENDING"
       THEN /\ discounts' = [discounts EXCEPT ![d].status = req[r].status,
                                ![d].at = IF req[r].status = "APPROVED" THEN NextApproval ELSE @]
            /\ IF req[r].status = "APPROVED" THEN Goto(r, "subtotal") ELSE Finish(r)
       ELSE Finish(r) /\ UNCHANGED discounts
    /\ UNCHANGED <<bill, lines, units, handed, doubled, crashes>>

-----------------------------------------------------------------------------
(* Handoffs                                                                *)

\* The order after recomputeAndSaveOrderTotals over these rows: the discount is
\* kept as it is, and the total has no floor.
Recomputed(row, rows, o) ==
    [row EXCEPT !.subtotal = Subtotal(rows, o), !.total = Subtotal(rows, o) - row.discount]

\* mergeOrders: no payment of the source, which is OPEN here, has been taken.
MergeRead(r, o, t) ==
    /\ o # t
    /\ bill[o].status \in HANDOFF_OPEN_STATUSES /\ bill[t].status \in HANDOFF_OPEN_STATUSES
    /\ Start(r, [Idle EXCEPT !.pc = "merge", !.of = o, !.to = t,
                             !.seen = {i \in DOMAIN lines : lines[i].of = o}])
    /\ UNCHANGED <<bill, lines, discounts, units, handed, doubled, crashes>>

\* The items that were read go to the target, the source is VOIDED.
Merge(r) ==
    LET o == req[r].of
        t == req[r].to
        rows == [i \in DOMAIN lines |-> IF i \in req[r].seen THEN [lines[i] EXCEPT !.of = t] ELSE lines[i]]
    IN
    /\ req[r].pc = "merge"
    /\ IF \E i \in req[r].seen : lines[i].of = None
       THEN UNCHANGED <<bill, lines, handed>>
       ELSE /\ lines' = rows
            /\ bill' = [bill EXCEPT ![t] = Recomputed(@, rows, t),
                           ![o] = [Recomputed(@, rows, o) EXCEPT !.status = "VOIDED", !.into = t]]
            /\ handed' = handed \cup {o, t}
    /\ Finish(r)
    /\ UNCHANGED <<discounts, units, doubled, crashes>>

\* What a list may name of order o: items, and parts of them.  A list that names
\* an item several times is checked, entry by entry, against the one quantity
\* that was read.
ItemsOf(o) == {i \in DOMAIN lines : lines[i].of = o}
PartsOf(o) == {p \in Part : p.row \in ItemsOf(o) /\ p.n + p.rest = lines[p.row].qty}

MoveOf(o, t, whole, parts) ==
    [Idle EXCEPT !.pc = "move", !.of = o, !.to = t, !.seen = whole, !.parts = parts]

\* moveItems to an open order, splitItems to one that is created for it: some
\* items as they are, and parts of some.
MoveRead(r, o, t) ==
    /\ o # t
    /\ bill[o].status \in HANDOFF_OPEN_STATUSES
    /\ bill[t].status \in HANDOFF_OPEN_STATUSES \cup {"ABSENT"}
    /\ bill[t].status = "ABSENT" => \A q \in Requests : t \notin About(q)
    /\ \E whole \in SUBSET ItemsOf(o), parts \in SeqOf(PartsOf(o), MaxParts) :
           /\ whole # {} \/ parts # <<>>
           /\ Start(r, MoveOf(o, t, whole, parts))
    /\ UNCHANGED <<bill, lines, discounts, units, handed, doubled, crashes>>

\* The entries of the list about item i, and the last of them.
Naming(parts, i) == {k \in DOMAIN parts : parts[k].row = i}
LastNaming(parts, i) == CHOOSE k \in Naming(parts, i) : \A j \in Naming(parts, i) : j <= k

\* Mutant: a part that is moved is not taken off the row it came from.
MovedCopies(whole, parts, t) ==
    [i \in DOMAIN lines |-> IF i \in whole THEN [lines[i] EXCEPT !.of = t] ELSE lines[i]]
        \o [k \in DOMAIN parts |-> [of |-> t, qty |-> parts[k].n]]

\* The rows after the loop over the list: an item moved as it is changes its
\* order, an item divided keeps what the last entry about it leaves, and every
\* entry that divides makes a new row.
Moved(whole, parts, t) ==
    [i \in DOMAIN lines |->
        [of |-> IF i \in whole THEN t ELSE lines[i].of,
         qty |-> IF Naming(parts, i) = {} THEN lines[i].qty
                 ELSE parts[LastNaming(parts, i)].rest]]
        \o [k \in DOMAIN parts |-> [of |-> t, qty |-> parts[k].n]]

\* All or nothing: an item that is gone by now rolls it back.
Move(r) ==
    LET o == req[r].of
        t == req[r].to
        parts == req[r].parts
        rows == Moved(req[r].seen, parts, t)
    IN
    /\ req[r].pc = "move"
    /\ Len(lines) + Len(parts) <= MaxRows
    /\ IF \E i \in DOMAIN lines :
             lines[i].of = None /\ (i \in req[r].seen \/ Naming(parts, i) # {})
       THEN UNCHANGED <<bill, lines, handed, doubled>>
       ELSE /\ lines' = rows
            /\ bill' = [bill EXCEPT ![o] = Recomputed(@, rows, o),
                           ![t] = [Recomputed(@, rows, t) EXCEPT
                                      !.status = IF bill[t].status = "ABSENT" THEN "NEW"
                                                 ELSE bill[t].status]]
            /\ handed' = handed \cup {o, t}
            /\ doubled' = (doubled \/ \E k, j \in DOMAIN parts : k # j /\ parts[k].row = parts[j].row)
    /\ Finish(r)
    /\ UNCHANGED <<discounts, units, crashes>>

-----------------------------------------------------------------------------
(* The surroundings                                                        *)

\* The kitchen serves an order; it is paid and closed (or voided, CLOSED here).
Progress(o, status) ==
    /\ bill[o].status \in {"NEW", "SERVED"}
    /\ status = "SERVED" => bill[o].status = "NEW"
    /\ bill' = [bill EXCEPT ![o].status = status]
    /\ UNCHANGED <<lines, discounts, req, units, handed, doubled, disturbed, arrived, crashes>>

Crash(r) ==
    /\ req[r].pc # "idle"
    /\ crashes < MaxCrashes
    /\ crashes' = crashes + 1
    /\ req' = [req EXCEPT ![r] = Idle]
    /\ disturbed' = disturbed \cup About(r)
    /\ UNCHANGED <<bill, lines, discounts, units, handed, doubled, arrived>>

Arrive(r) ==
    \/ \E o \in Orders, i \in 0..Len(lines), n \in 0..MaxQuantity :
           (i = 0 => n > 0) /\ ItemRead(r, o, i, n)
    \/ \E o \in Orders, kind \in Kinds : DiscountRead(r, o, kind)
    \/ \E d \in DOMAIN discounts, s \in {"APPROVED", "REJECTED"} : DecideRead(r, d, s)
    \/ \E o, t \in Orders : MergeRead(r, o, t)
    \/ \E o, t \in Orders : MoveRead(r, o, t)

Proceed(r) ==
    \/ AddItem(r) \/ ChangeItem(r) \/ InsertDiscount(r) \/ Claim(r)
    \/ SumItems(r) \/ ReadSubtotal(r) \/ ReadDiscount(r) \/ WriteTotals(r)
    \/ Merge(r) \/ Move(r)

Next ==
    \/ \E r \in Requests : Arrive(r) \/ Proceed(r) \/ Crash(r)
    \/ \E o \in Orders, status \in {"SERVED", "CLOSED"} : Progress(o, status)

Spec == Init /\ [][Next]_vars

-----------------------------------------------------------------------------
(* What must hold.                                                         *)

\* While no request is about it, an order that was never disturbed says what
\* its items come to and, since its last item or discount, the latest approved
\* discount; a handoff keeps the amount of the discount and takes it off even
\* if that leaves less than nothing (the three recalculations agree).
BillTrue ==
    \A o \in Orders \ disturbed :
        LET b == bill[o]
            approved == {d \in DOMAIN discounts :
                            discounts[d].of = o /\ discounts[d].status = "APPROVED"}
        IN
        (\A r \in Requests : o \notin About(r)) =>
            /\ b.subtotal = Subtotal(lines, o)
            /\ b.total = b.subtotal - b.discount
            /\ o \notin handed => /\ b.total >= 0
                                  /\ approved = {} => b.discount = 0
                                  /\ \A d \in approved :
                                         \/ b.discount = AmountOff(discounts[d].kind, b.subtotal)
                                         \/ \E e \in approved : discounts[e].at > discounts[d].at

\* The units of all items.
Units(rows) == FoldSeq(LAMBDA l, sum : IF l.of = None THEN sum ELSE l.qty + sum, 0, rows)

\* Unless requests overlapped or died (the quantities a handoff writes are those
\* it read), splits, merges and moves lose no item and an order that was merged
\* away keeps none; and they invent none but for an item that one list divides
\* twice, as the second part is taken off what the first was taken off.
ItemsConserved ==
    disturbed = {} =>
        /\ units <= Units(lines)
        /\ ~doubled => units = Units(lines)
        /\ \A i \in DOMAIN lines : lines[i].of # None => bill[lines[i].of].into = None

\* A discount is decided once, whoever races to decide it ("exactly one
\* conditional update matches", approveDiscount).
DecidedOnce ==
    [][\A d \in DOMAIN discounts :
           discounts[d].status # "PENDING" => discounts'[d] = discounts[d]]_vars

=============================================================================
