------------------------------- MODULE Refunds -------------------------------
(***************************************************************************)
(* RefundsService: money given back on closed orders.  A refund up to the  *)
(* approval threshold is COMPLETED at once, a larger one waits PENDING for *)
(* a manager; a payment whose refunds reach its amount becomes REFUNDED.   *)
(* Within 15 minutes of the order's last update the whole order can be     *)
(* voided instead.                                                         *)
(*                                                                         *)
(* A request is a sequence of single database calls.  Nothing but the void *)
(* runs in a transaction and no update looks at what it overwrites.        *)
(***************************************************************************)
EXTENDS Integers, Sequences, SequencesExt

CONSTANTS
    Orders, Payments,   \* rows a behaviour may use
    OrderOf,            \* the order each payment is for
    Amount,             \* the amount of each payment
    RefundAmounts,      \* the amounts asked back
    Threshold,          \* above it a refund needs approval
    Requests,           \* requests in progress at a time
    None,
    MaxRefunds,         \* bound: refund rows
    MaxCrashes          \* bound: requests lost to a crash

ASSUME OrderOfAssumption == OrderOf \in [Payments -> Orders]
ASSUME AmountAssumption ==
    /\ Amount \in [Payments -> Nat \ {0}] /\ RefundAmounts \subseteq Nat \ {0}
    /\ Threshold \in Nat
ASSUME BoundsAssumption ==
    MaxRefunds \in Nat /\ MaxCrashes \in Nat /\ None \notin Orders \cup Payments

VARIABLES
    order,      \* orders rows: status, and whether updatedAt is within the void window
    pay,        \* payments rows: their status
    refunds,    \* refunds rows in the order of their creation
    req,        \* req[r]: the request's next call and what it carries
    overlapped, \* orders that two requests worked on at once
    crashes

refundVars == <<order, pay, refunds, req, overlapped, crashes>>

\* Before it is CLOSED an order is OPEN here, whatever its kitchen state.
OrderStatus == {"OPEN", "CLOSED", "VOIDED"}
PaymentStatus == {"ABSENT", "COMPLETED", "REFUNDED"}
RefundStatus == {"PENDING", "COMPLETED"}
RefundPC == {"payment", "sum", "insert", "flag", "approve", "markSum", "markWrite", "void"}

\* The request of a free slot; of is the order it is about, row the refund.
Idle == [pc |-> "idle", of |-> None, payment |-> None, amount |-> 0, row |-> 0]

RefundTypeOK ==
    /\ order \in [Orders -> [status : OrderStatus, recent : BOOLEAN]]
    /\ pay \in [Payments -> PaymentStatus]
    /\ refunds \in Seq([of : Payments, amount : RefundAmounts, status : RefundStatus])
    /\ Len(refunds) <= MaxRefunds
    /\ overlapped \subseteq Orders
    /\ crashes \in 0..MaxCrashes

RefundInit ==
    /\ order = [o \in Orders |-> [status |-> "OPEN", recent |-> TRUE]]
    /\ pay = [p \in Payments |-> "ABSENT"]
    /\ refunds = <<>>
    /\ req = [r \in Requests |-> Idle]
    /\ overlapped = {}
    /\ crashes = 0

-----------------------------------------------------------------------------
(* Building blocks                                                         *)

\* What the refunds of p with these statuses come to.
Refunded(p, statuses) ==
    FoldSeq(LAMBDA f, sum : IF f.of = p /\ f.status \in statuses THEN f.amount + sum ELSE sum,
            0, refunds)

\* A free slot takes a request about order o.
Start(r, o, d) ==
    /\ req[r].pc = "idle"
    /\ req' = [req EXCEPT ![r] = [d EXCEPT !.of = o]]
    /\ overlapped' = IF \E q \in Requests \ {r} : req[q].of = o
                     THEN overlapped \cup {o} ELSE overlapped

Goto(r, q) == req' = [req EXCEPT ![r].pc = q] /\ UNCHANGED overlapped
Finish(r) == req' = [req EXCEPT ![r] = Idle] /\ UNCHANGED overlapped

-----------------------------------------------------------------------------
(* createRefund                                                            *)

RefundRead(r, p, amount) ==
    /\ order[OrderOf[p]].status = "CLOSED"
    /\ Start(r, OrderOf[p], [Idle EXCEPT !.pc = "payment", !.payment = p, !.amount = amount])
    /\ UNCHANGED <<order, pay, refunds, crashes>>

ReadPayment(r) ==
    /\ req[r].pc = "payment"
    /\ IF pay[req[r].payment] = "COMPLETED" THEN Goto(r, "sum") ELSE Finish(r)
    /\ UNCHANGED <<order, pay, refunds, crashes>>

\* Mutant: a refund that waits for its approval does not count.
SumRefundsDone(r) ==
    /\ req[r].pc = "sum"
    /\ IF req[r].amount <= Amount[req[r].payment] - Refunded(req[r].payment, {"COMPLETED"})
       THEN Goto(r, "insert") ELSE Finish(r)
    /\ UNCHANGED <<order, pay, refunds, crashes>>

SumRefunds(r) ==
    /\ req[r].pc = "sum"
    /\ IF req[r].amount <= Amount[req[r].payment] - Refunded(req[r].payment, RefundStatus)
       THEN Goto(r, "insert") ELSE Finish(r)
    /\ UNCHANGED <<order, pay, refunds, crashes>>

\* The insert, COMPLETED up to the threshold.
InsertRefund(r) ==
    LET auto == req[r].amount <= Threshold IN
    /\ req[r].pc = "insert"
    /\ Len(refunds) < MaxRefunds
    /\ refunds' = Append(refunds, [of |-> req[r].payment, amount |-> req[r].amount,
                                   status |-> IF auto THEN "COMPLETED" ELSE "PENDING"])
    /\ Goto(r, IF auto THEN "markSum" ELSE "flag")
    /\ UNCHANGED <<order, pay, crashes>>

\* flagRefundAnomaly updates the order, and so its updatedAt.
FlagAnomaly(r) ==
    /\ req[r].pc = "flag"
    /\ order' = [order EXCEPT ![req[r].of].recent = TRUE]
    /\ Finish(r)
    /\ UNCHANGED <<pay, refunds, crashes>>

\* Mutant: the sum takes the pending refunds too.
MarkSumAll(r) ==
    /\ req[r].pc = "markSum"
    /\ IF Refunded(req[r].payment, RefundStatus) >= Amount[req[r].payment]
       THEN Goto(r, "markWrite") ELSE Finish(r)
    /\ UNCHANGED <<order, pay, refunds, crashes>>

\* checkAndMarkPaymentRefunded: the completed refunds, and the payment's status.
MarkSum(r) ==
    /\ req[r].pc = "markSum"
    /\ IF Refunded(req[r].payment, {"COMPLETED"}) >= Amount[req[r].payment]
       THEN Goto(r, "markWrite") ELSE Finish(r)
    /\ UNCHANGED <<order, pay, refunds, crashes>>

MarkWrite(r) ==
    /\ req[r].pc = "markWrite"
    /\ pay' = [pay EXCEPT ![req[r].payment] = "REFUNDED"]
    /\ Finish(r)
    /\ UNCHANGED <<order, refunds, crashes>>

-----------------------------------------------------------------------------
(* approveRefund.  Neither the order nor the payment is looked at again.   *)

ApproveRead(r, i) ==
    /\ refunds[i].status = "PENDING"
    /\ Start(r, OrderOf[refunds[i].of],
             [Idle EXCEPT !.pc = "approve", !.payment = refunds[i].of, !.row = i])
    /\ UNCHANGED <<order, pay, refunds, crashes>>

ApproveWrite(r) ==
    /\ req[r].pc = "approve"
    /\ refunds' = [refunds EXCEPT ![req[r].row].status = "COMPLETED"]
    /\ Goto(r, "markSum")
    /\ UNCHANGED <<order, pay, crashes>>

-----------------------------------------------------------------------------
(* postCloseVoid                                                           *)

VoidRead(r, o) ==
    /\ order[o].status = "CLOSED" /\ order[o].recent
    /\ Start(r, o, [Idle EXCEPT !.pc = "void"])
    /\ UNCHANGED <<order, pay, refunds, crashes>>

\* One transaction: the order and all its COMPLETED payments.
VoidWrite(r) ==
    /\ req[r].pc = "void"
    /\ order' = [order EXCEPT ![req[r].of] = [status |-> "VOIDED", recent |-> TRUE]]
    /\ pay' = [p \in Payments |->
                  IF OrderOf[p] = req[r].of /\ pay[p] = "COMPLETED" THEN "REFUNDED" ELSE pay[p]]
    /\ Finish(r)
    /\ UNCHANGED <<refunds, crashes>>

-----------------------------------------------------------------------------
(* The surroundings                                                        *)

\* A payment of an open order is recorded; the one that completes the total
\* closes it (PaymentsService, module Payments).
TakePayment(p) ==
    LET o == OrderOf[p] IN
    /\ order[o].status = "OPEN"
    /\ pay[p] = "ABSENT"
    /\ pay' = [pay EXCEPT ![p] = "COMPLETED"]
    /\ order' = IF \A q \in Payments : OrderOf[q] = o => pay'[q] # "ABSENT"
                THEN [order EXCEPT ![o].status = "CLOSED"] ELSE order
    /\ UNCHANGED <<refunds, req, overlapped, crashes>>

\* 15 minutes go by without an update of the order.
WindowPasses(o) ==
    /\ order[o].status = "CLOSED" /\ order[o].recent
    /\ order' = [order EXCEPT ![o].recent = FALSE]
    /\ UNCHANGED <<pay, refunds, req, overlapped, crashes>>

\* The process dies under r.
Crash(r) ==
    /\ req[r].pc # "idle"
    /\ crashes < MaxCrashes
    /\ crashes' = crashes + 1
    /\ Finish(r)
    /\ UNCHANGED <<order, pay, refunds>>

RefundNext ==
    \/ \E p \in Payments : TakePayment(p)
    \/ \E o \in Orders : WindowPasses(o)
    \/ \E r \in Requests :
           \/ \E p \in Payments, a \in RefundAmounts : RefundRead(r, p, a)
           \/ ReadPayment(r) \/ SumRefunds(r) \/ InsertRefund(r) \/ FlagAnomaly(r)
           \/ MarkSum(r) \/ MarkWrite(r)
           \/ \E i \in DOMAIN refunds : ApproveRead(r, i)
           \/ ApproveWrite(r)
           \/ \E o \in Orders : VoidRead(r, o)
           \/ VoidWrite(r)
           \/ Crash(r)

-----------------------------------------------------------------------------
(* What must hold.                                                         *)

\* Unless two requests about its order overlapped, the refunds of a payment,
\* those that wait for approval among them, never exceed it (createRefund:
\* "refund amount does not exceed payment amount minus existing refunds").
RefundsCovered ==
    \A p \in Payments :
        OrderOf[p] \notin overlapped => Refunded(p, RefundStatus) <= Amount[p]

\* A payment is REFUNDED exactly if its order was voided or its completed
\* refunds reach its amount, whatever requests interleave, except while one is
\* about to say so or if a crash took it (each request sums after its insert).
RefundedIsMarked ==
    \A p \in Payments :
        LET full == Refunded(p, {"COMPLETED"}) >= Amount[p]
            marking == \E r \in Requests :
                           req[r].payment = p /\ req[r].pc \in {"markSum", "markWrite"}
        IN  /\ pay[p] = "REFUNDED" => full \/ order[OrderOf[p]].status = "VOIDED"
            /\ full => pay[p] = "REFUNDED" \/ marking \/ crashes > 0

=============================================================================
