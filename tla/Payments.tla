------------------------------ MODULE Payments ------------------------------
(***************************************************************************)
(* PaymentsService for one order: cash and card at the close endpoint,     *)
(* mobile-money intents with the provider's webhooks, manual references,   *)
(* and the automatic close of an order that is fully paid.                 *)
(*                                                                         *)
(* A request is a sequence of single database calls that carries what it   *)
(* has read.  The provider decides a charge once, and its webhooks may be  *)
(* lost, delayed, repeated and reordered.  The steps of OrdersService that *)
(* matter here (items, serving, voiding) are single writes taken by a free *)
(* request slot, so that one slot gives the serial behaviours.             *)
(***************************************************************************)
EXTENDS Naturals, Sequences, SequencesExt

CONSTANTS
    Requests,       \* requests in progress at a time
    Intents,        \* payment_intents rows a behaviour may create
    Keys,           \* idempotency keys of intents
    Refs,           \* transaction ids of manual references
    None,           \* no key, no reference, no intent
    MaxTotal,       \* bound: the order's total
    MaxAmount,      \* bound: one payment or intent
    MaxPayments,    \* bound: payment rows
    MaxWebhooks,    \* bound: webhooks delivered
    MaxCrashes      \* bound: requests lost to a crash

ASSUME NoneAssumption == None \notin (Intents \cup Keys \cup Refs)
ASSUME BoundsAssumption ==
    {MaxTotal, MaxAmount, MaxPayments, MaxWebhooks, MaxCrashes} \subseteq Nat

VARIABLES
    order,      \* status and total of the orders row
    served,     \* TRUE once the order has been SERVED
    payments,   \* payments rows, oldest first
    intents,    \* payment_intents rows: status, amount, idempotencyKey
    charge,     \* what the provider knows of an intent
    req,        \* req[r]: the request's next call and what it carries
    webhooks,
    crashes

vars == <<order, served, payments, intents, charge, req, webhooks, crashes>>

\* "OPEN" stands for NEW to READY: payable, not closable.
OrderStatus == {"OPEN", "SERVED", "CLOSED", "VOIDED"}
Terminal == {"CLOSED", "VOIDED"}
CLOSABLE_STATES == {"SERVED"}
PAYABLE_STATES == {"OPEN", "SERVED"}
IntentStatus == {"REQUIRES_ACTION", "PENDING", "SUCCEEDED", "FAILED", "CANCELLED"}
Unresolved == {"PENDING", "REQUIRES_ACTION"}
Charges == {"none", "asked", "paid", "declined"}
Amounts == 0..MaxAmount
PC == {"idle", "closeMomo", "closeIntents", "closeWrite", "findKey", "createIntent", "requestToPay",
       "failIntent", "cancelWrite", "whIntent", "whFind", "whPay", "manualFind",
       "manualPay", "settleRead", "settleTotal", "settleBalance", "settleWrite"}

\* The sum of all completed payments (refunds are made on closed orders only).
Paid == FoldSeq(LAMBDA p, sum : p.amount + sum, 0, payments)

\* A slot's own data; which fields are used depends on pc.
Idle == [pc |-> "idle", intent |-> None, key |-> None, ref |-> None, status |-> "PENDING",
         cash |-> 0, momo |-> 0, total |-> 0, paid |-> 0]

TypeOK ==
    /\ order \in [status : OrderStatus, total : 0..MaxTotal]
    /\ served \in BOOLEAN
    /\ payments \in Seq([method : {"CASH", "MOMO", "MANUAL"}, amount : Amounts,
                         intent : Intents \cup {None}, ref : Refs \cup {None}])
    /\ intents \in [Intents -> [status : IntentStatus \cup {"ABSENT"}, amount : Amounts,
                                key : Keys \cup {None}]]
    /\ charge \in [Intents -> Charges]
    /\ req \in [Requests ->
           [pc : PC, intent : Intents \cup {None}, key : Keys \cup {None},
            ref : Refs \cup {None}, status : IntentStatus, cash : Amounts,
            momo : Amounts, total : 0..MaxTotal, paid : Nat]]
    /\ webhooks \in 0..MaxWebhooks
    /\ crashes \in 0..MaxCrashes

Init ==
    /\ order = [status |-> "OPEN", total |-> 0]
    /\ served = FALSE
    /\ payments = <<>>
    /\ intents = [i \in Intents |-> [status |-> "ABSENT", amount |-> 0, key |-> None]]
    /\ charge = [i \in Intents |-> "none"]
    /\ req = [r \in Requests |-> Idle]
    /\ webhooks = 0
    /\ crashes = 0

-----------------------------------------------------------------------------
(* Building blocks                                                         *)

\* r goes from pc p to q; a slot that becomes idle forgets its data.
Goto(r, p, q) ==
    /\ req[r].pc = p
    /\ req' = [req EXCEPT ![r] = IF q = "idle" THEN Idle ELSE [@ EXCEPT !.pc = q]]

\* A free slot takes a request.
Start(r, d) == req[r].pc = "idle" /\ req' = [req EXCEPT ![r] = d]

Record(ps) ==
    /\ Len(payments) + Len(ps) <= MaxPayments
    /\ payments' = payments \o ps

Cash(a) == [method |-> "CASH", amount |-> a, intent |-> None, ref |-> None]
Momo(a, i) == [method |-> "MOMO", amount |-> a, intent |-> i, ref |-> None]
Manual(a, x) == [method |-> "MANUAL", amount |-> a, intent |-> None, ref |-> x]

\* A method that is not used at a close has no row.
Used(p) == IF p.amount > 0 THEN <<p>> ELSE <<>>

Free == \E r \in Requests : req[r] = Idle

-----------------------------------------------------------------------------
(* OrdersService, as far as payments see it                                *)

\* addOrderItem, updateOrderItem and deleteOrderItem leave a new total on an
\* order that is not final, served or not.
ChangeTotal(v) ==
    /\ Free
    /\ order.status \notin Terminal
    /\ v # order.total
    /\ order' = [order EXCEPT !.total = v]
    /\ UNCHANGED <<served, payments, intents, charge, req, webhooks, crashes>>

Serve ==
    /\ Free
    /\ order.status = "OPEN"
    /\ order' = [order EXCEPT !.status = "SERVED"]
    /\ served' = TRUE
    /\ UNCHANGED <<payments, intents, charge, req, webhooks, crashes>>

VoidOrder ==
    /\ Free
    /\ order.status = "OPEN"
    /\ order' = [order EXCEPT !.status = "VOIDED"]
    /\ UNCHANGED <<served, payments, intents, charge, req, webhooks, crashes>>

-----------------------------------------------------------------------------
(* closeOrderWithPayment                                                   *)

\* Read the order with its payments; only a SERVED order goes on ...
CloseRead(r, cash, momo) ==
    /\ order.status \in CLOSABLE_STATES
    /\ cash + momo > 0
    /\ Start(r, [Idle EXCEPT !.pc = "closeMomo", !.cash = cash, !.momo = momo,
                             !.total = order.total, !.paid = Paid])
    /\ UNCHANGED <<order, served, payments, intents, charge, webhooks, crashes>>

\* ... mobile money needs a succeeded intent of the order ...
CloseMomo(r) ==
    /\ Goto(r, "closeMomo",
            IF req[r].momo > 0 => \E i \in Intents : intents[i].status = "SUCCEEDED"
            THEN "closeIntents" ELSE "idle")
    /\ UNCHANGED <<order, served, payments, intents, charge, webhooks, crashes>>

\* Mutant: the sum is not compared with the total.
CloseAllowedShort(r) == \A i \in Intents : intents[i].status \notin Unresolved

\* ... no intent may be unresolved, the sum must cover the total read, and
\* only cash may exceed it.
CloseAllowed(r) ==
    LET covered == req[r].paid + req[r].cash + req[r].momo IN
    /\ \A i \in Intents : intents[i].status \notin Unresolved
    /\ covered >= req[r].total
    /\ covered > req[r].total => req[r].cash > 0

CloseIntents(r) ==
    /\ Goto(r, "closeIntents", IF CloseAllowed(r) THEN "closeWrite" ELSE "idle")
    /\ UNCHANGED <<order, served, payments, intents, charge, webhooks, crashes>>

\* One transaction: the payment rows and the status.
CloseWrite(r) ==
    /\ Goto(r, "closeWrite", "idle")
    /\ Record(Used(Cash(req[r].cash)) \o Used(Momo(req[r].momo, None)))
    /\ order' = [order EXCEPT !.status = "CLOSED"]
    /\ UNCHANGED <<served, intents, charge, webhooks, crashes>>

-----------------------------------------------------------------------------
(* Payment intents                                                         *)

\* createPaymentIntent: the order must be payable ...
IntentRead(r, k, a) ==
    /\ order.status \in PAYABLE_STATES
    /\ a > 0
    /\ Start(r, [Idle EXCEPT !.pc = "findKey", !.key = k, !.momo = a])
    /\ UNCHANGED <<order, served, payments, intents, charge, webhooks, crashes>>

\* Mutant: only an intent that is still unresolved is returned.
FindOpenKey(r) ==
    /\ Goto(r, "findKey",
            IF /\ req[r].key # None
               /\ \E i \in Intents : intents[i].key = req[r].key
                                    /\ intents[i].status \in Unresolved
            THEN "idle" ELSE "createIntent")
    /\ UNCHANGED <<order, served, payments, intents, charge, webhooks, crashes>>

\* ... an intent with the same key is returned as it is ...
FindKey(r) ==
    /\ Goto(r, "findKey",
            IF req[r].key # None /\ \E i \in Intents : intents[i].key = req[r].key
            THEN "idle" ELSE "createIntent")
    /\ UNCHANGED <<order, served, payments, intents, charge, webhooks, crashes>>

\* ... and otherwise inserted (the key's index is not unique) ...
CreateIntent(r, i) ==
    /\ intents[i].status = "ABSENT"
    /\ req[r].pc = "createIntent"
    /\ intents' = [intents EXCEPT ![i] = [status |-> "REQUIRES_ACTION",
                                          amount |-> req[r].momo, key |-> req[r].key]]
    /\ req' = [req EXCEPT ![r] = [@ EXCEPT !.pc = "requestToPay", !.intent = i]]
    /\ UNCHANGED <<order, served, payments, charge, webhooks, crashes>>

\* ... and the provider asked, unless its adapter is off.  The call may fail
\* although it arrived.
RequestToPay(r) ==
    /\ \E q \in {"idle", "failIntent"} : Goto(r, "requestToPay", q)
    /\ charge' \in {charge, [charge EXCEPT ![req[r].intent] = "asked"]}
    /\ UNCHANGED <<order, served, payments, intents, webhooks, crashes>>

\* A failed call marks the intent FAILED, whatever it is by then.
FailIntent(r) ==
    /\ Goto(r, "failIntent", "idle")
    /\ intents' = [intents EXCEPT ![req[r].intent].status = "FAILED"]
    /\ UNCHANGED <<order, served, payments, charge, webhooks, crashes>>

\* cancelPaymentIntent: an unresolved intent ...
CancelRead(r, i) ==
    /\ intents[i].status \in Unresolved
    /\ Start(r, [Idle EXCEPT !.pc = "cancelWrite", !.intent = i])
    /\ UNCHANGED <<order, served, payments, intents, charge, webhooks, crashes>>

\* ... is CANCELLED, with no word to the provider.
CancelWrite(r) ==
    /\ Goto(r, "cancelWrite", "idle")
    /\ intents' = [intents EXCEPT ![req[r].intent].status = "CANCELLED"]
    /\ UNCHANGED <<order, served, payments, charge, webhooks, crashes>>

\* The provider takes the money or does not.
Decide(i) ==
    /\ charge[i] = "asked"
    /\ charge' \in {[charge EXCEPT ![i] = d] : d \in {"paid", "declined"}}
    /\ UNCHANGED <<order, served, payments, intents, req, webhooks, crashes>>

-----------------------------------------------------------------------------
(* processWebhook                                                          *)

\* What the provider may report of a charge, at any later time and any number
\* of times.
Reports(c) ==
    CASE c = "paid"     -> {"PENDING", "SUCCEEDED"}
      [] c = "declined" -> {"PENDING", "FAILED", "CANCELLED"}
      [] c = "asked"    -> {"PENDING"}
      [] OTHER          -> {}

\* The webhook names a known intent.
Webhook(r, i, s) ==
    /\ webhooks < MaxWebhooks
    /\ s \in Reports(charge[i])
    /\ Start(r, [Idle EXCEPT !.pc = "whIntent", !.intent = i, !.status = s])
    /\ webhooks' = webhooks + 1
    /\ UNCHANGED <<order, served, payments, intents, charge, crashes>>

\* Mutant: the provider's own word for success is stored.
WebhookIntentRaw(r) ==
    /\ Goto(r, "whIntent", IF req[r].status = "SUCCEEDED" THEN "whFind" ELSE "idle")
    /\ intents' = [intents EXCEPT ![req[r].intent].status =
            IF req[r].status = "SUCCEEDED" THEN "SUCCESSFUL" ELSE req[r].status]
    /\ UNCHANGED <<order, served, payments, charge, webhooks, crashes>>

\* Mutant: a pending charge is taken for a success.
WebhookIntentEager(r) ==
    /\ Goto(r, "whIntent",
            IF req[r].status \in {"SUCCEEDED", "PENDING"} THEN "whFind" ELSE "idle")
    /\ intents' = [intents EXCEPT ![req[r].intent].status = req[r].status]
    /\ UNCHANGED <<order, served, payments, charge, webhooks, crashes>>

\* Its status replaces the intent's, whatever that is.
WebhookIntent(r) ==
    /\ Goto(r, "whIntent", IF req[r].status = "SUCCEEDED" THEN "whFind" ELSE "idle")
    /\ intents' = [intents EXCEPT ![req[r].intent].status = req[r].status]
    /\ UNCHANGED <<order, served, payments, charge, webhooks, crashes>>

\* The rows of intent i's own money.
PaymentsOf(i) == {n \in DOMAIN payments : payments[n].intent = i}

\* Mutant: any mobile-money payment of the order ends the webhook.
WebhookFindAny(r) ==
    /\ Goto(r, "whFind",
            IF \E n \in DOMAIN payments : payments[n].method = "MOMO"
            THEN "idle" ELSE "whPay")
    /\ UNCHANGED <<order, served, payments, intents, charge, webhooks, crashes>>

\* Mutant: a repeated webhook is not recognised.
WebhookFindNone(r) ==
    /\ Goto(r, "whFind", "whPay")
    /\ UNCHANGED <<order, served, payments, intents, charge, webhooks, crashes>>

\* A payment with the intent's transaction id ends the webhook there.
WebhookFind(r) ==
    /\ Goto(r, "whFind", IF PaymentsOf(req[r].intent) # {} THEN "idle" ELSE "whPay")
    /\ UNCHANGED <<order, served, payments, intents, charge, webhooks, crashes>>

WebhookPay(r) ==
    /\ Goto(r, "whPay", "settleRead")
    /\ Record(<<Momo(intents[req[r].intent].amount, req[r].intent)>>)
    /\ UNCHANGED <<order, served, intents, charge, webhooks, crashes>>

-----------------------------------------------------------------------------
(* createManualReferencePayment                                            *)

\* Any order that is not VOIDED takes one, a CLOSED one too ...
ManualRead(r, x, a) ==
    /\ order.status # "VOIDED"
    /\ a > 0
    /\ Start(r, [Idle EXCEPT !.pc = "manualFind", !.ref = x, !.cash = a])
    /\ UNCHANGED <<order, served, payments, intents, charge, webhooks, crashes>>

\* ... unless its transaction id was used before.
ManualFind(r) ==
    /\ Goto(r, "manualFind",
            IF \E n \in DOMAIN payments : payments[n].ref = req[r].ref
            THEN "idle" ELSE "manualPay")
    /\ UNCHANGED <<order, served, payments, intents, charge, webhooks, crashes>>

ManualPay(r) ==
    /\ Goto(r, "manualPay", "settleRead")
    /\ Record(<<Manual(req[r].cash, req[r].ref)>>)
    /\ UNCHANGED <<order, served, intents, charge, webhooks, crashes>>

-----------------------------------------------------------------------------
(* autoSettleIfFullyPaid                                                   *)

\* The order must not be final ...
SettleRead(r) ==
    /\ Goto(r, "settleRead", IF order.status \in Terminal THEN "idle" ELSE "settleTotal")
    /\ UNCHANGED <<order, served, payments, intents, charge, webhooks, crashes>>

\* ... getOutstandingBalance reads its total ...
SettleTotal(r) ==
    /\ req[r].pc = "settleTotal"
    /\ req' = [req EXCEPT ![r] = [@ EXCEPT !.pc = "settleBalance", !.total = order.total]]
    /\ UNCHANGED <<order, served, payments, intents, charge, webhooks, crashes>>

\* ... then its payments ...
SettleBalance(r) ==
    /\ Goto(r, "settleBalance", IF Paid >= req[r].total THEN "settleWrite" ELSE "idle")
    /\ UNCHANGED <<order, served, payments, intents, charge, webhooks, crashes>>

\* ... and the order is closed, whatever it is by then.
SettleWrite(r) ==
    /\ Goto(r, "settleWrite", "idle")
    /\ order' = [order EXCEPT !.status = "CLOSED"]
    /\ UNCHANGED <<served, payments, intents, charge, webhooks, crashes>>

-----------------------------------------------------------------------------

\* The process dies under r.
Crash(r) ==
    /\ req[r] # Idle
    /\ crashes < MaxCrashes
    /\ crashes' = crashes + 1
    /\ req' = [req EXCEPT ![r] = Idle]
    /\ UNCHANGED <<order, served, payments, intents, charge, webhooks>>

Arrive(r) ==
    \/ \E cash, momo \in Amounts : CloseRead(r, cash, momo)
    \/ \E k \in Keys \cup {None}, a \in Amounts : IntentRead(r, k, a)
    \/ \E i \in Intents : CancelRead(r, i)
    \/ \E i \in Intents, s \in IntentStatus : Webhook(r, i, s)
    \/ \E x \in Refs, a \in Amounts : ManualRead(r, x, a)

Proceed(r) ==
    \/ CloseMomo(r) \/ CloseIntents(r) \/ CloseWrite(r)
    \/ FindKey(r) \/ (\E i \in Intents : CreateIntent(r, i))
    \/ RequestToPay(r) \/ FailIntent(r) \/ CancelWrite(r)
    \/ WebhookIntent(r) \/ WebhookFind(r) \/ WebhookPay(r)
    \/ ManualFind(r) \/ ManualPay(r)
    \/ SettleRead(r) \/ SettleTotal(r) \/ SettleBalance(r) \/ SettleWrite(r)

Next ==
    \/ \E v \in 0..MaxTotal : ChangeTotal(v)
    \/ Serve \/ VoidOrder
    \/ \E i \in Intents : Decide(i)
    \/ \E r \in Requests : Arrive(r) \/ Proceed(r) \/ Crash(r)

Spec == Init /\ [][Next]_vars

-----------------------------------------------------------------------------
(* What must hold.                                                         *)

\* An order that becomes CLOSED is covered by its payments at that moment,
\* by the close endpoint as by the automatic close.
CloseIsPaid ==
    [][order.status # "CLOSED" /\ order'.status = "CLOSED" => Paid' >= order'.total]_vars

\* A repeated webhook records an intent's money once (the search for its
\* transaction id in processWebhook).
OnePaymentPerIntent ==
    \A m, n \in DOMAIN payments :
        payments[m].intent = payments[n].intent /\ payments[m].intent # None => m = n

\* Money is recorded for an intent only if the provider has taken it, however
\* webhooks are delayed and reordered and whatever the intent's status is by
\* the time the row is written.
RecordedIsTaken ==
    \A n \in DOMAIN payments :
        payments[n].intent # None => charge[payments[n].intent] = "paid"

\* A success that was reported is recorded: an intent is SUCCEEDED only with
\* its payment on the books or its webhook still at work, unless a crash came
\* between (the intent's status is written ahead of the payment).
SucceededIsRecorded ==
    \A i \in Intents :
        intents[i].status = "SUCCEEDED" /\ crashes = 0
            => \/ PaymentsOf(i) # {}
               \/ \E r \in Requests : req[r].intent = i /\ req[r].pc \in {"whFind", "whPay"}

\* "Intents are idempotent on idempotencyKey - a network retry cannot create
\* a second charge" (README).
OneChargePerKey ==
    \A i, j \in Intents :
        /\ charge[i] # "none" /\ charge[j] # "none"
        /\ intents[i].key = intents[j].key /\ intents[i].key # None
        => i = j

\* "This prevents phantom orders - orders that appear closed but were never
\* actually served or paid" (README).
ClosedWasServed == order.status = "CLOSED" => served

=============================================================================
