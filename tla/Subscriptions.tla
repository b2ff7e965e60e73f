----------------------------- MODULE Subscriptions -----------------------------
(***************************************************************************)
(* BillingPesapalService, BillingService and the location cap of           *)
(* TenancyService: an organization checks out a plan, pays at PesaPal, and *)
(* its subscription becomes ACTIVE once PesaPal says so; the plan caps its *)
(* branches.                                                               *)
(*                                                                         *)
(* A request is a sequence of single database or provider calls, none of   *)
(* them in a transaction.  PesaPal is external: it notifies as often as it *)
(* likes, and each notification asks it for the status.  One organization. *)
(***************************************************************************)
EXTENDS Naturals, Sequences, FiniteSets

CONSTANTS
    Caps,           \* maxBranches of the plans
    None,
    Requests,       \* requests in progress at a time
    MaxTransactions, MaxBranches, MaxArrivals, MaxCrashes   \* bounds

VARIABLES
    sub,            \* the subscriptions row: status (None: no row) and its plan's cap
    branches,       \* how many branches are ACTIVE
    txns,           \* status of the pesapal_transactions rows
    onboarded,      \* subscriptionPaid of onboarding_progress
    charges,        \* external: what PesaPal knows of each transaction
    offered,        \* transactions whose payer was sent to PesaPal
    paid,           \* transactions that were ever paid
    confirmed,      \* transactions that were ever recorded as COMPLETED
    activations,    \* how often a confirmation activated the subscription
    byHand,         \* statuses that updateSubscription gave, in order
    early,          \* branches when the subscription was made
    req,            \* req[r]: the request's next call and what it carries
    overlaps,       \* whether two requests were ever in progress at once
    arrived,        \* requests taken
    crashes

rows == <<sub, branches, txns, onboarded>>
outside == <<charges, offered, paid>>
history == <<confirmed, activations, byHand, early>>
vars == <<rows, outside, history, req, overlaps, arrived, crashes>>

TxnStatus == {"INITIATED", "REDIRECTED", "COMPLETED", "FAILED", "CANCELLED"}
Charges == {"PENDING", "COMPLETED", "FAILED", "REVERSED"}

\* TRIAL is the column's default, but no operation makes or enters it.
VALID_TRANSITIONS ==
    [PENDING_PAYMENT |-> {"ACTIVE", "CANCELLED"},
     ACTIVE |-> {"GRACE_PERIOD", "PAST_DUE", "SUSPENDED", "CANCELLED"},
     GRACE_PERIOD |-> {"ACTIVE", "PAST_DUE", "SUSPENDED", "CANCELLED"},
     PAST_DUE |-> {"ACTIVE", "GRACE_PERIOD", "SUSPENDED", "CANCELLED"},
     SUSPENDED |-> {"ACTIVE", "CANCELLED"},
     CANCELLED |-> {}]

Status == DOMAIN VALID_TRANSITIONS

PC == {"idle", "cancelOld", "submit", "insert", "findSub", "createSub", "redirect",
       "ask", "save", "readSub", "activate", "onboard", "update",
       "planCount", "setPlan", "limit", "count", "insertBranch"}

\* txn is a transaction, seen what PesaPal said of it, to a status, cap a plan's.
Idle == [pc |-> "idle", txn |-> 0, seen |-> None, to |-> None, cap |-> 0]

TypeOK ==
    /\ sub \in [status : Status \cup {None}, cap : Caps \cup {0}]
    /\ branches \in 0..MaxBranches
    /\ txns \in Seq(TxnStatus) /\ Len(txns) <= MaxTransactions
    /\ charges \in [1..MaxTransactions -> Charges]
    /\ offered \subseteq DOMAIN txns /\ paid \subseteq offered /\ confirmed \subseteq DOMAIN txns
    /\ onboarded \in BOOLEAN /\ activations \in Nat /\ byHand \in Seq(Status)
    /\ early \in 0..MaxBranches
    /\ req \in [Requests -> [pc : PC, txn : 0..MaxTransactions, seen : Charges \cup {None},
                             to : Status \cup {None}, cap : Caps \cup {0}]]
    /\ overlaps \in BOOLEAN /\ arrived \in 0..MaxArrivals /\ crashes \in 0..MaxCrashes

Init ==
    /\ sub = [status |-> None, cap |-> 0] /\ branches = 0
    /\ txns = <<>> /\ onboarded = FALSE
    /\ charges = [i \in 1..MaxTransactions |-> "PENDING"] /\ offered = {} /\ paid = {}
    /\ confirmed = {} /\ activations = 0 /\ byHand = <<>> /\ early = 0
    /\ req = [r \in Requests |-> Idle]
    /\ overlaps = FALSE /\ arrived = 0 /\ crashes = 0

-----------------------------------------------------------------------------
(* Building blocks                                                         *)

Start(r, d) ==
    /\ req[r].pc = "idle"
    /\ arrived < MaxArrivals
    /\ arrived' = arrived + 1
    /\ req' = [req EXCEPT ![r] = d]
    /\ overlaps' = (overlaps \/ \E q \in Requests \ {r} : req[q].pc # "idle")
    /\ UNCHANGED <<rows, outside, history, crashes>>

Become(r, d) == req' = [req EXCEPT ![r] = d] /\ UNCHANGED <<overlaps, arrived, crashes>>
Goto(r, q) == Become(r, [req[r] EXCEPT !.pc = q])
Finish(r) == Become(r, Idle)

\* An error, or nothing left to do.
Refuse(r) == Finish(r) /\ UNCHANGED <<rows, outside, history>>

-----------------------------------------------------------------------------
(* createCheckoutSession                                                   *)

Checkout(r, cap) == Start(r, [Idle EXCEPT !.pc = "cancelOld", !.cap = cap])

\* Sessions not yet paid make way, also those the payer still has open.
CancelOld(r) ==
    /\ req[r].pc = "cancelOld"
    /\ txns' = [i \in DOMAIN txns |-> IF txns[i] = "INITIATED" THEN "CANCELLED" ELSE txns[i]]
    /\ Goto(r, "submit")
    /\ UNCHANGED <<sub, branches, onboarded, outside, history>>

\* PesaPal takes the order, or fails and the session ends here.
Submit(r) ==
    /\ req[r].pc = "submit"
    /\ \/ Goto(r, "insert") /\ UNCHANGED <<rows, outside, history>>
       \/ Refuse(r)

InsertTxn(r) ==
    /\ req[r].pc = "insert"
    /\ Len(txns) < MaxTransactions
    /\ txns' = Append(txns, "INITIATED")
    /\ Become(r, [req[r] EXCEPT !.pc = "findSub", !.txn = Len(txns) + 1])
    /\ UNCHANGED <<sub, branches, onboarded, outside, history>>

\* The answer sends the payer to PesaPal.
Answer(r) == offered' = offered \cup {req[r].txn} /\ Finish(r) /\ UNCHANGED <<charges, paid>>

FindSub(r) ==
    /\ req[r].pc = "findSub"
    /\ IF sub.status = None THEN Goto(r, "createSub") /\ UNCHANGED outside ELSE Answer(r)
    /\ UNCHANGED <<rows, history>>

\* The unique orgId refuses a second subscription, and the request fails.
CreateSub(r) ==
    /\ req[r].pc = "createSub"
    /\ IF sub.status # None THEN Refuse(r)
       ELSE /\ sub' = [status |-> "PENDING_PAYMENT", cap |-> req[r].cap]
            /\ early' = branches
            /\ Answer(r)
            /\ UNCHANGED <<branches, txns, onboarded, confirmed, activations, byHand>>

-----------------------------------------------------------------------------
(* PesaPal                                                                 *)

\* The payer pays or gives up; a payment may be reversed.
Decide(i) ==
    /\ i \in offered
    /\ \/ charges[i] = "PENDING" /\ charges' = [charges EXCEPT ![i] = "COMPLETED"] /\ paid' = paid \cup {i}
       \/ charges[i] = "PENDING" /\ charges' = [charges EXCEPT ![i] = "FAILED"] /\ UNCHANGED paid
       \/ charges[i] = "COMPLETED" /\ charges' = [charges EXCEPT ![i] = "REVERSED"] /\ UNCHANGED paid
    /\ UNCHANGED <<rows, offered, history, req, overlaps, arrived, crashes>>

-----------------------------------------------------------------------------
(* handleCallback                                                          *)

CallbackRead(r, i) == i \in offered /\ Start(r, [Idle EXCEPT !.pc = "redirect", !.txn = i])

\* Whatever the transaction is by now.
Redirect(r) ==
    /\ req[r].pc = "redirect"
    /\ txns' = [txns EXCEPT ![req[r].txn] = "REDIRECTED"]
    /\ Finish(r)
    /\ UNCHANGED <<sub, branches, onboarded, outside, history>>

-----------------------------------------------------------------------------
(* handleIpn and reconcileStatus: reconcileTransactionStatus               *)

ReconcileRead(r, i) == Start(r, [Idle EXCEPT !.pc = "ask", !.txn = i])

AskProvider(r) ==
    /\ req[r].pc = "ask"
    /\ \/ Refuse(r)
       \/ /\ Become(r, [req[r] EXCEPT !.pc = "save", !.seen = charges[req[r].txn]])
          /\ UNCHANGED <<rows, outside, history>>

\* What a status of PesaPal is recorded as: one that is not final starts over.
Recorded == [PENDING |-> "INITIATED", COMPLETED |-> "COMPLETED",
             FAILED |-> "FAILED", REVERSED |-> "CANCELLED"]

SaveStatus(r) ==
    LET new == Recorded[req[r].seen] IN
    /\ req[r].pc = "save"
    /\ txns' = [txns EXCEPT ![req[r].txn] = new]
    /\ IF new = "COMPLETED"
       THEN Goto(r, "readSub") /\ confirmed' = confirmed \cup {req[r].txn}
       ELSE Finish(r) /\ UNCHANGED confirmed
    /\ UNCHANGED <<sub, branches, onboarded, outside, activations, byHand, early>>

\* Mutant: a payment activates whatever subscription there is.
ReadSubAny(r) ==
    /\ req[r].pc = "readSub"
    /\ Goto(r, "activate")
    /\ UNCHANGED <<rows, outside, history>>

\* Mutant: a subscription that is past due has to be put right by hand.
ReadSubPending(r) ==
    /\ req[r].pc = "readSub"
    /\ IF sub.status = "PAST_DUE" THEN Goto(r, "activate") ELSE Finish(r)
    /\ UNCHANGED <<rows, outside, history>>

\* Only one that waits for a payment is activated.
ReadSub(r) ==
    /\ req[r].pc = "readSub"
    /\ IF sub.status \in {"PENDING_PAYMENT", "PAST_DUE"} THEN Goto(r, "activate") ELSE Finish(r)
    /\ UNCHANGED <<rows, outside, history>>

Activate(r) ==
    /\ req[r].pc = "activate"
    /\ sub' = [sub EXCEPT !.status = "ACTIVE"]
    /\ activations' = activations + 1
    /\ Goto(r, "onboard")
    /\ UNCHANGED <<branches, txns, onboarded, outside, confirmed, byHand, early>>

Onboard(r) ==
    /\ req[r].pc = "onboard"
    /\ onboarded' = TRUE
    /\ Finish(r)
    /\ UNCHANGED <<sub, branches, txns, outside, history>>

-----------------------------------------------------------------------------
(* updateSubscription: the status, or the plan                             *)

UpdateRead(r, to) ==
    /\ sub.status # None
    /\ to \in VALID_TRANSITIONS[sub.status]
    /\ Start(r, [Idle EXCEPT !.pc = "update", !.to = to])

Update(r) ==
    /\ req[r].pc = "update"
    /\ sub' = [sub EXCEPT !.status = req[r].to]
    /\ byHand' = Append(byHand, req[r].to)
    /\ Finish(r)
    /\ UNCHANGED <<branches, txns, onboarded, outside, confirmed, activations, early>>

PlanRead(r, cap) == sub.status # None /\ Start(r, [Idle EXCEPT !.pc = "planCount", !.cap = cap])

\* enforcePlanLimitsOnChange.
PlanCount(r) ==
    /\ req[r].pc = "planCount"
    /\ IF branches > req[r].cap THEN Finish(r) ELSE Goto(r, "setPlan")
    /\ UNCHANGED <<rows, outside, history>>

SetPlan(r) ==
    /\ req[r].pc = "setPlan"
    /\ sub' = [sub EXCEPT !.cap = req[r].cap]
    /\ Finish(r)
    /\ UNCHANGED <<branches, txns, onboarded, outside, history>>

-----------------------------------------------------------------------------
(* createBranch, with checkPlanLimit                                       *)

\* Without a subscription there is no limit yet.
BranchRead(r) ==
    Start(r, [Idle EXCEPT !.pc = IF sub.status = None THEN "insertBranch" ELSE "limit"])

ReadLimit(r) ==
    /\ req[r].pc = "limit"
    /\ IF sub.status = "CANCELLED" THEN Finish(r)
       ELSE Become(r, [req[r] EXCEPT !.pc = "count", !.cap = sub.cap])
    /\ UNCHANGED <<rows, outside, history>>

\* Mutant: one branch too many.
CountBranchesLate(r) ==
    /\ req[r].pc = "count"
    /\ IF branches > req[r].cap THEN Finish(r) ELSE Goto(r, "insertBranch")
    /\ UNCHANGED <<rows, outside, history>>

CountBranches(r) ==
    /\ req[r].pc = "count"
    /\ IF branches >= req[r].cap THEN Finish(r) ELSE Goto(r, "insertBranch")
    /\ UNCHANGED <<rows, outside, history>>

InsertBranch(r) ==
    /\ req[r].pc = "insertBranch"
    /\ branches < MaxBranches
    /\ branches' = branches + 1
    /\ Finish(r)
    /\ UNCHANGED <<sub, txns, onboarded, outside, history>>

-----------------------------------------------------------------------------

Crash(r) ==
    /\ req[r].pc # "idle"
    /\ crashes < MaxCrashes
    /\ crashes' = crashes + 1
    /\ req' = [req EXCEPT ![r] = Idle]
    /\ UNCHANGED <<rows, outside, history, overlaps, arrived>>

Arrive(r) ==
    \/ \E cap \in Caps : Checkout(r, cap) \/ PlanRead(r, cap)
    \/ \E i \in DOMAIN txns : CallbackRead(r, i) \/ ReconcileRead(r, i)
    \/ \E to \in Status : UpdateRead(r, to)
    \/ BranchRead(r)

Proceed(r) ==
    \/ CancelOld(r) \/ Submit(r) \/ InsertTxn(r) \/ FindSub(r) \/ CreateSub(r)
    \/ Redirect(r) \/ AskProvider(r) \/ SaveStatus(r) \/ ReadSub(r) \/ Activate(r) \/ Onboard(r)
    \/ Update(r) \/ PlanCount(r) \/ SetPlan(r)
    \/ ReadLimit(r) \/ CountBranches(r) \/ InsertBranch(r)

Next ==
    \/ \E i \in DOMAIN txns : Decide(i)
    \/ \E r \in Requests : Arrive(r) \/ Proceed(r) \/ Crash(r)

Spec == Init /\ [][Next]_vars

-----------------------------------------------------------------------------
(* What must hold.                                                         *)

\* However requests race and PesaPal repeats itself, a transaction is COMPLETED
\* only if it was paid, and the subscription left PENDING_PAYMENT only by hand
\* or by such a confirmation (reconcileTransactionStatus).
PaymentBacked ==
    /\ \A i \in DOMAIN txns : txns[i] = "COMPLETED" => i \in paid
    /\ sub.status \notin {None, "PENDING_PAYMENT"} => byHand # <<>> \/ confirmed # {}
    /\ onboarded => confirmed # {}

\* A payment that was confirmed does not leave the subscription waiting for one,
\* but for a request that goes on or died (reconcileTransactionStatus: "If
\* completed, activate subscription").
ConfirmedActivates ==
    confirmed # {} /\ sub.status = "PENDING_PAYMENT" =>
        crashes > 0 \/ \E r \in Requests : req[r].pc \in {"readSub", "activate"}

CountOf(s, x) == Cardinality({k \in DOMAIN s : s[k] = x})

\* The subscription keeps to VALID_TRANSITIONS unless requests overlapped: one
\* that was CANCELLED stays so, and payments activate it once, and once more for
\* each time it was put PAST_DUE (though the same payment can do it again).
SubscriptionLife ==
    ~overlaps =>
        /\ CountOf(byHand, "CANCELLED") > 0 => sub.status = "CANCELLED"
        /\ activations <= 1 + CountOf(byHand, "PAST_DUE")

\* "The only enforced commercial cap is the location count": an organization has
\* no more branches than its plan allows, or than it had when it subscribed,
\* unless requests overlapped (createBranch and a change of plan count first and
\* write later).
WithinCap ==
    ~overlaps /\ sub.status # None => branches <= sub.cap \/ branches <= early

\* Subscriptions as a whole.
PlanAgrees == PaymentBacked /\ ConfirmedActivates /\ SubscriptionLife /\ WithinCap

=============================================================================
