--------------------------------- MODULE Board ---------------------------------
(***************************************************************************)
(* The supervisor's workspace over one order of the floor: which actions   *)
(* it offers (order-actions.ts), from what it has read, and what it does   *)
(* with their answers (SupervisorTableControlWorkspace and its dialogs).   *)
(* The server does not look at payments before a void or a discount: "this *)
(* guard is a deliberate, documented frontend safety boundary".            *)
(*                                                                         *)
(* The order, its payments and its discounts are queries of their own,     *)
(* which take a while, may fail, and wait while the client is offline; so  *)
(* does what a dialog submits.  This is one opening of the workspace, with *)
(* all permissions.  The server's requests are whole steps (module Bill    *)
(* has their calls), handoffs are in modules Workstation and Handoffs, and *)
(* neither an order that cannot be read nor the floor read again is here.  *)
(***************************************************************************)
EXTENDS Naturals, Sequences

CONSTANTS
    Asks,           \* discounts asked for: [whole, waits] (of the bill; for approval)
    None,
    MaxChanges, MaxFails    \* bounds

VARIABLES
    past,           \* the order as the server had it, a place for each change
    cache,          \* cache[q]: the place the data of query q is of (0: none), its fetch
    floor,          \* the order in the floor's list, shown until its query has data
    online,
    dialog,         \* what is open, and what the screen knew when it was opened
    call,           \* of the dialog's mutation
    due,            \* where the server was when a success invalidated each query
    joined,         \* queries whose reread joined a first read that was under way
    told,           \* discounts the screen asked for and was told of
    fails

vars == <<past, cache, floor, online, dialog, call, due, joined, told, fails>>

Queries == {"order", "payments", "discounts"}
Actions == {"mark-served", "void", "request-discount", "approve-discount", "reject-discount"}
OPEN_STATUSES == {"READY", "SERVED"}
DISCOUNTABLE_STATUSES == {"READY"}
MONEY_PAYMENT_STATES == {"settled", "partially-paid"}

Closed == [act |-> None, arg |-> None, read |-> 0, online |-> TRUE, shown |-> 0, settled |-> FALSE]
Idle == [pc |-> "idle", at |-> 0]
Unread == [at |-> 0, as |-> None, error |-> FALSE, fetch |-> "idle", from |-> 0]

Now == past[Len(past)]
Pending(discounts) == \E d \in DOMAIN discounts : discounts[d].status = "PENDING"

TypeOK ==
    /\ \A v \in DOMAIN past :
           /\ past[v].status \in OPEN_STATUSES \cup {"VOIDED", "CLOSED"}
           /\ past[v].money \in MONEY_PAYMENT_STATES \cup {"unpaid"}
           /\ past[v].free \in BOOLEAN
           /\ \A d \in DOMAIN past[v].discounts :
                  past[v].discounts[d].status \in {"PENDING", "APPROVED", "REJECTED"}
    /\ \A q \in Queries :
           /\ {cache[q].at, cache[q].from, due[q]} \subseteq 0..Len(past)
           /\ cache[q].fetch \in {"idle", "sent", "paused"} /\ cache[q].error \in BOOLEAN
    /\ floor.at \in 0..1 /\ online \in BOOLEAN
    /\ dialog.act \in Actions \cup {None}
    /\ call.pc \in {"idle", "paused", "sent", "done", "refused"} /\ call.at \in 0..Len(past)
    /\ joined \subseteq Queries /\ told \subseteq 1..MaxChanges
    /\ fails \in 0..MaxFails

Init ==
    /\ past = <<[status |-> "READY", money |-> "unpaid", free |-> FALSE, discounts |-> <<>>]>>
    /\ cache = [q \in Queries |-> Unread]
    /\ floor = [at |-> 1, as |-> None] /\ online = TRUE
    /\ dialog = Closed /\ call = Idle
    /\ due = [q \in Queries |-> 0] /\ joined = {} /\ told = {}
    /\ fails = 0

-----------------------------------------------------------------------------
(* Queries                                                                 *)

HasData(q) == cache[q].at > 0

\* A fetch of c begins; an error is forgotten if there is nothing else to show.
Fetched(c) == [c EXCEPT !.fetch = IF online THEN "sent" ELSE "paused",
                        !.from = IF online THEN Len(past) ELSE 0,
                        !.error = @ /\ c.at > 0]

\* The workspace is opened from the floor, online or not.
Enter ==
    /\ cache["order"] = Unread
    /\ online' \in BOOLEAN
    /\ cache' = [q \in Queries |-> [Unread EXCEPT !.fetch = IF online' THEN "sent" ELSE "paused",
                                                 !.from = IF online' THEN Len(past) ELSE 0]]
    /\ UNCHANGED <<past, floor, dialog, call, due, joined, told, fails>>

\* The answer is of any time since the fetch began.
Land(q) ==
    /\ cache[q].fetch = "sent"
    /\ \E v \in cache[q].from..Len(past) :
           cache' = [cache EXCEPT ![q] = [Unread EXCEPT !.at = v]]
    /\ UNCHANGED <<past, floor, online, dialog, call, due, joined, told, fails>>

\* shouldRetryApiRequest has tried once more.
Fail(q) ==
    /\ q # "order" /\ cache[q].fetch = "sent"
    /\ fails < MaxFails
    /\ fails' = fails + 1
    /\ cache' = [cache EXCEPT ![q].fetch = "idle", ![q].from = 0, ![q].error = TRUE]
    /\ UNCHANGED <<past, floor, online, dialog, call, due, joined, told>>

\* Its Retry is pressed.
Refetch(q) ==
    /\ dialog = Closed
    /\ cache[q].fetch = "idle" /\ cache[q].error
    /\ cache' = [cache EXCEPT ![q] = Fetched(@)]
    /\ UNCHANGED <<past, floor, online, dialog, call, due, joined, told, fails>>

\* invalidateQueries: a fetch of a query with data begins anew, one without goes on.
Invalidated(c) == IF c.fetch # "idle" /\ c.at = 0 THEN c ELSE Fetched(c)

-----------------------------------------------------------------------------
(* What is offered                                                         *)

Shown ==
    LET c == IF HasData("order") THEN cache["order"] ELSE floor
    IN  IF c.at = 0 THEN None
        ELSE [past[c.at] EXCEPT !.status = IF c.as = None THEN @ ELSE c.as]

ShownDiscounts == IF HasData("discounts") THEN past[cache["discounts"].at].discounts ELSE <<>>

\* getPaymentState: with nothing to pay for, a part that was paid is not seen.
MoneyOf(o) == IF o.free /\ o.money = "partially-paid" THEN "unpaid" ELSE o.money

PaymentState == IF HasData("payments") THEN MoneyOf(past[cache["payments"].at]) ELSE "unknown"

\* Mutant: only a payment read that is under way counts.
PaymentLoading == cache["payments"].at = 0 /\ cache["payments"].fetch = "sent"

\* A query that waits for the network is neither loading nor in error.
PaymentUnavailable ==
    LET c == cache["payments"] IN c.error \/ (c.at = 0 /\ c.fetch = "sent")

\* Mutant: a served order can be voided.
AllowedStatusesServed(a) ==
    CASE a = "mark-served" -> {"READY"}
      [] a \in {"request-discount", "approve-discount"} -> DISCOUNTABLE_STATUSES
      [] a \in {"void", "reject-discount"} -> OPEN_STATUSES

AllowedStatuses(a) ==
    CASE a = "mark-served" -> {"READY"}
      [] a \in {"void", "request-discount", "approve-discount"} -> DISCOUNTABLE_STATUSES
      [] a = "reject-discount" -> OPEN_STATUSES

RequiresCleanPayment(a) == a \in {"void", "request-discount", "approve-discount"}

\* getSupervisorOrderActionAvailability.
Enabled(a) ==
    /\ Shown # None
    /\ Shown.status \in AllowedStatuses(a)
    /\ RequiresCleanPayment(a) => ~PaymentUnavailable /\ PaymentState \notin MONEY_PAYMENT_STATES
    /\ a = "request-discount" => ~Shown.free /\ ~Pending(ShownDiscounts)

\* A discount is asked for, whole if it is complimentary; one is decided in its row.
Arguments(a) ==
    CASE a = "request-discount" -> Asks
      [] a \in {"approve-discount", "reject-discount"} ->
             {d \in DOMAIN ShownDiscounts : ShownDiscounts[d].status = "PENDING"}
      [] OTHER -> {None}

Open(a) ==
    /\ dialog = Closed /\ cache["order"] # Unread /\ Enabled(a)
    /\ \E arg \in Arguments(a) :
           dialog' = [act |-> a, arg |-> arg, read |-> cache["payments"].at, online |-> online,
                      shown |-> IF HasData("order") THEN cache["order"].at ELSE floor.at,
                      settled |-> cache["discounts"].fetch = "idle" /\ ~cache["discounts"].error]
    /\ UNCHANGED <<past, cache, floor, online, call, due, joined, told, fails>>

\* Nothing is looked at again, whatever has been read since.
Confirm ==
    /\ dialog # Closed /\ call = Idle
    /\ call' = [Idle EXCEPT !.pc = IF online THEN "sent" ELSE "paused"]
    /\ UNCHANGED <<past, cache, floor, online, dialog, due, joined, told, fails>>

Cancel ==
    /\ dialog # Closed /\ call = Idle
    /\ dialog' = Closed
    /\ UNCHANGED <<past, cache, floor, online, call, due, joined, told, fails>>

-----------------------------------------------------------------------------
(* What the server does                                                    *)

Accepted(a, arg) ==
    CASE a = "mark-served" -> Now.status = "READY"
      [] a \in {"void", "request-discount"} -> Now.status \in DISCOUNTABLE_STATUSES
      [] a = "approve-discount" -> /\ Now.discounts[arg].status = "PENDING"
                                   /\ Now.status \in DISCOUNTABLE_STATUSES
      [] a = "reject-discount" -> Now.discounts[arg].status = "PENDING"

\* The latest approved discount counts: free says that it is of the whole bill.
Done(a, arg) ==
    CASE a = "mark-served" -> [Now EXCEPT !.status = "SERVED"]
      [] a = "void" -> [Now EXCEPT !.status = "VOIDED"]
      [] a = "request-discount" ->
             [Now EXCEPT !.free = IF arg.waits THEN @ ELSE arg.whole,
                         !.discounts = Append(@, [whole |-> arg.whole,
                             status |-> IF arg.waits THEN "PENDING" ELSE "APPROVED"])]
      [] a = "approve-discount" -> [Now EXCEPT !.free = Now.discounts[arg].whole,
                                               !.discounts[arg].status = "APPROVED"]
      [] a = "reject-discount" -> [Now EXCEPT !.discounts[arg].status = "REJECTED"]

Serve ==
    /\ call.pc = "sent"
    /\ IF Accepted(dialog.act, dialog.arg)
       THEN /\ Len(past) <= MaxChanges
            /\ past' = Append(past, Done(dialog.act, dialog.arg))
            /\ call' = [pc |-> "done", at |-> Len(past)]
       ELSE call' = [pc |-> "refused", at |-> Len(past)] /\ UNCHANGED past
    /\ UNCHANGED <<cache, floor, online, dialog, due, joined, told, fails>>

-----------------------------------------------------------------------------
(* What the screen does with the answer                                    *)

\* Mutant: a request leaves the list of discounts as it was read.
TouchesDecided(a) ==
    CASE a \in {"mark-served", "void", "request-discount"} -> {"order"}
      [] a = "approve-discount" -> {"order", "discounts"}
      [] a = "reject-discount" -> {"discounts"}

\* The queries each success invalidates.
Touches(a) ==
    CASE a \in {"mark-served", "void"} -> {"order"}
      [] a \in {"request-discount", "approve-discount"} -> {"order", "discounts"}
      [] a = "reject-discount" -> {"discounts"}

\* What is known of the order at once: a void is answered with its row.
Patched(c) ==
    CASE c.at = 0 -> c
      [] dialog.act = "void" -> [c EXCEPT !.at = call.at + 1, !.as = "VOIDED"]
      [] dialog.act = "mark-served" -> [c EXCEPT !.as = "SERVED"]
      [] OTHER -> c

Answer ==
    LET touched == Touches(dialog.act)
        patched == [cache EXCEPT !["order"] = Patched(@)]
    IN
    /\ call.pc = "done"
    /\ cache' = [q \in Queries |-> IF q \in touched THEN Invalidated(patched[q]) ELSE cache[q]]
    /\ floor' = CASE dialog.act = "void" -> [floor EXCEPT !.at = 0]
                  [] dialog.act = "mark-served" -> [floor EXCEPT !.as = "SERVED"]
                  [] OTHER -> floor
    /\ due' = [q \in Queries |-> IF q \in touched THEN Len(past) ELSE due[q]]
    /\ joined' = joined \cup {q \in touched : cache[q].fetch = "sent" /\ cache[q].at = 0}
    /\ told' = IF dialog.act = "request-discount" THEN told \cup {Len(past[call.at + 1].discounts)}
               ELSE told
    /\ dialog' = Closed /\ call' = Idle
    /\ UNCHANGED <<past, online, fails>>

\* The dialog says why and stays; nothing is read again.
Refusal ==
    /\ call.pc = "refused"
    /\ call' = Idle
    /\ UNCHANGED <<past, cache, floor, online, dialog, due, joined, told, fails>>

\* The request or its answer is lost: the same to the dialog.
Lose ==
    /\ call.pc \in {"sent", "done"}
    /\ fails < MaxFails
    /\ fails' = fails + 1
    /\ call' = Idle
    /\ UNCHANGED <<past, cache, floor, online, dialog, due, joined, told>>

-----------------------------------------------------------------------------
(* The surroundings                                                        *)

\* The waiter serves, the cashier takes a part, or the rest, which closes the
\* order.  MaxChanges leaves room for a change by the screen.
Elsewhere ==
    /\ Len(past) < MaxChanges
    /\ Now.status \in OPEN_STATUSES
    /\ \E o \in {[Now EXCEPT !.status = "SERVED"],
                 [Now EXCEPT !.money = IF Now.free THEN @ ELSE "partially-paid"],
                 [Now EXCEPT !.money = "settled", !.status = "CLOSED"]} :
           o # Now /\ past' = Append(past, o)
    /\ UNCHANGED <<cache, floor, online, dialog, call, due, joined, told, fails>>

\* Someone else decides a discount.
Decide ==
    /\ Len(past) <= MaxChanges
    /\ \E d \in DOMAIN Now.discounts, a \in {"approve-discount", "reject-discount"} :
           Accepted(a, d) /\ past' = Append(past, Done(a, d))
    /\ UNCHANGED <<cache, floor, online, dialog, call, due, joined, told, fails>>

\* What waited is sent: mutations first, then queries.
GoOnline ==
    /\ ~online
    /\ online' = TRUE
    /\ cache' = [q \in Queries |->
                    IF cache[q].fetch = "paused"
                    THEN [cache[q] EXCEPT !.fetch = "sent", !.from = Len(past)] ELSE cache[q]]
    /\ call' = IF call.pc = "paused" THEN [call EXCEPT !.pc = "sent"] ELSE call
    /\ UNCHANGED <<past, floor, dialog, due, joined, told, fails>>

Next ==
    \/ Enter
    \/ \E q \in Queries : Land(q) \/ Fail(q) \/ Refetch(q)
    \/ \E a \in Actions : Open(a)
    \/ Confirm \/ Cancel \/ Serve \/ Answer \/ Refusal \/ Lose
    \/ Elsewhere \/ Decide \/ GoOnline

Spec == Init /\ [][Next]_vars

-----------------------------------------------------------------------------
(* What must hold.                                                         *)

\* A void or a discount that hits an order with money on it came from a dialog
\* that was opened when the payments read showed none (a part paid of an order
\* that is complimentary since does not show), or could not be read for
\* want of a network ("never assume unpaid on failure": a query that waits for
\* the network is neither loading nor failed, and what was submitted meanwhile
\* goes out when it is back).
MoneyRespected ==
    call.pc = "done" /\ past[call.at + 1].money # "unpaid" /\ RequiresCleanPayment(dialog.act) =>
        IF dialog.read = 0 THEN ~dialog.online ELSE MoneyOf(past[dialog.read]) = "unpaid"

\* What is offered is refused only if the order or the discount has changed
\* since it was read.
OffersHold ==
    call.pc = "refused" =>
        \/ past[dialog.shown].status # past[call.at].status
        \/ /\ dialog.act \in {"approve-discount", "reject-discount"}
           /\ past[call.at].discounts[dialog.arg].status # "PENDING"

\* A query that has settled knows all there was when a success invalidated it,
\* unless its first read was under way then: it is not begun anew.
OwnDeedsShown ==
    \A q \in Queries \ joined :
        cache[q].fetch = "idle" /\ ~cache[q].error => cache[q].at >= due[q]

\* While a discount it was told of waits, the screen asks for no second one
\* unless the list was unsettled, or had joined, when the dialog was opened.
AskedOnce ==
    call.pc = "done" /\ dialog.act = "request-discount" /\ dialog.settled =>
        \/ "discounts" \in joined
        \/ \A d \in told : past[call.at].discounts[d].status # "PENDING"

BoardAgrees == MoneyRespected /\ OffersHold /\ OwnDeedsShown /\ AskedOnce

=============================================================================
