--------------------------- MODULE PaymentsProofs ---------------------------
(***************************************************************************)
(* What the books say of the provider, proved for any numbers of requests, *)
(* intents, webhooks and payments: money is recorded for an intent only if *)
(* the provider took it, and an intent is SUCCEEDED only with its money    *)
(* recorded.                                                               *)
(*                                                                         *)
(* A webhook trusts a status it carries, through three calls during which  *)
(* other requests overwrite the intent.  Neither property rests on the     *)
(* intent's row, then, but on the provider: what was paid stays paid.  That*)
(* needs a charge to be asked for once per intent, hence Asking and Fresh. *)
(* What the payments of an order come to (Paid, a fold) does not matter to *)
(* either, so the sum a request carries is left without a type at first; a *)
(* later part gives it one.                                                *)
(*                                                                         *)
(* The parts on requests one at a time say what the code's two searches    *)
(* without a lock are worth when requests do not overlap, and that an order*)
(* is then closed only when it is covered.                                 *)
(*                                                                         *)
(* Another part is about what the bank says (module Bank, as K), on rows   *)
(* of its own.  Matching, skipping and completing trust rows read before,  *)
(* so a reconciliation balances as long as requests do not overlap; the    *)
(* invariant says what one that is alone has found (BankFound).            *)
(*                                                                         *)
(* The last part is about pay runs (module Payroll, as W).  A run is       *)
(* written with its slips in one transaction and moved on with them in     *)
(* another, so they agree through any race (SlipRight, RunRight); that no  *)
(* other run of the branch shares a day, and how far the run is, was only  *)
(* read (PayFound).                                                        *)
(***************************************************************************)
EXTENDS Payments, SumLemmas

CONSTANTS Lines, LineAmount, StatementBalance, Clerks, MaxRecs, MaxArrivals

VARIABLES line, recs, locked, bankReq, overlaps, arrived, bankCrashes

K == INSTANCE Bank WITH Requests <- Clerks, req <- bankReq, crashes <- bankCrashes

CONSTANTS Branches, Employees, HomeOf, Base, Periods, Selections, Extras, MaxRuns, MaxAdjustments

VARIABLES payRuns, slips, adjustments, paidRuns, payReq, payOverlaps, payArrived, payCrashes

W == INSTANCE Payroll WITH Requests <- Clerks, runs <- payRuns, paid <- paidRuns, req <- payReq,
                           overlaps <- payOverlaps, arrived <- payArrived, crashes <- payCrashes

PaymentRows == [method : {"CASH", "MOMO", "MANUAL"}, amount : Amounts,
                intent : Intents \cup {None}, ref : Refs \cup {None}]
IntentRows == [status : IntentStatus \cup {"ABSENT"}, amount : Amounts, key : Keys \cup {None}]
SlotsOver(Sums) == [pc : PC, intent : Intents \cup {None}, key : Keys \cup {None},
                    ref : Refs \cup {None}, status : IntentStatus, cash : Amounts,
                    momo : Amounts, total : 0..MaxTotal, paid : Sums]

\* TypeOK but for the sum.
Typed ==
    /\ order \in [status : OrderStatus, total : 0..MaxTotal]
    /\ payments \in Seq(PaymentRows)
    /\ intents \in [Intents -> IntentRows]
    /\ charge \in [Intents -> Charges]
    /\ \E Sums : req \in [Requests -> SlotsOver(Sums)]
    /\ crashes \in Nat

\* The calls about an intent that exists.
OfIntent == {"requestToPay", "failIntent", "cancelWrite", "whIntent", "whFind", "whPay"}

\* What a request carries to its next call: a known intent, an amount, and in a
\* webhook of success the fact that the provider took the money.
Carried ==
    \A r \in Requests :
        /\ req[r].pc \in OfIntent =>
               req[r].intent \in Intents /\ intents[req[r].intent].status # "ABSENT"
        /\ req[r].pc \in {"findKey", "createIntent"} => req[r].momo > 0
        /\ req[r].pc = "whIntent" /\ req[r].status = "SUCCEEDED" => charge[req[r].intent] = "paid"
        /\ req[r].pc \in {"whFind", "whPay"} => charge[req[r].intent] = "paid"

\* The one request that will ask the provider for an intent is alone with it.
Asking ==
    \A r \in Requests : req[r].pc = "requestToPay" =>
        /\ charge[req[r].intent] = "none"
        /\ \A q \in Requests : q # r /\ req[q].pc = "requestToPay" => req[q].intent # req[r].intent

\* An intent that was never inserted has no charge; one that was has an amount.
Fresh ==
    \A i \in Intents : IF intents[i].status = "ABSENT" THEN charge[i] = "none"
                                                       ELSE intents[i].amount > 0

PInv == Typed /\ Carried /\ Asking /\ Fresh /\ RecordedIsTaken /\ SucceededIsRecorded

USE NoneAssumption, BoundsAssumption

-----------------------------------------------------------------------------

LEMMA IdleTyped == \A Sums : Idle.paid \in Sums => Idle \in SlotsOver(Sums)
BY DEF Idle, SlotsOver, PC, IntentStatus, Amounts

LEMMA InitPInv == Init => PInv
<1>. SUFFICES ASSUME Init PROVE PInv
  OBVIOUS
<1>1. req \in [Requests -> SlotsOver({0})]
  BY IdleTyped DEF Init, Idle
<1>2. Typed
  BY <1>1 DEF Init, Typed, OrderStatus, PaymentRows, IntentRows, IntentStatus, Amounts, Charges
<1>3. Carried /\ Asking
  BY DEF Init, Carried, Asking, Idle, OfIntent
<1>4. Fresh /\ RecordedIsTaken /\ SucceededIsRecorded
  BY DEF Init, Fresh, RecordedIsTaken, SucceededIsRecorded
<1>. QED
  BY <1>2, <1>3, <1>4 DEF PInv

\* A request that only moves on keeps its data, or forgets them.
LEMMA GotoMoves ==
  ASSUME Typed, NEW r \in Requests, NEW p, NEW q \in PC, Goto(r, p, q)
  PROVE  /\ req[r].pc = p
         /\ req' = [req EXCEPT ![r] = req'[r]]
         /\ req'[r].pc = q
         /\ q # "idle" => /\ req'[r].intent = req[r].intent
                          /\ req'[r].momo = req[r].momo
                          /\ req'[r].status = req[r].status
         /\ \E Sums : req' \in [Requests -> SlotsOver(Sums)]
<1>1. PICK Sums : req \in [Requests -> SlotsOver(Sums)]
  BY DEF Typed
<1>2. CASE q = "idle"
  <2>1. /\ req[r].pc = p
        /\ req' = [req EXCEPT ![r] = Idle]
    BY <1>2 DEF Goto
  <2>2. req' \in [Requests -> SlotsOver(Sums \cup {0})]
    <3>1. Idle \in SlotsOver(Sums \cup {0})
      BY IdleTyped DEF Idle
    <3>2. SlotsOver(Sums) \subseteq SlotsOver(Sums \cup {0})
      BY DEF SlotsOver
    <3>. QED
      BY <1>1, <2>1, <3>1, <3>2
  <2>. QED
    BY <1>1, <1>2, <2>1, <2>2 DEF Idle
<1>3. CASE q # "idle"
  <2>1. /\ req[r].pc = p
        /\ req' = [req EXCEPT ![r] = [req[r] EXCEPT !.pc = q]]
    BY <1>3 DEF Goto
  <2>2. /\ [req[r] EXCEPT !.pc = q] \in SlotsOver(Sums)
        /\ [req[r] EXCEPT !.pc = q].pc = q
        /\ [req[r] EXCEPT !.pc = q].intent = req[r].intent
        /\ [req[r] EXCEPT !.pc = q].momo = req[r].momo
        /\ [req[r] EXCEPT !.pc = q].status = req[r].status
    BY <1>1 DEF SlotsOver
  <2>3. req' \in [Requests -> SlotsOver(Sums)]
    BY <1>1, <2>1, <2>2
  <2>. QED
    BY <1>1, <2>1, <2>2, <2>3
<1>. QED
  BY <1>2, <1>3

\* A slot that was free takes a request.
LEMMA StartMoves ==
  ASSUME Typed, NEW r \in Requests, NEW d, Start(r, d), \E Sums : d \in SlotsOver(Sums)
  PROVE  /\ req[r].pc = "idle"
         /\ req' = [req EXCEPT ![r] = d]
         /\ req'[r] = d
         /\ \E Sums : req' \in [Requests -> SlotsOver(Sums)]
<1>1. PICK Sums : req \in [Requests -> SlotsOver(Sums)]
  BY DEF Typed
<1>2. PICK More : d \in SlotsOver(More)
  OBVIOUS
<1>3. SlotsOver(Sums) \subseteq SlotsOver(Sums \cup More) /\ d \in SlotsOver(Sums \cup More)
  BY <1>2 DEF SlotsOver
<1>4. req[r].pc = "idle" /\ req' = [req EXCEPT ![r] = d]
  BY DEF Start
<1>5. req' \in [Requests -> SlotsOver(Sums \cup More)]
  BY <1>1, <1>3, <1>4
<1>. QED
  BY <1>1, <1>4, <1>5

-----------------------------------------------------------------------------
(* Steps that leave the provider alone                                     *)

\* No step takes a row from the books, and what it adds for an intent was paid.
Added ==
    /\ DOMAIN payments \subseteq DOMAIN payments'
    /\ \A n \in DOMAIN payments : payments'[n] = payments[n]
    /\ \A n \in DOMAIN payments' \ DOMAIN payments :
           payments'[n].intent # None => charge[payments'[n].intent] = "paid"

\* Request r writes statuses of intents that exist, SUCCEEDED only on its way to
\* the payment.
Marks(r) ==
    \A i \in Intents :
        /\ intents'[i].status = "ABSENT" <=> intents[i].status = "ABSENT"
        /\ intents'[i].amount = intents[i].amount
        /\ intents'[i].status = "SUCCEEDED" =>
               \/ intents[i].status = "SUCCEEDED"
               \/ req'[r].pc = "whFind" /\ req'[r].intent = i

\* What r carries after its step.
Carries(r) ==
    /\ req'[r].pc \in OfIntent =>
           req'[r].intent \in Intents /\ intents[req'[r].intent].status # "ABSENT"
    /\ req'[r].pc \in {"findKey", "createIntent"} => req'[r].momo > 0
    /\ req'[r].pc = "whIntent" /\ req'[r].status = "SUCCEEDED" => charge[req'[r].intent] = "paid"
    /\ req'[r].pc \in {"whFind", "whPay"} => charge[req'[r].intent] = "paid"
    /\ req'[r].pc # "requestToPay"

\* A webhook of success leaves its payment, or goes on, or dies.
Leaves(r) ==
    req[r].pc \in {"whFind", "whPay"} =>
        \/ crashes' # 0
        \/ \E n \in DOMAIN payments' : payments'[n].intent = req[r].intent
        \/ req'[r].pc \in {"whFind", "whPay"} /\ req'[r].intent = req[r].intent

LEMMA Moves ==
  ASSUME PInv, Typed', NEW r \in Requests, req' = [req EXCEPT ![r] = req'[r]],
         charge' = charge, crashes' = 0 => crashes = 0,
         Added, Marks(r), Carries(r), Leaves(r)
  PROVE  PInv'
<1>. USE DEF PInv
<1>1. /\ \A q \in Requests \ {r} : req'[q] = req[q]
      /\ charge \in [Intents -> Charges]
  BY DEF Typed
<1>2. Carried'
  <2>. SUFFICES ASSUME NEW q \in Requests
                PROVE  (/\ req[q].pc \in OfIntent =>
                               req[q].intent \in Intents /\ intents[req[q].intent].status # "ABSENT"
                        /\ req[q].pc \in {"findKey", "createIntent"} => req[q].momo > 0
                        /\ req[q].pc = "whIntent" /\ req[q].status = "SUCCEEDED"
                               => charge[req[q].intent] = "paid"
                        /\ req[q].pc \in {"whFind", "whPay"} => charge[req[q].intent] = "paid")'
    BY DEF Carried
  <2>1. CASE q = r
    BY <2>1 DEF Carries, Marks
  <2>2. CASE q # r
    BY <1>1, <2>2 DEF Carried, Marks
  <2>. QED
    BY <2>1, <2>2
<1>3. Asking'
  BY <1>1 DEF Asking, Carries
<1>4. Fresh'
  BY DEF Fresh, Marks
<1>5. RecordedIsTaken'
  BY DEF RecordedIsTaken, Added
<1>6. SucceededIsRecorded'
  <2>. SUFFICES ASSUME NEW i \in Intents, intents'[i].status = "SUCCEEDED", crashes' = 0
                PROVE  \/ PaymentsOf(i)' # {}
                       \/ \E q \in Requests : req'[q].intent = i /\ req'[q].pc \in {"whFind", "whPay"}
    BY DEF SucceededIsRecorded
  <2>1. CASE req'[r].pc = "whFind" /\ req'[r].intent = i
    BY <2>1
  <2>2. CASE PaymentsOf(i) # {}
    BY <2>2 DEF PaymentsOf, Added
  <2>3. ASSUME NEW q \in Requests, req[q].intent = i, req[q].pc \in {"whFind", "whPay"}
        PROVE  \/ PaymentsOf(i)' # {}
               \/ req'[q].intent = i /\ req'[q].pc \in {"whFind", "whPay"}
    <3>1. CASE q = r
      BY <2>3, <3>1 DEF Leaves, PaymentsOf
    <3>2. CASE q # r
      BY <1>1, <2>3, <3>2
    <3>. QED
      BY <3>1, <3>2
  <2>. QED
    BY <2>1, <2>2, <2>3 DEF Marks, SucceededIsRecorded
<1>. QED
  BY <1>2, <1>3, <1>4, <1>5, <1>6

\* A step that writes neither payments nor intents.
LEMMA Still ==
  ASSUME PInv, NEW r \in Requests, UNCHANGED <<payments, intents>>
  PROVE  Added /\ Marks(r)
BY DEF Added, Marks

\* Rows of no intent, or of one that was paid, may be added.
LEMMA Adding ==
  ASSUME PInv, NEW ps \in Seq(PaymentRows), Record(ps),
         \A n \in DOMAIN ps : ps[n].intent # None => charge[ps[n].intent] = "paid"
  PROVE  /\ payments' \in Seq(PaymentRows) /\ Added
         /\ \A i \in Intents : (\E n \in DOMAIN ps : ps[n].intent = i)
                                   => \E n \in DOMAIN payments' : payments'[n].intent = i
<1>1. /\ payments \in Seq(PaymentRows)
      /\ payments' = payments \o ps
  BY DEF PInv, Typed, Record
<1>2. /\ payments' \in Seq(PaymentRows)
      /\ Len(payments') = Len(payments) + Len(ps)
      /\ DOMAIN payments = 1..Len(payments) /\ DOMAIN payments' = 1..Len(payments')
      /\ DOMAIN ps = 1..Len(ps)
      /\ Len(payments) \in Nat /\ Len(ps) \in Nat
      /\ \A n \in 1..Len(payments) : payments'[n] = payments[n]
      /\ \A n \in 1..Len(ps) : payments'[Len(payments) + n] = ps[n]
  BY <1>1
<1>3. Added
  <2>. SUFFICES ASSUME NEW n \in DOMAIN payments' \ DOMAIN payments, payments'[n].intent # None
                PROVE  charge[payments'[n].intent] = "paid"
    BY <1>2 DEF Added
  <2>1. n - Len(payments) \in 1..Len(ps) /\ n = Len(payments) + (n - Len(payments))
    BY <1>2
  <2>2. payments'[n] = ps[n - Len(payments)]
    BY <1>2, <2>1
  <2>. QED
    BY <1>2, <2>1, <2>2
<1>4. ASSUME NEW i \in Intents, NEW n \in DOMAIN ps, ps[n].intent = i
      PROVE  \E m \in DOMAIN payments' : payments'[m].intent = i
  <2>1. Len(payments) + n \in DOMAIN payments' /\ payments'[Len(payments) + n] = ps[n]
    BY <1>2
  <2>. QED
    BY <1>4, <2>1
<1>. QED
  BY <1>2, <1>3, <1>4

-----------------------------------------------------------------------------
(* The actions                                                             *)

LEMMA IntentsOfRows ==
  ASSUME PInv
  PROVE  \A n \in DOMAIN payments : payments[n].intent \in Intents \cup {None}
<1>1. payments \in Seq(PaymentRows)
  BY DEF PInv, Typed
<1>2. \A n \in DOMAIN payments : payments[n] \in PaymentRows
  BY <1>1
<1>. QED
  BY <1>2 DEF PaymentRows

LEMMA Zero == 0 \in Amounts /\ 0 \in 0..MaxTotal /\ "PENDING" \in IntentStatus
BY DEF Amounts, IntentStatus

\* A request arrives: it carries nothing of the provider's, or what it says.
LEMMA ArriveStep == ASSUME PInv, NEW r \in Requests, Arrive(r) PROVE PInv'
<1>. USE DEF PInv
<1>1. ASSUME NEW d, Start(r, d), \E Sums : d \in SlotsOver(Sums),
             UNCHANGED <<order, payments, intents, charge, crashes>>,
             d.pc \in OfIntent => d.intent \in Intents /\ intents[d.intent].status # "ABSENT",
             d.pc = "findKey" => d.momo > 0,
             d.pc = "whIntent" /\ d.status = "SUCCEEDED" => charge[d.intent] = "paid",
             d.pc \notin {"whFind", "whPay", "requestToPay", "createIntent"}
      PROVE  PInv'
  <2>1. /\ req[r].pc = "idle" /\ req'[r] = d
        /\ req' = [req EXCEPT ![r] = req'[r]]
        /\ \E Sums : req' \in [Requests -> SlotsOver(Sums)]
    BY <1>1, StartMoves
  <2>2. Typed'
    BY <1>1, <2>1 DEF Typed
  <2>3. Carries(r) /\ Leaves(r)
    BY <1>1, <2>1 DEF Carries, Leaves
  <2>4. Added /\ Marks(r)
    BY <1>1, Still
  <2>. QED
    BY <1>1, <2>1, <2>2, <2>3, <2>4, Moves
<1>2. ASSUME NEW cash \in Amounts, NEW momo \in Amounts, CloseRead(r, cash, momo)
      PROVE  PInv'
  <2>. DEFINE d == [Idle EXCEPT !.pc = "closeMomo", !.cash = cash, !.momo = momo,
                                !.total = order.total, !.paid = Paid]
  <2>1. d \in SlotsOver({Paid}) /\ d.pc = "closeMomo"
    BY Zero DEF Idle, SlotsOver, PC, Typed
  <2>2. /\ Start(r, d)
        /\ UNCHANGED <<order, payments, intents, charge, crashes>>
    BY <1>2 DEF CloseRead
  <2>. QED
    BY <2>1, <2>2, <1>1 DEF OfIntent
<1>3. ASSUME NEW k \in Keys \cup {None}, NEW a \in Amounts, IntentRead(r, k, a)
      PROVE  PInv'
  <2>. DEFINE d == [Idle EXCEPT !.pc = "findKey", !.key = k, !.momo = a]
  <2>1. d \in SlotsOver({0}) /\ d.pc = "findKey" /\ d.momo = a
    BY Zero DEF Idle, SlotsOver, PC
  <2>2. /\ Start(r, d) /\ a > 0
        /\ UNCHANGED <<order, payments, intents, charge, crashes>>
    BY <1>3 DEF IntentRead
  <2>. QED
    BY <2>1, <2>2, <1>1 DEF OfIntent
<1>4. ASSUME NEW i \in Intents, CancelRead(r, i)
      PROVE  PInv'
  <2>. DEFINE d == [Idle EXCEPT !.pc = "cancelWrite", !.intent = i]
  <2>1. d \in SlotsOver({0}) /\ d.pc = "cancelWrite" /\ d.intent = i
    BY Zero DEF Idle, SlotsOver, PC
  <2>2. /\ Start(r, d) /\ intents[i].status # "ABSENT"
        /\ UNCHANGED <<order, payments, intents, charge, crashes>>
    BY <1>4 DEF CancelRead, Unresolved
  <2>. QED
    BY <2>1, <2>2, <1>1
<1>5. ASSUME NEW i \in Intents, NEW s \in IntentStatus, Webhook(r, i, s)
      PROVE  PInv'
  <2>. DEFINE d == [Idle EXCEPT !.pc = "whIntent", !.intent = i, !.status = s]
  <2>1. d \in SlotsOver({0}) /\ d.pc = "whIntent" /\ d.intent = i /\ d.status = s
    BY Zero DEF Idle, SlotsOver, PC
  <2>2. /\ Start(r, d) /\ s \in Reports(charge[i])
        /\ UNCHANGED <<order, payments, intents, charge, crashes>>
    BY <1>5 DEF Webhook
  <2>3. /\ s = "SUCCEEDED" => charge[i] = "paid"
        /\ charge[i] # "none"
    BY <2>2 DEF Reports, Typed, Charges
  <2>4. intents[i].status # "ABSENT"
    BY <2>3 DEF Fresh
  <2>. QED
    BY <2>1, <2>2, <2>3, <2>4, <1>1
<1>6. ASSUME NEW x \in Refs, NEW a \in Amounts, ManualRead(r, x, a)
      PROVE  PInv'
  <2>. DEFINE d == [Idle EXCEPT !.pc = "manualFind", !.ref = x, !.cash = a]
  <2>1. d \in SlotsOver({0}) /\ d.pc = "manualFind"
    BY Zero DEF Idle, SlotsOver, PC
  <2>2. /\ Start(r, d)
        /\ UNCHANGED <<order, payments, intents, charge, crashes>>
    BY <1>6 DEF ManualRead
  <2>. QED
    BY <2>1, <2>2, <1>1 DEF OfIntent
<1>. QED
  BY <1>2, <1>3, <1>4, <1>5, <1>6 DEF Arrive

\* A request moves on.
LEMMA ProceedStep == ASSUME PInv, NEW r \in Requests, Proceed(r) PROVE PInv'
<1>. USE DEF PInv
\* Moves on as Goto does, carrying what it carried.
<1>1. ASSUME NEW p, NEW q \in PC, Goto(r, p, q),
             UNCHANGED <<charge, crashes>>, Added, Marks(r),
             order' \in [status : OrderStatus, total : 0..MaxTotal],
             payments' \in Seq(PaymentRows), intents' \in [Intents -> IntentRows],
             q \in OfIntent => p \in OfIntent /\ q \in {"whFind", "whPay", "failIntent"},
             q \in {"findKey", "createIntent"} => p \in {"findKey", "createIntent"},
             q \in {"whFind", "whPay"} => charge[req[r].intent] = "paid",
             p \in {"whFind", "whPay"} =>
                 \/ \E n \in DOMAIN payments' : payments'[n].intent = req[r].intent
                 \/ q \in {"whFind", "whPay"}
      PROVE  PInv'
  <2>1. /\ req[r].pc = p
        /\ req' = [req EXCEPT ![r] = req'[r]]
        /\ req'[r].pc = q
        /\ q # "idle" => /\ req'[r].intent = req[r].intent
                         /\ req'[r].momo = req[r].momo
                         /\ req'[r].status = req[r].status
        /\ \E Sums : req' \in [Requests -> SlotsOver(Sums)]
    BY <1>1, GotoMoves
  <2>2. Typed'
    BY <1>1, <2>1 DEF Typed
  <2>3. Carries(r)
    BY <1>1, <2>1 DEF Carries, Carried, OfIntent
  <2>4. Leaves(r)
    BY <1>1, <2>1 DEF Leaves
  <2>. QED
    BY <1>1, <2>1, <2>2, <2>3, <2>4, Moves
\* Moves on without writing any row.
<1>2. ASSUME NEW p, NEW q \in PC, Goto(r, p, q), q \notin OfIntent,
             UNCHANGED <<payments, intents, charge, crashes>>,
             order' \in [status : OrderStatus, total : 0..MaxTotal],
             q = "createIntent" => p = "findKey", q # "findKey",
             p \notin {"whFind", "whPay"}
      PROVE  PInv'
  <2>1. Added /\ Marks(r)
    BY <1>2, Still
  <2>. QED
    BY <1>1, <1>2, <2>1 DEF OfIntent, Typed
<1>3. order \in [status : OrderStatus, total : 0..MaxTotal]
      /\ [order EXCEPT !.status = "CLOSED"] \in [status : OrderStatus, total : 0..MaxTotal]
  BY DEF Typed, OrderStatus
<1>4. CASE CloseMomo(r) \/ CloseIntents(r) \/ FindKey(r) \/ ManualFind(r) \/ SettleRead(r)
             \/ SettleBalance(r)
  <2>1. \E p \in {"closeMomo", "closeIntents", "findKey", "manualFind", "settleRead", "settleBalance"},
           q \in {"idle", "closeIntents", "closeWrite", "createIntent", "manualPay", "settleTotal",
                  "settleWrite"} :
            Goto(r, p, q) /\ (q = "createIntent" => p = "findKey")
    BY <1>4 DEF CloseMomo, CloseIntents, FindKey, ManualFind, SettleRead, SettleBalance
  <2>2. UNCHANGED <<order, payments, intents, charge, crashes>>
    BY <1>4 DEF CloseMomo, CloseIntents, FindKey, ManualFind, SettleRead, SettleBalance
  <2>. QED
    BY <1>2, <1>3, <2>1, <2>2 DEF OfIntent, PC
<1>5. CASE SettleWrite(r)
  BY <1>2, <1>3, <1>5 DEF SettleWrite, OfIntent, PC
<1>6. CASE SettleTotal(r)
  <2>1. PICK Sums : req \in [Requests -> SlotsOver(Sums)]
    BY DEF Typed
  <2>. DEFINE d == [req[r] EXCEPT !.pc = "settleBalance", !.total = order.total]
  <2>2. /\ req[r].pc = "settleTotal" /\ req' = [req EXCEPT ![r] = d]
        /\ UNCHANGED <<order, payments, intents, charge, crashes>>
    BY <1>6 DEF SettleTotal
  <2>3. d \in SlotsOver(Sums) /\ d.pc = "settleBalance"
    <3>1. req[r] \in SlotsOver(Sums) /\ order.total \in 0..MaxTotal
      BY <1>3, <2>1
    <3>2. "settleBalance" \in PC
      BY DEF PC
    <3>. QED
      BY <3>1, <3>2 DEF SlotsOver
  <2>. HIDE DEF d
  <2>4. req' \in [Requests -> SlotsOver(Sums)] /\ req'[r] = d /\ req' = [req EXCEPT ![r] = req'[r]]
    BY <2>1, <2>2, <2>3
  <2>5. Typed'
    BY <2>2, <2>4 DEF Typed
  <2>6. Carries(r) /\ Leaves(r)
    BY <2>2, <2>3, <2>4 DEF Carries, Leaves, OfIntent
  <2>7. Added /\ Marks(r)
    BY <2>2, Still
  <2>. QED
    BY <2>2, <2>4, <2>5, <2>6, <2>7, Moves
<1>7. CASE WebhookFind(r)
  <2>1. PICK q \in {"idle", "whPay"} :
            Goto(r, "whFind", q) /\ (q = "idle" => PaymentsOf(req[r].intent) # {})
    BY <1>7 DEF WebhookFind
  <2>2. /\ UNCHANGED <<order, payments, intents, charge, crashes>>
        /\ charge[req[r].intent] = "paid"
    BY <1>7, <2>1, GotoMoves DEF WebhookFind, Carried, PC
  <2>3. Added /\ Marks(r)
    BY <2>2, Still
  <2>. QED
    BY <1>1, <1>3, <2>1, <2>2, <2>3 DEF OfIntent, PC, PaymentsOf, Typed
<1>8. ASSUME NEW s \in IntentStatus, NEW p \in {"failIntent", "cancelWrite", "whIntent"},
             NEW q \in {"idle", "whFind"}, Goto(r, p, q),
             s = "SUCCEEDED" => q = "whFind",
             q = "whFind" => p = "whIntent" /\ req[r].status = "SUCCEEDED",
             intents' = [intents EXCEPT ![req[r].intent].status = s],
             UNCHANGED <<order, payments, charge, crashes>>
      PROVE  PInv'
  <2>1. /\ req[r].pc = p /\ req'[r].pc = q
        /\ q = "whFind" => req'[r].intent = req[r].intent
    BY <1>8, GotoMoves DEF PC
  <2>2. /\ req[r].intent \in Intents /\ intents[req[r].intent].status # "ABSENT"
        /\ q = "whFind" => charge[req[r].intent] = "paid"
    BY <1>8, <2>1 DEF Carried, OfIntent
  <2>3. /\ intents \in [Intents -> IntentRows]
        /\ \A i \in Intents : intents'[i] = IF i = req[r].intent
                                            THEN [intents[i] EXCEPT !.status = s] ELSE intents[i]
    BY <1>8 DEF Typed
  <2>4. \A i \in Intents : /\ intents'[i] \in IntentRows
                           /\ intents'[i].amount = intents[i].amount
                           /\ i # req[r].intent => intents'[i].status = intents[i].status
    <3>1. ASSUME NEW row \in IntentRows
          PROVE  LET new == [row EXCEPT !.status = s]
                 IN  new \in IntentRows /\ new.amount = row.amount
      BY <3>1 DEF IntentRows
    <3>. SUFFICES ASSUME NEW i \in Intents
                  PROVE  /\ intents'[i] \in IntentRows
                         /\ intents'[i].amount = intents[i].amount
                         /\ i # req[r].intent => intents'[i].status = intents[i].status
      OBVIOUS
    <3>2. intents[i] \in IntentRows
      BY <2>3
    <3>. QED
      BY <2>3, <3>1, <3>2
  <2>5. intents'[req[r].intent].status = s
    BY <2>2, <2>3 DEF IntentRows
  <2>6. intents' \in [Intents -> IntentRows]
    BY <1>8, <2>2, <2>3, <2>4
  <2>7. Marks(r)
    BY <1>8, <2>1, <2>2, <2>4, <2>5 DEF Marks, IntentStatus
  <2>8. Added
    BY <1>8 DEF Added
  <2>. QED
    BY <1>1, <1>3, <1>8, <2>2, <2>6, <2>7, <2>8 DEF OfIntent, PC, Typed
<1>9. CASE FailIntent(r)
  BY <1>8, <1>9 DEF FailIntent, IntentStatus
<1>10. CASE CancelWrite(r)
  BY <1>8, <1>10 DEF CancelWrite, IntentStatus
<1>11. CASE WebhookIntent(r)
  <2>1. req[r].status \in IntentStatus
    BY DEF Typed, SlotsOver
  <2>2. CASE req[r].status = "SUCCEEDED"
    BY <1>8, <1>11, <2>1, <2>2 DEF WebhookIntent
  <2>3. CASE req[r].status # "SUCCEEDED"
    BY <1>8, <1>11, <2>1, <2>3 DEF WebhookIntent
  <2>. QED
    BY <2>2, <2>3
\* The three that add to the books.
<1>12. ASSUME NEW ps \in Seq(PaymentRows), Record(ps),
              NEW p \in {"closeWrite", "manualPay", "whPay"}, NEW q \in {"idle", "settleRead"},
              Goto(r, p, q), UNCHANGED <<intents, charge, crashes>>,
              order' \in [status : OrderStatus, total : 0..MaxTotal],
              \A n \in DOMAIN ps : ps[n].intent # None => charge[ps[n].intent] = "paid",
              p = "whPay" => /\ req[r].intent \in Intents
                             /\ \E n \in DOMAIN ps : ps[n].intent = req[r].intent
       PROVE  PInv'
  <2>1. /\ payments' \in Seq(PaymentRows) /\ Added
        /\ p = "whPay" => \E n \in DOMAIN payments' : payments'[n].intent = req[r].intent
    BY <1>12, Adding
  <2>2. Marks(r)
    BY <1>12 DEF Marks
  <2>. QED
    BY ZenonT(60), <1>1, <1>12, <2>1, <2>2 DEF OfIntent, PC, Typed
<1>13. req[r].cash \in Amounts /\ req[r].momo \in Amounts /\ req[r].ref \in Refs \cup {None}
  BY DEF Typed, SlotsOver
<1>14. CASE CloseWrite(r)
  <2>1. /\ Cash(req[r].cash) \in PaymentRows /\ Cash(req[r].cash).intent = None
        /\ Momo(req[r].momo, None) \in PaymentRows /\ Momo(req[r].momo, None).intent = None
    BY <1>13 DEF Cash, Momo, PaymentRows
  <2>. DEFINE ps == Used(Cash(req[r].cash)) \o Used(Momo(req[r].momo, None))
  <2>2. ps \in Seq(PaymentRows) /\ \A n \in DOMAIN ps : ps[n].intent = None
    BY <2>1 DEF Used
  <2>3. /\ Record(ps) /\ Goto(r, "closeWrite", "idle")
        /\ UNCHANGED <<intents, charge, crashes>>
        /\ order' = [order EXCEPT !.status = "CLOSED"]
    BY <1>14 DEF CloseWrite
  <2>. HIDE DEF ps
  <2>. QED
    BY <1>3, <1>12, <2>2, <2>3
<1>15. CASE ManualPay(r)
  <2>. DEFINE ps == <<Manual(req[r].cash, req[r].ref)>>
  <2>1. ps \in Seq(PaymentRows) /\ \A n \in DOMAIN ps : ps[n].intent = None
    BY <1>13 DEF Manual, PaymentRows
  <2>2. /\ Record(ps) /\ Goto(r, "manualPay", "settleRead")
        /\ UNCHANGED <<order, intents, charge, crashes>>
    BY <1>15 DEF ManualPay
  <2>. HIDE DEF ps
  <2>. QED
    BY <1>3, <1>12, <2>1, <2>2
<1>16. CASE WebhookPay(r)
  <2>. DEFINE ps == <<Momo(intents[req[r].intent].amount, req[r].intent)>>
  <2>1. req[r].pc = "whPay"
    BY <1>16, GotoMoves DEF WebhookPay, PC
  <2>2. req[r].intent \in Intents /\ charge[req[r].intent] = "paid"
    BY <2>1 DEF Carried, OfIntent
  <2>3. intents[req[r].intent].amount \in Amounts
    BY <2>2 DEF Typed, IntentRows
  <2>4. /\ ps \in Seq(PaymentRows)
        /\ \A n \in DOMAIN ps : ps[n].intent = req[r].intent
        /\ \E n \in DOMAIN ps : ps[n].intent = req[r].intent
    BY <2>2, <2>3 DEF Momo, PaymentRows
  <2>5. /\ Record(ps) /\ Goto(r, "whPay", "settleRead")
        /\ UNCHANGED <<order, intents, charge, crashes>>
    BY <1>16 DEF WebhookPay
  <2>. HIDE DEF ps
  <2>. QED
    BY <1>3, <1>12, <2>2, <2>4, <2>5
\* The insert of an intent and the call that asks for its charge.
<1>17. ASSUME NEW i \in Intents, CreateIntent(r, i)
       PROVE  PInv'
  <2>1. PICK Sums : req \in [Requests -> SlotsOver(Sums)]
    BY DEF Typed
  <2>. DEFINE d == [req[r] EXCEPT !.pc = "requestToPay", !.intent = i]
              row == [status |-> "REQUIRES_ACTION", amount |-> req[r].momo, key |-> req[r].key]
  <2>2. /\ intents[i].status = "ABSENT" /\ req[r].pc = "createIntent"
        /\ intents' = [intents EXCEPT ![i] = row] /\ req' = [req EXCEPT ![r] = d]
        /\ UNCHANGED <<order, payments, charge, crashes>>
    BY <1>17 DEF CreateIntent
  <2>3. /\ d \in SlotsOver(Sums) /\ d.pc = "requestToPay" /\ d.intent = i
        /\ row \in IntentRows /\ row.amount = req[r].momo /\ row.status = "REQUIRES_ACTION"
    <3>1. req[r] \in SlotsOver(Sums)
      BY <2>1
    <3>2. "requestToPay" \in PC /\ "REQUIRES_ACTION" \in IntentStatus
      BY DEF PC, IntentStatus
    <3>3. d \in SlotsOver(Sums) /\ d.pc = "requestToPay" /\ d.intent = i
      BY <3>1, <3>2 DEF SlotsOver
    <3>4. row \in IntentRows /\ row.amount = req[r].momo /\ row.status = "REQUIRES_ACTION"
      BY <3>1, <3>2 DEF SlotsOver, IntentRows
    <3>. QED
      BY <3>3, <3>4
  <2>4. req[r].momo > 0 /\ charge[i] = "none"
    BY <2>2 DEF Carried, Fresh
  <2>. HIDE DEF d, row
  <2>5. /\ req' \in [Requests -> SlotsOver(Sums)] /\ intents' \in [Intents -> IntentRows]
        /\ req'[r] = d /\ \A q \in Requests \ {r} : req'[q] = req[q]
        /\ intents'[i] = row /\ \A j \in Intents \ {i} : intents'[j] = intents[j]
    BY <2>1, <2>2, <2>3 DEF Typed
  <2>6. Typed'
    BY <2>2, <2>5 DEF Typed
  <2>7. Carried'
    <3>1. \A q \in Requests \ {r} : req[q].pc \in OfIntent => req[q].intent # i
      BY <2>2 DEF Carried
    <3>. QED
      BY <2>2, <2>3, <2>5, <3>1 DEF Carried, OfIntent
  <2>8. Asking'
    <3>1. \A q \in Requests \ {r} : req[q].pc = "requestToPay" => req[q].intent # i
      BY <2>2 DEF Carried, OfIntent
    <3>. QED
      BY <2>2, <2>3, <2>4, <2>5, <3>1 DEF Asking
  <2>9. Fresh'
    BY <2>2, <2>3, <2>4, <2>5 DEF Fresh
  <2>10. RecordedIsTaken'
    BY <2>2 DEF RecordedIsTaken
  <2>11. SucceededIsRecorded'
    BY <2>2, <2>3, <2>5 DEF SucceededIsRecorded, PaymentsOf
  <2>. QED
    BY <2>6, <2>7, <2>8, <2>9, <2>10, <2>11
<1>18. CASE RequestToPay(r)
  <2>1. PICK q \in {"idle", "failIntent"} : Goto(r, "requestToPay", q)
    BY <1>18 DEF RequestToPay
  <2>2. /\ req[r].pc = "requestToPay" /\ req'[r].pc = q
        /\ req' = [req EXCEPT ![r] = req'[r]]
        /\ q # "idle" => req'[r].intent = req[r].intent
        /\ \E Sums : req' \in [Requests -> SlotsOver(Sums)]
    BY <2>1, GotoMoves DEF PC
  <2>3. /\ req[r].intent \in Intents /\ charge[req[r].intent] = "none"
        /\ intents[req[r].intent].status # "ABSENT"
    BY <2>2 DEF Carried, Asking, OfIntent
  <2>4. /\ charge' \in [Intents -> Charges]
        /\ \A i \in Intents \ {req[r].intent} : charge'[i] = charge[i]
        /\ UNCHANGED <<order, payments, intents, crashes>>
    BY <1>18 DEF RequestToPay, Typed, Charges
  <2>5. \A p \in Requests \ {r} : req'[p] = req[p]
    BY <2>2 DEF Typed
  <2>6. Typed'
    BY <2>2, <2>4 DEF Typed
  <2>7. Carried'
    BY <2>2, <2>3, <2>4, <2>5 DEF Carried, OfIntent
  <2>8. Asking'
    <3>1. \A p \in Requests \ {r} : req[p].pc = "requestToPay" =>
              req[p].intent \in Intents \ {req[r].intent}
      BY <2>2 DEF Asking, Carried, OfIntent
    <3>. QED
      BY <2>2, <2>4, <2>5, <3>1 DEF Asking
  <2>9. Fresh'
    BY <2>3, <2>4 DEF Fresh
  <2>10. RecordedIsTaken'
    BY <2>3, <2>4, IntentsOfRows DEF RecordedIsTaken
  <2>11. SucceededIsRecorded'
    BY <2>2, <2>4, <2>5 DEF SucceededIsRecorded, PaymentsOf
  <2>. QED
    BY <2>6, <2>7, <2>8, <2>9, <2>10, <2>11
<1>. QED
  BY <1>4, <1>5, <1>6, <1>7, <1>9, <1>10, <1>11, <1>14, <1>15, <1>16, <1>17, <1>18 DEF Proceed

\* A crash forgets what a request carried.
LEMMA CrashStep == ASSUME PInv, NEW r \in Requests, Crash(r) PROVE PInv'
<1>. USE DEF PInv
<1>1. PICK Sums : req \in [Requests -> SlotsOver(Sums)]
  BY DEF Typed
<1>2. Idle \in SlotsOver(Sums \cup {0}) /\ SlotsOver(Sums) \subseteq SlotsOver(Sums \cup {0})
  <2>1. Idle \in SlotsOver(Sums \cup {0})
    BY IdleTyped DEF Idle
  <2>2. SlotsOver(Sums) \subseteq SlotsOver(Sums \cup {0})
    BY DEF SlotsOver
  <2>. QED
    BY <2>1, <2>2
<1>3. /\ req' = [req EXCEPT ![r] = Idle] /\ crashes' = crashes + 1 /\ crashes \in Nat
      /\ UNCHANGED <<order, payments, intents, charge>>
  BY DEF Crash, Typed
<1>4. /\ \E More : req' \in [Requests -> SlotsOver(More)]
      /\ req'[r] = Idle
      /\ req' = [req EXCEPT ![r] = req'[r]]
      /\ crashes' \in Nat /\ crashes' # 0
  <2>1. req' \in [Requests -> SlotsOver(Sums \cup {0})]
    BY <1>1, <1>2, <1>3
  <2>2. crashes' \in Nat /\ crashes' # 0
    BY <1>3
  <2>. QED
    BY <1>1, <1>3, <2>1, <2>2
<1>5. Typed'
  BY <1>3, <1>4 DEF Typed
<1>6. Carries(r) /\ Leaves(r)
  BY <1>3, <1>4 DEF Carries, Leaves, Idle, OfIntent
<1>7. Added /\ Marks(r)
  BY <1>3, Still
<1>. QED
  BY <1>3, <1>4, <1>5, <1>6, <1>7, Moves

\* The provider decides a charge it was asked for, once.
LEMMA DecideStep == ASSUME PInv, NEW i \in Intents, Decide(i) PROVE PInv'
<1>. USE DEF PInv
<1>1. /\ charge[i] = "asked" /\ charge' \in [Intents -> Charges] /\ charge'[i] # "none"
      /\ \A j \in Intents \ {i} : charge'[j] = charge[j]
      /\ UNCHANGED <<order, payments, intents, req, crashes>>
  BY DEF Decide, Typed, Charges
<1>2. \A r \in Requests : req[r].pc \in OfIntent => req[r].intent \in Intents
  BY DEF Carried
<1>3. Typed'
  BY <1>1 DEF Typed
<1>4. Carried'
  <2>. SUFFICES ASSUME NEW r \in Requests
                PROVE  /\ req[r].pc = "whIntent" /\ req[r].status = "SUCCEEDED"
                              => charge'[req[r].intent] = "paid"
                       /\ req[r].pc \in {"whFind", "whPay"} => charge'[req[r].intent] = "paid"
    BY <1>1 DEF Carried
  <2>. QED
    BY <1>1, <1>2 DEF Carried, OfIntent
<1>5. Asking'
  BY <1>1, <1>2 DEF Asking, OfIntent
<1>6. Fresh'
  BY <1>1 DEF Fresh
<1>7. RecordedIsTaken'
  BY <1>1, IntentsOfRows DEF RecordedIsTaken
<1>8. SucceededIsRecorded'
  BY <1>1 DEF SucceededIsRecorded, PaymentsOf
<1>. QED
  BY <1>3, <1>4, <1>5, <1>6, <1>7, <1>8

\* What the order service does touches neither money nor requests.
LEMMA QuietStep ==
  ASSUME PInv, UNCHANGED <<payments, intents, charge, req, crashes>>,
         order' \in [status : OrderStatus, total : 0..MaxTotal]
  PROVE  PInv'
BY DEF PInv, Typed, Carried, Asking, Fresh, RecordedIsTaken, SucceededIsRecorded, PaymentsOf

LEMMA PInvStep == PInv /\ [Next]_vars => PInv'
<1>. SUFFICES ASSUME PInv, [Next]_vars PROVE PInv'
  OBVIOUS
<1>1. order \in [status : OrderStatus, total : 0..MaxTotal]
  BY DEF PInv, Typed
<1>2. CASE \E v \in 0..MaxTotal : ChangeTotal(v)
  BY <1>1, <1>2, QuietStep DEF ChangeTotal
<1>3. CASE Serve \/ VoidOrder
  BY <1>1, <1>3, QuietStep DEF Serve, VoidOrder, OrderStatus
<1>4. CASE \E i \in Intents : Decide(i)
  BY <1>4, DecideStep
<1>5. CASE \E r \in Requests : Arrive(r) \/ Proceed(r) \/ Crash(r)
  BY <1>5, ArriveStep, ProceedStep, CrashStep
<1>6. CASE UNCHANGED vars
  BY <1>1, <1>6, QuietStep DEF vars
<1>. QED
  BY <1>2, <1>3, <1>4, <1>5, <1>6 DEF Next

-----------------------------------------------------------------------------
(* The theorems                                                            *)

\* The inductive invariant holds in every behaviour.
THEOREM PaymentsInvariance == Spec => []PInv
BY InitPInv, PInvStep, PTL DEF Spec

\* Money on the books was taken by the provider, however processWebhook's calls
\* interleave with those of other webhooks, cancellations and closes.
THEOREM RecordedMoneyIsTaken == Spec => []RecordedIsTaken
<1>1. PInv => RecordedIsTaken
  BY DEF PInv
<1>. QED
  BY PaymentsInvariance, <1>1, PTL

\* A success that processWebhook stored is on the books or being put there,
\* unless a crash came between.
THEOREM SuccessesAreRecorded == Spec => []SucceededIsRecorded
<1>1. PInv => SucceededIsRecorded
  BY DEF PInv
<1>. QED
  BY PaymentsInvariance, <1>1, PTL

-----------------------------------------------------------------------------
(* Requests one at a time                                                  *)
(*                                                                         *)
(* Neither search, of a key or of a payment, is under a lock.  With one    *)
(* request in progress what it did not find is still missing when it       *)
(* inserts, whatever webhooks, crashes and the provider did before.        *)

OneAtATime == \A r, q \in Requests : r = q

\* What was looked for and not found.
StillMissing ==
    \A r \in Requests :
        /\ req[r].pc = "createIntent" /\ req[r].key # None
               => \A i \in Intents : intents[i].key # req[r].key
        /\ req[r].pc = "whPay" => PaymentsOf(req[r].intent) = {}

OneIntentPerKey ==
    \A i, j \in Intents : intents[i].key = intents[j].key /\ intents[i].key # None => i = j

SerialInv == PInv /\ StillMissing /\ OneIntentPerKey /\ OnePaymentPerIntent

LEMMA InitSerial == Init => SerialInv
BY InitPInv DEF Init, SerialInv, StillMissing, OneIntentPerKey, OnePaymentPerIntent, Idle

\* A step to a call that looked for nothing, which leaves the keys and the
\* payments of intents as they are.
LEMMA Serially ==
  ASSUME OneAtATime, SerialInv, NEW r \in Requests,
         req'[r].pc \notin {"createIntent", "whPay"},
         \A i \in Intents : intents'[i].key = intents[i].key,
         DOMAIN payments \subseteq DOMAIN payments',
         \A n \in DOMAIN payments : payments'[n] = payments[n],
         \A n \in DOMAIN payments' \ DOMAIN payments : payments'[n].intent = None
  PROVE  StillMissing' /\ OneIntentPerKey' /\ OnePaymentPerIntent'
<1>1. StillMissing'
  BY DEF OneAtATime, StillMissing
<1>2. OneIntentPerKey'
  BY DEF SerialInv, OneIntentPerKey
<1>3. OnePaymentPerIntent'
  BY DEF SerialInv, OnePaymentPerIntent
<1>. QED
  BY <1>1, <1>2, <1>3

\* The rows a sequence adds come after those that were there.
LEMMA Appends ==
  ASSUME PInv, NEW ps \in Seq(PaymentRows), Record(ps)
  PROVE  /\ DOMAIN payments \subseteq DOMAIN payments'
         /\ \A n \in DOMAIN payments : payments'[n] = payments[n]
         /\ \A n \in DOMAIN payments' \ DOMAIN payments :
                n - Len(payments) \in DOMAIN ps /\ payments'[n] = ps[n - Len(payments)]
<1>1. payments \in Seq(PaymentRows) /\ payments' = payments \o ps
  BY DEF PInv, Typed, Record
<1>2. /\ DOMAIN payments = 1..Len(payments) /\ DOMAIN ps = 1..Len(ps)
      /\ DOMAIN payments' = 1..(Len(payments) + Len(ps))
      /\ Len(payments) \in Nat /\ Len(ps) \in Nat
  BY <1>1
<1>3. \A n \in 1..Len(payments) : payments'[n] = payments[n]
  BY <1>1
<1>4. ASSUME NEW n \in DOMAIN payments' \ DOMAIN payments
      PROVE  n - Len(payments) \in DOMAIN ps /\ payments'[n] = ps[n - Len(payments)]
  <2>1. n \in Int /\ n > Len(payments) /\ n <= Len(payments) + Len(ps)
    BY <1>2
  <2>. QED
    BY <1>1, <1>2, <2>1
<1>. QED
  BY <1>2, <1>3, <1>4

LEMMA SerialStep ==
  ASSUME OneAtATime, SerialInv, [Next]_vars
  PROVE  StillMissing' /\ OneIntentPerKey' /\ OnePaymentPerIntent'
<1>. DEFINE Goal == StillMissing' /\ OneIntentPerKey' /\ OnePaymentPerIntent'
<1>0. PInv /\ intents \in [Intents -> IntentRows] /\ payments \in Seq(PaymentRows)
  BY DEF SerialInv, PInv, Typed
<1>1. PICK Sums : req \in [Requests -> SlotsOver(Sums)]
  BY <1>0 DEF PInv, Typed
\* Only the calls of a request that are named here write payments or intents.
<1>2. ASSUME NEW r \in Requests, UNCHANGED <<payments, intents>>,
             req'[r].pc \notin {"createIntent", "whPay"}
      PROVE  Goal
  BY <1>2, Serially
<1>3. ASSUME NEW r \in Requests, Arrive(r)
      PROVE  Goal
  <2>1. UNCHANGED <<payments, intents>>
    BY <1>3 DEF Arrive, CloseRead, IntentRead, CancelRead, Webhook, ManualRead
  <2>2. req'[r].pc \notin {"createIntent", "whPay"}
    BY ZenonT(60), <1>1, <1>3 DEF Arrive, CloseRead, IntentRead, CancelRead, Webhook, ManualRead, Start, Idle
  <2>. QED
    BY <1>2, <2>1, <2>2
<1>4. ASSUME NEW r \in Requests,
             CloseMomo(r) \/ CloseIntents(r) \/ RequestToPay(r) \/ ManualFind(r) \/ SettleRead(r)
               \/ SettleBalance(r) \/ SettleWrite(r)
      PROVE  Goal
  <2>1. PICK p \in PC, q \in PC \ {"createIntent", "whPay"} : Goto(r, p, q)
    BY <1>4 DEF CloseMomo, CloseIntents, RequestToPay, ManualFind, SettleRead, SettleBalance,
               SettleWrite, PC
  <2>2. req'[r].pc = q
    BY <1>0, <2>1, GotoMoves DEF PInv
  <2>3. UNCHANGED <<payments, intents>>
    BY <1>4 DEF CloseMomo, CloseIntents, RequestToPay, ManualFind, SettleRead, SettleBalance,
               SettleWrite
  <2>. QED
    BY <1>2, <2>2, <2>3
<1>5. ASSUME NEW r \in Requests, SettleTotal(r) \/ Crash(r)
      PROVE  Goal
  <2>0. /\ SettleTotal(r) => req'[r] = [req[r] EXCEPT !.pc = "settleBalance", !.total = order.total]
        /\ Crash(r) => req'[r] = Idle
    BY <1>1 DEF SettleTotal, Crash
  <2>1. req'[r].pc \in {"settleBalance", "idle"}
    <3>1. req[r] \in SlotsOver(Sums)
      BY <1>1
    <3>2. [req[r] EXCEPT !.pc = "settleBalance", !.total = order.total].pc = "settleBalance"
      BY <3>1 DEF SlotsOver
    <3>3. Idle.pc = "idle"
      BY DEF Idle
    <3>. QED
      BY <1>5, <2>0, <3>2, <3>3
  <2>2. UNCHANGED <<payments, intents>>
    BY <1>5 DEF SettleTotal, Crash
  <2>. QED
    BY <1>2, <2>1, <2>2
<1>6. ASSUME NEW r \in Requests, NEW s, NEW p \in PC, NEW q \in {"idle", "whFind"}, Goto(r, p, q),
             intents' = [intents EXCEPT ![req[r].intent].status = s], payments' = payments
      PROVE  Goal
  <2>1. req'[r].pc = q
    BY <1>0, <1>6, GotoMoves DEF PInv, PC
  <2>2. \A i \in Intents : intents'[i].key = intents[i].key
    BY <1>0, <1>6 DEF IntentRows
  <2>. QED
    BY <1>6, <2>1, <2>2, Serially
<1>7. ASSUME NEW r \in Requests, FailIntent(r) \/ CancelWrite(r) \/ WebhookIntent(r)
      PROVE  Goal
  <2>1. \E p \in PC, q \in {"idle", "whFind"} : Goto(r, p, q)
    BY <1>7 DEF FailIntent, CancelWrite, WebhookIntent, PC
  <2>2. \E s : intents' = [intents EXCEPT ![req[r].intent].status = s]
    BY <1>7 DEF FailIntent, CancelWrite, WebhookIntent
  <2>3. payments' = payments
    BY <1>7 DEF FailIntent, CancelWrite, WebhookIntent
  <2>. QED
    BY <1>6, <2>1, <2>2, <2>3
\* The search for a key and the insert.
<1>8. ASSUME NEW r \in Requests, FindKey(r)
      PROVE  Goal
  <2>1. PICK q \in {"idle", "createIntent"} : Goto(r, "findKey", q)
    BY <1>8 DEF FindKey
  <2>2. CASE q = "idle"
    <3>1. req'[r].pc = "idle"
      BY <1>0, <2>1, <2>2, GotoMoves DEF PInv, PC
    <3>. QED
      BY <1>2, <1>8, <3>1 DEF FindKey
  <2>3. CASE q = "createIntent"
    <3>1. req'[r].pc = "createIntent" /\ req'[r].key = req[r].key
      BY <1>1, <2>1, <2>3 DEF Goto, SlotsOver
    <3>2. req[r].key # None => \A i \in Intents : intents[i].key # req[r].key
      BY <1>1, <1>8, <3>1 DEF FindKey, Goto, Idle
    <3>3. UNCHANGED <<payments, intents>>
      BY <1>8 DEF FindKey
    <3>. QED
      BY <3>1, <3>2, <3>3
         DEF OneAtATime, SerialInv, StillMissing, OneIntentPerKey, OnePaymentPerIntent
  <2>. QED
    BY <2>1, <2>2, <2>3
<1>9. ASSUME NEW r \in Requests, NEW i \in Intents, CreateIntent(r, i)
      PROVE  Goal
  <2>1. /\ req[r].pc = "createIntent" /\ req'[r].pc = "requestToPay" /\ payments' = payments
        /\ intents'[i].key = req[r].key
        /\ \A j \in Intents \ {i} : intents'[j] = intents[j]
    BY <1>0, <1>1, <1>9 DEF CreateIntent, SlotsOver
  <2>2. StillMissing'
    BY <2>1 DEF OneAtATime, StillMissing
  <2>3. req[r].key # None => \A j \in Intents : intents[j].key # req[r].key
    BY <2>1 DEF SerialInv, StillMissing
  <2>4. OneIntentPerKey'
    BY <2>1, <2>3 DEF SerialInv, OneIntentPerKey
  <2>5. OnePaymentPerIntent'
    BY <2>1 DEF SerialInv, OnePaymentPerIntent
  <2>. QED
    BY <2>2, <2>4, <2>5
\* The search for a payment and the insert.
<1>10. ASSUME NEW r \in Requests, WebhookFind(r)
       PROVE  Goal
  <2>1. PICK q \in {"idle", "whPay"} : Goto(r, "whFind", q)
    BY <1>10 DEF WebhookFind
  <2>2. CASE q = "idle"
    <3>1. req'[r].pc = "idle"
      BY <1>0, <2>1, <2>2, GotoMoves DEF PInv, PC
    <3>. QED
      BY <1>2, <1>10, <3>1 DEF WebhookFind
  <2>3. CASE q = "whPay"
    <3>1. req'[r].pc = "whPay" /\ req'[r].intent = req[r].intent
      BY <1>0, <2>1, <2>3, GotoMoves DEF PInv, PC
    <3>2. PaymentsOf(req[r].intent) = {}
      BY <1>1, <1>10, <3>1 DEF WebhookFind, Goto, Idle
    <3>3. UNCHANGED <<payments, intents>>
      BY <1>10 DEF WebhookFind
    <3>. QED
      BY <3>1, <3>2, <3>3
         DEF OneAtATime, SerialInv, StillMissing, OneIntentPerKey, OnePaymentPerIntent, PaymentsOf
  <2>. QED
    BY <2>1, <2>2, <2>3
<1>11. ASSUME NEW r \in Requests, WebhookPay(r)
       PROVE  Goal
  <2>. DEFINE row == Momo(intents[req[r].intent].amount, req[r].intent)
  <2>1. /\ req[r].pc = "whPay" /\ req'[r].pc = "settleRead"
        /\ intents' = intents /\ Record(<<row>>)
    BY <1>0, <1>11, GotoMoves DEF WebhookPay, PInv, PC
  <2>2. req[r].intent \in Intents /\ intents[req[r].intent].amount \in Amounts
    BY <1>0, <2>1 DEF PInv, Carried, OfIntent, IntentRows
  <2>3. row \in PaymentRows /\ row.intent = req[r].intent
    BY <2>2 DEF Momo, PaymentRows
  <2>. HIDE DEF row
  <2>4. <<row>> \in Seq(PaymentRows) /\ DOMAIN <<row>> = {1} /\ <<row>>[1] = row
    BY <2>3
  <2>5. /\ \A n \in DOMAIN payments : payments'[n] = payments[n]
        /\ \A n \in DOMAIN payments' \ DOMAIN payments :
               n - Len(payments) = 1 /\ payments'[n] = row
    BY ZenonT(60), <1>0, <2>1, <2>4, Appends
  <2>6. \A n \in DOMAIN payments' : n \in Int
    <3>1. payments' \in Seq(PaymentRows)
      BY <1>0, <2>1, <2>4 DEF Record
    <3>. QED
      BY <3>1
  <2>7. \A n \in DOMAIN payments : payments[n].intent # req[r].intent
    BY <2>1 DEF SerialInv, StillMissing, PaymentsOf
  <2>8. ASSUME NEW m \in DOMAIN payments', NEW n \in DOMAIN payments',
               payments'[m].intent = payments'[n].intent, payments'[m].intent # None
        PROVE  m = n
    <3>0. Len(payments) \in Nat
      BY <1>0
    <3>1. CASE m \in DOMAIN payments /\ n \in DOMAIN payments
      BY <2>5, <2>8, <3>1 DEF SerialInv, OnePaymentPerIntent
    <3>2. CASE m \notin DOMAIN payments /\ n \notin DOMAIN payments
      BY <2>5, <2>6, <3>0, <3>2
    <3>. QED
      BY <2>3, <2>5, <2>7, <2>8, <3>1, <3>2
  <2>9. OnePaymentPerIntent'
    BY <2>8 DEF OnePaymentPerIntent
  <2>. QED
    BY <2>1, <2>9 DEF OneAtATime, SerialInv, StillMissing, OneIntentPerKey
\* A close and a manual payment add rows of no intent.
<1>12. ASSUME NEW r \in Requests, NEW ps \in Seq(PaymentRows), Record(ps), intents' = intents,
              \A n \in DOMAIN ps : ps[n].intent = None,
              req'[r].pc \notin {"createIntent", "whPay"}
       PROVE  Goal
  <2>1. /\ DOMAIN payments \subseteq DOMAIN payments'
        /\ \A n \in DOMAIN payments : payments'[n] = payments[n]
        /\ \A n \in DOMAIN payments' \ DOMAIN payments : payments'[n].intent = None
    BY <1>0, <1>12, Appends
  <2>. QED
    BY <1>12, <2>1, Serially
<1>13. ASSUME NEW r \in Requests, CloseWrite(r)
       PROVE  Goal
  <2>0. req[r].cash \in Amounts /\ req[r].momo \in Amounts
    BY <1>1 DEF SlotsOver
  <2>1. /\ Cash(req[r].cash) \in PaymentRows /\ Cash(req[r].cash).intent = None
        /\ Momo(req[r].momo, None) \in PaymentRows /\ Momo(req[r].momo, None).intent = None
    BY <2>0 DEF Cash, Momo, PaymentRows
  <2>. DEFINE ps == Used(Cash(req[r].cash)) \o Used(Momo(req[r].momo, None))
  <2>2. ps \in Seq(PaymentRows) /\ \A n \in DOMAIN ps : ps[n].intent = None
    BY <2>1 DEF Used
  <2>3. Record(ps) /\ intents' = intents /\ req'[r].pc = "idle"
    BY <1>0, <1>13, GotoMoves DEF CloseWrite, PInv, PC
  <2>. HIDE DEF ps
  <2>. QED
    BY <1>12, <2>2, <2>3
<1>14. ASSUME NEW r \in Requests, ManualPay(r)
       PROVE  Goal
  <2>0. req[r].cash \in Amounts /\ req[r].ref \in Refs \cup {None}
    BY <1>1 DEF SlotsOver
  <2>. DEFINE ps == <<Manual(req[r].cash, req[r].ref)>>
  <2>1. ps \in Seq(PaymentRows) /\ \A n \in DOMAIN ps : ps[n].intent = None
    BY <2>0 DEF Manual, PaymentRows
  <2>2. Record(ps) /\ intents' = intents /\ req'[r].pc = "settleRead"
    BY <1>0, <1>14, GotoMoves DEF ManualPay, PInv, PC
  <2>. HIDE DEF ps
  <2>. QED
    BY <1>12, <2>1, <2>2
<1>15. CASE UNCHANGED <<payments, intents, req>>
  BY <1>15 DEF SerialInv, StillMissing, OneIntentPerKey, OnePaymentPerIntent, PaymentsOf
<1>. QED
  BY <1>3, <1>4, <1>5, <1>7, <1>8, <1>9, <1>10, <1>11, <1>13, <1>14, <1>15
     DEF Next, Proceed, ChangeTotal, Serve, VoidOrder, Decide, vars

\* SerialInv is inductive, and holds when requests do not overlap.
LEMMA SerialInvariance == ASSUME OneAtATime PROVE Spec => []SerialInv
<1>1. SerialInv /\ [Next]_vars => SerialInv'
  BY PInvStep, SerialStep DEF SerialInv
<1>. QED
  BY InitSerial, <1>1, PTL DEF Spec

-----------------------------------------------------------------------------

\* A webhook that comes again records no second payment of its intent, when it
\* does not overlap the first (the search in processWebhook).
THEOREM WebhooksPayOnce == ASSUME OneAtATime PROVE Spec => []OnePaymentPerIntent
<1>1. SerialInv => OnePaymentPerIntent
  BY DEF SerialInv
<1>. QED
  BY <1>1, SerialInvariance, PTL

\* The provider is asked once for a key, when requests that use it do not overlap
\* (the search in createPaymentIntent).
THEOREM KeysChargeOnce == ASSUME OneAtATime PROVE Spec => []OneChargePerKey
<1>1. SerialInv => OneChargePerKey
  BY DEF SerialInv, OneIntentPerKey, OneChargePerKey
<1>. QED
  BY <1>1, SerialInvariance, PTL

-----------------------------------------------------------------------------
(* The types, the sum of the payments among them                           *)

\* What some rows come to; Paid is what all of them do.
AmountsOf(rows) == FoldSeq(LAMBDA p, sum : p.amount + sum, 0, rows)

LEMMA AmountsAreNatural ==
  ASSUME NEW rows \in Seq(PaymentRows)
  PROVE  /\ IsFiniteSet(DOMAIN rows)
         /\ \A i \in DOMAIN rows : [j \in DOMAIN rows |-> rows[j].amount][i] \in Nat
         /\ AmountsOf(rows) = WSum([i \in DOMAIN rows |-> rows[i].amount], DOMAIN rows)
         /\ AmountsOf(rows) \in Nat
<1>. DEFINE D == DOMAIN rows
            w == [i \in DOMAIN rows |-> rows[i].amount]
            Step(g) == g = [s \in SUBSET DOMAIN rows |->
                               IF s = {} THEN 0
                               ELSE rows[Pick(s)].amount + g[s \ {Pick(s)}]]
            f == CHOOSE g : Step(g)
<1>1. AmountsOf(rows) = f[DOMAIN rows]
  BY DEF AmountsOf, FoldSeq, FoldFunction, FoldFunctionOnSet, MapThenFoldSet, Pick
<1>3. IsFiniteSet(D)
  <2>1. D = 1..Len(rows) /\ Len(rows) \in Nat
    OBVIOUS
  <2>. QED
    BY <2>1, FS_Interval
<1>4. \A x \in D : w[x] \in Nat
  <2>1. \A x \in D : rows[x] \in PaymentRows
    OBVIOUS
  <2>2. \A p \in PaymentRows : p.amount \in Nat
    BY DEF PaymentRows, Amounts
  <2>. QED
    BY <2>1, <2>2
<1>5. ASSUME NEW g
      PROVE  Step(g) <=> Summing(g, w, D)
  <2>1. \A s \in SUBSET D : s # {} => w[Pick(s)] = rows[Pick(s)].amount
    BY PickIn
  <2>. QED
    BY <2>1 DEF Summing
<1>. HIDE DEF D, w, Step
<1>6. PICK g : Summing(g, w, D)
  <2>1. \A x \in D : w[x] \in Int
    BY <1>4
  <2>. QED
    BY <1>3, <2>1, SummingExists
<1>7. Step(f)
  BY <1>5, <1>6
<1>8. Summing(f, w, D)
  BY <1>5, <1>7
<1>. HIDE DEF f
<1>9. f[D] = WSum(w, D)
  BY <1>3, <1>8, WSumIs
<1>10. WSum(w, D) \in Nat
  BY <1>3, <1>4, WSumNat
<1>. QED
  BY <1>1, <1>3, <1>4, <1>9, <1>10 DEF D, w

LEMMA PaidIs == Paid = AmountsOf(payments)
BY DEF Paid, AmountsOf

LEMMA PaidNext == (Paid = AmountsOf(payments))'
BY PaidIs, PTL

LEMMA PaidIsNatural == ASSUME Typed PROVE Paid \in Nat
<1>1. payments \in Seq(PaymentRows)
  BY DEF Typed
<1>. QED
  BY <1>1, AmountsAreNatural, PaidIs

LEMMA PaidStays == ASSUME payments' = payments PROVE Paid' = Paid
BY PaidIs, PaidNext

\* What Typed leaves open.
Counted ==
    /\ served \in BOOLEAN
    /\ \A r \in Requests : req[r].paid \in Nat
    /\ webhooks \in 0..MaxWebhooks /\ crashes \in 0..MaxCrashes

LEMMA TypedAndCounted == ASSUME Typed, Counted PROVE TypeOK
<1>1. PICK Sums : req \in [Requests -> SlotsOver(Sums)]
  BY DEF Typed
<1>2. ASSUME NEW r \in Requests
      PROVE  req[r] \in SlotsOver(Nat)
  BY <1>1 DEF SlotsOver, Counted
<1>3. req \in [Requests -> SlotsOver(Nat)]
  BY <1>1, <1>2
<1>. QED
  BY <1>3 DEF Typed, Counted, TypeOK, SlotsOver, PaymentRows, IntentRows

LEMMA InitCounted == Init => Counted
<1>1. Init => \A r \in Requests : req[r].paid = 0
  BY DEF Init, Idle
<1>2. 0 \in 0..MaxWebhooks /\ 0 \in 0..MaxCrashes /\ 0 \in Nat
  OBVIOUS
<1>3. Init => served = FALSE /\ webhooks = 0 /\ crashes = 0
  BY DEF Init
<1>. QED
  BY <1>1, <1>2, <1>3 DEF Counted

\* Only a close reads the payments' sum into its slot; the others keep what
\* they carry or forget it.
LEMMA CountedStep == ASSUME PInv, Counted, [Next]_vars PROVE Counted'
<1>. USE DEF PInv
<1>1. PICK Sums : req \in [Requests -> SlotsOver(Sums)]
  BY DEF Typed
<1>2. ASSUME NEW r \in Requests, NEW x, req' = [req EXCEPT ![r] = x], x.paid \in Nat
      PROVE  \A q \in Requests : req'[q].paid \in Nat
  BY <1>1, <1>2 DEF Counted
<1>3. \A r \in Requests : req[r].paid \in Nat /\ [req[r] EXCEPT !.pc = "idle"].paid = req[r].paid
  BY <1>1 DEF Counted, SlotsOver
<1>4. Idle.paid \in Nat
  BY DEF Idle
<1>5. ASSUME NEW r \in Requests, NEW p, NEW q, Goto(r, p, q)
      PROVE  \A u \in Requests : req'[u].paid \in Nat
  <2>1. [req[r] EXCEPT !.pc = q].paid = req[r].paid
    BY <1>1 DEF SlotsOver
  <2>. QED
    BY <1>2, <1>3, <1>4, <1>5, <2>1 DEF Goto
<1>6. ASSUME NEW r \in Requests, Arrive(r)
      PROVE  Counted'
  <2>1. \A u \in Requests : req'[u].paid \in Nat
    <3>1. ASSUME NEW cash \in Amounts, NEW momo \in Amounts, CloseRead(r, cash, momo)
          PROVE  \A u \in Requests : req'[u].paid \in Nat
      <4>. DEFINE d == [Idle EXCEPT !.pc = "closeMomo", !.cash = cash, !.momo = momo,
                                    !.total = order.total, !.paid = Paid]
      <4>1. d.paid = Paid
        BY DEF Idle
      <4>2. req' = [req EXCEPT ![r] = d]
        BY <3>1 DEF CloseRead, Start
      <4>. HIDE DEF d
      <4>. QED
        BY <1>2, <4>1, <4>2, PaidIsNatural
    <3>2. CASE ~ \E cash, momo \in Amounts : CloseRead(r, cash, momo)
      <4>1. \E d : Start(r, d) /\ d.paid = 0
        <5>1. ASSUME NEW k, NEW a, IntentRead(r, k, a)
              PROVE  \E d : Start(r, d) /\ d.paid = 0
          <6>1. [Idle EXCEPT !.pc = "findKey", !.key = k, !.momo = a].paid = 0
            BY DEF Idle
          <6>. QED
            BY <5>1, <6>1 DEF IntentRead
        <5>2. ASSUME NEW i, CancelRead(r, i)
              PROVE  \E d : Start(r, d) /\ d.paid = 0
          <6>1. [Idle EXCEPT !.pc = "cancelWrite", !.intent = i].paid = 0
            BY DEF Idle
          <6>. QED
            BY <5>2, <6>1 DEF CancelRead
        <5>3. ASSUME NEW i, NEW s, Webhook(r, i, s)
              PROVE  \E d : Start(r, d) /\ d.paid = 0
          <6>1. [Idle EXCEPT !.pc = "whIntent", !.intent = i, !.status = s].paid = 0
            BY DEF Idle
          <6>. QED
            BY <5>3, <6>1 DEF Webhook
        <5>4. ASSUME NEW x, NEW a, ManualRead(r, x, a)
              PROVE  \E d : Start(r, d) /\ d.paid = 0
          <6>1. [Idle EXCEPT !.pc = "manualFind", !.ref = x, !.cash = a].paid = 0
            BY DEF Idle
          <6>. QED
            BY <5>4, <6>1 DEF ManualRead
        <5>. QED
          BY <1>6, <3>2, <5>1, <5>2, <5>3, <5>4 DEF Arrive
      <4>2. PICK d : Start(r, d) /\ d.paid = 0
        BY <4>1
      <4>3. req' = [req EXCEPT ![r] = d] /\ d.paid \in Nat
        BY <4>2 DEF Start
      <4>. QED
        BY <1>2, <4>3
    <3>. QED
      BY <3>1, <3>2
  <2>2. served' = served /\ crashes' = crashes /\ webhooks' \in 0..MaxWebhooks
    <3>1. ASSUME NEW i, NEW s, Webhook(r, i, s)
          PROVE  served' = served /\ crashes' = crashes /\ webhooks' \in 0..MaxWebhooks
      BY <3>1 DEF Webhook, Counted
    <3>2. CASE ~ \E i \in Intents, s \in IntentStatus : Webhook(r, i, s)
      <4>1. served' = served /\ crashes' = crashes /\ webhooks' = webhooks
        BY <1>6, <3>2 DEF Arrive, CloseRead, IntentRead, CancelRead, ManualRead
      <4>. QED
        BY <4>1 DEF Counted
    <3>. QED
      BY <3>1, <3>2
  <2>. QED
    BY <2>1, <2>2 DEF Counted
<1>7. ASSUME NEW r \in Requests, Proceed(r)
      PROVE  Counted'
  <2>1. CASE \E i \in Intents : CreateIntent(r, i)
    <3>1. PICK i \in Intents : CreateIntent(r, i)
      BY <2>1
    <3>2. [req[r] EXCEPT !.pc = "requestToPay", !.intent = i].paid = req[r].paid
      BY <1>1 DEF SlotsOver
    <3>3. \A u \in Requests : req'[u].paid \in Nat
      BY <1>2, <1>3, <3>1, <3>2 DEF CreateIntent
    <3>. QED
      BY <3>1, <3>3 DEF CreateIntent, Counted
  <2>2. CASE SettleTotal(r)
    <3>1. [req[r] EXCEPT !.pc = "settleBalance", !.total = order.total].paid = req[r].paid
      BY <1>1 DEF SlotsOver
    <3>2. \A u \in Requests : req'[u].paid \in Nat
      BY <1>2, <1>3, <2>2, <3>1 DEF SettleTotal
    <3>. QED
      BY <2>2, <3>2 DEF SettleTotal, Counted
  <2>3. CASE ~ ((\E i \in Intents : CreateIntent(r, i)) \/ SettleTotal(r))
    <3>1. /\ \E p, q : Goto(r, p, q)
          /\ served' = served /\ webhooks' = webhooks /\ crashes' = crashes
      BY <1>7, <2>3 DEF Proceed, CloseMomo, CloseIntents, CloseWrite, FindKey, RequestToPay,
          FailIntent, CancelWrite, WebhookIntent, WebhookFind, WebhookPay, ManualFind, ManualPay,
          SettleRead, SettleBalance, SettleWrite
    <3>. QED
      BY <1>5, <3>1 DEF Counted
  <2>. QED
    BY <2>1, <2>2, <2>3
<1>8. ASSUME NEW r \in Requests, Crash(r)
      PROVE  Counted'
  <2>1. \A u \in Requests : req'[u].paid \in Nat
    BY <1>2, <1>4, <1>8 DEF Crash
  <2>2. served' = served /\ webhooks' = webhooks /\ crashes' \in 0..MaxCrashes
    BY <1>8 DEF Crash, Counted
  <2>. QED
    BY <2>1, <2>2 DEF Counted
<1>9. CASE (\E v \in 0..MaxTotal : ChangeTotal(v)) \/ Serve \/ VoidOrder
           \/ (\E i \in Intents : Decide(i)) \/ UNCHANGED vars
  BY <1>9 DEF ChangeTotal, Serve, VoidOrder, Decide, vars, Counted
<1>. QED
  BY <1>6, <1>7, <1>8, <1>9 DEF Next

\* The order, its payments, intents and charges, and what every request of
\* PaymentsService carries between its calls, keep their types; the sum of the
\* payments that a close carries is a natural number.
THEOREM PaymentsTypes == Spec => []TypeOK
<1>1. Init => PInv /\ Counted
  BY InitPInv, InitCounted
<1>2. (PInv /\ Counted) /\ [Next]_vars => (PInv /\ Counted)'
  BY PInvStep, CountedStep
<1>3. PInv /\ Counted => TypeOK
  BY TypedAndCounted DEF PInv
<1>. QED
  BY <1>1, <1>2, <1>3, PTL DEF Spec

-----------------------------------------------------------------------------
(* Closing                                                                 *)

\* A row that is added adds its amount.
LEMMA AmountsAppend ==
  ASSUME NEW rows \in Seq(PaymentRows), NEW row \in PaymentRows
  PROVE  /\ Append(rows, row) \in Seq(PaymentRows)
         /\ AmountsOf(Append(rows, row)) = AmountsOf(rows) + row.amount
<1>. DEFINE more == Append(rows, row)
            D == DOMAIN rows
            n == Len(rows) + 1
            w == [i \in DOMAIN rows |-> rows[i].amount]
            v == [i \in DOMAIN more |-> more[i].amount]
<1>1. /\ more \in Seq(PaymentRows)
      /\ \A i \in D : more[i] = rows[i]
      /\ more[n] = row
      /\ n \notin D /\ DOMAIN more = D \cup {n}
  OBVIOUS
<1>2. /\ IsFiniteSet(D)
      /\ \A i \in D : w[i] \in Nat
      /\ AmountsOf(rows) = WSum(w, D) /\ AmountsOf(rows) \in Nat
  BY AmountsAreNatural
<1>3. \A i \in DOMAIN more : v[i] \in Nat
  BY <1>1, AmountsAreNatural
<1>4. AmountsOf(more) = WSum(v, DOMAIN more)
  BY <1>1, AmountsAreNatural
<1>5. (\A i \in D : v[i] = w[i]) /\ v[n] = row.amount
  BY <1>1
<1>. HIDE DEF more, D, n, w, v
<1>6. WSum(v, D \cup {n}) = WSum(w, D) + v[n]
  <2>1. (\A i \in D : w[i] \in Int /\ v[i] = w[i]) /\ v[n] \in Int
    BY <1>1, <1>2, <1>3, <1>5
  <2>. QED
    BY <1>1, <1>2, <2>1, WSumAdd
<1>. QED
  BY <1>1, <1>2, <1>4, <1>5, <1>6 DEF more

\* The rows of a close add what it takes: a method that is not used has no row
\* and no amount.
LEMMA CloseAdds ==
  ASSUME PInv, NEW c \in Amounts, NEW m \in Amounts,
         Record(Used(Cash(c)) \o Used(Momo(m, None)))
  PROVE  Paid' = Paid + c + m
<1>1. payments \in Seq(PaymentRows)
  BY DEF PInv, Typed
<1>2. /\ Cash(c) \in PaymentRows /\ Cash(c).amount = c
      /\ Momo(m, None) \in PaymentRows /\ Momo(m, None).amount = m
  BY DEF Cash, Momo, PaymentRows
<1>. DEFINE one == IF c > 0 THEN Append(payments, Cash(c)) ELSE payments
            two == IF m > 0 THEN Append(one, Momo(m, None)) ELSE one
<1>3. AmountsOf(payments) \in Nat /\ c \in Nat /\ m \in Nat
  <2>1. AmountsOf(payments) \in Nat
    BY <1>1, AmountsAreNatural
  <2>. QED
    BY <2>1 DEF Amounts
<1>4. one \in Seq(PaymentRows) /\ AmountsOf(one) = AmountsOf(payments) + c
  BY <1>1, <1>2, <1>3, AmountsAppend
<1>5. two = payments \o (Used(Cash(c)) \o Used(Momo(m, None)))
  <2>. DEFINE x == Cash(c)
              y == Momo(m, None)
  <2>1. /\ Used(x) = IF c > 0 THEN <<x>> ELSE <<>>
        /\ Used(y) = IF m > 0 THEN <<y>> ELSE <<>>
    BY <1>2 DEF Used
  <2>2. x \in PaymentRows /\ y \in PaymentRows
    BY <1>2
  <2>. HIDE DEF x, y
  <2>3. /\ payments \o (<<x>> \o <<y>>) = Append(Append(payments, x), y)
        /\ payments \o (<<x>> \o <<>>) = Append(payments, x)
        /\ payments \o (<<>> \o <<y>>) = Append(payments, y)
        /\ payments \o (<<>> \o <<>>) = payments
    BY <1>1, <2>2
  <2>4. two = IF m > 0 THEN Append(IF c > 0 THEN Append(payments, x) ELSE payments, y)
                       ELSE IF c > 0 THEN Append(payments, x) ELSE payments
    BY DEF x, y
  <2>. HIDE DEF two, one
  <2>. QED
    BY <2>1, <2>3, <2>4 DEF x, y
<1>. HIDE DEF one
<1>6. AmountsOf(two) = AmountsOf(one) + m
  BY <1>2, <1>3, <1>4, AmountsAreNatural, AmountsAppend
<1>7. payments' = two
  BY <1>5 DEF Record
<1>. HIDE DEF two
<1>8. Paid' = AmountsOf(two) /\ Paid = AmountsOf(payments)
  BY <1>7, PaidIs, PaidNext
<1>. QED
  BY <1>3, <1>4, <1>6, <1>8

Closing == {"closeMomo", "closeIntents", "closeWrite"}

\* What a close read is still so while nothing overlaps it, and what it is
\* about to write is covered.
Covered ==
    \A r \in Requests :
        /\ req[r].pc \in Closing => req[r].total = order.total /\ req[r].paid = Paid
        /\ req[r].pc = "closeWrite" => req[r].paid + req[r].cash + req[r].momo >= req[r].total
        /\ req[r].pc = "settleBalance" => req[r].total = order.total
        /\ req[r].pc = "settleWrite" => Paid >= order.total

CloseInv == PInv /\ Covered

LEMMA InitCovered == Init => Covered
<1>1. Init => \A r \in Requests : req[r].pc = "idle"
  BY DEF Init, Idle
<1>. QED
  BY <1>1 DEF Covered, Closing

LEMMA CoveredStep == ASSUME OneAtATime, CloseInv, [Next]_vars PROVE Covered'
<1>0. PInv
  BY DEF CloseInv
<1>1. PICK Sums : req \in [Requests -> SlotsOver(Sums)]
  BY <1>0 DEF PInv, Typed
\* The slot's next call carries no sum.
<1>2. ASSUME NEW r \in Requests,
             req'[r].pc \notin Closing \cup {"settleBalance", "settleWrite"}
      PROVE  Covered'
  BY <1>2 DEF OneAtATime, Covered, Closing
<1>3. ASSUME NEW r \in Requests, NEW cash \in Amounts, NEW momo \in Amounts,
             CloseRead(r, cash, momo)
      PROVE  Covered'
  <2>. DEFINE d == [Idle EXCEPT !.pc = "closeMomo", !.cash = cash, !.momo = momo,
                                !.total = order.total, !.paid = Paid]
  <2>1. d.pc = "closeMomo" /\ d.total = order.total /\ d.paid = Paid
    BY DEF Idle
  <2>2. req'[r] = d
    BY <1>1, <1>3 DEF CloseRead, Start
  <2>. HIDE DEF d
  <2>3. order' = order /\ Paid' = Paid
    BY <1>3, PaidStays DEF CloseRead
  <2>. QED
    BY <2>1, <2>2, <2>3 DEF OneAtATime, Covered, Closing
<1>4. ASSUME NEW r \in Requests, Arrive(r)
      PROVE  Covered'
  <2>1. CASE \E cash, momo \in Amounts : CloseRead(r, cash, momo)
    BY <1>3, <2>1
  <2>2. CASE ~ \E cash, momo \in Amounts : CloseRead(r, cash, momo)
    <3>1. PICK d : /\ Start(r, d)
                   /\ d.pc \in {"findKey", "cancelWrite", "whIntent", "manualFind"}
      <4>1. ASSUME NEW k, NEW a, IntentRead(r, k, a)
            PROVE  \E d : Start(r, d) /\ d.pc = "findKey"
        <5>1. [Idle EXCEPT !.pc = "findKey", !.key = k, !.momo = a].pc = "findKey"
          BY DEF Idle
        <5>. QED
          BY <4>1, <5>1 DEF IntentRead
      <4>2. ASSUME NEW i, CancelRead(r, i)
            PROVE  \E d : Start(r, d) /\ d.pc = "cancelWrite"
        <5>1. [Idle EXCEPT !.pc = "cancelWrite", !.intent = i].pc = "cancelWrite"
          BY DEF Idle
        <5>. QED
          BY <4>2, <5>1 DEF CancelRead
      <4>3. ASSUME NEW i, NEW s, Webhook(r, i, s)
            PROVE  \E d : Start(r, d) /\ d.pc = "whIntent"
        <5>1. [Idle EXCEPT !.pc = "whIntent", !.intent = i, !.status = s].pc = "whIntent"
          BY DEF Idle
        <5>. QED
          BY <4>3, <5>1 DEF Webhook
      <4>4. ASSUME NEW x, NEW a, ManualRead(r, x, a)
            PROVE  \E d : Start(r, d) /\ d.pc = "manualFind"
        <5>1. [Idle EXCEPT !.pc = "manualFind", !.ref = x, !.cash = a].pc = "manualFind"
          BY DEF Idle
        <5>. QED
          BY <4>4, <5>1 DEF ManualRead
      <4>. QED
        BY <1>4, <2>2, <4>1, <4>2, <4>3, <4>4 DEF Arrive
    <3>2. req'[r] = d
      BY <1>1, <3>1 DEF Start
    <3>. QED
      BY <1>2, <3>1, <3>2 DEF Closing
  <2>. QED
    BY <2>1, <2>2
\* A close goes on with what it read ...
<1>5. ASSUME NEW r \in Requests, CloseMomo(r) \/ CloseIntents(r)
      PROVE  Covered'
  <2>1. order' = order /\ Paid' = Paid
    BY <1>5, PaidStays DEF CloseMomo, CloseIntents
  <2>2. PICK p, q : /\ Goto(r, p, q) /\ p \in Closing
                    /\ q \in {"idle", "closeIntents", "closeWrite"}
                    /\ q = "closeWrite" => CloseAllowed(r)
    BY <1>5 DEF CloseMomo, CloseIntents, Closing
  <2>3. CASE q = "idle"
    <3>1. req'[r].pc = "idle"
      BY <1>0, <2>2, <2>3, GotoMoves DEF PInv, PC
    <3>. QED
      BY <1>2, <3>1 DEF Closing
  <2>4. CASE q # "idle"
    <3>1. req'[r] = [req[r] EXCEPT !.pc = q] /\ req[r].pc = p
      BY <1>1, <2>2, <2>4 DEF Goto
    <3>2. /\ req'[r].pc = q /\ req'[r].total = req[r].total /\ req'[r].paid = req[r].paid
          /\ req'[r].cash = req[r].cash /\ req'[r].momo = req[r].momo
      BY <1>1, <3>1 DEF SlotsOver
    <3>3. req[r].total = order.total /\ req[r].paid = Paid
      BY <2>2, <3>1 DEF CloseInv, Covered
    <3>4. q = "closeWrite" => req[r].paid + req[r].cash + req[r].momo >= req[r].total
      BY <2>2 DEF CloseAllowed
    <3>. QED
      BY <2>1, <2>2, <3>2, <3>3, <3>4, <2>4 DEF OneAtATime, Covered, Closing
  <2>. QED
    BY <2>3, <2>4
\* ... and so does the automatic close.
<1>6. ASSUME NEW r \in Requests, SettleTotal(r)
      PROVE  Covered'
  <2>1. req'[r] = [req[r] EXCEPT !.pc = "settleBalance", !.total = order.total]
    BY <1>1, <1>6 DEF SettleTotal
  <2>2. req'[r].pc = "settleBalance" /\ req'[r].total = order.total
    BY <1>1, <2>1 DEF SlotsOver
  <2>3. order' = order
    BY <1>6 DEF SettleTotal
  <2>. QED
    BY <2>2, <2>3 DEF OneAtATime, Covered, Closing
<1>7. ASSUME NEW r \in Requests, SettleBalance(r)
      PROVE  Covered'
  <2>1. PICK q \in {"idle", "settleWrite"} : /\ Goto(r, "settleBalance", q)
                                             /\ q = "settleWrite" => Paid >= req[r].total
    BY <1>7 DEF SettleBalance
  <2>2. req[r].pc = "settleBalance" /\ req'[r].pc = q
    BY <1>0, <2>1, GotoMoves DEF PInv, PC
  <2>3. req[r].total = order.total
    BY <2>2 DEF CloseInv, Covered
  <2>4. order' = order /\ Paid' = Paid
    BY <1>7, PaidStays DEF SettleBalance
  <2>. QED
    BY <2>1, <2>2, <2>3, <2>4 DEF OneAtATime, Covered, Closing
\* The other calls of a request.
<1>8. ASSUME NEW r \in Requests, Proceed(r),
             ~ (CloseMomo(r) \/ CloseIntents(r) \/ SettleTotal(r) \/ SettleBalance(r))
      PROVE  Covered'
  <2>1. CASE \E i \in Intents : CreateIntent(r, i)
    <3>1. req'[r].pc = "requestToPay"
      BY <1>1, <2>1 DEF CreateIntent, SlotsOver
    <3>. QED
      BY <1>2, <3>1 DEF Closing
  <2>2. CASE ~ \E i \in Intents : CreateIntent(r, i)
    <3>1. PICK p \in PC, q \in PC \ (Closing \cup {"settleBalance", "settleWrite"}) :
              Goto(r, p, q)
      BY <1>8, <2>2 DEF Proceed, CloseWrite, FindKey, RequestToPay, FailIntent, CancelWrite,
             WebhookIntent, WebhookFind, WebhookPay, ManualFind, ManualPay, SettleRead,
             SettleWrite, PC, Closing
    <3>2. req'[r].pc = q
      BY <1>0, <3>1, GotoMoves DEF PInv
    <3>. QED
      BY <1>2, <3>1, <3>2
  <2>. QED
    BY <2>1, <2>2
<1>9. ASSUME NEW r \in Requests, Crash(r)
      PROVE  Covered'
  <2>1. req'[r].pc = "idle"
    BY <1>1, <1>9 DEF Crash, Idle
  <2>. QED
    BY <1>2, <2>1 DEF Closing
\* The order changes only while no request is in progress.
<1>10. ASSUME Free, req' = req
       PROVE  Covered'
  <2>1. PICK r \in Requests : req[r] = Idle
    BY <1>10 DEF Free
  <2>2. req'[r].pc = "idle"
    BY <1>10, <2>1 DEF Idle
  <2>. QED
    BY <1>2, <2>2 DEF Closing
<1>11. CASE (\E v \in 0..MaxTotal : ChangeTotal(v)) \/ Serve \/ VoidOrder
  BY <1>10, <1>11 DEF ChangeTotal, Serve, VoidOrder
<1>12. CASE (\E i \in Intents : Decide(i)) \/ UNCHANGED vars
  <2>1. req' = req /\ order' = order /\ payments' = payments
    BY <1>12 DEF Decide, vars
  <2>. QED
    BY <2>1, PaidStays DEF CloseInv, Covered
<1>. QED
  BY <1>4, <1>5, <1>6, <1>7, <1>8, <1>9, <1>11, <1>12 DEF Next

\* Only two writes close an order, and each is covered.
LEMMA CloseStep ==
  ASSUME CloseInv, [Next]_vars, order.status # "CLOSED", order'.status = "CLOSED"
  PROVE  Paid' >= order'.total
<1>0. PInv /\ order \in [status : OrderStatus, total : 0..MaxTotal]
  BY DEF CloseInv, PInv, Typed
<1>1. PICK Sums : req \in [Requests -> SlotsOver(Sums)]
  BY <1>0 DEF PInv, Typed
<1>2. ASSUME NEW r \in Requests, CloseWrite(r)
      PROVE  Paid' >= order'.total
  <2>1. req[r].pc = "closeWrite" /\ req[r].cash \in Amounts /\ req[r].momo \in Amounts
    BY <1>1, <1>2 DEF CloseWrite, Goto, SlotsOver
  <2>2. /\ req[r].paid = Paid /\ req[r].total = order.total
        /\ req[r].paid + req[r].cash + req[r].momo >= req[r].total
    BY <2>1 DEF CloseInv, Covered, Closing
  <2>3. Paid' = Paid + req[r].cash + req[r].momo
    BY <1>0, <1>2, <2>1, CloseAdds DEF CloseWrite
  <2>4. order'.total = order.total
    BY <1>0, <1>2 DEF CloseWrite
  <2>. QED
    BY <2>2, <2>3, <2>4
<1>3. ASSUME NEW r \in Requests, SettleWrite(r)
      PROVE  Paid' >= order'.total
  <2>1. req[r].pc = "settleWrite" /\ payments' = payments /\ order'.total = order.total
    BY <1>0, <1>3 DEF SettleWrite, Goto
  <2>2. Paid >= order.total
    BY <2>1 DEF CloseInv, Covered
  <2>. QED
    BY <2>1, <2>2, PaidStays
<1>4. (\E r \in Requests : CloseWrite(r) \/ SettleWrite(r))
  <2>1. order' # order
    OBVIOUS
  <2>2. ~ UNCHANGED vars /\ ~ (\E i \in Intents : Decide(i))
    BY <2>1 DEF vars, Decide
  <2>3. ~ ((\E v \in 0..MaxTotal : ChangeTotal(v)) \/ Serve \/ VoidOrder)
    BY <1>0 DEF ChangeTotal, Serve, VoidOrder
  <2>4. ASSUME NEW r \in Requests
        PROVE  ~ Crash(r) /\ ~ Arrive(r)
    BY <2>1 DEF Crash, Arrive, CloseRead, IntentRead, CancelRead, Webhook, ManualRead
  <2>5. ASSUME NEW r \in Requests, Proceed(r)
        PROVE  CloseWrite(r) \/ SettleWrite(r)
    BY <2>1, <2>5 DEF Proceed, CloseMomo, CloseIntents, FindKey, CreateIntent, RequestToPay,
           FailIntent, CancelWrite, WebhookIntent, WebhookFind, WebhookPay, ManualFind,
           ManualPay, SettleRead, SettleTotal, SettleBalance
  <2>. QED
    BY <2>2, <2>3, <2>4, <2>5 DEF Next
<1>. QED
  BY <1>2, <1>3, <1>4

\* An order that becomes CLOSED, by closeOrderWithPayment or by
\* autoSettleIfFullyPaid, is covered by its payments at that moment, when the
\* calls of the close are not interleaved with other requests.
THEOREM ClosesArePaid == ASSUME OneAtATime PROVE Spec => CloseIsPaid
<1>1. Init => CloseInv
  BY InitPInv, InitCovered DEF CloseInv
<1>2. CloseInv /\ [Next]_vars => CloseInv'
  BY PInvStep, CoveredStep DEF CloseInv
<1>3. CloseInv /\ [Next]_vars
          => [order.status # "CLOSED" /\ order'.status = "CLOSED" => Paid' >= order'.total]_vars
  BY CloseStep
<1>. QED
  BY <1>1, <1>2, <1>3, PTL DEF Spec, CloseIsPaid

-----------------------------------------------------------------------------
(* The invariant of bank reconciliation                                    *)

\* What the theorems about it assume of the constants.
BankSizes ==
    /\ IsFiniteSet(Lines) /\ LineAmount \in [Lines -> Int]
    /\ MaxRecs \in Nat /\ MaxArrivals \in Nat /\ MaxCrashes \in Nat

BankSlots == [pc : K!PC, rec : 0..MaxRecs, line : Lines \cup {None},
              status : K!RecStatus, count : 0..K!Cardinality(Lines)]
RecRows == [status : K!RecStatus, matched : Int, unmatched : 0..K!Cardinality(Lines)]

OfLine == {"period", "matchLine", "match", "skipLine", "skip"}

\* The call of a request finds its rows.
BankKnown(q) ==
    /\ q.pc \in OfLine \cup {"complete"} => q.rec \in DOMAIN recs
    /\ q.pc \in OfLine => q.line \in Lines

\* What a request that is alone found is so until it writes.
BankFound(q) ==
    /\ q.pc \in {"count", "insert"} => \A i \in DOMAIN recs : recs[i].status = "COMPLETED"
    /\ q.pc = "insert" => q.count = K!Cardinality(K!With("UNMATCHED", line))
    /\ q.pc \in OfLine => recs[q.rec].status # "COMPLETED"
    /\ q.pc \in {"period", "matchLine", "match"} => q.status # "COMPLETED"
    /\ q.pc = "skip" => line[q.line] # "MATCHED"
    /\ q.pc = "complete" =>
           recs[q.rec].status = "IN_PROGRESS" /\ recs[q.rec].matched = StatementBalance

BankAlone == \A r, q \in Clerks : r # q => bankReq[r].pc = "idle" \/ bankReq[q].pc = "idle"

\* BankAgrees, row by row.
Reconciled ==
    \A i \in DOMAIN recs :
        /\ recs[i].status = "COMPLETED" => recs[i].matched = StatementBalance
        /\ recs[i].status # "COMPLETED" => i = Len(recs)
        /\ i = Len(recs) =>
               /\ recs[i].status # "OPEN" => recs[i].matched = K!MatchedTotal(line)
               /\ recs[i].unmatched = K!Cardinality(K!With("UNMATCHED", line))

BankInv ==
    /\ K!TypeOK /\ \A r \in Clerks : BankKnown(bankReq[r])
    /\ ~overlaps => Reconciled /\ BankAlone /\ \A r \in Clerks : BankFound(bankReq[r])

-----------------------------------------------------------------------------
(* Counts and totals of lines                                              *)

LEMMA BankCounts == ASSUME NEW S PROVE K!Cardinality(S) = Cardinality(S)
  BY DEF K!Cardinality, Cardinality

LEMMA LinesCounted ==
  ASSUME BankSizes, NEW C, C \subseteq Lines
  PROVE  K!Cardinality(C) \in 0..K!Cardinality(Lines)
<1>1. Cardinality(C) \in Nat /\ Cardinality(Lines) \in Nat /\ Cardinality(C) <= Cardinality(Lines)
  BY FS_CardinalityType, FS_Subset DEF BankSizes
<1>. QED
  BY <1>1, BankCounts

LEMMA LinesTotal ==
  ASSUME BankSizes, NEW of
  PROVE  K!MatchedTotal(of) \in Int /\ K!MatchedTotal(of) = WSum(LineAmount, K!With("MATCHED", of))
<1>. DEFINE C == K!With("MATCHED", of)
<1>1. C \subseteq Lines /\ IsFiniteSet(C)
  BY FS_Subset DEF K!With, BankSizes
<1>2. \A l \in C : LineAmount[l] \in Int
  BY <1>1 DEF BankSizes
<1>3. PICK f \in [SUBSET C -> Int] : Summing(f, LineAmount, C)
  BY <1>1, <1>2, SummingExists
<1>. HIDE DEF C
<1>. DEFINE Iter(g) == g = [s \in SUBSET C |-> IF s = {} THEN 0
                               ELSE LineAmount[CHOOSE x \in s : TRUE] + g[s \ {CHOOSE x \in s : TRUE}]]
<1>4. K!MatchedTotal(of) = (CHOOSE g : Iter(g))[C]
  BY DEF K!MatchedTotal, K!MapThenSumSet, K!MapThenFoldSet, C
<1>5. \A g : Iter(g) <=> Summing(g, LineAmount, C)
  BY DEF Summing, Pick
<1>. HIDE DEF Iter
<1>6. Summing(CHOOSE g : Iter(g), LineAmount, C)
  BY <1>3, <1>5
<1>7. (CHOOSE g : Iter(g)) = f
  BY <1>1, <1>3, <1>6, SummingUnique
<1>8. WSum(LineAmount, C) = f[C]
  BY <1>1, <1>3, WSumIs
<1>. QED
  BY <1>3, <1>4, <1>7, <1>8 DEF C

-----------------------------------------------------------------------------
(* The steps of bank reconciliation                                        *)

LEMMA BankSlot ==
  ASSUME BankSizes, BankInv, NEW r \in Clerks
  PROVE  /\ bankReq \in [Clerks -> BankSlots] /\ bankReq[r] \in BankSlots
         /\ K!Idle \in BankSlots /\ K!Idle.pc = "idle"
         /\ BankKnown(bankReq[r]) /\ (~overlaps => BankFound(bankReq[r]))
         /\ \A q \in K!PC : LET d == [bankReq[r] EXCEPT !.pc = q] IN
                /\ d \in BankSlots /\ d.pc = q /\ d.rec = bankReq[r].rec /\ d.line = bankReq[r].line
                /\ d.status = bankReq[r].status /\ d.count = bankReq[r].count
<1>1. bankReq \in [Clerks -> BankSlots] /\ bankReq[r] \in BankSlots
  BY DEF BankInv, K!TypeOK, BankSlots
<1>2. 0 \in 0..K!Cardinality(Lines) /\ 0 \in 0..MaxRecs
  BY FS_CardinalityType, BankCounts DEF BankSizes
<1>3. K!Idle \in BankSlots /\ K!Idle.pc = "idle"
  BY <1>2 DEF K!Idle, BankSlots, K!PC, K!RecStatus
<1>4. \A q \in K!PC : LET d == [bankReq[r] EXCEPT !.pc = q] IN
                /\ d \in BankSlots /\ d.pc = q /\ d.rec = bankReq[r].rec /\ d.line = bankReq[r].line
                /\ d.status = bankReq[r].status /\ d.count = bankReq[r].count
  BY <1>1 DEF BankSlots
<1>. QED
  BY <1>1, <1>3, <1>4 DEF BankInv

LEMMA RecFacts ==
  ASSUME BankInv
  PROVE  /\ recs \in Seq(RecRows) /\ Len(recs) \in Nat /\ DOMAIN recs = 1..Len(recs)
         /\ \A i \in DOMAIN recs : recs[i] \in RecRows
         /\ Len(recs) <= MaxRecs /\ line \in [Lines -> K!LineStatus]
<1>1. recs \in Seq(RecRows) /\ Len(recs) <= MaxRecs /\ line \in [Lines -> K!LineStatus]
  BY DEF BankInv, K!TypeOK, RecRows
<1>2. ASSUME NEW S, NEW s \in Seq(S)
      PROVE  DOMAIN s = 1..Len(s) /\ Len(s) \in Nat /\ \A f \in DOMAIN s : s[f] \in S
  BY <1>2
<1>. HIDE DEF RecRows
<1>. QED
  BY <1>1, <1>2

\* Request r comes to its next call and no row changes.
LEMMA BankReads ==
  ASSUME BankSizes, BankInv, NEW r \in Clerks, NEW d \in BankSlots,
         bankReq' = [bankReq EXCEPT ![r] = d], UNCHANGED <<line, recs, locked>>,
         arrived' \in 0..MaxArrivals, bankCrashes' \in 0..MaxCrashes,
         overlaps' \in BOOLEAN, overlaps => overlaps',
         BankKnown(d), ~overlaps' => BankFound(d),
         ~overlaps' /\ d.pc # "idle" => \A q \in Clerks \ {r} : bankReq[q].pc = "idle"
  PROVE  BankInv'
<1>1. /\ bankReq \in [Clerks -> BankSlots] /\ bankReq' \in [Clerks -> BankSlots] /\ bankReq'[r] = d
      /\ \A q \in Clerks \ {r} : bankReq'[q] = bankReq[q]
  BY DEF BankInv, K!TypeOK, BankSlots
<1>2. K!TypeOK'
  BY <1>1 DEF BankInv, K!TypeOK, BankSlots
<1>3. \A q \in Clerks : BankKnown(bankReq[q]) /\ (~overlaps => BankFound(bankReq[q]))
  BY DEF BankInv
<1>4. \A q \in Clerks : BankKnown(bankReq'[q]) /\ (~overlaps' => BankFound(bankReq'[q]))
  BY <1>1, <1>3
<1>5. \A q \in Clerks : BankKnown(bankReq[q])' /\ (~overlaps' => BankFound(bankReq[q])')
  BY <1>4 DEF BankKnown, BankFound
<1>6. ~overlaps' => Reconciled' /\ BankAlone'
  <2>1. ~overlaps' => Reconciled'
    BY DEF BankInv, Reconciled
  <2>2. ~overlaps' => BankAlone'
    BY <1>1 DEF BankInv, BankAlone
  <2>. QED
    BY <2>1, <2>2
<1>. QED
  BY <1>2, <1>5, <1>6 DEF BankInv

\* Request r writes rows and is answered.
LEMMA BankWrites ==
  ASSUME BankSizes, BankInv, NEW r \in Clerks,
         bankReq' = [bankReq EXCEPT ![r] = K!Idle], bankReq[r].pc # "idle",
         UNCHANGED <<locked, overlaps, arrived, bankCrashes>>,
         line' \in [Lines -> K!LineStatus], recs' \in Seq(RecRows), Len(recs') <= MaxRecs,
         DOMAIN recs \subseteq DOMAIN recs',
         ~overlaps => Reconciled'
  PROVE  BankInv'
<1>1. /\ bankReq \in [Clerks -> BankSlots] /\ K!Idle \in BankSlots /\ K!Idle.pc = "idle"
      /\ bankReq' \in [Clerks -> BankSlots] /\ bankReq'[r] = K!Idle
      /\ \A q \in Clerks \ {r} : bankReq'[q] = bankReq[q]
  BY BankSlot
<1>2. K!TypeOK'
  BY <1>1 DEF BankInv, K!TypeOK, BankSlots, RecRows
<1>3. ASSUME NEW q \in Clerks PROVE BankKnown(bankReq[q])'
  <2>1. BankKnown(bankReq[q])
    BY DEF BankInv
  <2>2. bankReq'[q] = bankReq[q] \/ bankReq'[q].pc = "idle"
    BY <1>1
  <2>. QED
    BY <2>1, <2>2 DEF BankKnown, OfLine
<1>4. ASSUME ~overlaps PROVE BankAlone' /\ \A q \in Clerks : BankFound(bankReq[q])'
  <2>1. \A q \in Clerks : bankReq'[q].pc = "idle"
    BY <1>1, <1>4 DEF BankInv, BankAlone
  <2>. QED
    BY <2>1 DEF BankAlone, BankFound, OfLine
<1>. QED
  BY <1>2, <1>3, <1>4 DEF BankInv

LEMMA BankInit == ASSUME BankSizes, K!Init PROVE BankInv
<1>1. 0 \in 0..K!Cardinality(Lines) /\ 0 \in 0..MaxRecs
  BY FS_CardinalityType, BankCounts DEF BankSizes
<1>2. K!Idle \in BankSlots /\ K!Idle.pc = "idle"
  BY <1>1 DEF K!Idle, BankSlots, K!PC, K!RecStatus
<1>3. bankReq \in [Clerks -> BankSlots] /\ \A r \in Clerks : bankReq[r].pc = "idle"
  BY <1>2 DEF K!Init
<1>4. K!TypeOK
  <2>1. line \in [Lines -> K!LineStatus] /\ recs \in Seq(RecRows) /\ Len(recs) <= MaxRecs
    BY DEF K!Init, K!LineStatus, BankSizes
  <2>2. locked \in BOOLEAN /\ overlaps \in BOOLEAN
    BY DEF K!Init
  <2>3. arrived \in 0..MaxArrivals /\ bankCrashes \in 0..MaxCrashes
    BY DEF K!Init, BankSizes
  <2>. QED
    BY <1>3, <2>1, <2>2, <2>3 DEF K!TypeOK, BankSlots, RecRows
<1>5. Reconciled /\ BankAlone /\ \A r \in Clerks : BankKnown(bankReq[r]) /\ BankFound(bankReq[r])
  BY <1>3 DEF K!Init, Reconciled, BankAlone, BankKnown, BankFound, OfLine
<1>. QED
  BY <1>4, <1>5 DEF BankInv

\* A request begins with what it read.
LEMMA BankStarts ==
  ASSUME BankSizes, BankInv, NEW r \in Clerks, NEW d \in BankSlots,
         K!Start(r, d), UNCHANGED <<line, recs, locked, bankCrashes>>,
         BankKnown(d), BankFound(d)
  PROVE  BankInv'
<1>1. /\ bankReq' = [bankReq EXCEPT ![r] = d] /\ arrived < MaxArrivals /\ arrived' = arrived + 1
      /\ overlaps' = (overlaps \/ \E q \in Clerks \ {r} : bankReq[q].pc # "idle")
  BY DEF K!Start
<1>2. arrived' \in 0..MaxArrivals /\ bankCrashes' \in 0..MaxCrashes
  <2>1. arrived \in 0..MaxArrivals /\ bankCrashes \in 0..MaxCrashes
    BY DEF BankInv, K!TypeOK
  <2>. QED
    BY <1>1, <2>1 DEF BankSizes
<1>3. overlaps' \in BOOLEAN /\ (overlaps => overlaps')
      /\ (~overlaps' => \A q \in Clerks \ {r} : bankReq[q].pc = "idle")
  BY <1>1
<1>. QED
  BY <1>1, <1>2, <1>3, BankReads

\* A request goes on from a call, to another or to its end.
LEMMA BankGoesOn ==
  ASSUME BankSizes, BankInv, NEW r \in Clerks, NEW d \in BankSlots, bankReq[r].pc # "idle",
         bankReq' = [bankReq EXCEPT ![r] = d],
         UNCHANGED <<line, recs, locked, overlaps, arrived>>, bankCrashes' \in 0..MaxCrashes,
         BankKnown(d), ~overlaps => BankFound(d)
  PROVE  BankInv'
<1>1. overlaps' \in BOOLEAN /\ arrived' \in 0..MaxArrivals /\ overlaps' = overlaps
  BY DEF BankInv, K!TypeOK
<1>2. ~overlaps => \A q \in Clerks \ {r} : bankReq[q].pc = "idle"
  BY DEF BankInv, BankAlone
<1>3. /\ overlaps => overlaps'
      /\ ~overlaps' => BankFound(d)
      /\ ~overlaps' /\ d.pc # "idle" => \A q \in Clerks \ {r} : bankReq[q].pc = "idle"
  <2>1. CASE overlaps
    BY <1>1, <2>1
  <2>2. CASE ~overlaps
    BY <1>2, <2>2
  <2>. QED
    BY <2>1, <2>2
<1>. QED
  BY <1>1, <1>3, BankReads

LEMMA BankEnds ==
  ASSUME BankSizes, BankInv, NEW r \in Clerks, bankReq[r].pc # "idle", K!Finish(r),
         UNCHANGED <<line, recs, locked>>, bankCrashes' \in 0..MaxCrashes
  PROVE  BankInv'
<1>1. K!Idle \in BankSlots /\ BankKnown(K!Idle) /\ BankFound(K!Idle)
  <2>1. K!Idle \in BankSlots /\ K!Idle.pc = "idle"
    BY BankSlot
  <2>. QED
    BY <2>1 DEF BankKnown, BankFound, OfLine
<1>. QED
  BY <1>1, BankGoesOn DEF K!Finish

LEMMA BankArrives == ASSUME BankSizes, BankInv, NEW r \in Clerks, K!Arrive(r) PROVE BankInv'
<1>0. /\ 0 \in 0..MaxRecs /\ 0 \in 0..K!Cardinality(Lines) /\ DOMAIN recs \subseteq 0..MaxRecs
      /\ \A i \in DOMAIN recs : recs[i].status \in K!RecStatus
  <2>1. \A i \in DOMAIN recs : recs[i].status \in K!RecStatus
    BY RecFacts DEF RecRows
  <2>2. 0 \in 0..K!Cardinality(Lines)
    BY FS_CardinalityType, BankCounts DEF BankSizes
  <2>. QED
    BY <2>1, <2>2, RecFacts DEF BankSizes
<1>1. CASE K!CreateRead(r)
  <2>. DEFINE d == [K!Idle EXCEPT !.pc = "count"]
  <2>1. d \in BankSlots /\ d.pc = "count"
    BY <1>0 DEF K!Idle, BankSlots, K!PC, K!RecStatus
  <2>2. /\ K!Start(r, d) /\ UNCHANGED <<line, recs, locked, bankCrashes>>
        /\ \A i \in DOMAIN recs : recs[i].status = "COMPLETED"
    BY <1>1 DEF K!CreateRead
  <2>. HIDE DEF d
  <2>3. BankKnown(d) /\ BankFound(d)
    BY <2>1, <2>2 DEF BankKnown, BankFound, OfLine
  <2>. QED
    BY <2>1, <2>2, <2>3, BankStarts
<1>2. ASSUME NEW i \in DOMAIN recs, K!CompleteRead(r, i) PROVE BankInv'
  <2>. DEFINE d == [K!Idle EXCEPT !.pc = "complete", !.rec = i]
  <2>1. d \in BankSlots /\ d.pc = "complete" /\ d.rec = i
    BY <1>0 DEF K!Idle, BankSlots, K!PC, K!RecStatus
  <2>2. /\ K!Start(r, d) /\ UNCHANGED <<line, recs, locked, bankCrashes>>
        /\ recs[i].status = "IN_PROGRESS" /\ recs[i].matched = StatementBalance
    BY <1>2 DEF K!CompleteRead
  <2>. HIDE DEF d
  <2>3. BankKnown(d) /\ BankFound(d)
    BY <2>1, <2>2 DEF BankKnown, BankFound, OfLine
  <2>. QED
    BY <2>1, <2>2, <2>3, BankStarts
<1>3. ASSUME NEW i \in DOMAIN recs, NEW l \in Lines, K!MatchRead(r, i, l) PROVE BankInv'
  <2>. DEFINE d == [K!Idle EXCEPT !.pc = "period", !.rec = i, !.line = l, !.status = recs[i].status]
  <2>1. d \in BankSlots /\ d.pc = "period" /\ d.rec = i /\ d.line = l /\ d.status = recs[i].status
    BY <1>0 DEF K!Idle, BankSlots, K!PC
  <2>2. /\ K!Start(r, d) /\ UNCHANGED <<line, recs, locked, bankCrashes>>
        /\ recs[i].status # "COMPLETED"
    BY <1>3 DEF K!MatchRead
  <2>. HIDE DEF d
  <2>3. BankKnown(d) /\ BankFound(d)
    BY <2>1, <2>2 DEF BankKnown, BankFound, OfLine
  <2>. QED
    BY <2>1, <2>2, <2>3, BankStarts
<1>4. ASSUME NEW i \in DOMAIN recs, NEW l \in Lines, K!SkipRead(r, i, l) PROVE BankInv'
  <2>. DEFINE d == [K!Idle EXCEPT !.pc = "skipLine", !.rec = i, !.line = l]
  <2>1. d \in BankSlots /\ d.pc = "skipLine" /\ d.rec = i /\ d.line = l
    BY <1>0 DEF K!Idle, BankSlots, K!PC, K!RecStatus
  <2>2. /\ K!Start(r, d) /\ UNCHANGED <<line, recs, locked, bankCrashes>>
        /\ recs[i].status # "COMPLETED"
    BY <1>4 DEF K!SkipRead
  <2>. HIDE DEF d
  <2>3. BankKnown(d) /\ BankFound(d)
    BY <2>1, <2>2 DEF BankKnown, BankFound, OfLine
  <2>. QED
    BY <2>1, <2>2, <2>3, BankStarts
<1>. QED
  BY <1>1, <1>2, <1>3, <1>4 DEF K!Arrive

\* The calls that only read.
LEMMA BankLooks ==
  ASSUME BankSizes, BankInv, NEW r \in Clerks,
         K!CountUnmatched(r) \/ K!ReadPeriod(r) \/ K!MatchReadLine(r) \/ K!SkipReadLine(r)
  PROVE  BankInv'
<1>0. /\ bankReq[r] \in BankSlots /\ BankKnown(bankReq[r]) /\ (~overlaps => BankFound(bankReq[r]))
      /\ bankCrashes \in 0..MaxCrashes
      /\ {"insert", "matchLine", "match", "skip"} \subseteq K!PC
  BY BankSlot DEF BankInv, K!TypeOK, K!PC
<1>1. CASE K!CountUnmatched(r)
  <2>. DEFINE n == K!Cardinality(K!With("UNMATCHED", line))
              d == [bankReq[r] EXCEPT !.pc = "insert", !.count = n]
  <2>1. n \in 0..K!Cardinality(Lines)
    BY LinesCounted DEF K!With
  <2>. HIDE DEF n
  <2>2. d \in BankSlots /\ d.pc = "insert" /\ d.count = n
    BY <1>0, <2>1 DEF BankSlots
  <2>3. /\ bankReq[r].pc = "count" /\ bankReq' = [bankReq EXCEPT ![r] = d]
        /\ UNCHANGED <<line, recs, locked, overlaps, arrived, bankCrashes>>
    BY <1>1 DEF K!CountUnmatched, n
  <2>. HIDE DEF d
  <2>4. BankKnown(d) /\ (~overlaps => BankFound(d))
    BY <1>0, <2>2, <2>3 DEF BankKnown, BankFound, OfLine, n
  <2>. QED
    BY <1>0, <2>2, <2>3, <2>4, BankGoesOn
<1>2. ASSUME NEW p \in OfLine, NEW q \in {"matchLine", "match", "skip"},
             bankReq[r].pc = p, K!Goto(r, q), UNCHANGED <<line, recs, locked, bankCrashes>>,
             q \in {"matchLine", "match"} => p \in {"period", "matchLine"},
             q = "skip" => line[bankReq[r].line] # "MATCHED"
      PROVE  BankInv'
  <2>. DEFINE d == [bankReq[r] EXCEPT !.pc = q]
  <2>1. /\ d \in BankSlots /\ d.pc = q /\ d.rec = bankReq[r].rec /\ d.line = bankReq[r].line
        /\ d.status = bankReq[r].status
    BY <1>0, BankSlot
  <2>2. bankReq' = [bankReq EXCEPT ![r] = d] /\ UNCHANGED <<overlaps, arrived>>
    BY <1>2 DEF K!Goto
  <2>. HIDE DEF d
  <2>3. BankKnown(d)
    BY <1>0, <1>2, <2>1 DEF BankKnown, OfLine
  <2>4. ~overlaps => BankFound(d)
    BY <1>0, <1>2, <2>1 DEF BankFound, OfLine
  <2>5. bankReq[r].pc # "idle"
    BY <1>2 DEF OfLine
  <2>. QED
    BY <1>0, <1>2, <2>1, <2>2, <2>3, <2>4, <2>5, BankGoesOn
<1>3. ASSUME bankReq[r].pc # "idle", K!Finish(r), UNCHANGED <<line, recs, locked, bankCrashes>>
      PROVE  BankInv'
  BY <1>0, <1>3, BankEnds
<1>4. CASE K!ReadPeriod(r)
  <2>1. "period" \in OfLine
    BY DEF OfLine
  <2>. QED
    BY <1>2, <1>3, <1>4, <2>1 DEF K!ReadPeriod
<1>5. CASE K!MatchReadLine(r)
  <2>1. "matchLine" \in OfLine
    BY DEF OfLine
  <2>. QED
    BY <1>2, <1>3, <1>5, <2>1 DEF K!MatchReadLine
<1>6. CASE K!SkipReadLine(r)
  <2>1. "skipLine" \in OfLine
    BY DEF OfLine
  <2>. QED
    BY <1>2, <1>3, <1>6, <2>1 DEF K!SkipReadLine
<1>. QED
  BY <1>1, <1>4, <1>5, <1>6

\* A reconciliation more.
LEMMA BankInserts == ASSUME BankSizes, BankInv, NEW r \in Clerks, K!InsertRec(r) PROVE BankInv'
<1>. DEFINE row == [status |-> "OPEN", matched |-> 0, unmatched |-> bankReq[r].count]
<1>1. /\ bankReq[r].pc = "insert" /\ Len(recs) < MaxRecs /\ recs' = Append(recs, row)
      /\ bankReq' = [bankReq EXCEPT ![r] = K!Idle]
      /\ UNCHANGED <<line, locked, overlaps, arrived, bankCrashes>>
  BY DEF K!InsertRec, K!Finish
<1>2. row \in RecRows /\ row.status = "OPEN" /\ row.unmatched = bankReq[r].count
  BY BankSlot DEF BankSlots, RecRows, K!RecStatus
<1>. HIDE DEF row
<1>3. /\ recs' \in Seq(RecRows) /\ Len(recs') = Len(recs) + 1
      /\ DOMAIN recs' = DOMAIN recs \cup {Len(recs) + 1} /\ recs'[Len(recs) + 1] = row
      /\ \A i \in DOMAIN recs : recs'[i] = recs[i]
  <2>1. ASSUME NEW S, NEW x \in S, NEW s \in Seq(S)
        PROVE  LET t == Append(s, x) IN
               /\ t \in Seq(S) /\ Len(t) = Len(s) + 1 /\ t[Len(s) + 1] = x
               /\ DOMAIN t = DOMAIN s \cup {Len(s) + 1}
               /\ \A f \in DOMAIN s : t[f] = s[f]
    BY <2>1
  <2>. HIDE DEF RecRows
  <2>. QED
    BY <1>1, <1>2, <2>1, RecFacts
<1>4. Len(recs') <= MaxRecs /\ Len(recs) + 1 \notin DOMAIN recs
  BY <1>1, <1>3, RecFacts DEF BankSizes
<1>5. ASSUME ~overlaps PROVE Reconciled'
  <2>1. /\ \A i \in DOMAIN recs : recs[i].status = "COMPLETED"
        /\ bankReq[r].count = K!Cardinality(K!With("UNMATCHED", line))
    BY <1>1, <1>5, BankSlot DEF BankFound
  <2>2. \A i \in DOMAIN recs : recs[i].matched = StatementBalance
    BY <1>5, <2>1 DEF BankInv, Reconciled
  <2>3. ASSUME NEW i \in DOMAIN recs'
        PROVE  /\ recs'[i].status = "COMPLETED" => recs'[i].matched = StatementBalance
               /\ recs'[i].status # "COMPLETED" => i = Len(recs')
               /\ i = Len(recs') =>
                      /\ recs'[i].status # "OPEN" => recs'[i].matched = K!MatchedTotal(line)
                      /\ recs'[i].unmatched = K!Cardinality(K!With("UNMATCHED", line))
    <3>1. CASE i \in DOMAIN recs
      BY <1>3, <1>4, <2>1, <2>2, <3>1
    <3>2. CASE i = Len(recs) + 1
      BY <1>2, <1>3, <2>1, <3>2
    <3>. QED
      BY <1>3, <3>1, <3>2
  <2>4. line' = line
    BY <1>1
  <2>. QED
    BY <2>3, <2>4 DEF Reconciled
<1>6. line' \in [Lines -> K!LineStatus] /\ bankReq[r].pc # "idle" /\ DOMAIN recs \subseteq DOMAIN recs'
  BY <1>1, <1>3, RecFacts
<1>. QED
  BY <1>1, <1>3, <1>4, <1>5, <1>6, BankWrites

\* Request r writes its reconciliation, and perhaps a line.
LEMMA RecWrites ==
  ASSUME BankSizes, BankInv, NEW r \in Clerks, NEW row \in RecRows, NEW after \in [Lines -> K!LineStatus],
         bankReq[r].pc # "idle", bankReq[r].rec \in DOMAIN recs,
         bankReq' = [bankReq EXCEPT ![r] = K!Idle],
         line' = after, recs' = [recs EXCEPT ![bankReq[r].rec] = row],
         UNCHANGED <<locked, overlaps, arrived, bankCrashes>>,
         ~overlaps =>
             /\ recs[bankReq[r].rec].status # "COMPLETED"
             /\ row.status = "COMPLETED" => row.matched = StatementBalance
             /\ row.status # "OPEN" => row.matched = K!MatchedTotal(after)
             /\ row.unmatched = K!Cardinality(K!With("UNMATCHED", after))
  PROVE  BankInv'
<1>. DEFINE k == bankReq[r].rec
<1>1. /\ recs' \in Seq(RecRows) /\ Len(recs') = Len(recs)
      /\ DOMAIN recs' = DOMAIN recs /\ recs'[k] = row
      /\ \A i \in DOMAIN recs : i # k => recs'[i] = recs[i]
  <2>1. ASSUME NEW S, NEW x \in S, NEW s \in Seq(S), NEW i \in DOMAIN s
        PROVE  LET t == [s EXCEPT ![i] = x] IN
               /\ t \in Seq(S) /\ Len(t) = Len(s) /\ t[i] = x
               /\ DOMAIN t = DOMAIN s
               /\ \A f \in DOMAIN s : f # i => t[f] = s[f]
    BY <2>1
  <2>. HIDE DEF RecRows
  <2>. QED
    BY <2>1, RecFacts
<1>2. ASSUME ~overlaps PROVE Reconciled'
  <2>1. /\ \A i \in DOMAIN recs :
               /\ recs[i].status = "COMPLETED" => recs[i].matched = StatementBalance
               /\ recs[i].status # "COMPLETED" => i = Len(recs)
        /\ k = Len(recs) /\ k \in DOMAIN recs
    BY <1>2 DEF BankInv, Reconciled
  <2>2. ASSUME NEW i \in DOMAIN recs
        PROVE  /\ recs'[i].status = "COMPLETED" => recs'[i].matched = StatementBalance
               /\ recs'[i].status # "COMPLETED" => i = Len(recs')
               /\ i = Len(recs') =>
                      /\ recs'[i].status # "OPEN" => recs'[i].matched = K!MatchedTotal(after)
                      /\ recs'[i].unmatched = K!Cardinality(K!With("UNMATCHED", after))
    BY <1>1, <1>2, <2>1
  <2>. QED
    BY <1>1, <2>2 DEF Reconciled
<1>3. Len(recs') <= MaxRecs
  BY <1>1, RecFacts
<1>. QED
  BY <1>1, <1>2, <1>3, BankWrites

LEMMA BankChanges ==
  ASSUME BankSizes, BankInv, NEW r \in Clerks, K!Match(r) \/ K!Skip(r) \/ K!Complete(r)
  PROVE  BankInv'
<1>. DEFINE k == bankReq[r].rec
            l == bankReq[r].line
<1>0. /\ bankReq[r] \in BankSlots /\ (~overlaps => BankFound(bankReq[r]))
      /\ bankReq[r].pc \in OfLine \cup {"complete"} => k \in DOMAIN recs /\ recs[k] \in RecRows
      /\ bankReq[r].pc \in OfLine => l \in Lines
      /\ {"match", "skip"} \subseteq OfLine /\ "idle" \notin OfLine \cup {"complete"}
      /\ line \in [Lines -> K!LineStatus]
  BY BankSlot, RecFacts DEF BankKnown, OfLine
<1>1. ASSUME K!Match(r) PROVE BankInv'
  <2>. DEFINE after == [line EXCEPT ![l] = "MATCHED"]
              row == [status |-> IF bankReq[r].status = "OPEN" THEN "IN_PROGRESS" ELSE bankReq[r].status,
                      matched |-> K!MatchedTotal(after),
                      unmatched |-> K!Cardinality(K!With("UNMATCHED", after))]
  <2>1. /\ bankReq[r].pc = "match" /\ line' = after /\ recs' = [recs EXCEPT ![k] = row]
        /\ bankReq' = [bankReq EXCEPT ![r] = K!Idle]
        /\ UNCHANGED <<locked, overlaps, arrived, bankCrashes>>
    BY <1>1 DEF K!Match, K!Finish
  <2>2. after \in [Lines -> K!LineStatus]
    BY <1>0 DEF K!LineStatus
  <2>. HIDE DEF after
  <2>3. K!MatchedTotal(after) \in Int /\ K!Cardinality(K!With("UNMATCHED", after)) \in 0..K!Cardinality(Lines)
    BY LinesTotal, LinesCounted DEF K!With
  <2>4. row \in RecRows
    BY <1>0, <2>3 DEF RecRows, BankSlots, K!RecStatus
  <2>5. ~overlaps =>
             /\ recs[k].status # "COMPLETED" /\ row.status # "COMPLETED"
             /\ row.matched = K!MatchedTotal(after)
             /\ row.unmatched = K!Cardinality(K!With("UNMATCHED", after))
    BY <1>0, <2>1 DEF BankFound
  <2>. HIDE DEF row
  <2>6. k \in DOMAIN recs /\ bankReq[r].pc # "idle"
    BY <1>0, <2>1
  <2>. QED
    BY <2>1, <2>2, <2>4, <2>5, <2>6, RecWrites
<1>2. ASSUME K!Skip(r) PROVE BankInv'
  <2>. DEFINE after == [line EXCEPT ![l] = "SKIPPED"]
              row == [recs[k] EXCEPT !.unmatched = K!Cardinality(K!With("UNMATCHED", after))]
  <2>1. /\ bankReq[r].pc = "skip" /\ line' = after /\ recs' = [recs EXCEPT ![k] = row]
        /\ bankReq' = [bankReq EXCEPT ![r] = K!Idle]
        /\ UNCHANGED <<locked, overlaps, arrived, bankCrashes>>
    BY <1>2 DEF K!Skip, K!Finish
  <2>2. after \in [Lines -> K!LineStatus] /\ l \in Lines /\ k \in DOMAIN recs /\ recs[k] \in RecRows
        /\ bankReq[r].pc # "idle"
    BY <1>0, <2>1 DEF K!LineStatus
  <2>3. line[l] # "MATCHED" => K!With("MATCHED", after) = K!With("MATCHED", line)
    BY <1>0, <2>2 DEF K!With
  <2>4. line[l] # "MATCHED" => K!MatchedTotal(after) = K!MatchedTotal(line)
    BY <2>3, LinesTotal
  <2>. HIDE DEF after
  <2>5. K!Cardinality(K!With("UNMATCHED", after)) \in 0..K!Cardinality(Lines)
    BY LinesCounted DEF K!With
  <2>6. /\ row \in RecRows /\ row.status = recs[k].status /\ row.matched = recs[k].matched
        /\ row.unmatched = K!Cardinality(K!With("UNMATCHED", after))
    BY <2>2, <2>5 DEF RecRows
  <2>. HIDE DEF row
  <2>7. ~overlaps =>
             /\ recs[k].status # "COMPLETED" /\ row.status # "COMPLETED"
             /\ row.status # "OPEN" => row.matched = K!MatchedTotal(after)
             /\ row.unmatched = K!Cardinality(K!With("UNMATCHED", after))
    <3>1. ~overlaps => recs[k].status # "COMPLETED" /\ line[l] # "MATCHED"
      BY <1>0, <2>1 DEF BankFound
    <3>2. ~overlaps /\ recs[k].status # "COMPLETED" /\ recs[k].status # "OPEN" => recs[k].matched = K!MatchedTotal(line)
      BY <2>2 DEF BankInv, Reconciled
    <3>. QED
      BY <2>4, <2>6, <3>1, <3>2
  <2>. QED
    BY <2>1, <2>2, <2>6, <2>7, RecWrites
<1>3. ASSUME K!Complete(r) PROVE BankInv'
  <2>. DEFINE row == [recs[k] EXCEPT !.status = "COMPLETED"]
  <2>1. /\ bankReq[r].pc = "complete" /\ line' = line /\ recs' = [recs EXCEPT ![k] = row]
        /\ bankReq' = [bankReq EXCEPT ![r] = K!Idle]
        /\ UNCHANGED <<locked, overlaps, arrived, bankCrashes>>
    BY <1>3 DEF K!Complete, K!Finish
  <2>2. k \in DOMAIN recs /\ recs[k] \in RecRows /\ bankReq[r].pc # "idle"
    BY <1>0, <2>1
  <2>3. /\ row \in RecRows /\ row.status = "COMPLETED" /\ row.matched = recs[k].matched
        /\ row.unmatched = recs[k].unmatched
    BY <2>2 DEF RecRows, K!RecStatus
  <2>. HIDE DEF row
  <2>4. ~overlaps =>
             /\ recs[k].status # "COMPLETED" /\ row.matched = StatementBalance
             /\ row.matched = K!MatchedTotal(line)
             /\ row.unmatched = K!Cardinality(K!With("UNMATCHED", line))
    <3>1. ~overlaps => recs[k].status = "IN_PROGRESS" /\ recs[k].matched = StatementBalance
      BY <1>0, <2>1 DEF BankFound
    <3>2. ~overlaps /\ recs[k].status = "IN_PROGRESS" =>
              /\ recs[k].matched = K!MatchedTotal(line)
              /\ recs[k].unmatched = K!Cardinality(K!With("UNMATCHED", line))
      BY <2>2 DEF BankInv, Reconciled
    <3>. QED
      BY <2>3, <3>1, <3>2
  <2>. QED
    BY <1>0, <2>1, <2>2, <2>3, <2>4, RecWrites
<1>. QED
  BY <1>1, <1>2, <1>3

LEMMA BankStep == ASSUME BankSizes, BankInv, [K!Next]_(K!vars) PROVE BankInv'
<1>1. ASSUME UNCHANGED <<line, recs, bankReq, overlaps, arrived, bankCrashes>>, locked' \in BOOLEAN
      PROVE  BankInv'
  BY <1>1 DEF BankInv, K!TypeOK, Reconciled, BankAlone, BankKnown, BankFound
<1>2. CASE UNCHANGED K!vars
  <2>1. locked' \in BOOLEAN
    BY <1>2 DEF K!vars, BankInv, K!TypeOK
  <2>. QED
    BY <1>1, <1>2, <2>1 DEF K!vars
<1>3. CASE K!ClosePeriod
  <2>1. locked' \in BOOLEAN
    BY <1>3 DEF K!ClosePeriod
  <2>. QED
    BY <1>1, <1>3, <2>1 DEF K!ClosePeriod
<1>4. ASSUME NEW r \in Clerks, K!Proceed(r) PROVE BankInv'
  BY <1>4, BankLooks, BankInserts, BankChanges DEF K!Proceed
<1>5. ASSUME NEW r \in Clerks, K!Crash(r) PROVE BankInv'
  <2>1. /\ bankReq[r].pc # "idle" /\ K!Finish(r) /\ UNCHANGED <<line, recs, locked>>
        /\ bankCrashes < MaxCrashes /\ bankCrashes' = bankCrashes + 1
    BY <1>5 DEF K!Crash
  <2>2. bankCrashes' \in 0..MaxCrashes
    <3>1. bankCrashes \in 0..MaxCrashes
      BY DEF BankInv, K!TypeOK
    <3>. QED
      BY <2>1, <3>1 DEF BankSizes
  <2>. QED
    BY <2>1, <2>2, BankEnds
<1>. QED
  BY <1>2, <1>3, <1>4, <1>5, BankArrives DEF K!Next

-----------------------------------------------------------------------------
(* What follows of bank reconciliation                                     *)

\* However matching, skipping and completing interleave and crash, the invariant
\* of reconciliations holds.
THEOREM BankInvariance == ASSUME BankSizes PROVE K!Spec => []BankInv
<1>1. K!Init => BankInv
  BY BankInit
<1>2. BankInv /\ [K!Next]_(K!vars) => BankInv'
  BY BankStep
<1>. QED
  BY <1>1, <1>2, PTL DEF K!Spec

\* Lines, reconciliations and what requests carry keep their types, the matched
\* total (_recomputeTotals, a fold over lines) among them.
THEOREM BankTypeCorrect == ASSUME BankSizes PROVE K!Spec => []K!TypeOK
<1>1. BankInv => K!TypeOK
  BY DEF BankInv
<1>. QED
  BY <1>1, BankInvariance, PTL

\* A reconciliation that was completed balances and says what the lines say,
\* whatever died half-way, unless requests overlapped (matchLine, skipLine,
\* completeReconciliation).
THEOREM ReconciliationsBalance == ASSUME BankSizes PROVE K!Spec => []K!BankAgrees
<1>1. ASSUME BankInv PROVE K!BankAgrees
  <2>1. recs # <<>> => Len(recs) \in DOMAIN recs
    BY <1>1, RecFacts
  <2>. QED
    BY <1>1, <2>1 DEF BankInv, Reconciled, K!BankAgrees
<1>. QED
  BY <1>1, BankInvariance, PTL

-----------------------------------------------------------------------------
(* The invariant of payroll                                                *)

\* What the theorems about it assume of the constants: days and amounts are
\* integers, and there are finitely many employees.
PayrollSizes ==
    /\ IsFiniteSet(Employees) /\ Base \in [Employees -> Int]
    /\ \A p \in Periods : p.from \in Int /\ p.to \in Int
    /\ \A x \in Extras : x.day \in Int /\ x.amount \in Int
    /\ MaxRuns \in Nat /\ MaxAdjustments \in Nat /\ MaxArrivals \in Nat /\ MaxCrashes \in Nat

PaySlots == [pc : W!PC, branch : Branches \cup {None}, period : Periods \cup {None},
             who : SUBSET Employees, run : 0..MaxRuns, adj : SUBSET (1..MaxAdjustments)]
RunRows == [branch : Branches, period : Periods, status : W!RunStatus,
            count : 0..W!Cardinality(Employees), net : Int]
SlipRows == [run : 1..MaxRuns, of : Employees, net : Int,
             adj : SUBSET (1..MaxAdjustments), status : W!SlipStatus]
AdjustmentRows == [of : Employees, branch : Branches, extra : Extras]

\* Adjustment a is of a branch and of a day in a period.
Counts(a, branch, period) ==
    /\ a \in DOMAIN adjustments
    /\ adjustments[a].branch = branch
    /\ adjustments[a].extra.day \in period.from .. period.to

\* What some adjustments come to, and some slips.
Earned(of, C) == W!MapThenSumSet(LAMBDA a : W!Signed(of[a].extra), C)
NetTotal(C) == W!MapThenSumSet(LAMBDA s : s.net, C)

\* How far a slip is when its run is this far.
SlipIs(status) == [DRAFT |-> "DRAFT", APPROVED |-> "FINAL", PAID |-> "PAID"][status]

\* What a request carries to its next call, whoever races it.
PayKnown(q) ==
    /\ q.pc \in {"adjustments", "insert"} =>
           q.branch \in Branches /\ q.period \in Periods /\ q.who \subseteq W!PaidBy(q.branch)
    /\ q.pc = "insert" => \A a \in q.adj : Counts(a, q.branch, q.period)
    /\ q.pc \in {"approve", "pay"} => q.run \in DOMAIN payRuns

\* What one that is alone found is so until it writes.
PayFound(q) ==
    /\ q.pc \in {"adjustments", "insert"} =>
           \A i \in DOMAIN payRuns :
               payRuns[i].branch = q.branch => ~W!Share(payRuns[i].period, q.period)
    /\ q.pc = "approve" => payRuns[q.run].status = "DRAFT"
    /\ q.pc = "pay" => payRuns[q.run].status = "APPROVED"

PayAlone == \A r, q \in Clerks : r # q => payReq[r].pc = "idle" \/ payReq[q].pc = "idle"

\* A slip belongs to its run, to an employee the run can pay, and comes to what
\* its snapshot says.
SlipRight(s) ==
    /\ s.run \in DOMAIN payRuns
    /\ s.of \in W!PaidBy(payRuns[s.run].branch)
    /\ s.status = SlipIs(payRuns[s.run].status)
    /\ \A a \in s.adj : Counts(a, payRuns[s.run].branch, payRuns[s.run].period)
                        /\ adjustments[a].of = s.of
    /\ s.net = Base[s.of] + Earned(adjustments, s.adj)

\* An employee has one slip of a run.
OneSlip == \A s, t \in slips : s.run = t.run /\ s.of = t.of => s = t

RunRight(i) ==
    /\ payRuns[i].count = W!Cardinality(W!SlipsOf(i))
    /\ payRuns[i].net = NetTotal(W!SlipsOf(i))

\* Runs of a branch share no day, and a run that is PAID was paid once.
PaidApart ==
    /\ \A i, k \in DOMAIN payRuns :
           i # k /\ payRuns[i].branch = payRuns[k].branch
               => ~W!Share(payRuns[i].period, payRuns[k].period)
    /\ \A i \in DOMAIN payRuns : paidRuns[i] = IF payRuns[i].status = "PAID" THEN 1 ELSE 0

PayInv ==
    /\ W!TypeOK /\ \A r \in Clerks : PayKnown(payReq[r])
    /\ \A s \in slips : SlipRight(s)
    /\ OneSlip
    /\ \A i \in DOMAIN payRuns : RunRight(i)
    /\ \A i \in (1..MaxRuns) \ DOMAIN payRuns : paidRuns[i] = 0
    /\ ~payOverlaps => PaidApart /\ PayAlone /\ \A r \in Clerks : PayFound(payReq[r])

-----------------------------------------------------------------------------
(* What adjustments and slips come to                                      *)

LEMMA PayCounts == ASSUME NEW S PROVE W!Cardinality(S) = Cardinality(S)
  BY DEF W!Cardinality, Cardinality

LEMMA EarnedIs ==
  ASSUME NEW of, NEW C, IsFiniteSet(C), NEW w, \A a \in C : w[a] = W!Signed(of[a].extra),
         \A a \in C : w[a] \in Int
  PROVE  Earned(of, C) = WSum(w, C) /\ Earned(of, C) \in Int
<1>. DEFINE Iter(g) == g = [s \in SUBSET C |-> IF s = {} THEN 0
                ELSE W!Signed(of[CHOOSE a \in s : TRUE].extra) + g[s \ {CHOOSE a \in s : TRUE}]]
<1>1. Earned(of, C) = (CHOOSE g : Iter(g))[C]
  BY DEF Earned, W!MapThenSumSet, W!MapThenFoldSet
<1>2. \A g : Iter(g) <=> Summing(g, w, C)
  <2>1. \A s \in SUBSET C : s # {} =>
            w[CHOOSE a \in s : TRUE] = W!Signed(of[CHOOSE a \in s : TRUE].extra)
    OBVIOUS
  <2>. QED
    BY <2>1 DEF Summing, Pick
<1>3. \E g : Summing(g, w, C)
  BY SummingExists
<1>. HIDE DEF Iter
<1>4. Summing(CHOOSE g : Iter(g), w, C)
  BY <1>2, <1>3
<1>. QED
  BY <1>1, <1>4, ChosenSum

LEMMA NetTotalIs ==
  ASSUME NEW C, IsFiniteSet(C), NEW w, \A s \in C : w[s] = s.net, \A s \in C : w[s] \in Int
  PROVE  NetTotal(C) = WSum(w, C) /\ NetTotal(C) \in Int
<1>. DEFINE Iter(g) == g = [u \in SUBSET C |-> IF u = {} THEN 0
                ELSE (CHOOSE s \in u : TRUE).net + g[u \ {CHOOSE s \in u : TRUE}]]
<1>1. NetTotal(C) = (CHOOSE g : Iter(g))[C]
  BY DEF NetTotal, W!MapThenSumSet, W!MapThenFoldSet
<1>2. \A g : Iter(g) <=> Summing(g, w, C)
  <2>1. \A u \in SUBSET C : u # {} => w[CHOOSE s \in u : TRUE] = (CHOOSE s \in u : TRUE).net
    OBVIOUS
  <2>. QED
    BY <2>1 DEF Summing, Pick
<1>3. \E g : Summing(g, w, C)
  BY SummingExists
<1>. HIDE DEF Iter
<1>4. Summing(CHOOSE g : Iter(g), w, C)
  BY <1>2, <1>3
<1>. QED
  BY <1>1, <1>4, ChosenSum

LEMMA EarnedKept ==
  ASSUME PayrollSizes, NEW of \in Seq(AdjustmentRows), NEW after, NEW C, C \subseteq DOMAIN of,
         IsFiniteSet(C), \A a \in C : after[a] = of[a]
  PROVE  Earned(of, C) \in Int /\ Earned(after, C) = Earned(of, C)
<1>. DEFINE w == [a \in C |-> W!Signed(of[a].extra)]
<1>1. \A a \in C : w[a] \in Int /\ w[a] = W!Signed(of[a].extra)
  <2>1. ASSUME NEW a \in C PROVE of[a] \in AdjustmentRows
    <3>1. ASSUME NEW R, NEW s \in Seq(R), NEW k \in DOMAIN s PROVE s[k] \in R
      BY <3>1
    <3>. HIDE DEF AdjustmentRows
    <3>. QED
      BY <3>1
  <2>2. ASSUME NEW x \in Extras PROVE W!Signed(x) \in Int
    <3>1. x.amount \in Int
      BY DEF PayrollSizes
    <3>. QED
      BY <3>1 DEF W!Signed
  <2>. QED
    BY <2>1, <2>2 DEF AdjustmentRows
<1>2. \A a \in C : w[a] = W!Signed(after[a].extra)
  BY <1>1
<1>. HIDE DEF w
<1>3. Earned(of, C) = WSum(w, C) /\ Earned(of, C) \in Int
  BY <1>1, EarnedIs
<1>4. Earned(after, C) = WSum(w, C)
  BY <1>1, <1>2, EarnedIs
<1>. QED
  BY <1>3, <1>4

-----------------------------------------------------------------------------
(* Rows and requests of payroll                                            *)

LEMMA PayRows ==
  ASSUME PayrollSizes, PayInv
  PROVE  /\ payRuns \in Seq(RunRows) /\ DOMAIN payRuns = 1..Len(payRuns)
         /\ Len(payRuns) \in Nat /\ Len(payRuns) <= MaxRuns
         /\ \A i \in DOMAIN payRuns : payRuns[i] \in RunRows
         /\ slips \subseteq SlipRows /\ paidRuns \in [1..MaxRuns -> Nat]
         /\ adjustments \in Seq(AdjustmentRows) /\ DOMAIN adjustments = 1..Len(adjustments)
         /\ Len(adjustments) \in Nat /\ Len(adjustments) <= MaxAdjustments
         /\ \A a \in DOMAIN adjustments : adjustments[a] \in AdjustmentRows
<1>1. /\ payRuns \in Seq(RunRows) /\ Len(payRuns) <= MaxRuns
      /\ slips \subseteq SlipRows /\ paidRuns \in [1..MaxRuns -> Nat]
      /\ adjustments \in Seq(AdjustmentRows) /\ Len(adjustments) <= MaxAdjustments
  BY DEF PayInv, W!TypeOK, RunRows, SlipRows, AdjustmentRows
<1>2. ASSUME NEW S, NEW s \in Seq(S)
      PROVE  DOMAIN s = 1..Len(s) /\ Len(s) \in Nat /\ \A f \in DOMAIN s : s[f] \in S
  BY <1>2
<1>. HIDE DEF RunRows, AdjustmentRows
<1>. QED
  BY <1>1, <1>2

\* The slips of a run are no more than the employees.
LEMMA SlipsFinite ==
  ASSUME PayrollSizes, NEW C, C \subseteq SlipRows, \A s, t \in C : s.of = t.of => s = t
  PROVE  /\ IsFiniteSet(C) /\ W!Cardinality(C) \in 0..W!Cardinality(Employees)
         /\ NetTotal(C) \in Int
<1>. DEFINE f == [s \in C |-> s.of]
            w == [s \in C |-> s.net]
<1>1. f \in Injection(C, Employees)
  BY DEF Injection, IsInjective, SlipRows
<1>2. IsFiniteSet(Employees)
  BY DEF PayrollSizes
<1>3. \A s \in C : w[s] = s.net /\ w[s] \in Int
  BY DEF SlipRows
<1>. HIDE DEF f, w
<1>4. IsFiniteSet(C) /\ Cardinality(C) <= Cardinality(Employees)
  BY <1>1, <1>2, FS_Injection
<1>5. Cardinality(C) \in Nat /\ Cardinality(Employees) \in Nat
  BY <1>2, <1>4, FS_CardinalityType
<1>6. W!Cardinality(C) = Cardinality(C) /\ W!Cardinality(Employees) = Cardinality(Employees)
  BY PayCounts
<1>7. NetTotal(C) \in Int
  BY <1>3, <1>4, NetTotalIs
<1>. QED
  BY <1>4, <1>5, <1>6, <1>7

LEMMA PaySlot ==
  ASSUME PayrollSizes, PayInv, NEW r \in Clerks
  PROVE  /\ payReq \in [Clerks -> PaySlots] /\ payReq[r] \in PaySlots
         /\ W!Idle \in PaySlots /\ W!Idle.pc = "idle"
         /\ PayKnown(payReq[r]) /\ (~payOverlaps => PayFound(payReq[r]))
         /\ payArrived \in 0..MaxArrivals /\ payCrashes \in 0..MaxCrashes /\ payOverlaps \in BOOLEAN
<1>1. payReq \in [Clerks -> PaySlots] /\ payReq[r] \in PaySlots
  BY DEF PayInv, W!TypeOK, PaySlots
<1>2. 0 \in 0..MaxRuns
  BY DEF PayrollSizes
<1>3. W!Idle \in PaySlots /\ W!Idle.pc = "idle"
  BY <1>2 DEF W!Idle, PaySlots, W!PC
<1>4. payArrived \in 0..MaxArrivals /\ payCrashes \in 0..MaxCrashes /\ payOverlaps \in BOOLEAN
  BY DEF PayInv, W!TypeOK
<1>. QED
  BY <1>1, <1>3, <1>4 DEF PayInv

\* Request r comes to its next call and no row changes.
LEMMA PayReads ==
  ASSUME PayrollSizes, PayInv, NEW r \in Clerks, NEW d \in PaySlots,
         payReq' = [payReq EXCEPT ![r] = d], UNCHANGED <<payRuns, slips, adjustments, paidRuns>>,
         payArrived' \in 0..MaxArrivals, payCrashes' \in 0..MaxCrashes,
         payOverlaps' \in BOOLEAN, payOverlaps => payOverlaps',
         PayKnown(d), ~payOverlaps' => PayFound(d),
         ~payOverlaps' /\ d.pc # "idle" => \A q \in Clerks \ {r} : payReq[q].pc = "idle"
  PROVE  PayInv'
<1>1. /\ payReq \in [Clerks -> PaySlots] /\ payReq' \in [Clerks -> PaySlots] /\ payReq'[r] = d
      /\ \A q \in Clerks \ {r} : payReq'[q] = payReq[q]
  <2>1. payReq \in [Clerks -> PaySlots]
    BY DEF PayInv, W!TypeOK, PaySlots
  <2>. HIDE DEF PaySlots
  <2>. QED
    BY <2>1
<1>2. W!TypeOK'
  BY <1>1 DEF PayInv, W!TypeOK, PaySlots
<1>3. \A q \in Clerks : PayKnown(payReq[q]) /\ (~payOverlaps => PayFound(payReq[q]))
  BY DEF PayInv
<1>4. \A q \in Clerks : PayKnown(payReq'[q]) /\ (~payOverlaps' => PayFound(payReq'[q]))
  BY <1>1, <1>3
<1>5. \A q \in Clerks : PayKnown(payReq[q])' /\ (~payOverlaps' => PayFound(payReq[q])')
  BY <1>4 DEF PayKnown, PayFound, Counts
<1>6. ~payOverlaps' => PaidApart' /\ PayAlone'
  <2>1. ~payOverlaps' => PaidApart'
    BY DEF PayInv, PaidApart
  <2>2. ~payOverlaps' => PayAlone'
    BY <1>1 DEF PayInv, PayAlone
  <2>. QED
    BY <2>1, <2>2
<1>7. /\ \A s \in slips' : SlipRight(s)'
      /\ OneSlip' /\ \A i \in DOMAIN payRuns' : RunRight(i)'
      /\ \A i \in (1..MaxRuns) \ DOMAIN payRuns' : paidRuns'[i] = 0
  BY DEF PayInv, SlipRight, OneSlip, RunRight, Counts, W!SlipsOf
<1>. QED
  BY <1>2, <1>5, <1>6, <1>7 DEF PayInv

\* A request begins with what it read.
LEMMA PayStarts ==
  ASSUME PayrollSizes, PayInv, NEW r \in Clerks, NEW d \in PaySlots,
         W!Start(r, d), UNCHANGED <<payRuns, slips, adjustments, paidRuns, payCrashes>>,
         PayKnown(d), PayFound(d)
  PROVE  PayInv'
<1>1. /\ payReq' = [payReq EXCEPT ![r] = d] /\ payArrived < MaxArrivals /\ payArrived' = payArrived + 1
      /\ payOverlaps' = (payOverlaps \/ \E q \in Clerks \ {r} : payReq[q].pc # "idle")
  BY DEF W!Start
<1>2. payArrived' \in 0..MaxArrivals /\ payCrashes' \in 0..MaxCrashes
  BY <1>1, PaySlot DEF PayrollSizes
<1>3. payOverlaps' \in BOOLEAN /\ (payOverlaps => payOverlaps')
      /\ (~payOverlaps' => \A q \in Clerks \ {r} : payReq[q].pc = "idle")
  BY <1>1
<1>. QED
  BY <1>1, <1>2, <1>3, PayReads

\* A request goes on from a call, to another or to its end.
LEMMA PayGoesOn ==
  ASSUME PayrollSizes, PayInv, NEW r \in Clerks, NEW d \in PaySlots, payReq[r].pc # "idle",
         payReq' = [payReq EXCEPT ![r] = d],
         UNCHANGED <<payRuns, slips, adjustments, paidRuns, payOverlaps, payArrived>>,
         payCrashes' \in 0..MaxCrashes, PayKnown(d), ~payOverlaps => PayFound(d)
  PROVE  PayInv'
<1>1. payOverlaps' \in BOOLEAN /\ payArrived' \in 0..MaxArrivals /\ payOverlaps' = payOverlaps
  BY PaySlot
<1>2. ~payOverlaps => \A q \in Clerks \ {r} : payReq[q].pc = "idle"
  BY DEF PayInv, PayAlone
<1>3. /\ payOverlaps => payOverlaps'
      /\ ~payOverlaps' => PayFound(d)
      /\ ~payOverlaps' /\ d.pc # "idle" => \A q \in Clerks \ {r} : payReq[q].pc = "idle"
  <2>1. CASE payOverlaps
    BY <1>1, <2>1
  <2>2. CASE ~payOverlaps
    BY <1>2, <2>2
  <2>. QED
    BY <2>1, <2>2
<1>. QED
  BY <1>1, <1>3, PayReads

LEMMA PayEnds ==
  ASSUME PayrollSizes, PayInv, NEW r \in Clerks, W!Crash(r)
  PROVE  PayInv'
<1>1. /\ payReq[r].pc # "idle" /\ payCrashes < MaxCrashes /\ payCrashes' = payCrashes + 1
      /\ payReq' = [payReq EXCEPT ![r] = W!Idle]
      /\ UNCHANGED <<payRuns, slips, adjustments, paidRuns, payOverlaps, payArrived>>
  BY DEF W!Crash, W!Finish
<1>2. payCrashes' \in 0..MaxCrashes
  BY <1>1, PaySlot DEF PayrollSizes
<1>3. W!Idle \in PaySlots /\ PayKnown(W!Idle) /\ PayFound(W!Idle)
  <2>1. W!Idle \in PaySlots /\ W!Idle.pc = "idle"
    BY PaySlot
  <2>. QED
    BY <2>1 DEF PayKnown, PayFound
<1>. QED
  BY <1>1, <1>2, <1>3, PayGoesOn

LEMMA PayInit == ASSUME PayrollSizes, W!Init PROVE PayInv
<1>1. W!Idle \in PaySlots /\ W!Idle.pc = "idle"
  <2>1. 0 \in 0..MaxRuns
    BY DEF PayrollSizes
  <2>. QED
    BY <2>1 DEF W!Idle, PaySlots, W!PC
<1>2. payReq \in [Clerks -> PaySlots] /\ \A r \in Clerks : payReq[r].pc = "idle"
  BY <1>1 DEF W!Init
<1>3. payRuns = <<>> /\ slips = {} /\ adjustments = <<>> /\ paidRuns = [i \in 1..MaxRuns |-> 0]
  BY DEF W!Init
<1>4. W!TypeOK
  <2>1. ASSUME NEW S PROVE <<>> \in Seq(S) /\ Len(<<>>) = 0
    OBVIOUS
  <2>2. payArrived \in 0..MaxArrivals /\ payCrashes \in 0..MaxCrashes
    BY DEF W!Init, PayrollSizes
  <2>4. payOverlaps \in BOOLEAN
    BY DEF W!Init
  <2>3. /\ payRuns \in Seq(RunRows) /\ adjustments \in Seq(AdjustmentRows)
        /\ Len(payRuns) <= MaxRuns /\ Len(adjustments) <= MaxAdjustments
    BY <1>3, <2>1 DEF PayrollSizes
  <2>. QED
    BY <1>2, <1>3, <2>2, <2>3, <2>4 DEF W!TypeOK, PaySlots, RunRows, AdjustmentRows
<1>5. DOMAIN payRuns = {}
  BY <1>3
<1>6. PaidApart /\ PayAlone /\ \A r \in Clerks : PayKnown(payReq[r]) /\ PayFound(payReq[r])
  BY <1>2, <1>5 DEF PaidApart, PayAlone, PayKnown, PayFound
<1>. QED
  BY <1>3, <1>4, <1>5, <1>6 DEF PayInv, OneSlip

LEMMA PayArrives == ASSUME PayrollSizes, PayInv, NEW r \in Clerks, W!Arrive(r) PROVE PayInv'
<1>0. DOMAIN payRuns \subseteq 0..MaxRuns /\ {} \subseteq Employees /\ 0 \in 0..MaxRuns
  BY PayRows DEF PayrollSizes
<1>1. ASSUME NEW b \in Branches, NEW p \in Periods, NEW who \in Selections, W!BuildRead(r, b, p, who)
      PROVE  PayInv'
  <2>. DEFINE d == [W!Idle EXCEPT !.pc = "adjustments", !.branch = b, !.period = p,
                                  !.who = W!PaidBy(b) \cap who]
  <2>1. /\ d \in PaySlots /\ d.pc = "adjustments" /\ d.branch = b /\ d.period = p
        /\ d.who \subseteq W!PaidBy(b)
    BY <1>0 DEF W!Idle, PaySlots, W!PC, W!PaidBy
  <2>2. /\ W!Start(r, d) /\ UNCHANGED <<payRuns, slips, adjustments, paidRuns, payCrashes>>
        /\ \A i \in DOMAIN payRuns : payRuns[i].branch = b => ~W!Share(payRuns[i].period, p)
    BY <1>1 DEF W!BuildRead
  <2>. HIDE DEF d
  <2>3. PayKnown(d) /\ PayFound(d)
    BY <2>1, <2>2 DEF PayKnown, PayFound
  <2>. QED
    BY <2>1, <2>2, <2>3, PayStarts
<1>2. ASSUME NEW i \in DOMAIN payRuns, W!ApproveRead(r, i) PROVE PayInv'
  <2>. DEFINE d == [W!Idle EXCEPT !.pc = "approve", !.run = i]
  <2>1. d \in PaySlots /\ d.pc = "approve" /\ d.run = i
    BY <1>0 DEF W!Idle, PaySlots, W!PC
  <2>2. /\ W!Start(r, d) /\ UNCHANGED <<payRuns, slips, adjustments, paidRuns, payCrashes>>
        /\ payRuns[i].status = "DRAFT"
    BY <1>2 DEF W!ApproveRead
  <2>. HIDE DEF d
  <2>3. PayKnown(d) /\ PayFound(d)
    BY <2>1, <2>2 DEF PayKnown, PayFound
  <2>. QED
    BY <2>1, <2>2, <2>3, PayStarts
<1>3. ASSUME NEW i \in DOMAIN payRuns, W!PayRead(r, i) PROVE PayInv'
  <2>. DEFINE d == [W!Idle EXCEPT !.pc = "pay", !.run = i]
  <2>1. d \in PaySlots /\ d.pc = "pay" /\ d.run = i
    BY <1>0 DEF W!Idle, PaySlots, W!PC
  <2>2. /\ W!Start(r, d) /\ UNCHANGED <<payRuns, slips, adjustments, paidRuns, payCrashes>>
        /\ payRuns[i].status = "APPROVED"
    BY <1>3 DEF W!PayRead
  <2>. HIDE DEF d
  <2>3. PayKnown(d) /\ PayFound(d)
    BY <2>1, <2>2 DEF PayKnown, PayFound
  <2>. QED
    BY <2>1, <2>2, <2>3, PayStarts
<1>. QED
  BY <1>1, <1>2, <1>3 DEF W!Arrive

LEMMA AdjustmentsRead ==
  ASSUME PayrollSizes, PayInv, NEW r \in Clerks, W!ReadAdjustments(r)
  PROVE  PayInv'
<1>. DEFINE q == payReq[r]
            C == {a \in DOMAIN adjustments :
                      /\ adjustments[a].branch = q.branch
                      /\ adjustments[a].extra.day \in q.period.from .. q.period.to}
            d == [q EXCEPT !.pc = "insert", !.adj = C]
<1>1. /\ q.pc = "adjustments" /\ payReq' = [payReq EXCEPT ![r] = d]
      /\ UNCHANGED <<payRuns, slips, adjustments, paidRuns, payOverlaps, payArrived, payCrashes>>
  <2>1. d = [q EXCEPT !.pc = "insert", !.adj = C]
    OBVIOUS
  <2>. HIDE DEF C
  <2>2. payReq' = [payReq EXCEPT ![r].pc = "insert", ![r].adj = C]
    BY DEF W!ReadAdjustments, C
  <2>3. payReq \in [Clerks -> PaySlots]
    BY PaySlot
  <2>. QED
    BY <2>2, <2>3 DEF W!ReadAdjustments
<1>2. C \in SUBSET (1..MaxAdjustments)
  BY PayRows DEF PayrollSizes
<1>3. \A a \in C : Counts(a, q.branch, q.period)
  BY DEF Counts
<1>. HIDE DEF C
<1>4. /\ d \in PaySlots /\ d.pc = "insert" /\ d.branch = q.branch /\ d.period = q.period
      /\ d.who = q.who /\ d.adj = C
  BY <1>2, PaySlot DEF PaySlots, W!PC
<1>. HIDE DEF d
<1>5. PayKnown(d)
  BY <1>1, <1>3, <1>4, PaySlot DEF PayKnown
<1>6. ~payOverlaps => PayFound(d)
  BY <1>1, <1>4, PaySlot DEF PayFound
<1>7. payCrashes' \in 0..MaxCrashes
  BY <1>1, PaySlot
<1>. QED
  BY <1>1, <1>4, <1>5, <1>6, <1>7, PayGoesOn

\* An adjustment more: what slips and requests hold comes to what it did.
LEMMA AdjustmentMade ==
  ASSUME PayrollSizes, PayInv, NEW e \in Employees, NEW b \in Branches, NEW x \in Extras,
         W!Adjust(e, b, x)
  PROVE  PayInv'
<1>. DEFINE row == [of |-> e, branch |-> b, extra |-> x]
<1>1. /\ adjustments' = Append(adjustments, row) /\ Len(adjustments) < MaxAdjustments
      /\ payArrived < MaxArrivals /\ payArrived' = payArrived + 1
      /\ UNCHANGED <<payRuns, slips, paidRuns, payReq, payOverlaps, payCrashes>>
  BY DEF W!Adjust
<1>2. row \in AdjustmentRows
  BY DEF AdjustmentRows
<1>. HIDE DEF row
<1>3. /\ adjustments' \in Seq(AdjustmentRows) /\ Len(adjustments') <= MaxAdjustments
      /\ DOMAIN adjustments \subseteq DOMAIN adjustments'
      /\ \A a \in DOMAIN adjustments : adjustments'[a] = adjustments[a]
  <2>1. ASSUME NEW S, NEW y \in S, NEW s \in Seq(S)
        PROVE  LET t == Append(s, y) IN
               /\ t \in Seq(S) /\ Len(t) = Len(s) + 1 /\ DOMAIN s \subseteq DOMAIN t
               /\ \A f \in DOMAIN s : t[f] = s[f]
    BY <2>1
  <2>2. adjustments \in Seq(AdjustmentRows) /\ Len(adjustments) \in Nat
    BY PayRows
  <2>. HIDE DEF AdjustmentRows
  <2>3. adjustments' \in Seq(AdjustmentRows) /\ Len(adjustments') = Len(adjustments) + 1
        /\ DOMAIN adjustments \subseteq DOMAIN adjustments'
        /\ \A a \in DOMAIN adjustments : adjustments'[a] = adjustments[a]
    BY <1>1, <1>2, <2>1, <2>2
  <2>. QED
    BY <1>1, <2>2, <2>3 DEF PayrollSizes
<1>4. W!TypeOK'
  <2>1. payArrived' \in 0..MaxArrivals
    <3>1. payArrived \in 0..MaxArrivals
      BY DEF PayInv, W!TypeOK
    <3>. QED
      BY <1>1, <3>1 DEF PayrollSizes
  <2>. QED
    BY <1>1, <1>3, <2>1 DEF PayInv, W!TypeOK, AdjustmentRows
<1>5. ASSUME NEW a, NEW c, NEW p, Counts(a, c, p)
      PROVE  Counts(a, c, p)' /\ adjustments'[a] = adjustments[a]
  BY <1>3, <1>5 DEF Counts
<1>6. ASSUME NEW q \in Clerks
      PROVE  PayKnown(payReq[q])' /\ (~payOverlaps => PayFound(payReq[q])')
  <2>1. PayKnown(payReq[q]) /\ (~payOverlaps => PayFound(payReq[q]))
    BY PaySlot
  <2>2. PayKnown(payReq[q])'
    <3>1. ASSUME payReq[q].pc = "insert", NEW a \in payReq[q].adj
          PROVE  Counts(a, payReq[q].branch, payReq[q].period)'
      <4>1. Counts(a, payReq[q].branch, payReq[q].period)
        BY <2>1, <3>1 DEF PayKnown
      <4>. QED
        BY <1>1, <1>3, <4>1 DEF Counts
    <3>2. payReq'[q] = payReq[q] /\ payRuns' = payRuns
      BY <1>1
    <3>. QED
      BY <1>1, <2>1, <3>1, <3>2 DEF PayKnown, Counts
  <2>. QED
    BY <1>1, <2>1, <2>2 DEF PayFound
<1>7. ASSUME NEW s \in slips PROVE SlipRight(s)'
  <2>1. /\ SlipRight(s) /\ s \in SlipRows
    BY PayRows DEF PayInv
  <2>2. s.adj \subseteq DOMAIN adjustments /\ IsFiniteSet(s.adj)
    <3>1. s.adj \in SUBSET (1..MaxAdjustments)
      BY <2>1 DEF SlipRows
    <3>2. IsFiniteSet(1..MaxAdjustments)
      <4>1. 1 \in Int /\ MaxAdjustments \in Int
        BY DEF PayrollSizes
      <4>. QED
        BY <4>1, FS_Interval
    <3>. QED
      BY <2>1, <3>1, <3>2, FS_Subset DEF SlipRight, Counts
  <2>3. Earned(adjustments', s.adj) = Earned(adjustments, s.adj)
    <3>1. adjustments \in Seq(AdjustmentRows)
      BY PayRows
    <3>. QED
      BY <1>3, <2>2, <3>1, EarnedKept
  <2>4. \A a \in s.adj : Counts(a, payRuns[s.run].branch, payRuns[s.run].period)'
                         /\ adjustments'[a].of = s.of
    BY <1>1, <1>5, <2>1 DEF SlipRight
  <2>. QED
    BY <1>1, <2>1, <2>3, <2>4 DEF SlipRight
<1>8. /\ OneSlip' /\ \A i \in DOMAIN payRuns' : RunRight(i)'
      /\ \A i \in (1..MaxRuns) \ DOMAIN payRuns' : paidRuns'[i] = 0
      /\ ~payOverlaps' => PaidApart' /\ PayAlone'
  BY <1>1 DEF PayInv, OneSlip, RunRight, W!SlipsOf, PaidApart, PayAlone
<1>. QED
  BY <1>1, <1>4, <1>6, <1>7, <1>8 DEF PayInv

\* Slips that stay of the same amount add up to what they did.
LEMMA SlipsMoved ==
  ASSUME PayrollSizes, NEW C, C \subseteq SlipRows, IsFiniteSet(C), NEW h,
         \A s, t \in C : h[s] = h[t] => s = t, \A s \in C : h[s].net = s.net,
         NEW D, D = {h[s] : s \in C}
  PROVE  W!Cardinality(D) = W!Cardinality(C) /\ NetTotal(D) = NetTotal(C)
<1>. DEFINE f == [s \in C |-> h[s]]
            w == [s \in C |-> s.net]
            v == [s \in D |-> s.net]
<1>1. f \in Surjection(C, D) /\ f \in Injection(C, D)
  BY DEF Surjection, Injection, IsInjective
<1>2. \A s \in C : w[s] = s.net /\ w[s] \in Int /\ v[h[s]] = w[s]
  BY DEF SlipRows
<1>3. \A s \in D : v[s] = s.net /\ v[s] \in Int
  BY DEF SlipRows
<1>. HIDE DEF f, w, v
<1>4. IsFiniteSet(D) /\ Cardinality(D) = Cardinality(C)
  BY <1>1, FS_Surjection
<1>5. WSum(v, D) = WSum(w, C)
  <2>1. \A s \in C : w[s] \in Int /\ v[h[s]] = w[s]
    BY <1>2
  <2>2. D = ImageOf(h, C)
    BY DEF ImageOf
  <2>3. Renames(h, C, w, v)
    BY <2>1 DEF Renames
  <2>. QED
    <3>1. WSum(v, ImageOf(h, C)) = WSum(w, C)
      BY <2>3, WSumImage
    <3>. QED
      BY <2>2, <3>1
<1>6. NetTotal(C) = WSum(w, C)
  BY <1>2, NetTotalIs
<1>7. NetTotal(D) = WSum(v, D)
  BY <1>3, <1>4, NetTotalIs
<1>. QED
  BY <1>4, <1>5, <1>6, <1>7, PayCounts

\* Request r writes runs and slips and is answered.
LEMMA PayWrites ==
  ASSUME PayrollSizes, PayInv, NEW r \in Clerks, payReq[r].pc # "idle", W!Finish(r),
         UNCHANGED <<adjustments, payCrashes>>,
         payRuns' \in Seq(RunRows), Len(payRuns') <= MaxRuns,
         DOMAIN payRuns \subseteq DOMAIN payRuns',
         slips' \subseteq SlipRows, paidRuns' \in [1..MaxRuns -> Nat],
         \A s \in slips' : SlipRight(s)', OneSlip',
         \A i \in DOMAIN payRuns' : RunRight(i)',
         \A i \in (1..MaxRuns) \ DOMAIN payRuns' : paidRuns'[i] = 0,
         ~payOverlaps => PaidApart'
  PROVE  PayInv'
<1>1. /\ payReq' = [payReq EXCEPT ![r] = W!Idle] /\ UNCHANGED <<payOverlaps, payArrived>>
      /\ W!Idle \in PaySlots /\ W!Idle.pc = "idle" /\ payReq \in [Clerks -> PaySlots]
  BY PaySlot DEF W!Finish
<1>2. /\ payReq' \in [Clerks -> PaySlots] /\ payReq'[r] = W!Idle
      /\ \A q \in Clerks \ {r} : payReq'[q] = payReq[q]
  <2>. HIDE DEF PaySlots
  <2>. QED
    BY <1>1
<1>3. W!TypeOK'
  BY <1>1, <1>2 DEF PayInv, W!TypeOK, PaySlots, RunRows, SlipRows
<1>4. ASSUME NEW q \in Clerks PROVE PayKnown(payReq[q])'
  <2>1. PayKnown(payReq[q])
    BY PaySlot
  <2>2. payReq'[q] = payReq[q] \/ payReq'[q].pc = "idle"
    BY <1>1, <1>2
  <2>. QED
    BY <2>1, <2>2 DEF PayKnown, Counts
<1>5. ASSUME ~payOverlaps PROVE PayAlone' /\ \A q \in Clerks : PayFound(payReq[q])'
  <2>1. \A q \in Clerks : payReq'[q].pc = "idle"
    BY <1>1, <1>2, <1>5 DEF PayInv, PayAlone
  <2>. QED
    BY <2>1 DEF PayAlone, PayFound
<1>6. payOverlaps' = payOverlaps
  BY <1>1
<1>. QED
  BY <1>3, <1>4, <1>5, <1>6 DEF PayInv

\* A run with its slips.
LEMMA RunBuilt == ASSUME PayrollSizes, PayInv, NEW r \in Clerks, W!InsertRun(r) PROVE PayInv'
<1>. DEFINE q == payReq[r]
            n == Len(payRuns) + 1
            Own(e) == {a \in q.adj : adjustments[a].of = e}
            Slip(e) == [run |-> n, of |-> e, adj |-> Own(e), status |-> "DRAFT",
                        net |-> Base[e] + Earned(adjustments, Own(e))]
            mine == {Slip(e) : e \in q.who}
            row == [branch |-> q.branch, period |-> q.period, status |-> "DRAFT",
                    count |-> W!Cardinality(mine), net |-> NetTotal(mine)]
<1>1. \A e : W!SlipOf(r, e) = Slip(e)
  BY DEF W!SlipOf, Earned, W!MapThenSumSet, W!MapThenFoldSet
<1>2. /\ q.pc = "insert" /\ Len(payRuns) < MaxRuns /\ payRuns' = Append(payRuns, row)
      /\ slips' = slips \cup mine /\ W!Finish(r) /\ UNCHANGED <<adjustments, paidRuns, payCrashes>>
  <2>1. {W!SlipOf(r, e) : e \in q.who} = mine
    BY <1>1
  <2>. HIDE DEF mine
  <2>. QED
    BY <2>1 DEF W!InsertRun, NetTotal
<1>3. /\ q.branch \in Branches /\ q.period \in Periods /\ q.who \subseteq W!PaidBy(q.branch)
      /\ \A a \in q.adj : Counts(a, q.branch, q.period)
      /\ q.adj \in SUBSET (1..MaxAdjustments) /\ q.who \subseteq Employees
  BY <1>2, PaySlot DEF PayKnown, PaySlots
<1>. HIDE DEF q
<1>4. n \in 1..MaxRuns /\ n \notin DOMAIN payRuns /\ Len(payRuns) \in Nat
  BY <1>2, PayRows DEF PayrollSizes
<1>5. ASSUME NEW e \in q.who PROVE Slip(e) \in SlipRows
  <2>1. IsFiniteSet(Own(e)) /\ Own(e) \subseteq DOMAIN adjustments /\ Own(e) \in SUBSET (1..MaxAdjustments)
    <3>1. IsFiniteSet(1..MaxAdjustments)
      <4>1. 1 \in Int /\ MaxAdjustments \in Int
        BY DEF PayrollSizes
      <4>. QED
        BY <4>1, FS_Interval
    <3>. QED
      BY <1>3, <3>1, FS_Subset DEF Counts
  <2>. HIDE DEF Own
  <2>2. Earned(adjustments, Own(e)) \in Int
    BY <2>1, EarnedKept, PayRows
  <2>3. Base[e] \in Int /\ e \in Employees
    BY <1>3 DEF PayrollSizes
  <2>. QED
    BY <1>4, <2>1, <2>2, <2>3 DEF SlipRows, W!SlipStatus
<1>6. /\ mine \subseteq SlipRows
      /\ \A s \in mine : s.run = n /\ s.of \in q.who /\ s = Slip(s.of)
      /\ \A s, t \in mine : s.of = t.of => s = t
  <2>1. mine \subseteq SlipRows
    BY <1>5
  <2>2. ASSUME NEW s \in mine PROVE s.run = n /\ s.of \in q.who /\ s = Slip(s.of)
    <3>1. PICK e \in q.who : s = Slip(e)
      BY <2>2
    <3>2. Slip(e).run = n /\ Slip(e).of = e
      OBVIOUS
    <3>. QED
      BY <3>1, <3>2
  <2>. HIDE DEF mine, Slip
  <2>3. ASSUME NEW s \in mine, NEW t \in mine, s.of = t.of PROVE s = t
    BY <2>2, <2>3
  <2>. QED
    BY <2>1, <2>2, <2>3
<1>7. ASSUME NEW e PROVE /\ Slip(e).status = "DRAFT" /\ Slip(e).adj = Own(e)
                         /\ Slip(e).net = Base[e] + Earned(adjustments, Own(e))
  OBVIOUS
<1>. HIDE DEF mine, Slip
<1>8. W!Cardinality(mine) \in 0..W!Cardinality(Employees) /\ NetTotal(mine) \in Int
  BY <1>6, SlipsFinite
<1>9. /\ row \in RunRows /\ row.branch = q.branch /\ row.period = q.period /\ row.status = "DRAFT"
      /\ row.count = W!Cardinality(mine) /\ row.net = NetTotal(mine)
  BY <1>3, <1>8 DEF RunRows, W!RunStatus
<1>. HIDE DEF row
<1>10. /\ payRuns' \in Seq(RunRows) /\ Len(payRuns') <= MaxRuns
       /\ DOMAIN payRuns' = DOMAIN payRuns \cup {n} /\ payRuns'[n] = row
       /\ \A i \in DOMAIN payRuns : payRuns'[i] = payRuns[i]
  <2>1. ASSUME NEW S, NEW x \in S, NEW s \in Seq(S)
        PROVE  LET t == Append(s, x) IN
               /\ t \in Seq(S) /\ Len(t) = Len(s) + 1 /\ t[Len(s) + 1] = x
               /\ DOMAIN t = DOMAIN s \cup {Len(s) + 1}
               /\ \A f \in DOMAIN s : t[f] = s[f]
    BY <2>1
  <2>2. payRuns \in Seq(RunRows)
    BY PayRows
  <2>. HIDE DEF RunRows
  <2>3. /\ payRuns' \in Seq(RunRows) /\ Len(payRuns') = n
        /\ DOMAIN payRuns' = DOMAIN payRuns \cup {n} /\ payRuns'[n] = row
        /\ \A i \in DOMAIN payRuns : payRuns'[i] = payRuns[i]
    BY <1>2, <1>9, <2>1, <2>2
  <2>. QED
    BY <1>4, <2>3 DEF PayrollSizes
<1>. HIDE DEF n
<1>11. \A s \in slips : s.run \in DOMAIN payRuns /\ s.run # n
  BY <1>4 DEF PayInv, SlipRight
<1>12. ASSUME NEW s \in slips' PROVE SlipRight(s)'
  <2>1. CASE s \in slips
    <3>1. SlipRight(s)
      BY <2>1 DEF PayInv
    <3>2. payRuns'[s.run] = payRuns[s.run] /\ s.run \in DOMAIN payRuns'
      BY <1>10, <1>11, <2>1
    <3>. QED
      BY <1>2, <3>1, <3>2 DEF SlipRight, Counts
  <2>2. CASE s \in mine
    <3>1. /\ s.run = n /\ s.of \in q.who /\ s.status = "DRAFT" /\ s.adj = Own(s.of)
          /\ s.net = Base[s.of] + Earned(adjustments, s.adj)
      <4>1. PICK e \in q.who : s = Slip(e) /\ s.of = e /\ s.run = n
        BY <1>6, <2>2
      <4>2. s.status = "DRAFT" /\ s.adj = Own(e) /\ s.net = Base[e] + Earned(adjustments, Own(e))
        BY <1>7, <4>1
      <4>. HIDE DEF Own
      <4>. QED
        BY <4>1, <4>2
    <3>2. n \in DOMAIN payRuns' /\ payRuns'[n] = row
      BY <1>10
    <3>3. \A a \in s.adj : Counts(a, q.branch, q.period) /\ adjustments[a].of = s.of
      BY <1>3, <3>1
    <3>4. s.of \in W!PaidBy(row.branch) /\ SlipIs("DRAFT") = "DRAFT"
      BY <1>3, <1>9, <3>1 DEF SlipIs
    <3>. QED
      BY <1>2, <1>9, <3>1, <3>2, <3>3, <3>4 DEF SlipRight, Counts
  <2>. QED
    BY <1>2, <2>1, <2>2
<1>13. OneSlip'
  BY <1>2, <1>6, <1>11 DEF PayInv, OneSlip
<1>14. ASSUME NEW i \in DOMAIN payRuns' PROVE RunRight(i)'
  <2>1. CASE i \in DOMAIN payRuns
    <3>1. W!SlipsOf(i)' = W!SlipsOf(i)
      BY <1>2, <1>4, <1>6, <2>1 DEF W!SlipsOf
    <3>. QED
      BY <1>10, <2>1, <3>1 DEF PayInv, RunRight
  <2>2. CASE i = n
    <3>1. W!SlipsOf(i)' = mine
      BY <1>2, <1>6, <1>11, <2>2 DEF W!SlipsOf
    <3>. QED
      BY <1>9, <1>10, <2>2, <3>1 DEF RunRight
  <2>. QED
    BY <1>10, <2>1, <2>2
<1>15. \A i \in (1..MaxRuns) \ DOMAIN payRuns' : paidRuns'[i] = 0
  BY <1>2, <1>10 DEF PayInv
<1>16. ASSUME ~payOverlaps PROVE PaidApart'
  <2>1. /\ PaidApart /\ paidRuns[n] = 0
        /\ \A i \in DOMAIN payRuns : payRuns[i].branch = q.branch => ~W!Share(payRuns[i].period, q.period)
    <3>1. PayFound(q)
      BY <1>16, PaySlot DEF q
    <3>. QED
      BY <1>2, <1>4, <1>16, <3>1 DEF PayInv, PayFound
  <2>2. \A p, o : W!Share(p, o) => W!Share(o, p)
    BY DEF W!Share
  <2>3. ASSUME NEW i \in DOMAIN payRuns', NEW k \in DOMAIN payRuns', i # k,
               payRuns'[i].branch = payRuns'[k].branch
        PROVE  ~W!Share(payRuns'[i].period, payRuns'[k].period)
    <3>1. CASE i \in DOMAIN payRuns /\ k \in DOMAIN payRuns
      BY <1>10, <2>1, <2>3, <3>1 DEF PaidApart
    <3>2. CASE i = n /\ k \in DOMAIN payRuns
      BY <1>9, <1>10, <2>1, <2>2, <2>3, <3>2
    <3>3. CASE i \in DOMAIN payRuns /\ k = n
      BY <1>9, <1>10, <2>1, <2>3, <3>3
    <3>. QED
      BY <1>10, <2>3, <3>1, <3>2, <3>3
  <2>4. ASSUME NEW i \in DOMAIN payRuns'
        PROVE  paidRuns'[i] = IF payRuns'[i].status = "PAID" THEN 1 ELSE 0
    <3>1. CASE i \in DOMAIN payRuns
      BY <1>2, <1>10, <2>1, <3>1 DEF PaidApart
    <3>2. CASE i = n
      BY <1>2, <1>9, <1>10, <2>1, <3>2
    <3>. QED
      BY <1>10, <3>1, <3>2
  <2>. QED
    BY <2>3, <2>4 DEF PaidApart
<1>17. slips' \subseteq SlipRows /\ paidRuns' \in [1..MaxRuns -> Nat] /\ q.pc # "idle"
       /\ DOMAIN payRuns \subseteq DOMAIN payRuns'
  BY <1>2, <1>6, <1>10, PayRows
<1>. QED
  BY <1>2, <1>10, <1>12, <1>13, <1>14, <1>15, <1>16, <1>17, PayWrites DEF q

\* A run and its slips are moved on together.
LEMMA RunMoved ==
  ASSUME PayrollSizes, PayInv, NEW r \in Clerks, W!Approve(r) \/ W!Pay(r)
  PROVE  PayInv'
<1>. DEFINE q == payReq[r]
            k == q.run
<1>1. PICK status \in W!RunStatus :
          /\ W!SetStatus(k, status, SlipIs(status)) /\ W!Finish(r)
          /\ UNCHANGED <<adjustments, payCrashes>> /\ q.pc \in {"approve", "pay"}
          /\ \/ q.pc = "approve" /\ status = "APPROVED" /\ paidRuns' = paidRuns
             \/ q.pc = "pay" /\ status = "PAID" /\ paidRuns' = [paidRuns EXCEPT ![k] = @ + 1]
  <2>1. CASE W!Approve(r)
    <3>1. "APPROVED" \in W!RunStatus /\ SlipIs("APPROVED") = "FINAL"
      BY DEF W!RunStatus, SlipIs
    <3>. QED
      BY <2>1, <3>1 DEF W!Approve
  <2>2. CASE W!Pay(r)
    <3>1. "PAID" \in W!RunStatus /\ SlipIs("PAID") = "PAID"
      BY DEF W!RunStatus, SlipIs
    <3>. QED
      BY <2>2, <3>1 DEF W!Pay
  <2>. QED
    BY <2>1, <2>2
<1>2. /\ k \in DOMAIN payRuns /\ k \in 1..MaxRuns /\ (~payOverlaps => PayFound(q)) /\ q.pc # "idle"
  <2>1. PayKnown(q) /\ (~payOverlaps => PayFound(q))
    BY PaySlot
  <2>. QED
    <3>1. k \in DOMAIN payRuns /\ q.pc # "idle"
      BY <1>1, <2>1 DEF PayKnown
    <3>2. k \in 1..MaxRuns
      <4>1. DOMAIN payRuns = 1..Len(payRuns) /\ Len(payRuns) \in Nat /\ Len(payRuns) <= MaxRuns
        BY PayRows
      <4>2. MaxRuns \in Nat
        BY DEF PayrollSizes
      <4>. HIDE DEF k
      <4>. QED
        BY <3>1, <4>1, <4>2
    <3>. QED
      BY <2>1, <3>1, <3>2
<1>. HIDE DEF k
<1>. DEFINE row == [payRuns[k] EXCEPT !.status = status]
            h == [s \in slips |-> IF s.run = k THEN [s EXCEPT !.status = SlipIs(status)] ELSE s]
<1>3. /\ row \in RunRows /\ row.branch = payRuns[k].branch /\ row.period = payRuns[k].period
      /\ row.status = status /\ row.count = payRuns[k].count /\ row.net = payRuns[k].net
  <2>1. payRuns[k] \in RunRows
    BY <1>2, PayRows
  <2>. QED
    BY <2>1 DEF RunRows
<1>4. ASSUME NEW s \in slips
      PROVE  /\ h[s] \in SlipRows /\ h[s].run = s.run /\ h[s].of = s.of /\ h[s].adj = s.adj
             /\ h[s].net = s.net
             /\ s.run = k => h[s].status = SlipIs(status)
             /\ s.run # k => h[s] = s
  <2>1. s \in SlipRows
    BY PayRows
  <2>2. SlipIs(status) \in W!SlipStatus
    BY DEF SlipIs, W!RunStatus, W!SlipStatus
  <2>. QED
    BY <2>1, <2>2 DEF SlipRows
<1>5. payRuns' = [payRuns EXCEPT ![k] = row] /\ slips' = {h[s] : s \in slips}
  <2>1. payRuns' = [payRuns EXCEPT ![k].status = status]
    BY <1>1 DEF W!SetStatus, k
  <2>2. slips' = {IF s.run = k THEN [s EXCEPT !.status = SlipIs(status)] ELSE s : s \in slips}
    BY <1>1 DEF W!SetStatus, k
  <2>. QED
    BY <2>1, <2>2
<1>. HIDE DEF row, h
<1>6. /\ payRuns' \in Seq(RunRows) /\ Len(payRuns') <= MaxRuns
      /\ DOMAIN payRuns' = DOMAIN payRuns /\ payRuns'[k] = row
      /\ \A i \in DOMAIN payRuns : i # k => payRuns'[i] = payRuns[i]
  <2>1. ASSUME NEW S, NEW x \in S, NEW s \in Seq(S), NEW i \in DOMAIN s
        PROVE  LET t == [s EXCEPT ![i] = x] IN
               /\ t \in Seq(S) /\ Len(t) = Len(s) /\ t[i] = x
               /\ DOMAIN t = DOMAIN s
               /\ \A f \in DOMAIN s : f # i => t[f] = s[f]
    BY <2>1
  <2>2. payRuns \in Seq(RunRows) /\ Len(payRuns) <= MaxRuns
    BY PayRows
  <2>. HIDE DEF RunRows
  <2>. QED
    BY <1>2, <1>3, <1>5, <2>1, <2>2
<1>7. /\ slips' \subseteq SlipRows
      /\ \A s \in slips' : \E t \in slips : s = h[t]
  BY <1>4, <1>5
<1>8. ASSUME NEW i \in DOMAIN payRuns
      PROVE  /\ payRuns'[i].branch = payRuns[i].branch /\ payRuns'[i].period = payRuns[i].period
             /\ payRuns'[i].count = payRuns[i].count /\ payRuns'[i].net = payRuns[i].net
             /\ payRuns'[i].status = IF i = k THEN status ELSE payRuns[i].status
  BY <1>3, <1>6
<1>9. ASSUME NEW s \in slips' PROVE SlipRight(s)'
  <2>1. PICK t \in slips : s = h[t]
    BY <1>7
  <2>2. SlipRight(t)
    BY DEF PayInv
  <2>3. /\ s.run = t.run /\ s.of = t.of /\ s.adj = t.adj /\ s.net = t.net
        /\ s.run = k => s.status = SlipIs(status)
        /\ s.run # k => s.status = t.status
    BY <1>4, <2>1
  <2>4. /\ s.run \in DOMAIN payRuns' /\ payRuns'[s.run].branch = payRuns[t.run].branch
        /\ payRuns'[s.run].period = payRuns[t.run].period
        /\ s.status = SlipIs(payRuns'[s.run].status)
    BY <1>6, <1>8, <2>2, <2>3 DEF SlipRight
  <2>5. adjustments' = adjustments
    BY <1>1
  <2>. QED
    BY <2>2, <2>3, <2>4, <2>5 DEF SlipRight, Counts
<1>10. \A s, t \in slips : h[s] = h[t] => s = t
  <2>1. ASSUME NEW s \in slips, NEW t \in slips, h[s] = h[t] PROVE s = t
    <3>1. s.run = t.run /\ s.of = t.of
      BY <1>4, <2>1
    <3>. QED
      BY <3>1 DEF PayInv, OneSlip
  <2>. QED
    BY <2>1
<1>11. OneSlip'
  <2>1. ASSUME NEW s \in slips', NEW t \in slips', s.run = t.run, s.of = t.of PROVE s = t
    <3>1. PICK a \in slips, b \in slips : s = h[a] /\ t = h[b]
      BY <1>7
    <3>2. a.run = b.run /\ a.of = b.of
      BY <1>4, <2>1, <3>1
    <3>. QED
      BY <3>1, <3>2 DEF PayInv, OneSlip
  <2>. QED
    BY <2>1 DEF OneSlip
<1>12. ASSUME NEW i \in DOMAIN payRuns' PROVE RunRight(i)'
  <2>. DEFINE C == W!SlipsOf(i)
  <2>1. C \subseteq slips /\ C \subseteq SlipRows /\ \A s, t \in C : s.of = t.of => s = t
    BY PayRows DEF W!SlipsOf, PayInv, OneSlip
  <2>2. W!SlipsOf(i)' = {h[s] : s \in C}
    <3>1. W!SlipsOf(i)' = {s \in slips' : s.run = i}
      BY DEF W!SlipsOf
    <3>2. ASSUME NEW s \in slips, h[s].run = i PROVE s \in C
      BY <1>4, <3>2 DEF W!SlipsOf
    <3>3. ASSUME NEW s \in C PROVE h[s] \in slips' /\ h[s].run = i
      BY <1>4, <1>5 DEF W!SlipsOf
    <3>. HIDE DEF C
    <3>. QED
      BY <1>7, <3>1, <3>2, <3>3
  <2>. HIDE DEF C
  <2>3. IsFiniteSet(C)
    BY <2>1, SlipsFinite
  <2>4. /\ \A s, t \in C : h[s] = h[t] => s = t
        /\ \A s \in C : h[s].net = s.net
    BY <1>4, <1>10, <2>1
  <2>. DEFINE D == {h[s] : s \in C}
  <2>5. W!Cardinality(D) = W!Cardinality(C) /\ NetTotal(D) = NetTotal(C)
    BY <2>1, <2>3, <2>4, SlipsMoved
  <2>. HIDE DEF D
  <2>6. payRuns[i].count = W!Cardinality(C) /\ payRuns[i].net = NetTotal(C)
    BY <1>6 DEF PayInv, RunRight, C
  <2>7. W!SlipsOf(i)' = D
    BY <2>2 DEF D
  <2>8. payRuns'[i].count = W!Cardinality(D) /\ payRuns'[i].net = NetTotal(D)
    BY <1>6, <1>8, <2>5, <2>6
  <2>. QED
    BY <2>7, <2>8 DEF RunRight
<1>13. /\ paidRuns' \in [1..MaxRuns -> Nat]
       /\ \A i \in (1..MaxRuns) \ DOMAIN payRuns' : paidRuns'[i] = 0
       /\ \A i \in 1..MaxRuns : i # k => paidRuns'[i] = paidRuns[i]
       /\ paidRuns'[k] = IF status = "PAID" THEN paidRuns[k] + 1 ELSE paidRuns[k]
  <2>1. paidRuns \in [1..MaxRuns -> Nat] /\ \A i \in (1..MaxRuns) \ DOMAIN payRuns : paidRuns[i] = 0
    BY PayRows DEF PayInv
  <2>2. k \in DOMAIN payRuns /\ DOMAIN payRuns' = DOMAIN payRuns /\ k \in 1..MaxRuns
    BY <1>2, <1>6
  <2>3. CASE paidRuns' = paidRuns /\ status = "APPROVED"
    BY <2>1, <2>2, <2>3
  <2>4. CASE paidRuns' = [paidRuns EXCEPT ![k] = @ + 1] /\ status = "PAID"
    BY <2>1, <2>2, <2>4
  <2>. QED
    BY <1>1, <2>3, <2>4 DEF k
<1>14. ASSUME ~payOverlaps PROVE PaidApart'
  <2>1. /\ PaidApart
        /\ status = "PAID" => payRuns[k].status = "APPROVED"
        /\ status = "APPROVED" => payRuns[k].status = "DRAFT"
    BY <1>1, <1>2, <1>14 DEF PayInv, PayFound, k
  <2>2. paidRuns[k] = 0 /\ status \in {"PAID", "APPROVED"}
    BY <1>1, <1>2, <2>1 DEF PaidApart
  <2>3. ASSUME NEW i \in DOMAIN payRuns', NEW j \in DOMAIN payRuns', i # j,
               payRuns'[i].branch = payRuns'[j].branch
        PROVE  ~W!Share(payRuns'[i].period, payRuns'[j].period)
    BY <1>6, <1>8, <2>1, <2>3 DEF PaidApart
  <2>4. ASSUME NEW i \in DOMAIN payRuns'
        PROVE  paidRuns'[i] = IF payRuns'[i].status = "PAID" THEN 1 ELSE 0
    <3>1. i \in 1..MaxRuns
      BY <1>6, PayRows DEF PayrollSizes
    <3>2. CASE i = k
      BY <1>2, <1>8, <1>13, <2>2, <3>2
    <3>3. CASE i # k
      BY <1>6, <1>8, <1>13, <2>1, <3>1, <3>3 DEF PaidApart
    <3>. QED
      BY <3>2, <3>3
  <2>. QED
    BY <2>3, <2>4 DEF PaidApart
<1>15. DOMAIN payRuns \subseteq DOMAIN payRuns' /\ W!Finish(r) /\ UNCHANGED <<adjustments, payCrashes>>
  BY <1>1, <1>6
<1>. QED
  BY <1>2, <1>6, <1>7, <1>9, <1>11, <1>12, <1>13, <1>14, <1>15, PayWrites

LEMMA PayStep == ASSUME PayrollSizes, PayInv, [W!Next]_(W!vars) PROVE PayInv'
<1>1. CASE UNCHANGED W!vars
  <2>1. /\ UNCHANGED <<payRuns, slips, adjustments, paidRuns>>
        /\ UNCHANGED <<payReq, payOverlaps, payArrived, payCrashes>>
    BY <1>1 DEF W!vars
  <2>2. W!TypeOK' /\ OneSlip' /\ \A i \in (1..MaxRuns) \ DOMAIN payRuns' : paidRuns'[i] = 0
    BY <2>1 DEF PayInv, W!TypeOK, OneSlip
  <2>3. \A r \in Clerks : PayKnown(payReq[r])'
    BY <2>1 DEF PayInv, PayKnown, Counts
  <2>4. \A s \in slips' : SlipRight(s)'
    BY <2>1 DEF PayInv, SlipRight, Counts
  <2>5. \A i \in DOMAIN payRuns' : RunRight(i)'
    BY <2>1 DEF PayInv, RunRight, W!SlipsOf
  <2>6. ~payOverlaps' => PaidApart' /\ PayAlone' /\ \A r \in Clerks : PayFound(payReq[r])'
    BY <2>1 DEF PayInv, PaidApart, PayAlone, PayFound
  <2>. QED
    BY <2>2, <2>3, <2>4, <2>5, <2>6 DEF PayInv
<1>2. ASSUME NEW r \in Clerks, W!Proceed(r) PROVE PayInv'
  BY <1>2, AdjustmentsRead, RunBuilt, RunMoved DEF W!Proceed
<1>. QED
  BY <1>1, <1>2, AdjustmentMade, PayArrives, PayEnds DEF W!Next

-----------------------------------------------------------------------------
(* What follows of payroll                                                 *)

LEMMA SlipsHold == ASSUME PayrollSizes, PayInv PROVE W!SlipsAgree
<1>1. ASSUME NEW i \in DOMAIN payRuns
      PROVE  W!Cardinality({s.of : s \in W!SlipsOf(i)}) = W!Cardinality(W!SlipsOf(i))
  <2>. DEFINE C == W!SlipsOf(i)
              D == {s.of : s \in C}
              f == [s \in C |-> s.of]
  <2>1. C \subseteq SlipRows /\ \A s, t \in C : s.of = t.of => s = t
    BY PayRows DEF W!SlipsOf, PayInv, OneSlip
  <2>. HIDE DEF C
  <2>2. f \in Surjection(C, D) /\ f \in Injection(C, D)
    BY <2>1 DEF Surjection, Injection, IsInjective
  <2>3. IsFiniteSet(C)
    BY <2>1, SlipsFinite
  <2>. HIDE DEF D, f
  <2>4. Cardinality(D) = Cardinality(C)
    BY <2>2, <2>3, FS_Surjection
  <2>. QED
    BY <2>4, PayCounts DEF D, C
<1>2. ASSUME NEW i \in DOMAIN payRuns, NEW s \in W!SlipsOf(i)
      PROVE  /\ s.run = i /\ SlipRight(s)
             /\ s.status = [DRAFT |-> "DRAFT", APPROVED |-> "FINAL", PAID |-> "PAID"][payRuns[i].status]
             /\ \A a \in s.adj : adjustments[a].of = s.of /\ adjustments[a].branch = payRuns[i].branch
             /\ s.net = Base[s.of] + Earned(adjustments, s.adj)
             /\ s.of \in W!PaidBy(payRuns[i].branch)
  <2>1. s \in slips /\ s.run = i
    BY DEF W!SlipsOf
  <2>2. SlipRight(s)
    BY <2>1 DEF PayInv
  <2>. QED
    BY <2>1, <2>2 DEF SlipRight, SlipIs, Counts
<1>3. \A i \in DOMAIN payRuns : payRuns[i].count = W!Cardinality(W!SlipsOf(i))
                                /\ payRuns[i].net = NetTotal(W!SlipsOf(i))
  BY DEF PayInv, RunRight
<1>4. ASSUME NEW i \in DOMAIN payRuns
      PROVE  payRuns[i].net = W!MapThenSumSet(LAMBDA s : s.net, W!SlipsOf(i))
  BY <1>3 DEF NetTotal
<1>5. ASSUME NEW i \in DOMAIN payRuns, NEW s \in W!SlipsOf(i)
      PROVE  s.net = Base[s.of] + W!MapThenSumSet(LAMBDA a : W!Signed(adjustments[a].extra), s.adj)
  BY <1>2 DEF Earned
<1>6. \A i \in DOMAIN payRuns : {s.of : s \in W!SlipsOf(i)} \subseteq W!PaidBy(payRuns[i].branch)
  BY <1>2
<1>. QED
  BY <1>1, <1>2, <1>3, <1>4, <1>5, <1>6, ZenonT(30) DEF W!SlipsAgree

\* A day of a branch's period is in one run, so an adjustment is on one slip.
LEMMA PaidHolds == ASSUME PayrollSizes, PayInv PROVE W!PaidOnce
<1>1. ASSUME ~payOverlaps, NEW s \in slips, NEW t \in slips, s # t, NEW a \in s.adj, a \in t.adj
      PROVE  FALSE
  <2>. DEFINE day == adjustments[a].extra.day
              p == payRuns[s.run].period
              o == payRuns[t.run].period
  <2>1. SlipRight(s) /\ SlipRight(t) /\ PaidApart
    BY <1>1 DEF PayInv
  <2>2. /\ a \in DOMAIN adjustments /\ s.of = t.of
        /\ s.run \in DOMAIN payRuns /\ t.run \in DOMAIN payRuns
        /\ payRuns[s.run].branch = payRuns[t.run].branch
        /\ day \in p.from .. p.to /\ day \in o.from .. o.to
    BY <1>1, <2>1 DEF SlipRight, Counts
  <2>3. s.run # t.run
    BY <1>1, <2>2 DEF PayInv, OneSlip
  <2>4. day \in Int /\ p.from \in Int /\ p.to \in Int /\ o.from \in Int /\ o.to \in Int
    <3>1. adjustments[a] \in AdjustmentRows /\ payRuns[s.run] \in RunRows /\ payRuns[t.run] \in RunRows
      BY <2>2, PayRows
    <3>. QED
      BY <3>1 DEF AdjustmentRows, RunRows, PayrollSizes
  <2>. HIDE DEF day, p, o
  <2>5. W!Share(p, o)
    BY <2>2, <2>4 DEF W!Share
  <2>. QED
    BY <2>1, <2>2, <2>3, <2>5 DEF PaidApart, p, o
<1>2. ~payOverlaps => PaidApart
  BY DEF PayInv
<1>3. ASSUME ~payOverlaps, NEW s \in slips, NEW t \in slips, s # t PROVE s.adj \cap t.adj = {}
  BY <1>1, <1>3
<1>. QED
  BY <1>2, <1>3 DEF W!PaidOnce, PaidApart

\* However building, approving and paying interleave and crash, the invariant of
\* pay runs holds.
THEOREM PayrollInvariance == ASSUME PayrollSizes PROVE W!Spec => []PayInv
<1>1. W!Init => PayInv
  BY PayInit
<1>2. PayInv /\ [W!Next]_(W!vars) => PayInv'
  BY PayStep
<1>. QED
  BY <1>1, <1>2, PTL DEF W!Spec

\* Runs, slips, adjustments and what requests carry keep their types, the totals
\* of a run (folds over slips and adjustments) among them.
THEOREM PayrollTypeCorrect == ASSUME PayrollSizes PROVE W!Spec => []W!TypeOK
<1>1. PayInv => W!TypeOK
  BY DEF PayInv
<1>. QED
  BY <1>1, PayrollInvariance, PTL

\* However requests race, a run counts and totals its slips, an employee has one
\* of them, and each comes to base pay and the adjustments it names; unless they
\* overlapped, no day of a branch is paid twice, no adjustment is on two slips and
\* a run is paid once (buildPayRun, approvePayRun, payPayRun).
THEOREM PayrollIsRight == ASSUME PayrollSizes PROVE W!Spec => []W!PayAgrees
<1>1. PayInv => W!PayAgrees
  BY SlipsHold, PaidHolds DEF W!PayAgrees
<1>. QED
  BY <1>1, PayrollInvariance, PTL

=============================================================================
