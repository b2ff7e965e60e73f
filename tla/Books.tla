--------------------------------- MODULE Books ---------------------------------
(***************************************************************************)
(* The general ledger (LedgerService), the supplier bills and payments     *)
(* posted to it (AccountsPayableService), and the close of a fiscal period *)
(* (BankRecService).                                                       *)
(*                                                                         *)
(* A request is a sequence of single database calls; a payment with its    *)
(* allocations, a reversal and a period close are transactions that trust  *)
(* what was read before them.  Document numbers are read, then inserted    *)
(* under a unique index.  A journal moves one unit of money, to the side   *)
(* its kind ordinarily goes to or, flip, to the other; a payment names a   *)
(* bill once (unique allocation).                                          *)
(***************************************************************************)
EXTENDS Integers, Sequences, FiniteSets, FiniteSetsExt

CONSTANTS
    Bills,          \* vendor bills
    TotalOf,        \* the total of each
    Allocations,    \* what payments are asked to pay: functions of bills
    Requests,       \* requests in progress at a time
    None,
    MaxPayments, MaxJournals, MaxRuns, MaxArrivals, MaxCrashes   \* bounds

VARIABLES
    bills,      \* vendor_bills rows: status and outstandingAmount
    payments,   \* vendor_payments rows: their allocations, status and journal
    journals,   \* journal_entries rows
    period,     \* the fiscal period's status
    closes,     \* period_close_runs rows: the earnings, and the journals there were
    runs,       \* posting_runs rows of the replays of a payment
    req,        \* req[r]: the request's next call and what it carries
    overlaps,   \* whether two requests were ever in progress at once
    arrived,    \* requests taken
    crashes

vars == <<bills, payments, journals, period, closes, runs, req, overlaps, arrived, crashes>>

BillStatus == {"DRAFT", "APPROVED", "PARTIALLY_PAID", "PAID"}
JournalKinds == {"INCOME", "EXPENSE", "TRANSFER"}

PC == {"idle", "approve", "payNumber", "pay", "number", "journal", "posted", "findReversal",
       "reverse", "run", "finish", "fail", "income", "expense", "close", "lock"}

\* number is a document number that was read, doc a payment, kind, flip and in
\* what a journal will be, of the journal to be reversed, run a posting run.
Idle == [pc |-> "idle", bill |-> None, pays |-> <<>>, seen |-> <<>>, number |-> 0, doc |-> 0,
         kind |-> "TRANSFER", flip |-> FALSE, in |-> FALSE, of |-> 0, run |-> 0, sum |-> 0]

TypeOK ==
    /\ \A b \in Bills : bills[b] \in [status : BillStatus, outstanding : 0..TotalOf[b]]
    /\ payments \in Seq([pays : Allocations, status : {"PENDING", "POSTED"}, journal : 0..MaxJournals])
    /\ journals \in Seq([kind : JournalKinds, flip : BOOLEAN, in : BOOLEAN, doc : 0..MaxPayments,
                         run : 0..MaxRuns, of : 0..MaxJournals, status : {"POSTED", "REVERSED"}])
    /\ period \in {"OPEN", "CLOSED", "LOCKED"}
    /\ closes \in Seq([earnings : Int, after : 0..MaxJournals])
    /\ runs \in Seq([doc : 1..MaxPayments, status : {"PENDING", "SUCCEEDED", "FAILED"}])
    /\ Len(payments) <= MaxPayments /\ Len(journals) <= MaxJournals /\ Len(runs) <= MaxRuns
    /\ \A r \in Requests : req[r].pc \in PC
    /\ overlaps \in BOOLEAN /\ arrived \in 0..MaxArrivals /\ crashes \in 0..MaxCrashes

Init ==
    /\ bills = [b \in Bills |-> [status |-> "DRAFT", outstanding |-> TotalOf[b]]]
    /\ payments = <<>> /\ journals = <<>> /\ runs = <<>> /\ closes = <<>>
    /\ period = "OPEN"
    /\ req = [r \in Requests |-> Idle]
    /\ overlaps = FALSE /\ arrived = 0 /\ crashes = 0

-----------------------------------------------------------------------------
(* Building blocks                                                         *)

Start(r, d) ==
    /\ req[r].pc = "idle"
    /\ arrived < MaxArrivals
    /\ arrived' = arrived + 1
    /\ req' = [req EXCEPT ![r] = d]
    /\ overlaps' = (overlaps \/ \E q \in Requests \ {r} : req[q].pc # "idle")

Goto(r, q) == req' = [req EXCEPT ![r].pc = q] /\ UNCHANGED <<overlaps, arrived>>
Finish(r) == req' = [req EXCEPT ![r] = Idle] /\ UNCHANGED <<overlaps, arrived>>

Reversals(j) == {i \in DOMAIN journals : journals[i].of = j}

\* What closeFiscalPeriod sums: the POSTED journals of the period that credit
\* revenue, or that debit an expense.
Posted(kind) ==
    Cardinality({j \in DOMAIN journals : /\ journals[j].in /\ journals[j].status = "POSTED"
                                         /\ journals[j].kind = kind /\ ~journals[j].flip})

-----------------------------------------------------------------------------
(* approveVendorBill and createApPayment                                   *)

ApproveRead(r, b) ==
    /\ bills[b].status = "DRAFT"
    /\ Start(r, [Idle EXCEPT !.pc = "approve", !.bill = b])
    /\ UNCHANGED <<bills, payments, journals, period, closes, runs, crashes>>

ApproveWrite(r) ==
    /\ req[r].pc = "approve"
    /\ bills' = [bills EXCEPT ![req[r].bill].status = "APPROVED"]
    /\ Finish(r)
    /\ UNCHANGED <<payments, journals, period, closes, runs, crashes>>

\* Mutant: the allocations are not compared with what is outstanding.
PayReadAny(r, pays) ==
    /\ \A b \in DOMAIN pays : bills[b].status \in {"APPROVED", "PARTIALLY_PAID"}
    /\ Start(r, [Idle EXCEPT !.pc = "payNumber", !.pays = pays,
                             !.seen = [b \in DOMAIN pays |-> bills[b].outstanding]])
    /\ UNCHANGED <<bills, payments, journals, period, closes, runs, crashes>>

PayRead(r, pays) ==
    /\ \A b \in DOMAIN pays : /\ bills[b].status \in {"APPROVED", "PARTIALLY_PAID"}
                              /\ pays[b] <= bills[b].outstanding
    /\ Start(r, [Idle EXCEPT !.pc = "payNumber", !.pays = pays,
                             !.seen = [b \in DOMAIN pays |-> bills[b].outstanding]])
    /\ UNCHANGED <<bills, payments, journals, period, closes, runs, crashes>>

ReadPaymentNumber(r) ==
    /\ req[r].pc = "payNumber"
    /\ req' = [req EXCEPT ![r].pc = "pay", ![r].number = Len(payments) + 1]
    /\ UNCHANGED <<bills, payments, journals, period, closes, runs, overlaps, arrived, crashes>>

\* The payment, its allocations, and the bills less what was outstanding when
\* they were read.
Pay(r) ==
    LET pays == req[r].pays
        left == [b \in DOMAIN pays |-> Max({req[r].seen[b] - pays[b], 0})]
    IN
    /\ req[r].pc = "pay"
    /\ IF req[r].number \in DOMAIN payments
       THEN Finish(r) /\ UNCHANGED <<bills, payments>>
       ELSE /\ Len(payments) < MaxPayments
            /\ payments' = Append(payments, [pays |-> pays, status |-> "PENDING", journal |-> 0])
            /\ bills' = [b \in Bills |->
                   IF b \in DOMAIN pays
                   THEN [status |-> IF left[b] = 0 THEN "PAID" ELSE "PARTIALLY_PAID",
                         outstanding |-> left[b]]
                   ELSE bills[b]]
            /\ req' = [req EXCEPT ![r] = [Idle EXCEPT !.pc = "number", !.doc = Len(payments) + 1]]
            /\ UNCHANGED <<overlaps, arrived>>
    /\ UNCHANGED <<journals, period, closes, runs, crashes>>

\* No accounts to post to are configured: the payment stays PENDING (the error
\* is caught), a replay fails.
NoAccounts(r) ==
    /\ req[r].pc = "number" /\ req[r].doc # 0 /\ req[r].of = 0
    /\ IF req[r].run = 0 THEN Finish(r) ELSE Goto(r, "fail")
    /\ UNCHANGED <<bills, payments, journals, period, closes, runs, crashes>>

MarkPosted(r) ==
    /\ req[r].pc = "posted"
    /\ payments' = [payments EXCEPT ![req[r].doc] = [@ EXCEPT !.status = "POSTED",
                                                             !.journal = req[r].of]]
    /\ Finish(r)
    /\ UNCHANGED <<bills, journals, period, closes, runs, crashes>>

-----------------------------------------------------------------------------
(* createJournal, for a manual entry, a payment, or a replay               *)

\* A manual entry may run in either direction: any lines that balance are taken,
\* a debit of revenue or a credit of an expense (flip) among them.
ManualRead(r, kind, flip, in) ==
    /\ in => period = "OPEN"
    /\ Start(r, [Idle EXCEPT !.pc = "number", !.kind = kind, !.flip = flip, !.in = in])
    /\ UNCHANGED <<bills, payments, journals, period, closes, runs, crashes>>

\* nextJournalNumber, of a reversal too.
ReadNumber(r) ==
    /\ req[r].pc = "number"
    /\ req' = [req EXCEPT ![r].pc = IF req[r].of # 0 THEN "reverse" ELSE "journal",
                          ![r].number = Len(journals) + 1]
    /\ UNCHANGED <<bills, payments, journals, period, closes, runs, overlaps, arrived, crashes>>

NewJournal(r) ==
    [kind |-> req[r].kind, flip |-> req[r].flip, in |-> req[r].in, doc |-> req[r].doc,
     run |-> req[r].run, of |-> req[r].of, status |-> "POSTED"]

\* The insert; a number that was taken meanwhile is an error, which a payment's
\* posting swallows and a replay records.
InsertJournal(r) ==
    /\ req[r].pc = "journal"
    /\ IF req[r].number \in DOMAIN journals
       THEN /\ IF req[r].run # 0 THEN Goto(r, "fail") ELSE Finish(r)
            /\ UNCHANGED journals
       ELSE /\ Len(journals) < MaxJournals
            /\ journals' = Append(journals, NewJournal(r))
            /\ CASE req[r].run # 0 -> Goto(r, "finish")
                 [] req[r].run = 0 /\ req[r].doc # 0 ->
                        /\ req' = [req EXCEPT ![r].pc = "posted", ![r].of = Len(journals) + 1]
                        /\ UNCHANGED <<overlaps, arrived>>
                 [] OTHER -> Finish(r)
    /\ UNCHANGED <<bills, payments, period, closes, runs, crashes>>

-----------------------------------------------------------------------------
(* reverseJournal.  The period of the journal is not looked at.            *)

ReverseRead(r, j) ==
    LET o == journals[j] IN
    /\ o.status = "POSTED"
    /\ Start(r, [Idle EXCEPT !.pc = "findReversal", !.of = j, !.kind = o.kind, !.flip = ~o.flip,
                             !.in = o.in, !.doc = o.doc])
    /\ UNCHANGED <<bills, payments, journals, period, closes, runs, crashes>>

FindReversal(r) ==
    /\ req[r].pc = "findReversal"
    /\ IF Reversals(req[r].of) = {} THEN Goto(r, "number") ELSE Finish(r)
    /\ UNCHANGED <<bills, payments, journals, period, closes, runs, crashes>>

\* Mutant: no unique index on reversedFromId.
ReverseAgain(r) ==
    /\ req[r].pc = "reverse"
    /\ IF req[r].number \in DOMAIN journals
       THEN UNCHANGED journals
       ELSE /\ Len(journals) < MaxJournals
            /\ journals' = Append([journals EXCEPT ![req[r].of].status = "REVERSED"], NewJournal(r))
    /\ Finish(r)
    /\ UNCHANGED <<bills, payments, period, closes, runs, crashes>>

\* The reversal and the original's status, unless the number or the unique
\* reversedFromId is taken.
Reverse(r) ==
    /\ req[r].pc = "reverse"
    /\ IF req[r].number \in DOMAIN journals \/ Reversals(req[r].of) # {}
       THEN UNCHANGED journals
       ELSE /\ Len(journals) < MaxJournals
            /\ journals' = Append([journals EXCEPT ![req[r].of].status = "REVERSED"], NewJournal(r))
    /\ Finish(r)
    /\ UNCHANGED <<bills, payments, period, closes, runs, crashes>>

-----------------------------------------------------------------------------
(* replayPosting                                                           *)

ReplayFind(r, p) ==
    /\ \A i \in DOMAIN runs : ~(runs[i].doc = p /\ runs[i].status = "SUCCEEDED")
    /\ Start(r, [Idle EXCEPT !.pc = "run", !.doc = p])
    /\ UNCHANGED <<bills, payments, journals, period, closes, runs, crashes>>

InsertRun(r) ==
    /\ req[r].pc = "run"
    /\ Len(runs) < MaxRuns
    /\ runs' = Append(runs, [doc |-> req[r].doc, status |-> "PENDING"])
    /\ req' = [req EXCEPT ![r].pc = "number", ![r].run = Len(runs) + 1]
    /\ UNCHANGED <<bills, payments, journals, period, closes, overlaps, arrived, crashes>>

\* Once its journal is there the run has SUCCEEDED, else (an OPEN posting error
\* is inserted and) it has FAILED.
FinishRun(r) ==
    /\ req[r].pc \in {"finish", "fail"}
    /\ runs' = [runs EXCEPT ![req[r].run].status =
                   IF req[r].pc = "finish" THEN "SUCCEEDED" ELSE "FAILED"]
    /\ Finish(r)
    /\ UNCHANGED <<bills, payments, journals, period, closes, crashes>>

-----------------------------------------------------------------------------
(* closeFiscalPeriod and lockFiscalPeriod                                  *)

CloseRead(r) ==
    /\ period = "OPEN"
    /\ Start(r, [Idle EXCEPT !.pc = "income"])
    /\ UNCHANGED <<bills, payments, journals, period, closes, runs, crashes>>

SumIncome(r) ==
    /\ req[r].pc = "income"
    /\ req' = [req EXCEPT ![r].pc = "expense", ![r].sum = Posted("INCOME")]
    /\ UNCHANGED <<bills, payments, journals, period, closes, runs, overlaps, arrived, crashes>>

SumExpenses(r) ==
    /\ req[r].pc = "expense"
    /\ req' = [req EXCEPT ![r].pc = "close", ![r].sum = @ - Posted("EXPENSE")]
    /\ UNCHANGED <<bills, payments, journals, period, closes, runs, overlaps, arrived, crashes>>

\* The period and its close run, whatever the period's status is by now.
Close(r) ==
    /\ req[r].pc = "close"
    /\ period' = "CLOSED"
    /\ closes' = Append(closes, [earnings |-> req[r].sum, after |-> Len(journals)])
    /\ Finish(r)
    /\ UNCHANGED <<bills, payments, journals, runs, crashes>>

LockRead(r) ==
    /\ period = "CLOSED"
    /\ Start(r, [Idle EXCEPT !.pc = "lock"])
    /\ UNCHANGED <<bills, payments, journals, period, closes, runs, crashes>>

LockWrite(r) ==
    /\ req[r].pc = "lock"
    /\ period' = "LOCKED"
    /\ Finish(r)
    /\ UNCHANGED <<bills, payments, journals, closes, runs, crashes>>

-----------------------------------------------------------------------------

Crash(r) ==
    /\ req[r].pc # "idle"
    /\ crashes < MaxCrashes
    /\ crashes' = crashes + 1
    /\ Finish(r)
    /\ UNCHANGED <<bills, payments, journals, period, closes, runs>>

Arrive(r) ==
    \/ \E b \in Bills : ApproveRead(r, b)
    \/ \E pays \in Allocations : PayRead(r, pays)
    \/ \E kind \in {"INCOME", "EXPENSE"}, flip, in \in BOOLEAN : ManualRead(r, kind, flip, in)
    \/ \E j \in DOMAIN journals : ReverseRead(r, j)
    \/ \E p \in DOMAIN payments : ReplayFind(r, p)
    \/ CloseRead(r) \/ LockRead(r)

Proceed(r) ==
    \/ ApproveWrite(r) \/ ReadPaymentNumber(r) \/ Pay(r) \/ NoAccounts(r) \/ MarkPosted(r)
    \/ ReadNumber(r) \/ InsertJournal(r) \/ FindReversal(r) \/ Reverse(r)
    \/ InsertRun(r) \/ FinishRun(r) \/ SumIncome(r) \/ SumExpenses(r) \/ Close(r) \/ LockWrite(r)

Next == \E r \in Requests : Arrive(r) \/ Proceed(r) \/ Crash(r)

Spec == Init /\ [][Next]_vars

-----------------------------------------------------------------------------
(* What must hold.                                                         *)

\* The net of all entries of the period, reversals and reversed ones included.
Net(kind) ==
    LET of(flip) == Cardinality({j \in DOMAIN journals :
                       journals[j].in /\ journals[j].kind = kind /\ journals[j].flip = flip})
    IN  of(FALSE) - of(TRUE)

\* The contrary entries of the period that reverse none: a debit of revenue, or
\* a credit of an expense, booked by hand.
Contra(kind) ==
    Cardinality({j \in DOMAIN journals : /\ journals[j].in /\ journals[j].kind = kind
                                         /\ journals[j].flip /\ journals[j].of = 0})

\* However requests race, a journal is reversed at most once and is REVERSED
\* exactly if it is, so that closing a period may leave reversed journals and
\* contrary entries out: what it sums is the net of everything posted, but for
\* the contrary entries that reverse none.  Those it misses, and if they were
\* reversed it counts the reversal: it is over the net by one for each.
ReversedOnce ==
    /\ \A j \in DOMAIN journals :
           Cardinality(Reversals(j)) = IF journals[j].status = "REVERSED" THEN 1 ELSE 0
    /\ \A kind \in {"INCOME", "EXPENSE"} : Posted(kind) = Net(kind) + Contra(kind)

\* A payment is POSTED by one journal of its own; one that has a journal is
\* POSTED, or about to be, or a crash came between.  A run that SUCCEEDED has
\* its journal, and a payment is replayed once unless requests overlapped or
\* died.
PostingsBacked ==
    LET own(p) == {j \in DOMAIN journals :
                      journals[j].doc = p /\ journals[j].run = 0 /\ journals[j].of = 0}
        replayed(p) == {j \in DOMAIN journals :
                           journals[j].doc = p /\ journals[j].run # 0 /\ journals[j].of = 0}
    IN
    /\ \A p \in DOMAIN payments :
           /\ payments[p].status = "POSTED" => own(p) = {payments[p].journal}
           /\ own(p) # {} => \/ payments[p].status = "POSTED" \/ crashes > 0
                             \/ \E r \in Requests : req[r].pc = "posted" /\ req[r].doc = p
           /\ ~overlaps /\ crashes = 0 => Cardinality(replayed(p)) <= 1
    /\ \A i \in DOMAIN runs : runs[i].status = "SUCCEEDED" =>
           \E j \in replayed(runs[i].doc) : journals[j].run = i

\* What is outstanding on a bill is its total less the payments allocated to
\* it, and its status says so, unless requests overlapped: a payment writes
\* what it computed from a bill it read earlier.
BillsSettle ==
    ~overlaps => \A b \in Bills :
        LET paid == MapThenSumSet(LAMBDA p : payments[p].pays[b],
                        {p \in DOMAIN payments : b \in DOMAIN payments[p].pays})
        IN  /\ bills[b].outstanding = TotalOf[b] - paid
            /\ bills[b].status = "PAID" <=> bills[b].outstanding = 0
            /\ bills[b].status = "PARTIALLY_PAID" <=> paid > 0 /\ bills[b].outstanding > 0

\* A period that was closed stays settled: its close run has the net of the
\* entries in it, and is over it by the contrary entries that reverse none,
\* apart from reversals posted later, unless requests overlapped (a journal
\* checks the period, then reads its number, then is inserted).
CloseIsSettled ==
    ~overlaps => \A c \in DOMAIN closes :
        /\ Len(closes) = 1 /\ period # "OPEN"
        /\ \A j \in DOMAIN journals :
               j > closes[c].after /\ journals[j].in => journals[j].of # 0
        /\ (\A j \in DOMAIN journals : j > closes[c].after => ~journals[j].in) =>
               closes[c].earnings =
                   Net("INCOME") + Contra("INCOME") - (Net("EXPENSE") + Contra("EXPENSE"))

\* The books as a whole.
BooksAgree == ReversedOnce /\ PostingsBacked /\ BillsSettle /\ CloseIsSettled

=============================================================================
