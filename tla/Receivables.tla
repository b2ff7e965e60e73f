------------------------------ MODULE Receivables ------------------------------
(***************************************************************************)
(* AccountsReceivableService: the invoices of a customer account, and the  *)
(* receipts allocated to them and posted to the ledger.  The account keeps *)
(* an open balance beside the outstanding balance of each invoice.         *)
(*                                                                         *)
(* A request is a sequence of single database calls; a receipt with its    *)
(* allocations is one transaction that trusts the invoices read before it. *)
(* Document numbers are read, then inserted under a unique index.          *)
(***************************************************************************)
EXTENDS Integers, Sequences, FiniteSets, FiniteSetsExt, SequencesExt

CONSTANTS
    Totals,         \* what invoices can come to
    Splits,         \* allocations of a receipt: sequences of an invoice and an amount
    Requests,       \* requests in progress at a time
    MaxInvoices, MaxReceipts, MaxArrivals, MaxCrashes   \* bounds

VARIABLES
    invoices,   \* invoices rows: total, outstandingBalance, status
    receipts,   \* ar_receipts rows with their allocations, status and journal
    balance,    \* the account's openBalance
    journals,   \* how many journals the ledger has of each receipt
    lost,       \* totals of invoices whose request died ahead of the balance
    req,        \* req[r]: the request's next call and what it carries
    overlaps,   \* whether two requests were ever in progress at once
    arrived,    \* requests taken
    crashes

vars == <<invoices, receipts, balance, journals, lost, req, overlaps, arrived, crashes>>

InvoiceStatus == {"ISSUED", "PARTIALLY_PAID", "PAID"}
PC == {"idle", "invoice", "balance", "receiptNumber", "receipt", "journal", "posted"}

\* number is a document number that was read, seen what was outstanding on the
\* invoices, doc a receipt.
Idle == [pc |-> "idle", amount |-> 0, number |-> 0, split |-> <<>>, seen |-> <<>>,
         doc |-> 0, journal |-> FALSE]

TypeOK ==
    /\ invoices \in Seq([total : Totals, outstanding : Nat, status : InvoiceStatus])
    /\ receipts \in Seq([split : Splits, status : {"PENDING", "POSTED"}, journal : BOOLEAN])
    /\ Len(invoices) <= MaxInvoices /\ Len(receipts) <= MaxReceipts
    /\ balance \in Int /\ lost \in Nat
    /\ journals \in [1..MaxReceipts -> Nat]
    /\ \A r \in Requests : req[r].pc \in PC
    /\ overlaps \in BOOLEAN /\ arrived \in 0..MaxArrivals /\ crashes \in 0..MaxCrashes

Init ==
    /\ invoices = <<>> /\ receipts = <<>>
    /\ balance = 0 /\ lost = 0
    /\ journals = [i \in 1..MaxReceipts |-> 0]
    /\ req = [r \in Requests |-> Idle]
    /\ overlaps = FALSE /\ arrived = 0 /\ crashes = 0

-----------------------------------------------------------------------------
(* Building blocks                                                         *)

Start(r, d) ==
    /\ req[r].pc = "idle"
    /\ arrived < MaxArrivals
    /\ arrived' = arrived + 1
    /\ req' = [req EXCEPT ![r] = d]
    /\ overlaps' = (overlaps \/ \E q \in Requests \ {r} : req[q].pc # "idle")

Finish(r) == req' = [req EXCEPT ![r] = Idle] /\ UNCHANGED <<overlaps, arrived>>

\* What a split allocates, and what of it to invoice i.
Allocated(split) == FoldSeq(LAMBDA a, sum : a.amount + sum, 0, split)
To(split, i) == Allocated(SelectSeq(split, LAMBDA a : a.invoice = i))

-----------------------------------------------------------------------------
(* createInvoice                                                           *)

InvoiceNumber(r, total) ==
    /\ Start(r, [Idle EXCEPT !.pc = "invoice", !.amount = total, !.number = Len(invoices) + 1])
    /\ UNCHANGED <<invoices, receipts, balance, journals, lost, crashes>>

InsertInvoice(r) ==
    LET n == req[r].amount IN
    /\ req[r].pc = "invoice"
    /\ IF req[r].number \in DOMAIN invoices THEN Finish(r) /\ UNCHANGED invoices
       ELSE /\ Len(invoices) < MaxInvoices
            /\ invoices' = Append(invoices, [total |-> n, outstanding |-> n, status |-> "ISSUED"])
            /\ req' = [req EXCEPT ![r].pc = "balance"]
            /\ UNCHANGED <<overlaps, arrived>>
    /\ UNCHANGED <<receipts, balance, journals, lost, crashes>>

RaiseBalance(r) ==
    /\ req[r].pc = "balance"
    /\ balance' = balance + req[r].amount
    /\ Finish(r)
    /\ UNCHANGED <<invoices, receipts, journals, lost, crashes>>

-----------------------------------------------------------------------------
(* createReceipt and postReceiptToGL                                       *)

\* Mutant: any amount may be allocated.
ReceivableAny(a) ==
    /\ a.invoice \in DOMAIN invoices
    /\ invoices[a.invoice].status \in {"ISSUED", "PARTIALLY_PAID"}

\* Each allocation is compared with what is outstanding on its invoice.
Receivable(a) ==
    /\ a.invoice \in DOMAIN invoices
    /\ invoices[a.invoice].status \in {"ISSUED", "PARTIALLY_PAID"}
    /\ a.amount <= invoices[a.invoice].outstanding

ReadInvoices(r, split) ==
    /\ \A k \in DOMAIN split : Receivable(split[k])
    /\ Start(r, [Idle EXCEPT !.pc = "receiptNumber", !.split = split,
                    !.seen = [k \in DOMAIN split |-> invoices[split[k].invoice].outstanding]])
    /\ UNCHANGED <<invoices, receipts, balance, journals, lost, crashes>>

ReceiptNumber(r) ==
    /\ req[r].pc = "receiptNumber"
    /\ req' = [req EXCEPT ![r].pc = "receipt", ![r].number = Len(receipts) + 1]
    /\ UNCHANGED <<invoices, receipts, balance, journals, lost, overlaps, arrived, crashes>>

\* An invoice after the receipt's allocations, one after the other: each writes
\* what was outstanding when the invoice was read less its own amount.
Settled(r, i) ==
    LET mine == {k \in DOMAIN req[r].split : req[r].split[k].invoice = i}
        last == Max(mine)
        left == Max({req[r].seen[last] - req[r].split[last].amount, 0})
    IN
    IF mine = {} THEN invoices[i]
    ELSE [invoices[i] EXCEPT !.outstanding = left,
                             !.status = IF left = 0 THEN "PAID" ELSE "PARTIALLY_PAID"]

\* One transaction: the receipt, its allocations, the invoices, the balance.
Receive(r) ==
    /\ req[r].pc = "receipt"
    /\ IF req[r].number \in DOMAIN receipts
       THEN Finish(r) /\ UNCHANGED <<invoices, receipts, balance>>
       ELSE /\ Len(receipts) < MaxReceipts
            /\ receipts' = Append(receipts, [split |-> req[r].split, status |-> "PENDING",
                                             journal |-> FALSE])
            /\ invoices' = [i \in DOMAIN invoices |-> Settled(r, i)]
            /\ balance' = balance - Allocated(req[r].split)
            /\ req' = [req EXCEPT ![r] = [Idle EXCEPT !.pc = "journal", !.doc = Len(receipts) + 1]]
            /\ UNCHANGED <<overlaps, arrived>>
    /\ UNCHANGED <<journals, lost, crashes>>

\* Without accounts to post to there is no journal to wait for.
NoJournal(r) ==
    /\ req[r].pc = "journal"
    /\ req' = [req EXCEPT ![r].pc = "posted"]
    /\ UNCHANGED <<invoices, receipts, balance, journals, lost, overlaps, arrived, crashes>>

PostJournal(r) ==
    /\ req[r].pc = "journal"
    /\ journals' = [journals EXCEPT ![req[r].doc] = @ + 1]
    /\ req' = [req EXCEPT ![r].pc = "posted", ![r].journal = TRUE]
    /\ UNCHANGED <<invoices, receipts, balance, lost, overlaps, arrived, crashes>>

\* An error of the ledger, or after its journal, is logged and the receipt stays
\* PENDING.
PostingFails(r) ==
    /\ req[r].pc \in {"journal", "posted"}
    /\ Finish(r)
    /\ UNCHANGED <<invoices, receipts, balance, journals, lost, crashes>>

MarkPosted(r) ==
    /\ req[r].pc = "posted"
    /\ receipts' = [receipts EXCEPT ![req[r].doc].status = "POSTED",
                                    ![req[r].doc].journal = req[r].journal]
    /\ Finish(r)
    /\ UNCHANGED <<invoices, balance, journals, lost, crashes>>

-----------------------------------------------------------------------------

Crash(r) ==
    /\ req[r].pc # "idle"
    /\ crashes < MaxCrashes
    /\ crashes' = crashes + 1
    /\ lost' = IF req[r].pc = "balance" THEN lost + req[r].amount ELSE lost
    /\ Finish(r)
    /\ UNCHANGED <<invoices, receipts, balance, journals>>

Arrive(r) ==
    \/ \E total \in Totals : InvoiceNumber(r, total)
    \/ \E split \in Splits : ReadInvoices(r, split)

Proceed(r) ==
    \/ InsertInvoice(r) \/ RaiseBalance(r) \/ ReceiptNumber(r) \/ Receive(r)
    \/ NoJournal(r) \/ PostJournal(r) \/ PostingFails(r) \/ MarkPosted(r)

Next == \E r \in Requests : Arrive(r) \/ Proceed(r) \/ Crash(r)

Spec == Init /\ [][Next]_vars

-----------------------------------------------------------------------------
(* What must hold.                                                         *)

\* The open balance counts every invoice and every receipt once, however
\* requests race: what it is short of is on its way, or was lost by a crash
\* between the invoice and the balance (createInvoice raises it in a call of
\* its own).
BalanceCounts ==
    LET raising == {r \in Requests : req[r].pc = "balance"} IN
    balance + lost + MapThenSumSet(LAMBDA r : req[r].amount, raising) =
        FoldSeq(LAMBDA i, sum : i.total + sum, 0, invoices)
        - FoldSeq(LAMBDA c, sum : Allocated(c.split) + sum, 0, receipts)

\* What is outstanding on an invoice is its total less what receipts allocate
\* to it, and its status says so, unless requests overlapped or a receipt named
\* an invoice twice: a receipt writes what it computed from an earlier read,
\* once for each allocation.
InvoicesSettle ==
    ~overlaps =>
        \A i \in DOMAIN invoices :
            LET paid == FoldSeq(LAMBDA c, sum : To(c.split, i) + sum, 0, receipts)
                twice(c) == Cardinality({k \in DOMAIN c.split : c.split[k].invoice = i}) > 1
            IN
            \/ \E c \in DOMAIN receipts : twice(receipts[c])
            \/ /\ invoices[i].outstanding = invoices[i].total - paid
               /\ invoices[i].status = CASE paid = 0 -> "ISSUED"
                                         [] paid = invoices[i].total -> "PAID"
                                         [] OTHER -> "PARTIALLY_PAID"

\* A receipt has at most one journal, and one that is POSTED knows of its journal
\* (a PENDING one may have a journal all the same: the posting failed or died
\* after it).
ReceiptsPosted ==
    \A c \in DOMAIN receipts :
        /\ journals[c] <= 1
        /\ receipts[c].status = "POSTED" => (receipts[c].journal <=> journals[c] = 1)
        /\ receipts[c].status = "PENDING" => ~receipts[c].journal

\* Receivables as a whole.
ReceivablesAgree == BalanceCounts /\ InvoicesSettle /\ ReceiptsPosted

=============================================================================
