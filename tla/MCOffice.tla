------------------------------- MODULE MCOffice -------------------------------
(***************************************************************************)
(* The back office: shifts and tills over a cash payment and its refunds   *)
(* (Drawer), and ten parts that share no rows with it or each other in    *)
(* these models: the books, the bank, receivables, pay runs, staffing, the *)
(* organization's subscription, its onboarding, planning, bills that come  *)
(* round, alerts, each with two requests of two clerks that interleave at  *)
(* every database call and a crash.  A behaviour works on one part and     *)
(* leaves the others as they were, so that their states add up instead of  *)
(* multiplying.                                                            *)
(***************************************************************************)
EXTENDS Drawer

CONSTANTS o1, p1, b1, l1, l2, e1, e2, x1, x2, a1, a2, q1, h1, h2, Clerks

MCOrderOf == p1 :> o1
MCAmount == p1 :> 2

\* The clerks are interchangeable, and so are the tills.
MCSymmetry == Permutations(Clerks) \cup Permutations(TillCodes)

VARIABLES
    part,       \* the part a behaviour works on
    bills, payments, journals, period, closes, runs, bookReq, bookOverlaps, bookArrived, bookCrashes,
    line, recs, locked, bankReq, bankOverlaps, bankArrived, bankCrashes,
    invoices, receipts, balance, receiptJournals, lost, arReq, arOverlaps, arArrived, arCrashes,
    payRuns, slips, adjustments, paidRuns, payReq, payOverlaps, payArrived, payCrashes,
    attendance, leaves, swaps, schedules, clocked, told, rostered, archived,
    staffReq, staffOverlaps, staffArrived, staffCrashes,
    sub, branches, txns, onboarded, charges, offered, paidTxns, confirmed, activations, byHand, early,
    subReq, subOverlaps, subArrived, subCrashes,
    exists, done, completed, firstBranches, invitations, lapsed, firstPaid, accepted, revived, paidLast,
    boardReq, boardOverlaps, boardArrived, boardCrashes,
    posted, budgets, snapshot, forecasts, transfers, reviewed,
    planCrossed, planReq, planArrived, planCrashes,
    today, profile, raised, reminders, patched, cycleCrossed, cycleReq, cycleArrived, cycleCrashes,
    channel, deliveries, digests, asked, intruded,
    alertCrossed, alertDied, alertReq, alertArrived, alertCrashes

\* A bill that is paid in full or in part; four requests, so that a payment can
\* be followed by a replay, or a close by a reversal.
B == INSTANCE Books WITH
         Bills <- {b1}, TotalOf <- b1 :> 2, Allocations <- {b1 :> 1, b1 :> 2},
         MaxPayments <- 2, MaxJournals <- 3, MaxRuns <- 1, MaxArrivals <- 4, Requests <- Clerks,
         req <- bookReq, overlaps <- bookOverlaps, arrived <- bookArrived, crashes <- bookCrashes

\* A credit of 2 and a debit of 1 that balance together.
K == INSTANCE Bank WITH
         Lines <- {l1, l2}, LineAmount <- l1 :> 2 @@ l2 :> -1, StatementBalance <- 1,
         MaxRecs <- 2, MaxArrivals <- 6, Requests <- Clerks,
         req <- bankReq, overlaps <- bankOverlaps, arrived <- bankArrived, crashes <- bankCrashes

\* Receipts of one invoice in part or in full, of two, and of one twice.
A == INSTANCE Receivables WITH
         Totals <- {1, 2},
         Splits <- {<<[invoice |-> 1, amount |-> 1]>>, <<[invoice |-> 1, amount |-> 2]>>,
                    <<[invoice |-> 1, amount |-> 1], [invoice |-> 2, amount |-> 1]>>,
                    <<[invoice |-> 1, amount |-> 1], [invoice |-> 1, amount |-> 1]>>},
         MaxInvoices <- 2, MaxReceipts <- 2, MaxArrivals <- 4, Requests <- Clerks,
         journals <- receiptJournals,
         req <- arReq, overlaps <- arOverlaps, arrived <- arArrived, crashes <- arCrashes

\* An employee of one branch and one of the organization; periods that share a
\* day, and an adjustment on either of two days.
W == INSTANCE Payroll WITH
         Branches <- {x1, x2}, Employees <- {e1, e2}, HomeOf <- e1 :> x1 @@ e2 :> None,
         Base <- e1 :> 2 @@ e2 :> 1,
         Periods <- {[from |-> 1, to |-> 1], [from |-> 1, to |-> 2]},
         Selections <- {{e1}, {e1, e2}},
         Extras <- {[type |-> "earn", day |-> 1, amount |-> 1],
                    [type |-> "deduct", day |-> 2, amount |-> 1]},
         MaxRuns <- 2, MaxAdjustments <- 1, MaxArrivals <- 5, Requests <- Clerks,
         runs <- payRuns, paid <- paidRuns,
         req <- payReq, overlaps <- payOverlaps, arrived <- payArrived, crashes <- payCrashes

\* Two employees, on a roster together or not.
T == INSTANCE Staffing WITH
         Employees <- {e1, e2}, Spans <- {[from |-> 1, to |-> 1], [from |-> 1, to |-> 2]},
         Rosters <- {{e1}, {e1, e2}},
         MaxLeaves <- 2, MaxSwaps <- 2, MaxSchedules <- 1, MaxArrivals <- 5, Requests <- Clerks,
         req <- staffReq, overlaps <- staffOverlaps, arrived <- staffArrived, crashes <- staffCrashes

\* A plan, two checkouts, and more branches than the plan allows.
O == INSTANCE Subscriptions WITH
         Caps <- {1}, MaxTransactions <- 2, MaxBranches <- 3, MaxArrivals <- 4,
         Requests <- Clerks, paid <- paidTxns,
         req <- subReq, overlaps <- subOverlaps, arrived <- subArrived, crashes <- subCrashes

\* One step that only saves; a person is invited twice.
N == INSTANCE Onboarding WITH
         Saves <- {"businessProfileDone"}, Emails <- {e1},
         MaxBranches <- 2, MaxInvitations <- 2, MaxArrivals <- 4, Requests <- Clerks,
         branches <- firstBranches, paid <- firstPaid,
         req <- boardReq, overlaps <- boardOverlaps, arrived <- boardArrived, crashes <- boardCrashes

\* Two budgets, of a period or of none; a forecast and a transfer.
P == INSTANCE Planning WITH
         Accounts <- {a1, a2}, Periods <- {q1}, MaxBudgets <- 2, MaxJournals <- 2, MaxRuns <- 1,
         MaxTransfers <- 1, MaxArrivals <- 3, Requests <- Clerks, journals <- posted, runs <- forecasts,
         told <- reviewed,
         req <- planReq, crossed <- planCrossed, arrived <- planArrived, crashes <- planCrashes

\* Months of two and three days; the profile is due on the second.
U == INSTANCE Recurring WITH
         Lengths <- <<2, 3, 2, 3, 3>>, FirstDue <- 2, EndDate <- 7, LastDay <- 4,
         MaxBills <- 2, MaxReminders <- 2, MaxArrivals <- 3, MaxCrashes <- 1, Requests <- Clerks,
         bills <- raised, crossed <- cycleCrossed,
         req <- cycleReq, arrived <- cycleArrived, crashes <- cycleCrashes

\* A channel with a recipient and one without; at most two tries of a delivery.
L == INSTANCE Alerts WITH
         Channels <- {h1, h2}, Reachable <- {h1}, DigestOver <- {h1, h2},
         MaxTries <- 2, MaxDeliveries <- 2, MaxArrivals <- 3, Requests <- Clerks,
         runs <- digests, crossed <- alertCrossed, died <- alertDied,
         req <- alertReq, arrived <- alertArrived, crashes <- alertCrashes

bookVars == <<bills, payments, journals, period, closes, runs,
              bookReq, bookOverlaps, bookArrived, bookCrashes>>
bankVars == <<line, recs, locked, bankReq, bankOverlaps, bankArrived, bankCrashes>>
arVars == <<invoices, receipts, balance, receiptJournals, lost,
            arReq, arOverlaps, arArrived, arCrashes>>
payVars == <<payRuns, slips, adjustments, paidRuns, payReq, payOverlaps, payArrived, payCrashes>>
staffVars == <<attendance, leaves, swaps, schedules, clocked, told, rostered, archived,
               staffReq, staffOverlaps, staffArrived, staffCrashes>>
subVars == <<sub, branches, txns, onboarded, charges, offered, paidTxns, confirmed, activations,
             byHand, early, subReq, subOverlaps, subArrived, subCrashes>>
boardVars == <<exists, done, completed, firstBranches, invitations, lapsed, firstPaid, accepted,
               revived, paidLast, boardReq, boardOverlaps, boardArrived, boardCrashes>>
planVars == <<posted, budgets, snapshot, forecasts, transfers, reviewed,
              planCrossed, planReq, planArrived, planCrashes>>

cycleVars == <<today, profile, raised, reminders, patched, cycleCrossed, cycleReq, cycleArrived,
               cycleCrashes>>

alertVars == <<channel, deliveries, digests, asked, intruded,
               alertCrossed, alertDied, alertReq, alertArrived, alertCrashes>>

officeVars == <<part, vars, bookVars, bankVars, arVars, payVars, staffVars, subVars, boardVars,
                planVars, cycleVars, alertVars>>

OfficeInit ==
    /\ part = "none"
    /\ Init /\ B!Init /\ K!Init /\ A!Init /\ W!Init /\ T!Init /\ O!Init /\ N!Init /\ P!Init
    /\ U!Init /\ L!Init

\* The part that moves is chosen once.
Works(p) == part \in {"none", p} /\ part' = p

OfficeNext ==
    \/ /\ Works("drawer") /\ Next
       /\ UNCHANGED <<bookVars, bankVars, arVars, payVars, staffVars, subVars, boardVars,
                      planVars, cycleVars, alertVars>>
    \/ /\ Works("books") /\ B!Next
       /\ UNCHANGED <<vars, bankVars, arVars, payVars, staffVars, subVars, boardVars,
                      planVars, cycleVars, alertVars>>
    \/ /\ Works("bank") /\ K!Next
       /\ UNCHANGED <<vars, bookVars, arVars, payVars, staffVars, subVars, boardVars,
                      planVars, cycleVars, alertVars>>
    \/ /\ Works("receivables") /\ A!Next
       /\ UNCHANGED <<vars, bookVars, bankVars, payVars, staffVars, subVars, boardVars,
                      planVars, cycleVars, alertVars>>
    \/ /\ Works("payroll") /\ W!Next
       /\ UNCHANGED <<vars, bookVars, bankVars, arVars, staffVars, subVars, boardVars,
                      planVars, cycleVars, alertVars>>
    \/ /\ Works("staffing") /\ T!Next
       /\ UNCHANGED <<vars, bookVars, bankVars, arVars, payVars, subVars, boardVars,
                      planVars, cycleVars, alertVars>>
    \/ /\ Works("subscription") /\ O!Next
       /\ UNCHANGED <<vars, bookVars, bankVars, arVars, payVars, staffVars, boardVars,
                      planVars, cycleVars, alertVars>>
    \/ /\ Works("onboarding") /\ N!Next
       /\ UNCHANGED <<vars, bookVars, bankVars, arVars, payVars, staffVars, subVars,
                      planVars, cycleVars, alertVars>>
    \/ /\ Works("planning") /\ P!Next
       /\ UNCHANGED <<vars, bookVars, bankVars, arVars, payVars, staffVars, subVars,
                      boardVars, cycleVars, alertVars>>
    \/ /\ Works("recurring") /\ U!Next
       /\ UNCHANGED <<vars, bookVars, bankVars, arVars, payVars, staffVars, subVars,
                      boardVars, planVars, alertVars>>
    \/ /\ Works("alerts") /\ L!Next
       /\ UNCHANGED <<vars, bookVars, bankVars, arVars, payVars, staffVars, subVars,
                      boardVars, planVars, cycleVars>>

OfficeSpec == OfficeInit /\ [][OfficeNext]_officeVars

\* A part is looked at while it works; the others are as they began.
Of(p, I) == part \in {"none", p} => I

\* The rows of all parts have their types (TypeOK of each module).
OfficeTypeOK ==
    /\ Of("drawer", TypeOK) /\ Of("books", B!TypeOK) /\ Of("bank", K!TypeOK)
    /\ Of("receivables", A!TypeOK) /\ Of("payroll", W!TypeOK) /\ Of("staffing", T!TypeOK)
    /\ Of("subscription", O!TypeOK) /\ Of("onboarding", N!TypeOK) /\ Of("planning", P!TypeOK)
    /\ Of("recurring", U!TypeOK) /\ Of("alerts", L!TypeOK)

\* Vendor bills, payments, journals and period closes agree (module Books), so
\* do reconciliations with the lines of their statement (module Bank), and the
\* invoices, receipts and balance of a customer (module Receivables); recurring
\* bills and reminders come once (module Recurring).
AccountsAgree ==
    /\ Of("books", B!BooksAgree) /\ Of("bank", K!BankAgrees)
    /\ Of("receivables", A!ReceivablesAgree) /\ Of("recurring", U!RecurringAgrees)

\* Pay runs agree with their slips and pay a day once (module Payroll); leave,
\* swaps and clocking are decided once and in order (module Staffing).
StaffAgree == Of("payroll", W!PayAgrees) /\ Of("staffing", T!StaffingAgrees)

\* The subscription agrees with what was paid and caps branches (module
\* Subscriptions); onboarding is complete when its steps are, and invitations
\* are accepted once (module Onboarding); budgets, suggestions and transfers
\* follow the ledger, the forecast and their transitions (module Planning); what
\* is kept of a message agrees with whether it went out (module Alerts).
OrganizationAgrees ==
    /\ Of("subscription", O!PlanAgrees) /\ Of("onboarding", N!OnboardingAgrees)
    /\ Of("planning", P!PlansAgree) /\ Of("alerts", L!AlertsAgree)

=============================================================================
