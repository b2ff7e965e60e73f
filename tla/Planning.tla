--------------------------------- MODULE Planning ---------------------------------
(***************************************************************************)
(* What managers plan with: budgets and their actuals (BudgetService),     *)
(* forecasts and what they suggest to buy (ForecastService), transfers     *)
(* between branches (FranchiseService) and the approvals inbox in front of *)
(* them (ApprovalRoutingService).                                          *)
(*                                                                         *)
(* A request is a sequence of single database calls; the lines of a budget *)
(* are written side by side, by id.  Journals are posted and reversed by   *)
(* the ledger (module Books has it in detail).                             *)
(***************************************************************************)
EXTENDS Naturals, Sequences, FiniteSets

CONSTANTS
    Accounts,       \* a budget has a line for each
    Periods,        \* fiscal periods
    Requests,       \* requests in progress at a time
    None,           \* no fiscal period, no account
    MaxBudgets, MaxJournals, MaxRuns, MaxTransfers, MaxArrivals, MaxCrashes     \* bounds

VARIABLES
    journals,       \* journal_entries rows, each with one line of amount 1 that counts
    budgets,        \* budgets rows: the period, and what each line says was spent
    snapshot,       \* what the ledger held when a budget was last refreshed
    runs,           \* forecast_runs rows: deficits, and the suggestions' statuses
    transfers,      \* inter_branch_transfers rows: the statuses they went through
    told,           \* <<run, status>>: reviews that were answered
    crossed,        \* rows that two requests were at work on at once, or one died on
    req,            \* req[r]: the request's next call and what it carries
    arrived, crashes

rows == <<journals, budgets, snapshot, runs, transfers, told>>
vars == <<rows, crossed, req, arrived, crashes>>

Reviews == {"REVIEWED", "DISMISSED", "ACTIONED"}
TransferStatus == {"REQUESTED", "APPROVED", "IN_TRANSIT", "COMPLETED", "REJECTED", "CANCELLED"}
PC == {"idle", "budget", "sum", "lines", "suggest", "review", "inbox", "transfer"}

\* TRANSFER_TRANSITIONS
TransferTransitions ==
    [REQUESTED |-> {"APPROVED", "REJECTED", "CANCELLED"}, APPROVED |-> {"IN_TRANSIT", "CANCELLED"},
     IN_TRANSIT |-> {"COMPLETED"}, COMPLETED |-> {}, REJECTED |-> {}, CANCELLED |-> {}]

Nothing == [a \in Accounts |-> 0]

\* todo: the lines not written yet; sums: what is written on them.
Idle == [pc |-> "idle", about |-> <<"none", None>>, arg |-> None, todo |-> {}, sums |-> Nothing]

TypeOK ==
    /\ journals \in Seq([account : Accounts, direction : {"DEBIT", "CREDIT"},
                         status : {"POSTED", "REVERSED"}])
    /\ budgets \in Seq([period : Periods \cup {None}, actual : [Accounts -> Nat]])
    /\ snapshot \in [1..MaxBudgets -> [Accounts -> Nat]]
    /\ runs \in Seq([deficit : BOOLEAN, status : Reviews \cup {"PENDING", "NONE"}])
    /\ transfers \in Seq(Seq(TransferStatus))
    /\ told \subseteq (1..MaxRuns) \X Reviews
    /\ Len(journals) <= MaxJournals /\ Len(budgets) <= MaxBudgets
    /\ Len(runs) <= MaxRuns /\ Len(transfers) <= MaxTransfers
    /\ \A r \in Requests : req[r].pc \in PC /\ req[r].todo \subseteq Accounts
    /\ arrived \in 0..MaxArrivals /\ crashes \in 0..MaxCrashes

Init ==
    /\ journals = <<>> /\ budgets = <<>> /\ runs = <<>> /\ transfers = <<>>
    /\ snapshot = [b \in 1..MaxBudgets |-> Nothing]
    /\ told = {} /\ crossed = {}
    /\ req = [r \in Requests |-> Idle]
    /\ arrived = 0 /\ crashes = 0

-----------------------------------------------------------------------------
(* Building blocks                                                         *)

Start(r, d) ==
    /\ req[r].pc = "idle"
    /\ arrived < MaxArrivals
    /\ arrived' = arrived + 1
    /\ req' = [req EXCEPT ![r] = d]
    /\ crossed' = IF \E q \in Requests \ {r} : req[q].about = d.about
                  THEN crossed \cup {d.about} ELSE crossed
    /\ UNCHANGED <<rows, crashes>>

Goto(r, d) == req' = [req EXCEPT ![r] = d] /\ UNCHANGED <<rows, crossed, arrived, crashes>>

Finish(r) == req' = [req EXCEPT ![r] = Idle] /\ UNCHANGED <<crossed, arrived, crashes>>

Row(r) == req[r].about[2]

-----------------------------------------------------------------------------
(* The ledger                                                              *)

Post(a, direction) ==
    /\ Len(journals) < MaxJournals
    /\ journals' = Append(journals, [account |-> a, direction |-> direction, status |-> "POSTED"])
    /\ UNCHANGED <<budgets, snapshot, runs, transfers, told, crossed, req, arrived, crashes>>

\* reverseJournal: the opposite line in a journal of its own.
Reverse(j) ==
    /\ journals[j].status = "POSTED" /\ Len(journals) < MaxJournals
    /\ journals' = Append([journals EXCEPT ![j].status = "REVERSED"],
                          [account |-> journals[j].account, status |-> "POSTED",
                           direction |-> IF journals[j].direction = "DEBIT" THEN "CREDIT" ELSE "DEBIT"])
    /\ UNCHANGED <<budgets, snapshot, runs, transfers, told, crossed, req, arrived, crashes>>

\* The groupBy of updateActuals: the amounts of the posted lines of an account,
\* whatever their direction.
SumOf(a) == Cardinality({j \in DOMAIN journals : journals[j].account = a /\ journals[j].status = "POSTED"})

-----------------------------------------------------------------------------
(* createBudget and updateActuals                                          *)

CreateBudget(r, p) ==
    /\ Len(budgets) < MaxBudgets
    /\ ~\E b \in DOMAIN budgets : budgets[b].period = p
    /\ Start(r, [Idle EXCEPT !.pc = "budget", !.about = <<"period", p>>])

\* Mutant: the table lets every budget in.
InsertBudgetAny(r) ==
    /\ req[r].pc = "budget" /\ Len(budgets) < MaxBudgets
    /\ budgets' = Append(budgets, [period |-> Row(r), actual |-> Nothing])
    /\ Finish(r)
    /\ UNCHANGED <<journals, snapshot, runs, transfers, told>>

\* The unique index takes two budgets without a period for different.
InsertBudget(r) ==
    /\ req[r].pc = "budget" /\ Len(budgets) < MaxBudgets
    /\ IF Row(r) # None /\ \E b \in DOMAIN budgets : budgets[b].period = Row(r)
       THEN UNCHANGED budgets
       ELSE budgets' = Append(budgets, [period |-> Row(r), actual |-> Nothing])
    /\ Finish(r)
    /\ UNCHANGED <<journals, snapshot, runs, transfers, told>>

UpdateActuals(r, b) == Start(r, [Idle EXCEPT !.pc = "sum", !.about = <<"budget", b>>])

SumActuals(r) ==
    /\ req[r].pc = "sum"
    /\ req' = [req EXCEPT ![r].pc = "lines", ![r].todo = Accounts,
                          ![r].sums = [a \in Accounts |-> SumOf(a)]]
    /\ snapshot' = [snapshot EXCEPT ![Row(r)] = [a \in Accounts |-> SumOf(a)]]
    /\ UNCHANGED <<journals, budgets, runs, transfers, told, crossed, arrived, crashes>>

\* Mutant: every line sums for itself as it is written.
WriteLineNow(r, a) ==
    /\ req[r].pc = "lines" /\ a \in req[r].todo
    /\ budgets' = [budgets EXCEPT ![Row(r)].actual[a] = SumOf(a)]
    /\ req' = [req EXCEPT ![r] = IF @.todo = {a} THEN Idle ELSE [@ EXCEPT !.todo = @ \ {a}]]
    /\ UNCHANGED <<journals, snapshot, runs, transfers, told, crossed, arrived, crashes>>

\* The updates of Promise.all, in any order.
WriteLine(r, a) ==
    /\ req[r].pc = "lines" /\ a \in req[r].todo
    /\ budgets' = [budgets EXCEPT ![Row(r)].actual[a] = req[r].sums[a]]
    /\ req' = [req EXCEPT ![r] = IF @.todo = {a} THEN Idle ELSE [@ EXCEPT !.todo = @ \ {a}]]
    /\ UNCHANGED <<journals, snapshot, runs, transfers, told, crossed, arrived, crashes>>

-----------------------------------------------------------------------------
(* generateForecast and reviewProcurementSuggestion                        *)

\* The run, COMPLETED as it is inserted; its suggestions are a call of their own
\* if an item will run short.
InsertRun(r, deficit) ==
    /\ req[r].pc = "idle" /\ arrived < MaxArrivals /\ Len(runs) < MaxRuns
    /\ runs' = Append(runs, [deficit |-> deficit, status |-> "NONE"])
    /\ arrived' = arrived + 1
    /\ req' = IF deficit THEN [req EXCEPT ![r] = [Idle EXCEPT !.pc = "suggest",
                                                              !.about = <<"run", Len(runs')>>]]
              ELSE req
    /\ UNCHANGED <<journals, budgets, snapshot, transfers, told, crossed, crashes>>

Suggest(r) ==
    /\ req[r].pc = "suggest"
    /\ runs' = [runs EXCEPT ![Row(r)].status = "PENDING"]
    /\ Finish(r)
    /\ UNCHANGED <<journals, budgets, snapshot, transfers, told>>

\* Mutant: a suggestion that was reviewed is reviewed again.
ReviewReadAny(r, n, status) ==
    /\ runs[n].status # "NONE"
    /\ Start(r, [Idle EXCEPT !.pc = "review", !.about = <<"run", n>>, !.arg = status])

ReviewRead(r, n, status) ==
    /\ runs[n].status = "PENDING"
    /\ Start(r, [Idle EXCEPT !.pc = "review", !.about = <<"run", n>>, !.arg = status])

Review(r) ==
    /\ req[r].pc = "review"
    /\ runs' = [runs EXCEPT ![Row(r)].status = req[r].arg]
    /\ told' = told \cup {<<Row(r), req[r].arg>>}
    /\ Finish(r)
    /\ UNCHANGED <<journals, budgets, snapshot, transfers>>

-----------------------------------------------------------------------------
(* createTransfer, updateTransferStatus, and the inbox                     *)

CreateTransfer ==
    /\ Len(transfers) < MaxTransfers
    /\ transfers' = Append(transfers, <<"REQUESTED">>)
    /\ UNCHANGED <<journals, budgets, snapshot, runs, told, crossed, req, arrived, crashes>>

Status(t) == transfers[t][Len(transfers[t])]

TransferRead(r, t, status) ==
    /\ status \in TransferTransitions[Status(t)]
    /\ Start(r, [Idle EXCEPT !.pc = "transfer", !.about = <<"transfer", t>>, !.arg = status])

\* route: the inbox looks whether the transfer is pending, and hands it on.
InboxRead(r, t, status) ==
    /\ Status(t) = "REQUESTED"
    /\ Start(r, [Idle EXCEPT !.pc = "inbox", !.about = <<"transfer", t>>, !.arg = status])

\* The service reads the transfer again.
Route(r) ==
    /\ req[r].pc = "inbox"
    /\ Goto(r, IF req[r].arg \in TransferTransitions[Status(Row(r))]
               THEN [req[r] EXCEPT !.pc = "transfer"] ELSE Idle)

UpdateTransferStatus(r) ==
    /\ req[r].pc = "transfer"
    /\ transfers' = [transfers EXCEPT ![Row(r)] = Append(@, req[r].arg)]
    /\ Finish(r)
    /\ UNCHANGED <<journals, budgets, snapshot, runs, told>>

-----------------------------------------------------------------------------

Crash(r) ==
    /\ req[r].pc # "idle"
    /\ crashes < MaxCrashes
    /\ crashes' = crashes + 1
    /\ req' = [req EXCEPT ![r] = Idle]
    /\ crossed' = crossed \cup {req[r].about}
    /\ UNCHANGED <<rows, arrived>>

Arrive(r) ==
    \/ \E p \in Periods \cup {None} : CreateBudget(r, p)
    \/ \E b \in DOMAIN budgets : UpdateActuals(r, b)
    \/ \E deficit \in BOOLEAN : InsertRun(r, deficit)
    \/ \E n \in DOMAIN runs, status \in Reviews : ReviewRead(r, n, status)
    \/ \E t \in DOMAIN transfers, status \in TransferStatus : TransferRead(r, t, status)
    \/ \E t \in DOMAIN transfers, status \in {"APPROVED", "REJECTED"} : InboxRead(r, t, status)

Proceed(r) ==
    \/ InsertBudget(r) \/ SumActuals(r) \/ (\E a \in Accounts : WriteLine(r, a))
    \/ Suggest(r) \/ Review(r)
    \/ Route(r) \/ UpdateTransferStatus(r)

Next ==
    \/ \E a \in Accounts, direction \in {"DEBIT", "CREDIT"} : Post(a, direction)
    \/ \E j \in DOMAIN journals : Reverse(j)
    \/ CreateTransfer
    \/ \E r \in Requests : Arrive(r) \/ Proceed(r) \/ Crash(r)

Spec == Init /\ [][Next]_vars

-----------------------------------------------------------------------------
(* What must hold.                                                         *)

Quiet(about) == about \notin crossed /\ \A r \in Requests : req[r].about # about

\* The lines of a budget say what the ledger held at one moment, however
\* journals are posted and reversed meanwhile, unless two refreshes crossed or
\* one died; and there is one budget for a period, or without one unless two
\* requests crossed ("Enforce uniqueness", createBudget).
BudgetsWhole ==
    /\ \A b \in DOMAIN budgets : Quiet(<<"budget", b>>) => budgets[b].actual = snapshot[b]
    /\ \A b, c \in DOMAIN budgets :
           b # c /\ budgets[b].period = budgets[c].period =>
               budgets[b].period = None /\ <<"period", None>> \in crossed

\* A forecast that sees a deficit has its suggestion, unless the request died
\* between the two calls; and a suggestion carries the one review that was
\* answered, unless two crossed.
SuggestionsFollow ==
    \A n \in DOMAIN runs :
        Quiet(<<"run", n>>) =>
            /\ runs[n].status # "NONE" <=> runs[n].deficit
            /\ {t \in told : t[1] = n} = {<<n, s>> : s \in {runs[n].status} \cap Reviews}

\* A transfer goes through its transitions, unless requests crossed; and whoever
\* crosses, none travels that was not approved, and none arrives that did not
\* travel.
TransfersFollow ==
    \A t \in DOMAIN transfers :
        /\ <<"transfer", t>> \notin crossed =>
               \A i \in 1..(Len(transfers[t]) - 1) :
                   transfers[t][i + 1] \in TransferTransitions[transfers[t][i]]
        /\ \A i \in DOMAIN transfers[t] :
               /\ transfers[t][i] = "IN_TRANSIT" => \E j \in 1..(i - 1) : transfers[t][j] = "APPROVED"
               /\ transfers[t][i] = "COMPLETED" => \E j \in 1..(i - 1) : transfers[t][j] = "IN_TRANSIT"

\* Plans as a whole.
PlansAgree == BudgetsWhole /\ SuggestionsFollow /\ TransfersFollow

=============================================================================
