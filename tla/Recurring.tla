-------------------------------- MODULE Recurring --------------------------------
(***************************************************************************)
(* Bills that come round (AccountsPayableService): a monthly profile from  *)
(* which bills are generated, bills raised beside it, their numbers, and   *)
(* the reminders of those that are open.                                   *)
(*                                                                         *)
(* A request is a sequence of single database calls, but for the           *)
(* transaction that inserts the bill and moves the profile on.  Dates are  *)
(* days of a small calendar.  Approval and payment of a bill are in module *)
(* Books; amounts, suppliers and the other cadences are left out.          *)
(***************************************************************************)
EXTENDS Naturals, Sequences, FiniteSets, FiniteSetsExt

CONSTANTS
    Lengths,        \* the days of each month of the calendar
    FirstDue,       \* the profile's first nextDueDate
    EndDate,        \* its endDate
    Requests,       \* requests in progress at a time
    LastDay, MaxBills, MaxReminders, MaxArrivals, MaxCrashes    \* bounds

VARIABLES
    today,          \* the day
    profile,        \* the recurring_bill_profiles row; last is the day of lastGeneratedAt
    bills,          \* the vendor_bills rows, in the order of createdAt
    reminders,      \* the payable_reminders rows
    patched,        \* whether nextDueDate was ever set by hand
    crossed,        \* what two requests were at work on at once
    req,            \* req[r]: the request's next call, what it is about and carries
    arrived, crashes

rows == <<profile, bills, reminders>>
vars == <<today, rows, patched, crossed, req, arrived, crashes>>

PC == {"idle", "cycle", "number", "bill", "remind", "dismiss"}

\* number 0 is none yet; of is whether the bill is the profile's.
Idle == [pc |-> "idle", about |-> "none", of |-> FALSE, due |-> 0, number |-> 0, todo |-> {}]

TypeOK ==
    /\ today \in 1..LastDay
    /\ profile.next \in Nat /\ profile.last \in 0..LastDay /\ profile.active \in BOOLEAN
    /\ bills \in Seq([of : BOOLEAN, due : Nat, at : 1..LastDay, number : 1..MaxBills,
                      status : {"DRAFT", "APPROVED", "PAID"}])
    /\ Len(bills) <= MaxBills
    /\ reminders \in Seq([bill : DOMAIN bills, status : {"PENDING", "DISMISSED"}])
    /\ Len(reminders) <= MaxReminders
    /\ patched \in BOOLEAN /\ crossed \subseteq {"generate", "raise", "remind", "dismiss"}
    /\ \A r \in Requests : req[r].pc \in PC
    /\ arrived \in 0..MaxArrivals /\ crashes \in 0..MaxCrashes

Init ==
    /\ today = 1
    /\ profile = [next |-> FirstDue, last |-> 0, active |-> TRUE]
    /\ bills = <<>> /\ reminders = <<>>
    /\ patched = FALSE /\ crossed = {}
    /\ req = [r \in Requests |-> Idle]
    /\ arrived = 0 /\ crashes = 0

-----------------------------------------------------------------------------
(* The calendar                                                            *)

FirstDay(m) == 1 + MapThenSumSet(LAMBDA i : Lengths[i], 1..(m - 1))

MonthOf(day) == Max({m \in DOMAIN Lengths : FirstDay(m) <= day})

DayIn(day) == day - FirstDay(MonthOf(day)) + 1

\* advanceDueDate: setMonth keeps the number of the day and counts on where the
\* month is too short for it.
AdvanceDueDate(day) == FirstDay(MonthOf(day) + 1) + DayIn(day) - 1

\* Dates far enough from the end of the calendar.
Days == {day \in 1..LastDay : MonthOf(day) < Len(Lengths)}

-----------------------------------------------------------------------------
(* Building blocks                                                         *)

Begin(r, d) ==
    /\ req[r].pc = "idle"
    /\ arrived < MaxArrivals
    /\ arrived' = arrived + 1
    /\ req' = [req EXCEPT ![r] = d]
    /\ crossed' = IF \E q \in Requests \ {r} : req[q].about = d.about
                  THEN crossed \cup {d.about} ELSE crossed
    /\ UNCHANGED <<today, rows, patched, crashes>>

Goto(r, d) == req' = [req EXCEPT ![r] = d] /\ UNCHANGED <<today, rows, patched, crossed, arrived, crashes>>

Finish(r) == req' = [req EXCEPT ![r] = Idle] /\ UNCHANGED <<today, patched, crossed, arrived, crashes>>

Pass ==
    /\ today < LastDay
    /\ today' = today + 1
    /\ UNCHANGED <<rows, patched, crossed, req, arrived, crashes>>

-----------------------------------------------------------------------------
(* Bills                                                                   *)

\* updateRecurringProfile with a nextDueDate or isActive.
Patch(day, active) ==
    /\ <<day, active>> # <<profile.next, profile.active>>
    /\ profile' = [profile EXCEPT !.next = day, !.active = active]
    /\ patched' = TRUE
    /\ UNCHANGED <<today, bills, reminders, crossed, req, arrived, crashes>>

\* createVendorBill.
RaiseBill(r, day) ==
    Begin(r, [Idle EXCEPT !.pc = "number", !.about = "raise", !.due = day])

\* The day a full cadence period has elapsed since the last bill.
Elapsed == IF profile.last = 0 THEN 0 ELSE AdvanceDueDate(profile.last)

\* Mutant: how long ago the last bill was generated is not looked at.
GenerateReadEarly(r) ==
    /\ profile.active /\ profile.next \in Days
    /\ Begin(r, [Idle EXCEPT !.pc = "cycle", !.about = "generate", !.of = TRUE, !.due = profile.next])

\* generateBillFromRecurring, the read of the profile; the second check, "has a
\* full cadence period elapsed", is of that row too.
GenerateRead(r) ==
    /\ profile.active /\ profile.next \in Days
    /\ today >= Elapsed
    /\ Begin(r, [Idle EXCEPT !.pc = "cycle", !.about = "generate", !.of = TRUE, !.due = profile.next])

\* Mutant: the bills are not asked.
CheckCycleNot(r) == req[r].pc = "cycle" /\ Goto(r, [req[r] EXCEPT !.pc = "number"])

\* The first check, "has this exact cycle already been billed".
CheckCycle(r) ==
    /\ req[r].pc = "cycle"
    /\ Goto(r, IF \E b \in DOMAIN bills : bills[b].of /\ bills[b].due = req[r].due
               THEN Idle ELSE [req[r] EXCEPT !.pc = "number"])

\* nextBillNumber: one more than the bill created last.
NextBillNumber(r) ==
    /\ req[r].pc = "number"
    /\ Goto(r, [req[r] EXCEPT !.pc = "bill",
                              !.number = IF bills = <<>> THEN 1 ELSE bills[Len(bills)].number + 1])

\* The insert, which the unique number may refuse, and for the profile's bill
\* the next cycle, from the row that was read.
InsertBill(r) ==
    LET next == AdvanceDueDate(req[r].due)
    IN
    /\ req[r].pc = "bill"
    /\ Len(bills) < MaxBills
    /\ IF \E b \in DOMAIN bills : bills[b].number = req[r].number
       THEN UNCHANGED <<bills, profile>>
       ELSE /\ bills' = Append(bills, [of |-> req[r].of, due |-> req[r].due, at |-> today,
                                       number |-> req[r].number, status |-> "DRAFT"])
            /\ profile' = IF req[r].of
                          THEN [next |-> next, last |-> today, active |-> profile.active /\ next <= EndDate]
                          ELSE profile
    /\ Finish(r)
    /\ UNCHANGED reminders

\* Approval and payment (module Books).
Move(b) ==
    /\ bills[b].status # "PAID"
    /\ bills' = [bills EXCEPT ![b].status = IF @ = "DRAFT" THEN "APPROVED" ELSE "PAID"]
    /\ UNCHANGED <<today, profile, reminders, patched, crossed, req, arrived, crashes>>

-----------------------------------------------------------------------------
(* Reminders                                                               *)

Pending(b) == {i \in DOMAIN reminders : reminders[i].bill = b /\ reminders[i].status = "PENDING"}

\* Mutant: bills that have a reminder are not skipped.
RemindReadAll(r) ==
    /\ \E b \in DOMAIN bills : bills[b].status = "APPROVED"
    /\ Begin(r, [Idle EXCEPT !.pc = "remind", !.about = "remind",
                             !.todo = {b \in DOMAIN bills : bills[b].status = "APPROVED"}])

\* generateReminders, the read of the open bills and their PENDING reminders.
RemindRead(r) ==
    LET todo == {b \in DOMAIN bills : bills[b].status = "APPROVED" /\ Pending(b) = {}}
    IN
    /\ todo # {}
    /\ Begin(r, [Idle EXCEPT !.pc = "remind", !.about = "remind", !.todo = todo])

\* One insert after another, in the order of the read.
Remind(r) ==
    LET b == Min(req[r].todo)
    IN
    /\ req[r].pc = "remind"
    /\ Len(reminders) < MaxReminders
    /\ reminders' = Append(reminders, [bill |-> b, status |-> "PENDING"])
    /\ req' = [req EXCEPT ![r] = IF @.todo = {b} THEN Idle ELSE [@ EXCEPT !.todo = @ \ {b}]]
    /\ UNCHANGED <<today, profile, bills, patched, crossed, arrived, crashes>>

DismissRead(r, i) ==
    /\ reminders[i].status = "PENDING"
    /\ Begin(r, [Idle EXCEPT !.pc = "dismiss", !.about = "dismiss", !.number = i])

Dismiss(r) ==
    /\ req[r].pc = "dismiss"
    /\ reminders' = [reminders EXCEPT ![req[r].number].status = "DISMISSED"]
    /\ Finish(r)
    /\ UNCHANGED <<profile, bills>>

-----------------------------------------------------------------------------

Crash(r) ==
    /\ req[r].pc # "idle"
    /\ crashes < MaxCrashes
    /\ crashes' = crashes + 1
    /\ req' = [req EXCEPT ![r] = Idle]
    /\ UNCHANGED <<today, rows, patched, crossed, arrived>>

Arrive(r) ==
    \/ RaiseBill(r, FirstDue) \/ GenerateRead(r) \/ RemindRead(r)
    \/ \E i \in DOMAIN reminders : DismissRead(r, i)

Proceed(r) ==
    CheckCycle(r) \/ NextBillNumber(r) \/ InsertBill(r) \/ Remind(r) \/ Dismiss(r)

Next ==
    \/ Pass
    \/ \E day \in {FirstDue, profile.next}, active \in BOOLEAN : Patch(day, active)
    \/ \E b \in DOMAIN bills : Move(b)
    \/ \E r \in Requests : Arrive(r) \/ Proceed(r) \/ Crash(r)

Spec == Init /\ [][Next]_vars

-----------------------------------------------------------------------------
(* What must hold.                                                         *)

Cycles == {b \in DOMAIN bills : bills[b].of}

\* "A profile may produce at most one bill per cadence period of real time", and
\* one per due date even when a PATCH rewinds it, unless two generations crossed.
CyclesBilledOnce ==
    "generate" \notin crossed =>
        \A b, c \in Cycles : b < c => /\ bills[b].due # bills[c].due
                                      /\ AdvanceDueDate(bills[b].at) <= bills[c].at

\* A profile nobody sets by hand bills every month, on its day, up to its end,
\* whoever crosses or dies; unless a month is too short for the day.
EveryMonth ==
    ~patched /\ DayIn(FirstDue) <= Min({Lengths[m] : m \in DOMAIN Lengths}) =>
        \A c \in Cycles :
            /\ DayIn(bills[c].due) = DayIn(FirstDue) /\ bills[c].due <= EndDate
            /\ bills[c].due # FirstDue =>
                   \E b \in Cycles : b < c /\ MonthOf(bills[b].due) + 1 = MonthOf(bills[c].due)

\* Bills are numbered one after the other, whoever crosses or dies.
NumbersRun == \A b \in DOMAIN bills : bills[b].number = b

\* "Reminders at PENDING status are idempotent per bill", unless two runs crossed.
RemindedOnce ==
    "remind" \notin crossed => \A b \in DOMAIN bills : Cardinality(Pending(b)) <= 1

\* Recurring bills as a whole.
RecurringAgrees == CyclesBilledOnce /\ EveryMonth /\ NumbersRun /\ RemindedOnce

=============================================================================
