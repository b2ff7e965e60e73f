-------------------------------- MODULE Payroll --------------------------------
(***************************************************************************)
(* PayrollService: a pay run covers some days of a branch.  It is built    *)
(* with one pay slip per employee from base pay and the adjustments of     *)
(* those days, then approved, then paid.                                   *)
(*                                                                         *)
(* A request is a sequence of single database calls; a run is written with *)
(* its slips in one transaction that trusts what was read before it.       *)
(***************************************************************************)
EXTENDS Integers, Sequences, FiniteSets, FiniteSetsExt

CONSTANTS
    Branches, Employees,
    HomeOf,         \* an employee's branch, or None for one of the whole organization
    Base,           \* base pay and earning components, less deduction components
    None,
    Periods,        \* periods a run can cover: from and to
    Selections,     \* the employees a run can be asked for
    Extras,         \* adjustments that can be made: earn or deduct, a day, an amount
    Requests,       \* requests in progress at a time
    MaxRuns, MaxAdjustments, MaxArrivals, MaxCrashes    \* bounds

VARIABLES
    runs,           \* pay_runs rows
    slips,          \* pay_slips rows, with the adjustments in their componentSnapshot
    adjustments,    \* payroll_adjustments rows
    paid,           \* how often each run was marked as paid
    req,            \* req[r]: the request's next call and what it carries
    overlaps,       \* whether two requests were ever in progress at once
    arrived,        \* requests taken
    crashes

vars == <<runs, slips, adjustments, paid, req, overlaps, arrived, crashes>>

\* CANCELLED is looked for, but no operation gets there.
RunStatus == {"DRAFT", "APPROVED", "PAID"}
SlipStatus == {"DRAFT", "FINAL", "PAID"}
PC == {"idle", "adjustments", "insert", "approve", "pay"}

Idle == [pc |-> "idle", branch |-> None, period |-> None, who |-> {}, run |-> 0, adj |-> {}]

TypeOK ==
    /\ runs \in Seq([branch : Branches, period : Periods, status : RunStatus,
                     count : 0..Cardinality(Employees), net : Int])
    /\ slips \subseteq [run : 1..MaxRuns, of : Employees, net : Int,
                        adj : SUBSET (1..MaxAdjustments), status : SlipStatus]
    /\ adjustments \in Seq([of : Employees, branch : Branches, extra : Extras])
    /\ Len(runs) <= MaxRuns /\ Len(adjustments) <= MaxAdjustments
    /\ paid \in [1..MaxRuns -> Nat]
    /\ req \in [Requests -> [pc : PC, branch : Branches \cup {None}, period : Periods \cup {None},
                             who : SUBSET Employees, run : 0..MaxRuns, adj : SUBSET (1..MaxAdjustments)]]
    /\ overlaps \in BOOLEAN /\ arrived \in 0..MaxArrivals /\ crashes \in 0..MaxCrashes

Init ==
    /\ runs = <<>> /\ slips = {} /\ adjustments = <<>>
    /\ paid = [i \in 1..MaxRuns |-> 0]
    /\ req = [r \in Requests |-> Idle]
    /\ overlaps = FALSE /\ arrived = 0 /\ crashes = 0

-----------------------------------------------------------------------------
(* Building blocks                                                         *)

Start(r, d) ==
    /\ req[r].pc = "idle"
    /\ arrived < MaxArrivals
    /\ arrived' = arrived + 1
    /\ req' = [req EXCEPT ![r] = d]
    /\ overlaps' = (overlaps \/ \E q \in Requests \ {r} : req[q].pc # "idle")

Finish(r) == req' = [req EXCEPT ![r] = Idle] /\ UNCHANGED <<overlaps, arrived>>

Share(p, q) == p.from <= q.to /\ q.from <= p.to

\* BONUS and OVERTIME are added, ADVANCE, DEDUCTION and PENALTY taken off; OTHER
\* counts for nothing.
Signed(x) == CASE x.type = "earn" -> x.amount [] x.type = "deduct" -> -x.amount [] OTHER -> 0

\* Whom a run of branch b can pay: its own and those of the organization.
PaidBy(b) == {e \in Employees : HomeOf[e] \in {b, None}}

-----------------------------------------------------------------------------
(* createPayrollAdjustment                                                 *)

\* For any employee of the organization, in the branch of whoever makes it.
Adjust(e, b, x) ==
    /\ arrived < MaxArrivals /\ Len(adjustments) < MaxAdjustments
    /\ adjustments' = Append(adjustments, [of |-> e, branch |-> b, extra |-> x])
    /\ arrived' = arrived + 1
    /\ UNCHANGED <<runs, slips, paid, req, overlaps, crashes>>

-----------------------------------------------------------------------------
(* buildPayRun                                                             *)

\* Mutant: only a run of the very same period is in the way.
BuildReadSame(r, b, p, who) ==
    /\ ~\E i \in DOMAIN runs : runs[i].branch = b /\ runs[i].period = p
    /\ PaidBy(b) \cap who # {}
    /\ Start(r, [Idle EXCEPT !.pc = "adjustments", !.branch = b, !.period = p,
                             !.who = PaidBy(b) \cap who])
    /\ UNCHANGED <<runs, slips, adjustments, paid, crashes>>

\* No run of the branch shares a day with the period.
BuildRead(r, b, p, who) ==
    /\ ~\E i \in DOMAIN runs : runs[i].branch = b /\ Share(runs[i].period, p)
    /\ PaidBy(b) \cap who # {}
    /\ Start(r, [Idle EXCEPT !.pc = "adjustments", !.branch = b, !.period = p,
                             !.who = PaidBy(b) \cap who])
    /\ UNCHANGED <<runs, slips, adjustments, paid, crashes>>

\* The adjustments of those days, of the branch.
ReadAdjustments(r) ==
    /\ req[r].pc = "adjustments"
    /\ req' = [req EXCEPT ![r].pc = "insert", ![r].adj =
                  {a \in DOMAIN adjustments :
                      /\ adjustments[a].branch = req[r].branch
                      /\ adjustments[a].extra.day \in req[r].period.from .. req[r].period.to}]
    /\ UNCHANGED <<runs, slips, adjustments, paid, overlaps, arrived, crashes>>

\* The slip of employee e: base pay and e's adjustments among those read.
SlipOf(r, e) ==
    LET mine == {a \in req[r].adj : adjustments[a].of = e} IN
    [run |-> Len(runs) + 1, of |-> e, adj |-> mine, status |-> "DRAFT",
     net |-> Base[e] + MapThenSumSet(LAMBDA a : Signed(adjustments[a].extra), mine)]

\* One transaction: the run with its totals, and its slips.
InsertRun(r) ==
    LET mine == {SlipOf(r, e) : e \in req[r].who} IN
    /\ req[r].pc = "insert"
    /\ Len(runs) < MaxRuns
    /\ runs' = Append(runs, [branch |-> req[r].branch, period |-> req[r].period, status |-> "DRAFT",
                             count |-> Cardinality(mine),
                             net |-> MapThenSumSet(LAMBDA s : s.net, mine)])
    /\ slips' = slips \cup mine
    /\ Finish(r)
    /\ UNCHANGED <<adjustments, paid, crashes>>

-----------------------------------------------------------------------------
(* approvePayRun and payPayRun                                             *)

\* One transaction: the run's status and that of all its slips, whatever they
\* are by now.
SetStatus(i, run, slip) ==
    /\ runs' = [runs EXCEPT ![i].status = run]
    /\ slips' = {IF s.run = i THEN [s EXCEPT !.status = slip] ELSE s : s \in slips}

ApproveRead(r, i) ==
    /\ runs[i].status = "DRAFT"
    /\ Start(r, [Idle EXCEPT !.pc = "approve", !.run = i])
    /\ UNCHANGED <<runs, slips, adjustments, paid, crashes>>

\* Mutant: the slips are not frozen with their run.
ApproveRunOnly(r) ==
    /\ req[r].pc = "approve"
    /\ runs' = [runs EXCEPT ![req[r].run].status = "APPROVED"]
    /\ Finish(r)
    /\ UNCHANGED <<slips, adjustments, paid, crashes>>

Approve(r) ==
    /\ req[r].pc = "approve"
    /\ SetStatus(req[r].run, "APPROVED", "FINAL")
    /\ Finish(r)
    /\ UNCHANGED <<adjustments, paid, crashes>>

\* Mutant: a run may be paid again.
PayReadAgain(r, i) ==
    /\ runs[i].status # "DRAFT"
    /\ Start(r, [Idle EXCEPT !.pc = "pay", !.run = i])
    /\ UNCHANGED <<runs, slips, adjustments, paid, crashes>>

PayRead(r, i) ==
    /\ runs[i].status = "APPROVED"
    /\ Start(r, [Idle EXCEPT !.pc = "pay", !.run = i])
    /\ UNCHANGED <<runs, slips, adjustments, paid, crashes>>

Pay(r) ==
    /\ req[r].pc = "pay"
    /\ SetStatus(req[r].run, "PAID", "PAID")
    /\ paid' = [paid EXCEPT ![req[r].run] = @ + 1]
    /\ Finish(r)
    /\ UNCHANGED <<adjustments, crashes>>

-----------------------------------------------------------------------------

Crash(r) ==
    /\ req[r].pc # "idle"
    /\ crashes < MaxCrashes
    /\ crashes' = crashes + 1
    /\ Finish(r)
    /\ UNCHANGED <<runs, slips, adjustments, paid>>

Arrive(r) ==
    \/ \E b \in Branches, p \in Periods, who \in Selections : BuildRead(r, b, p, who)
    \/ \E i \in DOMAIN runs : ApproveRead(r, i) \/ PayRead(r, i)

Proceed(r) == ReadAdjustments(r) \/ InsertRun(r) \/ Approve(r) \/ Pay(r)

Next ==
    \/ \E e \in Employees, b \in Branches, x \in Extras : Adjust(e, b, x)
    \/ \E r \in Requests : Arrive(r) \/ Proceed(r) \/ Crash(r)

Spec == Init /\ [][Next]_vars

-----------------------------------------------------------------------------
(* What must hold.                                                         *)

SlipsOf(i) == {s \in slips : s.run = i}

\* A run and its slips agree, however requests race: the run counts its slips
\* and totals them, no employee has two of them, each slip comes to base pay and
\* the adjustments its snapshot names, and is as far as its run (buildPayRun,
\* approvePayRun and payPayRun write a run and its slips in one transaction).
SlipsAgree ==
    \A i \in DOMAIN runs :
        /\ {s.of : s \in SlipsOf(i)} \subseteq PaidBy(runs[i].branch)
        /\ runs[i].count = Cardinality({s.of : s \in SlipsOf(i)})
        /\ runs[i].count = Cardinality(SlipsOf(i))
        /\ runs[i].net = MapThenSumSet(LAMBDA s : s.net, SlipsOf(i))
        /\ \A s \in SlipsOf(i) :
               /\ s.status = [DRAFT |-> "DRAFT", APPROVED |-> "FINAL", PAID |-> "PAID"][runs[i].status]
               /\ \A a \in s.adj : adjustments[a].of = s.of /\ adjustments[a].branch = runs[i].branch
               /\ s.net = Base[s.of] + MapThenSumSet(LAMBDA a : Signed(adjustments[a].extra), s.adj)

\* "Overlap detection prevents two active runs covering the same period" and
\* "DRAFT -> APPROVED -> PAID (no skipping)", unless requests overlapped: a
\* branch's employee gets base pay once for a day, an adjustment is on one slip,
\* and a run is paid once and stays PAID.
PaidOnce ==
    ~overlaps =>
        /\ \A i, k \in DOMAIN runs :
               i # k /\ runs[i].branch = runs[k].branch => ~Share(runs[i].period, runs[k].period)
        /\ \A s, t \in slips : s # t => s.adj \cap t.adj = {}
        /\ \A i \in DOMAIN runs : paid[i] = IF runs[i].status = "PAID" THEN 1 ELSE 0

\* Pay runs as a whole.
PayAgrees == SlipsAgree /\ PaidOnce

=============================================================================
