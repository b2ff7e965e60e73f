-------------------------------- MODULE Staffing --------------------------------
(***************************************************************************)
(* AttendanceService and the schedules of WorkforceService: employees      *)
(* clock in and out, ask for leave and swap shifts they are rostered for;  *)
(* a reviewer decides.  One day for attendance and shifts.                 *)
(*                                                                         *)
(* A request is a sequence of single database calls.  A decision claims    *)
(* its row while it is still PENDING; schedules are written by id whatever *)
(* they are by then.                                                       *)
(***************************************************************************)
EXTENDS Naturals, Sequences, FiniteSets

CONSTANTS
    Employees,
    Spans,          \* days leave can be asked for: from and to
    Rosters,        \* who a schedule can assign
    Requests,       \* requests in progress at a time
    None,
    MaxLeaves, MaxSwaps, MaxSchedules, MaxArrivals, MaxCrashes  \* bounds

VARIABLES
    attendance,     \* today's attendance_records row of each employee
    leaves,         \* leave_requests rows
    swaps,          \* shift_swap_requests rows
    schedules,      \* schedules rows with their assignments
    clocked,        \* how many clock requests of each employee were answered
    told,           \* decisions reviewers were told they made
    rostered,       \* employees who were ever on a published schedule
    archived,       \* schedules that were ever archived
    req,            \* req[r]: the request's next call and what it carries
    overlaps,       \* whether two requests were ever in progress at once
    arrived,        \* requests taken
    crashes

rows == <<attendance, leaves, swaps, schedules>>
history == <<clocked, told, rostered, archived>>
vars == <<rows, history, req, overlaps, arrived, crashes>>

Decisions == {"APPROVED", "REJECTED"}
PC == {"idle", "clockOut", "policy", "clockIn", "insertLeave", "decideLeave",
       "targetAssignment", "pendingSwap", "insertSwap", "decideSwap", "publish", "archive"}

\* at is a leave, swap or schedule row.
Idle == [pc |-> "idle", of |-> None, to |-> None, span |-> None, at |-> 0, decision |-> None]

TypeOK ==
    /\ attendance \in [Employees -> {"NONE", "IN", "OUT"}]
    /\ leaves \in Seq([of : Employees, span : Spans, status : Decisions \cup {"PENDING"}])
    /\ swaps \in Seq([of : Employees, to : Employees, status : Decisions \cup {"PENDING"}])
    /\ schedules \in Seq([who : Rosters, status : {"DRAFT", "PUBLISHED", "ARCHIVED"},
                          version : Nat \ {0}])
    /\ Len(leaves) <= MaxLeaves /\ Len(swaps) <= MaxSwaps /\ Len(schedules) <= MaxSchedules
    /\ clocked \in [Employees -> Nat]
    /\ told \in Seq([kind : {"leave", "swap"}, at : Nat, decision : Decisions])
    /\ rostered \subseteq Employees /\ archived \subseteq 1..MaxSchedules
    /\ \A r \in Requests : req[r].pc \in PC
    /\ overlaps \in BOOLEAN /\ arrived \in 0..MaxArrivals /\ crashes \in 0..MaxCrashes

Init ==
    /\ attendance = [e \in Employees |-> "NONE"]
    /\ leaves = <<>> /\ swaps = <<>> /\ schedules = <<>>
    /\ clocked = [e \in Employees |-> 0]
    /\ told = <<>> /\ rostered = {} /\ archived = {}
    /\ req = [r \in Requests |-> Idle]
    /\ overlaps = FALSE /\ arrived = 0 /\ crashes = 0

-----------------------------------------------------------------------------
(* Building blocks                                                         *)

Start(r, d) ==
    /\ req[r].pc = "idle"
    /\ arrived < MaxArrivals
    /\ arrived' = arrived + 1
    /\ req' = [req EXCEPT ![r] = d]
    /\ overlaps' = (overlaps \/ \E q \in Requests \ {r} : req[q].pc # "idle")
    /\ UNCHANGED <<rows, history, crashes>>

Goto(r, q) ==
    /\ req' = [req EXCEPT ![r].pc = q]
    /\ UNCHANGED <<rows, history, overlaps, arrived, crashes>>

Finish(r) == req' = [req EXCEPT ![r] = Idle] /\ UNCHANGED <<overlaps, arrived, crashes>>

Refuse(r) == Finish(r) /\ UNCHANGED <<rows, history>>

-----------------------------------------------------------------------------
(* clockInOut                                                              *)

\* What to do depends on today's record: there is no telling in from out.
Clock(r, e) ==
    /\ attendance[e] # "OUT"
    /\ Start(r, [Idle EXCEPT !.of = e,
                             !.pc = IF attendance[e] = "IN" THEN "clockOut" ELSE "policy"])

ClockOut(r) ==
    /\ req[r].pc = "clockOut"
    /\ attendance' = [attendance EXCEPT ![req[r].of] = "OUT"]
    /\ clocked' = [clocked EXCEPT ![req[r].of] = @ + 1]
    /\ Finish(r)
    /\ UNCHANGED <<leaves, swaps, schedules, told, rostered, archived>>

ReadPolicy(r) == req[r].pc = "policy" /\ Goto(r, "clockIn")

\* Mutant: a record made since is overwritten.
ClockInAgain(r) ==
    /\ req[r].pc = "clockIn"
    /\ attendance' = [attendance EXCEPT ![req[r].of] = "IN"]
    /\ clocked' = [clocked EXCEPT ![req[r].of] = @ + 1]
    /\ Finish(r)
    /\ UNCHANGED <<leaves, swaps, schedules, told, rostered, archived>>

\* The unique (employeeId, attendanceDate) refuses a second record.
ClockIn(r) ==
    /\ req[r].pc = "clockIn"
    /\ IF attendance[req[r].of] = "NONE"
       THEN /\ attendance' = [attendance EXCEPT ![req[r].of] = "IN"]
            /\ clocked' = [clocked EXCEPT ![req[r].of] = @ + 1]
       ELSE UNCHANGED <<attendance, clocked>>
    /\ Finish(r)
    /\ UNCHANGED <<leaves, swaps, schedules, told, rostered, archived>>

-----------------------------------------------------------------------------
(* createLeaveRequest and reviewLeaveRequest                               *)

Share(p, q) == p.from <= q.to /\ q.from <= p.to

Live(l) == l.status \in {"PENDING", "APPROVED"}

\* No leave of the employee that is still live shares a day with it.
AskLeave(r, e, span) ==
    /\ ~\E l \in DOMAIN leaves : leaves[l].of = e /\ Live(leaves[l]) /\ Share(leaves[l].span, span)
    /\ Start(r, [Idle EXCEPT !.pc = "insertLeave", !.of = e, !.span = span])

InsertLeave(r) ==
    /\ req[r].pc = "insertLeave"
    /\ Len(leaves) < MaxLeaves
    /\ leaves' = Append(leaves, [of |-> req[r].of, span |-> req[r].span, status |-> "PENDING"])
    /\ Finish(r)
    /\ UNCHANGED <<attendance, swaps, schedules, history>>

ReviewLeave(r, l, decision) ==
    /\ leaves[l].status = "PENDING"
    /\ Start(r, [Idle EXCEPT !.pc = "decideLeave", !.at = l, !.decision = decision])

\* Mutant: the leave is decided by id, whatever has become of it.
DecideLeaveAny(r) ==
    /\ req[r].pc = "decideLeave"
    /\ leaves' = [leaves EXCEPT ![req[r].at].status = req[r].decision]
    /\ told' = Append(told, [kind |-> "leave", at |-> req[r].at, decision |-> req[r].decision])
    /\ Finish(r)
    /\ UNCHANGED <<attendance, swaps, schedules, clocked, rostered, archived>>

\* Only a leave that is still PENDING is claimed; a reviewer who comes late is
\* refused.
DecideLeave(r) ==
    /\ req[r].pc = "decideLeave"
    /\ IF leaves[req[r].at].status = "PENDING"
       THEN /\ leaves' = [leaves EXCEPT ![req[r].at].status = req[r].decision]
            /\ told' = Append(told, [kind |-> "leave", at |-> req[r].at, decision |-> req[r].decision])
       ELSE UNCHANGED <<leaves, told>>
    /\ Finish(r)
    /\ UNCHANGED <<attendance, swaps, schedules, clocked, rostered, archived>>

-----------------------------------------------------------------------------
(* createShiftSwap and approveShiftSwap                                    *)

Assigned(e) == \E s \in DOMAIN schedules : schedules[s].status = "PUBLISHED" /\ e \in schedules[s].who

AskSwap(r, e, f) ==
    /\ e # f
    /\ Assigned(e)
    /\ Start(r, [Idle EXCEPT !.pc = "targetAssignment", !.of = e, !.to = f])

TargetAssignment(r) ==
    /\ req[r].pc = "targetAssignment"
    /\ IF Assigned(req[r].to) THEN Goto(r, "pendingSwap") ELSE Refuse(r)

PendingSwap(r) ==
    /\ req[r].pc = "pendingSwap"
    /\ IF \E s \in DOMAIN swaps : swaps[s].of = req[r].of /\ swaps[s].status = "PENDING"
       THEN Refuse(r) ELSE Goto(r, "insertSwap")

InsertSwap(r) ==
    /\ req[r].pc = "insertSwap"
    /\ Len(swaps) < MaxSwaps
    /\ swaps' = Append(swaps, [of |-> req[r].of, to |-> req[r].to, status |-> "PENDING"])
    /\ Finish(r)
    /\ UNCHANGED <<attendance, leaves, schedules, history>>

ReviewSwap(r, s, decision) ==
    /\ swaps[s].status = "PENDING"
    /\ Start(r, [Idle EXCEPT !.pc = "decideSwap", !.at = s, !.decision = decision])

\* The roster stays as it is.
DecideSwap(r) ==
    /\ req[r].pc = "decideSwap"
    /\ IF swaps[req[r].at].status = "PENDING"
       THEN /\ swaps' = [swaps EXCEPT ![req[r].at].status = req[r].decision]
            /\ told' = Append(told, [kind |-> "swap", at |-> req[r].at, decision |-> req[r].decision])
       ELSE UNCHANGED <<swaps, told>>
    /\ Finish(r)
    /\ UNCHANGED <<attendance, leaves, schedules, clocked, rostered, archived>>

-----------------------------------------------------------------------------
(* createSchedule, publishSchedule, archiveSchedule                        *)

CreateSchedule(who) ==
    /\ arrived < MaxArrivals /\ Len(schedules) < MaxSchedules
    /\ schedules' = Append(schedules, [who |-> who, status |-> "DRAFT", version |-> 1])
    /\ arrived' = arrived + 1
    /\ UNCHANGED <<attendance, leaves, swaps, history, req, overlaps, crashes>>

PublishRead(r, s) ==
    /\ schedules[s].status = "DRAFT"
    /\ Start(r, [Idle EXCEPT !.pc = "publish", !.at = s])

Publish(r) ==
    /\ req[r].pc = "publish"
    /\ schedules' = [schedules EXCEPT ![req[r].at].status = "PUBLISHED",
                                      ![req[r].at].version = @ + 1]
    /\ rostered' = rostered \cup schedules[req[r].at].who
    /\ Finish(r)
    /\ UNCHANGED <<attendance, leaves, swaps, clocked, told, archived>>

ArchiveRead(r, s) ==
    /\ schedules[s].status # "ARCHIVED"
    /\ Start(r, [Idle EXCEPT !.pc = "archive", !.at = s])

Archive(r) ==
    /\ req[r].pc = "archive"
    /\ schedules' = [schedules EXCEPT ![req[r].at].status = "ARCHIVED"]
    /\ archived' = archived \cup {req[r].at}
    /\ Finish(r)
    /\ UNCHANGED <<attendance, leaves, swaps, clocked, told, rostered>>

-----------------------------------------------------------------------------

Crash(r) ==
    /\ req[r].pc # "idle"
    /\ crashes < MaxCrashes
    /\ crashes' = crashes + 1
    /\ req' = [req EXCEPT ![r] = Idle]
    /\ UNCHANGED <<rows, history, overlaps, arrived>>

Arrive(r) ==
    \/ \E e \in Employees : Clock(r, e)
    \/ \E e \in Employees, span \in Spans : AskLeave(r, e, span)
    \/ \E e, f \in Employees : AskSwap(r, e, f)
    \/ \E l \in DOMAIN leaves, decision \in Decisions : ReviewLeave(r, l, decision)
    \/ \E s \in DOMAIN swaps, decision \in Decisions : ReviewSwap(r, s, decision)
    \/ \E s \in DOMAIN schedules : PublishRead(r, s) \/ ArchiveRead(r, s)

Proceed(r) ==
    \/ ClockOut(r) \/ ReadPolicy(r) \/ ClockIn(r)
    \/ InsertLeave(r) \/ DecideLeave(r)
    \/ TargetAssignment(r) \/ PendingSwap(r) \/ InsertSwap(r) \/ DecideSwap(r)
    \/ Publish(r) \/ Archive(r)

Next ==
    \/ \E who \in Rosters : CreateSchedule(who)
    \/ \E r \in Requests : Arrive(r) \/ Proceed(r) \/ Crash(r)

Spec == Init /\ [][Next]_vars

-----------------------------------------------------------------------------
(* What must hold.                                                         *)

\* A leave or swap is decided once and its reviewer alone is told so, however
\* reviewers race ("exactly one conditional update matches", reviewLeaveRequest):
\* what was decided is what someone was told, and nobody was told otherwise.
ReviewedOnce ==
    LET decisions(kind, k) == {t \in DOMAIN told : told[t].kind = kind /\ told[t].at = k}
        agrees(kind, k, status) ==
            /\ Cardinality(decisions(kind, k)) = IF status = "PENDING" THEN 0 ELSE 1
            /\ \A t \in decisions(kind, k) : told[t].decision = status
    IN
    /\ \A l \in DOMAIN leaves : agrees("leave", l, leaves[l].status)
    /\ \A s \in DOMAIN swaps : agrees("swap", s, swaps[s].status)

\* Nobody clocks in twice in a day, and clocking out follows a clock-in: the
\* record is IN after one answered request and OUT after more; after two, unless
\* requests overlapped.
ClockedInOrder ==
    \A e \in Employees :
        /\ attendance[e] = "NONE" <=> clocked[e] = 0
        /\ attendance[e] = "IN" <=> clocked[e] = 1
        /\ ~overlaps => clocked[e] <= 2

\* Swaps are between people who were on a published roster, however requests
\* race; and unless they overlapped no two live leaves of an employee share a
\* day, nobody has two pending swaps for the day, and what was archived stays
\* so.
RosterKept ==
    /\ \A s \in DOMAIN swaps : {swaps[s].of, swaps[s].to} \subseteq rostered
    /\ ~overlaps =>
           /\ \A k, l \in DOMAIN leaves :
                  k # l /\ leaves[k].of = leaves[l].of /\ Live(leaves[k]) /\ Live(leaves[l])
                      => ~Share(leaves[k].span, leaves[l].span)
           /\ \A e \in Employees :
                  Cardinality({s \in DOMAIN swaps : swaps[s].of = e /\ swaps[s].status = "PENDING"}) <= 1
           /\ \A s \in archived : schedules[s].status = "ARCHIVED"
           /\ \A s \in DOMAIN schedules : schedules[s].version <= 2

\* Staffing as a whole.
StaffingAgrees == ReviewedOnce /\ ClockedInOrder /\ RosterKept

=============================================================================
