-------------------------------- MODULE Drawer --------------------------------
(***************************************************************************)
(* ShiftsService and TillsService, over the payments and refunds of module *)
(* Refunds: a user opens a shift, opens a till session on it with a float, *)
(* drops cash to the safe, reconciles the till against what the payments,  *)
(* movements and refunds say it should hold, and closes the shift.         *)
(*                                                                         *)
(* Every request is a sequence of single database calls; no update looks   *)
(* at what it overwrites.  PAID_IN, PAID_OUT, CASH_PICKUP and              *)
(* REFUND_PAYOUT movements enter the sums in the code, but no operation    *)
(* creates one.  A till has a code, and a branch any number of tills: the  *)
(* cash of a payment goes into, and that of a refund comes out of, one of  *)
(* the drawers that are open, and the rows do not say which.               *)
(***************************************************************************)
EXTENDS Refunds, FiniteSetsExt

CONSTANTS
    Users,              \* who opens shifts
    TillCodes,          \* the tills of the branch
    CashPayments,       \* the payments whose method is CASH
    Float, DropAmounts, \* opening float and safe drops
    Workers,            \* shift and till requests in progress at a time
    MaxShifts, MaxTills, MaxMoves  \* bounds: rows

ASSUME DrawerAssumption ==
    /\ CashPayments \subseteq Payments /\ IsFiniteSet(Payments)
    /\ IsFiniteSet(Requests) /\ IsFiniteSet(Workers) /\ Requests \cap Workers = {}
    /\ Float \in Nat /\ DropAmounts \subseteq Nat
    /\ MaxShifts \in Nat /\ MaxTills \in Nat /\ MaxMoves \in Nat

VARIABLES
    shifts,     \* shifts rows; shiftNumber is the row's position
    tills,      \* till_sessions rows
    moves,      \* cash_movements rows
    work,       \* work[w]: the request's next call and what it carries
    cash,       \* the cash that really is in the drawer of each session
    elsewhere,  \* history: what went into other drawers, less what came out of
                \* them, while the session was open
    raced       \* whether a request, or a payment, ever met another one in progress

drawerVars == <<shifts, tills, moves, work>>
vars == <<refundVars, drawerVars, cash, elsewhere, raced>>

DrawerPC == {"idle", "shiftNumber", "shiftInsert", "openTills", "sessions", "summary",
             "closeShift", "tillFree", "tillInsert", "float", "drop", "decrement",
             "cashSales", "moves", "refundsOut", "reconcile"}

\* at is a shift or a till session, code a till, total a sum of money, seen a set
\* of sessions.
NoWork == [pc |-> "idle", user |-> None, code |-> None, at |-> 0, total |-> 0, seen |-> {}]

NoSummary == [made |-> FALSE, sessions |-> {}]

TypeOK ==
    /\ RefundTypeOK
    /\ req \in [Requests -> [pc : RefundPC \cup {"idle"}, of : Orders \cup {None},
                             payment : Payments \cup {None}, amount : RefundAmounts \cup {0},
                             row : 0..MaxRefunds]]
    /\ shifts \in Seq([user : Users, open : BOOLEAN,
                       summary : [made : BOOLEAN, sessions : SUBSET (1..MaxTills)]])
    /\ tills \in Seq([code : TillCodes, open : BOOLEAN, shift : 1..MaxShifts, expected : Int,
                      paid : SUBSET Payments, refunded : 0..MaxRefunds])
    /\ moves \in Seq([till : 1..MaxTills, type : {"OPENING_FLOAT", "SAFE_DROP"}, amount : Nat])
    /\ Len(shifts) <= MaxShifts /\ Len(tills) <= MaxTills /\ Len(moves) <= MaxMoves
    /\ work \in [Workers -> [pc : DrawerPC, user : Users \cup {None},
                             code : TillCodes \cup {None}, at : Nat,
                             total : Int, seen : SUBSET (1..MaxTills)]]
    /\ cash \in Seq(Int) /\ Len(cash) = Len(tills)
    /\ elsewhere \in Seq(Int) /\ Len(elsewhere) = Len(tills)
    /\ raced \in BOOLEAN

Init ==
    /\ RefundInit
    /\ shifts = <<>> /\ tills = <<>> /\ moves = <<>> /\ cash = <<>> /\ elsewhere = <<>>
    /\ work = [w \in Workers |-> NoWork]
    /\ raced = FALSE

-----------------------------------------------------------------------------
(* Building blocks                                                         *)

OpenShifts(u) == {s \in DOMAIN shifts : shifts[s].open /\ shifts[s].user = u}
OpenTills(s) == {t \in DOMAIN tills : tills[t].open /\ tills[t].shift = s}
Sessions(s) == {t \in DOMAIN tills : tills[t].shift = s}

Take(w, d) == work[w].pc = "idle" /\ work' = [work EXCEPT ![w] = d]
Then(w, q) == work' = [work EXCEPT ![w].pc = q]
Done(w) == work' = [work EXCEPT ![w] = NoWork]

Recorded(set) == MapThenSumSet(LAMBDA p : Amount[p], set)

\* Mutant: every movement of the till is taken out of it.
MovedOutAll(t) ==
    FoldSeq(LAMBDA m, sum : IF m.till = t THEN m.amount + sum ELSE sum, 0, moves)

\* What was dropped to the safe from session t.
MovedOut(t) ==
    FoldSeq(LAMBDA m, sum : IF m.till = t /\ m.type = "SAFE_DROP" THEN m.amount + sum ELSE sum,
            0, moves)

\* The completed refunds created since session t opened, of whatever payment.
RefundedSince(t) ==
    FoldSeq(LAMBDA f, sum : IF f.status = "COMPLETED" THEN f.amount + sum ELSE sum,
            0, SubSeq(refunds, tills[t].refunded + 1, Len(refunds)))

-----------------------------------------------------------------------------
(* openShift and closeShift                                                *)

OpenShiftRead(w, u) ==
    /\ OpenShifts(u) = {}
    /\ Take(w, [NoWork EXCEPT !.pc = "shiftNumber", !.user = u])
    /\ UNCHANGED <<shifts, tills, moves>>

ReadShiftNumber(w) ==
    /\ work[w].pc = "shiftNumber"
    /\ work' = [work EXCEPT ![w].pc = "shiftInsert", ![w].at = Len(shifts) + 1]
    /\ UNCHANGED <<shifts, tills, moves>>

\* The unique (branchId, shiftNumber) refuses a number that was taken meanwhile.
InsertShift(w) ==
    /\ work[w].pc = "shiftInsert"
    /\ Len(shifts) < MaxShifts
    /\ shifts' = IF work[w].at \in DOMAIN shifts THEN shifts
                 ELSE Append(shifts, [user |-> work[w].user, open |-> TRUE, summary |-> NoSummary])
    /\ Done(w)
    /\ UNCHANGED <<tills, moves>>

CloseShiftRead(w, s) ==
    /\ shifts[s].open
    /\ Take(w, [NoWork EXCEPT !.pc = "openTills", !.at = s])
    /\ UNCHANGED <<shifts, tills, moves>>

\* Mutant: the till check is dropped.
FindOpenTillsNever(w) ==
    /\ work[w].pc = "openTills"
    /\ Then(w, "sessions")
    /\ UNCHANGED <<shifts, tills, moves>>

FindOpenTills(w) ==
    /\ work[w].pc = "openTills"
    /\ IF OpenTills(work[w].at) = {} THEN Then(w, "sessions") ELSE Done(w)
    /\ UNCHANGED <<shifts, tills, moves>>

\* generateShiftCloseSummary reads the sessions, then payments, refunds and
\* movements, and inserts the summary of what it read.  Of the summary only the
\* sessions it covers are kept.
ReadSessions(w) ==
    /\ work[w].pc = "sessions"
    /\ work' = [work EXCEPT ![w].pc = "summary", ![w].seen = Sessions(work[w].at)]
    /\ UNCHANGED <<shifts, tills, moves>>

InsertSummary(w) ==
    /\ work[w].pc = "summary"
    /\ shifts' = [shifts EXCEPT ![work[w].at].summary = [made |-> TRUE, sessions |-> work[w].seen]]
    /\ Then(w, "closeShift")
    /\ UNCHANGED <<tills, moves>>

CloseShift(w) ==
    /\ work[w].pc = "closeShift"
    /\ shifts' = [shifts EXCEPT ![work[w].at].open = FALSE]
    /\ Done(w)
    /\ UNCHANGED <<tills, moves>>

-----------------------------------------------------------------------------
(* openTill, safeDrop, reconcileTill                                       *)

OpenTillRead(w, u, s, c) ==
    /\ s \in OpenShifts(u)
    /\ Take(w, [NoWork EXCEPT !.pc = "tillFree", !.user = u, !.at = s, !.code = c])
    /\ UNCHANGED <<shifts, tills, moves>>

\* Mutant: an open session of the same till is not looked for.
FindTillNever(w) ==
    /\ work[w].pc = "tillFree"
    /\ Then(w, "tillInsert")
    /\ UNCHANGED <<shifts, tills, moves>>

\* An open session of the same till refuses the request; other tills of the
\* branch may be open.
FindTill(w) ==
    /\ work[w].pc = "tillFree"
    /\ IF \E t \in DOMAIN tills : tills[t].open /\ tills[t].code = work[w].code
       THEN Done(w) ELSE Then(w, "tillInsert")
    /\ UNCHANGED <<shifts, tills, moves>>

InsertTill(w) ==
    /\ work[w].pc = "tillInsert"
    /\ Len(tills) < MaxTills
    /\ tills' = Append(tills, [code |-> work[w].code, open |-> TRUE, shift |-> work[w].at,
                   expected |-> Float, paid |-> {p \in Payments : pay[p] # "ABSENT"},
                   refunded |-> Len(refunds)])
    /\ work' = [work EXCEPT ![w].pc = "float", ![w].at = Len(tills) + 1]
    /\ UNCHANGED <<shifts, moves>>

InsertFloat(w) ==
    /\ work[w].pc = "float"
    /\ Len(moves) < MaxMoves
    /\ moves' = Append(moves, [till |-> work[w].at, type |-> "OPENING_FLOAT", amount |-> Float])
    /\ Done(w)
    /\ UNCHANGED <<shifts, tills>>

SafeDropRead(w, t, a) ==
    /\ tills[t].open
    /\ Take(w, [NoWork EXCEPT !.pc = "drop", !.at = t, !.total = a])
    /\ UNCHANGED <<shifts, tills, moves>>

\* Mutant: what is dropped is recorded as a negative amount.
InsertDropSigned(w) ==
    /\ work[w].pc = "drop"
    /\ Len(moves) < MaxMoves
    /\ moves' = Append(moves, [till |-> work[w].at, type |-> "SAFE_DROP", amount |-> -work[w].total])
    /\ Then(w, "decrement")
    /\ UNCHANGED <<shifts, tills>>

InsertDrop(w) ==
    /\ work[w].pc = "drop"
    /\ Len(moves) < MaxMoves
    /\ moves' = Append(moves, [till |-> work[w].at, type |-> "SAFE_DROP", amount |-> work[w].total])
    /\ Then(w, "decrement")
    /\ UNCHANGED <<shifts, tills>>

\* The session's expected cash, whatever its status is by now.
Decrement(w) ==
    /\ work[w].pc = "decrement"
    /\ tills' = [tills EXCEPT ![work[w].at].expected = @ - work[w].total]
    /\ Done(w)
    /\ UNCHANGED <<shifts, moves>>

\* Reconciling computes the expected cash anew, in three reads: the branch's
\* COMPLETED cash payments since the session opened ...
ReconcileRead(w, t) ==
    /\ tills[t].open
    /\ Take(w, [NoWork EXCEPT !.pc = "cashSales", !.at = t, !.total = Float])
    /\ UNCHANGED <<shifts, tills, moves>>

SumCashSales(w) ==
    LET since == {p \in CashPayments \ tills[work[w].at].paid : pay[p] = "COMPLETED"} IN
    /\ work[w].pc = "cashSales"
    /\ work' = [work EXCEPT ![w].pc = "moves", ![w].total = @ + Recorded(since)]
    /\ UNCHANGED <<shifts, tills, moves>>

\* ... the session's movements ...
SumMoves(w) ==
    /\ work[w].pc = "moves"
    /\ work' = [work EXCEPT ![w].pc = "refundsOut", ![w].total = @ - MovedOut(work[w].at)]
    /\ UNCHANGED <<shifts, tills, moves>>

\* ... and the branch's COMPLETED refunds, "all refunds counted for simplicity".
SumRefundsOut(w) ==
    /\ work[w].pc = "refundsOut"
    /\ work' = [work EXCEPT ![w].pc = "reconcile", ![w].total = @ - RefundedSince(work[w].at)]
    /\ UNCHANGED <<shifts, tills, moves>>

Reconcile(w) ==
    /\ work[w].pc = "reconcile"
    /\ tills' = [tills EXCEPT ![work[w].at] = [@ EXCEPT !.open = FALSE, !.expected = work[w].total]]
    /\ Done(w)
    /\ UNCHANGED <<shifts, moves>>

-----------------------------------------------------------------------------
(* The drawer itself, and the whole                                        *)

\* Money given out by a step: the refunds of cash payments it completes.
PaidOut ==
    MapThenSumSet(LAMBDA i : refunds'[i].amount,
        {i \in DOMAIN refunds' :
            /\ refunds'[i].status = "COMPLETED" /\ refunds'[i].of \in CashPayments
            /\ i \in DOMAIN refunds => refunds[i].status = "PENDING"})

\* What a step drops to the safe from session t.
Dropping(t) ==
    IF Len(moves') > Len(moves) /\ moves'[Len(moves')].till = t
       /\ moves'[Len(moves')].type = "SAFE_DROP"
    THEN moves'[Len(moves')].amount ELSE 0

\* Cash goes into and out of one of the drawers that are open, if any is; a drop
\* leaves its own when its movement is recorded.
CashFlow ==
    LET through == Recorded({p \in CashPayments : pay[p] = "ABSENT" /\ pay'[p] = "COMPLETED"})
                       - PaidOut
        open == {t \in DOMAIN tills : tills[t].open}
    IN
    \E d \in IF open = {} THEN {0} ELSE open :
        /\ cash' = [t \in DOMAIN tills' |->
               IF t \notin DOMAIN tills THEN Float
               ELSE IF t \notin open THEN cash[t]
               ELSE cash[t] - Dropping(t) + (IF t = d THEN through ELSE 0)]
        /\ elsewhere' = [t \in DOMAIN tills' |->
               IF t \notin DOMAIN tills THEN 0
               ELSE elsewhere[t] + (IF t \in open /\ t # d THEN through ELSE 0)]

CrashWork(w) ==
    /\ work[w].pc # "idle"
    /\ crashes < MaxCrashes
    /\ crashes' = crashes + 1
    /\ Done(w)
    /\ UNCHANGED <<order, pay, refunds, req, overlapped, shifts, tills, moves>>

TillRequest(w) ==
    \/ \E u \in Users : OpenShiftRead(w, u)
    \/ \E s \in DOMAIN shifts : CloseShiftRead(w, s)
    \/ \E u \in Users, s \in DOMAIN shifts, c \in TillCodes : OpenTillRead(w, u, s, c)
    \/ \E t \in DOMAIN tills, a \in DropAmounts : SafeDropRead(w, t, a)
    \/ \E t \in DOMAIN tills : ReconcileRead(w, t)

TillProceed(w) ==
    \/ ReadShiftNumber(w) \/ InsertShift(w) \/ FindOpenTills(w) \/ ReadSessions(w)
    \/ InsertSummary(w) \/ CloseShift(w) \/ FindTill(w) \/ InsertTill(w) \/ InsertFloat(w)
    \/ InsertDrop(w) \/ Decrement(w) \/ SumCashSales(w) \/ SumMoves(w) \/ SumRefundsOut(w)
    \/ Reconcile(w)

Busy == {r \in Requests : req[r].pc # "idle"} \cup {w \in Workers : work[w].pc # "idle"}

Next ==
    /\ \/ RefundNext /\ UNCHANGED drawerVars
       \/ \E w \in Workers : (TillRequest(w) \/ TillProceed(w)) /\ UNCHANGED refundVars
       \/ \E w \in Workers : CrashWork(w)
    /\ CashFlow
    /\ raced' = \/ raced
                \/ Cardinality(Busy') > 1
                \/ pay' # pay /\ \E w \in Workers : work[w].pc # "idle"

Spec == Init /\ [][Next]_vars

-----------------------------------------------------------------------------
(* What must hold.                                                         *)

\* A closed shift has its summary, even if a crash repeated the close; and
\* unless requests overlapped, the summary covers every session of the shift
\* and none of them is still open ("Cannot close shift - there are unreconciled
\* till sessions", closeShift).
ShiftSettled ==
    \A s \in DOMAIN shifts :
        ~shifts[s].open =>
            /\ shifts[s].summary.made
            /\ ~raced => OpenTills(s) = {} /\ shifts[s].summary.sessions = Sessions(s)

\* None of three things happened to session t: a refund of a payment that was
\* not cash, a cash payment REFUNDED in full (it leaves the sales and is
\* subtracted as a refund too), or the approval of a refund that was requested
\* before the session opened.
Plain(t) ==
    /\ \A p \in CashPayments : pay[p] # "REFUNDED"
    /\ \A i \in DOMAIN refunds :
           IF i <= tills[t].refunded THEN refunds[i].amount <= Threshold
                                     ELSE refunds[i].of \in CashPayments

\* A till has one session at a time, unless requests overlapped ("Check for
\* existing OPEN till session with same tillCode in same branch", openTill).
OneSessionPerTill ==
    ~raced => \A t, u \in DOMAIN tills :
        tills[t].open /\ tills[u].open /\ tills[t].code = tills[u].code => t = u

\* What session t's drawer holds, and what went through other drawers while it
\* was open.
Counted(t) == cash[t] + elsewhere[t]

\* If no requests overlapped, computeExpectedCash takes a plain reconciled drawer
\* to hold what it held and, as it counts the whole branch's payments and
\* refunds, what went through other drawers while it was open: the one drawer
\* that is open holds what is expected, each of several is expected to hold
\* the cash of all.
DrawerAgrees ==
    \A t \in DOMAIN tills : ~tills[t].open /\ ~raced /\ Plain(t) =>
        Counted(t) = tills[t].expected

\* Refunds, shifts and tills agree with the money.
CashAgrees ==
    RefundsCovered /\ RefundedIsMarked /\ ShiftSettled /\ OneSessionPerTill /\ DrawerAgrees

=============================================================================
