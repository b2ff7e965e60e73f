-------------------------- MODULE ReservationsProofs --------------------------
(***************************************************************************)
(* Type correctness of Reservations; that deposits follow the outcome and  *)
(* a seated party keeps its table and order; and that the service          *)
(* implements Lifecycle, whatever requests race or die.                    *)
(*                                                                         *)
(* All of it rests on the compare-and-set: the statuses of a reservation   *)
(* are taken in the order of Rank, so none is taken twice (Past), and the  *)
(* one request whose update hit is the only one to report it (Reports).    *)
(*                                                                         *)
(* And what guests say of their visit (module Feedback, as F), on rows of  *)
(* its own.  There is no compare-and-set there: every write trusts a read, *)
(* so the invariant says of each request that what it read is still so     *)
(* (FeedStillSo) while nobody else is at work on its row (FeedApart).      *)
(***************************************************************************)
EXTENDS Reservations, Sequences, FiniteSetTheorems, TLAPS

CONSTANTS Tags, Hosts, MaxInvitations, MaxFeedbacks, MaxArrivals

VARIABLES invitations, feedbacks, lapsed, limited, handled, crossed,
          feedReq, arrived, feedCrashes

F == INSTANCE Feedback WITH Requests <- Hosts, req <- feedReq, crashes <- feedCrashes

\* What a request carries.
Slots ==
    [pc : PC, of : Reservations \cup {None}, to : Status, from : SUBSET Status,
     table : Tables \cup {None}, order : Orders \cup {None}, open : BOOLEAN,
     outcome : Outcomes, start : Times \cup {0}]

Ended == {"CANCELLED", "NO_SHOW"}

\* The request's next call has what it needs, and a transition it may make is
\* one of VALID_TRANSITIONS.
Carries(d) ==
    /\ d.pc # "idle" => d.of \in Reservations
    /\ d.pc = "insert" => d.to = "PENDING"
    /\ d.pc \in {"openOrder", "cas"} =>
           /\ \A s \in d.from : d.to \in VALID_TRANSITIONS[s]
           /\ d.to = "SEATED" => d.table \in Tables
           /\ d.outcome # "NO_DEPOSIT" => d.to \in Ended
    /\ d.pc = "deposits" => d.to \in Ended
    /\ d.pc \in {"occupy", "checkTable", "writeTable"} => d.table \in Tables

Carried == \A r \in Requests : Carries(req[r])

\* Who creates a reservation is alone with it.
Creating ==
    \A r \in Requests : req[r].pc = "insert" =>
        /\ res[req[r].of].status = "ABSENT"
        /\ \A q \in Requests \ {r} : req[q].of # req[r].of

\* The order in which a reservation takes its statuses.
Rank == [PENDING |-> 1, CONFIRMED |-> 2, SEATED |-> 3, COMPLETED |-> 4,
         CANCELLED |-> 5, NO_SHOW |-> 6]

Past ==
    \A v \in Reservations :
        /\ res[v].status = "ABSENT" => reached[v] = {}
        /\ res[v].status # "ABSENT" => /\ res[v].status \in reached[v]
                                       /\ \A s \in reached[v] : Rank[s] <= Rank[res[v].status]

Reporting == {"occupy", "deposits", "event"}

\* A request on its way to an event reports a status that was taken, that has no
\* event yet and that nobody else reports.
Reports ==
    \A r \in Requests : req[r].pc \in Reporting =>
        /\ req[r].to \in reached[req[r].of]
        /\ events[req[r].of][req[r].to] = 0
        /\ \A q \in Requests \ {r} :
               req[q].pc \in Reporting /\ req[q].of = req[r].of => req[q].to # req[r].to

\* Only statuses that were taken have an event.
Logged ==
    \A v \in Reservations, s \in Status : events[v][s] # 0 => s \in reached[v]

Tabled ==
    \A v \in Reservations : res[v].status \in {"SEATED", "COMPLETED"} => res[v].table # None

Deposited ==
    \A d \in Deposits : deposits[d].status # "ABSENT" => deposits[d].of \in Reservations

RInv ==
    /\ TypeOK /\ Carried /\ Creating /\ Past /\ Reports /\ Logged /\ Tabled
    /\ Deposited /\ DepositKept

-----------------------------------------------------------------------------
(* The graph                                                               *)

LEMMA Statuses ==
  /\ Status = {"PENDING", "CONFIRMED", "SEATED", "COMPLETED", "CANCELLED", "NO_SHOW"}
  /\ \A s \in Status : Rank[s] \in Nat
BY DEF Status, VALID_TRANSITIONS, Rank

\* Transitions go up in Rank, and nothing leads to PENDING or from a seated
\* party back to SEATED.
LEMMA Upwards ==
  ASSUME NEW s \in Status, NEW t \in VALID_TRANSITIONS[s]
  PROVE  /\ t \in Status /\ Rank[s] < Rank[t]
         /\ t = "SEATED" => s = "CONFIRMED"
         /\ s = "SEATED" => t = "COMPLETED"
         /\ s # "COMPLETED" /\ (t = "COMPLETED" => s = "SEATED")
BY DEF Status, VALID_TRANSITIONS, Rank

LEMMA Edges ==
  /\ "CONFIRMED" \in VALID_TRANSITIONS["PENDING"]
  /\ "SEATED" \in VALID_TRANSITIONS["CONFIRMED"]
  /\ "COMPLETED" \in VALID_TRANSITIONS["SEATED"]
  /\ \A s \in Ended : s \in VALID_TRANSITIONS["PENDING"] /\ s \in VALID_TRANSITIONS["CONFIRMED"]
BY DEF VALID_TRANSITIONS, Ended

-----------------------------------------------------------------------------
(* The initial state                                                       *)

LEMMA InitRInv == Init => RInv
<1>. SUFFICES ASSUME Init PROVE RInv
  OBVIOUS
<1>1. TypeOK
  BY NoneAssumption, CrashesAssumption, Statuses
     DEF Init, Idle, TypeOK, PC, Outcomes, DepositStatus
<1>2. Carried /\ Creating /\ Reports
  BY DEF Init, Idle, Carried, Carries, Creating, Reports, Reporting
<1>3. Past /\ Logged /\ Tabled /\ Deposited /\ DepositKept
  BY Statuses DEF Init, Past, Logged, Tabled, Deposited, DepositKept
<1>. QED
  BY <1>1, <1>2, <1>3 DEF RInv

-----------------------------------------------------------------------------
(* What the blocks do to the requests                                      *)

\* One request moves.
Moves(r) == /\ \A q \in Requests \ {r} : req'[q] = req[q]
            /\ req' \in [Requests -> Slots]

LEMMA IdleSlot == Idle \in Slots /\ Carries(Idle) /\ Idle.pc = "idle" /\ Idle.of = None
BY Statuses DEF Idle, Slots, PC, Outcomes, Carries

LEMMA GotoMoves ==
  ASSUME TypeOK, NEW r \in Requests, NEW q \in PC, Goto(r, q)
  PROVE  /\ Moves(r)
         /\ q = "idle" => req'[r] = Idle
         /\ q # "idle" => /\ req'[r] = [req[r] EXCEPT !.pc = q]
                          /\ req'[r].pc = q /\ req'[r].of = req[r].of /\ req'[r].to = req[r].to
                          /\ req'[r].from = req[r].from /\ req'[r].table = req[r].table
                          /\ req'[r].outcome = req[r].outcome
<1>1. req \in [Requests -> Slots]
  BY DEF TypeOK, Slots
<1>2. CASE q = "idle"
  BY <1>1, <1>2, IdleSlot DEF Goto, Moves
<1>3. CASE q # "idle"
  <2>1. [req[r] EXCEPT !.pc = q] \in Slots
    BY <1>1 DEF Slots
  <2>. QED
    BY <1>1, <1>3, <2>1 DEF Goto, Moves, Slots
<1>. QED
  BY <1>2, <1>3

\* What a request that arrives has found.
Found(d) ==
    /\ d.of \in Reservations
    /\ d.pc \in {"insert", "cas", "openOrder", "insertDeposit", "checkTable"}
    /\ d.pc = "insert" => /\ res[d.of].status = "ABSENT"
                          /\ \A q \in Requests : req[q].of # d.of
    /\ d.pc # "insert" => res[d.of].status # "ABSENT"

LEMMA ArriveFinds ==
  ASSUME TypeOK, NEW r \in Requests, Arrive(r)
  PROVE  /\ UNCHANGED <<res, reached, events, deposits, opened, occupied, crashes>>
         /\ \E d \in Slots : Start(r, d) /\ Found(d) /\ Carries(d)
<1>0. UNCHANGED <<res, reached, events, deposits, opened, occupied, crashes>>
  BY DEF Arrive, CreateCheck, ConfirmRead, SeatRead, CancelRead, CompleteRead, DepositRead, AssignRead
<1>1. ASSUME NEW v \in Reservations, NEW t \in Tables \cup {None}, NEW s \in Times,
             CreateCheck(r, v, t, s)
      PROVE  \E d \in Slots : Start(r, d) /\ Found(d) /\ Carries(d)
  <2>9. PICK d : d = [Idle EXCEPT !.pc = "insert", !.of = v, !.table = t, !.start = s]
    OBVIOUS
  <2>1. d = [pc |-> "insert", of |-> v, to |-> "PENDING", from |-> {}, table |-> t,
             order |-> None, open |-> Idle.open, outcome |-> "NO_DEPOSIT", start |-> s]
    BY <2>9 DEF Idle
  <2>2. d \in Slots
    BY <2>1, Statuses DEF Slots, PC, Outcomes, Idle
  <2>3. Carries(d)
    <3>1. d.pc = "insert" /\ d.of = v /\ d.to = "PENDING"
      BY <2>1
    <3>. QED
      BY <3>1 DEF Carries
  <2>. QED
    BY <1>1, <2>1, <2>2, <2>3, <2>9 DEF CreateCheck, Found
<1>2. ASSUME NEW v \in Reservations, ConfirmRead(r, v)
      PROVE  \E d \in Slots : Start(r, d) /\ Found(d) /\ Carries(d)
  <2>9. PICK d : d = [Idle EXCEPT !.pc = "cas", !.of = v, !.to = "CONFIRMED", !.from = {"PENDING"}]
    OBVIOUS
  <2>1. d = [pc |-> "cas", of |-> v, to |-> "CONFIRMED", from |-> {"PENDING"}, table |-> None,
             order |-> None, open |-> Idle.open, outcome |-> "NO_DEPOSIT", start |-> 0]
    BY <2>9 DEF Idle
  <2>2. d \in Slots
    BY <2>1, Statuses DEF Slots, PC, Outcomes, Idle
  <2>3. Carries(d)
    <3>1. /\ d.pc = "cas" /\ d.of = v /\ d.to = "CONFIRMED" /\ d.from = {"PENDING"}
          /\ d.outcome = "NO_DEPOSIT"
      BY <2>1
    <3>. QED
      BY <3>1, Edges DEF Carries
  <2>. QED
    BY <1>2, <2>1, <2>2, <2>3, <2>9 DEF ConfirmRead, Found
<1>3. ASSUME NEW v \in Reservations, NEW g \in Tables \cup {None}, NEW open \in BOOLEAN,
             SeatRead(r, v, g, open)
      PROVE  \E d \in Slots : Start(r, d) /\ Found(d) /\ Carries(d)
  <2>. DEFINE t == IF g # None THEN g ELSE res[v].table
  <2>9. PICK d : d = [Idle EXCEPT !.pc = IF open THEN "openOrder" ELSE "cas", !.of = v,
                             !.to = "SEATED", !.from = {"CONFIRMED"}, !.table = t, !.open = open]
    OBVIOUS
  <2>8. PICK p \in {"openOrder", "cas"} : p = IF open THEN "openOrder" ELSE "cas"
    OBVIOUS
  <2>0. t \in Tables
    BY <1>3 DEF SeatRead, TypeOK
  <2>. HIDE DEF t
  <2>1. d = [pc |-> p, of |-> v, to |-> "SEATED", from |-> {"CONFIRMED"}, table |-> t,
             order |-> None, open |-> open, outcome |-> "NO_DEPOSIT", start |-> 0]
    BY <2>8, <2>9 DEF Idle
  <2>2. d \in Slots
    <3>1. p \in PC /\ "SEATED" \in Status /\ {"CONFIRMED"} \subseteq Status /\ "NO_DEPOSIT" \in Outcomes
      BY <2>8, Statuses DEF PC, Outcomes
    <3>. QED
      BY <2>0, <2>1, <3>1 DEF Slots
  <2>3. Carries(d)
    <3>1. /\ d.pc \in {"openOrder", "cas"} /\ d.of = v /\ d.to = "SEATED"
          /\ d.from = {"CONFIRMED"} /\ d.table = t /\ d.outcome = "NO_DEPOSIT"
      BY <2>1
    <3>. QED
      BY <2>0, <3>1, Edges DEF Carries
  <2>4. Start(r, d)
    BY <1>3, <2>9 DEF SeatRead, t
  <2>. QED
    BY <1>3, <2>1, <2>2, <2>3, <2>4 DEF SeatRead, Found
<1>4. ASSUME NEW v \in Reservations, NEW s \in {"CANCELLED", "NO_SHOW"}, NEW x \in Outcomes,
             CancelRead(r, v, s, x)
      PROVE  \E d \in Slots : Start(r, d) /\ Found(d) /\ Carries(d)
  <2>9. PICK d : d = [Idle EXCEPT !.pc = "cas", !.of = v, !.to = s,
                             !.from = {"PENDING", "CONFIRMED"}, !.outcome = x]
    OBVIOUS
  <2>1. d = [pc |-> "cas", of |-> v, to |-> s, from |-> {"PENDING", "CONFIRMED"}, table |-> None,
             order |-> None, open |-> Idle.open, outcome |-> x, start |-> 0]
    BY <2>9 DEF Idle
  <2>2. d \in Slots
    BY <2>1, Statuses DEF Slots, PC, Idle
  <2>3. Carries(d)
    <3>1. /\ d.pc = "cas" /\ d.of = v /\ d.to = s /\ d.from = {"PENDING", "CONFIRMED"}
          /\ s \in Ended /\ s # "SEATED"
      BY <2>1 DEF Ended
    <3>. QED
      BY <3>1, Edges DEF Carries
  <2>. QED
    BY <1>4, <2>1, <2>2, <2>3, <2>9 DEF CancelRead, Found
<1>5. ASSUME NEW v \in Reservations, CompleteRead(r, v)
      PROVE  \E d \in Slots : Start(r, d) /\ Found(d) /\ Carries(d)
  <2>9. PICK d : d = [Idle EXCEPT !.pc = "cas", !.of = v, !.to = "COMPLETED", !.from = {"SEATED"}]
    OBVIOUS
  <2>1. d = [pc |-> "cas", of |-> v, to |-> "COMPLETED", from |-> {"SEATED"}, table |-> None,
             order |-> None, open |-> Idle.open, outcome |-> "NO_DEPOSIT", start |-> 0]
    BY <2>9 DEF Idle
  <2>2. d \in Slots
    BY <2>1, Statuses DEF Slots, PC, Outcomes, Idle
  <2>3. Carries(d)
    <3>1. /\ d.pc = "cas" /\ d.of = v /\ d.to = "COMPLETED" /\ d.from = {"SEATED"}
          /\ d.outcome = "NO_DEPOSIT"
      BY <2>1
    <3>. QED
      BY <3>1, Edges DEF Carries
  <2>. QED
    BY <1>5, <2>1, <2>2, <2>3, <2>9 DEF CompleteRead, Found
<1>6. ASSUME NEW v \in Reservations, DepositRead(r, v)
      PROVE  \E d \in Slots : Start(r, d) /\ Found(d) /\ Carries(d)
  <2>9. PICK d : d = [Idle EXCEPT !.pc = "insertDeposit", !.of = v]
    OBVIOUS
  <2>1. d = [pc |-> "insertDeposit", of |-> v, to |-> "PENDING", from |-> {}, table |-> None,
             order |-> None, open |-> Idle.open, outcome |-> "NO_DEPOSIT", start |-> 0]
    BY <2>9 DEF Idle
  <2>2. d \in Slots
    BY <2>1, Statuses DEF Slots, PC, Outcomes, Idle
  <2>3. Carries(d)
    BY <2>1 DEF Carries
  <2>. QED
    BY <1>6, <2>1, <2>2, <2>3, <2>9 DEF DepositRead, Found
<1>7. ASSUME NEW v \in Reservations, NEW t \in Tables, AssignRead(r, v, t)
      PROVE  \E d \in Slots : Start(r, d) /\ Found(d) /\ Carries(d)
  <2>9. PICK d : d = [Idle EXCEPT !.pc = "checkTable", !.of = v, !.table = t, !.start = res[v].start]
    OBVIOUS
  <2>1. d = [pc |-> "checkTable", of |-> v, to |-> "PENDING", from |-> {}, table |-> t,
             order |-> None, open |-> Idle.open, outcome |-> "NO_DEPOSIT", start |-> res[v].start]
    BY <2>9 DEF Idle
  <2>0. res[v].start \in Times \cup {0}
    BY DEF TypeOK
  <2>2. d \in Slots
    BY <2>0, <2>1, Statuses DEF Slots, PC, Outcomes, Idle
  <2>3. Carries(d)
    BY <2>1 DEF Carries
  <2>. QED
    BY <1>7, <2>1, <2>2, <2>3, <2>9 DEF AssignRead, Found, ACTIVE_STATUSES
<1>. QED
  BY <1>0, <1>1, <1>2, <1>3, <1>4, <1>5, <1>6, <1>7 DEF Arrive

LEMMA StartMoves ==
  ASSUME TypeOK, NEW r \in Requests, NEW d \in Slots, Start(r, d)
  PROVE  Moves(r) /\ req'[r] = d
BY DEF TypeOK, Start, Moves, Slots

-----------------------------------------------------------------------------
(* What a request that goes on does                                        *)

Rows == [status : Status \cup {"ABSENT"}, table : Tables \cup {None},
         start : Times \cup {0}, order : Orders \cup {None}]

\* No status is taken; a table may be assigned.
Same ==
    /\ UNCHANGED reached
    /\ res' \in [Reservations -> Rows]
    /\ \A v \in Reservations :
           /\ res'[v].status = res[v].status /\ res'[v].order = res[v].order
           /\ res'[v].table # res[v].table => res'[v].table \in Tables

\* v comes into being.
Begins(v) ==
    /\ res[v].status = "ABSENT"
    /\ reached' = [reached EXCEPT ![v] = {"PENDING"}]
    /\ \E row \in Rows : row.status = "PENDING" /\ res' = [res EXCEPT ![v] = row]

\* v takes status t.
Takes(v, t) ==
    /\ res[v].status \in Status /\ t \in VALID_TRANSITIONS[res[v].status]
    /\ reached' = [reached EXCEPT ![v] = @ \cup {t}]
    /\ \E row \in Rows :
           /\ row.status = t /\ res' = [res EXCEPT ![v] = row]
           /\ t = "SEATED" => row.table \in Tables
           /\ t # "SEATED" => row.table = res[v].table /\ row.order = res[v].order

\* A request is about to report what it did, goes on to report it, has reported
\* it, or has nothing to report.
Enters(r) ==
    /\ req'[r].pc \in Reporting /\ UNCHANGED <<events, deposits>>
    /\ req'[r].of = req[r].of /\ req'[r].to = req[r].to
    /\ (Begins(req[r].of) /\ req[r].to = "PENDING") \/ Takes(req[r].of, req[r].to)

Stays(r) ==
    /\ req[r].pc \in Reporting /\ req'[r].pc \in Reporting /\ UNCHANGED events
    /\ req'[r].of = req[r].of /\ req'[r].to = req[r].to
    /\ Same

Leaves(r) ==
    /\ req[r].pc = "event" /\ req'[r].pc = "idle" /\ Same /\ UNCHANGED deposits
    /\ events' = [events EXCEPT ![req[r].of][req[r].to] = @ + 1]

Plain(r) == req'[r].pc \notin Reporting /\ Same /\ UNCHANGED events

LEMMA SameRows ==
  ASSUME TypeOK, UNCHANGED <<res, reached>>
  PROVE  Same
BY DEF TypeOK, Same, Rows

LEMMA ProceedKinds ==
  ASSUME TypeOK, Carried, Creating, NEW r \in Requests, Proceed(r)
  PROVE  /\ Moves(r) /\ Carries(req'[r]) /\ req'[r].pc # "insert"
         /\ req'[r].of \in {None, req[r].of} /\ UNCHANGED crashes
         /\ Enters(r) \/ Stays(r) \/ Leaves(r) \/ Plain(r)
<1>0. Carries(req[r]) /\ req[r] \in Slots /\ req \in [Requests -> Slots]
  BY DEF Carried, TypeOK, Slots
<1>a. res \in [Reservations -> Rows] /\ reached \in [Reservations -> SUBSET Status]
  BY DEF TypeOK, Rows
<1>b. \A q \in {"idle", "cas", "occupy", "deposits", "event", "writeTable"} : q \in PC
  BY DEF PC
<1>1. CASE CreateInsert(r)
  <2>1. req[r].pc = "insert" /\ Goto(r, "event") /\ UNCHANGED <<events, deposits, crashes>>
    BY <1>1 DEF CreateInsert
  <2>2. /\ Moves(r) /\ req'[r].pc = "event" /\ req'[r].of = req[r].of /\ req'[r].to = req[r].to
    BY <1>b, <2>1, GotoMoves
  <2>. PICK v \in Reservations : v = req[r].of
    BY <1>0, <2>1 DEF Carries
  <2>3. Carries(req'[r])
    BY <2>2 DEF Carries
  <2>. PICK row : row = [status |-> "PENDING", table |-> req[r].table,
                         start |-> req[r].start, order |-> None]
    OBVIOUS
  <2>4. row \in Rows /\ row.status = "PENDING"
    BY <1>0, Statuses DEF Rows, Slots
  <2>5. res' = [res EXCEPT ![v] = row] /\ reached' = [reached EXCEPT ![v] = {"PENDING"}]
    BY <1>1 DEF CreateInsert
  <2>6. Begins(v)
    BY <2>1, <2>4, <2>5 DEF Begins, Creating
  <2>7. Enters(r)
    BY <1>0, <2>1, <2>2, <2>6 DEF Enters, Reporting, Carries
  <2>. QED
    BY <2>1, <2>2, <2>3, <2>7
<1>2. ASSUME NEW o \in Orders, OpenOrder(r, o)
      PROVE  /\ Moves(r) /\ Carries(req'[r]) /\ req'[r].pc # "insert"
             /\ req'[r].of \in {None, req[r].of} /\ UNCHANGED crashes
             /\ Plain(r)
  <2>1. req'[r] = [req[r] EXCEPT !.pc = "cas", !.order = o] /\ req[r].pc = "openOrder"
    BY <1>0, <1>2 DEF OpenOrder
  <2>2. /\ req'[r] \in Slots /\ req'[r].pc = "cas" /\ req'[r].of = req[r].of
        /\ req'[r].to = req[r].to /\ req'[r].from = req[r].from /\ req'[r].table = req[r].table
        /\ req'[r].outcome = req[r].outcome
    BY <1>0, <1>b, <2>1 DEF Slots
  <2>3. Carries(req'[r])
    BY <1>0, <2>1, <2>2 DEF Carries
  <2>4. Moves(r)
    BY <1>0, <1>2, <2>2 DEF OpenOrder, Moves
  <2>. QED
    BY <1>2, <2>2, <2>3, <2>4, SameRows DEF OpenOrder, Plain, Reporting
<1>3. CASE Cas(r)
  <2>. PICK v \in Reservations : v = req[r].of
    BY <1>0, <1>3 DEF Carries, Cas
  <2>1. CASE res[v].status \notin req[r].from
    <3>1. Goto(r, "idle") /\ UNCHANGED <<res, reached, events, deposits, crashes>>
      BY <1>3, <2>1 DEF Cas
    <3>. QED
      BY <1>b, <3>1, GotoMoves, IdleSlot, SameRows DEF Plain, Reporting
  <2>2. CASE res[v].status \in req[r].from
    <3>1. /\ req[r].pc = "cas" /\ Goto(r, AfterCas(r)) /\ UNCHANGED <<events, deposits, crashes>>
          /\ res' = [res EXCEPT ![v] = Moved(r, res[v])]
          /\ reached' = [reached EXCEPT ![v] = @ \cup {req[r].to}]
      BY <1>3, <2>2 DEF Cas
    <3>2. /\ res[v].status \in Status /\ req[r].to \in VALID_TRANSITIONS[res[v].status]
          /\ req[r].to = "SEATED" => req[r].table \in Tables
          /\ req[r].outcome # "NO_DEPOSIT" => req[r].to \in Ended
      BY <1>0, <2>2, <3>1 DEF Carries, Slots
    <3>3. /\ AfterCas(r) \in Reporting /\ AfterCas(r) \in PC /\ AfterCas(r) # "idle"
          /\ AfterCas(r) = "occupy" => req[r].table \in Tables
          /\ AfterCas(r) = "deposits" => req[r].to \in Ended
      BY <1>b, <3>2 DEF AfterCas, Reporting
    <3>4. /\ Moves(r) /\ req'[r].pc = AfterCas(r) /\ req'[r].of = req[r].of
          /\ req'[r].to = req[r].to /\ req'[r].table = req[r].table
      BY <3>1, <3>3, GotoMoves
    <3>5. Carries(req'[r])
      BY <3>3, <3>4 DEF Carries, Reporting
    <3>6. PICK row : row = Moved(r, res[v])
      OBVIOUS
    <3>7. /\ row \in Rows /\ row.status = req[r].to
          /\ req[r].to = "SEATED" => row.table \in Tables
          /\ req[r].to # "SEATED" => row.table = res[v].table /\ row.order = res[v].order
      <4>1. res[v] \in Rows
        BY <1>a
      <4>2. CASE req[r].to = "SEATED"
        <5>1. row = [res[v] EXCEPT !.status = "SEATED", !.table = req[r].table, !.order = req[r].order]
          BY <3>6, <4>2 DEF Moved
        <5>2. /\ row \in Rows /\ row.status = "SEATED" /\ row.table = req[r].table
          BY <1>0, <4>1, <5>1, Statuses DEF Rows, Slots
        <5>. QED
          BY <3>2, <4>2, <5>2
      <4>3. CASE req[r].to # "SEATED"
        <5>1. row = [res[v] EXCEPT !.status = req[r].to]
          BY <3>6, <4>3 DEF Moved
        <5>. QED
          BY <1>0, <4>1, <4>3, <5>1 DEF Rows, Slots
      <4>. QED
        BY <4>2, <4>3
    <3>8. Takes(v, req[r].to)
      BY <3>1, <3>2, <3>6, <3>7 DEF Takes
    <3>9. Enters(r)
      BY <3>1, <3>3, <3>4, <3>8 DEF Enters
    <3>. QED
      BY <3>1, <3>3, <3>4, <3>5, <3>9 DEF Reporting
  <2>. QED
    BY <2>1, <2>2
<1>4. CASE Occupy(r) \/ SettleDeposits(r)
  <2>1. /\ req[r].pc \in {"occupy", "deposits"} /\ Goto(r, "event")
        /\ UNCHANGED <<res, reached, events, crashes>>
    BY <1>4 DEF Occupy, SettleDeposits
  <2>2. /\ Moves(r) /\ req'[r].pc = "event" /\ req'[r].of = req[r].of /\ req'[r].to = req[r].to
    BY <1>b, <2>1, GotoMoves
  <2>3. Carries(req'[r])
    BY <1>0, <2>1, <2>2 DEF Carries
  <2>. QED
    BY <2>1, <2>2, <2>3, SameRows DEF Stays, Reporting
<1>5. CASE WriteEvent(r)
  <2>1. /\ req[r].pc = "event" /\ Goto(r, "idle")
        /\ UNCHANGED <<res, reached, deposits, crashes>>
        /\ events' = [events EXCEPT ![req[r].of][req[r].to] = @ + 1]
    BY <1>5 DEF WriteEvent
  <2>. QED
    BY <1>b, <2>1, GotoMoves, IdleSlot, SameRows DEF Leaves
<1>6. ASSUME NEW d \in Deposits, InsertDeposit(r, d)
      PROVE  /\ Moves(r) /\ Carries(req'[r]) /\ req'[r].pc # "insert"
             /\ req'[r].of \in {None, req[r].of} /\ UNCHANGED crashes
             /\ Plain(r)
  <2>1. Goto(r, "idle") /\ UNCHANGED <<res, reached, events, crashes>>
    BY <1>6 DEF InsertDeposit
  <2>. QED
    BY <1>b, <2>1, GotoMoves, IdleSlot, SameRows DEF Plain, Reporting
<1>7. CASE AssignCheck(r)
  <2>0. req[r].pc = "checkTable" /\ UNCHANGED <<res, reached, events, crashes>>
    BY <1>7 DEF AssignCheck
  <2>1. CASE Goto(r, "idle")
    BY <1>b, <2>0, <2>1, GotoMoves, IdleSlot, SameRows DEF Plain, Reporting
  <2>2. CASE Goto(r, "writeTable")
    <3>1. /\ Moves(r) /\ req'[r].pc = "writeTable" /\ req'[r].of = req[r].of
          /\ req'[r].table = req[r].table
      BY <1>b, <2>2, GotoMoves
    <3>2. Carries(req'[r])
      BY <1>0, <2>0, <3>1 DEF Carries
    <3>. QED
      BY <2>0, <3>1, <3>2, SameRows DEF Plain, Reporting
  <2>. QED
    BY <1>7, <2>1, <2>2 DEF AssignCheck
<1>8. CASE AssignWrite(r)
  <2>. PICK v \in Reservations : v = req[r].of
    BY <1>0, <1>8 DEF Carries, AssignWrite
  <2>1. /\ Goto(r, "idle") /\ UNCHANGED <<reached, events, crashes>> /\ req[r].table \in Tables
        /\ res' = [res EXCEPT ![v] = [res[v] EXCEPT !.table = req[r].table]]
    BY <1>0, <1>8 DEF AssignWrite, Carries
  <2>2. PICK row : row = [res[v] EXCEPT !.table = req[r].table]
    OBVIOUS
  <2>3. /\ row \in Rows /\ row.status = res[v].status /\ row.order = res[v].order
        /\ row.table \in Tables
    BY <1>a, <2>1, <2>2 DEF Rows
  <2>4. Same
    BY <1>a, <2>1, <2>2, <2>3 DEF Same
  <2>. QED
    BY <1>b, <2>1, <2>4, GotoMoves, IdleSlot DEF Plain, Reporting
<1>. QED
  BY <1>1, <1>2, <1>3, <1>4, <1>5, <1>6, <1>7, <1>8 DEF Proceed

-----------------------------------------------------------------------------
(* Every step keeps the invariant                                          *)

\* What a step can do to the reservations, whoever takes it.
LEMMA RowKinds ==
  ASSUME RInv, [Next]_vars
  PROVE  \/ Same
         \/ \E r \in Requests : /\ Enters(r) /\ req[r].of \in Reservations
                                /\ Carries(req'[r]) /\ Moves(r)
<1>1. ASSUME NEW r \in Requests, Proceed(r)
      PROVE  \/ Same
             \/ Enters(r) /\ req[r].of \in Reservations /\ Carries(req'[r]) /\ Moves(r)
  <2>1. /\ Moves(r) /\ Carries(req'[r])
        /\ Enters(r) \/ Stays(r) \/ Leaves(r) \/ Plain(r)
    BY <1>1, ProceedKinds DEF RInv
  <2>2. CASE Enters(r)
    <3>1. req'[r].pc \in Reporting /\ req'[r].of = req[r].of
      BY <2>2 DEF Enters
    <3>. QED
      BY <2>1, <2>2, <3>1 DEF Carries, Reporting
  <2>. QED
    BY <2>1, <2>2 DEF Stays, Leaves, Plain
<1>2. CASE UNCHANGED <<res, reached>>
  BY <1>2, SameRows DEF RInv
<1>3. ASSUME NEW r \in Requests, Arrive(r)
      PROVE  UNCHANGED <<res, reached>>
  BY <1>3, ArriveFinds DEF RInv
<1>. QED
  BY <1>1, <1>2, <1>3 DEF Next, Crash, FreeTable, vars

\* A status once taken stays taken, and none is taken twice.
LEMMA PastStep ==
  ASSUME RInv, [Next]_vars
  PROVE  /\ Past' /\ Tabled'
         /\ res' \in [Reservations -> Rows] /\ reached' \in [Reservations -> SUBSET Status]
         /\ \A v \in Reservations : reached[v] \subseteq reached'[v]
         /\ \A r \in Requests : Enters(r) /\ req[r].of \in Reservations =>
                /\ req[r].to \in reached'[req[r].of] /\ req[r].to \notin reached[req[r].of]
                /\ req[r].to \in Status
<1>0. /\ TypeOK /\ Past /\ Tabled /\ \A s \in Status : Rank[s] \in Nat
      /\ reached \in [Reservations -> SUBSET Status]
      /\ res \in [Reservations -> Rows] /\ None \notin Tables
  BY Statuses, NoneAssumption DEF RInv, TypeOK, Rows
<1>1. ASSUME NEW v \in Reservations, Begins(v)
      PROVE  /\ Past' /\ Tabled'
             /\ res' \in [Reservations -> Rows] /\ reached' \in [Reservations -> SUBSET Status]
             /\ \A u \in Reservations : reached[u] \subseteq reached'[u]
             /\ "PENDING" \in reached'[v] /\ "PENDING" \notin reached[v]
  <2>1. reached[v] = {} /\ reached'[v] = {"PENDING"} /\ res'[v].status = "PENDING"
    BY <1>0, <1>1 DEF Begins, Past
  <2>2. \A u \in Reservations \ {v} : reached'[u] = reached[u] /\ res'[u] = res[u]
    BY <1>0, <1>1 DEF Begins
  <2>3. res' \in [Reservations -> Rows] /\ reached' \in [Reservations -> SUBSET Status]
    BY <1>0, <1>1, Statuses DEF Begins
  <2>4. Past'
    BY <1>0, <2>1, <2>2, Statuses DEF Past
  <2>5. Tabled'
    BY <1>0, <2>1, <2>2 DEF Tabled
  <2>. QED
    BY <2>1, <2>2, <2>3, <2>4, <2>5
<1>2. ASSUME NEW v \in Reservations, NEW t, Takes(v, t)
      PROVE  /\ Past' /\ Tabled'
             /\ res' \in [Reservations -> Rows] /\ reached' \in [Reservations -> SUBSET Status]
             /\ \A u \in Reservations : reached[u] \subseteq reached'[u]
             /\ t \in reached'[v] /\ t \notin reached[v] /\ t \in Status
  <2>. PICK s \in Status : s = res[v].status
    BY <1>2 DEF Takes
  <2>1. /\ t \in Status /\ Rank[s] < Rank[t] /\ (t = "COMPLETED" => s = "SEATED")
        /\ t # "ABSENT" /\ s # "ABSENT"
    BY <1>2, Upwards, Statuses DEF Takes
  <2>2. \A u \in reached[v] : u \in Status /\ Rank[u] <= Rank[s]
    BY <1>0, <2>1 DEF Past
  <2>3. t \notin reached[v]
    <3>1. Rank[s] \in Nat /\ Rank[t] \in Nat
      BY <2>1, Statuses
    <3>2. ~ (Rank[t] <= Rank[s])
      BY <2>1, <3>1
    <3>. QED
      BY <2>2, <3>2
  <2>4. /\ reached'[v] = reached[v] \cup {t} /\ res'[v].status = t
        /\ t = "SEATED" => res'[v].table \in Tables
        /\ t # "SEATED" => res'[v].table = res[v].table
    BY <1>0, <1>2 DEF Takes
  <2>5. \A u \in Reservations \ {v} : reached'[u] = reached[u] /\ res'[u] = res[u]
    BY <1>0, <1>2 DEF Takes
  <2>6. res' \in [Reservations -> Rows] /\ reached' \in [Reservations -> SUBSET Status]
    <3>1. PICK row \in Rows : res' = [res EXCEPT ![v] = row]
      BY <1>2 DEF Takes
    <3>2. reached' = [reached EXCEPT ![v] = reached[v] \cup {t}]
      BY <1>2 DEF Takes
    <3>. QED
      BY <1>0, <2>1, <3>1, <3>2
  <2>7. \A u \in reached'[v] : Rank[u] <= Rank[t]
    <3>1. \A u \in Status : Rank[u] \in Nat
      BY Statuses
    <3>. QED
      BY <2>1, <2>2, <2>4, <3>1
  <2>8. Past'
    BY <1>0, <2>1, <2>4, <2>5, <2>7 DEF Past
  <2>9. Tabled'
    <3>1. t \in {"SEATED", "COMPLETED"} => res'[v].table # None
      <4>1. CASE t = "SEATED"
        BY <1>0, <2>4, <4>1
      <4>2. CASE t = "COMPLETED"
        BY <1>0, <2>1, <2>4, <4>2 DEF Tabled
      <4>. QED
        BY <4>1, <4>2
    <3>. QED
      BY <1>0, <2>4, <2>5, <3>1 DEF Tabled
  <2>. QED
    BY <2>1, <2>3, <2>4, <2>5, <2>6, <2>8, <2>9
<1>3. ASSUME Same
      PROVE  /\ Past' /\ Tabled'
             /\ res' \in [Reservations -> Rows] /\ reached' \in [Reservations -> SUBSET Status]
             /\ \A u \in Reservations : reached[u] \subseteq reached'[u]
  <2>1. Past'
    BY <1>0, <1>3 DEF Same, Past
  <2>2. Tabled'
    BY <1>0, <1>3 DEF Same, Tabled
  <2>. QED
    BY <1>0, <1>3, <2>1, <2>2 DEF Same
<1>4. ASSUME NEW r \in Requests, Enters(r), req[r].of \in Reservations
      PROVE  /\ Past' /\ Tabled'
             /\ res' \in [Reservations -> Rows] /\ reached' \in [Reservations -> SUBSET Status]
             /\ \A u \in Reservations : reached[u] \subseteq reached'[u]
             /\ req[r].to \in reached'[req[r].of] /\ req[r].to \notin reached[req[r].of]
             /\ req[r].to \in Status
  BY <1>1, <1>2, <1>4, Statuses DEF Enters
<1>. QED
  BY <1>3, <1>4, RowKinds

\* The requests keep what they need, and creators stay alone.
LEMMA CarriedStep ==
  ASSUME RInv, [Next]_vars
  PROVE  req' \in [Requests -> Slots] /\ Carried' /\ Creating'
<1>0. TypeOK /\ Carried /\ Creating /\ req \in [Requests -> Slots]
  BY DEF RInv, TypeOK, Slots
<1>1. ASSUME NEW r \in Requests, Arrive(r)
      PROVE  req' \in [Requests -> Slots] /\ Carried' /\ Creating'
  <2>1. PICK d \in Slots : Start(r, d) /\ Found(d) /\ Carries(d)
    BY <1>0, <1>1, ArriveFinds
  <2>2. UNCHANGED res
    BY <1>0, <1>1, ArriveFinds
  <2>3. Moves(r) /\ req'[r] = d
    BY <1>0, <2>1, StartMoves
  <2>4. Carried'
    BY <1>0, <2>1, <2>3 DEF Carried, Moves
  <2>5. \A q \in Requests \ {r} : req'[q] = req[q]
    BY <2>3 DEF Moves
  <2>6. ASSUME NEW q \in Requests, req'[q].pc = "insert"
        PROVE  /\ res'[req'[q].of].status = "ABSENT"
               /\ \A p \in Requests \ {q} : req'[p].of # req'[q].of
    <3>1. CASE q = r
      BY <2>1, <2>2, <2>3, <2>5, <2>6, <3>1 DEF Found
    <3>2. CASE q # r
      <4>1. /\ res[req[q].of].status = "ABSENT"
            /\ \A p \in Requests \ {q} : req[p].of # req[q].of
        BY <1>0, <2>5, <2>6, <3>2 DEF Creating
      <4>2. d.of # req[q].of
        BY <2>1, <4>1 DEF Found
      <4>. QED
        BY <2>2, <2>3, <2>5, <3>2, <4>1, <4>2
    <3>. QED
      BY <3>1, <3>2
  <2>. QED
    BY <2>3, <2>4, <2>6 DEF Moves, Creating
<1>2. ASSUME NEW r \in Requests, Moves(r), Carries(req'[r]), req'[r].pc # "insert",
             req'[r].of \in {None, req[r].of},
             \A v \in Reservations : v # req[r].of => res'[v].status = res[v].status
      PROVE  req' \in [Requests -> Slots] /\ Carried' /\ Creating'
  <2>1. Carried'
    BY <1>0, <1>2 DEF Carried, Moves
  <2>2. ASSUME NEW q \in Requests, req'[q].pc = "insert"
        PROVE  /\ res'[req'[q].of].status = "ABSENT"
               /\ \A p \in Requests \ {q} : req'[p].of # req'[q].of
    <3>1. q # r /\ req'[q] = req[q]
      BY <1>2, <2>2 DEF Moves
    <3>2. /\ res[req[q].of].status = "ABSENT" /\ req[q].of \in Reservations
          /\ \A p \in Requests \ {q} : req[p].of # req[q].of
      BY <1>0, <2>2, <3>1 DEF Creating, Carried, Carries
    <3>3. None \notin Reservations
      BY NoneAssumption
    <3>. QED
      BY <1>2, <3>1, <3>2, <3>3 DEF Moves
  <2>. QED
    BY <1>2, <2>1, <2>2 DEF Moves, Creating
<1>3. ASSUME NEW r \in Requests, Proceed(r)
      PROVE  req' \in [Requests -> Slots] /\ Carried' /\ Creating'
  <2>1. /\ Moves(r) /\ Carries(req'[r]) /\ req'[r].pc # "insert"
        /\ req'[r].of \in {None, req[r].of}
        /\ Enters(r) \/ Stays(r) \/ Leaves(r) \/ Plain(r)
    BY <1>0, <1>3, ProceedKinds
  <2>2. res \in [Reservations -> Rows]
    BY <1>0 DEF TypeOK, Rows
  <2>3. \A v \in Reservations : v # req[r].of => res'[v].status = res[v].status
    BY <2>1, <2>2 DEF Enters, Begins, Takes, Stays, Leaves, Plain, Same
  <2>. QED
    BY <1>2, <2>1, <2>3
<1>4. ASSUME NEW r \in Requests, Crash(r)
      PROVE  req' \in [Requests -> Slots] /\ Carried' /\ Creating'
  <2>1. Moves(r) /\ req'[r] = Idle /\ UNCHANGED res
    BY <1>0, <1>4, IdleSlot DEF Crash, Moves
  <2>. QED
    BY <1>2, <2>1, IdleSlot
<1>5. ASSUME UNCHANGED <<req, res>>
      PROVE  req' \in [Requests -> Slots] /\ Carried' /\ Creating'
  BY <1>0, <1>5 DEF Carried, Creating
<1>. QED
  BY <1>1, <1>3, <1>4, <1>5 DEF Next, FreeTable, vars

\* A status that was taken is reported once, by the request that took it.
LEMMA ReportsStep ==
  ASSUME RInv, [Next]_vars
  PROVE  /\ Reports' /\ Logged'
         /\ events' \in [Reservations -> [Status -> Nat]]
<1>0. /\ TypeOK /\ Carried /\ Creating /\ Reports /\ Logged
      /\ events \in [Reservations -> [Status -> Nat]] /\ req \in [Requests -> Slots]
  BY DEF RInv, TypeOK, Slots
<1>1. /\ \A v \in Reservations : reached[v] \subseteq reached'[v]
      /\ \A r \in Requests : Enters(r) /\ req[r].of \in Reservations =>
             /\ req[r].to \in reached'[req[r].of] /\ req[r].to \notin reached[req[r].of]
             /\ req[r].to \in Status
  BY PastStep
<1>2. \A q \in Requests : req[q].pc \in Reporting => req[q].of \in Reservations
  BY <1>0 DEF Carried, Carries, Reporting
<1>3. ASSUME NEW r \in Requests, \A q \in Requests \ {r} : req'[q] = req[q],
             UNCHANGED events, req'[r].pc \notin Reporting
      PROVE  /\ Reports' /\ Logged'
             /\ events' \in [Reservations -> [Status -> Nat]]
  <2>1. Logged'
    BY <1>0, <1>1, <1>3 DEF Logged
  <2>2. Reports'
    BY <1>0, <1>1, <1>2, <1>3 DEF Reports
  <2>. QED
    BY <1>0, <1>3, <2>1, <2>2
<1>4. ASSUME NEW r \in Requests, Moves(r), Carries(req'[r]), Enters(r)
      PROVE  /\ Reports' /\ Logged'
             /\ events' \in [Reservations -> [Status -> Nat]]
  <2>. PICK v \in Reservations : v = req[r].of
    BY <1>4 DEF Enters, Carries, Reporting
  <2>. PICK t \in Status : t = req[r].to
    BY <1>0 DEF Slots
  <2>1. t \in reached'[v] /\ t \notin reached[v]
    BY <1>1, <1>4
  <2>2. /\ req'[r].of = v /\ req'[r].to = t /\ UNCHANGED events
        /\ \A q \in Requests \ {r} : req'[q] = req[q]
    BY <1>4 DEF Enters, Moves
  <2>3. events[v][t] = 0
    BY <1>0, <2>1 DEF Logged
  <2>4. \A q \in Requests \ {r} : req[q].pc \in Reporting /\ req[q].of = v => req[q].to # t
    BY <1>0, <2>1 DEF Reports
  <2>5. Logged'
    BY <1>0, <1>1, <2>2 DEF Logged
  <2>6. Reports'
    BY <1>0, <1>1, <1>2, <2>1, <2>2, <2>3, <2>4 DEF Reports
  <2>. QED
    BY <1>0, <2>2, <2>5, <2>6
<1>5. ASSUME NEW r \in Requests, Moves(r), Stays(r)
      PROVE  /\ Reports' /\ Logged'
             /\ events' \in [Reservations -> [Status -> Nat]]
  <2>1. /\ req[r].pc \in Reporting /\ req'[r].of = req[r].of /\ req'[r].to = req[r].to
        /\ UNCHANGED <<events, reached>> /\ \A q \in Requests \ {r} : req'[q] = req[q]
    BY <1>5 DEF Stays, Same, Moves
  <2>2. Logged'
    BY <1>0, <2>1 DEF Logged
  <2>3. Reports'
    BY <1>0, <2>1 DEF Reports
  <2>. QED
    BY <1>0, <2>1, <2>2, <2>3
<1>6. ASSUME NEW r \in Requests, Moves(r), Leaves(r)
      PROVE  /\ Reports' /\ Logged'
             /\ events' \in [Reservations -> [Status -> Nat]]
  <2>. PICK v \in Reservations : v = req[r].of
    BY <1>2, <1>6 DEF Leaves, Reporting
  <2>. PICK t \in Status : t = req[r].to
    BY <1>0 DEF Slots
  <2>1. /\ UNCHANGED reached /\ req'[r].pc \notin Reporting
        /\ events' = [events EXCEPT ![v][t] = @ + 1]
        /\ \A q \in Requests \ {r} : req'[q] = req[q]
    BY <1>6 DEF Leaves, Same, Moves, Reporting
  <2>2. /\ t \in reached[v]
        /\ \A q \in Requests \ {r} : req[q].pc \in Reporting /\ req[q].of = v => req[q].to # t
    BY <1>0, <1>6 DEF Leaves, Reports, Reporting
  <2>3. /\ \A u \in Reservations, s \in Status :
              u # v \/ s # t => events'[u][s] = events[u][s]
        /\ events' \in [Reservations -> [Status -> Nat]]
    BY <1>0, <2>1
  <2>4. Logged'
    BY <1>0, <2>1, <2>2, <2>3 DEF Logged
  <2>5. Reports'
    <3>1. ASSUME NEW q \in Requests, req'[q].pc \in Reporting
          PROVE  /\ req'[q].to \in reached'[req'[q].of]
                 /\ events'[req'[q].of][req'[q].to] = 0
                 /\ \A p \in Requests \ {q} :
                       req'[p].pc \in Reporting /\ req'[p].of = req'[q].of => req'[p].to # req'[q].to
      <4>1. q # r /\ req'[q] = req[q]
        BY <2>1, <3>1
      <4>2. req[q].of \in Reservations /\ req[q].to \in Status
        BY <1>0, <1>2, <3>1, <4>1 DEF Slots
      <4>3. events[req[q].of][req[q].to] = 0 /\ req[q].to \in reached[req[q].of]
        BY <1>0, <3>1, <4>1 DEF Reports
      <4>4. req[q].of # v \/ req[q].to # t
        BY <2>2, <3>1, <4>1
      <4>5. \A p \in Requests \ {q} :
                req'[p].pc \in Reporting => req'[p] = req[p]
        BY <2>1
      <4>. QED
        BY <1>0, <2>1, <2>3, <3>1, <4>1, <4>2, <4>3, <4>4, <4>5 DEF Reports
    <3>. QED
      BY <3>1 DEF Reports
  <2>. QED
    BY <2>3, <2>4, <2>5
<1>7. ASSUME NEW r \in Requests, Proceed(r)
      PROVE  /\ Reports' /\ Logged'
             /\ events' \in [Reservations -> [Status -> Nat]]
  <2>1. /\ Moves(r) /\ Carries(req'[r])
        /\ Enters(r) \/ Stays(r) \/ Leaves(r) \/ Plain(r)
    BY <1>0, <1>7, ProceedKinds
  <2>. QED
    BY <1>3, <1>4, <1>5, <1>6, <2>1 DEF Plain, Moves
<1>8. ASSUME NEW r \in Requests, Arrive(r)
      PROVE  /\ Reports' /\ Logged'
             /\ events' \in [Reservations -> [Status -> Nat]]
  <2>1. PICK d \in Slots : Start(r, d) /\ Found(d)
    BY <1>0, <1>8, ArriveFinds
  <2>2. Moves(r) /\ req'[r] = d /\ UNCHANGED events
    BY <1>0, <1>8, <2>1, StartMoves, ArriveFinds
  <2>. QED
    BY <1>3, <2>1, <2>2 DEF Found, Reporting, Moves
<1>9. ASSUME NEW r \in Requests, Crash(r)
      PROVE  /\ Reports' /\ Logged'
             /\ events' \in [Reservations -> [Status -> Nat]]
  <2>1. Moves(r) /\ req'[r] = Idle /\ UNCHANGED events
    BY <1>0, <1>9, IdleSlot DEF Crash, Moves
  <2>. QED
    BY <1>3, <2>1, IdleSlot DEF Reporting, Moves
<1>10. ASSUME UNCHANGED <<req, events, reached>>
       PROVE  /\ Reports' /\ Logged'
              /\ events' \in [Reservations -> [Status -> Nat]]
  BY <1>0, <1>10 DEF Reports, Logged
<1>. QED
  BY <1>7, <1>8, <1>9, <1>10 DEF Next, FreeTable, vars

\* Deposits are settled by a request that reports a cancellation or a no-show.
LEMMA DepositsStep ==
  ASSUME RInv, [Next]_vars
  PROVE  /\ Deposited' /\ DepositKept'
         /\ deposits' \in [Deposits -> [of : Reservations \cup {None},
                                       status : DepositStatus \cup {"ABSENT"}]]
<1>. DEFINE Row == [of : Reservations \cup {None}, status : DepositStatus \cup {"ABSENT"}]
<1>0. /\ Carried /\ Reports /\ Deposited /\ DepositKept /\ deposits \in [Deposits -> Row]
  BY DEF RInv, TypeOK
<1>1. \A v \in Reservations : reached[v] \subseteq reached'[v]
  BY PastStep
<1>. DEFINE Good(d) ==
              /\ deposits[d].status # "ABSENT" => deposits[d].of \in Reservations
              /\ deposits[d].status \in {"REFUNDED", "FORFEITED"}
                     => reached[deposits[d].of] \cap {"CANCELLED", "NO_SHOW"} # {}
<1>2. ASSUME NEW d \in Deposits, deposits'[d] = deposits[d]
      PROVE  Good(d)'
  <2>1. Good(d)
    BY <1>0 DEF Deposited, DepositKept
  <2>2. deposits[d].status \in {"REFUNDED", "FORFEITED"} => deposits[d].of \in Reservations
    BY <2>1
  <2>. QED
    BY <1>1, <1>2, <2>1, <2>2
<1>3. ASSUME deposits' \in [Deposits -> Row], \A d \in Deposits : Good(d)'
      PROVE  /\ Deposited' /\ DepositKept' /\ deposits' \in [Deposits -> Row]
  BY <1>3 DEF Deposited, DepositKept
<1>4. ASSUME NEW r \in Requests, SettleDeposits(r)
      PROVE  deposits' \in [Deposits -> Row] /\ \A d \in Deposits : Good(d)'
  <2>. PICK v \in Reservations : v = req[r].of
    BY <1>0, <1>4 DEF SettleDeposits, Carried, Carries
  <2>. PICK settled \in {"REFUNDED", "FORFEITED"} :
           settled = IF req[r].outcome = "REFUND" THEN "REFUNDED" ELSE "FORFEITED"
    OBVIOUS
  <2>1. req[r].to \in Ended /\ req[r].to \in reached[v]
    BY <1>0, <1>4 DEF SettleDeposits, Carried, Carries, Reports, Reporting
  <2>2. reached'[v] \cap {"CANCELLED", "NO_SHOW"} # {}
    BY <1>1, <2>1 DEF Ended
  <2>3. deposits' = [d \in Deposits |->
            IF deposits[d].of = v /\ deposits[d].status = "RECEIVED"
            THEN [deposits[d] EXCEPT !.status = settled] ELSE deposits[d]]
    BY <1>4 DEF SettleDeposits
  <2>4. ASSUME NEW d \in Deposits
        PROVE  deposits'[d] \in Row /\ Good(d)'
    <3>1. CASE deposits[d].of = v /\ deposits[d].status = "RECEIVED"
      <4>1. PICK row : row = [deposits[d] EXCEPT !.status = settled]
        OBVIOUS
      <4>2. row \in Row /\ row.of = v /\ row.status = settled
        BY <1>0, <3>1, <4>1 DEF DepositStatus
      <4>3. deposits'[d] = row
        BY <2>3, <3>1, <4>1
      <4>. QED
        BY <2>2, <4>2, <4>3
    <3>2. CASE ~ (deposits[d].of = v /\ deposits[d].status = "RECEIVED")
      BY <1>0, <1>2, <2>3, <3>2
    <3>. QED
      BY <3>1, <3>2
  <2>. QED
    BY <2>3, <2>4
<1>5. ASSUME NEW r \in Requests, NEW e \in Deposits, InsertDeposit(r, e)
      PROVE  deposits' \in [Deposits -> Row] /\ \A d \in Deposits : Good(d)'
  <2>. PICK v \in Reservations : v = req[r].of
    BY <1>0, <1>5 DEF InsertDeposit, Carried, Carries
  <2>. PICK row : row = [of |-> v, status |-> "RECEIVED"]
    OBVIOUS
  <2>1. row \in Row /\ row.of = v /\ row.status = "RECEIVED"
    BY DEF DepositStatus
  <2>2. deposits' = [deposits EXCEPT ![e] = row]
    BY <1>5 DEF InsertDeposit
  <2>3. Good(e)'
    BY <1>0, <2>1, <2>2
  <2>. QED
    BY <1>0, <1>2, <2>1, <2>2, <2>3
<1>6. ASSUME UNCHANGED deposits
      PROVE  deposits' \in [Deposits -> Row] /\ \A d \in Deposits : Good(d)'
  BY <1>0, <1>2, <1>6
<1>7. ASSUME NEW r \in Requests, Arrive(r)
      PROVE  UNCHANGED deposits
  BY <1>7, ArriveFinds DEF RInv
<1>. HIDE DEF Good, Row
<1>8. deposits' \in [Deposits -> Row] /\ \A d \in Deposits : Good(d)'
  BY <1>4, <1>5, <1>6, <1>7
     DEF Next, Proceed, CreateInsert, OpenOrder, Cas, Occupy, WriteEvent, AssignCheck,
         AssignWrite, Crash, FreeTable, vars
<1>. QED
  BY <1>3, <1>8 DEF Row

\* Orders, tables and crashes keep their types.
LEMMA OthersStep ==
  ASSUME RInv, [Next]_vars
  PROVE  opened' \subseteq Orders /\ occupied' \in SUBSET Tables /\ crashes' \in 0..MaxCrashes
<1>0. /\ TypeOK /\ Carried
      /\ opened \subseteq Orders /\ occupied \in SUBSET Tables /\ crashes \in 0..MaxCrashes
  BY DEF RInv, TypeOK
<1>1. ASSUME NEW r \in Requests, Arrive(r)
      PROVE  UNCHANGED <<opened, occupied, crashes>>
  BY <1>0, <1>1, ArriveFinds
<1>2. ASSUME NEW r \in Requests, Occupy(r)
      PROVE  UNCHANGED <<opened, crashes>> /\ occupied' \in SUBSET Tables
  BY <1>0, <1>2 DEF Occupy, Carried, Carries
<1>3. ASSUME NEW r \in Requests, Crash(r)
      PROVE  UNCHANGED <<opened, occupied>> /\ crashes' \in 0..MaxCrashes
  BY <1>0, <1>3, CrashesAssumption DEF Crash
<1>4. ASSUME NEW r \in Requests, NEW o \in Orders, OpenOrder(r, o)
      PROVE  UNCHANGED <<occupied, crashes>> /\ opened' \subseteq Orders
  BY <1>0, <1>4 DEF OpenOrder
<1>5. ASSUME NEW t \in Tables, FreeTable(t)
      PROVE  UNCHANGED <<opened, crashes>> /\ occupied' \in SUBSET Tables
  BY <1>0, <1>5 DEF FreeTable
<1>. QED
  BY <1>0, <1>1, <1>2, <1>3, <1>4, <1>5
     DEF Next, Proceed, CreateInsert, Cas, SettleDeposits, WriteEvent, InsertDeposit,
         AssignCheck, AssignWrite, vars

LEMMA RInvStep ==
  ASSUME RInv, [Next]_vars
  PROVE  RInv'
<1>1. TypeOK'
  BY PastStep, CarriedStep, ReportsStep, DepositsStep, OthersStep DEF TypeOK, Rows, Slots
<1>. QED
  BY <1>1, PastStep, CarriedStep, ReportsStep, DepositsStep DEF RInv

-----------------------------------------------------------------------------
(* The theorems                                                            *)

\* The inductive invariant holds in every behaviour.
THEOREM ReservationsInvariance == Spec => []RInv
<1>1. RInv /\ [Next]_vars => RInv'
  BY RInvStep
<1>. QED
  BY InitRInv, <1>1, PTL DEF Spec

\* Every variable keeps its type, whatever the numbers of reservations, tables,
\* deposits, orders and requests.
THEOREM ReservationsTypeCorrect == Spec => []TypeOK
<1>1. RInv => TypeOK
  BY DEF RInv
<1>. QED
  BY ReservationsInvariance, <1>1, PTL

\* A deposit is refunded or forfeited only for a reservation that was cancelled
\* or not shown up for, whichever request wins the race for its status.
THEOREM DepositsFollow == Spec => []DepositKept
<1>1. RInv => DepositKept
  BY DEF RInv
<1>. QED
  BY ReservationsInvariance, <1>1, PTL

\* Of two requests that seat a party at once only the one whose update hit links
\* its order, and the party has a table.
THEOREM SeatingLinks == Spec => SeatedLinked
<1>. DEFINE Linked == \A v \in Reservations :
                         res[v].status \in {"SEATED", "COMPLETED"} =>
                             /\ res[v].table # None
                             /\ res'[v].order = res[v].order
<1>1. ASSUME RInv, [Next]_vars
      PROVE  Linked
  <2>. SUFFICES ASSUME NEW v \in Reservations, res[v].status \in {"SEATED", "COMPLETED"}
                PROVE  res[v].table # None /\ res'[v].order = res[v].order
    OBVIOUS
  <2>0. res \in [Reservations -> Rows]
    BY <1>1 DEF RInv, TypeOK, Rows
  <2>1. res[v].table # None
    BY <1>1 DEF RInv, Tabled
  <2>2. ASSUME NEW u \in Reservations, Begins(u)
        PROVE  res'[v].order = res[v].order
    BY <2>0, <2>2 DEF Begins
  <2>3. ASSUME NEW u \in Reservations, NEW t, Takes(u, t)
        PROVE  res'[v].order = res[v].order
    <3>1. CASE u # v
      BY <2>0, <2>3, <3>1 DEF Takes
    <3>2. CASE u = v
      <4>1. t # "SEATED"
        BY <2>3, <3>2, Upwards DEF Takes
      <4>. QED
        BY <2>0, <2>3, <3>2, <4>1 DEF Takes
    <3>. QED
      BY <3>1, <3>2
  <2>4. CASE Same
    BY <2>1, <2>4 DEF Same
  <2>. QED
    BY <1>1, <2>1, <2>2, <2>3, <2>4, RowKinds DEF Enters
<1>2. RInv /\ [Next]_vars => [Linked]_vars
  BY <1>1
<1>. QED
  BY ReservationsInvariance, <1>2, PTL DEF Spec, SeatedLinked

StatusNow == [v \in Reservations |-> res[v].status]

\* Every step of the service is a step of the lifecycle, or changes nothing it
\* tells apart.
LEMMA LifecycleStep ==
  ASSUME RInv, [Next]_vars
  PROVE  Promise!LNext \/ UNCHANGED Promise!lvars
<1>0. /\ TypeOK /\ Carried /\ Past /\ Reports /\ req \in [Requests -> Slots]
      /\ res \in [Reservations -> Rows]
      /\ events \in [Reservations -> [Status -> Nat]] /\ reached \in [Reservations -> SUBSET Status]
  BY DEF RInv, TypeOK, Slots, Rows
<1>1. Promise!Statuses = Status
  BY DEF Promise!Statuses, Status
<1>2. ASSUME NEW v \in Reservations, NEW row \in Rows, res' = [res EXCEPT ![v] = row]
      PROVE  StatusNow' = [StatusNow EXCEPT ![v] = row.status]
  BY <1>0, <1>2 DEF StatusNow
<1>3. ASSUME NEW v \in Reservations, Begins(v), UNCHANGED events
      PROVE  Promise!LNext
  <2>1. PICK row \in Rows : row.status = "PENDING" /\ res' = [res EXCEPT ![v] = row]
    BY <1>3 DEF Begins
  <2>2. StatusNow' = [StatusNow EXCEPT ![v] = "PENDING"]
    BY <1>2, <2>1
  <2>3. reached[v] = {}
    BY <1>0, <1>3 DEF Begins, Past
  <2>4. reached' = [reached EXCEPT ![v] = @ \cup {"PENDING"}]
    BY <1>3, <2>3 DEF Begins
  <2>5. StatusNow[v] = "ABSENT"
    BY <1>3 DEF Begins, StatusNow
  <2>6. Promise!Begin(v)
    BY <1>3, <2>2, <2>4, <2>5 DEF Promise!Begin, Promise!Enter, StatusNow
  <2>. QED
    BY <2>6 DEF Promise!LNext
<1>4. ASSUME NEW v \in Reservations, NEW t \in Status, Takes(v, t), UNCHANGED events
      PROVE  Promise!LNext
  <2>1. PICK row \in Rows : row.status = t /\ res' = [res EXCEPT ![v] = row]
    BY <1>4 DEF Takes
  <2>2. StatusNow' = [StatusNow EXCEPT ![v] = t]
    BY <1>2, <2>1
  <2>3. StatusNow[v] = res[v].status
    BY DEF StatusNow
  <2>4. /\ StatusNow[v] # "ABSENT" /\ t \in VALID_TRANSITIONS[StatusNow[v]]
        /\ reached' = [reached EXCEPT ![v] = @ \cup {t}]
    BY <1>4, <2>3, Statuses DEF Takes
  <2>5. Promise!Move(v, t)
    BY <1>4, <2>2, <2>4 DEF Promise!Move, Promise!Enter, StatusNow
  <2>. QED
    BY <1>1, <2>5 DEF Promise!LNext
<1>5. ASSUME Same
      PROVE  UNCHANGED StatusNow /\ UNCHANGED reached
  BY <1>5 DEF Same, StatusNow
<1>6. ASSUME NEW r \in Requests, Leaves(r)
      PROVE  Promise!LNext
  <2>. PICK v \in Reservations : v = req[r].of
    BY <1>0, <1>6 DEF Leaves, Carried, Carries
  <2>. PICK t \in Status : t = req[r].to
    BY <1>0 DEF Slots
  <2>1. events[v][t] = 0 /\ t \in reached[v]
    BY <1>0, <1>6 DEF Leaves, Reports, Reporting
  <2>2. events' = [events EXCEPT ![v][t] = events[v][t] + 1]
    BY <1>6 DEF Leaves
  <2>3. events' = [events EXCEPT ![v][t] = 1]
    BY <2>1, <2>2
  <2>4. UNCHANGED StatusNow /\ UNCHANGED reached
    BY <1>5, <1>6 DEF Leaves
  <2>5. Promise!Log(v, t)
    BY <2>1, <2>3, <2>4 DEF Promise!Log, StatusNow
  <2>. QED
    BY <1>1, <2>5 DEF Promise!LNext
<1>7. ASSUME Same, UNCHANGED events
      PROVE  UNCHANGED Promise!lvars
  BY <1>5, <1>7 DEF Promise!lvars, StatusNow
<1>8. ASSUME NEW r \in Requests, Proceed(r)
      PROVE  Promise!LNext \/ UNCHANGED Promise!lvars
  <2>1. /\ Carries(req'[r])
        /\ Enters(r) \/ Stays(r) \/ Leaves(r) \/ Plain(r)
    BY <1>0, <1>8, ProceedKinds DEF RInv
  <2>2. CASE Enters(r)
    <3>1. req[r].of \in Reservations /\ req[r].to \in Status /\ UNCHANGED events
      BY <1>0, <2>1, <2>2 DEF Enters, Carries, Reporting, Slots
    <3>. QED
      BY <1>3, <1>4, <2>2, <3>1 DEF Enters
  <2>. QED
    BY <1>6, <1>7, <2>1, <2>2 DEF Stays, Plain
<1>9. ASSUME UNCHANGED <<res, reached, events>>
      PROVE  UNCHANGED Promise!lvars
  BY <1>0, <1>7, <1>9, SameRows
<1>10. ASSUME NEW r \in Requests, Arrive(r)
       PROVE  UNCHANGED <<res, reached, events>>
  BY <1>0, <1>10, ArriveFinds
<1>. QED
  BY <1>8, <1>9, <1>10 DEF Next, Crash, FreeTable, vars

\* The service keeps the promise of applyGuardedTransition: statuses move along
\* VALID_TRANSITIONS, and each is reported once at most, after it was taken.
THEOREM LifecycleFollowed == Spec => FollowsLifecycle
<1>1. Init => Promise!LInit
  BY DEF Init, Promise!LInit, Promise!Statuses, Status
<1>. QED
  BY <1>1, ReservationsInvariance, LifecycleStep, PTL DEF Spec, FollowsLifecycle, Promise!LSpec

-----------------------------------------------------------------------------
(* The invariant of guests' feedback                                       *)

\* What the theorems about it assume of the constants.
FeedSizes ==
    /\ MaxInvitations \in Nat /\ MaxFeedbacks \in Nat
    /\ MaxArrivals \in Nat /\ MaxCrashes \in Nat

OfInvitation == {"open", "submit", "cancel"}
OfFeedback == {"tag", "ACKNOWLEDGED", "RESOLVED"}

FeedRows == [of : DOMAIN invitations, status : {"NEW", "ACKNOWLEDGED", "RESOLVED"},
             tags : SUBSET Tags]

FeedSlots == [pc : F!PC, about : {"none", "invitation", "feedback"} \X Nat,
              tag : Tags \cup {None}]

\* The types, those of what requests carry among them.
FeedTyped == F!TypeOK /\ feedReq \in [Hosts -> FeedSlots]

\* A write finds its row.
FeedKnows(r) ==
    LET q == feedReq[r] IN
    /\ q.pc = "idle" => q.about = <<"none", 0>>
    /\ q.pc \in OfInvitation => q.about[1] = "invitation" /\ q.about[2] \in DOMAIN invitations
    /\ q.pc \in OfFeedback => q.about[1] = "feedback" /\ q.about[2] \in DOMAIN feedbacks
    /\ q.pc = "tag" => q.tag \in Tags

\* Of a row that nobody crossed, what was read is still so.
FeedStillSo(r) ==
    LET q == feedReq[r] IN
    q.about \notin crossed =>
        /\ q.pc \in OfInvitation => invitations[q.about[2]] # "SUBMITTED"
        /\ q.pc = "ACKNOWLEDGED" => q.about[2] \notin handled

\* Two at work on a row have crossed.
FeedApart ==
    \A r, q \in Hosts :
        r # q /\ feedReq[r].pc # "idle" /\ feedReq[r].about = feedReq[q].about
            => feedReq[r].about \in crossed

\* The feedback of an invitation, counted.
FeedUsed ==
    \A i \in DOMAIN invitations :
        /\ invitations[i] = "SUBMITTED" => \E f \in DOMAIN feedbacks : feedbacks[f].of = i
        /\ <<"invitation", i>> \notin crossed =>
               /\ invitations[i] # "SUBMITTED" => \A f \in DOMAIN feedbacks : feedbacks[f].of # i
               /\ \A f, g \in DOMAIN feedbacks : feedbacks[f].of = i /\ feedbacks[g].of = i => f = g

FeedInv ==
    /\ FeedTyped /\ FeedApart
    /\ \A r \in Hosts : FeedKnows(r) /\ FeedStillSo(r)
    /\ FeedUsed /\ F!ResolvedStays


LEMMA FeedIdle ==
  /\ F!Idle \in FeedSlots /\ F!Idle.pc = "idle" /\ F!Idle.about = <<"none", 0>>
  /\ "idle" \notin OfInvitation \cup OfFeedback
  /\ OfInvitation \cup OfFeedback \subseteq F!PC
<1>1. F!PC = {"idle"} \cup OfInvitation \cup OfFeedback
  BY DEF F!PC, OfInvitation, OfFeedback
<1>2. <<"none", 0>> \in {"none", "invitation", "feedback"} \X Nat
  OBVIOUS
<1>3. "idle" \notin OfInvitation \cup OfFeedback
  BY DEF OfInvitation, OfFeedback
<1>. QED
  BY <1>1, <1>2, <1>3 DEF F!Idle, FeedSlots

\* The row that a request is about.
LEMMA FeedAbout ==
  ASSUME FeedInv, NEW r \in Hosts
  PROVE  LET q == feedReq[r] IN
         /\ q \in FeedSlots /\ q.about = <<q.about[1], q.about[2]>> /\ q.about[2] \in Nat
         /\ \A kind, k : q.about = <<kind, k>> <=> q.about[1] = kind /\ q.about[2] = k
         /\ q.pc \in {"idle"} \cup OfInvitation \cup OfFeedback
<1>1. feedReq[r] \in FeedSlots
  BY DEF FeedInv, FeedTyped
<1>2. feedReq[r].about \in {"none", "invitation", "feedback"} \X Nat /\ feedReq[r].pc \in F!PC
  BY <1>1 DEF FeedSlots
<1>3. ASSUME NEW a \in {"none", "invitation", "feedback"} \X Nat
      PROVE  /\ a = <<a[1], a[2]>> /\ a[2] \in Nat
             /\ \A kind, k : a = <<kind, k>> <=> a[1] = kind /\ a[2] = k
  BY <1>3
<1>. QED
  BY <1>1, <1>2, <1>3 DEF F!PC, OfInvitation, OfFeedback

LEMMA FeedInit == ASSUME FeedSizes, F!Init PROVE FeedInv
<1>1. feedReq \in [Hosts -> FeedSlots] /\ \A r \in Hosts : feedReq[r] = F!Idle
  BY FeedIdle DEF F!Init
<1>2. F!TypeOK
  <2>1. \A r \in Hosts : feedReq[r].pc \in F!PC /\ feedReq[r].tag \in Tags \cup {None}
    BY <1>1 DEF FeedSlots
  <2>2. ASSUME NEW S PROVE <<>> \in Seq(S) /\ Len(<<>>) = 0
    OBVIOUS
  <2>3. arrived \in 0..MaxArrivals /\ feedCrashes \in 0..MaxCrashes
    BY DEF F!Init, FeedSizes
  <2>. QED
    BY <2>1, <2>2, <2>3 DEF F!Init, F!TypeOK, FeedSizes
<1>3. FeedApart /\ \A r \in Hosts : FeedKnows(r) /\ FeedStillSo(r)
  BY <1>1, FeedIdle DEF FeedApart, FeedKnows, FeedStillSo
<1>4. FeedUsed /\ F!ResolvedStays
  BY DEF F!Init, FeedUsed, F!ResolvedStays
<1>. QED
  BY <1>1, <1>2, <1>3, <1>4 DEF FeedInv, FeedTyped

-----------------------------------------------------------------------------
(* The steps of feedback                                                   *)

\* A step that starts no request, and takes from none what it knows.
LEMMA FeedAnswers ==
  ASSUME FeedInv, F!TypeOK', feedReq' \in [Hosts -> FeedSlots], crossed' = crossed,
         DOMAIN invitations \subseteq DOMAIN invitations',
         DOMAIN feedbacks \subseteq DOMAIN feedbacks',
         \A q \in Hosts :
             \/ feedReq'[q] = F!Idle
             \/ /\ feedReq'[q] = feedReq[q]
                /\ feedReq[q].about \notin crossed =>
                       /\ feedReq[q].pc \in OfInvitation =>
                              invitations'[feedReq[q].about[2]] = invitations[feedReq[q].about[2]]
                       /\ feedReq[q].pc = "ACKNOWLEDGED" =>
                              (feedReq[q].about[2] \in handled' => feedReq[q].about[2] \in handled),
         FeedUsed', F!ResolvedStays'
  PROVE  FeedInv'
<1>1. \A r \in Hosts : FeedKnows(r) /\ FeedStillSo(r)
  BY DEF FeedInv
<1>2. ASSUME NEW q \in Hosts PROVE FeedKnows(q)' /\ FeedStillSo(q)'
  <2>1. CASE feedReq'[q] = F!Idle
    BY <2>1, FeedIdle DEF FeedKnows, FeedStillSo, OfInvitation, OfFeedback
  <2>2. CASE feedReq'[q] = feedReq[q]
    <3>1. FeedKnows(q)'
      BY <1>1, <2>2 DEF FeedKnows
    <3>2. CASE feedReq'[q] # F!Idle
      BY <1>1, <2>2, <3>1, <3>2 DEF FeedStillSo
    <3>. QED
      BY <2>1, <3>1, <3>2
  <2>. QED
    BY <2>1, <2>2
<1>3. FeedApart'
  <2>1. SUFFICES ASSUME NEW r \in Hosts, NEW q \in Hosts, r # q, feedReq'[r].pc # "idle",
                        feedReq'[r].about = feedReq'[q].about
                 PROVE  feedReq'[r].about \in crossed
    BY DEF FeedApart
  <2>2. feedReq'[r] = feedReq[r]
    BY <2>1, FeedIdle
  <2>3. CASE feedReq'[q] = feedReq[q]
    BY <2>1, <2>2, <2>3 DEF FeedInv, FeedApart
  <2>4. CASE feedReq'[q] = F!Idle
    <3>1. feedReq[r].about[1] \in {"invitation", "feedback"}
      BY <1>1, <2>1, <2>2, FeedAbout DEF FeedKnows
    <3>2. feedReq[r].about = <<"none", 0>>
      BY <2>1, <2>2, <2>4, FeedIdle
    <3>. QED
      BY <3>1, <3>2
  <2>. QED
    BY <2>3, <2>4
<1>. QED
  BY <1>2, <1>3 DEF FeedInv, FeedTyped

\* The read of an operation, which found its row as it has to be.
LEMMA FeedStarts ==
  ASSUME FeedSizes, FeedInv, NEW r \in Hosts, NEW pc \in OfInvitation \cup OfFeedback,
         NEW kind, NEW k, NEW tag \in Tags \cup {None},
         F!Start(r, pc, <<kind, k>>, tag), limited' \subseteq DOMAIN invitations,
         pc \in OfInvitation =>
             kind = "invitation" /\ k \in DOMAIN invitations /\ invitations[k] # "SUBMITTED",
         pc \in OfFeedback => kind = "feedback" /\ k \in DOMAIN feedbacks,
         pc = "tag" => tag \in Tags,
         pc = "ACKNOWLEDGED" => feedbacks[k].status # "RESOLVED"
  PROVE  FeedInv'
<1>. DEFINE d == [pc |-> pc, about |-> <<kind, k>>, tag |-> tag]
<1>1. /\ k \in Nat /\ kind \in {"invitation", "feedback"}
      /\ OfInvitation \cap OfFeedback = {} /\ pc \in F!PC /\ pc # "idle"
  <2>1. DOMAIN invitations \subseteq Nat /\ DOMAIN feedbacks \subseteq Nat
    BY DEF FeedInv, FeedTyped, F!TypeOK
  <2>. QED
    BY <2>1, FeedIdle DEF OfInvitation, OfFeedback
<1>2. d \in FeedSlots /\ d.pc = pc /\ d.about = <<kind, k>> /\ d.about[1] = kind /\ d.about[2] = k
      /\ d.tag = tag
  BY <1>1 DEF FeedSlots
<1>3. /\ feedReq' = [feedReq EXCEPT ![r] = d] /\ feedReq \in [Hosts -> FeedSlots]
      /\ UNCHANGED <<invitations, feedbacks, lapsed, handled, feedCrashes>>
      /\ arrived < MaxArrivals /\ arrived' = arrived + 1
  BY DEF F!Start, F!rows, FeedInv, FeedTyped
<1>. HIDE DEF d
<1>4. feedReq' \in [Hosts -> FeedSlots] /\ feedReq'[r] = d /\ \A q \in Hosts \ {r} : feedReq'[q] = feedReq[q]
  BY <1>2, <1>3
<1>5. /\ crossed \subseteq crossed' /\ crossed' \subseteq crossed \cup {<<kind, k>>}
      /\ (\E q \in Hosts \ {r} : feedReq[q].about = <<kind, k>>) => <<kind, k>> \in crossed'
  BY DEF F!Start
<1>6. F!TypeOK'
  <2>1. \A q \in Hosts : feedReq'[q].pc \in F!PC /\ feedReq'[q].tag \in Tags \cup {None}
    BY <1>4 DEF FeedSlots
  <2>2. \A a \in crossed' : a[1] \in {"invitation", "feedback"} /\ a[2] \in Nat
    BY <1>1, <1>5 DEF FeedInv, FeedTyped, F!TypeOK
  <2>3. arrived' \in 0..MaxArrivals
    BY <1>3 DEF FeedInv, FeedTyped, F!TypeOK, FeedSizes
  <2>. QED
    BY <1>3, <2>1, <2>2, <2>3 DEF FeedInv, FeedTyped, F!TypeOK
<1>7. FeedKnows(r)'
  BY <1>1, <1>2, <1>3, <1>4 DEF FeedKnows
<1>8. FeedStillSo(r)'
  <2>1. CASE pc \in OfInvitation
    BY <1>2, <1>3, <1>4, <2>1 DEF FeedStillSo, OfInvitation
  <2>2. CASE pc = "ACKNOWLEDGED"
    <3>1. SUFFICES ASSUME <<kind, k>> \notin crossed', k \in handled PROVE FALSE
      BY <1>2, <1>3, <1>4, <2>2 DEF FeedStillSo, OfInvitation
    <3>2. <<"feedback", k>> \notin crossed
      BY <1>5, <2>2, <3>1 DEF OfFeedback
    <3>. QED
      BY <2>2, <3>1, <3>2 DEF FeedInv, F!ResolvedStays
  <2>. QED
    BY <1>2, <1>4, <2>1, <2>2 DEF FeedStillSo
<1>9. ASSUME NEW q \in Hosts \ {r} PROVE FeedKnows(q)' /\ FeedStillSo(q)'
  <2>1. feedReq'[q] = feedReq[q]
    BY <1>4
  <2>2. FeedKnows(q) /\ FeedStillSo(q)
    BY DEF FeedInv
  <2>. QED
    BY <1>3, <1>5, <2>1, <2>2 DEF FeedKnows, FeedStillSo
<1>10. FeedApart'
  <2>1. ASSUME NEW q \in Hosts \ {r}, feedReq'[r].about = feedReq'[q].about
        PROVE  feedReq'[r].about \in crossed' /\ feedReq'[q].about \in crossed'
    BY <1>2, <1>4, <1>5, <2>1
  <2>2. ASSUME NEW u \in Hosts \ {r}, NEW q \in Hosts \ {r}, u # q, feedReq'[u].pc # "idle",
               feedReq'[u].about = feedReq'[q].about
        PROVE  feedReq'[u].about \in crossed'
    BY <1>4, <1>5, <2>2 DEF FeedInv, FeedApart
  <2>. QED
    BY <2>1, <2>2 DEF FeedApart
<1>11. FeedUsed' /\ F!ResolvedStays'
  BY <1>3, <1>5 DEF FeedInv, FeedUsed, F!ResolvedStays
<1>. QED
  BY <1>4, <1>6, <1>7, <1>8, <1>9, <1>10, <1>11 DEF FeedInv, FeedTyped

LEMMA FeedbackRows ==
  ASSUME FeedInv
  PROVE  /\ feedbacks \in Seq(FeedRows) /\ Len(feedbacks) \in Nat
         /\ DOMAIN feedbacks = 1..Len(feedbacks)
         /\ \A f \in DOMAIN feedbacks : feedbacks[f] \in FeedRows
<1>1. feedbacks \in Seq(FeedRows)
  BY DEF FeedInv, FeedTyped, F!TypeOK, FeedRows
<1>2. ASSUME NEW S, NEW s \in Seq(S)
      PROVE  DOMAIN s = 1..Len(s) /\ Len(s) \in Nat /\ \A f \in DOMAIN s : s[f] \in S
  BY <1>2
<1>. HIDE DEF FeedRows
<1>. QED
  BY <1>1, <1>2

\* An invitation more, or one that lapses or may be used again.
LEMMA InvitationSteps ==
  ASSUME FeedSizes, FeedInv,
         \/ F!CreateFeedbackRequest
         \/ \E i \in DOMAIN invitations : F!Lapse(i) \/ F!Forget(i)
  PROVE  FeedInv'
<1>1. feedReq' = feedReq /\ crossed' = crossed /\ feedbacks' = feedbacks /\ handled' = handled
      /\ UNCHANGED <<arrived, feedCrashes>> /\ feedReq \in [Hosts -> FeedSlots]
  BY DEF F!CreateFeedbackRequest, F!Lapse, F!Forget, F!rows, FeedInv, FeedTyped
<1>2. /\ invitations \in Seq(F!InvitationStatus) /\ DOMAIN invitations = 1..Len(invitations)
      /\ Len(invitations) \in Nat
  BY DEF FeedInv, FeedTyped, F!TypeOK
<1>3. \A q \in Hosts : feedReq[q].pc \in OfInvitation => feedReq[q].about[2] \in DOMAIN invitations
  BY DEF FeedInv, FeedKnows
<1>4. CASE F!CreateFeedbackRequest
  <2>1. /\ invitations' \in Seq(F!InvitationStatus) /\ Len(invitations') <= MaxInvitations
        /\ DOMAIN invitations' = DOMAIN invitations \cup {Len(invitations) + 1}
        /\ \A i \in DOMAIN invitations : invitations'[i] = invitations[i]
        /\ invitations'[Len(invitations) + 1] = "PENDING"
    BY <1>2, <1>4 DEF F!CreateFeedbackRequest, F!InvitationStatus, FeedSizes
  <2>2. limited' = limited /\ lapsed' = lapsed
    BY <1>4 DEF F!CreateFeedbackRequest
  <2>3. feedbacks' \in Seq([of : DOMAIN invitations', status : {"NEW", "ACKNOWLEDGED", "RESOLVED"},
                            tags : SUBSET Tags])
    <3>1. [of : DOMAIN invitations, status : {"NEW", "ACKNOWLEDGED", "RESOLVED"}, tags : SUBSET Tags]
              \subseteq [of : DOMAIN invitations', status : {"NEW", "ACKNOWLEDGED", "RESOLVED"},
                         tags : SUBSET Tags]
      BY <2>1
    <3>2. feedbacks \in Seq([of : DOMAIN invitations, status : {"NEW", "ACKNOWLEDGED", "RESOLVED"},
                             tags : SUBSET Tags])
      BY DEF FeedInv, FeedTyped, F!TypeOK
    <3>3. ASSUME NEW S, NEW U, S \subseteq U, NEW s \in Seq(S) PROVE s \in Seq(U)
      BY <3>3
    <3>. HIDE DEF F!TypeOK
    <3>. QED
      BY <1>1, <3>1, <3>2, <3>3, ZenonT(60)
  <2>4. F!TypeOK'
    BY <1>1, <2>1, <2>2, <2>3 DEF FeedInv, FeedTyped, F!TypeOK
  <2>5. Len(invitations) + 1 \notin DOMAIN invitations
        /\ \A f \in DOMAIN feedbacks : feedbacks[f].of \in DOMAIN invitations
    BY <1>2, FeedbackRows DEF FeedRows
  <2>6. FeedUsed'
    <3>1. FeedUsed
      BY DEF FeedInv
    <3>2. ASSUME NEW i \in DOMAIN invitations'
          PROVE  /\ invitations'[i] = "SUBMITTED" => \E f \in DOMAIN feedbacks : feedbacks[f].of = i
                 /\ <<"invitation", i>> \notin crossed =>
                      /\ invitations'[i] # "SUBMITTED" => \A f \in DOMAIN feedbacks : feedbacks[f].of # i
                      /\ \A f, g \in DOMAIN feedbacks : feedbacks[f].of = i /\ feedbacks[g].of = i => f = g
      <4>1. CASE i \in DOMAIN invitations
        BY <2>1, <3>1, <4>1 DEF FeedUsed
      <4>2. CASE i = Len(invitations) + 1
        BY <2>1, <2>5, <4>2
      <4>. QED
        BY <2>1, <4>1, <4>2
    <3>. QED
      BY <1>1, <3>2 DEF FeedUsed
  <2>7. F!ResolvedStays'
    BY <1>1 DEF FeedInv, F!ResolvedStays
  <2>. QED
    BY <1>1, <1>3, <2>1, <2>4, <2>6, <2>7, FeedAnswers
<1>5. CASE \E i \in DOMAIN invitations : F!Lapse(i) \/ F!Forget(i)
  <2>1. invitations' = invitations /\ limited' \subseteq DOMAIN invitations /\ lapsed' \subseteq DOMAIN invitations
    BY <1>5 DEF F!Lapse, F!Forget, F!rows, FeedInv, FeedTyped, F!TypeOK
  <2>2. F!TypeOK'
    BY <1>1, <2>1 DEF FeedInv, FeedTyped, F!TypeOK
  <2>3. FeedUsed' /\ F!ResolvedStays'
    BY <1>1, <2>1 DEF FeedInv, FeedUsed, F!ResolvedStays
  <2>. QED
    BY <1>1, <2>1, <2>2, <2>3, FeedAnswers
<1>. QED
  BY <1>4, <1>5

LEMMA ArriveSteps == ASSUME FeedSizes, FeedInv, NEW r \in Hosts, F!Arrive(r) PROVE FeedInv'
<1>1. limited \subseteq DOMAIN invitations
  BY DEF FeedInv, FeedTyped, F!TypeOK
<1>2. ASSUME NEW i \in DOMAIN invitations, F!LookupToken(r, i) PROVE FeedInv'
  <2>1. "open" \in OfInvitation /\ "open" \notin OfFeedback
    BY DEF OfInvitation, OfFeedback
  <2>. QED
    BY <1>1, <1>2, <2>1, FeedStarts DEF F!LookupToken
<1>3. ASSUME NEW i \in DOMAIN invitations, F!ReadToken(r, i) PROVE FeedInv'
  <2>1. "submit" \in OfInvitation /\ "submit" \notin OfFeedback
    BY DEF OfInvitation, OfFeedback
  <2>. QED
    BY <1>1, <1>3, <2>1, FeedStarts DEF F!ReadToken
<1>4. ASSUME NEW i \in DOMAIN invitations, F!CancelRead(r, i) PROVE FeedInv'
  <2>1. "cancel" \in OfInvitation /\ "cancel" \notin OfFeedback
    BY DEF OfInvitation, OfFeedback
  <2>. QED
    BY <1>1, <1>4, <2>1, FeedStarts DEF F!CancelRead
<1>5. ASSUME NEW f \in DOMAIN feedbacks, F!AcknowledgeRead(r, f) PROVE FeedInv'
  <2>1. "ACKNOWLEDGED" \in OfFeedback /\ "ACKNOWLEDGED" \notin OfInvitation
    BY DEF OfInvitation, OfFeedback
  <2>. QED
    BY <1>1, <1>5, <2>1, FeedStarts DEF F!AcknowledgeRead
<1>6. ASSUME NEW f \in DOMAIN feedbacks, F!ResolveRead(r, f) PROVE FeedInv'
  <2>1. "RESOLVED" \in OfFeedback /\ "RESOLVED" \notin OfInvitation
    BY DEF OfInvitation, OfFeedback
  <2>. QED
    BY <1>1, <1>6, <2>1, FeedStarts DEF F!ResolveRead
<1>7. ASSUME NEW f \in DOMAIN feedbacks, NEW t \in Tags, F!TagRead(r, f, t) PROVE FeedInv'
  <2>1. "tag" \in OfFeedback /\ "tag" \notin OfInvitation
    BY DEF OfInvitation, OfFeedback
  <2>. QED
    BY <1>1, <1>7, <2>1, FeedStarts DEF F!TagRead
<1>. QED
  BY <1>2, <1>3, <1>4, <1>5, <1>6, <1>7 DEF F!Arrive

\* What the answer of a request leaves alone.
LEMMA FeedAnswered ==
  ASSUME FeedInv, NEW r \in Hosts, NEW pc \in OfInvitation \cup OfFeedback, F!Write(r, pc)
  PROVE  /\ feedReq[r].pc = pc /\ feedReq'[r] = F!Idle /\ \A q \in Hosts \ {r} : feedReq'[q] = feedReq[q]
         /\ feedReq' \in [Hosts -> FeedSlots]
         /\ UNCHANGED <<lapsed, limited, crossed, arrived, feedCrashes>>
         /\ \A q \in Hosts \ {r} :
                feedReq[q].about \notin crossed => feedReq[q].about # feedReq[r].about
         /\ pc \in OfInvitation => /\ feedReq[r].about[2] \in DOMAIN invitations
                                   /\ feedReq[r].about = <<"invitation", feedReq[r].about[2]>>
         /\ pc \in OfFeedback => /\ feedReq[r].about[2] \in DOMAIN feedbacks
                                 /\ feedReq[r].about = <<"feedback", feedReq[r].about[2]>>
<1>1. feedReq[r].pc = pc /\ feedReq' = [feedReq EXCEPT ![r] = F!Idle]
      /\ UNCHANGED <<lapsed, limited, crossed, arrived, feedCrashes>>
  BY DEF F!Write
<1>2. feedReq \in [Hosts -> FeedSlots] /\ F!Idle \in FeedSlots /\ pc # "idle"
  BY FeedIdle DEF FeedInv, FeedTyped
<1>3. feedReq' \in [Hosts -> FeedSlots] /\ feedReq'[r] = F!Idle
      /\ \A q \in Hosts \ {r} : feedReq'[q] = feedReq[q]
  BY <1>1, <1>2
<1>4. \A q \in Hosts \ {r} : feedReq[q].about \notin crossed => feedReq[q].about # feedReq[r].about
  BY <1>1, <1>2 DEF FeedInv, FeedApart
<1>5. FeedKnows(r) /\ feedReq[r].about = <<feedReq[r].about[1], feedReq[r].about[2]>>
  BY FeedAbout DEF FeedInv
<1>. QED
  BY <1>1, <1>3, <1>4, <1>5 DEF FeedKnows

\* The others' rows when r's alone is written.
LEMMA FeedOthers ==
  ASSUME FeedInv, NEW r \in Hosts, NEW q \in Hosts \ {r}, feedReq[q].about # feedReq[r].about
  PROVE  /\ feedReq[q].pc \in OfInvitation /\ feedReq[r].pc \in OfInvitation
                => feedReq[q].about[2] # feedReq[r].about[2]
         /\ feedReq[q].pc \in OfFeedback /\ feedReq[r].pc \in OfFeedback
                => feedReq[q].about[2] # feedReq[r].about[2]
<1>1. FeedKnows(q) /\ FeedKnows(r)
      /\ feedReq[r].about = <<feedReq[r].about[1], feedReq[r].about[2]>>
      /\ feedReq[q].about = <<feedReq[q].about[1], feedReq[q].about[2]>>
  BY FeedAbout DEF FeedInv
<1>. QED
  BY <1>1 DEF FeedKnows

\* Opening and cancelling write what the read saw to be unused.
LEMMA MarkSteps ==
  ASSUME FeedInv, NEW r \in Hosts, F!Open(r) \/ F!Cancel(r)
  PROVE  FeedInv'
<1>. DEFINE k == feedReq[r].about[2]
<1>1. PICK pc \in OfInvitation, status \in F!InvitationStatus \ {"SUBMITTED"} :
          /\ F!Write(r, pc) /\ UNCHANGED <<feedbacks, handled>>
          /\ invitations' = [invitations EXCEPT ![k] = status]
  BY DEF F!Open, F!Cancel, F!Row, OfInvitation, F!InvitationStatus
<1>2. /\ feedReq[r].pc = pc /\ feedReq'[r] = F!Idle /\ \A q \in Hosts \ {r} : feedReq'[q] = feedReq[q]
      /\ feedReq' \in [Hosts -> FeedSlots] /\ UNCHANGED <<lapsed, limited, crossed, arrived, feedCrashes>>
      /\ \A q \in Hosts \ {r} : feedReq[q].about \notin crossed => feedReq[q].about # feedReq[r].about
      /\ k \in DOMAIN invitations /\ feedReq[r].about = <<"invitation", k>>
  BY <1>1, FeedAnswered
<1>3. invitations \in Seq(F!InvitationStatus) /\ Len(invitations) <= MaxInvitations
  BY DEF FeedInv, FeedTyped, F!TypeOK
<1>. HIDE DEF k
<1>4. /\ invitations' \in Seq(F!InvitationStatus) /\ Len(invitations') = Len(invitations)
      /\ DOMAIN invitations' = DOMAIN invitations /\ invitations'[k] = status
      /\ \A i \in DOMAIN invitations \ {k} : invitations'[i] = invitations[i]
  BY <1>1, <1>2, <1>3
<1>5. F!TypeOK'
  <2>1. \A q \in Hosts : feedReq'[q].pc \in F!PC /\ feedReq'[q].tag \in Tags \cup {None}
    BY <1>2 DEF FeedSlots
  <2>. QED
    BY <1>1, <1>2, <1>3, <1>4, <2>1 DEF FeedInv, FeedTyped, F!TypeOK
<1>6. FeedUsed'
  <2>1. <<"invitation", k>> \notin crossed => invitations[k] # "SUBMITTED"
    BY <1>1, <1>2 DEF FeedInv, FeedStillSo, k
  <2>2. FeedUsed /\ status # "SUBMITTED"
    BY <1>1 DEF FeedInv
  <2>3. ASSUME NEW i \in DOMAIN invitations
        PROVE  /\ invitations'[i] = "SUBMITTED" => \E f \in DOMAIN feedbacks : feedbacks[f].of = i
               /\ <<"invitation", i>> \notin crossed =>
                      /\ invitations'[i] # "SUBMITTED" => \A f \in DOMAIN feedbacks : feedbacks[f].of # i
                      /\ \A f, g \in DOMAIN feedbacks : feedbacks[f].of = i /\ feedbacks[g].of = i => f = g
    <3>1. CASE i = k
      BY <1>4, <2>1, <2>2, <3>1 DEF FeedUsed
    <3>2. CASE i # k
      BY <1>4, <2>2, <3>2 DEF FeedUsed
    <3>. QED
      BY <3>1, <3>2
  <2>. QED
    <3>1. feedbacks' = feedbacks /\ crossed' = crossed /\ DOMAIN invitations' = DOMAIN invitations
      BY <1>1, <1>2, <1>4
    <3>. QED
      BY <2>3, <3>1 DEF FeedUsed
<1>7. F!ResolvedStays'
  BY <1>1, <1>2 DEF FeedInv, F!ResolvedStays
<1>8. ASSUME NEW q \in Hosts \ {r}, feedReq[q].about \notin crossed, feedReq[q].pc \in OfInvitation
      PROVE  invitations'[feedReq[q].about[2]] = invitations[feedReq[q].about[2]]
  <2>1. feedReq[q].about[2] # k /\ feedReq[q].about[2] \in DOMAIN invitations
    BY <1>1, <1>2, <1>8, FeedOthers DEF FeedInv, FeedKnows, k
  <2>. QED
    BY <1>4, <2>1
<1>. QED
  BY <1>1, <1>2, <1>4, <1>5, <1>6, <1>7, <1>8, FeedAnswers

\* A submission inserts the feedback and marks the invitation at once.
LEMMA SubmitStep ==
  ASSUME FeedSizes, FeedInv, NEW r \in Hosts, F!Submit(r)
  PROVE  FeedInv'
<1>. DEFINE k == feedReq[r].about[2]
            row == [of |-> k, status |-> "NEW", tags |-> {}]
<1>1. /\ F!Write(r, "submit") /\ handled' = handled /\ Len(feedbacks) < MaxFeedbacks
      /\ feedbacks' = Append(feedbacks, row)
      /\ invitations' = [invitations EXCEPT ![k] = "SUBMITTED"]
      /\ "submit" \in OfInvitation
  BY DEF F!Submit, F!Row, OfInvitation
<1>2. /\ feedReq[r].pc = "submit" /\ feedReq'[r] = F!Idle /\ \A q \in Hosts \ {r} : feedReq'[q] = feedReq[q]
      /\ feedReq' \in [Hosts -> FeedSlots] /\ UNCHANGED <<lapsed, limited, crossed, arrived, feedCrashes>>
      /\ \A q \in Hosts \ {r} : feedReq[q].about \notin crossed => feedReq[q].about # feedReq[r].about
      /\ k \in DOMAIN invitations /\ feedReq[r].about = <<"invitation", k>>
  BY <1>1, FeedAnswered
<1>3. /\ invitations \in Seq(F!InvitationStatus) /\ Len(invitations) <= MaxInvitations
      /\ Len(feedbacks) + 1 <= MaxFeedbacks
  BY <1>1, FeedbackRows DEF FeedInv, FeedTyped, F!TypeOK, FeedSizes
<1>4. row \in FeedRows /\ row.of = k
  BY <1>2 DEF FeedRows
<1>. HIDE DEF k, row
<1>5. /\ invitations' \in Seq(F!InvitationStatus) /\ Len(invitations') = Len(invitations)
      /\ DOMAIN invitations' = DOMAIN invitations /\ invitations'[k] = "SUBMITTED"
      /\ \A i \in DOMAIN invitations \ {k} : invitations'[i] = invitations[i]
  BY <1>1, <1>2, <1>3 DEF F!InvitationStatus
<1>6. /\ feedbacks' \in Seq(FeedRows) /\ Len(feedbacks') = Len(feedbacks) + 1
      /\ DOMAIN feedbacks' = DOMAIN feedbacks \cup {Len(feedbacks) + 1}
      /\ feedbacks'[Len(feedbacks) + 1] = row
      /\ \A f \in DOMAIN feedbacks : feedbacks'[f] = feedbacks[f]
  <2>1. ASSUME NEW S, NEW x \in S, NEW s \in Seq(S)
        PROVE  LET t == Append(s, x) IN
               /\ t \in Seq(S) /\ Len(t) = Len(s) + 1 /\ t[Len(s) + 1] = x
               /\ DOMAIN t = DOMAIN s \cup {Len(s) + 1}
               /\ \A f \in DOMAIN s : t[f] = s[f]
    BY <2>1
  <2>. HIDE DEF FeedRows
  <2>. QED
    BY <1>1, <1>4, <2>1, FeedbackRows
<1>7. F!TypeOK'
  <2>1. \A q \in Hosts : feedReq'[q].pc \in F!PC /\ feedReq'[q].tag \in Tags \cup {None}
    BY <1>2 DEF FeedSlots
  <2>2. feedbacks' \in Seq([of : DOMAIN invitations', status : {"NEW", "ACKNOWLEDGED", "RESOLVED"},
                            tags : SUBSET Tags])
    BY <1>5, <1>6 DEF FeedRows
  <2>3. Len(feedbacks') <= MaxFeedbacks
    BY <1>3, <1>6
  <2>. QED
    BY <1>1, <1>2, <1>3, <1>5, <1>6, <2>1, <2>2, <2>3 DEF FeedInv, FeedTyped, F!TypeOK
<1>8. FeedUsed'
  <2>1. <<"invitation", k>> \notin crossed => \A f \in DOMAIN feedbacks : feedbacks[f].of # k
    <3>1. <<"invitation", k>> \notin crossed => invitations[k] # "SUBMITTED"
      BY <1>1, <1>2 DEF FeedInv, FeedStillSo, k
    <3>. QED
      BY <1>2, <3>1 DEF FeedInv, FeedUsed
  <2>2. FeedUsed
    BY DEF FeedInv
  <2>3. ASSUME NEW i \in DOMAIN invitations
        PROVE  /\ invitations'[i] = "SUBMITTED" => \E f \in DOMAIN feedbacks' : feedbacks'[f].of = i
               /\ <<"invitation", i>> \notin crossed =>
                      /\ invitations'[i] # "SUBMITTED" => \A f \in DOMAIN feedbacks' : feedbacks'[f].of # i
                      /\ \A f, g \in DOMAIN feedbacks' : feedbacks'[f].of = i /\ feedbacks'[g].of = i => f = g
    <3>1. CASE i = k
      BY <1>4, <1>5, <1>6, <2>1, <3>1
    <3>2. CASE i # k
      <4>1. invitations'[i] = invitations[i]
        BY <1>5, <3>2
      <4>2. \A f \in DOMAIN feedbacks' :
                feedbacks'[f].of = i => f \in DOMAIN feedbacks /\ feedbacks[f].of = i
        BY <1>4, <1>6, <3>2
      <4>3. \A f \in DOMAIN feedbacks : f \in DOMAIN feedbacks' /\ feedbacks'[f].of = feedbacks[f].of
        BY <1>6
      <4>4. /\ invitations[i] = "SUBMITTED" => \E f \in DOMAIN feedbacks : feedbacks[f].of = i
            /\ <<"invitation", i>> \notin crossed =>
                   /\ invitations[i] # "SUBMITTED" => \A f \in DOMAIN feedbacks : feedbacks[f].of # i
                   /\ \A f, g \in DOMAIN feedbacks : feedbacks[f].of = i /\ feedbacks[g].of = i => f = g
        BY <2>2 DEF FeedUsed
      <4>. QED
        BY <4>1, <4>2, <4>3, <4>4
    <3>. QED
      BY <3>1, <3>2
  <2>. QED
    BY <1>2, <1>5, <2>3 DEF FeedUsed
<1>9. F!ResolvedStays'
  <2>1. handled \subseteq DOMAIN feedbacks
    BY DEF FeedInv, FeedTyped, F!TypeOK
  <2>. QED
    BY <1>1, <1>2, <1>6, <2>1 DEF FeedInv, F!ResolvedStays
<1>10. ASSUME NEW q \in Hosts \ {r}, feedReq[q].about \notin crossed, feedReq[q].pc \in OfInvitation
       PROVE  invitations'[feedReq[q].about[2]] = invitations[feedReq[q].about[2]]
  <2>1. feedReq[q].about[2] # k /\ feedReq[q].about[2] \in DOMAIN invitations
    BY <1>1, <1>2, <1>10, FeedOthers DEF FeedInv, FeedKnows, k
  <2>. QED
    BY <1>5, <2>1
<1>. QED
  BY <1>1, <1>2, <1>5, <1>6, <1>7, <1>8, <1>9, <1>10, FeedAnswers

\* Tags, acknowledgements and resolutions.
LEMMA HandleSteps ==
  ASSUME FeedInv, NEW r \in Hosts,
         F!Tag(r) \/ F!Decide(r, "ACKNOWLEDGED") \/ F!Decide(r, "RESOLVED")
  PROVE  FeedInv'
<1>. DEFINE k == feedReq[r].about[2]
<1>1. PICK pc \in OfFeedback : F!Write(r, pc)
  BY DEF F!Tag, F!Decide, OfFeedback
<1>2. /\ feedReq[r].pc = pc /\ feedReq'[r] = F!Idle /\ \A q \in Hosts \ {r} : feedReq'[q] = feedReq[q]
      /\ feedReq' \in [Hosts -> FeedSlots] /\ UNCHANGED <<lapsed, limited, crossed, arrived, feedCrashes>>
      /\ \A q \in Hosts \ {r} : feedReq[q].about \notin crossed => feedReq[q].about # feedReq[r].about
      /\ k \in DOMAIN feedbacks /\ feedReq[r].about = <<"feedback", k>>
  BY <1>1, FeedAnswered
<1>3. feedbacks[k] \in FeedRows /\ feedReq[r].tag \in Tags \cup {None}
  BY <1>2, FeedbackRows, FeedAbout DEF FeedSlots
<1>4. /\ invitations' = invitations
      /\ \E row \in FeedRows :
             /\ feedbacks' = [feedbacks EXCEPT ![k] = row] /\ row.of = feedbacks[k].of
             /\ \/ handled' = handled \cup {k} /\ row.status = "RESOLVED"
                \/ handled' = handled /\ (row.status = feedbacks[k].status \/ pc = "ACKNOWLEDGED")
  <2>1. CASE F!Tag(r)
    <3>. DEFINE row == [feedbacks[k] EXCEPT !.tags = @ \cup {feedReq[r].tag}]
    <3>1. feedbacks' = [feedbacks EXCEPT ![k] = row] /\ handled' = handled /\ invitations' = invitations
      BY <2>1 DEF F!Tag, F!Row
    <3>2. feedReq[r].tag \in Tags
      BY <2>1 DEF F!Tag, F!Write, FeedInv, FeedKnows
    <3>3. row \in FeedRows /\ row.of = feedbacks[k].of /\ row.status = feedbacks[k].status
      BY <1>3, <3>2 DEF FeedRows
    <3>. HIDE DEF row
    <3>. QED
      BY <3>1, <3>3
  <2>2. ASSUME NEW status \in {"ACKNOWLEDGED", "RESOLVED"}, F!Decide(r, status)
        PROVE  /\ invitations' = invitations
               /\ \E row \in FeedRows :
                      /\ feedbacks' = [feedbacks EXCEPT ![k] = row] /\ row.of = feedbacks[k].of
                      /\ \/ handled' = handled \cup {k} /\ row.status = "RESOLVED"
                         \/ handled' = handled /\ (row.status = feedbacks[k].status \/ pc = "ACKNOWLEDGED")
    <3>. DEFINE row == [feedbacks[k] EXCEPT !.status = status]
    <3>1. /\ feedbacks' = [feedbacks EXCEPT ![k] = row] /\ invitations' = invitations
          /\ handled' = IF status = "RESOLVED" THEN handled \cup {k} ELSE handled
          /\ pc = status
      BY <1>2, <2>2 DEF F!Decide, F!Write, F!Row
    <3>2. row \in FeedRows /\ row.of = feedbacks[k].of /\ row.status = status
      BY <1>3 DEF FeedRows
    <3>. HIDE DEF row
    <3>. QED
      BY <3>1, <3>2
  <2>. QED
    BY <2>1, <2>2
<1>5. PICK row \in FeedRows :
             /\ feedbacks' = [feedbacks EXCEPT ![k] = row] /\ row.of = feedbacks[k].of
             /\ \/ handled' = handled \cup {k} /\ row.status = "RESOLVED"
                \/ handled' = handled /\ (row.status = feedbacks[k].status \/ pc = "ACKNOWLEDGED")
  BY <1>4
<1>. HIDE DEF k
<1>6. /\ feedbacks' \in Seq(FeedRows) /\ Len(feedbacks') = Len(feedbacks)
      /\ DOMAIN feedbacks' = DOMAIN feedbacks /\ feedbacks'[k] = row
      /\ \A f \in DOMAIN feedbacks : f # k => feedbacks'[f] = feedbacks[f]
      /\ \A f \in DOMAIN feedbacks : feedbacks'[f].of = feedbacks[f].of
  <2>1. ASSUME NEW S, NEW x \in S, NEW s \in Seq(S), NEW i \in DOMAIN s
        PROVE  LET t == [s EXCEPT ![i] = x] IN
               /\ t \in Seq(S) /\ Len(t) = Len(s) /\ t[i] = x
               /\ DOMAIN t = DOMAIN s
               /\ \A f \in DOMAIN s : f # i => t[f] = s[f]
    BY <2>1
  <2>2. /\ feedbacks' \in Seq(FeedRows) /\ Len(feedbacks') = Len(feedbacks)
        /\ DOMAIN feedbacks' = DOMAIN feedbacks /\ feedbacks'[k] = row
        /\ \A f \in DOMAIN feedbacks : f # k => feedbacks'[f] = feedbacks[f]
    <3>. HIDE DEF FeedRows
    <3>. QED
      BY <1>2, <1>5, <2>1, FeedbackRows
  <2>3. ASSUME NEW f \in DOMAIN feedbacks PROVE feedbacks'[f].of = feedbacks[f].of
    BY <1>5, <2>2
  <2>. QED
    BY <2>2, <2>3
<1>7. F!TypeOK'
  <2>1. \A q \in Hosts : feedReq'[q].pc \in F!PC /\ feedReq'[q].tag \in Tags \cup {None}
    BY <1>2 DEF FeedSlots
  <2>2. feedbacks' \in Seq([of : DOMAIN invitations', status : {"NEW", "ACKNOWLEDGED", "RESOLVED"},
                            tags : SUBSET Tags])
    BY <1>4, <1>6 DEF FeedRows
  <2>3. handled' \subseteq DOMAIN feedbacks' /\ Len(feedbacks') <= MaxFeedbacks
    BY <1>2, <1>5, <1>6 DEF FeedInv, FeedTyped, F!TypeOK
  <2>. QED
    BY <1>2, <1>4, <2>1, <2>2, <2>3 DEF FeedInv, FeedTyped, F!TypeOK
<1>8. FeedUsed'
  <2>1. FeedUsed
    BY DEF FeedInv
  <2>2. /\ DOMAIN feedbacks' = DOMAIN feedbacks /\ crossed' = crossed /\ invitations' = invitations
        /\ \A f \in DOMAIN feedbacks : feedbacks'[f].of = feedbacks[f].of
    BY <1>2, <1>4, <1>6
  <2>3. ASSUME NEW i \in DOMAIN invitations
        PROVE  /\ invitations[i] = "SUBMITTED" => \E f \in DOMAIN feedbacks : feedbacks'[f].of = i
               /\ <<"invitation", i>> \notin crossed =>
                      /\ invitations[i] # "SUBMITTED" => \A f \in DOMAIN feedbacks : feedbacks'[f].of # i
                      /\ \A f, g \in DOMAIN feedbacks : feedbacks'[f].of = i /\ feedbacks'[g].of = i => f = g
    BY <2>1, <2>2 DEF FeedUsed
  <2>. QED
    BY <2>2, <2>3 DEF FeedUsed
<1>9. F!ResolvedStays'
  <2>1. SUFFICES ASSUME NEW f \in handled', <<"feedback", f>> \notin crossed
                 PROVE  feedbacks'[f].status = "RESOLVED"
    BY <1>2 DEF F!ResolvedStays
  <2>2. f \in handled => feedbacks[f].status = "RESOLVED"
    BY <2>1 DEF FeedInv, F!ResolvedStays
  <2>3. handled \subseteq DOMAIN feedbacks
    BY DEF FeedInv, FeedTyped, F!TypeOK
  <2>4. CASE f = k
    <3>1. pc = "ACKNOWLEDGED" => k \notin handled
      BY <1>2, <2>1, <2>4 DEF FeedInv, FeedStillSo, k
    <3>. QED
      BY <1>5, <1>6, <2>1, <2>2, <2>4, <3>1
  <2>5. CASE f # k
    BY <1>5, <1>6, <2>1, <2>2, <2>3, <2>5
  <2>. QED
    BY <2>4, <2>5
<1>10. ASSUME NEW q \in Hosts \ {r}, feedReq[q].about \notin crossed, feedReq[q].pc = "ACKNOWLEDGED",
              feedReq[q].about[2] \in handled'
       PROVE  feedReq[q].about[2] \in handled
  <2>1. "ACKNOWLEDGED" \in OfFeedback
    BY DEF OfFeedback
  <2>2. feedReq[q].about[2] # k
    BY <1>1, <1>2, <1>10, <2>1, FeedOthers DEF k
  <2>. QED
    BY <1>5, <1>10, <2>2
<1>. QED
  BY <1>2, <1>4, <1>6, <1>7, <1>8, <1>9, <1>10, FeedAnswers

LEMMA FeedCrash == ASSUME FeedSizes, FeedInv, NEW r \in Hosts, F!Crash(r) PROVE FeedInv'
<1>1. /\ feedReq' = [feedReq EXCEPT ![r] = F!Idle] /\ feedReq \in [Hosts -> FeedSlots]
      /\ UNCHANGED <<invitations, feedbacks, lapsed, limited, handled, crossed, arrived>>
      /\ feedCrashes < MaxCrashes /\ feedCrashes' = feedCrashes + 1
  BY DEF F!Crash, F!rows, FeedInv, FeedTyped
<1>2. feedReq' \in [Hosts -> FeedSlots] /\ \A q \in Hosts : feedReq'[q] = F!Idle \/ feedReq'[q] = feedReq[q]
  BY <1>1, FeedIdle
<1>3. F!TypeOK'
  <2>1. \A q \in Hosts : feedReq'[q].pc \in F!PC /\ feedReq'[q].tag \in Tags \cup {None}
    BY <1>2 DEF FeedSlots
  <2>2. feedCrashes' \in 0..MaxCrashes
    BY <1>1 DEF FeedInv, FeedTyped, F!TypeOK, FeedSizes
  <2>. QED
    BY <1>1, <2>1, <2>2 DEF FeedInv, FeedTyped, F!TypeOK
<1>4. FeedUsed' /\ F!ResolvedStays'
  BY <1>1 DEF FeedInv, FeedUsed, F!ResolvedStays
<1>. QED
  BY <1>1, <1>2, <1>3, <1>4, FeedAnswers

LEMMA FeedStep == ASSUME FeedSizes, FeedInv, [F!Next]_(F!vars) PROVE FeedInv'
<1>1. CASE UNCHANGED F!vars
  BY <1>1 DEF F!vars, F!rows, FeedInv, FeedTyped, F!TypeOK, FeedApart, FeedKnows, FeedStillSo,
              FeedUsed, F!ResolvedStays
<1>2. ASSUME NEW r \in Hosts, F!Proceed(r) PROVE FeedInv'
  BY <1>2, MarkSteps, SubmitStep, HandleSteps DEF F!Proceed
<1>. QED
  BY <1>1, <1>2, InvitationSteps, ArriveSteps, FeedCrash DEF F!Next

-----------------------------------------------------------------------------
(* What follows                                                            *)

\* However lookups, submissions, cancellations and handling interleave, race
\* and crash, the invariant of feedback holds.
THEOREM FeedbackInvariance == ASSUME FeedSizes PROVE F!Spec => []FeedInv
<1>1. F!Init => FeedInv
  BY FeedInit
<1>2. FeedInv /\ [F!Next]_(F!vars) => FeedInv'
  BY FeedStep
<1>. QED
  BY <1>1, <1>2, PTL DEF F!Spec

\* Rows and requests keep their types.
THEOREM FeedbackTypeCorrect == ASSUME FeedSizes PROVE F!Spec => []F!TypeOK
<1>1. FeedInv => F!TypeOK
  BY DEF FeedInv, FeedTyped
<1>. QED
  BY <1>1, FeedbackInvariance, PTL

LEMMA FeedCounts == ASSUME NEW S PROVE F!Cardinality(S) = Cardinality(S)
  BY DEF F!Cardinality, Cardinality

\* A token is used once (submitPublicFeedback inserts and marks in one
\* transaction), and what was resolved stays so (resolveFeedback, unless an
\* acknowledgement crossed it).
THEOREM FeedbackIsRight == ASSUME FeedSizes PROVE F!Spec => []F!FeedbackAgrees
<1>1. ASSUME FeedInv PROVE F!FeedbackAgrees
  <2>1. ASSUME NEW i \in DOMAIN invitations
        PROVE  /\ invitations[i] = "SUBMITTED" => F!FeedbacksOf(i) # {}
               /\ <<"invitation", i>> \notin crossed =>
                      F!Cardinality(F!FeedbacksOf(i)) = IF invitations[i] = "SUBMITTED" THEN 1 ELSE 0
    <3>. DEFINE C == F!FeedbacksOf(i)
    <3>1. /\ invitations[i] = "SUBMITTED" => C # {}
          /\ <<"invitation", i>> \notin crossed =>
                 /\ invitations[i] # "SUBMITTED" => C = {}
                 /\ \A f, g \in C : f = g
      BY <1>1 DEF FeedInv, FeedUsed, F!FeedbacksOf
    <3>. HIDE DEF C
    <3>2. C = {} => F!Cardinality(C) = 0
      BY FS_EmptySet, FeedCounts
    <3>3. ASSUME C # {}, \A f, g \in C : f = g PROVE F!Cardinality(C) = 1
      <4>1. PICK f : C = {f}
        BY <3>3
      <4>. QED
        BY <4>1, FS_Singleton, FeedCounts
    <3>4. /\ invitations[i] = "SUBMITTED" => C # {}
          /\ <<"invitation", i>> \notin crossed =>
                 F!Cardinality(C) = IF invitations[i] = "SUBMITTED" THEN 1 ELSE 0
      BY <3>1, <3>2, <3>3
    <3>. QED
      BY <3>4 DEF C
  <2>2. F!TokenUsedOnce
    BY <2>1 DEF F!TokenUsedOnce
  <2>. QED
    BY <1>1, <2>2 DEF FeedInv, F!FeedbackAgrees
<1>. QED
  BY <1>1, FeedbackInvariance, PTL

=============================================================================
