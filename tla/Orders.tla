------------------------------- MODULE Orders -------------------------------
(***************************************************************************)
(* OrdersService, the kitchen display's KdsService and the table status of *)
(* FloorService: an order's life from NEW to CLOSED or VOIDED, the tables  *)
(* that follow it, and the kitchen tickets a background job creates once   *)
(* it is sent.                                                             *)
(*                                                                         *)
(* A request is a sequence of single database calls.  What it read and     *)
(* what it may still write are kept in req; every write is unconditional   *)
(* (update by id), so it can land on an order another request has moved on *)
(* in the meantime.                                                        *)
(***************************************************************************)
EXTENDS Naturals, FiniteSets

CONSTANTS
    Orders, Tables, Lines,  \* rows a behaviour may create or use
    Requests,               \* requests in progress at a time
    Stations,               \* kitchen stations
    StationOf,              \* StationOf[l]: station of the line's menu item
    None,                   \* no table, no order, no station ("NONE")
    MaxCrashes              \* bound: requests and jobs lost to a crash

ASSUME NoneAssumption == None \notin (Orders \cup Tables \cup Lines \cup Stations)
ASSUME StationOfAssumption == StationOf \in [Lines -> Stations \cup {None}]
ASSUME CrashesAssumption == MaxCrashes \in Nat

VARIABLES
    order,      \* order[o]: status and tableId of the orders row
    visited,    \* visited[o]: every status o has ever had
    line,       \* line[l]: the order of an order_items row, None before, "deleted" after
    table,      \* table[t]: status of the tables row
    tickets,    \* kds_tickets with the lines of their kds_ticket_items
    req,        \* req[r]: the request's next call, and what it read
    job,        \* job[r]: createTicketsForOrder, left behind by r's sendOrder
    missed,     \* orders whose job was refused, failed, died or found no kitchen line
    met,        \* history: orders two of whose jobs were under way at once
    crashes

vars == <<order, visited, line, table, tickets, req, job, missed, met, crashes>>

Terminal == {"CLOSED", "VOIDED"}
OrderStatus == {"NEW", "SENT", "IN_KITCHEN", "READY", "SERVED"} \cup Terminal
TableStatus == {"AVAILABLE", "OCCUPIED", "RESERVED", "CLEANING"}

\* Mutant: a sent order can be marked ready without the kitchen taking it.
SkippingTransitions == [
    NEW        |-> {"SENT", "VOIDED"},
    SENT       |-> {"IN_KITCHEN", "READY", "VOIDED"},
    IN_KITCHEN |-> {"READY", "VOIDED"},
    READY      |-> {"SERVED", "VOIDED"},
    SERVED     |-> {"CLOSED"},
    VOIDED     |-> {},
    CLOSED     |-> {}]

VALID_TRANSITIONS == [
    NEW        |-> {"SENT", "VOIDED"},
    SENT       |-> {"IN_KITCHEN", "VOIDED"},
    IN_KITCHEN |-> {"READY", "VOIDED"},
    READY      |-> {"SERVED", "VOIDED"},
    SERVED     |-> {"CLOSED"},
    VOIDED     |-> {},
    CLOSED     |-> {}]

LinesOf(o) == {l \in Lines : line[l] = o}
LinesAt(ls, s) == {l \in ls : StationOf[l] = s}
StationsOf(ls) == {StationOf[l] : l \in ls} \ {None}

\* A ticket carries the request whose job made it, to tell two tickets apart.
Ticketed(o) == \E k \in tickets : k.order = o

Idle == [pc |-> "idle", order |-> None, to |-> "NEW", line |-> None]
NoJob == [pc |-> "idle", order |-> None, lines |-> {}]

TypeOK ==
    /\ order \in [Orders -> [status : OrderStatus \cup {"ABSENT"},
                             table : Tables \cup {None}]]
    /\ visited \in [Orders -> SUBSET OrderStatus]
    /\ line \in [Lines -> Orders \cup {None, "deleted"}]
    /\ table \in [Tables -> TableStatus]
    /\ tickets \in SUBSET [order : Orders, station : Stations, by : Requests,
                           lines : SUBSET Lines]
    /\ req \in [Requests -> [pc : {"idle", "write", "occupy", "count", "release",
                                   "settle", "addLine", "deleteLine"},
                             order : Orders \cup {None},
                             to : OrderStatus, line : Lines \cup {None}]]
    /\ job \in [Requests -> [pc : {"idle", "read", "find", "create"},
                             order : Orders \cup {None}, lines : SUBSET Lines]]
    /\ missed \in SUBSET Orders
    /\ met \in SUBSET Orders
    /\ crashes \in 0..MaxCrashes

Init ==
    /\ order = [o \in Orders |-> [status |-> "ABSENT", table |-> None]]
    /\ visited = [o \in Orders |-> {}]
    /\ line = [l \in Lines |-> None]
    /\ table \in [Tables -> TableStatus]
    /\ tickets = {}
    /\ req = [r \in Requests |-> Idle]
    /\ job = [r \in Requests |-> NoJob]
    /\ missed = {}
    /\ met = {}
    /\ crashes = 0

-----------------------------------------------------------------------------
(* OrdersService                                                           *)

\* The orders row takes status s.
SetStatus(o, s) ==
    /\ order' = [order EXCEPT ![o].status = s]
    /\ visited' = [visited EXCEPT ![o] = @ \cup {s}]

\* r passes its reads and guards and goes on to call p.
Begin(r, p, o, to) ==
    /\ req[r].pc = "idle"
    /\ req' = [req EXCEPT ![r] = [Idle EXCEPT !.pc = p, !.order = o, !.to = to]]

\* Mutant: the insert uses a status the enum does not have.
CreateOpenOrder(o, t) ==
    /\ order[o].status = "ABSENT"
    /\ order' = [order EXCEPT ![o] = [status |-> "OPEN", table |-> t]]
    /\ visited' = [visited EXCEPT ![o] = {"NEW"}]
    /\ UNCHANGED <<line, table, tickets, req, job, missed, met, crashes>>

\* createOrder: one insert; the table need not be free.
CreateOrder(o, t) ==
    /\ order[o].status = "ABSENT"
    /\ order' = [order EXCEPT ![o] = [status |-> "NEW", table |-> t]]
    /\ visited' = [visited EXCEPT ![o] = {"NEW"}]
    /\ UNCHANGED <<line, table, tickets, req, job, missed, met, crashes>>

\* transitionOrder and voidOrder: read the row, validateTransition.  No route
\* leads to closeOrder.
BeginTransition(r, o, to) ==
    /\ order[o].status \in OrderStatus
    /\ to \in VALID_TRANSITIONS[order[o].status] \ {"CLOSED"}
    /\ to = "SENT" => job[r] = NoJob
    /\ Begin(r, "write", o, to)
    /\ UNCHANGED <<order, visited, line, table, tickets, job, missed, met, crashes>>

\* ... then the unconditional write.  A sent order goes on to occupy its
\* table, a voided one to release it.
WriteStatus(r) ==
    /\ req[r].pc = "write"
    /\ SetStatus(req[r].order, req[r].to)
    /\ req' = [req EXCEPT ![r].pc =
                   CASE req[r].to = "SENT"   -> "occupy"
                     [] req[r].to = "VOIDED" -> "count"
                     [] OTHER                -> "idle"]
    /\ UNCHANGED <<line, table, tickets, job, missed, met, crashes>>

\* Mutant: sendOrder answers without leaving a job behind.
OccupyOnly(r) ==
    /\ req[r].pc = "occupy"
    /\ LET t == order[req[r].order].table IN
       table' = IF t = None THEN table ELSE [table EXCEPT ![t] = "OCCUPIED"]
    /\ req' = [req EXCEPT ![r] = Idle]
    /\ UNCHANGED <<order, visited, line, tickets, job, missed, met, crashes>>

\* autoOccupyTable; then sendOrder answers and leaves createTicketsForOrder
\* behind, not awaited.  An order that two requests read as NEW is sent by both
\* and gets two jobs.
Occupy(r) ==
    LET o == req[r].order
        t == order[o].table
    IN
    /\ req[r].pc = "occupy"
    /\ table' = IF t = None THEN table ELSE [table EXCEPT ![t] = "OCCUPIED"]
    /\ job' = [job EXCEPT ![r] = [NoJob EXCEPT !.pc = "read", !.order = o]]
    /\ met' = IF \E q \in Requests : job[q].order = o THEN met \cup {o} ELSE met
    /\ req' = [req EXCEPT ![r] = Idle]
    /\ UNCHANGED <<order, visited, line, tickets, missed, crashes>>

\* Mutant: only orders that were not sent yet are counted.
OthersNotSent(o) ==
    {p \in Orders \ {o} : order[p].table = order[o].table /\ order[p].status = "NEW"}

\* The other orders of o's table that are neither closed nor voided.
OthersOnTable(o) ==
    {p \in Orders \ {o} : /\ order[p].table = order[o].table
                          /\ order[p].status \in OrderStatus \ Terminal}

\* autoReleaseTableIfIdle: count the other active orders of the table ...
CountActive(r) ==
    LET o == req[r].order IN
    /\ req[r].pc = "count"
    /\ req' = [req EXCEPT ![r] =
                   IF order[o].table = None \/ OthersOnTable(o) # {}
                   THEN Idle ELSE [@ EXCEPT !.pc = "release"]]
    /\ UNCHANGED <<order, visited, line, table, tickets, job, missed, met, crashes>>

\* ... and free it if it is still occupied.
Release(r) ==
    LET t == order[req[r].order].table IN
    /\ req[r].pc = "release"
    /\ table' = [table EXCEPT ![t] = IF @ = "OCCUPIED" THEN "AVAILABLE" ELSE @]
    /\ req' = [req EXCEPT ![r] = Idle]
    /\ UNCHANGED <<order, visited, line, tickets, job, missed, met, crashes>>

\* addOrderItem: any order that is not CLOSED or VOIDED takes a new line ...
BeginAdd(r, o, l) ==
    /\ order[o].status \in OrderStatus \ Terminal
    /\ line[l] = None /\ \A q \in Requests : req[q].line # l
    /\ req[r].pc = "idle"
    /\ req' = [req EXCEPT ![r] = [Idle EXCEPT !.pc = "addLine", !.order = o, !.line = l]]
    /\ UNCHANGED <<order, visited, line, table, tickets, job, missed, met, crashes>>

\* ... whatever the order has become by the time of the insert.
AddLine(r) ==
    /\ req[r].pc = "addLine"
    /\ line' = [line EXCEPT ![req[r].line] = req[r].order]
    /\ req' = [req EXCEPT ![r] = Idle]
    /\ UNCHANGED <<order, visited, table, tickets, job, missed, met, crashes>>

\* deleteOrderItem: the same guard and the line's existence ...
BeginDelete(r, o, l) ==
    /\ order[o].status \in OrderStatus \ Terminal
    /\ line[l] = o
    /\ req[r].pc = "idle"
    /\ req' = [req EXCEPT ![r] = [Idle EXCEPT !.pc = "deleteLine", !.order = o, !.line = l]]
    /\ UNCHANGED <<order, visited, line, table, tickets, job, missed, met, crashes>>

\* Mutant: the items of the tickets stay when a line is deleted.
DeleteLineOnly(r) ==
    /\ req[r].pc = "deleteLine"
    /\ line' = [line EXCEPT ![req[r].line] = "deleted"]
    /\ req' = [req EXCEPT ![r] = Idle]
    /\ UNCHANGED <<order, visited, table, tickets, job, missed, met, crashes>>

\* ... then the delete, which cascades to the items of its tickets.  A line
\* that is already gone fails the request.
DeleteLine(r) ==
    /\ req[r].pc = "deleteLine"
    /\ line' = [line EXCEPT ![req[r].line] = "deleted"]
    /\ tickets' = {[k EXCEPT !.lines = @ \ {req[r].line}] : k \in tickets}
    /\ req' = [req EXCEPT ![r] = Idle]
    /\ UNCHANGED <<order, visited, table, job, missed, met, crashes>>

-----------------------------------------------------------------------------
(* The other services that write an order's status or a table's            *)

\* Mutant: settling does not ask whether the order is already final.
BeginSettleAny(r, o, to) ==
    /\ order[o].status \in OrderStatus
    /\ Begin(r, "settle", o, to)
    /\ UNCHANGED <<order, visited, line, table, tickets, job, missed, met, crashes>>

\* PaymentsService closes a SERVED order (closeOrderWithPayment) or any paid
\* order that is not yet final (autoSettleIfFullyPaid), and RefundsService
\* voids a closed one (postCloseVoid).  None of them touches the table.
BeginSettle(r, o, to) ==
    /\ \/ order[o].status \in OrderStatus \ Terminal /\ to = "CLOSED"
       \/ order[o].status = "CLOSED" /\ to = "VOIDED"
    /\ Begin(r, "settle", o, to)
    /\ UNCHANGED <<order, visited, line, table, tickets, job, missed, met, crashes>>

Settle(r) ==
    /\ req[r].pc = "settle"
    /\ SetStatus(req[r].order, req[r].to)
    /\ req' = [req EXCEPT ![r] = Idle]
    /\ UNCHANGED <<line, table, tickets, job, missed, met, crashes>>

\* FloorService.updateTableStatus: staff set any status by hand.
UpdateTableStatus(t, s) ==
    /\ table' = [table EXCEPT ![t] = s]
    /\ UNCHANGED <<order, visited, line, tickets, req, job, missed, met, crashes>>

-----------------------------------------------------------------------------
(* KdsService                                                              *)

\* r's job ends; an order that has no ticket by then has missed it.
EndJob(r) ==
    /\ job' = [job EXCEPT ![r] = NoJob]
    /\ missed' = IF Ticketed(job[r].order) THEN missed ELSE missed \cup {job[r].order}

\* createTicketsForOrder reads the order with its lines.  It refuses one that
\* is no longer SENT, and sendOrder drops the error ...
JobRead(r) ==
    LET o == job[r].order IN
    /\ job[r].pc = "read"
    /\ IF order[o].status = "SENT"
       THEN /\ job' = [job EXCEPT ![r] = [pc |-> "find", order |-> o,
                           lines |-> {l \in LinesOf(o) : StationOf[l] # None}]]
            /\ UNCHANGED missed
       ELSE EndJob(r)
    /\ UNCHANGED <<order, visited, line, table, tickets, req, met, crashes>>

\* Mutant: the job does not look for tickets another job has made.
JobFindNone(r) ==
    /\ job[r].pc = "find"
    /\ job' = [job EXCEPT ![r].pc = "create"]
    /\ UNCHANGED <<order, visited, line, table, tickets, req, missed, met, crashes>>

\* ... an order that has tickets is left as it is.
JobFind(r) ==
    /\ job[r].pc = "find"
    /\ IF Ticketed(job[r].order)
       THEN EndJob(r)
       ELSE job' = [job EXCEPT ![r].pc = "create"] /\ UNCHANGED missed
    /\ UNCHANGED <<order, visited, line, table, tickets, req, met, crashes>>

\* One ticket per station of the lines read, with its items, in one insert.
\* An item whose line was deleted meanwhile fails it and ends the job.
JobCreate(r, s) ==
    LET o == job[r].order
        ls == LinesAt(job[r].lines, s)
    IN
    /\ job[r].pc = "create"
    /\ s \in StationsOf(job[r].lines)
    /\ IF \A l \in ls : line[l] = o
       THEN /\ tickets' = tickets \cup
                   {[order |-> o, station |-> s, by |-> r, lines |-> ls]}
            /\ job' = [job EXCEPT ![r].lines = @ \ ls]
            /\ UNCHANGED missed
       ELSE EndJob(r) /\ UNCHANGED tickets
    /\ UNCHANGED <<order, visited, line, table, req, met, crashes>>

\* Every station has its ticket.
JobDone(r) ==
    /\ job[r].pc = "create"
    /\ job[r].lines = {}
    /\ EndJob(r)
    /\ UNCHANGED <<order, visited, line, table, tickets, req, met, crashes>>

-----------------------------------------------------------------------------

\* The process dies: r's request and job are gone, and with them the tickets
\* of an order that was sent.  (A request that dies ahead of its first write
\* leaves what a request that never came leaves.)
Crash(r) ==
    /\ req[r].pc \in {"occupy", "count", "release"} \/ job[r] # NoJob
    /\ crashes < MaxCrashes
    /\ crashes' = crashes + 1
    /\ req' = [req EXCEPT ![r] = Idle]
    /\ job' = [job EXCEPT ![r] = NoJob]
    /\ missed' = missed \cup ({job[r].order} \ {None})
                      \cup {o \in Orders : req[r].pc = "occupy" /\ req[r].order = o}
    /\ UNCHANGED <<order, visited, line, table, tickets, met>>

Proceed(r) ==
    \/ WriteStatus(r) \/ Occupy(r) \/ CountActive(r) \/ Release(r)
    \/ AddLine(r) \/ DeleteLine(r) \/ Settle(r)

Work(r) == JobRead(r) \/ JobFind(r) \/ (\E s \in Stations : JobCreate(r, s)) \/ JobDone(r)

Arrive(r) ==
    \/ \E o \in Orders, to \in OrderStatus : BeginTransition(r, o, to)
    \/ \E o \in Orders, to \in Terminal : BeginSettle(r, o, to)
    \/ \E o \in Orders, l \in Lines : BeginAdd(r, o, l) \/ BeginDelete(r, o, l)

Next ==
    \/ \E o \in Orders, t \in Tables \cup {None} : CreateOrder(o, t)
    \/ \E t \in Tables, s \in TableStatus : UpdateTableStatus(t, s)
    \/ \E r \in Requests : Arrive(r) \/ Proceed(r) \/ Work(r) \/ Crash(r)

\* Node runs the continuation of every settled await, of handlers and of jobs
\* left behind.  Nobody is obliged to send a request.
Fairness == \A r \in Requests : WF_vars(Proceed(r)) /\ WF_vars(Work(r))

Spec == Init /\ [][Next]_vars /\ Fairness

-----------------------------------------------------------------------------
(* What must hold.                                                         *)

\* No kitchen state is skipped, by any interleaving of stale writes: an order
\* that was ever SERVED was READY, before that IN_KITCHEN, before that SENT
\* (validateTransition, read before an unconditional write).
NoSkippedState ==
    \A o \in Orders :
        /\ "SERVED" \in visited[o] => "READY" \in visited[o]
        /\ "READY" \in visited[o] => "IN_KITCHEN" \in visited[o]
        /\ "IN_KITCHEN" \in visited[o] => "SENT" \in visited[o]

\* A ticket exists only for an order that was sent, and lists only lines that
\* are still on that order and are made at its station, although the job that
\* creates it works from an old read while lines are added and deleted.
TicketsFaithful ==
    \A k \in tickets :
        /\ "SENT" \in visited[k.order]
        /\ k.lines \subseteq LinesAt(LinesOf(k.order), k.station)

\* A sent order gets a ticket, moves on, or is one whose job was refused,
\* failed, died or found nothing for the kitchen: sendOrder always leaves a
\* job behind, and the job always ends.
SentReachesKitchen ==
    \A o \in Orders :
        order[o].status = "SENT"
            ~> Ticketed(o) \/ o \in missed \/ order[o].status # "SENT"

\* "The order lifecycle is enforced as a strict state machine" (README): a
\* voided order stays voided, a closed one can only be voided after the fact.
TerminalIsFinal ==
    [][\A o \in Orders :
           /\ order[o].status = "VOIDED" => order'[o].status = "VOIDED"
           /\ order[o].status = "CLOSED" => order'[o].status \in Terminal]_vars

\* autoReleaseTableIfIdle frees a table only if "no other active dine-in
\* orders remain": a step of a request (staff changing the status by hand is
\* none) never frees a table whose guests were sent an order not yet final.
ReleaseSparesOthers ==
    [][\A t \in Tables :
           table[t] = "OCCUPIED" /\ table'[t] = "AVAILABLE" /\ req' # req
               => \A o \in Orders : order[o].table = t =>
                      order[o].status \in {"ABSENT", "NEW"} \cup Terminal]_vars

\* "Check if tickets already exist for this order (idempotency)"
\* (createTicketsForOrder): two requests that both read an order as NEW both
\* send it, and the second job leaves the tickets of the first alone.  Only two
\* jobs that are under way at the same time can miss each other's tickets.
OneTicketPerStation ==
    \A k, m \in tickets :
        k.order = m.order /\ k.station = m.station => k = m \/ k.order \in met

=============================================================================
