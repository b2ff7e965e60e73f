---------------------------- MODULE OrdersProofs ----------------------------
(***************************************************************************)
(* Type correctness of Orders and its safety properties.                   *)
(*                                                                         *)
(* A write lands unconditionally and possibly late, so what it does to the *)
(* row can only be judged by what its request read.  OInv therefore adds,  *)
(* to the properties themselves, what a request and a job still know       *)
(* between their calls: that the status a transition was validated against *)
(* was once the order's (visited never shrinks, so this survives every     *)
(* other request's step), that a job past its read works for an order that *)
(* was sent, and that the line a request is about to insert is on no order *)
(* and in no other request's hands.                                        *)
(*                                                                         *)
(* JInv adds what the jobs left behind know of each other's tickets, and   *)
(* proves that a station gets one ticket for an order two of whose jobs    *)
(* never met, however many requests sent the order.  The last part proves  *)
(* what two overlapping requests would break and one request at a time     *)
(* keeps, from SInv.                                                       *)
(***************************************************************************)
EXTENDS Orders, TLAPS

\* What a request or a job holds is there to be used by its next call.
Slots ==
    /\ \A r \in Requests :
           /\ req[r].pc # "idle" => req[r].order \in Orders
           /\ req[r].pc \in {"addLine", "deleteLine"} => req[r].line \in Lines
    /\ \A r \in Requests : job[r].pc # "idle" => job[r].order \in Orders

\* What was read and validated remains true of the order's past.
History ==
    /\ \A o \in Orders : order[o].status = "ABSENT" => visited[o] = {}
    /\ \A o \in Orders :
           order[o].status # "ABSENT" => order[o].status \in visited[o]
    /\ \A r \in Requests :
           /\ req[r].pc = "write" => \E s \in visited[req[r].order] :
                                         req[r].to \in VALID_TRANSITIONS[s]
           /\ req[r].pc = "settle" => req[r].to \in Terminal
    /\ \A r \in Requests :
           job[r].pc \in {"find", "create"} => "SENT" \in visited[job[r].order]

\* The line of an insert under way is nobody else's yet.
FreshLines ==
    \A r \in Requests : req[r].pc = "addLine" =>
        /\ line[req[r].line] = None
        /\ \A q \in Requests \ {r} : req[q].line # req[r].line

\* The inductive invariant: the three properties and what they rest on.
OInv ==
    /\ TypeOK /\ NoSkippedState /\ TicketsFaithful
    /\ Slots /\ History /\ FreshLines

\* The rows of req, job and tickets, as TypeOK has them.
RequestRows == [pc : {"idle", "write", "occupy", "count", "release",
                      "settle", "addLine", "deleteLine"},
                order : Orders \cup {None},
                to : OrderStatus, line : Lines \cup {None}]
JobRows == [pc : {"idle", "read", "find", "create"},
            order : Orders \cup {None}, lines : SUBSET Lines]
TicketRows == [order : Orders, station : Stations, by : Requests,
               lines : SUBSET Lines]

USE NoneAssumption, StationOfAssumption, CrashesAssumption

-----------------------------------------------------------------------------

\* Before any request, nothing is wrong: no order exists, no line is taken
\* and nothing is under way.
LEMMA InitOInv == Init => OInv
  BY DEF Init, OInv, TypeOK, NoSkippedState, TicketsFaithful, Slots, History,
         FreshLines, Idle, NoJob, OrderStatus, Terminal, TableStatus

\* A request or a job that is over is typed, too.
LEMMA IdleTyped == Idle \in RequestRows /\ NoJob \in JobRows
  BY DEF Idle, NoJob, RequestRows, JobRows, OrderStatus

\* TypeOK in terms of the rows.
LEMMA RowsTyped ==
  ASSUME TypeOK
  PROVE  /\ req \in [Requests -> RequestRows]
         /\ job \in [Requests -> JobRows]
         /\ tickets \in SUBSET TicketRows
  BY DEF TypeOK, RequestRows, JobRows, TicketRows

\* Every step keeps the types: what a write stores was typed when it was read.
LEMMA TypeStep ==
  ASSUME TypeOK, Slots, [Next]_vars
  PROVE  TypeOK'
<1>1. ASSUME NEW o \in Orders, NEW t \in Tables \cup {None}, CreateOrder(o, t)
      PROVE  TypeOK'
    BY <1>1 DEF CreateOrder, TypeOK, OrderStatus, Terminal, TableStatus
<1>2. ASSUME NEW t \in Tables, NEW s \in TableStatus, UpdateTableStatus(t, s)
      PROVE  TypeOK'
    BY <1>2 DEF UpdateTableStatus, TypeOK, OrderStatus, Terminal, TableStatus
<1>3. ASSUME NEW r \in Requests, NEW o \in Orders, NEW to \in OrderStatus,
             BeginTransition(r, o, to)
      PROVE  TypeOK'
    BY <1>3
       DEF BeginTransition, Begin, Idle, TypeOK, OrderStatus, Terminal,
           TableStatus
<1>4. ASSUME NEW r \in Requests, NEW o \in Orders, NEW to \in Terminal,
             BeginSettle(r, o, to)
      PROVE  TypeOK'
    BY <1>4
       DEF BeginSettle, Begin, Idle, TypeOK, OrderStatus, Terminal, TableStatus
<1>5. ASSUME NEW r \in Requests, NEW o \in Orders, NEW l \in Lines,
             BeginAdd(r, o, l)
      PROVE  TypeOK'
    BY <1>5 DEF BeginAdd, Idle, TypeOK, OrderStatus, Terminal, TableStatus
<1>6. ASSUME NEW r \in Requests, NEW o \in Orders, NEW l \in Lines,
             BeginDelete(r, o, l)
      PROVE  TypeOK'
    BY <1>6 DEF BeginDelete, Idle, TypeOK, OrderStatus, Terminal, TableStatus
<1>7. ASSUME NEW r \in Requests, WriteStatus(r)
      PROVE  TypeOK'
  <2>1. req[r].order \in Orders /\ req[r].to \in OrderStatus
    BY <1>7, TypeOK DEF WriteStatus, TypeOK, Slots
  <2>. DEFINE OrderRows == [status : OrderStatus \cup {"ABSENT"}, table : Tables \cup {None}]
  <2>0. order \in [Orders -> OrderRows]
    BY TypeOK DEF TypeOK
  <2>2. [order[req[r].order] EXCEPT !.status = req[r].to] \in OrderRows
    <3>1. order[req[r].order] \in OrderRows
      BY <2>0, <2>1
    <3>. QED
      BY <2>1, <3>1
  <2>3. order' \in
       [Orders -> [status : OrderStatus \cup {"ABSENT"}, table : Tables \cup {None}]]
    BY <1>7, <2>1, <2>2, TypeOK DEF WriteStatus, SetStatus, TypeOK
  <2>4. visited' \in [Orders -> SUBSET OrderStatus]
    BY <1>7, TypeOK DEF WriteStatus, SetStatus, TypeOK, Slots
  <2>5. req' \in [Requests -> RequestRows]
    BY <1>7, RowsTyped DEF WriteStatus, RequestRows
  <2>. QED
    BY <1>7, <2>1, <2>2, <2>3, <2>4, <2>5
       DEF WriteStatus, TypeOK, RequestRows, JobRows, TicketRows
<1>8. ASSUME NEW r \in Requests, Occupy(r)
      PROVE  TypeOK'
  <2>1. req[r].order \in Orders /\ met' \in SUBSET Orders
    BY <1>8 DEF Occupy, TypeOK, Slots
  <2>. QED
    BY <1>8, <2>1 DEF Occupy, Idle, NoJob, TypeOK, OrderStatus, Terminal, TableStatus
<1>9. ASSUME NEW r \in Requests, CountActive(r)
      PROVE  TypeOK'
  <2>1. req' \in [Requests -> RequestRows]
    BY <1>9, RowsTyped, IdleTyped DEF CountActive, RequestRows
  <2>. QED
    BY <1>9, <2>1 DEF CountActive, TypeOK, RequestRows, JobRows, TicketRows
<1>10. ASSUME NEW r \in Requests, Release(r)
      PROVE  TypeOK'
    BY <1>10 DEF Release, Idle, TypeOK, OrderStatus, Terminal, TableStatus
<1>11. ASSUME NEW r \in Requests, AddLine(r)
      PROVE  TypeOK'
    BY <1>11 DEF AddLine, Idle, TypeOK, OrderStatus, Terminal, TableStatus
<1>12. ASSUME NEW r \in Requests, DeleteLine(r)
      PROVE  TypeOK'
  <2>1. req' \in [Requests -> RequestRows]
    BY <1>12, RowsTyped, IdleTyped DEF DeleteLine
  <2>2. tickets' \in SUBSET TicketRows
    BY <1>12, RowsTyped DEF DeleteLine, TicketRows
  <2>3. line' \in [Lines -> Orders \cup {None, "deleted"}]
    BY <1>12, TypeOK DEF DeleteLine, TypeOK, Slots
  <2>. QED
    BY <1>12, <2>1, <2>2, <2>3
       DEF DeleteLine, TypeOK, RequestRows, JobRows, TicketRows
<1>13. ASSUME NEW r \in Requests, Settle(r)
      PROVE  TypeOK'
  <2>1. req[r].order \in Orders /\ req[r].to \in OrderStatus
    BY <1>13, TypeOK DEF Settle, TypeOK, Slots
  <2>. DEFINE OrderRows == [status : OrderStatus \cup {"ABSENT"}, table : Tables \cup {None}]
  <2>0. order \in [Orders -> OrderRows]
    BY TypeOK DEF TypeOK
  <2>2. [order[req[r].order] EXCEPT !.status = req[r].to] \in OrderRows
    <3>1. order[req[r].order] \in OrderRows
      BY <2>0, <2>1
    <3>. QED
      BY <2>1, <3>1
  <2>3. order' \in
       [Orders -> [status : OrderStatus \cup {"ABSENT"}, table : Tables \cup {None}]]
    BY <1>13, <2>1, <2>2, TypeOK DEF Settle, SetStatus, TypeOK
  <2>4. visited' \in [Orders -> SUBSET OrderStatus]
    BY <1>13, TypeOK DEF Settle, SetStatus, TypeOK, Slots
  <2>5. req' \in [Requests -> RequestRows]
    BY <1>13, RowsTyped, IdleTyped DEF Settle
  <2>. QED
    BY <1>13, <2>1, <2>2, <2>3, <2>4, <2>5
       DEF Settle, TypeOK, RequestRows, JobRows, TicketRows
<1>14. ASSUME NEW r \in Requests, JobRead(r)
      PROVE  TypeOK'
  <2>1. job' \in [Requests -> JobRows]
    BY <1>14, RowsTyped, IdleTyped DEF JobRead, EndJob, LinesOf, JobRows, Slots
  <2>2. missed' \in SUBSET Orders
    BY <1>14, TypeOK DEF JobRead, EndJob, TypeOK, Slots
  <2>. QED
    BY <1>14, <2>1, <2>2 DEF JobRead, TypeOK, RequestRows, JobRows, TicketRows
<1>15. ASSUME NEW r \in Requests, JobFind(r)
      PROVE  TypeOK'
  <2>1. job' \in [Requests -> JobRows]
    BY <1>15, RowsTyped, IdleTyped DEF JobFind, EndJob, JobRows
  <2>2. missed' \in SUBSET Orders
    BY <1>15, TypeOK DEF JobFind, EndJob, TypeOK, Slots
  <2>. QED
    BY <1>15, <2>1, <2>2 DEF JobFind, TypeOK, RequestRows, JobRows, TicketRows
<1>16. ASSUME NEW r \in Requests, NEW s \in Stations, JobCreate(r, s)
      PROVE  TypeOK'
  <2>1. job' \in [Requests -> JobRows]
    BY <1>16, RowsTyped, IdleTyped DEF JobCreate, EndJob, LinesAt, JobRows
  <2>2. tickets' \in SUBSET TicketRows
    BY <1>16, RowsTyped DEF JobCreate, LinesAt, JobRows, TicketRows, Slots
  <2>3. missed' \in SUBSET Orders
    BY <1>16, TypeOK DEF JobCreate, EndJob, TypeOK, Slots
  <2>. QED
    BY <1>16, <2>1, <2>2, <2>3
       DEF JobCreate, TypeOK, RequestRows, JobRows, TicketRows
<1>17. ASSUME NEW r \in Requests, JobDone(r)
      PROVE  TypeOK'
  <2>1. job' \in [Requests -> JobRows]
    BY <1>17, RowsTyped, IdleTyped DEF JobDone, EndJob
  <2>2. missed' \in SUBSET Orders
    BY <1>17, TypeOK DEF JobDone, EndJob, TypeOK, Slots
  <2>. QED
    BY <1>17, <2>1, <2>2 DEF JobDone, TypeOK, RequestRows, JobRows, TicketRows
<1>18. ASSUME NEW r \in Requests, Crash(r)
      PROVE  TypeOK'
    BY <1>18 DEF Crash, Idle, NoJob, TypeOK, OrderStatus, Terminal, TableStatus
<1>19. CASE UNCHANGED vars
    BY <1>19 DEF vars, TypeOK, OrderStatus, Terminal, TableStatus
<1>. QED
    BY <1>1, <1>2, <1>3, <1>4, <1>5, <1>6, <1>7, <1>8, <1>9, <1>10, <1>11,
       <1>12, <1>13, <1>14, <1>15, <1>16, <1>17, <1>18, <1>19
       DEF Next, Arrive, Proceed, Work

\* Every step leaves its request and its job what their next call needs.
LEMMA SlotsStep ==
  ASSUME TypeOK, Slots, [Next]_vars
  PROVE  Slots'
<1>1. ASSUME NEW r \in Requests, NEW o \in Orders, NEW to \in OrderStatus,
             BeginTransition(r, o, to)
      PROVE  Slots'
    BY <1>1 DEF BeginTransition, Begin, Idle, Slots, TypeOK
<1>2. ASSUME NEW r \in Requests, NEW o \in Orders, NEW to \in Terminal,
             BeginSettle(r, o, to)
      PROVE  Slots'
    BY <1>2 DEF BeginSettle, Begin, Idle, Slots, TypeOK
<1>3. ASSUME NEW r \in Requests, NEW o \in Orders, NEW l \in Lines,
             BeginAdd(r, o, l)
      PROVE  Slots'
    BY <1>3 DEF BeginAdd, Idle, Slots, TypeOK
<1>4. ASSUME NEW r \in Requests, NEW o \in Orders, NEW l \in Lines,
             BeginDelete(r, o, l)
      PROVE  Slots'
    BY <1>4 DEF BeginDelete, Idle, Slots, TypeOK
<1>5. ASSUME NEW r \in Requests, WriteStatus(r)
      PROVE  Slots'
    BY <1>5 DEF WriteStatus, SetStatus, Slots, TypeOK
<1>6. ASSUME NEW r \in Requests, Occupy(r)
      PROVE  Slots'
    BY <1>6 DEF Occupy, Idle, NoJob, Slots, TypeOK
<1>7. ASSUME NEW r \in Requests, CountActive(r)
      PROVE  Slots'
    BY <1>7 DEF CountActive, Idle, Slots, TypeOK
<1>8. ASSUME NEW r \in Requests, Release(r)
      PROVE  Slots'
    BY <1>8 DEF Release, Idle, Slots, TypeOK
<1>9. ASSUME NEW r \in Requests, AddLine(r)
      PROVE  Slots'
    BY <1>9 DEF AddLine, Idle, Slots, TypeOK
<1>10. ASSUME NEW r \in Requests, DeleteLine(r)
      PROVE  Slots'
    BY <1>10 DEF DeleteLine, Idle, Slots, TypeOK
<1>11. ASSUME NEW r \in Requests, Settle(r)
      PROVE  Slots'
    BY <1>11 DEF Settle, SetStatus, Idle, Slots, TypeOK
<1>12. ASSUME NEW r \in Requests, JobRead(r)
      PROVE  Slots'
  <2>1. \A q \in Requests \ {r} : job'[q] = job[q]
    BY <1>12 DEF JobRead, EndJob, TypeOK
  <2>2. \/ job'[r].pc = "idle"
        \/ job[r].pc # "idle" /\ job'[r].order = job[r].order
    BY <1>12 DEF JobRead, EndJob, NoJob, TypeOK
  <2>. QED
    BY <1>12, <2>1, <2>2 DEF JobRead, Slots
<1>13. ASSUME NEW r \in Requests, JobFind(r)
      PROVE  Slots'
  <2>1. \A q \in Requests \ {r} : job'[q] = job[q]
    BY <1>13 DEF JobFind, EndJob, TypeOK
  <2>2. \/ job'[r].pc = "idle"
        \/ job[r].pc # "idle" /\ job'[r].order = job[r].order
    BY <1>13 DEF JobFind, EndJob, NoJob, TypeOK
  <2>. QED
    BY <1>13, <2>1, <2>2 DEF JobFind, Slots
<1>14. ASSUME NEW r \in Requests, NEW s \in Stations, JobCreate(r, s)
      PROVE  Slots'
  <2>1. \A q \in Requests \ {r} : job'[q] = job[q]
    BY <1>14 DEF JobCreate, EndJob, TypeOK
  <2>2. \/ job'[r].pc = "idle"
        \/ job[r].pc # "idle" /\ job'[r].order = job[r].order
    BY <1>14 DEF JobCreate, EndJob, NoJob, TypeOK
  <2>. QED
    BY <1>14, <2>1, <2>2 DEF JobCreate, Slots
<1>15. ASSUME NEW r \in Requests, JobDone(r)
      PROVE  Slots'
  <2>1. \A q \in Requests \ {r} : job'[q] = job[q]
    BY <1>15 DEF JobDone, EndJob, TypeOK
  <2>2. \/ job'[r].pc = "idle"
        \/ job[r].pc # "idle" /\ job'[r].order = job[r].order
    BY <1>15 DEF JobDone, EndJob, NoJob, TypeOK
  <2>. QED
    BY <1>15, <2>1, <2>2 DEF JobDone, Slots
<1>16. ASSUME NEW r \in Requests, Crash(r)
      PROVE  Slots'
    BY <1>16 DEF Crash, Idle, NoJob, Slots, TypeOK
<1>17. CASE UNCHANGED <<req, job>>
    BY <1>17 DEF Slots, TypeOK
<1>. QED
    BY <1>1, <1>2, <1>3, <1>4, <1>5, <1>6, <1>7, <1>8, <1>9, <1>10, <1>11,
       <1>12, <1>13, <1>14, <1>15, <1>16, <1>17
       DEF Next, Arrive, Proceed, Work, vars, CreateOrder, UpdateTableStatus

\* What a request validated stays part of the order's past: a status is added
\* to visited and none is ever removed.
LEMMA HistoryStep ==
  ASSUME TypeOK, Slots, History, [Next]_vars
  PROVE  History'
<1>1. ASSUME NEW o \in Orders, NEW t \in Tables \cup {None}, CreateOrder(o, t)
      PROVE  History'
    BY <1>1
       DEF CreateOrder, History, Slots, TypeOK, OrderStatus, Terminal,
           TableStatus
<1>2. ASSUME NEW r \in Requests, NEW o \in Orders, NEW to \in OrderStatus,
             BeginTransition(r, o, to)
      PROVE  History'
    BY <1>2
       DEF BeginTransition, Begin, Idle, History, Slots, TypeOK, OrderStatus,
           Terminal, TableStatus
<1>3. ASSUME NEW r \in Requests, NEW o \in Orders, NEW to \in Terminal,
             BeginSettle(r, o, to)
      PROVE  History'
    BY <1>3
       DEF BeginSettle, Begin, Idle, History, Slots, TypeOK, OrderStatus,
           Terminal, TableStatus
<1>4. ASSUME NEW r \in Requests, NEW o \in Orders, NEW l \in Lines,
             BeginAdd(r, o, l)
      PROVE  History'
    BY <1>4
       DEF BeginAdd, Idle, History, Slots, TypeOK, OrderStatus, Terminal,
           TableStatus
<1>5. ASSUME NEW r \in Requests, NEW o \in Orders, NEW l \in Lines,
             BeginDelete(r, o, l)
      PROVE  History'
    BY <1>5
       DEF BeginDelete, Idle, History, Slots, TypeOK, OrderStatus, Terminal,
           TableStatus
<1>6. ASSUME NEW r \in Requests, WriteStatus(r)
      PROVE  History'
  <2>1. req[r].order \in Orders /\ req[r].to \in OrderStatus /\ req[r].to # "ABSENT"
    BY <1>6 DEF WriteStatus, Slots, TypeOK, OrderStatus, Terminal
  <2>2. \A o \in Orders :
           /\ visited[o] \subseteq visited'[o]
           /\ \/ o = req[r].order /\ order'[o].status = req[r].to /\ req[r].to \in visited'[o]
              \/ order'[o] = order[o] /\ visited'[o] = visited[o]
    BY <1>6, <2>1 DEF WriteStatus, SetStatus, TypeOK
  <2>3. \A q \in Requests :
           req'[q] = req[q] \/ req'[q].pc \in {"occupy", "count", "idle"}
    BY <1>6 DEF WriteStatus, TypeOK
  <2>. QED
    BY <1>6, <2>1, <2>2, <2>3 DEF WriteStatus, History, Slots
<1>7. ASSUME NEW r \in Requests, Occupy(r)
      PROVE  History'
    BY <1>7
       DEF Occupy, Idle, NoJob, History, Slots, TypeOK, OrderStatus, Terminal,
           TableStatus
<1>8. ASSUME NEW r \in Requests, CountActive(r)
      PROVE  History'
    BY <1>8
       DEF CountActive, Idle, History, Slots, TypeOK, OrderStatus, Terminal,
           TableStatus
<1>9. ASSUME NEW r \in Requests, Release(r)
      PROVE  History'
    BY <1>9
       DEF Release, Idle, History, Slots, TypeOK, OrderStatus, Terminal,
           TableStatus
<1>10. ASSUME NEW r \in Requests, AddLine(r)
      PROVE  History'
    BY <1>10
       DEF AddLine, Idle, History, Slots, TypeOK, OrderStatus, Terminal,
           TableStatus
<1>11. ASSUME NEW r \in Requests, DeleteLine(r)
      PROVE  History'
  <2>1. \A q \in Requests : req'[q] = req[q] \/ req'[q].pc = "idle"
    BY <1>11 DEF DeleteLine, Idle, TypeOK
  <2>. QED
    BY <1>11, <2>1 DEF DeleteLine, History
<1>12. ASSUME NEW r \in Requests, Settle(r)
      PROVE  History'
  <2>1. req[r].order \in Orders /\ req[r].to \in OrderStatus /\ req[r].to # "ABSENT"
    BY <1>12 DEF Settle, Slots, TypeOK, OrderStatus, Terminal
  <2>2. \A o \in Orders :
           /\ visited[o] \subseteq visited'[o]
           /\ \/ o = req[r].order /\ order'[o].status = req[r].to /\ req[r].to \in visited'[o]
              \/ order'[o] = order[o] /\ visited'[o] = visited[o]
    BY <1>12, <2>1 DEF Settle, SetStatus, TypeOK
  <2>3. \A q \in Requests : req'[q] = req[q] \/ req'[q].pc = "idle"
    BY <1>12 DEF Settle, Idle, TypeOK
  <2>. QED
    BY <1>12, <2>1, <2>2, <2>3 DEF Settle, History, Slots
<1>13. ASSUME NEW r \in Requests, JobRead(r)
      PROVE  History'
  <2>1. order[job[r].order].status = "SENT" => "SENT" \in visited[job[r].order]
    BY <1>13 DEF JobRead, Slots, History, TypeOK
  <2>2. \A q \in Requests : job'[q].pc \in {"find", "create"}
              => \/ q = r /\ order[job[r].order].status = "SENT" /\ job'[q].order = job[r].order
                 \/ job'[q] = job[q]
    BY <1>13 DEF JobRead, EndJob, NoJob, TypeOK
  <2>. QED
    BY <1>13, <2>1, <2>2 DEF JobRead, History
<1>14. ASSUME NEW r \in Requests, JobFind(r)
      PROVE  History'
  <2>1. \A q \in Requests \ {r} : job'[q] = job[q]
    BY <1>14 DEF JobFind, EndJob, TypeOK
  <2>2. job'[r].pc = "idle" \/ (job[r].pc = "find" /\ job'[r].order = job[r].order)
    BY <1>14 DEF JobFind, EndJob, NoJob, TypeOK
  <2>. QED
    BY <1>14, <2>1, <2>2 DEF JobFind, History
<1>15. ASSUME NEW r \in Requests, NEW s \in Stations, JobCreate(r, s)
      PROVE  History'
  <2>1. \A q \in Requests \ {r} : job'[q] = job[q]
    BY <1>15 DEF JobCreate, EndJob, TypeOK
  <2>2. job'[r].pc = "idle" \/ (job[r].pc = "create" /\ job'[r].order = job[r].order)
    BY <1>15 DEF JobCreate, EndJob, NoJob, TypeOK
  <2>. QED
    BY <1>15, <2>1, <2>2 DEF JobCreate, History
<1>16. ASSUME NEW r \in Requests, JobDone(r)
      PROVE  History'
    BY <1>16
       DEF JobDone, EndJob, NoJob, History, Slots, TypeOK, OrderStatus,
           Terminal, TableStatus
<1>17. ASSUME NEW r \in Requests, Crash(r)
      PROVE  History'
    BY <1>17
       DEF Crash, Idle, NoJob, History, Slots, TypeOK, OrderStatus, Terminal,
           TableStatus
<1>18. CASE UNCHANGED <<order, visited, req, job>>
    BY <1>18 DEF History, Slots, TypeOK, OrderStatus, Terminal, TableStatus
<1>. QED
    BY <1>1, <1>2, <1>3, <1>4, <1>5, <1>6, <1>7, <1>8, <1>9, <1>10, <1>11,
       <1>12, <1>13, <1>14, <1>15, <1>16, <1>17, <1>18
       DEF Next, Arrive, Proceed, Work, vars, UpdateTableStatus

\* No step takes the line of an insert that is under way.
LEMMA FreshStep ==
  ASSUME TypeOK, Slots, FreshLines, [Next]_vars
  PROVE  FreshLines'
<1>1. ASSUME NEW r \in Requests, NEW o \in Orders, NEW to \in OrderStatus,
             BeginTransition(r, o, to)
      PROVE  FreshLines'
    BY <1>1
       DEF BeginTransition, Begin, Idle, FreshLines, Slots, TypeOK,
           OrderStatus, Terminal, TableStatus
<1>2. ASSUME NEW r \in Requests, NEW o \in Orders, NEW to \in Terminal,
             BeginSettle(r, o, to)
      PROVE  FreshLines'
    BY <1>2
       DEF BeginSettle, Begin, Idle, FreshLines, Slots, TypeOK, OrderStatus,
           Terminal, TableStatus
<1>3. ASSUME NEW r \in Requests, NEW o \in Orders, NEW l \in Lines,
             BeginAdd(r, o, l)
      PROVE  FreshLines'
    BY <1>3
       DEF BeginAdd, Idle, FreshLines, Slots, TypeOK, OrderStatus, Terminal,
           TableStatus
<1>4. ASSUME NEW r \in Requests, NEW o \in Orders, NEW l \in Lines,
             BeginDelete(r, o, l)
      PROVE  FreshLines'
    BY <1>4
       DEF BeginDelete, Idle, FreshLines, Slots, TypeOK, OrderStatus, Terminal,
           TableStatus
<1>5. ASSUME NEW r \in Requests, WriteStatus(r)
      PROVE  FreshLines'
    BY <1>5
       DEF WriteStatus, SetStatus, FreshLines, Slots, TypeOK, OrderStatus,
           Terminal, TableStatus
<1>6. ASSUME NEW r \in Requests, Occupy(r)
      PROVE  FreshLines'
    BY <1>6
       DEF Occupy, Idle, NoJob, FreshLines, Slots, TypeOK, OrderStatus,
           Terminal, TableStatus
<1>7. ASSUME NEW r \in Requests, CountActive(r)
      PROVE  FreshLines'
    BY <1>7
       DEF CountActive, Idle, FreshLines, Slots, TypeOK, OrderStatus, Terminal,
           TableStatus
<1>8. ASSUME NEW r \in Requests, Release(r)
      PROVE  FreshLines'
    BY <1>8
       DEF Release, Idle, FreshLines, Slots, TypeOK, OrderStatus, Terminal,
           TableStatus
<1>9. ASSUME NEW r \in Requests, AddLine(r)
      PROVE  FreshLines'
    BY <1>9
       DEF AddLine, Idle, FreshLines, Slots, TypeOK, OrderStatus, Terminal,
           TableStatus
<1>10. ASSUME NEW r \in Requests, DeleteLine(r)
      PROVE  FreshLines'
    BY <1>10
       DEF DeleteLine, Idle, FreshLines, Slots, TypeOK, OrderStatus, Terminal,
           TableStatus
<1>11. ASSUME NEW r \in Requests, Settle(r)
      PROVE  FreshLines'
    BY <1>11
       DEF Settle, SetStatus, Idle, FreshLines, Slots, TypeOK, OrderStatus,
           Terminal, TableStatus
<1>12. ASSUME NEW r \in Requests, Crash(r)
      PROVE  FreshLines'
    BY <1>12
       DEF Crash, Idle, NoJob, FreshLines, Slots, TypeOK, OrderStatus,
           Terminal, TableStatus
<1>13. CASE UNCHANGED <<line, req>>
    BY <1>13 DEF FreshLines, Slots, TypeOK, OrderStatus, Terminal, TableStatus
<1>. QED
    BY <1>1, <1>2, <1>3, <1>4, <1>5, <1>6, <1>7, <1>8, <1>9, <1>10, <1>11,
       <1>12, <1>13
       DEF Next, Arrive, Proceed, Work, vars, CreateOrder, UpdateTableStatus,
           JobRead, JobFind, JobCreate, JobDone

\* A late write adds a status the order may follow with from one it has had,
\* so it never adds a kitchen state ahead of the one before it.
LEMMA NoSkipStep ==
  ASSUME TypeOK, Slots, History, NoSkippedState, [Next]_vars
  PROVE  NoSkippedState'
<1>1. ASSUME NEW o \in Orders, NEW t \in Tables \cup {None}, CreateOrder(o, t)
      PROVE  NoSkippedState'
    BY <1>1
       DEF CreateOrder, NoSkippedState, Slots, History, VALID_TRANSITIONS,
           TypeOK, OrderStatus, Terminal, TableStatus
<1>2. ASSUME NEW r \in Requests, WriteStatus(r)
      PROVE  NoSkippedState'
  <2>1. PICK s \in visited[req[r].order] : req[r].to \in VALID_TRANSITIONS[s]
    BY <1>2 DEF WriteStatus, History
  <2>2. s \in OrderStatus
    BY <1>2, <2>1 DEF WriteStatus, Slots, TypeOK
  <2>3. /\ req[r].to = "SERVED" => s = "READY"
        /\ req[r].to = "READY" => s = "IN_KITCHEN"
        /\ req[r].to = "IN_KITCHEN" => s = "SENT"
    BY <2>1, <2>2 DEF VALID_TRANSITIONS, OrderStatus, Terminal
  <2>. QED
    BY <1>2, <2>1, <2>3
       DEF WriteStatus, SetStatus, NoSkippedState, Slots, TypeOK
<1>3. ASSUME NEW r \in Requests, Settle(r)
      PROVE  NoSkippedState'
    BY SMTT(60), <1>3
       DEF Settle, SetStatus, Idle, NoSkippedState, Slots, History,
           VALID_TRANSITIONS, TypeOK, OrderStatus, Terminal, TableStatus
<1>4. CASE UNCHANGED visited
    BY <1>4
       DEF NoSkippedState, Slots, History, VALID_TRANSITIONS, TypeOK,
           OrderStatus, Terminal, TableStatus
<1>. QED
    BY ZenonT(60), <1>1, <1>2, <1>3, <1>4
       DEF Next, Arrive, Proceed, Work, vars, UpdateTableStatus,
           BeginTransition, BeginSettle, BeginAdd, BeginDelete, Occupy,
           CountActive, Release, AddLine, DeleteLine, JobRead, JobFind,
           JobCreate, JobDone, Crash

\* A ticket is made of lines that are on the order at the insert, and no line
\* leaves its order without leaving its tickets.
LEMMA TicketsStep ==
  ASSUME TypeOK, Slots, History, FreshLines, TicketsFaithful, [Next]_vars
  PROVE  TicketsFaithful'
<1>1. ASSUME NEW o \in Orders, NEW t \in Tables \cup {None}, CreateOrder(o, t)
      PROVE  TicketsFaithful'
    BY <1>1
       DEF CreateOrder, TicketsFaithful, LinesAt, LinesOf, FreshLines, Slots,
           History, TypeOK, OrderStatus, Terminal, TableStatus
<1>2. ASSUME NEW r \in Requests, WriteStatus(r)
      PROVE  TicketsFaithful'
    BY <1>2
       DEF WriteStatus, SetStatus, TicketsFaithful, LinesAt, LinesOf,
           FreshLines, Slots, History, TypeOK, OrderStatus, Terminal,
           TableStatus
<1>3. ASSUME NEW r \in Requests, AddLine(r)
      PROVE  TicketsFaithful'
    BY <1>3
       DEF AddLine, Idle, TicketsFaithful, LinesAt, LinesOf, FreshLines, Slots,
           History, TypeOK, OrderStatus, Terminal, TableStatus
<1>4. ASSUME NEW r \in Requests, DeleteLine(r)
      PROVE  TicketsFaithful'
    BY <1>4
       DEF DeleteLine, Idle, TicketsFaithful, LinesAt, LinesOf, FreshLines,
           Slots, History, TypeOK, OrderStatus, Terminal, TableStatus
<1>5. ASSUME NEW r \in Requests, Settle(r)
      PROVE  TicketsFaithful'
    BY <1>5
       DEF Settle, SetStatus, Idle, TicketsFaithful, LinesAt, LinesOf,
           FreshLines, Slots, History, TypeOK, OrderStatus, Terminal,
           TableStatus
<1>6. ASSUME NEW r \in Requests, NEW s \in Stations, JobCreate(r, s)
      PROVE  TicketsFaithful'
    BY <1>6
       DEF JobCreate, EndJob, NoJob, LinesAt, TicketsFaithful, LinesAt,
           LinesOf, FreshLines, Slots, History, TypeOK, OrderStatus, Terminal,
           TableStatus
<1>7. CASE UNCHANGED <<visited, line, tickets>>
    BY <1>7
       DEF TicketsFaithful, LinesAt, LinesOf, FreshLines, Slots, History,
           TypeOK, OrderStatus, Terminal, TableStatus
<1>. QED
    BY <1>1, <1>2, <1>3, <1>4, <1>5, <1>6, <1>7
       DEF Next, Arrive, Proceed, Work, vars, UpdateTableStatus,
           BeginTransition, BeginSettle, BeginAdd, BeginDelete, Occupy,
           CountActive, Release, JobRead, JobFind, JobDone, Crash

\* OInv is inductive.
LEMMA NextOInv == OInv /\ [Next]_vars => OInv'
  BY TypeStep, SlotsStep, HistoryStep, FreshStep, NoSkipStep, TicketsStep
     DEF OInv

\* OInv holds in every state of every behaviour.
THEOREM Inductive == Spec => []OInv
  BY InitOInv, NextOInv, PTL DEF Spec

-----------------------------------------------------------------------------

\* Every variable keeps its type, whatever the numbers of orders, lines,
\* stations and requests.
THEOREM OrdersTypeCorrect == Spec => []TypeOK
<1>1. OInv => TypeOK
    BY DEF OInv
<1>. QED
    BY <1>1, Inductive, PTL

\* An order passes through the kitchen's states one by one, however the
\* unconditional writes of its requests interleave (validateTransition).
THEOREM NothingSkipped == Spec => []NoSkippedState
<1>1. OInv => NoSkippedState
    BY DEF OInv
<1>. QED
    BY <1>1, Inductive, PTL

\* The kitchen is shown lines of orders that were sent and only lines that are
\* still ordered, at their own station (createTicketsForOrder).
THEOREM TicketsAreFaithful == Spec => []TicketsFaithful
<1>1. OInv => TicketsFaithful
    BY DEF OInv
<1>. QED
    BY <1>1, Inductive, PTL

-----------------------------------------------------------------------------
(* The jobs of one order                                                   *)
(*                                                                         *)
(* Two requests that read an order as NEW both send it and leave two jobs. *)
(* Two that are under way at once are in met.  Of any other two, the later *)
(* starts when the earlier is over and finds what it has left: the job     *)
(* that creates tickets is then the only one that ever made a ticket of    *)
(* its order, and has none yet for the stations it has left.               *)

\* A request about to leave a job behind has none; two jobs of an order are
\* under way together only when the order is in met.
JobsApart ==
    /\ \A r \in Requests : job[r].pc = "idle" => job[r] = NoJob
    /\ \A r, q \in Requests :
           r # q /\ job[r].order = job[q].order /\ job[r] # NoJob => job[r].order \in met

\* A job that is creating tickets has none yet for the stations it has left,
\* and nobody else has made one of its order.
StationsLeft ==
    \A r \in Requests : job[r].pc = "create" /\ job[r].order \notin met =>
        \A k \in tickets : k.order = job[r].order =>
            k.by = r /\ k.station \notin StationsOf(job[r].lines)

JInv == OInv /\ JobsApart /\ StationsLeft /\ OneTicketPerStation

LEMMA InitJInv == Init => JInv
  BY InitOInv
     DEF Init, JInv, JobsApart, StationsLeft, OneTicketPerStation, NoJob

\* A job meets another only when its request leaves it behind (Occupy), and
\* then the order goes into met.
LEMMA ApartStep ==
  ASSUME OInv, JobsApart, [Next]_vars
  PROVE  JobsApart'
<1>1. TypeOK /\ Slots /\ job \in [Requests -> JobRows]
    BY RowsTyped DEF OInv
<1>2. NoJob.pc = "idle" /\ NoJob.order = None
    BY DEF NoJob
<1>3. ASSUME NEW r \in Requests, Occupy(r)
      PROVE  JobsApart'
  <2>. DEFINE o == req[r].order
  <2>1. /\ o \in Orders /\ met \subseteq met'
        /\ job'[r].pc = "read" /\ job'[r].order = o /\ job'[r] # NoJob
        /\ \A q \in Requests \ {r} : job'[q] = job[q]
    BY <1>1, <1>2, <1>3 DEF Occupy, Slots, TypeOK, NoJob
  <2>2. \A q \in Requests \ {r} : job[q].order = o => o \in met'
    BY <1>3 DEF Occupy
  <2>. QED
    BY <2>1, <2>2 DEF JobsApart
<1>. DEFINE Others(r) == \A q \in Requests \ {r} : job'[q] = job[q]
            Ends(r) == job'[r] = NoJob /\ Others(r)
            GoesOn(r) == job[r] # NoJob /\ job'[r].pc # "idle"
                         /\ job'[r].order = job[r].order /\ Others(r)
<1>4. ASSUME NEW r \in Requests, met' = met, Ends(r) \/ GoesOn(r)
      PROVE  JobsApart'
  <2>1. CASE Ends(r)
    <3>1. \A q \in Requests : job[q] # NoJob => job[q].order \in Orders
      BY <1>1 DEF JobsApart, Slots
    <3>2. \A q \in Requests : job'[q] # NoJob => job'[q] = job[q] /\ q # r
      BY <2>1
    <3>3. \A q \in Requests : job'[q].pc = "idle" => job'[q] = NoJob
      BY <2>1 DEF JobsApart
    <3>4. ASSUME NEW q \in Requests, NEW p \in Requests, q # p,
                 job'[q].order = job'[p].order, job'[q] # NoJob
          PROVE  job'[q].order \in met'
      <4>1. job'[q] = job[q] /\ job[q].order \in Orders
        BY <3>1, <3>2, <3>4
      <4>2. p # r
        BY <1>2, <2>1, <3>4, <4>1
      <4>. QED
        BY <1>4, <2>1, <3>4, <4>1, <4>2 DEF JobsApart
    <3>. QED
      BY <3>3, <3>4 DEF JobsApart
  <2>2. CASE GoesOn(r)
    <3>1. \A q \in Requests : job'[q].order = job[q].order
      BY <2>2
    <3>2. \A q \in Requests : job'[q] # NoJob => job[q] # NoJob
      BY <2>2
    <3>3. \A q \in Requests : job'[q].pc = "idle" => job'[q] = NoJob
      BY <2>2 DEF JobsApart
    <3>. QED
      BY <1>4, <3>1, <3>2, <3>3 DEF JobsApart
  <2>. QED
    BY <1>4, <2>1, <2>2
<1>5. ASSUME NEW r \in Requests, Work(r)
      PROVE  JobsApart'
  <2>1. met' = met
    BY <1>5 DEF Work, JobRead, JobFind, JobCreate, JobDone
  <2>2. ASSUME JobRead(r) PROVE Ends(r) \/ GoesOn(r)
    <3>1. CASE order[job[r].order].status # "SENT"
      BY <1>1, <2>2, <3>1 DEF JobRead, EndJob
    <3>2. CASE order[job[r].order].status = "SENT"
      BY <1>1, <1>2, <2>2, <3>2 DEF JobRead
    <3>. QED
      BY <3>1, <3>2
  <2>3. ASSUME JobFind(r) PROVE Ends(r) \/ GoesOn(r)
    <3>1. CASE Ticketed(job[r].order)
      BY <1>1, <2>3, <3>1 DEF JobFind, EndJob
    <3>2. CASE ~Ticketed(job[r].order)
      BY <1>1, <1>2, <2>3, <3>2 DEF JobFind, JobRows
    <3>. QED
      BY <3>1, <3>2
  <2>4. ASSUME JobDone(r) PROVE Ends(r)
    BY <1>1, <2>4 DEF JobDone, EndJob
  <2>5. ASSUME NEW s \in Stations, JobCreate(r, s) PROVE Ends(r) \/ GoesOn(r)
    <3>1. CASE \A l \in LinesAt(job[r].lines, s) : line[l] = job[r].order
      BY <1>1, <1>2, <2>5, <3>1 DEF JobCreate, JobRows
    <3>2. CASE ~ \A l \in LinesAt(job[r].lines, s) : line[l] = job[r].order
      BY <1>1, <2>5, <3>2 DEF JobCreate, EndJob
    <3>. QED
      BY <3>1, <3>2
  <2>6. Ends(r) \/ GoesOn(r)
    BY <1>5, <2>2, <2>3, <2>4, <2>5 DEF Work
  <2>. QED
    BY <1>4, <2>1, <2>6
<1>6. ASSUME NEW r \in Requests, Crash(r)
      PROVE  JobsApart'
  <2>1. Ends(r) /\ met' = met
    BY <1>1, <1>6 DEF Crash
  <2>. QED
    BY <1>4, <2>1
<1>7. CASE UNCHANGED <<job, met>>
    BY <1>7 DEF JobsApart
<1>. QED
    BY <1>3, <1>5, <1>6, <1>7
       DEF Next, Arrive, Proceed, vars, CreateOrder, UpdateTableStatus,
           BeginTransition, BeginSettle, BeginAdd, BeginDelete, WriteStatus,
           CountActive, Release, AddLine, DeleteLine, Settle

\* Deleting a line takes it off tickets without adding one; a job that finds no
\* ticket goes on to make them, each when it takes the station's lines off its
\* own, and nobody else makes one of its order meanwhile.
LEMMA StationsStep ==
  ASSUME OInv, JobsApart, StationsLeft, OneTicketPerStation, [Next]_vars
  PROVE  StationsLeft' /\ OneTicketPerStation'
<1>1. TypeOK /\ Slots
    BY DEF OInv
<1>2. ASSUME NEW r \in Requests, DeleteLine(r)
      PROVE  StationsLeft' /\ OneTicketPerStation'
  <2>1. /\ job' = job /\ met' = met
        /\ tickets' = {[k EXCEPT !.lines = @ \ {req[r].line}] : k \in tickets}
    BY <1>2 DEF DeleteLine
  <2>2. \A k \in tickets :
            LET m == [k EXCEPT !.lines = @ \ {req[r].line}] IN
            m.order = k.order /\ m.station = k.station /\ m.by = k.by
    BY <1>1 DEF TypeOK
  <2>3. StationsLeft'
    <3>. SUFFICES ASSUME NEW q \in Requests, job[q].pc = "create", job[q].order \notin met,
                         NEW m \in tickets', m.order = job[q].order
                  PROVE  m.by = q /\ m.station \notin StationsOf(job[q].lines)
      BY <2>1 DEF StationsLeft
    <3>1. PICK k \in tickets : m = [k EXCEPT !.lines = @ \ {req[r].line}]
      BY <2>1
    <3>. QED
      BY <2>2, <3>1 DEF StationsLeft
  <2>4. OneTicketPerStation'
    <3>. SUFFICES ASSUME NEW m \in tickets', NEW n \in tickets', m.order = n.order,
                         m.station = n.station, m.order \notin met
                  PROVE  m = n
      BY <2>1 DEF OneTicketPerStation
    <3>1. PICK k \in tickets : m = [k EXCEPT !.lines = @ \ {req[r].line}]
      BY <2>1
    <3>2. PICK j \in tickets : n = [j EXCEPT !.lines = @ \ {req[r].line}]
      BY <2>1
    <3>3. k = j
      BY <2>2, <3>1, <3>2 DEF OneTicketPerStation
    <3>. QED
      BY <3>1, <3>2, <3>3
  <2>. QED
    BY <2>3, <2>4
<1>3. ASSUME NEW r \in Requests, JobFind(r)
      PROVE  StationsLeft' /\ OneTicketPerStation'
  <2>1. /\ tickets' = tickets /\ met' = met /\ job'[r].order \in {job[r].order, None}
        /\ job'[r].pc = "create" => ~Ticketed(job[r].order) /\ job'[r].order = job[r].order
        /\ \A q \in Requests \ {r} : job'[q] = job[q]
    BY <1>1, <1>3 DEF JobFind, EndJob, NoJob, TypeOK
  <2>2. StationsLeft'
    <3>. SUFFICES ASSUME NEW q \in Requests, job'[q].pc = "create", job'[q].order \notin met,
                         NEW m \in tickets, m.order = job'[q].order
                  PROVE  m.by = q /\ m.station \notin StationsOf(job'[q].lines)
      BY <2>1 DEF StationsLeft, StationsOf
    <3>1. q # r
      BY <2>1 DEF Ticketed
    <3>. QED
      BY <2>1, <3>1 DEF StationsLeft
  <2>. QED
    BY <2>1, <2>2 DEF OneTicketPerStation
<1>4. ASSUME NEW r \in Requests, NEW s \in Stations, JobCreate(r, s)
      PROVE  StationsLeft' /\ OneTicketPerStation'
  <2>. DEFINE o == job[r].order
              ls == LinesAt(job[r].lines, s)
              k == [order |-> o, station |-> s, by |-> r, lines |-> ls]
  <2>1. job[r].pc = "create" /\ s \in StationsOf(job[r].lines) /\ met' = met
    BY <1>4 DEF JobCreate
  <2>2. CASE \A l \in ls : line[l] = o
    <3>1. /\ tickets' = tickets \cup {k}
          /\ job'[r].order = o /\ job'[r].lines = job[r].lines \ ls
          /\ \A q \in Requests \ {r} : job'[q] = job[q]
      BY <1>1, <1>4, <2>2 DEF JobCreate, TypeOK
    <3>2. s \notin StationsOf(job[r].lines \ ls)
          /\ StationsOf(job[r].lines \ ls) \subseteq StationsOf(job[r].lines)
      BY DEF StationsOf, LinesAt
    <3>3. o \notin met => \A m \in tickets : m.order = o => m.station # s
      BY <2>1 DEF StationsLeft
    <3>4. OneTicketPerStation'
      BY <2>1, <3>1, <3>3 DEF OneTicketPerStation
    <3>5. job[r] # NoJob
      BY <2>1 DEF NoJob
    <3>6. \A q \in Requests \ {r} : job[q].order = o => o \in met
      BY <3>5 DEF JobsApart
    <3>7. StationsLeft'
      <4>. SUFFICES ASSUME NEW q \in Requests, job'[q].pc = "create", job'[q].order \notin met,
                           NEW m \in tickets', m.order = job'[q].order
                    PROVE  m.by = q /\ m.station \notin StationsOf(job'[q].lines)
        BY <2>1 DEF StationsLeft, StationsOf
      <4>1. CASE q = r
        <5>1. CASE m = k
          BY <3>1, <3>2, <4>1, <5>1
        <5>2. CASE m \in tickets
          BY <2>1, <3>1, <3>2, <4>1, <5>2 DEF StationsLeft
        <5>. QED
          BY <3>1, <5>1, <5>2
      <4>2. CASE q # r
        BY <3>1, <3>6, <4>2 DEF StationsLeft
      <4>. QED
        BY <4>1, <4>2
    <3>. QED
      BY <3>4, <3>7
  <2>3. CASE \E l \in ls : line[l] # o
    <3>1. tickets' = tickets /\ job'[r] = NoJob /\ \A q \in Requests \ {r} : job'[q] = job[q]
      BY <1>1, <1>4, <2>3 DEF JobCreate, EndJob, TypeOK
    <3>. QED
      BY <2>1, <3>1 DEF StationsLeft, StationsOf, OneTicketPerStation, NoJob
  <2>. QED
    BY <2>2, <2>3
<1>5. ASSUME NEW r \in Requests, Occupy(r) \/ JobRead(r) \/ JobDone(r) \/ Crash(r)
      PROVE  StationsLeft' /\ OneTicketPerStation'
  <2>1. tickets' = tickets /\ met \subseteq met'
    BY <1>5 DEF Occupy, JobRead, JobDone, Crash
  <2>2. job \in [Requests -> JobRows]
    BY <1>1 DEF TypeOK, JobRows
  <2>3. ASSUME Occupy(r)
        PROVE  job'[r].pc = "read" /\ \A q \in Requests \ {r} : job'[q] = job[q]
    BY <2>2, <2>3 DEF Occupy, NoJob
  <2>4. ASSUME JobRead(r)
        PROVE  job'[r].pc \in {"find", "idle"} /\ \A q \in Requests \ {r} : job'[q] = job[q]
    BY <2>2, <2>4 DEF JobRead, EndJob, NoJob
  <2>5. ASSUME JobDone(r) \/ Crash(r)
        PROVE  job'[r].pc = "idle" /\ \A q \in Requests \ {r} : job'[q] = job[q]
    BY <2>2, <2>5 DEF JobDone, EndJob, Crash, NoJob
  <2>6. job'[r].pc # "create" /\ \A q \in Requests \ {r} : job'[q] = job[q]
    BY <1>5, <2>3, <2>4, <2>5
  <2>. QED
    BY <2>1, <2>6 DEF StationsLeft, StationsOf, OneTicketPerStation
<1>6. CASE UNCHANGED <<tickets, job, met>>
    BY <1>6 DEF StationsLeft, StationsOf, OneTicketPerStation
<1>. QED
    BY <1>2, <1>3, <1>4, <1>5, <1>6
       DEF Next, Arrive, Proceed, Work, vars, CreateOrder, UpdateTableStatus,
           BeginTransition, BeginSettle, BeginAdd, BeginDelete, WriteStatus,
           CountActive, Release, AddLine, Settle

\* JInv is inductive, and holds in every state of every behaviour.
LEMMA JobsInvariance == Spec => []JInv
<1>1. JInv /\ [Next]_vars => JInv'
    BY NextOInv, ApartStep, StationsStep DEF JInv
<1>. QED
    BY InitJInv, <1>1, PTL DEF Spec

\* The kitchen gets one ticket per station of an order, however many requests
\* send it and whatever is added and deleted while createTicketsForOrder is at
\* work, unless two of its jobs were under way at once.
THEOREM TicketsAreSingle == Spec => []OneTicketPerStation
<1>1. JInv => OneTicketPerStation
    BY DEF JInv
<1>. QED
    BY <1>1, JobsInvariance, PTL

-----------------------------------------------------------------------------
(* Requests one at a time                                                  *)
(*                                                                         *)
(* With one request in progress (a job left behind and the staff at the    *)
(* tables still interleave with it) what it read is still so when it       *)
(* writes.  SInv says this of each of its calls.                           *)

OneAtATime == \A r, q \in Requests : r = q

\* What frees a table is no order of its that was sent and is not final.
Spares(t) == \A p \in Orders : order[p].table = t =>
                 order[p].status \in {"ABSENT", "NEW"} \cup Terminal

\* The status a transition was validated against, and the count of a release.
StillRead ==
    \A r \in Requests :
        LET o == req[r].order IN
        /\ req[r].pc = "write" => /\ order[o].status \in OrderStatus
                                  /\ req[r].to \in VALID_TRANSITIONS[order[o].status] \ {"CLOSED"}
        /\ req[r].pc = "settle" => \/ order[o].status \notin Terminal /\ req[r].to = "CLOSED"
                                   \/ order[o].status = "CLOSED" /\ req[r].to = "VOIDED"
        /\ req[r].pc \in {"count", "release"} => order[o].status = "VOIDED"
        /\ req[r].pc = "release" => order[o].table \in Tables /\ Spares(order[o].table)

SInv == OInv /\ StillRead

LEMMA InitSInv == Init => SInv
  BY InitOInv
     DEF Init, SInv, StillRead, Idle

\* What the one request read stays so until it writes.
LEMMA ReadStep ==
  ASSUME OneAtATime, OInv, StillRead, [Next]_vars
  PROVE  StillRead'
<1>. USE DEF OneAtATime
<1>1. TypeOK /\ Slots
    BY DEF OInv
<1>2. ASSUME NEW o \in Orders, NEW t \in Tables \cup {None}, CreateOrder(o, t)
      PROVE  StillRead'
  <2>1. /\ order[o].status = "ABSENT" /\ req' = req
        /\ order'[o] = [status |-> "NEW", table |-> t]
        /\ \A p \in Orders \ {o} : order'[p] = order[p]
    BY <1>1, <1>2 DEF CreateOrder, TypeOK
  <2>2. \A r \in Requests : req[r].pc \in {"write", "count", "release"} => req[r].order # o
    BY <2>1 DEF StillRead, OrderStatus, Terminal
  <2>. QED
    BY <1>1, <2>1, <2>2 DEF StillRead, Slots, Spares, OrderStatus, Terminal
<1>3. ASSUME NEW r \in Requests, NEW o \in Orders, NEW to \in OrderStatus,
             BeginTransition(r, o, to)
      PROVE  StillRead'
    BY <1>1, <1>3 DEF BeginTransition, Begin, Idle, StillRead, TypeOK
<1>4. ASSUME NEW r \in Requests, NEW o \in Orders, NEW to \in Terminal,
             BeginSettle(r, o, to)
      PROVE  StillRead'
    BY <1>1, <1>4 DEF BeginSettle, Begin, Idle, StillRead, TypeOK
<1>5. ASSUME NEW r \in Requests, NEW o \in Orders, NEW l \in Lines,
             BeginAdd(r, o, l) \/ BeginDelete(r, o, l)
      PROVE  StillRead'
  <2>0. req \in [Requests -> RequestRows]
    BY <1>1 DEF TypeOK, RequestRows
  <2>1. req'[r].pc \in {"addLine", "deleteLine"}
    <3>1. PICK pc \in {"addLine", "deleteLine"} :
              req' = [req EXCEPT ![r] = [Idle EXCEPT !.pc = pc, !.order = o, !.line = l]]
      BY <1>5 DEF BeginAdd, BeginDelete
    <3>2. req'[r].pc = pc
      BY <2>0, <3>1 DEF Idle
    <3>. QED
      BY <3>2
  <2>. QED
    BY <2>1 DEF StillRead
<1>6. ASSUME NEW r \in Requests, WriteStatus(r)
      PROVE  StillRead'
  <2>1. /\ req[r].order \in Orders /\ req[r].pc = "write"
        /\ order'[req[r].order].status = req[r].to
        /\ req'[r].order = req[r].order
        /\ req'[r].pc \in {"occupy", "count", "idle"}
        /\ req'[r].pc = "count" => req[r].to = "VOIDED"
    BY <1>1, <1>6 DEF WriteStatus, SetStatus, TypeOK, Slots
  <2>. QED
    BY <2>1 DEF StillRead
<1>7. ASSUME NEW r \in Requests, CountActive(r)
      PROVE  StillRead'
  <2>. DEFINE o == req[r].order
  <2>1. /\ o \in Orders /\ order' = order /\ order[o].status = "VOIDED"
        /\ order[o].table \in Tables \cup {None}
    BY <1>1, <1>7 DEF CountActive, TypeOK, Slots, StillRead
  <2>2. CASE order[o].table = None \/ OthersOnTable(o) # {}
    <3>1. req \in [Requests -> RequestRows]
      BY <1>1 DEF TypeOK, RequestRows
    <3>2. req' = [req EXCEPT ![r] = Idle]
      BY <1>7, <2>2 DEF CountActive
    <3>3. req'[r] = Idle
      BY <3>1, <3>2
    <3>. QED
      BY <3>3 DEF StillRead, Idle
  <2>3. CASE order[o].table # None /\ OthersOnTable(o) = {}
    <3>1. Spares(order[o].table)
      BY <1>1, <2>1, <2>3 DEF Spares, OthersOnTable, TypeOK, OrderStatus, Terminal
    <3>2. req'[r].pc = "release" /\ req'[r].order = o
      BY <1>1, <1>7, <2>3 DEF CountActive, TypeOK
    <3>. QED
      BY <2>1, <2>3, <3>1, <3>2 DEF StillRead, Spares
  <2>. QED
    BY <2>2, <2>3
<1>8. ASSUME NEW r \in Requests,
             Occupy(r) \/ Release(r) \/ AddLine(r) \/ DeleteLine(r) \/ Settle(r) \/ Crash(r)
      PROVE  StillRead'
  <2>1. req'[r] = Idle
    BY <1>1, <1>8 DEF Occupy, Release, AddLine, DeleteLine, Settle, Crash, TypeOK
  <2>. QED
    BY <2>1 DEF StillRead, Idle
<1>9. CASE UNCHANGED <<order, req>>
    BY <1>9 DEF StillRead, Spares
<1>. QED
    BY <1>2, <1>3, <1>4, <1>5, <1>6, <1>7, <1>8, <1>9
       DEF Next, Arrive, Proceed, Work, vars, UpdateTableStatus, JobRead, JobFind,
           JobCreate, JobDone

\* SInv is inductive, and holds when requests do not overlap.
LEMMA SerialInvariance == ASSUME OneAtATime PROVE Spec => []SInv
<1>1. SInv /\ [Next]_vars => SInv'
    BY NextOInv, ReadStep DEF SInv
<1>. QED
    BY InitSInv, <1>1, PTL DEF Spec

-----------------------------------------------------------------------------

\* A final order stays final when requests do not overlap: the unconditional
\* write of transitionOrder lands on the status it was validated against.
THEOREM TerminalStays == ASSUME OneAtATime PROVE Spec => TerminalIsFinal
<1>. DEFINE Final == \A o \in Orders :
                /\ order[o].status = "VOIDED" => order'[o].status = "VOIDED"
                /\ order[o].status = "CLOSED" => order'[o].status \in Terminal
<1>1. SInv /\ [Next]_vars => [Final]_vars
  <2>. SUFFICES ASSUME SInv, [Next]_vars PROVE Final
    OBVIOUS
  <2>1. TypeOK /\ Slots /\ StillRead
    BY DEF SInv, OInv
  <2>2. ASSUME NEW r \in Requests, WriteStatus(r) \/ Settle(r) PROVE Final
    <3>. DEFINE o == req[r].order
    <3>1. /\ o \in Orders /\ order'[o].status = req[r].to
          /\ \A p \in Orders \ {o} : order'[p] = order[p]
      BY <2>1, <2>2 DEF WriteStatus, Settle, SetStatus, Slots, TypeOK
    <3>2. order[o].status \in Terminal => order[o].status = "CLOSED" /\ req[r].to = "VOIDED"
      BY <2>1, <2>2 DEF WriteStatus, Settle, StillRead, VALID_TRANSITIONS, Terminal
    <3>. QED
      BY <3>1, <3>2 DEF Terminal
  <2>3. ASSUME NEW o \in Orders, NEW t \in Tables \cup {None}, CreateOrder(o, t) PROVE Final
    BY <2>1, <2>3 DEF CreateOrder, TypeOK, Terminal
  <2>4. CASE UNCHANGED order
    BY <2>4 DEF Terminal
  <2>. QED
    BY ZenonT(60), <2>2, <2>3, <2>4
       DEF Next, Arrive, Proceed, Work, vars, UpdateTableStatus, BeginTransition, BeginSettle,
           BeginAdd, BeginDelete, Occupy, CountActive, Release, AddLine, DeleteLine, JobRead,
           JobFind, JobCreate, JobDone, Crash
<1>. QED
    BY <1>1, SerialInvariance, PTL DEF Spec, TerminalIsFinal

\* Voiding one order of a table never frees it under another that was sent and
\* is not final, when requests do not overlap (autoReleaseTableIfIdle counts the
\* others in one call and frees the table in the next).
THEOREM ReleasesSpareOthers == ASSUME OneAtATime PROVE Spec => ReleaseSparesOthers
<1>. DEFINE Spared == \A t \in Tables :
                table[t] = "OCCUPIED" /\ table'[t] = "AVAILABLE" /\ req' # req
                    => \A o \in Orders : order[o].table = t =>
                           order[o].status \in {"ABSENT", "NEW"} \cup Terminal
<1>1. SInv /\ [Next]_vars => [Spared]_vars
  <2>. SUFFICES ASSUME SInv, [Next]_vars, NEW t \in Tables, table[t] = "OCCUPIED",
                       table'[t] = "AVAILABLE", req' # req
                PROVE  Spares(t)
    BY DEF Spares
  <2>1. TypeOK /\ StillRead
    BY DEF SInv, OInv
  <2>2. ASSUME NEW r \in Requests, Release(r) PROVE Spares(t)
    BY <2>1, <2>2 DEF Release, StillRead, TypeOK
  <2>3. ASSUME NEW r \in Requests, Occupy(r) PROVE FALSE
    BY <2>1, <2>3 DEF Occupy, TypeOK
  <2>. QED
    BY ZenonT(60), <2>2, <2>3
       DEF Next, Arrive, Proceed, Work, vars, CreateOrder, UpdateTableStatus, BeginTransition,
           BeginSettle, BeginAdd, BeginDelete, WriteStatus, Settle, CountActive, AddLine,
           DeleteLine, JobRead, JobFind, JobCreate, JobDone, Crash
<1>. QED
    BY <1>1, SerialInvariance, PTL DEF Spec, ReleaseSparesOthers

=============================================================================
