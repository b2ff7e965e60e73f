-------------------------------- MODULE Handoffs --------------------------------
(***************************************************************************)
(* What is handed over about an order beside its items: PosHandoffService  *)
(* (splitting a bill, changing table or server, the record a merge leaves) *)
(* with the tables OrdersService occupies and releases, and the anomaly    *)
(* flags that discounts and refunds put on the order.                      *)
(*                                                                         *)
(* A request reads the order and writes by id in calls of their own;       *)
(* metadata and anomalyFlags are written whole, from what was read.  The   *)
(* items of a merge are in module Bill; tables set by hand, prices and     *)
(* kitchen states are left out.                                            *)
(***************************************************************************)
EXTENDS Naturals, Sequences, FiniteSets, FiniteSetsExt

CONSTANTS
    Orders, Tables,
    SeatOf,         \* the table each order is made at, or None
    Servers,        \* who an order can be handed to; None is who made it
    UnitPrice,      \* of an item, in cents
    Counts,         \* of an EQUAL split
    Customs,        \* groups a CUSTOM split is given
    Requests,       \* requests in progress at a time
    None,
    MaxItems, MaxArrivals, MaxCrashes   \* bounds

VARIABLES
    order,          \* orders rows; split and merge are keys of metadata
    table,          \* the status of each table
    answered,       \* the groups each order's last split was answered with
    flagged,        \* <<o, flag>>: flags whose request came to its end
    left,           \* tables that an order left without a release
    crossed,        \* orders and tables two requests were at work on, or one died on
    req,            \* req[r]: the request's next call, and what it is about and carries
    arrived, crashes

rows == <<order, table>>
history == <<answered, flagged, left>>
vars == <<rows, history, crossed, req, arrived, crashes>>

Open == {"NEW", "SENT"}
Flags == {"HEAVY_DISCOUNT", "highValueRefund"}
PC == {"idle", "send", "occupy", "void", "count", "release", "table", "server", "split", "merge",
       "flags", "mark"}

Absent == [status |-> "ABSENT", table |-> None, server |-> None, items |-> 0,
           split |-> <<>>, merge |-> None, into |-> None, flags |-> {}, shape |-> "none"]

\* on is what the request works on.
Idle == [pc |-> "idle", order |-> None, arg |-> None, seen |-> Absent, on |-> {}]

TypeOK ==
    /\ \A o \in Orders :
           /\ order[o].status \in {"ABSENT", "NEW", "SENT", "VOIDED", "CLOSED"}
           /\ order[o].table \in Tables \cup {None} /\ order[o].server \in Servers \cup {None}
           /\ order[o].items \in Nat
           /\ order[o].split \in Seq(Nat)
           /\ {order[o].merge, order[o].into} \subseteq Orders \cup {None}
           /\ order[o].flags \subseteq Flags /\ order[o].shape \in {"none", "list", "object"}
    /\ table \in [Tables -> {"AVAILABLE", "OCCUPIED"}]
    /\ answered \in [Orders -> Seq(Nat)] /\ flagged \subseteq Orders \X Flags
    /\ left \subseteq Tables /\ crossed \subseteq Orders \cup Tables
    /\ \A r \in Requests : req[r].pc \in PC /\ req[r].on \subseteq Orders \cup Tables
    /\ arrived \in 0..MaxArrivals /\ crashes \in 0..MaxCrashes

Init ==
    /\ order = [o \in Orders |-> Absent]
    /\ table = [t \in Tables |-> "AVAILABLE"]
    /\ answered = [o \in Orders |-> <<>>] /\ flagged = {} /\ left = {}
    /\ crossed = {}
    /\ req = [r \in Requests |-> Idle]
    /\ arrived = 0 /\ crashes = 0

-----------------------------------------------------------------------------
(* Building blocks                                                         *)

Busy(x) == \E r \in Requests : x \in req[r].on

\* fields are those of the order that the request uses later.
Start(r, pc, o, arg, on, fields) ==
    /\ req[r].pc = "idle"
    /\ arrived < MaxArrivals
    /\ arrived' = arrived + 1
    /\ req' = [req EXCEPT ![r] =
           [pc |-> pc, order |-> o, arg |-> arg, on |-> on \ {None},
            seen |-> [f \in DOMAIN Absent |-> IF f \in fields THEN order[o][f] ELSE Absent[f]]]]
    /\ crossed' = crossed \cup {x \in on \ {None} : Busy(x)}
    /\ UNCHANGED <<rows, history, crashes>>

Goto(r, pc) == req' = [req EXCEPT ![r].pc = pc] /\ UNCHANGED <<crossed, arrived, crashes>>

Finish(r) == req' = [req EXCEPT ![r] = Idle] /\ UNCHANGED <<crossed, arrived, crashes>>

-----------------------------------------------------------------------------
(* The order                                                               *)

CreateOrder(o) ==
    /\ order[o].status = "ABSENT"
    /\ order' = [order EXCEPT ![o] = [Absent EXCEPT !.status = "NEW", !.table = SeatOf[o]]]
    /\ UNCHANGED <<table, history, crossed, req, arrived, crashes>>

AddItem(o) ==
    /\ order[o].status \in Open /\ order[o].items < MaxItems
    /\ order' = [order EXCEPT ![o].items = @ + 1]
    /\ UNCHANGED <<table, history, crossed, req, arrived, crashes>>

\* A payment closes the order, and releases no table.
CloseByPayment(o) ==
    /\ order[o].status \in Open
    /\ order' = [order EXCEPT ![o].status = "CLOSED"]
    /\ left' = left \cup ({order[o].table} \ {None})
    /\ crossed' = crossed \cup {x \in {o, order[o].table} : Busy(x)}
    /\ UNCHANGED <<table, answered, flagged, req, arrived, crashes>>

SendRead(r, o) ==
    /\ order[o].status = "NEW" /\ order[o].items > 0
    /\ Start(r, "send", o, None, {o, order[o].table}, {"table"})

Send(r) ==
    /\ req[r].pc = "send"
    /\ order' = [order EXCEPT ![req[r].order].status = "SENT"]
    /\ IF req[r].seen.table = None THEN Finish(r) ELSE Goto(r, "occupy")
    /\ UNCHANGED <<table, history>>

\* autoOccupyTable, the table as it was read.
Occupy(r) ==
    /\ req[r].pc = "occupy"
    /\ table' = [table EXCEPT ![req[r].seen.table] = "OCCUPIED"]
    /\ Finish(r)
    /\ UNCHANGED <<order, history>>

VoidRead(r, o) ==
    /\ order[o].status \in Open
    /\ Start(r, "void", o, None, {o, order[o].table}, {"table"})

Void(r) ==
    /\ req[r].pc = "void"
    /\ order' = [order EXCEPT ![req[r].order].status = "VOIDED"]
    /\ IF req[r].seen.table = None THEN Finish(r) ELSE Goto(r, "count")
    /\ UNCHANGED <<table, history>>

\* Mutant: orders that were not made at the table are not counted.
CountActiveHere(r) ==
    /\ req[r].pc = "count"
    /\ IF \E o \in Orders \ {req[r].order} :
              order[o].table = req[r].seen.table /\ order[o].status \in Open /\ order[o].into # None
       THEN Finish(r) ELSE Goto(r, "release")
    /\ UNCHANGED <<rows, history>>

\* autoReleaseTableIfIdle, the count of the other orders at the table ...
CountActive(r) ==
    /\ req[r].pc = "count"
    /\ IF \E o \in Orders \ {req[r].order} :
              order[o].table = req[r].seen.table /\ order[o].status \in Open
       THEN Finish(r) ELSE Goto(r, "release")
    /\ UNCHANGED <<rows, history>>

\* ... and the release.
Release(r) ==
    /\ req[r].pc = "release"
    /\ table' = [table EXCEPT ![req[r].seen.table] = "AVAILABLE"]
    /\ Finish(r)
    /\ UNCHANGED <<order, history>>

-----------------------------------------------------------------------------
(* transferTable and transferServer                                        *)

TransferTableRead(r, o, t) ==
    /\ order[o].status \in Open /\ order[o].table # t
    /\ Start(r, "table", o, t, {o, t, order[o].table}, {"table"})

\* Neither table changes its status.
TransferTable(r) ==
    LET o == req[r].order
    IN
    /\ req[r].pc = "table"
    /\ order' = [order EXCEPT ![o].table = req[r].arg]
    /\ left' = left \cup ({req[r].arg, req[r].seen.table} \ {None})
    /\ Finish(r)
    /\ UNCHANGED <<table, answered, flagged>>

TransferServerRead(r, o, s) ==
    /\ order[o].status \in Open /\ order[o].server # s
    /\ Start(r, "server", o, s, {o}, {})

TransferServer(r) ==
    /\ req[r].pc = "server"
    /\ order' = [order EXCEPT ![req[r].order].server = req[r].arg]
    /\ Finish(r)
    /\ UNCHANGED <<table, history>>

-----------------------------------------------------------------------------
(* splitBill                                                               *)

Sum(groups) == MapThenSumSet(LAMBDA i : groups[i], DOMAIN groups)

\* Mutant: the cents that are left over are nobody's.
EqualAll(total, n) == [i \in 1..n |-> total \div n]

\* Rounded down, and the rest is the last one's.
Equal(total, n) ==
    [i \in 1..n |-> IF i < n THEN total \div n ELSE total - (n - 1) * (total \div n)]

Total(row) == UnitPrice * row.items

SplitRead(r, o, groups) ==
    /\ order[o].status \in Open
    /\ groups \in Customs => Sum(groups) = Total(order[o])
    /\ Start(r, "split", o, groups, {o}, {"merge"})

\* metadata as it was read, with the new groups.
SplitBill(r) ==
    LET o == req[r].order
    IN
    /\ req[r].pc = "split"
    /\ order' = [order EXCEPT ![o].split = req[r].arg, ![o].merge = req[r].seen.merge]
    /\ answered' = [answered EXCEPT ![o] = req[r].arg]
    /\ Finish(r)
    /\ UNCHANGED <<table, flagged, left>>

-----------------------------------------------------------------------------
(* mergeOrders                                                             *)

MergeRead(r, o, p) ==
    /\ o # p /\ {order[o].status, order[p].status} \subseteq Open
    /\ Start(r, "merge", o, p, {o, p, order[o].table}, {"split", "items"})

\* The items that were read; those added since stay, and those another handoff
\* took since are not followed here.
Carried(r) ==
    LET now == order[req[r].order].items
    IN  IF now < req[r].seen.items THEN now ELSE req[r].seen.items

\* Mutant: metadata holds the merge and nothing else.
MergeNoteOnly(r) ==
    LET o == req[r].order
        p == req[r].arg
    IN
    /\ req[r].pc = "merge"
    /\ order' = [order EXCEPT ![o].status = "VOIDED", ![o].into = p, ![o].merge = p,
                              ![o].split = <<>>, ![o].items = @ - Carried(r), ![p].items = @ + Carried(r)]
    /\ left' = left \cup ({order[o].table} \ {None})
    /\ Finish(r)
    /\ UNCHANGED <<table, answered, flagged>>

\* Its transaction.  The source is VOIDED here, and its table not released.
MergeOrders(r) ==
    LET o == req[r].order
        p == req[r].arg
    IN
    /\ req[r].pc = "merge"
    /\ order' = [order EXCEPT ![o].status = "VOIDED", ![o].into = p, ![o].merge = p,
                              ![o].split = req[r].seen.split,
                              ![o].items = @ - Carried(r), ![p].items = @ + Carried(r)]
    /\ left' = left \cup ({order[o].table} \ {None})
    /\ Finish(r)
    /\ UNCHANGED <<table, answered, flagged>>

-----------------------------------------------------------------------------
(* flagHeavyDiscount and flagRefundAnomaly                                 *)

\* A discount or refund above the threshold was inserted (modules Bill, Refunds).
Flag(r, o, flag) ==
    /\ order[o].status \in IF flag = "HEAVY_DISCOUNT" THEN Open ELSE {"CLOSED"}
    /\ Start(r, "flags", o, flag, {o}, {})

\* A discount expects a list: on an object the request fails here.
ReadFlags(r) ==
    LET row == order[req[r].order]
        discount == req[r].arg = "HEAVY_DISCOUNT"
    IN
    /\ req[r].pc = "flags"
    /\ IF discount /\ (row.shape = "object" \/ req[r].arg \in row.flags)
       THEN /\ req' = [req EXCEPT ![r] = Idle]
            /\ flagged' = IF row.shape = "object" THEN flagged
                          ELSE flagged \cup {<<req[r].order, req[r].arg>>}
       ELSE /\ req' = [req EXCEPT ![r].pc = "mark", ![r].seen.flags = row.flags]
            /\ UNCHANGED flagged
    /\ UNCHANGED <<rows, answered, left, crossed, arrived, crashes>>

\* Mutant: what was read is not written back.
MarkFlagOnly(r) ==
    /\ req[r].pc = "mark"
    /\ order' = [order EXCEPT
           ![req[r].order].flags = {req[r].arg},
           ![req[r].order].shape = IF req[r].arg = "HEAVY_DISCOUNT" THEN "list" ELSE "object"]
    /\ flagged' = flagged \cup {<<req[r].order, req[r].arg>>}
    /\ Finish(r)
    /\ UNCHANGED <<table, answered, left>>

\* A refund spreads a list into an object and keeps its members.
MarkFlag(r) ==
    /\ req[r].pc = "mark"
    /\ order' = [order EXCEPT
           ![req[r].order].flags = req[r].seen.flags \cup {req[r].arg},
           ![req[r].order].shape = IF req[r].arg = "HEAVY_DISCOUNT" THEN "list" ELSE "object"]
    /\ flagged' = flagged \cup {<<req[r].order, req[r].arg>>}
    /\ Finish(r)
    /\ UNCHANGED <<table, answered, left>>

-----------------------------------------------------------------------------

Crash(r) ==
    /\ req[r].pc # "idle"
    /\ crashes < MaxCrashes
    /\ crashes' = crashes + 1
    /\ req' = [req EXCEPT ![r] = Idle]
    /\ crossed' = crossed \cup req[r].on
    /\ UNCHANGED <<rows, history, arrived>>

Arrive(r, o) ==
    \/ SendRead(r, o) \/ VoidRead(r, o)
    \/ \E t \in Tables : TransferTableRead(r, o, t)
    \/ \E s \in Servers : TransferServerRead(r, o, s)
    \/ \E groups \in Customs \cup {Equal(Total(order[o]), n) : n \in Counts} :
           SplitRead(r, o, groups)
    \/ \E p \in Orders : MergeRead(r, o, p)
    \/ \E flag \in Flags : Flag(r, o, flag)

Proceed(r) ==
    \/ Send(r) \/ Occupy(r) \/ Void(r) \/ CountActive(r) \/ Release(r)
    \/ TransferTable(r) \/ TransferServer(r) \/ SplitBill(r) \/ MergeOrders(r)
    \/ ReadFlags(r) \/ MarkFlag(r)

Next ==
    \/ \E o \in Orders : CreateOrder(o) \/ AddItem(o) \/ CloseByPayment(o)
    \/ \E r \in Requests : (\E o \in Orders : Arrive(r, o)) \/ Proceed(r) \/ Crash(r)

Spec == Init /\ [][Next]_vars

-----------------------------------------------------------------------------
(* What must hold.                                                         *)

\* "so the sum equals total exactly": the groups of a bill add up to a total the
\* order had, a whole number of items, however they were made; and later writes
\* of the order's metadata keep them, unless requests crossed.
SplitKept ==
    \A o \in Orders :
        /\ Sum(order[o].split) % UnitPrice = 0
        /\ o \notin crossed => order[o].split = answered[o]

\* A merged order says into which one in both its places, unless requests crossed.
MergeKept ==
    \A o \in Orders :
        o \notin crossed => /\ order[o].merge = order[o].into
                            /\ order[o].into # None => order[o].status = "VOIDED"

\* "return the table to AVAILABLE so it can be re-seated": the status of a table
\* agrees with the orders at it, but for tables that an order came to or left by
\* a transfer, a merge or a payment, and those where requests crossed.
TablesFollow ==
    \A t \in Tables \ (left \cup crossed) :
        LET here == {o \in Orders : order[o].table = t}
        IN  \/ Busy(t)
            \/ /\ table[t] = "OCCUPIED" => \E o \in here : order[o].status \in Open
               /\ table[t] = "AVAILABLE" => \A o \in here : order[o].status # "SENT"

\* A flag once set stays, although discounts keep a list and refunds an object in
\* one column, and a discount's request meets an object only when it crossed.
FlagsKept ==
    \A f \in flagged : f[1] \notin crossed => f[2] \in order[f[1]].flags

\* Handoffs as a whole.
HandoffsAgree == SplitKept /\ MergeKept /\ TablesFollow /\ FlagsKept

=============================================================================
