-------------------------------- MODULE Devices ---------------------------------
(***************************************************************************)
(* DeviceRegistryService: the devices of a branch, the routes that send    *)
(* work to its printers and the POS a payment terminal is paired to.       *)
(*                                                                         *)
(* A request reads a device, writes by id what it decided on that read,    *)
(* and records it in the device's history with a call of its own.          *)
(***************************************************************************)
EXTENDS Naturals, Sequences, FiniteSets

CONSTANTS
    Printers, Terminals, Posts,     \* the devices, by kind
    Registered,                     \* devices activated earlier
    Stations,                       \* of a route; None is a route for no station
    Requests,                       \* requests in progress at a time
    None,
    MaxRoutes, MaxArrivals, MaxCrashes   \* bounds

VARIABLES
    status,         \* status[d] of the row; "absent" before it is activated
    paired,         \* paired[t]: the POS of a terminal, or None
    live,           \* terminals whose metadata has a pairedAt and no unpairedAt
    routes,         \* the printer_routes rows
    history,        \* history[d]: the steps recorded, <<from, to>>
    retired,        \* devices that were ever RETIRED
    moved,          \* terminals that went from one POS to another at once
    crossed,        \* devices that two requests were at work on at once
    died,           \* devices that a request about them died on
    req,            \* req[r]: the next call, the device, what it is to be and was
    arrived, crashes

rows == <<status, paired, live, routes, history>>
past == <<retired, moved>>
vars == <<rows, past, crossed, died, req, arrived, crashes>>

Devices == Printers \cup Terminals \cup Posts
DeviceStatus == {"ACTIVE", "INACTIVE", "DISABLED", "RETIRED"}
Word == DeviceStatus \cup Posts \cup {"absent", None}    \* in a device's history
PC == {"idle", "name", "create", "status", "find", "insert", "update", "target", "pair", "unpair",
       "auditStatus", "auditPair"}

Idle == [pc |-> "idle", dev |-> None, to |-> None, was |-> None]

TypeOK ==
    /\ status \in [Devices -> DeviceStatus \cup {"absent"}]
    /\ paired \in [Terminals -> Posts \cup {None}] /\ live \subseteq Terminals
    /\ routes \in Seq([printer : Printers, station : Stations \cup {None}, enabled : BOOLEAN])
    /\ Len(routes) <= MaxRoutes
    /\ history \in [Devices -> Seq([of : {"status", "pair"}, from : Word, to : Word])]
    /\ retired \subseteq Devices /\ moved \subseteq Terminals
    /\ crossed \cup died \subseteq Devices
    /\ \A r \in Requests : req[r].pc \in PC /\ req[r].dev \in Devices \cup {None}
    /\ arrived \in 0..MaxArrivals /\ crashes \in 0..MaxCrashes

Init ==
    /\ status = [d \in Devices |-> IF d \in Registered THEN "ACTIVE" ELSE "absent"]
    /\ paired = [t \in Terminals |-> None] /\ live = {}
    /\ routes = <<>>
    /\ history = [d \in Devices |->
                      IF d \in Registered
                      THEN <<[of |-> "status", from |-> "absent", to |-> "ACTIVE"]>> ELSE <<>>]
    /\ retired = {} /\ moved = {} /\ crossed = {} /\ died = {}
    /\ req = [r \in Requests |-> Idle]
    /\ arrived = 0 /\ crashes = 0

-----------------------------------------------------------------------------
(* Building blocks                                                         *)

Start(r, pc, d, to, was) ==
    /\ req[r].pc = "idle"
    /\ arrived < MaxArrivals
    /\ arrived' = arrived + 1
    /\ req' = [req EXCEPT ![r] = [pc |-> pc, dev |-> d, to |-> to, was |-> was]]
    /\ crossed' = IF \E q \in Requests \ {r} : req[q].dev = d THEN crossed \cup {d} ELSE crossed
    /\ UNCHANGED <<rows, past, died, crashes>>

At(r, pc) == req[r].pc = pc /\ UNCHANGED <<crossed, died, arrived, crashes>>
Goto(r, pc) == req' = [req EXCEPT ![r].pc = pc]
Finish(r) == req' = [req EXCEPT ![r] = Idle]

Exists(d) == status[d] # "absent"

-----------------------------------------------------------------------------
(* activateDevice                                                          *)

\* A known activation code is answered with its device.
ActivateRead(r, d) == ~Exists(d) /\ Start(r, "name", d, "ACTIVE", "absent")

\* A device is named after its code here; the name is read on its own.
NameRead(r) ==
    /\ At(r, "name")
    /\ IF Exists(req[r].dev) THEN Finish(r) ELSE Goto(r, "create")
    /\ UNCHANGED <<rows, past>>

\* The unique activationCode and (branchId, name) refuse the second insert.
Create(r) ==
    LET d == req[r].dev IN
    /\ At(r, "create")
    /\ IF Exists(d)
       THEN Finish(r) /\ UNCHANGED rows
       ELSE /\ Goto(r, "auditStatus")
            /\ status' = [status EXCEPT ![d] = "ACTIVE"]
            /\ UNCHANGED <<paired, live, routes, history>>
    /\ UNCHANGED past

-----------------------------------------------------------------------------
(* updateDeviceStatus                                                      *)

\* Mutant: a device that is retired can be taken back.
StatusReadAny(r, d, to) ==
    /\ Exists(d) /\ status[d] # to
    /\ Start(r, "status", d, to, status[d])

\* A status that is as asked is answered at once.
StatusRead(r, d, to) ==
    /\ Exists(d) /\ status[d] \notin {to, "RETIRED"}
    /\ Start(r, "status", d, to, status[d])

WriteStatus(r) ==
    LET d == req[r].dev IN
    /\ At(r, "status")
    /\ status' = [status EXCEPT ![d] = req[r].to]
    /\ retired' = IF req[r].to = "RETIRED" THEN retired \cup {d} ELSE retired
    /\ Goto(r, "auditStatus")
    /\ UNCHANGED <<paired, live, routes, history, moved>>

\* Mutant: the history says what the device was when it is written.
RecordNow(r, pc, of) ==
    /\ At(r, pc)
    /\ history' = [history EXCEPT ![req[r].dev] =
                       Append(@, [of |-> of, to |-> req[r].to,
                                  from |-> IF of = "status" THEN status[req[r].dev] ELSE None])]
    /\ Finish(r)
    /\ UNCHANGED <<status, paired, live, routes, past>>

\* The row of the audit log; that of a pairing has no previous POS.
Record(r, pc, of) ==
    /\ At(r, pc)
    /\ history' = [history EXCEPT ![req[r].dev] =
                       Append(@, [of |-> of, to |-> req[r].to,
                                  from |-> IF of = "pair" /\ req[r].to # None
                                           THEN None ELSE req[r].was])]
    /\ Finish(r)
    /\ UNCHANGED <<status, paired, live, routes, past>>

-----------------------------------------------------------------------------
(* upsertPrinterRoute; what it records is left out                         *)

RouteRead(r, d, station, enabled) ==
    /\ status[d] = "ACTIVE"
    /\ Start(r, "find", d, station, enabled)

RoutesOf(d, station) == {k \in DOMAIN routes : routes[k].printer = d /\ routes[k].station = station}

\* Mutant: the upsert looks by the composite key, which no null matches.
RouteUnique(d, station) == IF station = None THEN {} ELSE RoutesOf(d, station)

RouteFirst(d, station) == RoutesOf(d, station)

FindRoute(r) ==
    /\ At(r, "find")
    /\ \/ \E k \in RouteFirst(req[r].dev, req[r].to) :
              req' = [req EXCEPT ![r].pc = "update", ![r].to = k]
       \/ RouteFirst(req[r].dev, req[r].to) = {} /\ Goto(r, "insert")
    /\ UNCHANGED <<rows, past>>

UpdateRoute(r) ==
    /\ At(r, "update")
    /\ routes' = [routes EXCEPT ![req[r].to].enabled = req[r].was]
    /\ Finish(r)
    /\ UNCHANGED <<status, paired, live, history, past>>

\* The unique (branchId, routeType, station, printerId) refuses an equal route,
\* but no two rows without a station are equal to it.
InsertRoute(r) ==
    LET d == req[r].dev  station == req[r].to IN
    /\ At(r, "insert")
    /\ Len(routes) < MaxRoutes
    /\ routes' = IF station # None /\ RoutesOf(d, station) # {}
                 THEN routes
                 ELSE Append(routes, [printer |-> d, station |-> station, enabled |-> req[r].was])
    /\ Finish(r)
    /\ UNCHANGED <<status, paired, live, history, past>>

-----------------------------------------------------------------------------
(* pairTerminal, unpairTerminal                                            *)

PairRead(r, t, p) == Exists(t) /\ Start(r, "target", t, p, paired[t])

\* A terminal that is paired to another POS must be unpaired first.
TargetRead(r) ==
    /\ At(r, "target")
    /\ IF Exists(req[r].to) /\ req[r].was \in {None, req[r].to}
       THEN Goto(r, "pair") ELSE Finish(r)
    /\ UNCHANGED <<rows, past>>

Pair(r) ==
    LET t == req[r].dev  p == req[r].to IN
    /\ At(r, "pair")
    /\ paired' = [paired EXCEPT ![t] = p]
    /\ live' = live \cup {t}
    /\ moved' = IF paired[t] \in {None, p} THEN moved ELSE moved \cup {t}
    /\ Goto(r, "auditPair")
    /\ UNCHANGED <<status, routes, history, retired>>

UnpairRead(r, t) ==
    /\ Exists(t) /\ paired[t] # None
    /\ Start(r, "unpair", t, None, paired[t])

\* Mutant: the POS is forgotten and the metadata left as it was.
UnpairOnly(r) ==
    /\ At(r, "unpair")
    /\ paired' = [paired EXCEPT ![req[r].dev] = None]
    /\ Goto(r, "auditPair")
    /\ UNCHANGED <<status, live, routes, history, past>>

Unpair(r) ==
    /\ At(r, "unpair")
    /\ paired' = [paired EXCEPT ![req[r].dev] = None]
    /\ live' = live \ {req[r].dev}
    /\ Goto(r, "auditPair")
    /\ UNCHANGED <<status, routes, history, past>>

-----------------------------------------------------------------------------

Crash(r) ==
    /\ req[r].pc # "idle"
    /\ crashes < MaxCrashes
    /\ crashes' = crashes + 1
    /\ req' = [req EXCEPT ![r] = Idle]
    /\ died' = died \cup {req[r].dev}
    /\ UNCHANGED <<rows, past, crossed, arrived>>

Arrive(r) ==
    \/ \E d \in Devices :
           ActivateRead(r, d) \/ \E to \in DeviceStatus : StatusRead(r, d, to)
    \/ \E d \in Printers, station \in Stations \cup {None}, enabled \in BOOLEAN :
           RouteRead(r, d, station, enabled)
    \/ \E t \in Terminals : UnpairRead(r, t) \/ \E p \in Posts : PairRead(r, t, p)

Proceed(r) ==
    \/ NameRead(r) \/ Create(r) \/ WriteStatus(r)
    \/ Record(r, "auditStatus", "status") \/ Record(r, "auditPair", "pair")
    \/ FindRoute(r) \/ UpdateRoute(r) \/ InsertRoute(r)
    \/ TargetRead(r) \/ Pair(r) \/ Unpair(r)

Next == \E r \in Requests : Arrive(r) \/ Proceed(r) \/ Crash(r)

Spec == Init /\ [][Next]_vars

-----------------------------------------------------------------------------
(* What must hold.                                                         *)

\* A device that was retired stays so, unless a change of its status that read
\* it earlier was at work at the same time.
RetiredIsFinal == \A d \in retired \ crossed : status[d] = "RETIRED"

\* One route per printer and station, whatever races; one for no station as long
\* as no two requests about the printer did.
OneRoute ==
    \A d \in Printers, station \in Stations \cup {None} :
        station # None \/ d \notin crossed => Cardinality(RoutesOf(d, station)) <= 1

Steps(d, of) == SelectSeq(history[d], LAMBDA h : h.of = of)

\* The history of a device that no two requests worked on and none died on
\* leads from its activation to what it is, step by step; one at work may have
\* its last step still to record.
HistoryTells ==
    \A d \in Devices \ (crossed \cup died) :
        /\ \A k \in 2..Len(Steps(d, "status")) :
               Steps(d, "status")[k].from = Steps(d, "status")[k - 1].to
        /\ \A k \in 2..Len(Steps(d, "pair")) :
               Steps(d, "pair")[k].to = None =>
                   Steps(d, "pair")[k].from = Steps(d, "pair")[k - 1].to
        /\ (\A r \in Requests : req[r].dev # d) =>
               LET s == Steps(d, "status")  p == Steps(d, "pair") IN
               /\ status[d] = IF s = <<>> THEN "absent" ELSE s[Len(s)].to
               /\ d \in Terminals => paired[d] = IF p = <<>> THEN None ELSE p[Len(p)].to

\* A terminal's metadata tells whether it is paired, whatever races; it goes from
\* one POS to another only by being unpaired, unless requests about it crossed.
PairingAgrees ==
    /\ live = {t \in Terminals : paired[t] # None}
    /\ moved \subseteq crossed

\* The registry as a whole.
DevicesAgree == RetiredIsFinal /\ OneRoute /\ HistoryTells /\ PairingAgrees

=============================================================================
