----------------------------- MODULE Idempotency ----------------------------
(***************************************************************************)
(* The write guard of the API: Bg3ReliabilityService.guard around          *)
(* IdempotencyService.wrap, and the idempotency_keys table both share.     *)
(*                                                                         *)
(* Requests run side by side.  Each await of a database call is a step of  *)
(* its own, so two requests with one key can both look the key up before   *)
(* either of them inserts it.  A request can also be lost between any two  *)
(* steps, when the process that serves it dies.  The wrapped handler is    *)
(* one step that may take effect, and may fail before or after it did.     *)
(***************************************************************************)
EXTENDS Naturals, FiniteSets

CONSTANTS
    Clients,        \* requests that can be in progress at a time
    Keys,           \* values of (scope, key, routeMethod, routePath)
    Payloads,       \* request fingerprints
    NoPayload,      \* hash of a row that does not exist
    MaxSends,       \* bound: requests received over a behaviour
    MaxCrashes      \* bound: requests lost to a crash

ASSUME KeysAssumption == Keys # {} /\ Payloads # {}
ASSUME NoPayloadAssumption == NoPayload \notin Payloads
ASSUME BoundsAssumption == MaxSends \in Nat /\ MaxCrashes \in Nat

VARIABLES
    row,        \* row[k]: status and requestHash of k's idempotency_keys row
    req,        \* req[c]: where request c is, with its key and payload
    effects,    \* effects[k]: how often the handler of k took effect
    told,       \* the answers with status 200: key, payload and kind of body
    window,     \* TRUE while an ACTIVE window blocks the write's category
    sent,       \* how many requests were received
    crashes     \* how many were lost

vars == <<row, req, effects, told, window, sent, crashes>>

RowStatus == {"ABSENT", "IN_FLIGHT", "SUCCEEDED", "FAILED"}

\* The database call, or handler run, that a request makes next.
PC == {"idle", "lookup", "create", "run", "succeed", "fail"}

\* The body of an answer: the handler's own result, or no body at all.
Bodies == {"result", "null"}

TypeOK ==
    /\ row \in [Keys -> [status : RowStatus, hash : Payloads \cup {NoPayload}]]
    /\ req \in [Clients -> [pc : PC, key : Keys, payload : Payloads]]
    /\ effects \in [Keys -> Nat]
    /\ told \in SUBSET [key : Keys, payload : Payloads, body : Bodies]
    /\ window \in BOOLEAN
    /\ sent \in Nat
    /\ crashes \in Nat

Init ==
    /\ row = [k \in Keys |-> [status |-> "ABSENT", hash |-> NoPayload]]
    /\ req = [c \in Clients |-> [pc |-> "idle", key |-> CHOOSE k \in Keys : TRUE,
                                 payload |-> CHOOSE p \in Payloads : TRUE]]
    /\ effects = [k \in Keys |-> 0]
    /\ told = {}
    /\ window = FALSE
    /\ sent = 0
    /\ crashes = 0

-----------------------------------------------------------------------------
(* One request, step by step.                                              *)

\* Request c is at step p and moves to step q.
Step(c, p, q) ==
    /\ req[c].pc = p
    /\ req' = [req EXCEPT ![c].pc = q]

\* Mutant: the answer carries the status of the row for a body.
AnswerUntyped(c, body) ==
    told' = told \cup {[key |-> req[c].key, payload |-> req[c].payload,
                        body |-> row[req[c].key].status]}

\* c returns with status 200 and the given body.
Answer(c, body) ==
    told' = told \cup
        {[key |-> req[c].key, payload |-> req[c].payload, body |-> body]}

\* A request with an Idempotency-Key arrives (a retry is one more request)
\* and no maintenance window blocks its category.
Receive(c, k, p) ==
    /\ req[c].pc = "idle"
    /\ sent < MaxSends
    /\ ~window
    /\ req' = [req EXCEPT ![c] = [pc |-> "lookup", key |-> k, payload |-> p]]
    /\ sent' = sent + 1
    /\ UNCHANGED <<row, effects, told, window, crashes>>

\* begin: no row yet, so the request will try to insert one.
LookupMiss(c) ==
    /\ row[req[c].key].status = "ABSENT"
    /\ Step(c, "lookup", "create")
    /\ UNCHANGED <<row, effects, told, window, sent, crashes>>

\* begin: a row with another fingerprint, or one still in flight: 409.
LookupRefused(c) ==
    /\ row[req[c].key].status # "ABSENT"
    /\ \/ row[req[c].key].hash # req[c].payload
       \/ row[req[c].key].status = "IN_FLIGHT"
    /\ Step(c, "lookup", "idle")
    /\ UNCHANGED <<row, effects, told, window, sent, crashes>>

\* Mutant: begin forgets to compare the fingerprint before it replays.
ReplayAnyPayload(c) ==
    /\ row[req[c].key].status \in {"SUCCEEDED", "FAILED"}
    /\ Step(c, "lookup", "idle")
    /\ Answer(c, IF row[req[c].key].status = "SUCCEEDED" THEN "result" ELSE "null")
    /\ UNCHANGED <<row, effects, window, sent, crashes>>

\* begin: a finished row of the same fingerprint is replayed.  A SUCCEEDED
\* row holds the response; a FAILED row was completed without one, and wrap
\* returns null for it.
Replay(c) ==
    /\ row[req[c].key].status \in {"SUCCEEDED", "FAILED"}
    /\ row[req[c].key].hash = req[c].payload
    /\ Step(c, "lookup", "idle")
    /\ Answer(c, IF row[req[c].key].status = "SUCCEEDED" THEN "result" ELSE "null")
    /\ UNCHANGED <<row, effects, window, sent, crashes>>

\* Mutant: the insert is an upsert, so a racing request passes too.
CreateUpserts(c) ==
    /\ Step(c, "create", "run")
    /\ row' = [row EXCEPT ![req[c].key] =
                   [status |-> "IN_FLIGHT", hash |-> req[c].payload]]
    /\ UNCHANGED <<effects, told, window, sent, crashes>>

\* Mutant: the row is inserted as finished, ahead of the handler.
CreateAsDone(c) ==
    /\ row[req[c].key].status = "ABSENT"
    /\ Step(c, "create", "run")
    /\ row' = [row EXCEPT ![req[c].key] =
                   [status |-> "SUCCEEDED", hash |-> req[c].payload]]
    /\ UNCHANGED <<effects, told, window, sent, crashes>>

\* begin: the insert.  The unique index on (scope, key, method, path) lets
\* one of two racing inserts through, the other request fails.
Create(c) ==
    /\ row[req[c].key].status = "ABSENT"
    /\ Step(c, "create", "run")
    /\ row' = [row EXCEPT ![req[c].key] =
                   [status |-> "IN_FLIGHT", hash |-> req[c].payload]]
    /\ UNCHANGED <<effects, told, window, sent, crashes>>

CreateRefused(c) ==
    /\ row[req[c].key].status # "ABSENT"
    /\ Step(c, "create", "idle")
    /\ UNCHANGED <<row, effects, told, window, sent, crashes>>

\* The handler returns: its write took effect.
HandlerReturns(c) ==
    /\ Step(c, "run", "succeed")
    /\ effects' = [effects EXCEPT ![req[c].key] = @ + 1]
    /\ UNCHANGED <<row, told, window, sent, crashes>>

\* The handler throws, before its write or after it (a failing audit call
\* follows most writes).
HandlerThrows(c) ==
    /\ Step(c, "run", "fail")
    /\ \/ UNCHANGED effects
       \/ effects' = [effects EXCEPT ![req[c].key] = @ + 1]
    /\ UNCHANGED <<row, told, window, sent, crashes>>

\* complete: the row is SUCCEEDED with the response, and the caller gets it.
Complete(c) ==
    /\ Step(c, "succeed", "idle")
    /\ row' = [row EXCEPT ![req[c].key].status = "SUCCEEDED"]
    /\ Answer(c, "result")
    /\ UNCHANGED <<effects, window, sent, crashes>>

\* complete itself throws: wrap's catch turns the request into a failed one.
CompleteThrows(c) ==
    /\ Step(c, "succeed", "fail")
    /\ UNCHANGED <<row, effects, told, window, sent, crashes>>

\* Mutant: the catch of wrap rethrows without completing the row.
CompleteFailedForgotten(c) ==
    /\ Step(c, "fail", "idle")
    /\ UNCHANGED <<row, effects, told, window, sent, crashes>>

\* complete with failed = true; the error goes to the caller.
CompleteFailed(c) ==
    /\ Step(c, "fail", "idle")
    /\ row' = [row EXCEPT ![req[c].key].status = "FAILED"]
    /\ UNCHANGED <<effects, told, window, sent, crashes>>

-----------------------------------------------------------------------------
(* The environment.                                                        *)

\* The process that serves c dies, or a database call throws where wrap has
\* no catch left: the request is gone, its row is not.
Crash(c) ==
    /\ req[c].pc # "idle"
    /\ crashes < MaxCrashes
    /\ req' = [req EXCEPT ![c].pc = "idle"]
    /\ crashes' = crashes + 1
    /\ UNCHANGED <<row, effects, told, window, sent>>

\* The control plane activates or ends a window that blocks the category.
ToggleWindow ==
    /\ window' = ~window
    /\ UNCHANGED <<row, req, effects, told, sent, crashes>>

\* What request c does once it has been received.
Proceed(c) ==
    \/ LookupMiss(c) \/ LookupRefused(c) \/ Replay(c)
    \/ Create(c) \/ CreateRefused(c)
    \/ HandlerReturns(c) \/ HandlerThrows(c)
    \/ Complete(c) \/ CompleteThrows(c) \/ CompleteFailed(c)

Next ==
    \/ \E c \in Clients, k \in Keys, p \in Payloads : Receive(c, k, p)
    \/ \E c \in Clients : Proceed(c)
    \/ \E c \in Clients : Crash(c)
    \/ ToggleWindow

\* A request the process is serving keeps going: Node runs the continuation
\* of every await that settles.  Nothing obliges a client to send, a process
\* to crash or an operator to open a window.
Fairness == \A c \in Clients : WF_vars(Proceed(c))

Spec == Init /\ [][Next]_vars /\ Fairness

-----------------------------------------------------------------------------
(* What must hold.                                                         *)

\* The steps at which a request holds the row it inserted and has not yet
\* finished it.
Owning == {"run", "succeed", "fail"}

\* The write behind a key takes effect at most once, whatever is retried,
\* raced, failed or lost: the unique insert in begin elects one request, and
\* no path of wrap leads back from a finished row to the handler.
AtMostOneEffect == \A k \in Keys : effects[k] <= 1

\* At most one request is between its insert and the completion of a key,
\* and the row stays IN_FLIGHT for as long as it is: nobody replays a row
\* whose handler may still run.
OneOwner ==
    /\ \A c, d \in Clients :
           req[c].pc \in Owning /\ req[d].pc \in Owning /\ req[c].key = req[d].key
               => c = d
    /\ \A c \in Clients :
           req[c].pc \in Owning => row[req[c].key].status = "IN_FLIGHT"

\* The guard implements AtMostOnce: the row's hash is the bound payload, and
\* the callers told the result are those answered with the handler's body.
Promise == INSTANCE AtMostOnce WITH
    bound <- [k \in Keys |-> row[k].hash],
    runs  <- effects,
    told  <- {<<t.key, t.payload>> : t \in {u \in told : u.body = "result"}}

ImplementsAtMostOnce == Promise!ASpec

\* A key never stays IN_FLIGHT, answering 409 to every retry, unless a
\* request was lost: every path through wrap ends in a complete.
InFlightResolves ==
    \A k \in Keys :
        row[k].status = "IN_FLIGHT" ~> (row[k].status # "IN_FLIGHT" \/ crashes > 0)

\* "replay the original response on a safe repeat" (wrap): whoever gets a
\* 200 for a key can rely on the key's write having taken effect.
SuccessMeansEffect == \A t \in told : effects[t.key] = 1

=============================================================================
