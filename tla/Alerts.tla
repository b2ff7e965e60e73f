--------------------------------- MODULE Alerts ---------------------------------
(***************************************************************************)
(* AlertsService, DigestService and ChannelDispatcherService: messages sent *)
(* over the channels of an organization, what is kept of each, and their   *)
(* retry.  A message goes out ahead of the row that tells of it; nothing   *)
(* retries by itself, and an update of a channel writes all its fields,    *)
(* the ones that were not asked for as it read them.                       *)
(***************************************************************************)
EXTENDS Naturals, Sequences, FiniteSets, TLC

CONSTANTS
    Channels,       \* created earlier
    Reachable,      \* those with a recipient at first
    DigestOver,     \* the channels of the digest schedule
    Requests,       \* requests in progress at a time
    None,
    MaxTries,       \* maxAttempts of a delivery
    MaxDeliveries, MaxArrivals, MaxCrashes   \* bounds

VARIABLES
    channel,        \* channel[c]: the row, its status and whether its config has a recipient
    deliveries,     \* the alert_deliveries rows, and how often each went out
    runs,           \* the channels of each digest run that was stamped with lastRunAt
    asked,          \* asked[c]: the last value a write was asked to give each field
    intruded,       \* channels a message went out over while they were disabled
    crossed,        \* channels and deliveries that two requests were at work on at once
    died,           \* channels and deliveries that a request about them died on
    req,            \* req[r]: the next call, and what the request read
    arrived, crashes

rows == <<channel, deliveries>>
past == <<runs, asked, intruded>>
vars == <<rows, past, crossed, died, req, arrived, crashes>>

Fields == [status : {"ACTIVE", "DISABLED"}, config : {"good", "bad"}]
Patch == [status : {"ACTIVE", "DISABLED", None}, config : {"good", "bad", None}]
DeliveryStatus == {"SENT", "FAILED", "RETRY_SCHEDULED", "RETRY_EXHAUSTED"}
PC == {"idle", "channels", "send", "insert", "stamp", "update", "again", "save", "exhaust"}

\* seen is what was read of each channel; todo the channels left; tries the
\* attempts read; on the rows the request is about.
Idle == [pc |-> "idle", kind |-> None, seen |-> << >>, todo |-> {}, at |-> None, row |-> 0,
         forced |-> FALSE, status |-> None, tries |-> 0, patch |-> None, on |-> {}]

TypeOK ==
    /\ channel \in [Channels -> Fields] /\ asked \in [Channels -> Fields]
    /\ deliveries \in Seq([channel : Channels, kind : {"test", "digest"}, status : DeliveryStatus,
                           tries : Nat, out : Nat])
    /\ Len(deliveries) <= MaxDeliveries
    /\ runs \in Seq(SUBSET Channels) /\ intruded \subseteq Channels
    /\ \A a \in crossed \cup died : a[1] \in {"channel", "delivery"}
    /\ \A r \in Requests : req[r].pc \in PC /\ req[r].todo \subseteq Channels
    /\ arrived \in 0..MaxArrivals /\ crashes \in 0..MaxCrashes

Init ==
    /\ channel = [c \in Channels |-> [status |-> "ACTIVE",
                                   config |-> IF c \in Reachable THEN "good" ELSE "bad"]]
    /\ asked = channel
    /\ deliveries = <<>> /\ runs = <<>>
    /\ intruded = {} /\ crossed = {} /\ died = {}
    /\ req = [r \in Requests |-> Idle]
    /\ arrived = 0 /\ crashes = 0

-----------------------------------------------------------------------------
(* Building blocks                                                         *)

OnChannels(C) == {<<"channel", c>> : c \in C}

Start(r, on, rec) ==
    /\ req[r].pc = "idle"
    /\ arrived < MaxArrivals
    /\ arrived' = arrived + 1
    /\ req' = [req EXCEPT ![r] = rec @@ [on |-> on] @@ Idle]
    /\ crossed' = crossed \cup {a \in on : \E q \in Requests \ {r} : a \in req[q].on}
    /\ UNCHANGED <<rows, past, died, crashes>>

At(r, pc) == req[r].pc = pc /\ UNCHANGED <<crossed, died, arrived, crashes>>
Finish(r) == req' = [req EXCEPT ![r] = Idle]

-----------------------------------------------------------------------------
(* The dispatcher                                                          *)

\* Mutant: the status of the channel is not looked at.
DispatchAnyChannel(seen, forced) ==
    IF forced THEN "retry" ELSE IF seen.config = "good" THEN "ok" ELSE "failed"

\* A forced failure comes ahead of the recipient, a disabled channel ahead of both.
Dispatch(seen, forced) ==
    CASE seen.status # "ACTIVE" -> "failed"
      [] seen.status = "ACTIVE" /\ forced -> "retry"
      [] OTHER -> IF seen.config = "good" THEN "ok" ELSE "failed"

\* A message that goes out over c.
Went(c, outcome) ==
    intruded' = IF outcome = "ok" /\ channel[c].status = "DISABLED"
                THEN intruded \cup {c} ELSE intruded

-----------------------------------------------------------------------------
(* sendTestAlert, runDigest                                                *)

TestRead(r, C, forced) ==
    Start(r, OnChannels(C), [pc |-> "send", kind |-> "test", todo |-> C, forced |-> forced,
                             seen |-> [c \in C |-> channel[c]]])

\* The schedule and its sections.
DigestRead(r) ==
    Start(r, OnChannels(DigestOver), [pc |-> "channels", kind |-> "digest"])

DigestChannels(r) ==
    LET C == {c \in DigestOver : channel[c].status = "ACTIVE"} IN
    /\ At(r, "channels")
    /\ req' = [req EXCEPT ![r].pc = IF C = {} THEN "stamp" ELSE "send", ![r].todo = C,
                          ![r].seen = [c \in C |-> channel[c]]]
    /\ UNCHANGED <<rows, past>>

Send(r) ==
    /\ At(r, "send")
    /\ \E c \in req[r].todo :
           LET outcome == Dispatch(req[r].seen[c], req[r].forced) IN
           /\ Went(c, outcome)
           /\ req' = [req EXCEPT ![r].pc = "insert", ![r].at = c,
                          ![r].status = CASE outcome = "ok" -> "SENT"
                                          [] outcome = "retry" -> "RETRY_SCHEDULED"
                                          [] outcome = "failed" -> "FAILED"]
    /\ UNCHANGED <<rows, runs, asked>>

\* Where the loop goes from a channel.
NextChannel(r, todo) ==
    IF todo = {} /\ req[r].kind = "test" THEN Finish(r)
    ELSE req' = [req EXCEPT ![r].todo = todo, ![r].at = None, ![r].status = None,
                            ![r].pc = IF todo = {} THEN "stamp" ELSE "send"]

\* Mutant: only what went out is kept.
InsertSent(r) ==
    LET c == req[r].at IN
    /\ At(r, "insert")
    /\ Len(deliveries) < MaxDeliveries
    /\ deliveries' = IF req[r].status = "SENT"
                     THEN Append(deliveries, [channel |-> c, kind |-> req[r].kind, status |-> "SENT",
                                              tries |-> 1, out |-> 1])
                     ELSE deliveries
    /\ NextChannel(r, req[r].todo \ {c})
    /\ UNCHANGED <<channel, past>>

Insert(r) ==
    LET c == req[r].at IN
    /\ At(r, "insert")
    /\ Len(deliveries) < MaxDeliveries
    /\ deliveries' = Append(deliveries,
                            [channel |-> c, kind |-> req[r].kind, status |-> req[r].status, tries |-> 1,
                             out |-> IF req[r].status = "SENT" THEN 1 ELSE 0])
    /\ NextChannel(r, req[r].todo \ {c})
    /\ UNCHANGED <<channel, past>>

\* lastRunAt and nextRunAt.
Stamp(r) ==
    /\ At(r, "stamp")
    /\ runs' = Append(runs, DOMAIN req[r].seen)
    /\ Finish(r)
    /\ UNCHANGED <<rows, asked, intruded>>

-----------------------------------------------------------------------------
(* retryDelivery                                                           *)

\* Mutant: one attempt too many.
AllTries(d) == d.tries > MaxTries

TriesUsed(d) == d.tries >= MaxTries

\* Mutant: a delivery that went out is sent again.
RetryReadAny(r, k) ==
    LET c == deliveries[k].channel IN
    Start(r, {<<"delivery", k>>, <<"channel", c>>},
          [pc |-> IF TriesUsed(deliveries[k]) THEN "exhaust" ELSE "again", at |-> c,
           row |-> k, tries |-> deliveries[k].tries, seen |-> c :> channel[c]])

\* The delivery with its channel.
RetryRead(r, k) ==
    LET c == deliveries[k].channel IN
    /\ deliveries[k].status # "SENT"
    /\ Start(r, {<<"delivery", k>>, <<"channel", c>>},
             [pc |-> IF TriesUsed(deliveries[k]) THEN "exhaust" ELSE "again", at |-> c,
              row |-> k, tries |-> deliveries[k].tries, seen |-> c :> channel[c]])

Exhaust(r) ==
    /\ At(r, "exhaust")
    /\ deliveries' = [deliveries EXCEPT ![req[r].row].status = "RETRY_EXHAUSTED"]
    /\ Finish(r)
    /\ UNCHANGED <<channel, past>>

\* Nothing forces a failure here, so none is retryable.
Again(r) ==
    LET c == req[r].at  k == req[r].row  outcome == Dispatch(req[r].seen[c], FALSE) IN
    /\ At(r, "again")
    /\ Went(c, outcome)
    /\ deliveries' = [deliveries EXCEPT ![k].out = IF outcome = "ok" THEN @ + 1 ELSE @]
    /\ req' = [req EXCEPT ![r].pc = "save", ![r].status = IF outcome = "ok" THEN "SENT" ELSE "FAILED"]
    /\ UNCHANGED <<channel, runs, asked>>

\* The attempt counts from the one that was read.
Save(r) ==
    /\ At(r, "save")
    /\ deliveries' = [deliveries EXCEPT ![req[r].row].status = req[r].status,
                                        ![req[r].row].tries = req[r].tries + 1]
    /\ Finish(r)
    /\ UNCHANGED <<channel, past>>

-----------------------------------------------------------------------------
(* updateChannel                                                           *)

Or(asks, old) == IF asks = None THEN old ELSE asks

UpdateRead(r, c, p) ==
    Start(r, OnChannels({c}), [pc |-> "update", at |-> c, patch |-> p, seen |-> c :> channel[c]])

\* Mutant: a field that was not asked for is reset.
MergedDefault(old, p) == [status |-> Or(p.status, "ACTIVE"), config |-> Or(p.config, old.config)]

Merged(old, p) == [status |-> Or(p.status, old.status), config |-> Or(p.config, old.config)]

Update(r) ==
    LET c == req[r].at  p == req[r].patch IN
    /\ At(r, "update")
    /\ channel' = [channel EXCEPT ![c] = Merged(req[r].seen[c], p)]
    /\ asked' = [asked EXCEPT ![c] = [status |-> Or(p.status, @.status),
                                      config |-> Or(p.config, @.config)]]
    /\ Finish(r)
    /\ UNCHANGED <<deliveries, runs, intruded>>

-----------------------------------------------------------------------------

Crash(r) ==
    /\ req[r].pc # "idle"
    /\ crashes < MaxCrashes
    /\ crashes' = crashes + 1
    /\ req' = [req EXCEPT ![r] = Idle]
    /\ died' = died \cup req[r].on
    /\ UNCHANGED <<rows, past, crossed, arrived>>

Arrive(r) ==
    \/ \E C \in SUBSET Channels \ {{}}, forced \in BOOLEAN : TestRead(r, C, forced)
    \/ DigestRead(r)
    \/ \E k \in DOMAIN deliveries : RetryRead(r, k)
    \/ \E c \in Channels, p \in Patch : UpdateRead(r, c, p)

Proceed(r) ==
    \/ DigestChannels(r) \/ Send(r) \/ Insert(r) \/ Stamp(r)
    \/ Exhaust(r) \/ Again(r) \/ Save(r) \/ Update(r)

Next == \E r \in Requests : Arrive(r) \/ Proceed(r) \/ Crash(r)

Spec == Init /\ [][Next]_vars

-----------------------------------------------------------------------------
(* What must hold.                                                         *)

\* A delivery that reads SENT went out, unless retries of it crossed; one that no
\* two retries worked on and none died on went out once if it reads SENT, and
\* not at all if it reads anything else.
SentOnce ==
    \A k \in DOMAIN deliveries :
        LET d == deliveries[k] IN
        /\ d.status = "SENT" => d.out > 0
        /\ <<"delivery", k>> \notin crossed \cup died /\ (\A r \in Requests : req[r].row # k) =>
               d.out = IF d.status = "SENT" THEN 1 ELSE 0

\* Retries never pass maxAttempts, whatever races, what is scheduled to be retried
\* can be, and what reads RETRY_EXHAUSTED used all of its attempts unless two
\* retries of it crossed.
TriesBounded ==
    \A k \in DOMAIN deliveries :
        LET d == deliveries[k] IN
        /\ d.tries <= MaxTries
        /\ d.status = "RETRY_SCHEDULED" => d.tries < MaxTries
        /\ d.status = "RETRY_EXHAUSTED" /\ <<"delivery", k>> \notin crossed => d.tries = MaxTries

\* A digest is stamped only after each channel it read has a delivery of it.
DigestDelivered ==
    \A c \in Channels :
        Cardinality({n \in DOMAIN runs : c \in runs[n]})
            <= Cardinality({k \in DOMAIN deliveries :
                                deliveries[k].channel = c /\ deliveries[k].kind = "digest"})

\* The fields of a channel are as they were last asked to be, and nothing goes
\* out over one that is disabled, unless requests about it crossed.
ChannelsAgree ==
    \A c \in Channels :
        <<"channel", c>> \notin crossed => channel[c] = asked[c] /\ c \notin intruded

\* The alerts as a whole.
AlertsAgree == SentOnce /\ TriesBounded /\ DigestDelivered /\ ChannelsAgree

=============================================================================
