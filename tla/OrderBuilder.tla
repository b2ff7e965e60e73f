------------------------------ MODULE OrderBuilder ------------------------------
(***************************************************************************)
(* WaiterOrderBuilderScreen on a table without an order: the order is made *)
(* as the screen opens, and items can be chosen while it is.  Every call   *)
(* is asynchronous.  A line is shown as pending until its call answers, a  *)
(* choice whose order could not be made is kept and tried again, and each  *)
(* success asks for the whole order again, of which several answers may be *)
(* on their way at once.  A call that gets no answer in time is given up;  *)
(* the server may still apply it.                                          *)
(*                                                                         *)
(* One person, and nobody else on the order.                               *)
(***************************************************************************)
EXTENDS Naturals, Sequences, FiniteSets

Q == INSTANCE SequencesExt

CONSTANTS
    Picks,        \* items picked from the menu, each its own
    None,
    MaxQuantity, MaxRefreshes, MaxActs, MaxTimeouts   \* bounds

VARIABLES
    created,        \* orders the server made for this screen
    order,          \* the screen's order at the server: its status and its lines
    creation,       \* createOrderMutation
    choice,         \* choice[c]: how far addMutation is with it
    screen,         \* the cached order: its status, lines and pending lines
    queued,         \* queuedAddPayload
    latest,         \* what addMutation was last called with; None after a reset
    editing,        \* the line in the configurator
    call,           \* call[k]: the update, delete or send under way
    refreshes,      \* refreshCanonicalOrder calls under way, in the order of their start
    abandoned,      \* calls given up that the server has yet to see
    made,           \* made[c]: how often the server inserted a line for c
    replaced,       \* kept choices that another took the place of
    timedOut,       \* calls that were given up
    unsure,         \* the screen may differ from the server
    acts

server == <<created, order>>
client == <<creation, choice, screen, queued, latest, editing, call, refreshes>>
past == <<made, replaced, timedOut>>
vars == <<server, client, abandoned, past, unsure, acts>>

Lines == [Picks -> 0..MaxQuantity]      \* the quantity; 0 where there is no line
CallKinds == {"update", "delete", "send"}
NoCall == [at |-> "idle", line |-> None, quantity |-> 0]

TypeOK ==
    /\ created \in Nat
    /\ order \in [status : {"NEW", "SENT"}, line : Lines]
    /\ creation \in {"called", "applied", "error", "done"}
    /\ choice \in [Picks -> {"free", "choosing", "waiting", "sent", "applied", "kept", "failed", "made"}]
    /\ screen \in [status : {"NEW", "SENT"}, line : Lines, pending : SUBSET Picks]
    /\ {queued, latest, editing} \subseteq Picks \cup {None}
    /\ call \in [CallKinds -> [at : {"idle", "sent", "applied"}, line : Picks \cup {None},
                           quantity : 0..MaxQuantity]]
    /\ Len(refreshes) <= MaxRefreshes
    /\ \A k \in DOMAIN refreshes :
           refreshes[k] \in [read : BOOLEAN, old : BOOLEAN, status : {"NEW", "SENT"}, line : Lines]
    /\ abandoned \subseteq timedOut
    /\ made \in [Picks -> Nat] /\ replaced \subseteq Picks /\ unsure \in BOOLEAN
    /\ acts \in 0..MaxActs

\* The screen starts the order as it opens.
Init ==
    /\ created = 0
    /\ order = [status |-> "NEW", line |-> [c \in Picks |-> 0]]
    /\ creation = "called"
    /\ choice = [c \in Picks |-> "free"]
    /\ screen = [status |-> "NEW", line |-> order.line, pending |-> {}]
    /\ queued = None /\ latest = None /\ editing = None
    /\ call = [k \in CallKinds |-> NoCall]
    /\ refreshes = <<>> /\ abandoned = {}
    /\ made = [c \in Picks |-> 0] /\ replaced = {} /\ timedOut = {} /\ unsure = FALSE
    /\ acts = 0

-----------------------------------------------------------------------------
(* What the screen allows                                                  *)

Resolved == creation = "done"
InFlight(c) == choice[c] \in {"waiting", "sent", "applied"}
AddPending == latest # None /\ InFlight(latest)
AddIsError == latest # None /\ choice[latest] \in {"kept", "failed"}

\* writeDisabledReason, during a shift.
CanEdit == creation # "error" /\ (Resolved => screen.status = "NEW")

Act == acts < MaxActs /\ acts' = acts + 1
NoAct == UNCHANGED acts

\* refreshCanonicalOrder: what was read is written to the cache, whatever else was
\* written since.
AskAgain ==
    /\ Len(refreshes) < MaxRefreshes
    /\ refreshes' = Append(refreshes, [read |-> FALSE, old |-> FALSE, status |-> order.status,
                                       line |-> order.line])

\* The calls under way are no longer a sign that the screen is up to date.
Outdated(seq, n) == [k \in DOMAIN seq |-> IF k <= n THEN [seq[k] EXCEPT !.old = TRUE] ELSE seq[k]]

-----------------------------------------------------------------------------
(* The order                                                               *)

ApplyCreation ==
    /\ creation = "called"
    /\ creation' = "applied" /\ created' = created + 1
    /\ NoAct /\ UNCHANGED <<order, choice, screen, queued, latest, editing, call, refreshes,
                            abandoned, past, unsure>>

\* The items that waited for the order are added to it.
CreationDone ==
    /\ creation = "applied"
    /\ creation' = "done"
    /\ choice' = [c \in Picks |-> IF choice[c] = "waiting" THEN "sent" ELSE choice[c]]
    /\ NoAct /\ UNCHANGED <<server, screen, queued, latest, editing, call, refreshes,
                            abandoned, past, unsure>>

\* Mutant: what waited is forgotten.
CreationFailsCleared ==
    /\ creation' = "error"
    /\ choice' = [c \in Picks |-> IF choice[c] = "waiting" THEN "kept" ELSE choice[c]]
    /\ queued' = None
    /\ NoAct /\ UNCHANGED <<server, screen, latest, editing, call, refreshes, made, replaced, unsure>>

\* Those that waited fail with it, and the last one stays queued.
CreationFails ==
    /\ creation' = "error"
    /\ choice' = [c \in Picks |-> IF choice[c] = "waiting" THEN "kept" ELSE choice[c]]
    /\ NoAct /\ UNCHANGED <<server, screen, queued, latest, editing, call, refreshes,
                            made, replaced, unsure>>

CreationRefused == creation = "called" /\ CreationFails /\ UNCHANGED <<abandoned, timedOut>>

\* Mutant: the order can be asked for again while it is being made.
RetryCreationAny ==
    /\ creation \in {"error", "applied"}
    /\ Act
    /\ creation' = "called"
    /\ UNCHANGED <<server, choice, screen, queued, latest, editing, call, refreshes,
                   abandoned, past, unsure>>

RetryCreation ==
    /\ creation = "error"
    /\ Act
    /\ creation' = "called"
    /\ UNCHANGED <<server, choice, screen, queued, latest, editing, call, refreshes,
                   abandoned, past, unsure>>

-----------------------------------------------------------------------------
(* Adding an item                                                          *)

\* A tile, whose configuration is loaded and, if it has options, asked for.
Choose(c) ==
    /\ choice[c] = "free"
    /\ CanEdit /\ ~AddPending /\ editing = None
    /\ \A d \in Picks : choice[d] # "choosing"
    /\ Act
    /\ choice' = [choice EXCEPT ![c] = "choosing"]
    /\ UNCHANGED <<server, creation, screen, queued, latest, editing, call, refreshes,
                   abandoned, past, unsure>>

\* addMutation.mutate: a line is shown at once if the order is known; without an
\* order the call waits for it, or shares its failure.
Mutate(c) ==
    /\ latest' = c
    /\ choice' = [choice EXCEPT ![c] = CASE Resolved -> "sent"
                                         [] creation = "error" -> "kept"
                                         [] OTHER -> "waiting"]
    /\ screen' = [screen EXCEPT !.pending = IF Resolved THEN @ \cup {c} ELSE @]
    /\ editing' = IF Resolved THEN None ELSE editing

\* The choice stands, however long ago it was made; it takes the place of one kept.
Submit(c) ==
    /\ choice[c] = "choosing"
    /\ queued' = c
    /\ replaced' = IF queued # None /\ choice[queued] = "kept" THEN replaced \cup {queued} ELSE replaced
    /\ Mutate(c)
    /\ NoAct /\ UNCHANGED <<server, creation, call, refreshes, abandoned, made, timedOut, unsure>>

\* Closed, unavailable, or its configuration did not load.
GiveUp(c) ==
    /\ choice[c] = "choosing"
    /\ choice' = [choice EXCEPT ![c] = "failed"]
    /\ NoAct /\ UNCHANGED <<server, creation, screen, queued, latest, editing, call, refreshes,
                            abandoned, past, unsure>>

\* The effect that sends what was kept once there is an order.
RetryQueued ==
    /\ Resolved /\ queued # None /\ AddIsError
    /\ Mutate(queued)
    /\ NoAct /\ UNCHANGED <<server, creation, queued, call, refreshes, abandoned, past, unsure>>

InsertLine(c) ==
    /\ order' = [order EXCEPT !.line[c] = 1]
    /\ made' = [made EXCEPT ![c] = @ + 1]

ApplyAdd(c) ==
    /\ choice[c] = "sent"
    /\ InsertLine(c)
    /\ choice' = [choice EXCEPT ![c] = "applied"]
    /\ NoAct /\ UNCHANGED <<created, creation, screen, queued, latest, editing, call, refreshes,
                            abandoned, replaced, timedOut, unsure>>

AddDone(c) ==
    /\ choice[c] = "applied"
    /\ choice' = [choice EXCEPT ![c] = "made"]
    /\ screen' = [screen EXCEPT !.pending = @ \ {c}, !.line[c] = 1]
    /\ AskAgain
    /\ queued' = None /\ editing' = None
    /\ NoAct /\ UNCHANGED <<server, creation, latest, call, abandoned, past, unsure>>

\* Mutant: what failed stays queued.
AddFailsKept(c) ==
    /\ choice' = [choice EXCEPT ![c] = IF Resolved THEN "failed" ELSE "kept"]
    /\ screen' = [screen EXCEPT !.pending = @ \ {c}]
    /\ UNCHANGED queued

\* Mutant: the pending line is left.
AddFailsShown(c) ==
    /\ choice' = [choice EXCEPT ![c] = IF Resolved THEN "failed" ELSE "kept"]
    /\ queued' = IF Resolved THEN None ELSE queued
    /\ UNCHANGED screen

\* With an order there is nothing left to wait for: what failed is not kept.
AddFails(c) ==
    /\ choice' = [choice EXCEPT ![c] = IF Resolved THEN "failed" ELSE "kept"]
    /\ screen' = [screen EXCEPT !.pending = @ \ {c}]
    /\ queued' = IF Resolved THEN None ELSE queued

AddRefused(c) ==
    /\ choice[c] = "sent"
    /\ AddFails(c)
    /\ NoAct /\ UNCHANGED <<server, creation, latest, editing, call, refreshes, abandoned, past, unsure>>

-----------------------------------------------------------------------------
(* Changing and removing a line, sending the order                         *)

\* A line on the screen is opened; it stays open when the order is sent.  A
\* pending line can be opened too, but the server knows none of its name.
Edit(c) ==
    /\ Resolved /\ CanEdit /\ screen.line[c] > 0
    /\ editing = None /\ \A d \in Picks : choice[d] # "choosing"
    /\ Act
    /\ editing' = c
    /\ UNCHANGED <<server, creation, choice, screen, queued, latest, call, refreshes,
                   abandoned, past, unsure>>

\* Only Remove can be confirmed while an item is being saved.
CallLine(kind) ==
    /\ editing # None /\ call["delete"].at = "idle"
    /\ kind = "update" => ~AddPending /\ call["update"].at = "idle"
    /\ \E q \in IF kind = "update" THEN 1..MaxQuantity ELSE {0} :
           call' = [call EXCEPT ![kind] = [at |-> "sent", line |-> editing, quantity |-> q]]
    /\ NoAct /\ UNCHANGED <<server, creation, choice, screen, queued, latest, editing, refreshes,
                            abandoned, past, unsure>>

\* A pending line counts as an item.
Send ==
    /\ Resolved /\ screen.status = "NEW"
    /\ screen.pending # {} \/ \E c \in Picks : screen.line[c] > 0
    /\ call["send"].at = "idle"
    /\ Act
    /\ call' = [call EXCEPT !["send"].at = "sent"]
    /\ UNCHANGED <<server, creation, choice, screen, queued, latest, editing, refreshes,
                   abandoned, past, unsure>>

\* The server's part: a line that is gone and an order that was sent are refused.
Serve(kind, rec) ==
    /\ IF kind = "send" THEN order.status = "NEW" ELSE order.line[rec.line] > 0
    /\ order' = IF kind = "send" THEN [order EXCEPT !.status = "SENT"]
                ELSE [order EXCEPT !.line[rec.line] = rec.quantity]

ApplyCall(kind) ==
    /\ call[kind].at = "sent"
    /\ Serve(kind, call[kind])
    /\ call' = [call EXCEPT ![kind].at = "applied"]
    /\ NoAct /\ UNCHANGED <<created, creation, choice, screen, queued, latest, editing, refreshes,
                            abandoned, past, unsure>>

\* writeOrderItemSnapshot, mergeOrderSnapshot: the answer to a send has no lines.
Shown(kind) ==
    LET c == call[kind].line IN
    IF kind = "send" THEN [screen EXCEPT !.status = "SENT"]
    ELSE [screen EXCEPT !.line[c] = IF @ > 0 THEN call[kind].quantity ELSE 0]

CallDone(kind) ==
    /\ call[kind].at = "applied"
    /\ screen' = Shown(kind)
    /\ AskAgain
    /\ call' = [call EXCEPT ![kind] = NoCall]
    /\ editing' = IF kind = "send" THEN editing ELSE None
    /\ NoAct /\ UNCHANGED <<server, creation, choice, queued, latest, abandoned, past, unsure>>

CallRefused(kind) ==
    /\ call[kind].at = "sent"
    /\ call' = [call EXCEPT ![kind] = NoCall]
    /\ NoAct /\ UNCHANGED <<server, creation, choice, screen, queued, latest, editing, refreshes,
                            abandoned, past, unsure>>

CloseConfigurator ==
    /\ editing # None
    /\ editing' = None
    /\ NoAct /\ UNCHANGED <<server, creation, choice, screen, queued, latest, call, refreshes,
                            abandoned, past, unsure>>

-----------------------------------------------------------------------------
(* The answers to a refresh                                                *)

ReadOrder(k) ==
    /\ ~refreshes[k].read
    /\ refreshes' = [refreshes EXCEPT ![k].read = TRUE, ![k].status = order.status,
                                      ![k].line = order.line]
    /\ NoAct /\ UNCHANGED <<server, creation, choice, screen, queued, latest, editing, call,
                            abandoned, past, unsure>>

\* What was read replaces the order on the screen, pending lines included.
Land(k) ==
    /\ refreshes[k].read
    /\ screen' = [status |-> refreshes[k].status, line |-> refreshes[k].line, pending |-> {}]
    /\ unsure' = (refreshes[k].old \/ IF k = Len(refreshes) THEN abandoned # {} ELSE unsure)
    /\ refreshes' = Q!RemoveAt(Outdated(refreshes, k - 1), k)
    /\ NoAct /\ UNCHANGED <<server, creation, choice, queued, latest, editing, call, abandoned, past>>

RefreshFails(k) ==
    /\ unsure' = TRUE
    /\ refreshes' = Q!RemoveAt(Outdated(refreshes, k - 1), k)
    /\ NoAct /\ UNCHANGED <<server, creation, choice, screen, queued, latest, editing, call,
                            abandoned, past>>

-----------------------------------------------------------------------------
(* Calls that get no answer in time                                        *)

\* The call is given up before or after the server applied it.
Abandon(kind, c, rec, at) ==
    LET gone == [kind |-> kind, line |-> c, quantity |-> rec] IN
    /\ Cardinality(timedOut) < MaxTimeouts
    /\ timedOut' = timedOut \cup {gone}
    /\ abandoned' = IF at = "applied" THEN abandoned ELSE abandoned \cup {gone}

CreationTimesOut ==
    /\ creation \in {"called", "applied"}
    /\ Abandon("create", None, 0, creation)
    /\ CreationFails

AddTimesOut(c) ==
    /\ choice[c] \in {"sent", "applied"}
    /\ Abandon("add", c, 1, choice[c])
    /\ AddFails(c)
    /\ unsure' = TRUE /\ refreshes' = Outdated(refreshes, Len(refreshes))
    /\ NoAct /\ UNCHANGED <<server, creation, latest, editing, call, made, replaced>>

CallTimesOut(kind) ==
    /\ call[kind].at # "idle"
    /\ Abandon(kind, call[kind].line, call[kind].quantity, call[kind].at)
    /\ call' = [call EXCEPT ![kind] = NoCall]
    /\ unsure' = TRUE /\ refreshes' = Outdated(refreshes, Len(refreshes))
    /\ NoAct /\ UNCHANGED <<server, creation, choice, screen, queued, latest, editing, made, replaced>>

\* The server applies a call that was given up, or refuses it, or never sees it.
LateApply(gone) ==
    /\ abandoned' = abandoned \ {gone}
    /\ \/ gone.kind = "create" /\ created' = created + 1 /\ UNCHANGED <<order, made>>
       \/ gone.kind = "add" /\ InsertLine(gone.line) /\ UNCHANGED created
       \/ gone.kind \in CallKinds /\ Serve(gone.kind, gone) /\ UNCHANGED <<created, made>>
       \/ UNCHANGED <<created, order, made>>
    /\ unsure' = TRUE /\ refreshes' = Outdated(refreshes, Len(refreshes))
    /\ NoAct /\ UNCHANGED <<creation, choice, screen, queued, latest, editing, call, replaced, timedOut>>

-----------------------------------------------------------------------------

Item(c) ==
    \/ Choose(c) \/ Submit(c) \/ GiveUp(c) \/ ApplyAdd(c) \/ AddDone(c) \/ AddRefused(c)
    \/ Edit(c) \/ AddTimesOut(c)

Call(kind) == ApplyCall(kind) \/ CallDone(kind) \/ CallRefused(kind) \/ CallTimesOut(kind)

Next ==
    \/ ApplyCreation \/ CreationDone \/ CreationRefused \/ CreationTimesOut \/ RetryCreation
    \/ \E c \in Picks : Item(c)
    \/ RetryQueued
    \/ CallLine("update") \/ CallLine("delete") \/ Send \/ CloseConfigurator
    \/ \E kind \in CallKinds : Call(kind)
    \/ \E k \in DOMAIN refreshes : ReadOrder(k) \/ Land(k) \/ RefreshFails(k)
    \/ \E gone \in abandoned : LateApply(gone)

Spec == Init /\ [][Next]_vars

-----------------------------------------------------------------------------
(* What must hold.                                                         *)

\* A pending line is one whose call is under way, whatever races.
NoGhosts == \A c \in screen.pending : InFlight(c)

\* However often a choice is tried, it makes one line at most; one told as added
\* made a line, and one told as refused none unless its call timed out.
ChoiceOnce ==
    \A c \in Picks :
        /\ made[c] <= 1
        /\ choice[c] = "made" => made[c] = 1
        /\ choice[c] \in {"kept", "failed"} => made[c] = 0 \/ \E t \in timedOut : t.line = c

\* A table gets one order from the screen, unless the creation timed out.
OneOrder == created > 1 => \E t \in timedOut : t.kind = "create"

\* Nothing is under way.
Settled ==
    /\ \A c \in Picks : ~InFlight(c)
    /\ Resolved /\ ~(queued # None /\ AddIsError)
    /\ \A kind \in CallKinds : call[kind].at = "idle"
    /\ refreshes = <<>>

\* At rest the screen shows the order as the server has it, unless the answers of
\* refreshes overtook each other, one failed or a call was given up; and a later
\* refresh heals these.
ScreenAgrees ==
    Settled /\ ~unsure => screen.status = order.status /\ screen.line = order.line

\* A choice that was kept when the order could not be made is not forgotten once it
\* is, unless another took its place.
KeptIsTried == Settled => \A c \in Picks : choice[c] = "kept" => c \in replaced

\* The screen as a whole.
BuilderAgrees == NoGhosts /\ ChoiceOnce /\ OneOrder /\ ScreenAgrees /\ KeptIsTried

=============================================================================
