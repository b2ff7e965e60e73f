------------------------------- MODULE Workstation -------------------------------
(***************************************************************************)
(* A screen of the web client that submits one write (move items, merge,   *)
(* split, transfer a table, pay, refund), the network, and the guard of    *)
(* the API that serves it (Idempotency, by INSTANCE).                      *)
(*                                                                         *)
(* The supervisor's dialogs keep their Idempotency-Key while an intent is  *)
(* unresolved (createIdempotencyIntent); the cashier's panels build a key  *)
(* at every submission.  apiRequest gives up after 30 seconds whatever the *)
(* server still does.  One order; the handler may take effect again for a  *)
(* new key, as moving units of a row, paying in part or refunding does.    *)
(***************************************************************************)
EXTENDS Naturals, Sequences, FiniteSets

CONSTANTS
    Surfaces,       \* the screens, see below
    Targets,        \* what the write is about: a selection, an order to merge into
    Reasons,        \* texts that go with it
    None,
    MaxAttempts, MaxCrashes     \* bounds: submissions, requests that die on the server

VARIABLES
    surface,        \* the screen that is open, None before
    target, reason, \* what is entered on it, None while empty
    key,            \* the key of the intent, 0 if there is none
    pending,        \* the attempt it waits for, 0 if none
    shown,          \* the target it reported success for
    tried,          \* the attempts: their key and payload
    mail,           \* those on their way to the server
    answer,         \* answer[n]: what the server answered attempt n
    row, req, effects, told, window, sent, crashes,     \* the guard's
    released,       \* keys the client dropped before it heard of success
    switched        \* whether the target was changed while an attempt was pending

client == <<surface, target, reason, key, pending, shown>>
server == <<row, req, effects, told, window, sent, crashes>>
vars == <<client, tried, mail, answer, server, released, switched>>

\* "move": SupervisorMoveItemsDialog, whose onSuccess ignores the body;
\* "confirm": the merge and split dialogs; "transfer": the table dialog;
\* "cashier": the cashier's panels.
AllSurfaces == {"move", "confirm", "transfer", "cashier"}

Attempts == 1..MaxAttempts
Payloads == [target : Targets, reason : Reasons \cup {None}]
Answers == {"none", "result", "null", "mismatch", "inflight", "error"}

\* No maintenance window opens in this model.
Guard == INSTANCE Idempotency WITH
             Clients <- Attempts, Keys <- Attempts, NoPayload <- None,
             MaxSends <- MaxAttempts

TypeOK ==
    /\ surface \in (Surfaces \cap AllSurfaces) \cup {None}
    /\ target \in Targets \cup {None} /\ reason \in Reasons \cup {None}
    /\ key \in {0} \cup Attempts /\ pending \in {0} \cup Attempts
    /\ shown \in Targets \cup {None}
    /\ tried \in Seq([key : Attempts, payload : Payloads]) /\ Len(tried) <= MaxAttempts
    /\ mail \subseteq DOMAIN tried
    /\ answer \in [Attempts -> Answers]
    /\ Guard!TypeOK
    /\ released \subseteq Attempts /\ switched \in BOOLEAN

Init ==
    /\ surface = None /\ target = None /\ reason = None
    /\ key = 0 /\ pending = 0 /\ shown = None
    /\ tried = <<>> /\ mail = {} /\ answer = [n \in Attempts |-> "none"]
    /\ Guard!Init
    /\ released = {} /\ switched = FALSE

-----------------------------------------------------------------------------
(* The screen                                                              *)

\* The key of the intent, if there is one, is dropped.
Release == key' = 0 /\ released' = released \cup ({key} \ {0})

\* The dialog is mounted: no target, an empty reason, no key.
Open(f) ==
    /\ surface = None /\ surface' = f
    /\ UNCHANGED <<target, reason, key, pending, shown, tried, mail, answer, server, released, switched>>

\* Mutant: selecting another target does not reset the intent.
ChooseKeepsKey(t) ==
    /\ surface # None /\ shown = None /\ target # t
    /\ target' = t
    /\ switched' = (switched \/ pending # 0)
    /\ UNCHANGED <<surface, reason, key, pending, shown, tried, mail, answer, server, released>>

\* onSelect: the selectors stay enabled while an attempt is pending, but not
\* the cashier's.
Choose(t) ==
    /\ surface # None /\ shown = None /\ target # t
    /\ surface = "cashier" => pending = 0
    /\ target' = t
    /\ switched' = (switched \/ pending # 0)
    /\ Release
    /\ UNCHANGED <<surface, reason, pending, shown, tried, mail, answer, server>>

\* setReason: no intent.reset() here, although the reason is in the payload.
EditReason(s) ==
    /\ surface # None /\ shown = None /\ pending = 0 /\ reason # s
    /\ reason' = s
    /\ UNCHANGED <<surface, target, key, pending, shown, tried, mail, answer, server, released, switched>>

\* The dialog is closed and opened again.
Cancel ==
    /\ shown = None /\ pending = 0 /\ key # 0
    /\ target' = None /\ reason' = None
    /\ Release
    /\ UNCHANGED <<surface, pending, shown, tried, mail, answer, server, switched>>

\* Mutant: every submission builds a key.
BeginAlways == Len(tried) + 1

\* intent.begin(): the key of the unresolved intent, or a fresh one.
Begin == IF key # 0 THEN key ELSE Len(tried) + 1

Submit ==
    /\ target # None /\ shown = None /\ pending = 0 /\ Len(tried) < MaxAttempts
    /\ tried' = Append(tried, [key |-> Begin, payload |-> [target |-> target, reason |-> reason]])
    /\ pending' = Len(tried')
    /\ mail' = mail \cup {Len(tried')}
    /\ IF surface = "cashier"
       THEN key' = 0 /\ released' = released \cup {Begin}
       ELSE key' = Begin /\ UNCHANGED released
    /\ UNCHANGED <<surface, target, reason, shown, answer, server, switched>>

\* onError: only the table dialog resets its intent.
ShowError ==
    /\ pending' = 0
    /\ IF surface = "transfer" THEN Release ELSE UNCHANGED <<key, released>>
    /\ UNCHANGED <<surface, target, reason, shown, tried, mail, answer, server, switched>>

\* AbortController, or the connection fails.
GiveUp == pending # 0 /\ ShowError

\* Mutant: any answer to the move is taken for a success.
SucceededAny(a) == surface = "move" \/ a = "result"

\* onSuccess: all but the move dialog read the body, and fail on an empty one.
Succeeded(a) == a = "result" \/ (a = "null" /\ surface = "move")

HearSuccess ==
    /\ pending # 0 /\ answer[pending] # "none" /\ Succeeded(answer[pending])
    /\ shown' = target
    /\ pending' = 0 /\ key' = 0
    /\ UNCHANGED <<surface, target, reason, tried, mail, answer, server, released, switched>>

\* The intent is reset ahead of the body.
HearNull ==
    /\ pending # 0 /\ answer[pending] = "null" /\ ~Succeeded("null")
    /\ pending' = 0
    /\ Release
    /\ UNCHANGED <<surface, target, reason, shown, tried, mail, answer, server, switched>>

HearError ==
    /\ pending # 0 /\ answer[pending] \in {"mismatch", "inflight", "error"}
    /\ ~Succeeded(answer[pending])
    /\ ShowError

-----------------------------------------------------------------------------
(* The network and the server                                              *)

Deliver(n) ==
    /\ n \in mail
    /\ mail' = mail \ {n}
    /\ Guard!Receive(n, tried[n].key, tried[n].payload)
    /\ UNCHANGED <<client, tried, answer, released, switched>>

Lose(n) ==
    /\ n \in mail
    /\ mail' = mail \ {n}
    /\ UNCHANGED <<client, tried, answer, server, released, switched>>

Reply(n, a) ==
    /\ answer' = [answer EXCEPT ![n] = a]
    /\ UNCHANGED <<client, tried, mail, released, switched>>

\* The steps of the guard that answer nothing yet.
Work(n) ==
    /\ \/ Guard!LookupMiss(n) \/ Guard!Create(n)
       \/ Guard!HandlerReturns(n) \/ Guard!HandlerThrows(n) \/ Guard!CompleteThrows(n)
    /\ UNCHANGED <<client, tried, mail, answer, released, switched>>

Serve(n) ==
    \/ Work(n)
    \/ /\ Guard!LookupRefused(n)
       /\ Reply(n, IF row[req[n].key].hash # req[n].payload THEN "mismatch" ELSE "inflight")
    \/ /\ Guard!Replay(n)
       /\ Reply(n, IF row[req[n].key].status = "SUCCEEDED" THEN "result" ELSE "null")
    \/ Guard!Complete(n) /\ Reply(n, "result")
    \/ Guard!CreateRefused(n) /\ Reply(n, "error")
    \/ Guard!CompleteFailed(n) /\ Reply(n, "error")

Crash(n) ==
    /\ Guard!Crash(n)
    /\ UNCHANGED <<client, tried, mail, answer, released, switched>>

Next ==
    \/ \E f \in Surfaces : Open(f)
    \/ \E t \in Targets : Choose(t)
    \/ \E s \in Reasons \cup {None} : EditReason(s)
    \/ Cancel \/ Submit \/ GiveUp \/ HearSuccess \/ HearNull \/ HearError
    \/ \E n \in Attempts : Deliver(n) \/ Lose(n) \/ Serve(n) \/ Crash(n)

Spec == Init /\ [][Next]_vars

-----------------------------------------------------------------------------
(* What must hold.                                                         *)

\* "Duplicate submits / retries of the same unresolved intent reuse the key":
\* of the submissions about a target, however they time out, get lost or are
\* answered late, one at most takes effect, apart from those whose key the
\* client dropped by cancelling, changing the target, or because the screen
\* does not keep it (the cashier's panels, the table dialog after an error).
OneEffectPerIntent ==
    \A t \in Targets :
        Cardinality({k \in Attempts \ released :
            row[k].hash \in Payloads /\ row[k].hash.target = t /\ effects[k] > 0}) <= 1

\* A screen reports success only of what was done, unless the target was
\* changed meanwhile, or the move dialog takes the empty answer to a retry of
\* what failed for a success (finding of SuccessMeansEffect).
ShownIsDone ==
    shown # None =>
        \/ switched
        \/ \E n \in DOMAIN tried :
               /\ tried[n].payload.target = shown
               /\ effects[tried[n].key] = 1 \/ (surface = "move" /\ answer[n] = "null")

\* A submission is refused for its payload only after the reason alone was
\* edited between two attempts: "a material change" of the target resets.
MismatchIsEdited ==
    \A n \in DOMAIN tried :
        answer[n] = "mismatch" =>
            \E m \in DOMAIN tried \ {n} :
                /\ tried[m].key = tried[n].key
                /\ tried[m].payload.target = tried[n].payload.target
                /\ tried[m].payload.reason # tried[n].payload.reason

\* The screen and the guard together.
SubmissionsAgree == OneEffectPerIntent /\ ShownIsDone /\ MismatchIsEdited

=============================================================================
