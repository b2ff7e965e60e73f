--------------------------------- MODULE Feedback --------------------------------
(***************************************************************************)
(* FeedbackService: staff ask a guest for feedback with a token, the guest *)
(* opens it and submits, staff tag, acknowledge and resolve what came in.  *)
(*                                                                         *)
(* A request of the API is a read and one write.  The write is by id or by *)
(* token and trusts the read; submitting inserts the feedback and marks    *)
(* its invitation in one transaction.  No operation writes EXPIRED: an     *)
(* invitation that lapsed is told from its expiresAt.                      *)
(***************************************************************************)
EXTENDS Naturals, Sequences, FiniteSets

CONSTANTS
    Tags,
    Requests,       \* requests in progress at a time
    None,
    MaxInvitations, MaxFeedbacks, MaxArrivals, MaxCrashes   \* bounds

VARIABLES
    invitations,    \* the statuses of the feedback_requests rows
    feedbacks,      \* the feedbacks rows with their tags
    lapsed,         \* invitations whose expiresAt has passed
    limited,        \* tokens submitted within ten seconds, which a process remembers
    handled,        \* feedbacks that were ever RESOLVED
    crossed,        \* rows that two requests were at work on at once
    req,            \* req[r]: the request's next call, the row and the tag it is about
    arrived, crashes

rows == <<invitations, feedbacks>>
vars == <<rows, lapsed, limited, handled, crossed, req, arrived, crashes>>

InvitationStatus == {"PENDING", "OPENED", "SUBMITTED", "CANCELLED"}
PC == {"idle", "open", "submit", "cancel", "tag", "ACKNOWLEDGED", "RESOLVED"}

\* About is the row: an invitation or a feedback.
Idle == [pc |-> "idle", about |-> <<"none", 0>>, tag |-> None]

TypeOK ==
    /\ invitations \in Seq(InvitationStatus) /\ Len(invitations) <= MaxInvitations
    /\ feedbacks \in Seq([of : DOMAIN invitations, status : {"NEW", "ACKNOWLEDGED", "RESOLVED"},
                          tags : SUBSET Tags])
    /\ Len(feedbacks) <= MaxFeedbacks
    /\ lapsed \cup limited \subseteq DOMAIN invitations /\ handled \subseteq DOMAIN feedbacks
    /\ \A a \in crossed : a[1] \in {"invitation", "feedback"} /\ a[2] \in Nat
    /\ \A r \in Requests : req[r].pc \in PC /\ req[r].tag \in Tags \cup {None}
    /\ arrived \in 0..MaxArrivals /\ crashes \in 0..MaxCrashes

Init ==
    /\ invitations = <<>> /\ feedbacks = <<>>
    /\ lapsed = {} /\ limited = {} /\ handled = {} /\ crossed = {}
    /\ req = [r \in Requests |-> Idle]
    /\ arrived = 0 /\ crashes = 0

-----------------------------------------------------------------------------
(* Building blocks                                                         *)

Start(r, pc, about, tag) ==
    /\ req[r].pc = "idle"
    /\ arrived < MaxArrivals
    /\ arrived' = arrived + 1
    /\ req' = [req EXCEPT ![r] = [pc |-> pc, about |-> about, tag |-> tag]]
    /\ crossed' = IF \E q \in Requests \ {r} : req[q].about = about
                  THEN crossed \cup {about} ELSE crossed
    /\ UNCHANGED <<rows, lapsed, handled, crashes>>

\* r makes the write it is at, and is answered.
Write(r, pc) ==
    /\ req[r].pc = pc
    /\ req' = [req EXCEPT ![r] = Idle]
    /\ UNCHANGED <<lapsed, limited, crossed, arrived, crashes>>

Row(r) == req[r].about[2]

-----------------------------------------------------------------------------
(* The invitation                                                          *)

CreateFeedbackRequest ==
    /\ Len(invitations) < MaxInvitations
    /\ invitations' = Append(invitations, "PENDING")
    /\ UNCHANGED <<feedbacks, lapsed, limited, handled, crossed, req, arrived, crashes>>

\* expiresAt passes.
Lapse(i) ==
    /\ i \notin lapsed
    /\ lapsed' = lapsed \cup {i}
    /\ UNCHANGED <<rows, limited, handled, crossed, req, arrived, crashes>>

\* Ten seconds pass since the last submission, or the process restarts.
Forget(i) ==
    /\ limited' = limited \ {i} /\ limited # limited'
    /\ UNCHANGED <<rows, lapsed, handled, crossed, req, arrived, crashes>>

\* lookupToken: anything but PENDING is only answered.
LookupToken(r, i) ==
    /\ i \notin lapsed /\ invitations[i] = "PENDING"
    /\ Start(r, "open", <<"invitation", i>>, None)
    /\ UNCHANGED limited

Open(r) ==
    /\ Write(r, "open")
    /\ invitations' = [invitations EXCEPT ![Row(r)] = "OPENED"]
    /\ UNCHANGED <<feedbacks, handled>>

\* Mutant: a token that was used is accepted again.
ReadUsed(r, i) ==
    /\ i \notin lapsed /\ invitations[i] # "CANCELLED" /\ i \notin limited
    /\ limited' = limited \cup {i}
    /\ Start(r, "submit", <<"invitation", i>>, None)

\* The limit of the controller, and the read of submitPublicFeedback; opening
\* the token first is not required.
ReadToken(r, i) ==
    /\ i \notin lapsed /\ invitations[i] \in {"PENDING", "OPENED"} /\ i \notin limited
    /\ limited' = limited \cup {i}
    /\ Start(r, "submit", <<"invitation", i>>, None)

\* Mutant: the feedback is inserted and its invitation left for later.
InsertOnly(r) ==
    /\ Len(feedbacks) < MaxFeedbacks
    /\ Write(r, "submit")
    /\ feedbacks' = Append(feedbacks, [of |-> Row(r), status |-> "NEW", tags |-> {}])
    /\ UNCHANGED <<invitations, handled>>

\* Its transaction.
Submit(r) ==
    /\ Len(feedbacks) < MaxFeedbacks
    /\ Write(r, "submit")
    /\ feedbacks' = Append(feedbacks, [of |-> Row(r), status |-> "NEW", tags |-> {}])
    /\ invitations' = [invitations EXCEPT ![Row(r)] = "SUBMITTED"]
    /\ UNCHANGED handled

CancelRead(r, i) ==
    /\ invitations[i] \notin {"SUBMITTED", "CANCELLED"}
    /\ Start(r, "cancel", <<"invitation", i>>, None)
    /\ UNCHANGED limited

Cancel(r) ==
    /\ Write(r, "cancel")
    /\ invitations' = [invitations EXCEPT ![Row(r)] = "CANCELLED"]
    /\ UNCHANGED <<feedbacks, handled>>

-----------------------------------------------------------------------------
(* The feedback                                                            *)

TagRead(r, f, t) ==
    /\ t \notin feedbacks[f].tags
    /\ Start(r, "tag", <<"feedback", f>>, t)
    /\ UNCHANGED limited

\* The unique (feedbackId, tagKey) refuses one of two equal tags.
Tag(r) ==
    /\ Write(r, "tag")
    /\ feedbacks' = [feedbacks EXCEPT ![Row(r)].tags = @ \cup {req[r].tag}]
    /\ UNCHANGED <<invitations, handled>>

AcknowledgeRead(r, f) ==
    /\ feedbacks[f].status = "NEW"
    /\ Start(r, "ACKNOWLEDGED", <<"feedback", f>>, None)
    /\ UNCHANGED limited

\* DISMISSED, which no operation writes, would be refused too.
ResolveRead(r, f) ==
    /\ feedbacks[f].status # "RESOLVED"
    /\ Start(r, "RESOLVED", <<"feedback", f>>, None)
    /\ UNCHANGED limited

Decide(r, status) ==
    /\ Write(r, status)
    /\ feedbacks' = [feedbacks EXCEPT ![Row(r)].status = status]
    /\ handled' = IF status = "RESOLVED" THEN handled \cup {Row(r)} ELSE handled
    /\ UNCHANGED invitations

-----------------------------------------------------------------------------

Crash(r) ==
    /\ req[r].pc # "idle"
    /\ crashes < MaxCrashes
    /\ crashes' = crashes + 1
    /\ req' = [req EXCEPT ![r] = Idle]
    /\ UNCHANGED <<rows, lapsed, limited, handled, crossed, arrived>>

Arrive(r) ==
    \/ \E i \in DOMAIN invitations : LookupToken(r, i) \/ ReadToken(r, i) \/ CancelRead(r, i)
    \/ \E f \in DOMAIN feedbacks :
           \/ AcknowledgeRead(r, f) \/ ResolveRead(r, f)
           \/ \E t \in Tags : TagRead(r, f, t)

Proceed(r) ==
    \/ Open(r) \/ Submit(r) \/ Cancel(r) \/ Tag(r)
    \/ Decide(r, "ACKNOWLEDGED") \/ Decide(r, "RESOLVED")

Next ==
    \/ CreateFeedbackRequest
    \/ \E i \in DOMAIN invitations : Lapse(i) \/ Forget(i)
    \/ \E r \in Requests : Arrive(r) \/ Proceed(r) \/ Crash(r)

Spec == Init /\ [][Next]_vars

-----------------------------------------------------------------------------
(* What must hold.                                                         *)

FeedbacksOf(i) == {f \in DOMAIN feedbacks : feedbacks[f].of = i}

\* An invitation that reads SUBMITTED has its feedback, whatever races or dies;
\* one that no two requests worked on at once has one feedback exactly when it
\* is SUBMITTED, so that it can neither be used twice nor be opened or cancelled
\* after its use.
TokenUsedOnce ==
    \A i \in DOMAIN invitations :
        /\ invitations[i] = "SUBMITTED" => FeedbacksOf(i) # {}
        /\ <<"invitation", i>> \notin crossed =>
               Cardinality(FeedbacksOf(i)) = IF invitations[i] = "SUBMITTED" THEN 1 ELSE 0

\* Feedback that was resolved stays so, unless an acknowledgement that read it
\* NEW was at work at the same time.
ResolvedStays ==
    \A f \in handled : <<"feedback", f>> \notin crossed => feedbacks[f].status = "RESOLVED"

\* Feedback as a whole.
FeedbackAgrees == TokenUsedOnce /\ ResolvedStays

=============================================================================
