------------------------------- MODULE Onboarding -------------------------------
(***************************************************************************)
(* ClientOnboardingService, with the acceptance of invitations in          *)
(* InvitationLifecycleService: an organization works through the steps of  *)
(* its onboarding, one of which is its first payment, and invites its core *)
(* team.                                                                   *)
(*                                                                         *)
(* A request is a sequence of single database calls, none of them in a     *)
(* transaction.  One organization; the payment is marked by                *)
(* BillingPesapalService.                                                  *)
(***************************************************************************)
EXTENDS Naturals, Sequences, FiniteSets

CONSTANTS
    Saves,          \* steps that only save what they are given
    Emails,         \* people who can be invited
    None,
    Requests,       \* requests in progress at a time
    MaxBranches, MaxInvitations, MaxArrivals, MaxCrashes    \* bounds

VARIABLES
    exists,         \* whether the onboarding_progress row exists
    done,           \* its steps that are COMPLETED
    completed,      \* whether its completedAt is set
    branches,       \* how many branches there are
    invitations,    \* invitations rows
    lapsed,         \* those whose expiresAt has passed
    paid,           \* whether the first payment was confirmed
    accepted,       \* invitations whose acceptance was answered
    revived,        \* people one of whose EXPIRED invitations was sent again
    paidLast,       \* whether the payment was the last step to be marked
    req,            \* req[r]: the request's next call and what it carries
    overlaps,       \* whether two requests were ever in progress at once
    arrived,        \* requests taken
    crashes

rows == <<exists, done, completed, branches, invitations, lapsed>>
history == <<paid, accepted, revived, paidLast>>
vars == <<rows, history, req, overlaps, arrived, crashes>>

\* accountCreated is COMPLETED by default.
Steps == Saves \cup {"subscriptionPaid", "organizationCreated", "firstBranchCreated", "teamInvited"}
InvitationStatus == {"PENDING", "ACCEPTED", "REVOKED", "EXPIRED"}
PC == {"idle", "progress", "branch", "supersede", "invite", "mark", "check", "complete",
       "resend", "revoke", "expire", "accept"}

\* step is the step a request works on, at an invitation.
Idle == [pc |-> "idle", step |-> None, email |-> None, at |-> 0]

TypeOK ==
    /\ exists \in BOOLEAN /\ done \subseteq Steps /\ completed \in BOOLEAN
    /\ branches \in 0..MaxBranches
    /\ invitations \in Seq([email : Emails, status : InvitationStatus])
    /\ Len(invitations) <= MaxInvitations
    /\ lapsed \subseteq DOMAIN invitations /\ accepted \subseteq DOMAIN invitations
    /\ paid \in BOOLEAN /\ revived \subseteq Emails /\ paidLast \in BOOLEAN
    /\ req \in [Requests -> [pc : PC, step : Steps \cup {None}, email : Emails \cup {None},
                             at : 0..MaxInvitations]]
    /\ overlaps \in BOOLEAN /\ arrived \in 0..MaxArrivals /\ crashes \in 0..MaxCrashes

Init ==
    /\ exists = FALSE /\ done = {} /\ completed = FALSE
    /\ branches = 0 /\ invitations = <<>> /\ lapsed = {}
    /\ paid = FALSE /\ accepted = {} /\ revived = {} /\ paidLast = FALSE
    /\ req = [r \in Requests |-> Idle]
    /\ overlaps = FALSE /\ arrived = 0 /\ crashes = 0

-----------------------------------------------------------------------------
(* Building blocks                                                         *)

Start(r, d) ==
    /\ req[r].pc = "idle"
    /\ arrived < MaxArrivals
    /\ arrived' = arrived + 1
    /\ req' = [req EXCEPT ![r] = d]
    /\ overlaps' = (overlaps \/ \E q \in Requests \ {r} : req[q].pc # "idle")
    /\ UNCHANGED <<rows, history, crashes>>

Goto(r, q) == req' = [req EXCEPT ![r].pc = q] /\ UNCHANGED <<overlaps, arrived, crashes>>
Finish(r) == req' = [req EXCEPT ![r] = Idle] /\ UNCHANGED <<overlaps, arrived, crashes>>

Become(i, status) == invitations' = [invitations EXCEPT ![i].status = status]

-----------------------------------------------------------------------------
(* getOnboardingStatus                                                     *)

GetStatus(r) == ~exists /\ Start(r, [Idle EXCEPT !.pc = "progress"])

\* The unique orgId refuses a second row.
CreateProgress(r) ==
    /\ req[r].pc = "progress"
    /\ exists' = TRUE
    /\ Finish(r)
    /\ UNCHANGED <<done, completed, branches, invitations, lapsed, history>>

-----------------------------------------------------------------------------
(* createOrganization, createBranch, updateBusinessProfile, updateSettings *)

BeginOrganization(r) ==
    /\ "organizationCreated" \notin done
    /\ Start(r, [Idle EXCEPT !.pc = "mark", !.step = "organizationCreated"])

BeginSave(r, s) == Start(r, [Idle EXCEPT !.pc = "mark", !.step = s])

\* The cap of the plan, if there is a plan, always has room for a first branch.
BeginBranch(r) ==
    /\ "firstBranchCreated" \notin done
    /\ Start(r, [Idle EXCEPT !.pc = "branch", !.step = "firstBranchCreated"])

InsertBranch(r) ==
    /\ req[r].pc = "branch"
    /\ branches < MaxBranches
    /\ branches' = branches + 1
    /\ Goto(r, "mark")
    /\ UNCHANGED <<exists, done, completed, invitations, lapsed, history>>

\* The upsert makes the row if it has to.
Mark(r) ==
    /\ req[r].pc = "mark"
    /\ exists' = TRUE
    /\ done' = done \cup {req[r].step}
    /\ Goto(r, "check")
    /\ UNCHANGED <<completed, branches, invitations, lapsed, history>>

\* Mutant: the payment is not waited for.
CheckUnpaid(r) ==
    /\ req[r].pc = "check"
    /\ IF Steps \ {"subscriptionPaid"} \subseteq done /\ ~completed THEN Goto(r, "complete") ELSE Finish(r)
    /\ UNCHANGED <<rows, history>>

\* checkAutoComplete.
Check(r) ==
    /\ req[r].pc = "check"
    /\ IF done = Steps /\ ~completed THEN Goto(r, "complete") ELSE Finish(r)
    /\ UNCHANGED <<rows, history>>

Complete(r) ==
    /\ req[r].pc = "complete"
    /\ completed' = TRUE
    /\ Finish(r)
    /\ UNCHANGED <<exists, done, branches, invitations, lapsed, history>>

-----------------------------------------------------------------------------
(* BillingPesapalService.reconcileTransactionStatus, once: updateMany marks *)
(* the row if it exists, and looks at nothing else.                         *)

ConfirmPayment ==
    /\ ~paid
    /\ paid' = TRUE
    /\ IF exists
       THEN /\ done' = done \cup {"subscriptionPaid"}
            /\ paidLast' = (done = Steps \ {"subscriptionPaid"})
       ELSE UNCHANGED <<done, paidLast>>
    /\ UNCHANGED <<exists, completed, branches, invitations, lapsed, accepted, revived,
                   req, overlaps, arrived, crashes>>

-----------------------------------------------------------------------------
(* createInvitations, of one person: inviteOne                             *)

BeginInvite(r, e) ==
    /\ branches > 0
    /\ Start(r, [Idle EXCEPT !.pc = "supersede", !.step = "teamInvited", !.email = e])

\* Mutant: an earlier invitation stays open.
SupersedeNone(r) ==
    /\ req[r].pc = "supersede"
    /\ Goto(r, "invite")
    /\ UNCHANGED <<rows, history>>

\* "If the user already had a PENDING invite for this email, mark it EXPIRED".
Supersede(r) ==
    /\ req[r].pc = "supersede"
    /\ invitations' = [i \in DOMAIN invitations |->
           IF invitations[i].email = req[r].email /\ invitations[i].status = "PENDING"
           THEN [invitations[i] EXCEPT !.status = "EXPIRED"] ELSE invitations[i]]
    /\ Goto(r, "invite")
    /\ UNCHANGED <<exists, done, completed, branches, lapsed, history>>

InsertInvitation(r) ==
    /\ req[r].pc = "invite"
    /\ Len(invitations) < MaxInvitations
    /\ invitations' = Append(invitations, [email |-> req[r].email, status |-> "PENDING"])
    /\ Goto(r, "mark")
    /\ UNCHANGED <<exists, done, completed, branches, lapsed, history>>

-----------------------------------------------------------------------------
(* resendInvitation, revokeInvitation, accept                              *)

\* Two weeks pass.
Lapse(i) ==
    /\ i \notin lapsed
    /\ lapsed' = lapsed \cup {i}
    /\ UNCHANGED <<exists, done, completed, branches, invitations, history, req, overlaps, arrived, crashes>>

ResendRead(r, i) ==
    /\ invitations[i].status \notin {"ACCEPTED", "REVOKED"}
    /\ Start(r, [Idle EXCEPT !.pc = "resend", !.at = i])

\* PENDING again, for two more weeks.
Resend(r) ==
    LET i == req[r].at IN
    /\ req[r].pc = "resend"
    /\ Become(i, "PENDING")
    /\ lapsed' = lapsed \ {i}
    /\ revived' = IF invitations[i].status = "EXPIRED" THEN revived \cup {invitations[i].email} ELSE revived
    /\ Finish(r)
    /\ UNCHANGED <<exists, done, completed, branches, paid, accepted, paidLast>>

RevokeRead(r, i) ==
    /\ invitations[i].status \notin {"ACCEPTED", "REVOKED"}
    /\ Start(r, [Idle EXCEPT !.pc = "revoke", !.at = i])

Revoke(r) ==
    /\ req[r].pc = "revoke"
    /\ Become(req[r].at, "REVOKED")
    /\ Finish(r)
    /\ UNCHANGED <<exists, done, completed, branches, lapsed, history>>

\* One that has lapsed is marked so.
AcceptRead(r, i) ==
    /\ invitations[i].status = "PENDING"
    /\ Start(r, [Idle EXCEPT !.pc = IF i \in lapsed THEN "expire" ELSE "accept", !.at = i])

Expire(r) ==
    /\ req[r].pc = "expire"
    /\ Become(req[r].at, "EXPIRED")
    /\ Finish(r)
    /\ UNCHANGED <<exists, done, completed, branches, lapsed, history>>

\* One transaction with the password, whatever has become of the invitation.
Accept(r) ==
    /\ req[r].pc = "accept"
    /\ Become(req[r].at, "ACCEPTED")
    /\ accepted' = accepted \cup {req[r].at}
    /\ Finish(r)
    /\ UNCHANGED <<exists, done, completed, branches, lapsed, paid, revived, paidLast>>

-----------------------------------------------------------------------------

Crash(r) ==
    /\ req[r].pc # "idle"
    /\ crashes < MaxCrashes
    /\ crashes' = crashes + 1
    /\ req' = [req EXCEPT ![r] = Idle]
    /\ UNCHANGED <<rows, history, overlaps, arrived>>

Arrive(r) ==
    \/ GetStatus(r) \/ BeginOrganization(r) \/ BeginBranch(r)
    \/ \E s \in Saves : BeginSave(r, s)
    \/ \E e \in Emails : BeginInvite(r, e)
    \/ \E i \in DOMAIN invitations : ResendRead(r, i) \/ RevokeRead(r, i) \/ AcceptRead(r, i)

Proceed(r) ==
    \/ CreateProgress(r) \/ InsertBranch(r) \/ Mark(r) \/ Check(r) \/ Complete(r)
    \/ Supersede(r) \/ InsertInvitation(r)
    \/ Resend(r) \/ Revoke(r) \/ Expire(r) \/ Accept(r)

Next ==
    \/ ConfirmPayment
    \/ \E i \in DOMAIN invitations : Lapse(i)
    \/ \E r \in Requests : Arrive(r) \/ Proceed(r) \/ Crash(r)

Spec == Init /\ [][Next]_vars

-----------------------------------------------------------------------------
(* What must hold.                                                         *)

\* However the steps race, the onboarding is complete only once every step was
\* done, and it is complete once they are, unless the payment was the last of
\* them (nothing looks at the others then: reconcileTransactionStatus does not
\* call checkAutoComplete), or a request goes on or died.
CompletesWhenDone ==
    /\ completed => done = Steps
    /\ done = Steps =>
           completed \/ paidLast \/ crashes > 0 \/ \E r \in Requests : req[r].pc \in {"check", "complete"}

\* "so we always have a single live invite": a person has at most one PENDING
\* invitation, unless requests overlapped or an EXPIRED invitation was sent
\* again beside its successor (resendInvitation refuses ACCEPTED and REVOKED
\* ones only).
SingleInvite ==
    ~overlaps =>
        \A e \in Emails \ revived :
            Cardinality({i \in DOMAIN invitations :
                invitations[i].email = e /\ invitations[i].status = "PENDING"}) <= 1

\* What was accepted stays ACCEPTED, and onboarding makes one branch, unless
\* requests overlapped or, for the branch, died ahead of its mark.
AcceptedOnce ==
    ~overlaps =>
        /\ \A i \in accepted : invitations[i].status = "ACCEPTED"
        /\ crashes = 0 => branches <= 1

\* Onboarding as a whole.
OnboardingAgrees == CompletesWhenDone /\ SingleInvite /\ AcceptedOnce

=============================================================================
