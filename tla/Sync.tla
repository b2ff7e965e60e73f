--------------------------------- MODULE Sync ---------------------------------
(***************************************************************************)
(* SyncService: mutations captured while a client was offline are replayed *)
(* on the server as jobs, one per clientMutationId.  A client may send a   *)
(* batch again at any time, staff may retry a job, and the process may die *)
(* between any two database calls: nothing ever resumes a job by itself.   *)
(*                                                                         *)
(* What the replayed handler does is outside SyncService: it takes effect, *)
(* conflicts, is refused for good, or fails in a way worth a retry.        *)
(***************************************************************************)
EXTENDS Naturals, Sequences, FiniteSets

CONSTANTS
    Jobs,           \* sync_jobs rows, one per clientMutationId
    Batches,        \* what clients send: sequences of jobs
    Requests,       \* requests in progress at a time
    maxAttempts,    \* attempts before a failing job is given up
    MaxReplays,     \* bound: attempts of one job
    MaxConflicts,   \* bound: conflict rows
    MaxCrashes      \* bound: requests lost to a crash

ASSUME BatchesAssumption == Batches \subseteq Seq(Jobs) \ {<<>>}
ASSUME RequestsAssumption == IsFiniteSet(Requests)
ASSUME AttemptsAssumption ==
    maxAttempts \in Nat /\ MaxReplays \in Nat /\ MaxConflicts \in Nat /\ MaxCrashes \in Nat

VARIABLES
    job,        \* sync_jobs rows: status and attemptCount
    attempts,   \* sync_job_attempts of each job: rows made, rows with an outcome
    conflicts,  \* sync_conflicts rows: the job, and whether the row is OPEN
    effects,    \* how many times the replayed write of each job took effect
    req,        \* req[r]: the request's next call and what it carries
    overlapped, \* jobs that two requests worked on at once
    crashes

vars == <<job, attempts, conflicts, effects, req, overlapped, crashes>>

Status == {"QUEUED", "IN_PROGRESS", "SUCCEEDED", "RETRYABLE", "CONFLICT", "FAILED"}
PC == {"idle", "find", "create", "read", "begin", "attempt", "replay", "conflict",
       "outcome", "save", "queue", "resolve"}

\* What a replay ends in: the handler's answer, or the disposition the
\* dispatcher makes of its error.
Outcomes == {"SUCCEEDED", "CONFLICT", "PERMANENT_FAILURE", "RETRYABLE"}

\* A request works on the head of todo; count is the attemptCount it read, at
\* the conflict it resolves.
Idle == [pc |-> "idle", todo |-> <<>>, count |-> 0, outcome |-> "RETRYABLE",
         run |-> TRUE, at |-> 0]

TypeOK ==
    /\ job \in [Jobs -> [status : Status \cup {"ABSENT"}, count : 0..MaxReplays]]
    /\ attempts \in [Jobs -> [made : 0..MaxReplays, done : 0..MaxReplays]]
    /\ conflicts \in Seq([of : Jobs, open : BOOLEAN]) /\ Len(conflicts) <= MaxConflicts
    /\ effects \in [Jobs -> 0..MaxReplays]
    /\ req \in [Requests -> [pc : PC, todo : Seq(Jobs), count : 0..MaxReplays,
                             outcome : Outcomes, run : BOOLEAN, at : 0..MaxConflicts]]
    /\ overlapped \subseteq Jobs
    /\ crashes \in 0..MaxCrashes

Init ==
    /\ job = [j \in Jobs |-> [status |-> "ABSENT", count |-> 0]]
    /\ attempts = [j \in Jobs |-> [made |-> 0, done |-> 0]]
    /\ conflicts = <<>>
    /\ effects = [j \in Jobs |-> 0]
    /\ req = [r \in Requests |-> Idle]
    /\ overlapped = {}
    /\ crashes = 0

-----------------------------------------------------------------------------
(* Building blocks                                                         *)

Current(r) == Head(req[r].todo)

\* A free slot takes a request.
Start(r, d) ==
    /\ req[r].pc = "idle"
    /\ req' = [req EXCEPT ![r] = d]
    /\ overlapped' = overlapped \cup
           {j \in Jobs : \E k \in DOMAIN d.todo, q \in Requests \ {r} :
               d.todo[k] = j /\ \E l \in DOMAIN req[q].todo : req[q].todo[l] = j}

Goto(r, q) == req' = [req EXCEPT ![r].pc = q] /\ UNCHANGED overlapped

\* The request is done with its job: it takes up the next one of its batch.
NextJob(r) ==
    /\ req' = [req EXCEPT ![r] =
                  IF Len(req[r].todo) > 1
                  THEN [Idle EXCEPT !.pc = "find", !.todo = Tail(req[r].todo),
                                    !.run = req[r].run]
                  ELSE Idle]
    /\ UNCHANGED overlapped

\* It is refused or throws: the rest of its batch is not looked at.
Refuse(r) == req' = [req EXCEPT ![r] = Idle] /\ UNCHANGED overlapped

-----------------------------------------------------------------------------
(* replayBatch and upsertJob                                               *)

\* A client sends a batch, to be executed now or only queued (executeNow).
ReplayBatch(r, batch, now) ==
    /\ Start(r, [Idle EXCEPT !.pc = "find", !.todo = batch, !.run = now])
    /\ UNCHANGED <<job, attempts, conflicts, effects, crashes>>

\* Once there is a row, execute it if the batch is to be executed.
AfterUpsert(r) == IF req[r].run THEN Goto(r, "read") ELSE NextJob(r)

FindJob(r) ==
    /\ req[r].pc = "find"
    /\ IF job[Current(r)].status = "ABSENT" THEN Goto(r, "create") ELSE AfterUpsert(r)
    /\ UNCHANGED <<job, attempts, conflicts, effects, crashes>>

\* The insert; the unique (orgId, clientMutationId) refuses a second row.
CreateJob(r) ==
    /\ req[r].pc = "create"
    /\ IF job[Current(r)].status = "ABSENT"
       THEN /\ job' = [job EXCEPT ![Current(r)].status = "QUEUED"]
            /\ AfterUpsert(r)
       ELSE Refuse(r) /\ UNCHANGED job
    /\ UNCHANGED <<attempts, conflicts, effects, crashes>>

-----------------------------------------------------------------------------
(* executeJob                                                              *)

\* Mutant: a job that succeeded is executed like any other.
ReadJobAny(r) ==
    /\ req[r].pc = "read"
    /\ IF job[Current(r)].status = "CONFLICT"
       THEN NextJob(r)
       ELSE /\ job[Current(r)].count < MaxReplays
            /\ req' = [req EXCEPT ![r].pc = "begin", ![r].count = job[Current(r)].count]
            /\ UNCHANGED overlapped
    /\ UNCHANGED <<job, attempts, conflicts, effects, crashes>>

\* A job that succeeded or conflicts is not executed again; one that is being
\* executed, or was given up, is.
ReadJob(r) ==
    /\ req[r].pc = "read"
    /\ IF job[Current(r)].status \in {"SUCCEEDED", "CONFLICT"}
       THEN NextJob(r)
       ELSE /\ req' = [req EXCEPT ![r].pc = "begin", ![r].count = job[Current(r)].count]
            /\ UNCHANGED overlapped
    /\ UNCHANGED <<job, attempts, conflicts, effects, crashes>>

MarkInProgress(r) ==
    /\ req[r].pc = "begin"
    /\ job[Current(r)].count < MaxReplays
    /\ job' = [job EXCEPT ![Current(r)] = [status |-> "IN_PROGRESS", count |-> @.count + 1]]
    /\ Goto(r, "attempt")
    /\ UNCHANGED <<attempts, conflicts, effects, crashes>>

CreateAttempt(r) ==
    /\ req[r].pc = "attempt"
    /\ attempts' = [attempts EXCEPT ![Current(r)].made = @ + 1]
    /\ Goto(r, "replay")
    /\ UNCHANGED <<job, conflicts, effects, crashes>>

\* Mutant: a conflict is saved as the outcome, with no conflict row.
ReplayOnly(r, outcome) ==
    /\ req[r].pc = "replay"
    /\ effects' = IF outcome = "SUCCEEDED"
                  THEN [effects EXCEPT ![Current(r)] = @ + 1] ELSE effects
    /\ req' = [req EXCEPT ![r].outcome = outcome, ![r].pc = "outcome"]
    /\ UNCHANGED <<job, attempts, conflicts, overlapped, crashes>>

\* The dispatcher runs the handler, which takes effect if it succeeds.
Replay(r, outcome) ==
    /\ req[r].pc = "replay"
    /\ outcome = "CONFLICT" => Len(conflicts) < MaxConflicts
    /\ effects' = IF outcome = "SUCCEEDED"
                  THEN [effects EXCEPT ![Current(r)] = @ + 1] ELSE effects
    /\ req' = [req EXCEPT ![r].outcome = outcome,
                          ![r].pc = IF outcome = "CONFLICT" THEN "conflict" ELSE "outcome"]
    /\ UNCHANGED <<job, attempts, conflicts, overlapped, crashes>>

CreateConflict(r) ==
    /\ req[r].pc = "conflict"
    /\ Len(conflicts) < MaxConflicts
    /\ conflicts' = Append(conflicts, [of |-> Current(r), open |-> TRUE])
    /\ Goto(r, "outcome")
    /\ UNCHANGED <<job, attempts, effects, crashes>>

\* The attempt's disposition ...
FinishAttempt(r) ==
    /\ req[r].pc = "outcome"
    /\ attempts' = [attempts EXCEPT ![Current(r)].done = @ + 1]
    /\ Goto(r, "save")
    /\ UNCHANGED <<job, conflicts, effects, crashes>>

\* Mutant: the attempts are counted without the one just made.
StatusAfterLate(r) ==
    CASE req[r].outcome \in {"SUCCEEDED", "CONFLICT"} -> req[r].outcome
      [] req[r].outcome = "PERMANENT_FAILURE" \/ req[r].count >= maxAttempts -> "FAILED"
      [] OTHER -> "RETRYABLE"

\* Mutant: the disposition itself is stored.
StatusAfterWord(r) == req[r].outcome

\* ... and the job's status, which is written whatever it is by now.
StatusAfter(r) ==
    CASE req[r].outcome \in {"SUCCEEDED", "CONFLICT"} -> req[r].outcome
      [] req[r].outcome = "PERMANENT_FAILURE" \/ req[r].count + 1 >= maxAttempts -> "FAILED"
      [] OTHER -> "RETRYABLE"

\* Mutant: an outcome worth a retry leaves the job as it is.
SaveOutcomeFinal(r) ==
    /\ req[r].pc = "save"
    /\ job' = IF StatusAfter(r) = "RETRYABLE" THEN job
              ELSE [job EXCEPT ![Current(r)].status = StatusAfter(r)]
    /\ NextJob(r)
    /\ UNCHANGED <<attempts, conflicts, effects, crashes>>

SaveOutcome(r) ==
    /\ req[r].pc = "save"
    /\ job' = [job EXCEPT ![Current(r)].status = StatusAfter(r)]
    /\ NextJob(r)
    /\ UNCHANGED <<attempts, conflicts, effects, crashes>>

-----------------------------------------------------------------------------
(* retryJob and resolveConflict                                            *)

RetryRead(r, j) ==
    /\ job[j].status \notin {"ABSENT", "SUCCEEDED"}
    /\ Start(r, [Idle EXCEPT !.pc = "queue", !.todo = <<j>>])
    /\ UNCHANGED <<job, attempts, conflicts, effects, crashes>>

Requeue(r) ==
    /\ req[r].pc = "queue"
    /\ job' = [job EXCEPT ![Current(r)].status = "QUEUED"]
    /\ Goto(r, "read")
    /\ UNCHANGED <<attempts, conflicts, effects, crashes>>

\* A conflict that is OPEN when it is read is resolved or dismissed; its job
\* stays as it is.
ResolveRead(r, k) ==
    /\ conflicts[k].open
    /\ Start(r, [Idle EXCEPT !.pc = "resolve", !.at = k])
    /\ UNCHANGED <<job, attempts, conflicts, effects, crashes>>

ResolveWrite(r) ==
    /\ req[r].pc = "resolve"
    /\ conflicts' = [conflicts EXCEPT ![req[r].at].open = FALSE]
    /\ Refuse(r)
    /\ UNCHANGED <<job, attempts, effects, crashes>>

-----------------------------------------------------------------------------

Crash(r) ==
    /\ req[r].pc # "idle"
    /\ crashes < MaxCrashes
    /\ crashes' = crashes + 1
    /\ Refuse(r)
    /\ UNCHANGED <<job, attempts, conflicts, effects>>

Arrive(r) ==
    \/ \E batch \in Batches, now \in BOOLEAN : ReplayBatch(r, batch, now)
    \/ \E j \in Jobs : RetryRead(r, j)
    \/ \E k \in DOMAIN conflicts : ResolveRead(r, k)

Proceed(r) ==
    \/ FindJob(r) \/ CreateJob(r) \/ ReadJob(r) \/ MarkInProgress(r) \/ CreateAttempt(r)
    \/ (\E outcome \in Outcomes : Replay(r, outcome))
    \/ CreateConflict(r) \/ FinishAttempt(r) \/ SaveOutcome(r)
    \/ Requeue(r) \/ ResolveWrite(r)

Next == \E r \in Requests : Arrive(r) \/ Proceed(r) \/ Crash(r)

\* Node runs the continuation of every settled await; a client need not call.
Fairness == \A r \in Requests : WF_vars(Proceed(r))

Spec == Init /\ [][Next]_vars /\ Fairness

-----------------------------------------------------------------------------
(* What must hold.                                                         *)

\* A job's status is backed by rows: SUCCEEDED by an effect, CONFLICT by a
\* conflict that staff can look at, every outcome by a finished attempt.
\* However executions of one job interleave or die (the order of executeJob's
\* writes).
OutcomeBacked ==
    \A j \in Jobs :
        /\ job[j].status = "SUCCEEDED" => effects[j] > 0
        /\ job[j].status = "CONFLICT" => \E k \in DOMAIN conflicts : conflicts[k].of = j
        /\ job[j].status \in {"SUCCEEDED", "CONFLICT", "RETRYABLE", "FAILED"}
               => attempts[j].done > 0

\* No replay goes unlogged: every effect has its attempt row and every row is
\* in attemptCount.  Unless two executions overlapped, a job that reports
\* RETRYABLE has attempts left (executeJob, reachedMax).
AttemptsCounted ==
    \A j \in Jobs :
        /\ effects[j] <= attempts[j].made /\ attempts[j].made <= job[j].count
        /\ attempts[j].done <= attempts[j].made
        /\ j \notin overlapped /\ job[j].status = "RETRYABLE" => job[j].count < maxAttempts

\* "Idempotent by design: already SUCCEEDED ... is not retried" (executeJob):
\* whatever batches repeat the job and whoever retries it, a job that
\* succeeded stays so and its write is not replayed again, as long as no two
\* requests work on it at once.
SuccessIsFinal ==
    [][\A j \in Jobs :
           job[j].status = "SUCCEEDED" /\ j \notin overlapped =>
               job'[j].status = "SUCCEEDED" /\ effects'[j] = effects[j]]_vars

\* A job does not stay IN_PROGRESS: its execution ends in some outcome, unless
\* a crash took it (nothing resumes a job by itself).
InProgressEnds ==
    \A j \in Jobs :
        job[j].status = "IN_PROGRESS" ~> (job[j].status # "IN_PROGRESS" \/ crashes > 0)

=============================================================================
