------------------------------ MODULE SyncProofs ------------------------------
(***************************************************************************)
(* Type correctness of Sync, and that what a job reports is backed: by an  *)
(* effect, a conflict or a finished attempt, however executions interleave *)
(* or die; that every effect and every finished attempt is in attemptCount *)
(* ; and that a job that succeeded stays so where no two requests met.     *)
(*                                                                         *)
(* That attempts do not outrun attemptCount is a matter of how many        *)
(* executions are between two of executeJob's writes (Counted).  The rest  *)
(* follows from what a request still knows of its job at each call: what   *)
(* its outcome rests on (Backed), and, as long as nobody else works on the *)
(* job (Apart), what the row says by now (Alone).                          *)
(***************************************************************************)
EXTENDS Sync, FiniteSetTheorems, SequenceTheorems, TLAPS

\* What a request carries.
Slots == [pc : PC, todo : Seq(Jobs), count : 0..MaxReplays,
          outcome : Outcomes, run : BOOLEAN, at : 0..MaxConflicts]

\* The types, but for the bounds of the counters, which rest on Counted.
Rows ==
    /\ job \in [Jobs -> [status : Status \cup {"ABSENT"}, count : 0..MaxReplays]]
    /\ attempts \in [Jobs -> [made : Nat, done : Nat]]
    /\ conflicts \in Seq([of : Jobs, open : BOOLEAN]) /\ Len(conflicts) <= MaxConflicts
    /\ effects \in [Jobs -> Nat]
    /\ req \in [Requests -> Slots]
    /\ overlapped \subseteq Jobs
    /\ crashes \in 0..MaxCrashes

\* What a request's next call needs is there.
Held ==
    \A r \in Requests :
        /\ req[r].pc \notin {"idle", "resolve"} => req[r].todo # <<>>
        /\ req[r].pc = "resolve" => req[r].at \in DOMAIN conflicts

\* The requests whose next call is one of pcs, for job j.
At(pcs, j) == {r \in Requests : req[r].pc \in pcs /\ req[r].todo # <<>> /\ Current(r) = j}

Attempting(j) == At({"attempt"}, j)
Replaying(j)  == At({"replay"}, j)
Unfinished(j) == At({"replay", "conflict", "outcome"}, j)

\* An execution under way has a place of its own in each counter.
Counted ==
    \A j \in Jobs :
        /\ attempts[j].made + Cardinality(Attempting(j)) <= job[j].count
        /\ effects[j] + Cardinality(Replaying(j)) <= attempts[j].made
        /\ attempts[j].done + Cardinality(Unfinished(j)) <= attempts[j].made

\* What the outcome that a request is about to save rests on.
Rests(r) ==
    /\ req[r].pc = "conflict" => req[r].outcome = "CONFLICT"
    /\ req[r].pc \in {"outcome", "save"} =>
           /\ req[r].outcome = "SUCCEEDED" => effects[Current(r)] > 0
           /\ req[r].outcome = "CONFLICT" =>
                  \E k \in DOMAIN conflicts : conflicts[k].of = Current(r)
    /\ req[r].pc = "save" => attempts[Current(r)].done > 0

Backed == \A r \in Requests : Rests(r)

JobsOf(r) == {req[r].todo[k] : k \in DOMAIN req[r].todo}

\* Two requests that have a job in common have overlapped on it.
Apart ==
    \A r \in Requests, q \in Requests : r # q => JobsOf(r) \cap JobsOf(q) \subseteq overlapped

Running == {"attempt", "replay", "conflict", "outcome", "save"}

\* What a request that is alone with its job knows of the row.
Knows(r) ==
    req[r].pc \notin {"idle", "resolve"} /\ Current(r) \notin overlapped =>
        /\ req[r].pc = "begin" => /\ job[Current(r)].status # "SUCCEEDED"
                                  /\ job[Current(r)].count = req[r].count
        /\ req[r].pc \in Running => /\ job[Current(r)].status = "IN_PROGRESS"
                                    /\ job[Current(r)].count = req[r].count + 1
        /\ req[r].pc = "queue" => job[Current(r)].status # "SUCCEEDED"

Alone == \A r \in Requests : Knows(r)

\* A job that waits for a retry has an attempt left.
HasAttempts ==
    \A j \in Jobs :
        j \notin overlapped /\ job[j].status = "RETRYABLE" => job[j].count < maxAttempts

\* The inductive invariant: the properties and what they rest on.
SInv == Rows /\ Held /\ Counted /\ Backed /\ Apart /\ Alone /\ HasAttempts /\ OutcomeBacked

USE AttemptsAssumption

-----------------------------------------------------------------------------
(* Sequences and counting                                                  *)

\* The head of a batch and what is left of it.
LEMMA HeadTail ==
  ASSUME NEW S, NEW s \in Seq(S), s # <<>>
  PROVE  /\ Head(s) \in S /\ Tail(s) \in Seq(S)
         /\ Len(s) > 1 => Tail(s) # <<>>
         /\ Head(s) \in {s[k] : k \in DOMAIN s}
         /\ {Tail(s)[k] : k \in DOMAIN Tail(s)} \subseteq {s[k] : k \in DOMAIN s}
<1>1. Len(s) \in Nat /\ Len(s) > 0 /\ DOMAIN s = 1..Len(s)
  OBVIOUS
<1>2. Head(s) = s[1] /\ 1 \in DOMAIN s
  BY <1>1
<1>3. /\ Tail(s) \in Seq(S) /\ Len(Tail(s)) = Len(s) - 1
      /\ DOMAIN Tail(s) = 1..(Len(s) - 1)
      /\ \A k \in 1..(Len(s) - 1) : Tail(s)[k] = s[k + 1]
  BY <1>1
<1>4. \A k \in 1..(Len(s) - 1) : k + 1 \in DOMAIN s
  BY <1>1
<1>5. Len(s) > 1 => Tail(s) # <<>>
  <2>1. Tail(s) = <<>> <=> Len(Tail(s)) = 0
    BY <1>3, EmptySeq
  <2>. QED
    BY <1>1, <1>3, <2>1
<1>. QED
  BY <1>1, <1>2, <1>3, <1>4, <1>5

\* A request that is not idle works on a job of its batch.
LEMMA CurrentTyped ==
  ASSUME Rows, Held, NEW r \in Requests, req[r].pc \notin {"idle", "resolve"}
  PROVE  /\ Current(r) \in Jobs /\ Current(r) \in JobsOf(r)
         /\ Tail(req[r].todo) \in Seq(Jobs)
         /\ Len(req[r].todo) > 1 => Tail(req[r].todo) # <<>>
         /\ {Tail(req[r].todo)[k] : k \in DOMAIN Tail(req[r].todo)} \subseteq JobsOf(r)
<1>1. req[r].todo \in Seq(Jobs) /\ req[r].todo # <<>>
  BY DEF Rows, Held, Slots
<1>. QED
  BY <1>1, HeadTail DEF Current, JobsOf

\* Of a set that changes by one element.
LEMMA CountMoves ==
  ASSUME NEW S, NEW T, NEW r, IsFiniteSet(S), T \subseteq S \cup {r}
  PROVE  /\ Cardinality(S) \in Nat /\ Cardinality(T) \in Nat
         /\ Cardinality(T) <= Cardinality(S) + 1
         /\ (r \in T => r \in S) => Cardinality(T) <= Cardinality(S)
         /\ r \in S /\ r \notin T => Cardinality(T) + 1 <= Cardinality(S)
<1>0. Cardinality(S) \in Nat
  BY FS_CardinalityType
<1>1. IsFiniteSet(S \cup {r}) /\ Cardinality(S \cup {r}) <= Cardinality(S) + 1
  <2>1. /\ IsFiniteSet(S \cup {r})
        /\ Cardinality(S \cup {r}) = IF r \in S THEN Cardinality(S) ELSE Cardinality(S) + 1
    BY FS_AddElement
  <2>. QED
    BY <1>0, <2>1
<1>2. IsFiniteSet(T) /\ Cardinality(T) <= Cardinality(S \cup {r})
  BY <1>1, FS_Subset
<1>3. Cardinality(S) \in Nat /\ Cardinality(T) \in Nat /\ Cardinality(S \cup {r}) \in Nat
  BY <1>1, <1>2, FS_CardinalityType
<1>4. (r \in T => r \in S) => Cardinality(T) <= Cardinality(S)
  BY FS_Subset
<1>5. ASSUME r \in S, r \notin T
      PROVE  Cardinality(T) + 1 <= Cardinality(S)
  <2>1. IsFiniteSet(S \ {r}) /\ Cardinality(S \ {r}) = Cardinality(S) - 1
    BY <1>5, FS_RemoveElement
  <2>2. Cardinality(T) <= Cardinality(S \ {r})
    BY <1>5, <2>1, FS_Subset
  <2>. QED
    BY <1>3, <2>1, <2>2
<1>. QED
  BY <1>1, <1>2, <1>3, <1>4, <1>5

\* The requests at some call, when one request moves.
LEMMA AtMoves ==
  ASSUME NEW r \in Requests, \A q \in Requests \ {r} : req'[q] = req[q], NEW pcs, NEW j
  PROVE  /\ Cardinality(At(pcs, j)) \in Nat /\ Cardinality(At(pcs, j)') \in Nat
         /\ Cardinality(At(pcs, j)') <= Cardinality(At(pcs, j)) + 1
         /\ (r \in At(pcs, j)' => r \in At(pcs, j)) =>
                Cardinality(At(pcs, j)') <= Cardinality(At(pcs, j))
         /\ r \in At(pcs, j) /\ r \notin At(pcs, j)' =>
                Cardinality(At(pcs, j)') + 1 <= Cardinality(At(pcs, j))
<1>1. At(pcs, j) \subseteq Requests /\ IsFiniteSet(At(pcs, j))
  BY FS_Subset, RequestsAssumption DEF At
<1>2. At(pcs, j)' \subseteq At(pcs, j) \cup {r}
  BY DEF At, Current
<1>. QED
  BY <1>1, <1>2, CountMoves

-----------------------------------------------------------------------------
(* The initial state                                                       *)

\* Before any request nothing is counted and nothing is reported.
LEMMA InitSInv == Init => SInv
<1>. SUFFICES ASSUME Init PROVE SInv
  OBVIOUS
<1>1. Rows
  BY DEF Init, Idle, Rows, Slots, Status, PC, Outcomes
<1>2. Held /\ Backed /\ OutcomeBacked /\ Alone /\ HasAttempts
  BY DEF Init, Idle, Held, Backed, Rests, OutcomeBacked, Alone, Knows, HasAttempts
<1>3. Counted
  <2>1. \A j \in Jobs : Attempting(j) = {} /\ Replaying(j) = {} /\ Unfinished(j) = {}
    BY DEF Init, Idle, Attempting, Replaying, Unfinished, At
  <2>2. Cardinality({}) = 0
    BY FS_EmptySet
  <2>3. \A j \in Jobs : /\ job[j].count = 0 /\ attempts[j].made = 0
                        /\ attempts[j].done = 0 /\ effects[j] = 0
    BY DEF Init
  <2>4. \A j \in Jobs : /\ Cardinality(Attempting(j)) = 0 /\ Cardinality(Replaying(j)) = 0
                        /\ Cardinality(Unfinished(j)) = 0
    BY <2>1, <2>2
  <2>. QED
    BY <2>3, <2>4 DEF Counted
<1>4. Apart
  <2>1. DOMAIN <<>> = {}
    OBVIOUS
  <2>. QED
    BY <2>1 DEF Init, Idle, Apart, JobsOf
<1>. QED
  BY <1>1, <1>2, <1>3, <1>4 DEF SInv

-----------------------------------------------------------------------------
(* What the blocks do to the requests                                      *)

\* One request moves.
Moves(r) == \A q \in Requests \ {r} : req'[q] = req[q]

\* It takes up the next job of its batch, or ends.
LEMMA NextJobMoves ==
  ASSUME Rows, Held, NEW r \in Requests, req[r].pc \notin {"idle", "resolve"}, NextJob(r)
  PROVE  /\ Moves(r) /\ overlapped' = overlapped
         /\ req' \in [Requests -> Slots]
         /\ req'[r].pc \in {"idle", "find"}
         /\ req'[r].pc = "find" => req'[r].todo # <<>>
         /\ JobsOf(r)' \subseteq JobsOf(r)
<1>1. /\ Tail(req[r].todo) \in Seq(Jobs)
      /\ Len(req[r].todo) > 1 => Tail(req[r].todo) # <<>>
      /\ {Tail(req[r].todo)[k] : k \in DOMAIN Tail(req[r].todo)} \subseteq JobsOf(r)
  BY CurrentTyped
<1>2. <<>> \in Seq(Jobs) /\ DOMAIN <<>> = {}
  OBVIOUS
<1>3. req[r].run \in BOOLEAN
  BY DEF Rows, Slots
<1>4. CASE Len(req[r].todo) > 1
  <2>1. req' = [req EXCEPT ![r] =
                   [Idle EXCEPT !.pc = "find", !.todo = Tail(req[r].todo), !.run = req[r].run]]
    BY <1>4 DEF NextJob
  <2>2. req'[r] = [Idle EXCEPT !.pc = "find", !.todo = Tail(req[r].todo), !.run = req[r].run]
    BY <2>1 DEF Rows
  <2>3. req'[r].pc = "find" /\ req'[r].todo = Tail(req[r].todo)
    BY <2>2 DEF Idle
  <2>7. req'[r] = [pc |-> "find", todo |-> Tail(req[r].todo), count |-> 0,
                   outcome |-> "RETRYABLE", run |-> req[r].run, at |-> 0]
    BY <2>2 DEF Idle
  <2>4. req'[r] \in Slots
    BY <1>1, <1>3, <2>7 DEF Slots, PC, Outcomes
  <2>5. JobsOf(r)' \subseteq JobsOf(r)
    BY <1>1, <2>3 DEF JobsOf
  <2>6. /\ Moves(r)
        /\ req' \in [Requests -> Slots]
    BY <2>1, <2>2, <2>4 DEF Moves, Rows
  <2>. QED
    BY <1>1, <1>4, <2>3, <2>5, <2>6 DEF NextJob
<1>5. CASE ~(Len(req[r].todo) > 1)
  <2>1. req' = [req EXCEPT ![r] = Idle]
    BY <1>5 DEF NextJob
  <2>2. req'[r] = Idle
    BY <2>1 DEF Rows
  <2>3. Idle \in Slots
    BY <1>2 DEF Idle, Slots, PC, Outcomes
  <2>4. JobsOf(r)' = {}
    BY <1>2, <2>2 DEF JobsOf, Idle
  <2>. QED
    BY <1>5, <2>1, <2>2, <2>3, <2>4 DEF NextJob, Moves, Rows, Idle
<1>. QED
  BY <1>4, <1>5

\* It is refused.
LEMMA RefuseMoves ==
  ASSUME Rows, NEW r \in Requests, Refuse(r)
  PROVE  /\ Moves(r) /\ overlapped' = overlapped
         /\ req' \in [Requests -> Slots]
         /\ req'[r].pc = "idle" /\ JobsOf(r)' = {}
<1>1. <<>> \in Seq(Jobs) /\ DOMAIN <<>> = {}
  OBVIOUS
<1>. QED
  BY <1>1 DEF Refuse, Moves, Idle, JobsOf, Rows, Slots, PC, Outcomes

\* It goes on to another call with the same batch.
LEMMA GotoMoves ==
  ASSUME Rows, NEW r \in Requests, NEW q \in PC, Goto(r, q)
  PROVE  /\ Moves(r) /\ overlapped' = overlapped
         /\ req' \in [Requests -> Slots]
         /\ req'[r] = [req[r] EXCEPT !.pc = q]
         /\ req'[r].pc = q /\ req'[r].todo = req[r].todo /\ req'[r].count = req[r].count
         /\ req'[r].outcome = req[r].outcome /\ req'[r].at = req[r].at
         /\ JobsOf(r)' = JobsOf(r)
  BY DEF Goto, Moves, JobsOf, Rows, Slots

\* A new request meets those that have a job in common with it.
LEMMA StartMoves ==
  ASSUME Rows, NEW r \in Requests, NEW d, Start(r, d),
         d \in Slots
  PROVE  /\ Moves(r) /\ req'[r] = d
         /\ overlapped \subseteq overlapped' /\ overlapped' \subseteq Jobs
         /\ req' \in [Requests -> Slots]
         /\ \A q \in Requests \ {r} : JobsOf(r)' \cap JobsOf(q) \subseteq overlapped'
<1>1. req' = [req EXCEPT ![r] = d]
  BY DEF Start
<1>2. /\ Moves(r) /\ req'[r] = d
      /\ req' \in [Requests -> Slots]
  BY <1>1 DEF Moves, Rows
<1>3. overlapped \subseteq overlapped' /\ overlapped' \subseteq Jobs
  BY DEF Start, Rows
<1>4. ASSUME NEW q \in Requests \ {r}, NEW j \in JobsOf(r)' \cap JobsOf(q)
      PROVE  j \in overlapped'
  <2>1. PICK k \in DOMAIN d.todo : j = d.todo[k]
    BY <1>2, <1>4 DEF JobsOf
  <2>2. PICK l \in DOMAIN req[q].todo : j = req[q].todo[l]
    BY <1>4 DEF JobsOf
  <2>3. j \in Jobs
    BY <2>1 DEF Slots
  <2>. QED
    BY <2>1, <2>2, <2>3 DEF Start
<1>. QED
  BY <1>2, <1>3, <1>4

-----------------------------------------------------------------------------
(* What the actions do to the requests                                     *)

LEMMA IdleRun == Idle.run \in BOOLEAN
  BY DEF Idle

LEMMA QueueSlot ==
  ASSUME NEW s \in Seq(Jobs), NEW d, d = [Idle EXCEPT !.pc = "queue", !.todo = s]
  PROVE  d \in Slots /\ d.pc = "queue" /\ d.todo = s
<1>1. d = [pc |-> "queue", todo |-> s, count |-> 0, outcome |-> "RETRYABLE",
           run |-> Idle.run, at |-> 0]
  BY DEF Idle
<1>. QED
  BY IdleRun, <1>1 DEF Slots, PC, Outcomes

\* A request that arrives: what it is made of.
LEMMA ArriveMoves ==
  ASSUME Rows, Held, NEW r \in Requests, Arrive(r)
  PROVE  /\ UNCHANGED <<job, attempts, conflicts, effects, crashes>>
         /\ \E d \in Slots :
                /\ Start(r, d)
                /\ d.pc \in {"find", "queue", "resolve"}
                /\ d.pc # "resolve" => d.todo # <<>>
                /\ d.pc = "resolve" => d.at \in DOMAIN conflicts
                /\ d.pc = "queue" => job[Head(d.todo)].status # "SUCCEEDED"
<1>1. ASSUME NEW batch \in Batches, NEW now \in BOOLEAN, ReplayBatch(r, batch, now)
      PROVE  \E d \in Slots :
                /\ Start(r, d) /\ d.pc = "find" /\ d.todo # <<>>
  <2>. PICK d : d = [Idle EXCEPT !.pc = "find", !.todo = batch, !.run = now]
    OBVIOUS
  <2>1. d = [pc |-> "find", todo |-> batch, count |-> 0, outcome |-> "RETRYABLE",
             run |-> now, at |-> 0]
    BY DEF Idle
  <2>2. d \in Slots /\ d.pc = "find" /\ d.todo # <<>>
    BY <2>1, BatchesAssumption DEF Slots, PC, Outcomes
  <2>3. Start(r, d)
    BY <1>1 DEF ReplayBatch
  <2>. QED
    BY <2>2, <2>3
<1>2. ASSUME NEW j \in Jobs, RetryRead(r, j)
      PROVE  \E d \in Slots :
                /\ Start(r, d) /\ d.pc = "queue" /\ d.todo # <<>>
                /\ job[Head(d.todo)].status # "SUCCEEDED"
  <2>. PICK d : d = [Idle EXCEPT !.pc = "queue", !.todo = <<j>>]
    OBVIOUS
  <2>1. <<j>> \in Seq(Jobs) /\ Head(<<j>>) = j /\ <<j>> # <<>>
    OBVIOUS
  <2>3. d \in Slots /\ d.pc = "queue" /\ d.todo = <<j>>
    BY <2>1, QueueSlot
  <2>4. Start(r, d) /\ job[j].status # "SUCCEEDED"
    BY <1>2 DEF RetryRead
  <2>. QED
    BY <2>1, <2>3, <2>4
<1>3. ASSUME NEW k \in DOMAIN conflicts, ResolveRead(r, k)
      PROVE  \E d \in Slots :
                /\ Start(r, d) /\ d.pc = "resolve" /\ d.at \in DOMAIN conflicts
  <2>. PICK d : d = [Idle EXCEPT !.pc = "resolve", !.at = k]
    OBVIOUS
  <2>1. Idle.todo \in Seq(Jobs) /\ k \in 0..MaxConflicts
    BY SMTT(60) DEF Rows, Idle
  <2>2. d = [pc |-> "resolve", todo |-> Idle.todo, count |-> 0, outcome |-> "RETRYABLE",
             run |-> Idle.run, at |-> k]
    BY DEF Idle
  <2>3. d \in Slots /\ d.pc = "resolve" /\ d.at = k
    BY IdleRun, <2>1, <2>2 DEF Slots, PC, Outcomes
  <2>4. Start(r, d)
    BY <1>3 DEF ResolveRead
  <2>. QED
    BY <2>3, <2>4
<1>4. UNCHANGED <<job, attempts, conflicts, effects, crashes>>
  BY DEF Arrive, ReplayBatch, RetryRead, ResolveRead
<1>. QED
  BY <1>1, <1>2, <1>3, <1>4 DEF Arrive

\* A request that goes on keeps its batch or what is left of it.
Continues(r) ==
    /\ Moves(r) /\ overlapped' = overlapped
    /\ req' \in [Requests -> Slots]
    /\ req'[r].pc # "resolve"
    /\ req'[r].pc # "idle" => req'[r].todo # <<>>
    /\ JobsOf(r)' \subseteq JobsOf(r)
    /\ req'[r].pc \in {"idle", "find"} \/ req'[r].todo = req[r].todo

LEMMA ProceedMoves ==
  ASSUME Rows, Held, NEW r \in Requests, Proceed(r) \/ Crash(r)
  PROVE  Continues(r)
<1>0. ASSUME NEW d \in Slots, req[r].pc \notin {"idle", "resolve"},
             req' = [req EXCEPT ![r] = d], UNCHANGED overlapped,
             d.todo = req[r].todo, d.pc # "resolve"
      PROVE  Continues(r)
  <2>1. req' \in [Requests -> Slots] /\ req'[r] = d /\ Moves(r)
    BY <1>0 DEF Rows, Moves
  <2>2. JobsOf(r)' = JobsOf(r)
    BY <1>0, <2>1 DEF JobsOf
  <2>3. req[r].todo # <<>>
    BY <1>0 DEF Held
  <2>. QED
    BY <1>0, <2>1, <2>2, <2>3 DEF Continues
<1>1. ASSUME NEW q \in PC \ {"resolve"}, req[r].pc \notin {"idle", "resolve"}, Goto(r, q)
      PROVE  Continues(r)
  BY <1>1, GotoMoves DEF Continues, Held
<1>2. ASSUME req[r].pc \notin {"idle", "resolve"}, NextJob(r)
      PROVE  Continues(r)
  BY <1>2, NextJobMoves DEF Continues
<1>3. ASSUME Refuse(r)
      PROVE  Continues(r)
  BY <1>3, RefuseMoves DEF Continues
<1>4. CASE FindJob(r)
  BY <1>1, <1>2, <1>4 DEF FindJob, AfterUpsert, PC
<1>5. CASE CreateJob(r)
  BY <1>1, <1>2, <1>3, <1>5 DEF CreateJob, AfterUpsert, PC
<1>6. CASE ReadJob(r)
  <2>1. CASE NextJob(r)
    BY <1>2, <1>6, <2>1 DEF ReadJob
  <2>2. CASE /\ req' = [req EXCEPT ![r].pc = "begin", ![r].count = job[Current(r)].count]
             /\ UNCHANGED overlapped
    <3>1. job[Current(r)].count \in 0..MaxReplays
      BY <1>6, CurrentTyped DEF ReadJob, Rows
    <3>. DEFINE d == [req[r] EXCEPT !.pc = "begin", !.count = job[Current(r)].count]
    <3>2. req[r] \in Slots /\ "begin" \in PC
      BY DEF Rows, PC
    <3>3. d \in Slots /\ d.todo = req[r].todo /\ d.pc = "begin"
      BY <3>1, <3>2 DEF Slots
    <3>4. req' = [req EXCEPT ![r] = d] /\ req[r].pc = "read"
      BY <1>6, <2>2 DEF ReadJob
    <3>. HIDE DEF d
    <3>. QED
      BY <1>0, <2>2, <3>3, <3>4
  <2>. QED
    BY <1>6, <2>1, <2>2 DEF ReadJob
<1>7. CASE MarkInProgress(r)
  BY <1>1, <1>7 DEF MarkInProgress, PC
<1>8. CASE CreateAttempt(r)
  BY <1>1, <1>8 DEF CreateAttempt, PC
<1>9. ASSUME NEW outcome \in Outcomes, Replay(r, outcome)
      PROVE  Continues(r)
  <2>. DEFINE q == IF outcome = "CONFLICT" THEN "conflict" ELSE "outcome"
              d == [req[r] EXCEPT !.outcome = outcome, !.pc = q]
  <2>1. req[r] \in Slots /\ q \in PC /\ q # "resolve"
    BY DEF Rows, PC
  <2>2. req' = [req EXCEPT ![r] = d] /\ UNCHANGED overlapped /\ req[r].pc = "replay"
    BY <1>9 DEF Replay
  <2>. HIDE DEF q
  <2>3. d \in Slots /\ d.todo = req[r].todo /\ d.pc = q
    BY <2>1 DEF Slots
  <2>. HIDE DEF d
  <2>. QED
    BY <1>0, <2>1, <2>2, <2>3
<1>10. CASE CreateConflict(r)
  BY <1>1, <1>10 DEF CreateConflict, PC
<1>11. CASE FinishAttempt(r)
  BY <1>1, <1>11 DEF FinishAttempt, PC
<1>12. CASE SaveOutcome(r)
  BY <1>2, <1>12 DEF SaveOutcome
<1>13. CASE Requeue(r)
  BY <1>1, <1>13 DEF Requeue, PC
<1>14. CASE ResolveWrite(r)
  BY <1>3, <1>14 DEF ResolveWrite
<1>15. CASE Crash(r)
  BY <1>3, <1>15 DEF Crash
<1>. QED
  BY <1>4, <1>5, <1>6, <1>7, <1>8, <1>9, <1>10, <1>11, <1>12, <1>13, <1>14, <1>15 DEF Proceed

-----------------------------------------------------------------------------
(* Types, and jobs in common                                               *)

\* Conflict rows are added and closed, and stay those of their jobs.
ConflictsKept ==
    /\ conflicts' \in Seq([of : Jobs, open : BOOLEAN]) /\ Len(conflicts') <= MaxConflicts
    /\ \A k \in DOMAIN conflicts : k \in DOMAIN conflicts' /\ conflicts'[k].of = conflicts[k].of

LEMMA ConflictsStep ==
  ASSUME Rows, Held, [Next]_vars
  PROVE  ConflictsKept
<1>. DEFINE Row == [of : Jobs, open : BOOLEAN]
<1>0. conflicts \in Seq(Row) /\ Len(conflicts) <= MaxConflicts
  BY DEF Rows
<1>1. CASE UNCHANGED conflicts
  BY <1>0, <1>1 DEF ConflictsKept
<1>2. ASSUME NEW r \in Requests, CreateConflict(r)
      PROVE  ConflictsKept
  <2>. PICK row : row = [of |-> Current(r), open |-> TRUE]
    OBVIOUS
  <2>1. Current(r) \in Jobs
    BY <1>2, CurrentTyped DEF CreateConflict
  <2>2. row \in Row
    BY <2>1
  <2>3. conflicts' = Append(conflicts, row) /\ Len(conflicts) < MaxConflicts
    BY <1>2 DEF CreateConflict
  <2>. QED
    BY <1>0, <2>2, <2>3, AppendProperties DEF ConflictsKept
<1>3. ASSUME NEW r \in Requests, ResolveWrite(r)
      PROVE  ConflictsKept
  <2>. PICK i : i = req[r].at
    OBVIOUS
  <2>1. i \in DOMAIN conflicts /\ i \in 1..Len(conflicts)
    BY <1>0, <1>3 DEF ResolveWrite, Held
  <2>2. conflicts[i] \in Row
    BY <1>0, <2>1, ElementOfSeq
  <2>. PICK row : row = [conflicts[i] EXCEPT !.open = FALSE]
    OBVIOUS
  <2>3. row \in Row /\ row.of = conflicts[i].of
    BY <2>2
  <2>4. conflicts' = [conflicts EXCEPT ![i] = row]
    BY <1>3 DEF ResolveWrite
  <2>5. /\ conflicts' \in Seq(Row) /\ Len(conflicts') = Len(conflicts)
        /\ \A k \in 1..Len(conflicts) : conflicts'[k] = IF k = i THEN row ELSE conflicts[k]
    BY <1>0, <2>1, <2>3, <2>4, ExceptSeq
  <2>. QED
    BY <1>0, <2>3, <2>5 DEF ConflictsKept
<1>. QED
  BY <1>1, <1>2, <1>3
     DEF Next, Arrive, Proceed, vars, ReplayBatch, RetryRead, ResolveRead, FindJob, CreateJob,
         ReadJob, MarkInProgress, CreateAttempt, Replay, FinishAttempt, SaveOutcome, Requeue, Crash

\* Every step keeps the requests typed and supplied, and remembers who met.
LEMMA RequestsStep ==
  ASSUME Rows, Held, Apart, [Next]_vars
  PROVE  /\ req' \in [Requests -> Slots]
         /\ overlapped \subseteq overlapped' /\ overlapped' \subseteq Jobs
         /\ Held' /\ Apart'
<1>0. ConflictsKept
  BY ConflictsStep
<1>1. ASSUME NEW r \in Requests, Arrive(r)
      PROVE  /\ req' \in [Requests -> Slots]
             /\ overlapped \subseteq overlapped' /\ overlapped' \subseteq Jobs
             /\ Held' /\ Apart'
  <2>1. PICK d \in Slots :
            /\ Start(r, d)
            /\ d.pc # "resolve" => d.todo # <<>>
            /\ d.pc = "resolve" => d.at \in DOMAIN conflicts
    BY <1>1, ArriveMoves
  <2>2. /\ Moves(r) /\ req'[r] = d
        /\ overlapped \subseteq overlapped' /\ overlapped' \subseteq Jobs
        /\ req' \in [Requests -> Slots]
        /\ \A q \in Requests \ {r} : JobsOf(r)' \cap JobsOf(q) \subseteq overlapped'
    BY <2>1, StartMoves
  <2>3. \A q \in Requests \ {r} : req'[q] = req[q] /\ JobsOf(q)' = JobsOf(q)
    BY <2>2 DEF Moves, JobsOf
  <2>4. Held'
    BY <1>0, <2>1, <2>2, <2>3 DEF Held, ConflictsKept
  <2>5. Apart'
    BY <2>2, <2>3 DEF Apart
  <2>. QED
    BY <2>2, <2>4, <2>5
<1>2. ASSUME NEW r \in Requests, Proceed(r) \/ Crash(r)
      PROVE  /\ req' \in [Requests -> Slots]
             /\ overlapped \subseteq overlapped' /\ overlapped' \subseteq Jobs
             /\ Held' /\ Apart'
  <2>1. Continues(r)
    BY <1>2, ProceedMoves
  <2>2. \A q \in Requests \ {r} : req'[q] = req[q] /\ JobsOf(q)' = JobsOf(q)
    BY <2>1 DEF Continues, Moves, JobsOf
  <2>3. Held'
    BY <1>0, <2>1, <2>2 DEF Held, Continues, ConflictsKept
  <2>4. Apart'
    BY <2>1, <2>2 DEF Apart, Continues
  <2>. QED
    BY <2>1, <2>3, <2>4 DEF Continues, Rows
<1>3. CASE UNCHANGED vars
  <2>1. req' = req /\ overlapped' = overlapped /\ conflicts' = conflicts
    BY <1>3 DEF vars
  <2>2. \A q \in Requests : JobsOf(q)' = JobsOf(q)
    BY <2>1 DEF JobsOf
  <2>3. Apart'
    BY <2>1, <2>2 DEF Apart
  <2>4. Held'
    BY <2>1 DEF Held
  <2>. QED
    BY <2>1, <2>3, <2>4 DEF Rows
<1>. QED
  BY <1>1, <1>2, <1>3 DEF Next

\* Every step keeps the rows typed.
Typed ==
    /\ job' \in [Jobs -> [status : Status \cup {"ABSENT"}, count : 0..MaxReplays]]
    /\ attempts' \in [Jobs -> [made : Nat, done : Nat]]
    /\ effects' \in [Jobs -> Nat]
    /\ crashes' \in 0..MaxCrashes

LEMMA RowsStep ==
  ASSUME Rows, Held, Apart, [Next]_vars
  PROVE  Rows'
<1>0. ConflictsKept /\ req' \in [Requests -> Slots] /\ overlapped' \subseteq Jobs
  BY ConflictsStep, RequestsStep
<1>1. ASSUME NEW r \in Requests, Arrive(r)
      PROVE  Typed
  BY <1>1, ArriveMoves DEF Rows, Typed
<1>2. ASSUME NEW r \in Requests, req[r].pc \notin {"idle", "resolve"}, Proceed(r)
      PROVE  Typed
  <2>0. Current(r) \in Jobs
    BY <1>2, CurrentTyped
  <2>1. CASE UNCHANGED <<job, attempts, effects, crashes>>
    BY <2>1 DEF Rows, Typed
  <2>2. CASE CreateJob(r)
    <3>. DEFINE JobRows == [status : Status \cup {"ABSENT"}, count : 0..MaxReplays]
                row == [job[Current(r)] EXCEPT !.status = "QUEUED"]
    <3>1. /\ UNCHANGED job \/ job' = [job EXCEPT ![Current(r)] = row]
          /\ UNCHANGED <<attempts, effects, crashes>>
      BY <2>2 DEF CreateJob
    <3>2. job[Current(r)] \in JobRows /\ "QUEUED" \in Status
      BY <2>0 DEF Rows, Status
    <3>3. row \in JobRows
      BY <3>2
    <3>. HIDE DEF row
    <3>. QED
      BY <2>0, <3>1, <3>3 DEF Rows, Typed
  <2>3. CASE MarkInProgress(r)
    <3>1. job[Current(r)].count + 1 \in 0..MaxReplays
      BY <2>0, <2>3 DEF MarkInProgress, Rows, Typed
    <3>. QED
      BY <2>0, <2>3, <3>1 DEF MarkInProgress, Rows, Typed, Status
  <2>4. CASE CreateAttempt(r)
    <3>. PICK row : row = [attempts[Current(r)] EXCEPT !.made = attempts[Current(r)].made + 1]
      OBVIOUS
    <3>1. attempts[Current(r)] \in [made : Nat, done : Nat]
      BY <2>0 DEF Rows, Typed
    <3>2. row \in [made : Nat, done : Nat]
      BY <3>1
    <3>3. attempts' = [attempts EXCEPT ![Current(r)] = row]
      BY <2>4 DEF CreateAttempt
    <3>4. UNCHANGED <<job, effects, crashes>>
      BY <2>4 DEF CreateAttempt
    <3>. QED
      BY <3>2, <3>3, <3>4 DEF Rows, Typed
  <2>5. ASSUME NEW outcome \in Outcomes, Replay(r, outcome)
        PROVE  Typed
    BY <2>0, <2>5 DEF Replay, Rows, Typed
  <2>6. CASE FinishAttempt(r)
    <3>. PICK row : row = [attempts[Current(r)] EXCEPT !.done = attempts[Current(r)].done + 1]
      OBVIOUS
    <3>1. attempts[Current(r)] \in [made : Nat, done : Nat]
      BY <2>0 DEF Rows, Typed
    <3>2. row \in [made : Nat, done : Nat]
      BY <3>1
    <3>3. attempts' = [attempts EXCEPT ![Current(r)] = row]
      BY <2>6 DEF FinishAttempt
    <3>4. UNCHANGED <<job, effects, crashes>>
      BY <2>6 DEF FinishAttempt
    <3>. QED
      BY <3>2, <3>3, <3>4 DEF Rows, Typed
  <2>7. CASE SaveOutcome(r)
    <3>1. StatusAfter(r) \in Status
      BY DEF StatusAfter, Status
    <3>. QED
      BY <2>0, <2>7, <3>1 DEF SaveOutcome, Rows, Typed
  <2>8. CASE Requeue(r)
    BY <2>0, <2>8 DEF Requeue, Rows, Typed, Status
  <2>. QED
    BY <1>2, <2>1, <2>2, <2>3, <2>4, <2>5, <2>6, <2>7, <2>8
       DEF Proceed, FindJob, ReadJob, CreateConflict, ResolveWrite
<1>3. ASSUME NEW r \in Requests, ResolveWrite(r) \/ Crash(r)
      PROVE  Typed
  <2>1. CASE ResolveWrite(r)
    BY <2>1 DEF ResolveWrite, Rows, Typed
  <2>2. CASE Crash(r)
    <3>1. crashes' \in 0..MaxCrashes
      BY <2>2 DEF Crash, Rows
    <3>. QED
      BY <2>2, <3>1 DEF Crash, Rows, Typed
  <2>. QED
    BY <1>3, <2>1, <2>2
<1>4. ASSUME UNCHANGED vars
      PROVE  Typed
  BY <1>4 DEF vars, Rows, Typed
<1>5. ASSUME NEW r \in Requests, Proceed(r), ~ResolveWrite(r)
      PROVE  req[r].pc \notin {"idle", "resolve"}
  BY <1>5 DEF Proceed, FindJob, CreateJob, ReadJob, MarkInProgress, CreateAttempt, Replay,
              CreateConflict, FinishAttempt, SaveOutcome, Requeue
<1>6. ASSUME NEW r \in Requests, Arrive(r) \/ Proceed(r) \/ Crash(r)
      PROVE  Typed
  <2>1. CASE Proceed(r) /\ ~ResolveWrite(r)
    BY <1>2, <1>5, <2>1
  <2>. QED
    BY <1>1, <1>3, <1>6, <2>1
<1>7. Typed
  BY <1>4, <1>6 DEF Next
<1>. QED
  BY <1>0, <1>7 DEF Rows, Typed, ConflictsKept

-----------------------------------------------------------------------------
(* The counters                                                            *)

\* A step that counts nothing and leaves its request outside an execution.
Quiet(r) ==
    /\ UNCHANGED <<attempts, effects>>
    /\ \A j \in Jobs : job'[j].count = job[j].count
    /\ Moves(r) /\ req'[r].pc \notin {"attempt", "replay", "conflict", "outcome"}

LEMMA CountedQuiet ==
  ASSUME Rows, Counted, NEW r \in Requests, Quiet(r)
  PROVE  Counted'
<1>. SUFFICES ASSUME NEW j \in Jobs
              PROVE  /\ attempts'[j].made + Cardinality(Attempting(j)') <= job'[j].count
                     /\ effects'[j] + Cardinality(Replaying(j)') <= attempts'[j].made
                     /\ attempts'[j].done + Cardinality(Unfinished(j)') <= attempts'[j].made
  BY DEF Counted
<1>1. r \notin Attempting(j)' /\ r \notin Replaying(j)' /\ r \notin Unfinished(j)'
  BY DEF Quiet, Attempting, Replaying, Unfinished, At
<1>2. /\ Cardinality(Attempting(j)) \in Nat /\ Cardinality(Attempting(j)') \in Nat
      /\ Cardinality(Attempting(j)') <= Cardinality(Attempting(j))
  BY <1>1, AtMoves DEF Quiet, Moves, Attempting
<1>3. /\ Cardinality(Replaying(j)) \in Nat /\ Cardinality(Replaying(j)') \in Nat
      /\ Cardinality(Replaying(j)') <= Cardinality(Replaying(j))
  BY <1>1, AtMoves DEF Quiet, Moves, Replaying
<1>4. /\ Cardinality(Unfinished(j)) \in Nat /\ Cardinality(Unfinished(j)') \in Nat
      /\ Cardinality(Unfinished(j)') <= Cardinality(Unfinished(j))
  BY <1>1, AtMoves DEF Quiet, Moves, Unfinished
<1>5. /\ attempts[j].made \in Nat /\ attempts[j].done \in Nat /\ effects[j] \in Nat
      /\ job[j].count \in Nat
  BY DEF Rows
<1>6. /\ attempts[j].made + Cardinality(Attempting(j)) <= job[j].count
      /\ effects[j] + Cardinality(Replaying(j)) <= attempts[j].made
      /\ attempts[j].done + Cardinality(Unfinished(j)) <= attempts[j].made
  BY DEF Counted
<1>7. /\ attempts'[j].made = attempts[j].made /\ attempts'[j].done = attempts[j].done
      /\ effects'[j] = effects[j] /\ job'[j].count = job[j].count
  BY DEF Quiet
<1>. QED
  BY <1>2, <1>3, <1>4, <1>5, <1>6, <1>7

\* A step inside an execution of job i: from one call to another, with what it
\* counts.
Counts(r, i, from, to) ==
    /\ Moves(r) /\ req[r].pc = from /\ req'[r].pc = to
    /\ req[r].todo # <<>> /\ req'[r].todo = req[r].todo /\ Current(r) = i
    /\ \A j \in Jobs \ {i} :
           job'[j] = job[j] /\ attempts'[j] = attempts[j] /\ effects'[j] = effects[j]

LEMMA CountedOthers ==
  ASSUME Rows, Counted, NEW r \in Requests, NEW i \in Jobs, NEW from, NEW to,
         Counts(r, i, from, to), NEW j \in Jobs \ {i}
  PROVE  /\ attempts'[j].made + Cardinality(Attempting(j)') <= job'[j].count
         /\ effects'[j] + Cardinality(Replaying(j)') <= attempts'[j].made
         /\ attempts'[j].done + Cardinality(Unfinished(j)') <= attempts'[j].made
<1>1. r \notin Attempting(j)' /\ r \notin Replaying(j)' /\ r \notin Unfinished(j)'
  BY DEF Counts, Attempting, Replaying, Unfinished, At, Current
<1>2. /\ Cardinality(Attempting(j)) \in Nat /\ Cardinality(Attempting(j)') \in Nat
      /\ Cardinality(Attempting(j)') <= Cardinality(Attempting(j))
  BY <1>1, AtMoves DEF Counts, Moves, Attempting
<1>3. /\ Cardinality(Replaying(j)) \in Nat /\ Cardinality(Replaying(j)') \in Nat
      /\ Cardinality(Replaying(j)') <= Cardinality(Replaying(j))
  BY <1>1, AtMoves DEF Counts, Moves, Replaying
<1>4. /\ Cardinality(Unfinished(j)) \in Nat /\ Cardinality(Unfinished(j)') \in Nat
      /\ Cardinality(Unfinished(j)') <= Cardinality(Unfinished(j))
  BY <1>1, AtMoves DEF Counts, Moves, Unfinished
<1>5. /\ attempts[j].made \in Nat /\ attempts[j].done \in Nat /\ effects[j] \in Nat
      /\ job[j].count \in Nat
  BY DEF Rows
<1>6. /\ attempts[j].made + Cardinality(Attempting(j)) <= job[j].count
      /\ effects[j] + Cardinality(Replaying(j)) <= attempts[j].made
      /\ attempts[j].done + Cardinality(Unfinished(j)) <= attempts[j].made
  BY DEF Counted
<1>7. /\ attempts'[j].made = attempts[j].made /\ attempts'[j].done = attempts[j].done
      /\ effects'[j] = effects[j] /\ job'[j].count = job[j].count
  BY DEF Counts
<1>. QED
  BY <1>2, <1>3, <1>4, <1>5, <1>6, <1>7

\* The job itself: its request enters or leaves the set of a counter.
LEMMA CountedSame ==
  ASSUME NEW r \in Requests, NEW i \in Jobs, NEW from, NEW to, Counts(r, i, from, to), NEW pcs
  PROVE  /\ Cardinality(At(pcs, i)) \in Nat /\ Cardinality(At(pcs, i)') \in Nat
         /\ Cardinality(At(pcs, i)') <= Cardinality(At(pcs, i)) + 1
         /\ to \notin pcs \/ from \in pcs => Cardinality(At(pcs, i)') <= Cardinality(At(pcs, i))
         /\ from \in pcs /\ to \notin pcs => Cardinality(At(pcs, i)') + 1 <= Cardinality(At(pcs, i))
<1>1. /\ r \in At(pcs, i) <=> from \in pcs
      /\ r \in At(pcs, i)' <=> to \in pcs
  BY DEF Counts, At, Current
<1>. QED
  BY <1>1, AtMoves DEF Counts, Moves

LEMMA CountedStep ==
  ASSUME Rows, Held, Counted, [Next]_vars
  PROVE  Counted'
<1>. DEFINE Of(j) == /\ attempts'[j].made + Cardinality(Attempting(j)') <= job'[j].count
                     /\ effects'[j] + Cardinality(Replaying(j)') <= attempts'[j].made
                     /\ attempts'[j].done + Cardinality(Unfinished(j)') <= attempts'[j].made
<1>0. \A j \in Jobs : /\ attempts[j].made \in Nat /\ attempts[j].done \in Nat
                     /\ effects[j] \in Nat /\ job[j].count \in Nat
                     /\ attempts[j] \in [made : Nat, done : Nat]
  BY DEF Rows
<1>a. \A j \in Jobs : /\ attempts[j].made + Cardinality(Attempting(j)) <= job[j].count
                     /\ effects[j] + Cardinality(Replaying(j)) <= attempts[j].made
                     /\ attempts[j].done + Cardinality(Unfinished(j)) <= attempts[j].made
  BY DEF Counted
<1>1. ASSUME NEW r \in Requests, MarkInProgress(r)
      PROVE  Counted'
  <2>. PICK i \in Jobs : i = Current(r)
    BY <1>1, CurrentTyped DEF MarkInProgress
  <2>1. Continues(r) /\ req'[r].todo = req[r].todo
    <3>1. Goto(r, "attempt") /\ "attempt" \in PC
      BY <1>1 DEF MarkInProgress, PC
    <3>. QED
      BY <1>1, <3>1, GotoMoves, ProceedMoves DEF Proceed
  <2>2. /\ job'[i].count = job[i].count + 1 /\ UNCHANGED <<attempts, effects>>
        /\ \A j \in Jobs \ {i} : job'[j] = job[j]
    BY <1>1 DEF MarkInProgress, Rows
  <2>3. Counts(r, i, "begin", "attempt")
    BY <1>1, <2>1, <2>2 DEF Counts, Continues, Held, MarkInProgress, Goto, Rows, Slots
  <2>4. /\ Cardinality(Attempting(i)) \in Nat /\ Cardinality(Attempting(i)') \in Nat
        /\ Cardinality(Attempting(i)') <= Cardinality(Attempting(i)) + 1
    BY <2>3, CountedSame DEF Attempting
  <2>5. /\ Cardinality(Replaying(i)) \in Nat /\ Cardinality(Replaying(i)') \in Nat
        /\ Cardinality(Replaying(i)') <= Cardinality(Replaying(i))
    BY <2>3, CountedSame DEF Replaying
  <2>6. /\ Cardinality(Unfinished(i)) \in Nat /\ Cardinality(Unfinished(i)') \in Nat
        /\ Cardinality(Unfinished(i)') <= Cardinality(Unfinished(i))
    BY <2>3, CountedSame DEF Unfinished
  <2>7. Of(i)
    BY <1>0, <1>a, <2>2, <2>4, <2>5, <2>6
  <2>. QED
    BY <2>3, <2>7, CountedOthers DEF Counted
<1>2. ASSUME NEW r \in Requests, CreateAttempt(r)
      PROVE  Counted'
  <2>. PICK i \in Jobs : i = Current(r)
    BY <1>2, CurrentTyped DEF CreateAttempt
  <2>1. Continues(r) /\ req'[r].todo = req[r].todo
    <3>1. Goto(r, "replay") /\ "replay" \in PC
      BY <1>2 DEF CreateAttempt, PC
    <3>. QED
      BY <1>2, <3>1, GotoMoves, ProceedMoves DEF Proceed
  <2>2. /\ attempts'[i].made = attempts[i].made + 1 /\ attempts'[i].done = attempts[i].done
        /\ UNCHANGED <<job, effects>>
        /\ \A j \in Jobs \ {i} : attempts'[j] = attempts[j]
    BY <1>0, <1>2 DEF CreateAttempt, Rows
  <2>3. Counts(r, i, "attempt", "replay")
    BY <1>2, <2>1, <2>2 DEF Counts, Continues, Held, CreateAttempt, Goto, Rows, Slots
  <2>4. /\ Cardinality(Attempting(i)) \in Nat /\ Cardinality(Attempting(i)') \in Nat
        /\ Cardinality(Attempting(i)') + 1 <= Cardinality(Attempting(i))
    BY <2>3, CountedSame DEF Attempting
  <2>5. /\ Cardinality(Replaying(i)) \in Nat /\ Cardinality(Replaying(i)') \in Nat
        /\ Cardinality(Replaying(i)') <= Cardinality(Replaying(i)) + 1
    BY <2>3, CountedSame DEF Replaying
  <2>6. /\ Cardinality(Unfinished(i)) \in Nat /\ Cardinality(Unfinished(i)') \in Nat
        /\ Cardinality(Unfinished(i)') <= Cardinality(Unfinished(i)) + 1
    BY <2>3, CountedSame DEF Unfinished
  <2>7. Of(i)
    BY <1>0, <1>a, <2>2, <2>4, <2>5, <2>6
  <2>. QED
    BY <2>3, <2>7, CountedOthers DEF Counted
<1>3. ASSUME NEW r \in Requests, NEW outcome \in Outcomes, Replay(r, outcome)
      PROVE  Counted'
  <2>. PICK i \in Jobs : i = Current(r)
    BY <1>3, CurrentTyped DEF Replay
  <2>. PICK to \in {"conflict", "outcome"} : to = IF outcome = "CONFLICT" THEN "conflict" ELSE "outcome"
    OBVIOUS
  <2>1. Continues(r) /\ req'[r].todo = req[r].todo
    <3>1. Continues(r)
      BY <1>3, ProceedMoves DEF Proceed
    <3>. QED
      BY <1>3, <3>1 DEF Replay, Rows, Slots
  <2>2. /\ effects'[i] \in Nat /\ effects'[i] <= effects[i] + 1 /\ UNCHANGED <<job, attempts>>
        /\ \A j \in Jobs \ {i} : effects'[j] = effects[j]
    BY <1>0, <1>3 DEF Replay, Rows
  <2>3. Counts(r, i, "replay", to)
    BY <1>3, <2>1, <2>2 DEF Counts, Continues, Held, Replay, Rows, Slots
  <2>4. /\ Cardinality(Attempting(i)) \in Nat /\ Cardinality(Attempting(i)') \in Nat
        /\ Cardinality(Attempting(i)') <= Cardinality(Attempting(i))
    BY <2>3, CountedSame DEF Attempting
  <2>5. /\ Cardinality(Replaying(i)) \in Nat /\ Cardinality(Replaying(i)') \in Nat
        /\ Cardinality(Replaying(i)') + 1 <= Cardinality(Replaying(i))
    BY <2>3, CountedSame DEF Replaying
  <2>6. /\ Cardinality(Unfinished(i)) \in Nat /\ Cardinality(Unfinished(i)') \in Nat
        /\ Cardinality(Unfinished(i)') <= Cardinality(Unfinished(i))
    BY <2>3, CountedSame DEF Unfinished
  <2>7. Of(i)
    BY <1>0, <1>a, <2>2, <2>4, <2>5, <2>6
  <2>. QED
    BY <2>3, <2>7, CountedOthers DEF Counted
<1>4. ASSUME NEW r \in Requests, CreateConflict(r)
      PROVE  Counted'
  <2>. PICK i \in Jobs : i = Current(r)
    BY <1>4, CurrentTyped DEF CreateConflict
  <2>1. Continues(r) /\ req'[r].todo = req[r].todo
    <3>1. Goto(r, "outcome") /\ "outcome" \in PC
      BY <1>4 DEF CreateConflict, PC
    <3>. QED
      BY <1>4, <3>1, GotoMoves, ProceedMoves DEF Proceed
  <2>2. UNCHANGED <<job, attempts, effects>>
    BY <1>4 DEF CreateConflict
  <2>3. Counts(r, i, "conflict", "outcome")
    BY <1>4, <2>1, <2>2 DEF Counts, Continues, Held, CreateConflict, Goto, Rows, Slots
  <2>4. /\ Cardinality(Attempting(i)) \in Nat /\ Cardinality(Attempting(i)') \in Nat
        /\ Cardinality(Attempting(i)') <= Cardinality(Attempting(i))
    BY <2>3, CountedSame DEF Attempting
  <2>5. /\ Cardinality(Replaying(i)) \in Nat /\ Cardinality(Replaying(i)') \in Nat
        /\ Cardinality(Replaying(i)') <= Cardinality(Replaying(i))
    BY <2>3, CountedSame DEF Replaying
  <2>6. /\ Cardinality(Unfinished(i)) \in Nat /\ Cardinality(Unfinished(i)') \in Nat
        /\ Cardinality(Unfinished(i)') <= Cardinality(Unfinished(i))
    BY <2>3, CountedSame DEF Unfinished
  <2>7. Of(i)
    BY <1>0, <1>a, <2>2, <2>4, <2>5, <2>6
  <2>. QED
    BY <2>3, <2>7, CountedOthers DEF Counted
<1>5. ASSUME NEW r \in Requests, FinishAttempt(r)
      PROVE  Counted'
  <2>. PICK i \in Jobs : i = Current(r)
    BY <1>5, CurrentTyped DEF FinishAttempt
  <2>1. Continues(r) /\ req'[r].todo = req[r].todo
    <3>1. Goto(r, "save") /\ "save" \in PC
      BY <1>5 DEF FinishAttempt, PC
    <3>. QED
      BY <1>5, <3>1, GotoMoves, ProceedMoves DEF Proceed
  <2>2. /\ attempts'[i].done = attempts[i].done + 1 /\ attempts'[i].made = attempts[i].made
        /\ UNCHANGED <<job, effects>>
        /\ \A j \in Jobs \ {i} : attempts'[j] = attempts[j]
    BY <1>0, <1>5 DEF FinishAttempt, Rows
  <2>3. Counts(r, i, "outcome", "save")
    BY <1>5, <2>1, <2>2 DEF Counts, Continues, Held, FinishAttempt, Goto, Rows, Slots
  <2>4. /\ Cardinality(Attempting(i)) \in Nat /\ Cardinality(Attempting(i)') \in Nat
        /\ Cardinality(Attempting(i)') <= Cardinality(Attempting(i))
    BY <2>3, CountedSame DEF Attempting
  <2>5. /\ Cardinality(Replaying(i)) \in Nat /\ Cardinality(Replaying(i)') \in Nat
        /\ Cardinality(Replaying(i)') <= Cardinality(Replaying(i))
    BY <2>3, CountedSame DEF Replaying
  <2>6. /\ Cardinality(Unfinished(i)) \in Nat /\ Cardinality(Unfinished(i)') \in Nat
        /\ Cardinality(Unfinished(i)') + 1 <= Cardinality(Unfinished(i))
    BY <2>3, CountedSame DEF Unfinished
  <2>7. Of(i)
    BY <1>0, <1>a, <2>2, <2>4, <2>5, <2>6
  <2>. QED
    BY <2>3, <2>7, CountedOthers DEF Counted
<1>6. ASSUME NEW r \in Requests, Quiet(r)
      PROVE  Counted'
  BY <1>6, CountedQuiet
<1>7. ASSUME NEW r \in Requests, Arrive(r)
      PROVE  Quiet(r)
  <2>1. PICK d \in Slots : Start(r, d) /\ d.pc \in {"find", "queue", "resolve"}
    BY <1>7, ArriveMoves
  <2>2. UNCHANGED <<job, attempts, effects>>
    BY <1>7, ArriveMoves
  <2>3. Moves(r) /\ req'[r] = d
    BY <2>1, StartMoves
  <2>. QED
    BY <2>1, <2>2, <2>3 DEF Quiet
<1>8. ASSUME NEW r \in Requests,
             \/ FindJob(r) \/ CreateJob(r) \/ ReadJob(r) \/ SaveOutcome(r)
             \/ Requeue(r) \/ ResolveWrite(r) \/ Crash(r)
      PROVE  Quiet(r)
  <2>1. Continues(r)
    BY <1>8, ProceedMoves DEF Proceed
  <2>2. UNCHANGED <<attempts, effects>>
    BY <1>8 DEF FindJob, CreateJob, ReadJob, SaveOutcome, Requeue, ResolveWrite, Crash
  <2>3. \A j \in Jobs : job'[j].count = job[j].count
    <3>1. ASSUME NEW s, job' = [job EXCEPT ![Current(r)].status = s]
          PROVE  \A j \in Jobs : job'[j].count = job[j].count
      BY <3>1 DEF Rows
    <3>2. CASE UNCHANGED job
      BY <3>2
    <3>. QED
      BY <1>8, <3>1, <3>2
         DEF FindJob, CreateJob, ReadJob, SaveOutcome, Requeue, ResolveWrite, Crash
  <2>4. req'[r].pc \notin {"attempt", "replay", "conflict", "outcome"}
    <3>1. CASE NextJob(r)
      BY <3>1 DEF NextJob, Idle, Rows
    <3>2. CASE Refuse(r)
      BY <3>2 DEF Refuse, Idle, Rows
    <3>3. CASE Goto(r, "create") \/ Goto(r, "read")
      BY <3>3, GotoMoves DEF PC
    <3>4. CASE ReadJob(r)
      <4>1. CASE req' = [req EXCEPT ![r].pc = "begin", ![r].count = job[Current(r)].count]
        BY <4>1 DEF Rows, Slots
      <4>. QED
        BY <3>1, <3>4, <4>1 DEF ReadJob
    <3>. QED
      BY <1>8, <3>1, <3>2, <3>3, <3>4
         DEF FindJob, CreateJob, AfterUpsert, SaveOutcome, Requeue, ResolveWrite, Crash
  <2>. QED
    BY <2>1, <2>2, <2>3, <2>4 DEF Quiet, Continues
<1>9. CASE UNCHANGED vars
  BY <1>9 DEF vars, Counted, Attempting, Replaying, Unfinished, At, Current
<1>10. ASSUME NEW r \in Requests, Arrive(r) \/ Proceed(r) \/ Crash(r)
       PROVE  Counted'
  BY <1>1, <1>2, <1>3, <1>4, <1>5, <1>6, <1>7, <1>8, <1>10 DEF Proceed
<1>. QED
  BY <1>9, <1>10 DEF Next

-----------------------------------------------------------------------------
(* What an outcome rests on                                                *)

\* Effects, conflict rows and finished attempts are never taken back.
Grows ==
    \A j \in Jobs :
        /\ effects[j] > 0 => effects'[j] > 0
        /\ attempts[j].done > 0 => attempts'[j].done > 0
        /\ (\E k \in DOMAIN conflicts : conflicts[k].of = j) =>
               \E k \in DOMAIN conflicts' : conflicts'[k].of = j

LEMMA GrowsStep ==
  ASSUME Rows, Held, [Next]_vars
  PROVE  Grows
<1>1. ConflictsKept
  BY ConflictsStep
<1>2. \A j \in Jobs : effects[j] > 0 => effects'[j] > 0
  <2>1. ASSUME NEW i, effects' = [effects EXCEPT ![i] = @ + 1]
        PROVE  \A j \in Jobs : effects[j] > 0 => effects'[j] > 0
    BY <2>1 DEF Rows
  <2>. QED
    BY <2>1 DEF Next, Arrive, Proceed, vars, ReplayBatch, RetryRead, ResolveRead, FindJob,
         CreateJob, ReadJob, MarkInProgress, CreateAttempt, Replay, CreateConflict,
         FinishAttempt, SaveOutcome, Requeue, ResolveWrite, Crash
<1>3. \A j \in Jobs : attempts[j].done > 0 => attempts'[j].done > 0
  <2>1. ASSUME NEW i, attempts' = [attempts EXCEPT ![i].done = @ + 1]
        PROVE  \A j \in Jobs : attempts[j].done > 0 => attempts'[j].done > 0
    BY <2>1 DEF Rows
  <2>2. ASSUME NEW i, attempts' = [attempts EXCEPT ![i].made = @ + 1]
        PROVE  \A j \in Jobs : attempts[j].done > 0 => attempts'[j].done > 0
    BY <2>2 DEF Rows
  <2>. QED
    BY <2>1, <2>2 DEF Next, Arrive, Proceed, vars, ReplayBatch, RetryRead, ResolveRead, FindJob,
         CreateJob, ReadJob, MarkInProgress, CreateAttempt, Replay, CreateConflict,
         FinishAttempt, SaveOutcome, Requeue, ResolveWrite, Crash
<1>. QED
  BY <1>1, <1>2, <1>3 DEF Grows, ConflictsKept

LEMMA BackedStep ==
  ASSUME Rows, Held, Backed, [Next]_vars
  PROVE  Backed'
<1>0. Grows
  BY GrowsStep
<1>1. ASSUME NEW q \in Requests, req'[q] = req[q]
      PROVE  Rests(q)'
  <2>1. /\ req[q].pc \notin {"idle", "resolve"} => Current(q) \in Jobs
        /\ Current(q)' = Current(q)
    BY <1>1, CurrentTyped DEF Current
  <2>. QED
    BY <1>0, <1>1, <2>1 DEF Backed, Rests, Grows
<1>2. ASSUME NEW r \in Requests, Moves(r), Rests(r)'
      PROVE  Backed'
  BY <1>1, <1>2 DEF Backed, Moves
<1>3. ASSUME NEW r \in Requests, req'[r].pc \notin {"conflict", "outcome", "save"}
      PROVE  Rests(r)'
  BY <1>3 DEF Rests
<1>4. ASSUME NEW r \in Requests, Arrive(r)
      PROVE  Rests(r)' /\ Moves(r)
  <2>1. PICK d \in Slots : Start(r, d) /\ d.pc \in {"find", "queue", "resolve"}
    BY <1>4, ArriveMoves
  <2>2. Moves(r) /\ req'[r] = d
    BY <2>1, StartMoves
  <2>. QED
    BY <1>3, <2>1, <2>2
<1>5. ASSUME NEW r \in Requests, Proceed(r) \/ Crash(r)
      PROVE  Rests(r)' /\ Moves(r)
  <2>0. Continues(r)
    BY <1>5, ProceedMoves
  <2>1. CASE req'[r].pc \notin {"conflict", "outcome", "save"}
    BY <1>3, <2>0, <2>1 DEF Continues
  <2>2. ASSUME NEW outcome \in Outcomes, Replay(r, outcome)
        PROVE  Rests(r)'
    <3>. PICK i \in Jobs : i = Current(r)
      BY <2>2, CurrentTyped DEF Replay
    <3>1. /\ req'[r].outcome = outcome /\ req'[r].todo = req[r].todo
          /\ req'[r].pc = IF outcome = "CONFLICT" THEN "conflict" ELSE "outcome"
      BY <2>2 DEF Replay, Rows, Slots
    <3>2. Current(r)' = i
      BY <3>1 DEF Current
    <3>3. outcome = "SUCCEEDED" => effects'[i] > 0
      BY <2>2 DEF Replay, Rows
    <3>. QED
      BY <3>1, <3>2, <3>3 DEF Rests
  <2>3. CASE CreateConflict(r)
    <3>. PICK i \in Jobs : i = Current(r)
      BY <2>3, CurrentTyped DEF CreateConflict
    <3>1. /\ req'[r].outcome = "CONFLICT" /\ req'[r].pc = "outcome"
          /\ req'[r].todo = req[r].todo
      BY <2>3, GotoMoves DEF CreateConflict, PC, Backed, Rests
    <3>2. Current(r)' = i
      BY <3>1 DEF Current
    <3>3. \E k \in DOMAIN conflicts' : conflicts'[k].of = i
      <4>. PICK row : row = [of |-> i, open |-> TRUE]
        OBVIOUS
      <4>1. row.of = i /\ row \in [of : Jobs, open : BOOLEAN]
        OBVIOUS
      <4>2. conflicts' = Append(conflicts, row) /\ conflicts \in Seq([of : Jobs, open : BOOLEAN])
        BY <2>3 DEF CreateConflict, Rows
      <4>3. Len(conflicts) + 1 \in DOMAIN conflicts' /\ conflicts'[Len(conflicts) + 1] = row
        BY <4>1, <4>2, AppendProperties
      <4>. QED
        BY <4>1, <4>3
    <3>. QED
      BY <2>0, <3>1, <3>2, <3>3 DEF Rests, Continues
  <2>4. CASE FinishAttempt(r)
    <3>. PICK i \in Jobs : i = Current(r)
      BY <2>4, CurrentTyped DEF FinishAttempt
    <3>1. /\ req'[r].outcome = req[r].outcome /\ req[r].pc = "outcome" /\ req'[r].pc = "save"
          /\ req'[r].todo = req[r].todo
      BY <2>4, GotoMoves DEF FinishAttempt, PC
    <3>2. Current(r)' = i
      BY <3>1 DEF Current
    <3>3. attempts'[i].done > 0
      <4>1. attempts[i] \in [made : Nat, done : Nat]
        BY DEF Rows
      <4>2. attempts'[i] = [attempts[i] EXCEPT !.done = attempts[i].done + 1]
        BY <2>4 DEF FinishAttempt, Rows
      <4>. QED
        BY <4>1, <4>2
    <3>. QED
      BY <1>0, <2>0, <3>1, <3>2, <3>3 DEF Backed, Rests, Grows, Continues
  <2>5. req'[r].pc \in {"conflict", "outcome", "save"} =>
            \/ \E outcome \in Outcomes : Replay(r, outcome)
            \/ CreateConflict(r) \/ FinishAttempt(r)
    <3>1. CASE NextJob(r)
      BY <3>1 DEF NextJob, Idle, Rows
    <3>2. CASE Refuse(r)
      BY <3>2 DEF Refuse, Idle, Rows
    <3>3. CASE \E q \in {"create", "read", "attempt", "replay"} : Goto(r, q)
      BY <3>3, GotoMoves DEF PC
    <3>4. CASE ReadJob(r)
      <4>1. CASE req' = [req EXCEPT ![r].pc = "begin", ![r].count = job[Current(r)].count]
        BY <4>1 DEF Rows, Slots
      <4>. QED
        BY <3>1, <3>4, <4>1 DEF ReadJob
    <3>. QED
      BY <1>5, <3>1, <3>2, <3>3, <3>4
         DEF Proceed, FindJob, CreateJob, AfterUpsert, MarkInProgress, CreateAttempt,
             SaveOutcome, Requeue, ResolveWrite, Crash
  <2>. QED
    BY <2>0, <2>1, <2>2, <2>3, <2>4, <2>5 DEF Continues
<1>6. ASSUME UNCHANGED vars
      PROVE  Backed'
  BY <1>1, <1>6 DEF vars, Backed
<1>. QED
  BY <1>2, <1>4, <1>5, <1>6 DEF Next

-----------------------------------------------------------------------------
(* What a job reports                                                      *)

\* A step of r: what it writes to the row of the job it works on.
LEMMA JobWrites ==
  ASSUME Rows, Held, NEW r \in Requests, Arrive(r) \/ Proceed(r) \/ Crash(r)
  PROVE  \/ UNCHANGED job
         \/ /\ Current(r) \in Jobs /\ req[r].pc \notin {"idle", "resolve"}
            /\ \A j \in Jobs \ {Current(r)} : job'[j] = job[j]
            /\ \/ /\ CreateJob(r) /\ job[Current(r)].status = "ABSENT"
                  /\ job'[Current(r)].status = "QUEUED"
               \/ /\ MarkInProgress(r) /\ job'[Current(r)].status = "IN_PROGRESS"
                  /\ job'[Current(r)].count = job[Current(r)].count + 1
               \/ /\ SaveOutcome(r) /\ job'[Current(r)].status = StatusAfter(r)
                  /\ job'[Current(r)].count = job[Current(r)].count
               \/ /\ Requeue(r) /\ job'[Current(r)].status = "QUEUED"
<1>1. ASSUME req[r].pc \notin {"idle", "resolve"}
      PROVE  Current(r) \in Jobs
  BY <1>1, CurrentTyped
<1>2. CASE CreateJob(r)
  BY <1>1, <1>2 DEF CreateJob, Rows
<1>3. CASE MarkInProgress(r)
  BY <1>1, <1>3 DEF MarkInProgress, Rows
<1>4. CASE SaveOutcome(r)
  BY <1>1, <1>4 DEF SaveOutcome, Rows
<1>5. CASE Requeue(r)
  BY <1>1, <1>5 DEF Requeue, Rows
<1>. QED
  BY <1>2, <1>3, <1>4, <1>5
     DEF Arrive, Proceed, ReplayBatch, RetryRead, ResolveRead, FindJob, ReadJob, CreateAttempt,
         Replay, CreateConflict, FinishAttempt, ResolveWrite, Crash

LEMMA OutcomeStep ==
  ASSUME Rows, Held, Backed, OutcomeBacked, [Next]_vars
  PROVE  OutcomeBacked'
<1>. DEFINE Reported(j) ==
              /\ job[j].status = "SUCCEEDED" => effects[j] > 0
              /\ job[j].status = "CONFLICT" => \E k \in DOMAIN conflicts : conflicts[k].of = j
              /\ job[j].status \in {"SUCCEEDED", "CONFLICT", "RETRYABLE", "FAILED"}
                     => attempts[j].done > 0
<1>0. Grows
  BY GrowsStep
<1>1. ASSUME NEW j \in Jobs, job'[j] = job[j]
      PROVE  Reported(j)'
  BY <1>0, <1>1 DEF OutcomeBacked, Grows
<1>2. ASSUME NEW r \in Requests, Arrive(r) \/ Proceed(r) \/ Crash(r), ~ UNCHANGED job,
             NEW i \in Jobs, i = Current(r)
      PROVE  Reported(i)'
  <2>1. i = Current(r)
    BY <1>2
  <2>2. CASE job'[i].status \in {"QUEUED", "IN_PROGRESS"}
    BY <2>1, <2>2
  <2>3. CASE SaveOutcome(r) /\ job'[i].status = StatusAfter(r)
    <3>1. /\ req[r].pc = "save" /\ attempts[i].done > 0
          /\ StatusAfter(r) = "SUCCEEDED" => effects[i] > 0
          /\ StatusAfter(r) = "CONFLICT" => \E k \in DOMAIN conflicts : conflicts[k].of = i
      BY <2>1, <2>3 DEF SaveOutcome, StatusAfter, Backed, Rests
    <3>. QED
      BY <1>0, <2>1, <2>3, <3>1 DEF Grows
  <2>. QED
    BY <1>2, <2>1, <2>2, <2>3, JobWrites
<1>3. ASSUME NEW r \in Requests, Arrive(r) \/ Proceed(r) \/ Crash(r)
      PROVE  OutcomeBacked'
  <2>1. CASE UNCHANGED job
    BY <1>1, <2>1 DEF OutcomeBacked
  <2>2. CASE ~ UNCHANGED job
    <3>. PICK i \in Jobs : i = Current(r)
      BY <1>3, <2>2, JobWrites
    <3>1. \A j \in Jobs \ {i} : job'[j] = job[j]
      BY <1>3, <2>2, JobWrites
    <3>2. Reported(i)'
      BY <1>2, <1>3, <2>2
    <3>. QED
      BY <1>1, <3>1, <3>2 DEF OutcomeBacked
  <2>. QED
    BY <2>1, <2>2
<1>4. ASSUME UNCHANGED vars
      PROVE  OutcomeBacked'
  BY <1>1, <1>4 DEF vars, OutcomeBacked
<1>. QED
  BY <1>3, <1>4 DEF Next

-----------------------------------------------------------------------------
(* A request that is alone with its job                                    *)

LEMMA AloneStep ==
  ASSUME Rows, Held, Apart, Alone, HasAttempts, [Next]_vars
  PROVE  Alone' /\ HasAttempts'
<1>0. overlapped \subseteq overlapped' /\ Held'
  BY RequestsStep
<1>a. \A j \in Jobs : job[j].count \in Nat
  BY DEF Rows
<1>1. ASSUME NEW q \in Requests, req'[q] = req[q],
             \/ req[q].pc \in {"idle", "resolve"}
             \/ job'[Current(q)] = job[Current(q)]
             \/ Current(q) \in overlapped
      PROVE  Knows(q)'
  <2>1. Current(q)' = Current(q)
    BY <1>1 DEF Current
  <2>. QED
    BY <1>0, <1>1, <2>1 DEF Alone, Knows
<1>2. ASSUME NEW r \in Requests, NEW q \in Requests \ {r}, Moves(r),
             Arrive(r) \/ Proceed(r) \/ Crash(r)
      PROVE  Knows(q)'
  <2>1. CASE UNCHANGED job \/ req[q].pc \in {"idle", "resolve"} \/ Current(q) # Current(r)
    <3>1. req[q].pc \notin {"idle", "resolve"} => Current(q) \in Jobs
      BY CurrentTyped
    <3>. QED
      BY <1>1, <1>2, <2>1, <3>1, JobWrites DEF Moves
  <2>2. CASE /\ ~ UNCHANGED job /\ req[q].pc \notin {"idle", "resolve"}
             /\ Current(q) = Current(r)
    <3>1. req[r].pc \notin {"idle", "resolve"}
      BY <1>2, <2>2, JobWrites
    <3>2. Current(q) \in JobsOf(q) \cap JobsOf(r)
      BY <2>2, <3>1, CurrentTyped
    <3>. QED
      BY <1>1, <1>2, <3>2 DEF Apart, Moves
  <2>. QED
    BY <2>1, <2>2
<1>3. ASSUME NEW r \in Requests, req'[r].pc \notin Running \cup {"begin", "queue"}
      PROVE  Knows(r)'
  BY <1>3 DEF Knows
<1>4. ASSUME NEW r \in Requests, Arrive(r)
      PROVE  Moves(r) /\ Knows(r)'
  <2>1. PICK d \in Slots : /\ Start(r, d)
                           /\ d.pc \in {"find", "queue", "resolve"}
                           /\ d.pc = "queue" => job[Head(d.todo)].status # "SUCCEEDED"
    BY <1>4, ArriveMoves
  <2>2. UNCHANGED job
    BY <1>4, ArriveMoves
  <2>3. Moves(r) /\ req'[r] = d
    BY <2>1, StartMoves
  <2>4. Current(r)' = Head(d.todo)
    BY <2>3 DEF Current
  <2>. QED
    BY <2>1, <2>2, <2>3, <2>4 DEF Knows, Running
<1>5. ASSUME NEW r \in Requests, Proceed(r) \/ Crash(r)
      PROVE  Moves(r) /\ Knows(r)'
  <2>0. Continues(r)
    BY <1>5, ProceedMoves
  <2>1. CASE req'[r].pc \notin Running \cup {"begin", "queue"}
    BY <1>3, <2>0, <2>1 DEF Continues
  <2>2. CASE MarkInProgress(r)
    <3>. PICK i \in Jobs : i = Current(r)
      BY <2>2, CurrentTyped DEF MarkInProgress
    <3>1. /\ req'[r].pc = "attempt" /\ req[r].pc = "begin"
          /\ req'[r].todo = req[r].todo /\ req'[r].count = req[r].count
      BY <2>2, GotoMoves DEF MarkInProgress, PC
    <3>2. Current(r)' = i
      BY <3>1 DEF Current
    <3>3. job'[i].status = "IN_PROGRESS" /\ job'[i].count = job[i].count + 1
      BY <2>2 DEF MarkInProgress, Rows
    <3>4. i \notin overlapped => job[i].count = req[r].count
      BY <3>1 DEF Alone, Knows
    <3>. QED
      BY <1>0, <2>0, <3>1, <3>2, <3>3, <3>4 DEF Knows, Continues
  <2>3. CASE ReadJob(r) /\ req'[r].pc = "begin"
    <3>. PICK i \in Jobs : i = Current(r)
      BY <2>3, CurrentTyped DEF ReadJob
    <3>1. CASE NextJob(r)
      BY <2>3, <3>1 DEF NextJob, Idle, Rows
    <3>2. CASE /\ req' = [req EXCEPT ![r].pc = "begin", ![r].count = job[i].count]
               /\ job[i].status # "SUCCEEDED"
      <4>1. req'[r].count = job[i].count /\ req'[r].todo = req[r].todo
        BY <3>2 DEF Rows, Slots
      <4>2. Current(r)' = i
        BY <4>1 DEF Current
      <4>. QED
        BY <2>0, <2>3, <3>2, <4>1, <4>2 DEF Knows, Continues, Running, ReadJob
    <3>. QED
      BY <2>3, <3>1, <3>2 DEF ReadJob
  <2>4. CASE /\ req[r].pc \in Running /\ req'[r].pc \in Running /\ UNCHANGED job
             /\ req'[r].todo = req[r].todo /\ req'[r].count = req[r].count
    <3>1. Current(r)' = Current(r)
      BY <2>4 DEF Current
    <3>. QED
      BY <1>0, <2>0, <2>4, <3>1 DEF Alone, Knows, Continues, Running
  <2>5. ASSUME NEW outcome \in Outcomes, Replay(r, outcome)
        PROVE  Moves(r) /\ Knows(r)'
    <3>1. /\ req[r].pc = "replay" /\ req'[r].pc \in {"conflict", "outcome"} /\ UNCHANGED job
          /\ req'[r].todo = req[r].todo /\ req'[r].count = req[r].count
      BY <2>5 DEF Replay, Rows, Slots
    <3>. QED
      BY <2>4, <3>1 DEF Running
  <2>6. CASE CreateAttempt(r) \/ CreateConflict(r) \/ FinishAttempt(r)
    <3>1. /\ req[r].pc \in Running /\ req'[r].pc \in Running /\ UNCHANGED job
          /\ req'[r].todo = req[r].todo /\ req'[r].count = req[r].count
      <4>1. CASE CreateAttempt(r)
        BY <4>1, GotoMoves DEF CreateAttempt, Running, PC
      <4>2. CASE CreateConflict(r)
        BY <4>2, GotoMoves DEF CreateConflict, Running, PC
      <4>3. CASE FinishAttempt(r)
        BY <4>3, GotoMoves DEF FinishAttempt, Running, PC
      <4>. QED
        BY <2>6, <4>1, <4>2, <4>3
    <3>. QED
      BY <2>4, <3>1
  <2>7. CASE \/ FindJob(r) \/ CreateJob(r) \/ SaveOutcome(r) \/ Requeue(r)
             \/ ResolveWrite(r) \/ Crash(r)
    <3>1. CASE NextJob(r)
      BY <2>1, <3>1 DEF NextJob, Idle, Rows, Running
    <3>2. CASE Refuse(r)
      BY <2>1, <3>2 DEF Refuse, Idle, Rows, Running
    <3>3. CASE Goto(r, "create") \/ Goto(r, "read")
      BY <2>1, <3>3, GotoMoves DEF PC, Running
    <3>. QED
      BY <2>7, <3>1, <3>2, <3>3
         DEF FindJob, CreateJob, AfterUpsert, SaveOutcome, Requeue, ResolveWrite, Crash
  <2>8. CASE ReadJob(r) /\ req'[r].pc # "begin"
    <3>1. CASE NextJob(r)
      BY <2>1, <3>1 DEF NextJob, Idle, Rows, Running
    <3>2. CASE req' = [req EXCEPT ![r].pc = "begin", ![r].count = job[Current(r)].count]
      BY <2>8, <3>2 DEF Rows, Slots
    <3>. QED
      BY <2>8, <3>1, <3>2 DEF ReadJob
  <2>. QED
    BY <1>5, <2>2, <2>3, <2>5, <2>6, <2>7, <2>8 DEF Proceed
<1>6. ASSUME NEW r \in Requests, Arrive(r) \/ Proceed(r) \/ Crash(r)
      PROVE  Alone'
  BY <1>2, <1>4, <1>5, <1>6 DEF Alone
<1>7. ASSUME NEW r \in Requests, Arrive(r) \/ Proceed(r) \/ Crash(r),
             NEW j \in Jobs \ overlapped', job'[j].status = "RETRYABLE"
      PROVE  job'[j].count < maxAttempts
  <2>1. CASE job'[j] = job[j]
    BY <1>0, <1>7, <2>1 DEF HasAttempts
  <2>2. CASE job'[j] # job[j]
    <3>1. /\ j = Current(r) /\ SaveOutcome(r) /\ StatusAfter(r) = "RETRYABLE"
          /\ job'[j].count = job[j].count
      BY <1>7, <2>2, JobWrites
    <3>2. ~ (req[r].count + 1 >= maxAttempts)
      BY <3>1 DEF StatusAfter
    <3>3. job[j].count = req[r].count + 1
      BY <1>0, <1>7, <3>1 DEF SaveOutcome, Alone, Knows, Running
    <3>4. req[r].count \in Nat
      BY DEF Rows, Slots
    <3>. QED
      BY <3>1, <3>2, <3>3, <3>4
  <2>. QED
    BY <2>1, <2>2
<1>8. ASSUME UNCHANGED vars
      PROVE  Alone' /\ HasAttempts'
  <2>1. UNCHANGED <<job, req, overlapped>>
    BY <1>8 DEF vars
  <2>. QED
    BY <1>1, <2>1 DEF Alone, HasAttempts
<1>. QED
  BY <1>6, <1>7, <1>8 DEF Next, HasAttempts

-----------------------------------------------------------------------------
(* The theorems                                                            *)

LEMMA SInvStep ==
  ASSUME SInv, [Next]_vars
  PROVE  SInv'
<1>1. Rows' /\ Held' /\ Apart'
  BY RowsStep, RequestsStep DEF SInv
<1>2. Counted'
  BY CountedStep DEF SInv
<1>3. Backed' /\ OutcomeBacked'
  BY BackedStep, OutcomeStep DEF SInv
<1>4. Alone' /\ HasAttempts'
  BY AloneStep DEF SInv
<1>. QED
  BY <1>1, <1>2, <1>3, <1>4 DEF SInv

\* The inductive invariant holds in every behaviour.
THEOREM Invariance == Spec => []SInv
<1>1. SInv /\ [Next]_vars => SInv'
  BY SInvStep
<1>. QED
  BY InitSInv, <1>1, PTL DEF Spec

\* The counters in the order of executeJob's writes, and within the bound.
LEMMA InOrder ==
  ASSUME Rows, Counted, NEW j \in Jobs
  PROVE  /\ effects[j] <= attempts[j].made /\ attempts[j].done <= attempts[j].made
         /\ attempts[j].made <= job[j].count /\ job[j].count <= MaxReplays
         /\ attempts[j].made \in Nat /\ attempts[j].done \in Nat
         /\ effects[j] \in Nat /\ job[j].count \in Nat
<1>1. \A pcs : Cardinality(At(pcs, j)) \in Nat
  <2>. SUFFICES ASSUME NEW pcs PROVE Cardinality(At(pcs, j)) \in Nat
    OBVIOUS
  <2>1. At(pcs, j) \subseteq Requests
    BY DEF At
  <2>. QED
    BY <2>1, RequestsAssumption, FS_Subset, FS_CardinalityType
<1>2. /\ Cardinality(Attempting(j)) \in Nat /\ Cardinality(Replaying(j)) \in Nat
      /\ Cardinality(Unfinished(j)) \in Nat
  BY <1>1 DEF Attempting, Replaying, Unfinished
<1>3. /\ attempts[j].made \in Nat /\ attempts[j].done \in Nat
      /\ effects[j] \in Nat /\ job[j].count \in 0..MaxReplays
  BY DEF Rows
<1>4. /\ attempts[j].made + Cardinality(Attempting(j)) <= job[j].count
      /\ effects[j] + Cardinality(Replaying(j)) <= attempts[j].made
      /\ attempts[j].done + Cardinality(Unfinished(j)) <= attempts[j].made
  BY DEF Counted
<1>. QED
  BY <1>2, <1>3, <1>4

\* Every variable keeps its type, counters within their bounds: no path of
\* executeJob makes more rows or effects than it counted attempts.
THEOREM TypeCorrect == Spec => []TypeOK
<1>1. SInv => TypeOK
  <2>. SUFFICES ASSUME SInv PROVE TypeOK
    OBVIOUS
  <2>1. Rows /\ Counted
    BY DEF SInv
  <2>2. \A j \in Jobs : /\ effects[j] \in 0..MaxReplays
                         /\ attempts[j].made \in 0..MaxReplays
                         /\ attempts[j].done \in 0..MaxReplays
    <3>. SUFFICES ASSUME NEW j \in Jobs
                  PROVE  /\ effects[j] \in 0..MaxReplays
                         /\ attempts[j].made \in 0..MaxReplays
                         /\ attempts[j].done \in 0..MaxReplays
      OBVIOUS
    <3>. QED
      BY <2>1, InOrder
  <2>3. \A j \in Jobs : attempts[j] \in [made : 0..MaxReplays, done : 0..MaxReplays]
    <3>. SUFFICES ASSUME NEW j \in Jobs
                  PROVE  attempts[j] \in [made : 0..MaxReplays, done : 0..MaxReplays]
      OBVIOUS
    <3>1. attempts[j] \in [made : Nat, done : Nat]
      BY <2>1 DEF Rows
    <3>. QED
      BY <2>2, <3>1
  <2>4. /\ attempts \in [Jobs -> [made : 0..MaxReplays, done : 0..MaxReplays]]
        /\ effects \in [Jobs -> 0..MaxReplays]
    BY <2>1, <2>2, <2>3 DEF Rows
  <2>. QED
    BY <2>1, <2>4 DEF Rows, Slots, TypeOK
<1>. QED
  BY Invariance, <1>1, PTL

\* A status that a client reads is backed by rows, however executions of one
\* job interleave or die.
THEOREM StatusesBacked == Spec => []OutcomeBacked
<1>1. SInv => OutcomeBacked
  BY DEF SInv
<1>. QED
  BY Invariance, <1>1, PTL

\* Every effect has its attempt and every attempt is counted; a job that nobody
\* overlapped on and that waits for a retry has an attempt left.
THEOREM AttemptsAreCounted == Spec => []AttemptsCounted
<1>1. SInv => AttemptsCounted
  <2>. SUFFICES ASSUME SInv, NEW j \in Jobs
                PROVE  /\ effects[j] <= attempts[j].made /\ attempts[j].made <= job[j].count
                       /\ attempts[j].done <= attempts[j].made
                       /\ j \notin overlapped /\ job[j].status = "RETRYABLE"
                              => job[j].count < maxAttempts
    BY DEF AttemptsCounted
  <2>. QED
    BY InOrder DEF SInv, HasAttempts
<1>. QED
  BY Invariance, <1>1, PTL

\* A job that succeeded and that no two requests worked on at once stays
\* SUCCEEDED and is not replayed.
THEOREM SuccessStays == Spec => SuccessIsFinal
<1>. DEFINE Stays == \A j \in Jobs :
                        job[j].status = "SUCCEEDED" /\ j \notin overlapped =>
                            job'[j].status = "SUCCEEDED" /\ effects'[j] = effects[j]
<1>1. ASSUME SInv, NEW r \in Requests, Arrive(r) \/ Proceed(r) \/ Crash(r)
      PROVE  Stays
  <2>. SUFFICES ASSUME NEW j \in Jobs, job[j].status = "SUCCEEDED", j \notin overlapped
                PROVE  job'[j].status = "SUCCEEDED" /\ effects'[j] = effects[j]
    OBVIOUS
  <2>0. Rows /\ Held /\ Knows(r)
    BY <1>1 DEF SInv, Alone
  <2>1. CASE job'[j] # job[j]
    <3>1. /\ j = Current(r)
          /\ \/ job[j].status = "ABSENT"
             \/ MarkInProgress(r) \/ SaveOutcome(r) \/ Requeue(r)
      BY <1>1, <2>0, <2>1, JobWrites
    <3>. QED
      BY <2>0, <3>1 DEF Knows, Running, MarkInProgress, SaveOutcome, Requeue
  <2>2. CASE effects'[j] # effects[j]
    <3>1. PICK outcome \in Outcomes : Replay(r, outcome) /\ effects' # effects
      BY <1>1, <2>2
         DEF Arrive, Proceed, ReplayBatch, RetryRead, ResolveRead, FindJob, CreateJob, ReadJob,
             MarkInProgress, CreateAttempt, CreateConflict, FinishAttempt, SaveOutcome, Requeue,
             ResolveWrite, Crash
    <3>2. effects' = [effects EXCEPT ![Current(r)] = @ + 1] /\ req[r].pc = "replay"
      BY <3>1 DEF Replay
    <3>3. j = Current(r)
      BY <2>0, <2>2, <3>2 DEF Rows
    <3>. QED
      BY <2>0, <3>2, <3>3 DEF Knows, Running
  <2>. QED
    BY <2>1, <2>2
<1>2. ASSUME UNCHANGED vars
      PROVE  Stays
  BY <1>2 DEF vars
<1>3. SInv /\ [Next]_vars => Stays
  BY <1>1, <1>2 DEF Next
<1>4. SInv /\ [Next]_vars => [Stays]_vars
  BY <1>3
<1>. QED
  BY Invariance, <1>4, PTL DEF Spec, SuccessIsFinal

=============================================================================
