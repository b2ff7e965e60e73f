-------------------------- MODULE IdempotencyProofs -------------------------
(***************************************************************************)
(* Idempotency for any number of requests, keys and payloads: its types,   *)
(* the election of one owner per key, the single effect, and the step      *)
(* simulation of AtMostOnce.                                               *)
(***************************************************************************)
EXTENDS Idempotency, TLAPS

\* Where a key's row and effect count stand to each other and to the
\* requests that work on the key.  A row nobody inserted has no effect and no
\* hash; a request about to run its handler finds none; one about to complete
\* has left exactly one, bound to its own payload.
Progress ==
    /\ \A k \in Keys :
           /\ row[k].status = "ABSENT" => effects[k] = 0
           /\ row[k].status = "ABSENT" <=> row[k].hash = NoPayload
           /\ row[k].status = "SUCCEEDED" => effects[k] = 1
    /\ \A c \in Clients :
           /\ req[c].pc = "run" => effects[req[c].key] = 0
           /\ req[c].pc = "succeed" => effects[req[c].key] = 1
           /\ req[c].pc \in Owning => row[req[c].key].hash = req[c].payload

IInv == TypeOK /\ OneOwner /\ AtMostOneEffect /\ Progress

\* The requests start idle, the rows absent: IInv holds initially.
LEMMA InitIInv == Init => IInv
<1> SUFFICES ASSUME Init PROVE IInv
    OBVIOUS
<1> USE KeysAssumption, NoPayloadAssumption DEF Init
<1>1. TypeOK
    BY DEF TypeOK, RowStatus, PC, Bodies
<1>2. OneOwner /\ AtMostOneEffect /\ Progress
    BY DEF OneOwner, AtMostOneEffect, Progress, Owning
<1> QED
    BY <1>1, <1>2 DEF IInv

\* Steps that change nothing but where a request is, when they do not make
\* it an owner, keep IInv.
LEMMA MoveIInv ==
    ASSUME IInv, NEW c \in Clients, UNCHANGED <<row, effects>>,
           NEW q \in PC \ Owning,
           \/ req' = [req EXCEPT ![c].pc = q]
           \/ \E k \in Keys, p \in Payloads :
                  req' = [req EXCEPT ![c] = [pc |-> q, key |-> k, payload |-> p]],
           told' \in SUBSET [key : Keys, payload : Payloads, body : Bodies],
           window' \in BOOLEAN, sent' \in Nat, crashes' \in Nat
    PROVE  IInv'
<1> USE DEF IInv, TypeOK
<1>1. TypeOK'
    BY SMTT(60) DEF RowStatus, PC, Bodies
<1>2. \A d \in Clients : req'[d].pc \in Owning => d # c /\ req'[d] = req[d]
    BY DEF Owning, PC
<1>3. OneOwner' /\ AtMostOneEffect' /\ Progress'
    BY <1>2 DEF OneOwner, AtMostOneEffect, Progress, Owning
<1> QED
    BY <1>1, <1>3

\* The insert makes c the only owner of its key: the row was absent, and the
\* row of an owner is IN_FLIGHT.
LEMMA CreateIInv ==
    ASSUME IInv, NEW c \in Clients, Create(c)
    PROVE  IInv'
<1> USE DEF IInv, TypeOK, Create, Step
<1>1. TypeOK'
    BY DEF RowStatus, PC
<1>2. req[c].key \in Keys /\ req[c].payload \in Payloads /\ req'[c].pc = "run"
    BY DEF PC
<1>3. \A d \in Clients : req[d].pc \in Owning => req[d].key # req[c].key
    BY DEF OneOwner
<1>4. OneOwner'
    BY <1>2, <1>3 DEF OneOwner, Owning
<1>5. AtMostOneEffect' /\ Progress'
    BY <1>2, <1>3, NoPayloadAssumption DEF AtMostOneEffect, Progress, Owning
<1> QED
    BY <1>1, <1>4, <1>5

\* The handler runs once for its key: its request is the only owner, and it
\* found no effect.
LEMMA HandlerIInv ==
    ASSUME IInv, NEW c \in Clients, HandlerReturns(c) \/ HandlerThrows(c)
    PROVE  IInv'
<1> USE DEF IInv, TypeOK
<1>1. /\ req[c].key \in Keys /\ req[c].pc = "run"
      /\ effects[req[c].key] = 0
      /\ row[req[c].key].status = "IN_FLIGHT"
    BY DEF HandlerReturns, HandlerThrows, Step, Progress, OneOwner, Owning
<1>2. \A d \in Clients \ {c} : req[d].pc \in Owning => req[d].key # req[c].key
    BY <1>1 DEF OneOwner, Owning
<1>3. PICK q \in {"succeed", "fail"} :
          /\ req' = [req EXCEPT ![c].pc = q]
          /\ \/ q = "fail" /\ effects' = effects
             \/ effects' = [effects EXCEPT ![req[c].key] = 1]
          /\ UNCHANGED <<row, told, window, sent, crashes>>
    BY <1>1 DEF HandlerReturns, HandlerThrows, Step
<1>4. TypeOK'
    BY <1>3 DEF PC
<1>5. OneOwner'
    BY <1>1, <1>2, <1>3 DEF OneOwner, Owning
<1>6. AtMostOneEffect'
    BY <1>1, <1>3 DEF AtMostOneEffect
<1>7. Progress'
    BY <1>1, <1>2, <1>3 DEF Progress, Owning
<1> QED
    BY <1>4, <1>5, <1>6, <1>7

\* A completion finishes the row of the request that owns it; the row of
\* every other owner is a different one.
LEMMA CompleteIInv ==
    ASSUME IInv, NEW c \in Clients,
           Complete(c) \/ CompleteThrows(c) \/ CompleteFailed(c)
    PROVE  IInv'
<1> USE DEF IInv, TypeOK
<1>1. /\ req[c].key \in Keys /\ req[c].payload \in Payloads
      /\ req[c].pc \in {"succeed", "fail"}
      /\ row[req[c].key].status = "IN_FLIGHT"
      /\ req[c].pc = "succeed" => effects[req[c].key] = 1
    BY DEF Complete, CompleteThrows, CompleteFailed, Step, Progress, OneOwner, Owning
<1>2. \A d \in Clients \ {c} : req[d].pc \in Owning => req[d].key # req[c].key
    BY <1>1 DEF OneOwner, Owning
<1>3. told' \in SUBSET [key : Keys, payload : Payloads, body : Bodies]
    BY <1>1 DEF Complete, CompleteThrows, CompleteFailed, Answer, Bodies
<1>4. CASE CompleteThrows(c)
    BY <1>1, <1>4 DEF CompleteThrows, Step, PC, OneOwner, AtMostOneEffect, Progress, Owning
<1>5. CASE Complete(c) \/ CompleteFailed(c)
  <2>1. PICK s \in {"SUCCEEDED", "FAILED"} :
            /\ row' = [row EXCEPT ![req[c].key].status = s]
            /\ req' = [req EXCEPT ![c].pc = "idle"]
            /\ s = "SUCCEEDED" => effects[req[c].key] = 1
            /\ UNCHANGED <<effects, window, sent, crashes>>
      BY <1>1, <1>5 DEF Complete, CompleteFailed, Step
  <2>2. TypeOK'
      BY <1>3, <2>1 DEF RowStatus, PC
  <2>3. OneOwner'
      BY <1>1, <1>2, <2>1 DEF OneOwner, Owning
  <2>4. AtMostOneEffect'
      BY <2>1 DEF AtMostOneEffect
  <2>5. Progress'
      BY <1>1, <1>2, <2>1 DEF Progress, Owning
  <2> QED
      BY <2>2, <2>3, <2>4, <2>5
<1> QED
    BY <1>4, <1>5

\* Every step of the guard and of its environment keeps IInv: a case for each
\* action, by the lemmas above.
LEMMA NextIInv == IInv /\ [Next]_vars => IInv'
<1> SUFFICES ASSUME IInv, [Next]_vars PROVE IInv'
    OBVIOUS
<1>1. ASSUME NEW c \in Clients, NEW k \in Keys, NEW p \in Payloads, Receive(c, k, p)
      PROVE  IInv'
  <2>1. /\ told' \in SUBSET [key : Keys, payload : Payloads, body : Bodies]
        /\ window' \in BOOLEAN /\ sent' \in Nat /\ crashes' \in Nat
      BY <1>1 DEF Receive, IInv, TypeOK
  <2>2. "lookup" \in PC \ Owning
      BY DEF PC, Owning
  <2> QED
      BY <1>1, <2>1, <2>2, MoveIInv DEF Receive
<1>2. ASSUME NEW c \in Clients, LookupMiss(c) \/ LookupRefused(c) \/ CreateRefused(c)
      PROVE  IInv'
    BY <1>2, MoveIInv
       DEF LookupMiss, LookupRefused, CreateRefused, Step, IInv, TypeOK, PC, Owning
<1>3. ASSUME NEW c \in Clients, Replay(c) PROVE IInv'
  <2>1. told' \in SUBSET [key : Keys, payload : Payloads, body : Bodies]
      BY <1>3 DEF Replay, Answer, IInv, TypeOK, Bodies
  <2> QED
      BY <1>3, <2>1, MoveIInv DEF Replay, Step, IInv, TypeOK, PC, Owning
<1>4. ASSUME NEW c \in Clients, Create(c) PROVE IInv'
    BY <1>4, CreateIInv
<1>5. ASSUME NEW c \in Clients, HandlerReturns(c) \/ HandlerThrows(c) PROVE IInv'
    BY <1>5, HandlerIInv
<1>6. ASSUME NEW c \in Clients,
             Complete(c) \/ CompleteThrows(c) \/ CompleteFailed(c)
      PROVE  IInv'
    BY <1>6, CompleteIInv
<1>7. ASSUME NEW c \in Clients, Crash(c) PROVE IInv'
  <2>1. /\ told' \in SUBSET [key : Keys, payload : Payloads, body : Bodies]
        /\ window' \in BOOLEAN /\ sent' \in Nat /\ crashes' \in Nat
      BY <1>7 DEF Crash, IInv, TypeOK
  <2>2. "idle" \in PC \ Owning
      BY DEF PC, Owning
  <2> QED
      BY <1>7, <2>1, <2>2, MoveIInv DEF Crash
<1>8. CASE ToggleWindow
    BY <1>8 DEF ToggleWindow, IInv, TypeOK, OneOwner, AtMostOneEffect, Progress
<1>9. CASE UNCHANGED vars
    BY <1>9 DEF vars, IInv, TypeOK, OneOwner, AtMostOneEffect, Progress
<1> QED
    BY <1>1, <1>2, <1>3, <1>4, <1>5, <1>6, <1>7, <1>8, <1>9 DEF Next, Proceed

\* The inductive invariant holds in every behaviour of the guard.
THEOREM InvariantHolds == Spec => []IInv
BY InitIInv, NextIInv, PTL DEF Spec

\* Every variable keeps its type.
THEOREM TypeCorrect == Spec => []TypeOK
BY InvariantHolds, PTL DEF IInv

\* The write behind an idempotency key takes effect at most once, for any
\* number of racing, retried, failed and lost requests.
THEOREM EffectOnce == Spec => []AtMostOneEffect
BY InvariantHolds, PTL DEF IInv

\* A key has at most one request past its insert, and stays IN_FLIGHT while
\* it has.
THEOREM OwnerUnique == Spec => []OneOwner
BY InvariantHolds, PTL DEF IInv

-----------------------------------------------------------------------------
(* The refinement of AtMostOnce.                                           *)

Bound == [k \in Keys |-> row[k].hash]
Told == {<<t.key, t.payload>> : t \in {u \in told : u.body = "result"}}

\* A step that leaves hashes, effects and told results alone is a stutter.
LEMMA StutterMaps ==
    ASSUME UNCHANGED <<row, effects, told>>
    PROVE  UNCHANGED Promise!avars
BY DEF Promise!avars

\* Each action of the promise is one of its steps.
LEMMA BindIsStep ==
    ASSUME NEW k \in Keys, NEW p \in Payloads, Promise!Bind(k, p)
    PROVE  Promise!ANext
BY DEF Promise!ANext

\* ... Tell ...
LEMMA TellIsStep ==
    ASSUME NEW k \in Keys, Promise!Tell(k)
    PROVE  Promise!ANext
BY DEF Promise!ANext

\* ... and Execute.
LEMMA ExecuteIsStep ==
    ASSUME NEW k \in Keys, Promise!Execute(k)
    PROVE  Promise!ANext
BY DEF Promise!ANext

\* An answer with the result is a step Tell, provided the write has run and
\* the caller's payload is the bound one.
LEMMA TellMaps ==
    ASSUME IInv, NEW c \in Clients, Answer(c, "result"),
           effects[req[c].key] = 1, row[req[c].key].hash = req[c].payload,
           \A k \in Keys : row'[k].hash = row[k].hash, UNCHANGED effects
    PROVE  Promise!ANext
<1>1. PICK k \in Keys : k = req[c].key
    BY DEF IInv, TypeOK
<1>2. Told' = Told \cup {<<req[c].key, Bound[req[c].key]>>}
  <2> DEFINE answer == [key |-> req[c].key, payload |-> req[c].payload,
                        body |-> "result"]
             results == {u \in told : u.body = "result"}
             Pairs(S) == {<<t.key, t.payload>> : t \in S}
  <2>1. Told' = Pairs(results \cup {answer})
    <3>1. {u \in told' : u.body = "result"} = results \cup {answer}
        BY DEF Answer
    <3> QED
        BY <3>1 DEF Told
  <2>2. Pairs(results \cup {answer})
            = Pairs(results) \cup {<<answer.key, answer.payload>>}
    <3> HIDE DEF results, answer
    <3> QED
        OBVIOUS
  <2> QED
      BY <1>1, <2>1, <2>2 DEF Told, Bound
<1>3. Bound' = Bound
    BY DEF Bound
<1>4. Promise!Tell(k)
    BY <1>1, <1>2, <1>3 DEF Promise!Tell, Told, Bound
<1> QED
    BY <1>4, TellIsStep

\* Every step of the guard is a step of its promise or a stutter, where the
\* inductive invariant holds.
LEMMA StepMaps ==
    IInv /\ [Next]_vars => [Promise!ANext]_Promise!avars
<1> SUFFICES ASSUME IInv, [Next]_vars PROVE [Promise!ANext]_Promise!avars
    OBVIOUS
<1>1. ASSUME NEW c \in Clients, Create(c) PROVE Promise!ANext
  <2>1. PICK k \in Keys, p \in Payloads : k = req[c].key /\ p = req[c].payload
      BY DEF IInv, TypeOK
  <2>2. row[k].hash = NoPayload
      BY <1>1, <2>1 DEF Create, IInv, Progress
  <2>3. Bound' = [Bound EXCEPT ![k] = p]
      BY <1>1, <2>1 DEF Create, Bound, IInv, TypeOK
  <2>4. Promise!Bind(k, p)
      BY <1>1, <2>1, <2>2, <2>3 DEF Create, Promise!Bind, Bound
  <2> QED
      BY <2>4, BindIsStep
<1>2. ASSUME NEW c \in Clients, HandlerReturns(c) \/ HandlerThrows(c)
      PROVE  Promise!ANext \/ UNCHANGED Promise!avars
  <2>1. PICK k \in Keys : k = req[c].key
      BY DEF IInv, TypeOK
  <2>2. effects[k] = 0 /\ row[k].hash \in Payloads
      BY <1>2, <2>1 DEF HandlerReturns, HandlerThrows, Step, IInv, TypeOK, Progress, Owning
  <2>3. CASE effects' = effects
      BY <1>2, <2>3, StutterMaps DEF HandlerReturns, HandlerThrows
  <2>4. CASE effects' = [effects EXCEPT ![req[c].key] = @ + 1]
    <3>1. effects' = [effects EXCEPT ![k] = effects[k] + 1]
        BY <2>1, <2>4
    <3>2. effects[k] + 1 = 1
        BY <2>2
    <3>3. effects' = [effects EXCEPT ![k] = 1]
        BY <3>1, <3>2
    <3>4. Promise!Execute(k)
        BY <1>2, <2>1, <2>2, <3>3, NoPayloadAssumption
           DEF HandlerReturns, HandlerThrows, Promise!Execute
    <3> QED
        BY <3>4, ExecuteIsStep
  <2> QED
      BY <1>2, <2>3, <2>4 DEF HandlerReturns, HandlerThrows
<1>3. ASSUME NEW c \in Clients, Complete(c) PROVE Promise!ANext
  <2>1. /\ req[c].key \in Keys /\ effects[req[c].key] = 1
        /\ row[req[c].key].hash = req[c].payload
      BY <1>3 DEF Complete, Step, IInv, TypeOK, Progress, Owning
  <2>2. \A k \in Keys : row'[k].hash = row[k].hash
      BY <1>3, <2>1 DEF Complete, IInv, TypeOK
  <2> QED
      BY <1>3, <2>1, <2>2, TellMaps DEF Complete
<1>4. ASSUME NEW c \in Clients, Replay(c)
      PROVE  Promise!ANext \/ UNCHANGED Promise!avars
  <2>1. req[c].key \in Keys
      BY DEF IInv, TypeOK
  <2>2. CASE row[req[c].key].status = "SUCCEEDED"
    <3>1. effects[req[c].key] = 1
        BY <2>1, <2>2 DEF IInv, Progress
    <3>2. Answer(c, "result")
        BY <1>4, <2>2 DEF Replay
    <3> QED
        BY <1>4, <3>1, <3>2, TellMaps DEF Replay
  <2>3. CASE row[req[c].key].status # "SUCCEEDED"
    <3>1. Told' = Told
        BY <1>4, <2>3 DEF Replay, Answer, Told
    <3> QED
        BY <1>4, <3>1 DEF Replay, Promise!avars, Told
  <2> QED
      BY <2>2, <2>3
<1>5. ASSUME NEW c \in Clients, CompleteFailed(c) PROVE UNCHANGED Promise!avars
  <2>1. Bound' = Bound
      BY <1>5 DEF CompleteFailed, Bound, IInv, TypeOK
  <2> QED
      BY <1>5, <2>1 DEF CompleteFailed, Promise!avars, Bound
<1>6. ASSUME NEW c \in Clients,
             \/ LookupMiss(c) \/ LookupRefused(c) \/ CreateRefused(c)
             \/ CompleteThrows(c) \/ Crash(c)
             \/ \E k \in Keys, p \in Payloads : Receive(c, k, p)
      PROVE  UNCHANGED Promise!avars
    BY <1>6, StutterMaps
       DEF LookupMiss, LookupRefused, CreateRefused, CompleteThrows, Crash, Receive
<1>7. CASE ToggleWindow \/ UNCHANGED vars
    BY <1>7, StutterMaps DEF ToggleWindow, vars
<1> QED
    BY <1>1, <1>2, <1>3, <1>4, <1>5, <1>6, <1>7 DEF Next, Proceed

\* The guard implements its promise: a key is bound to one payload, its write
\* takes effect once, and its result reaches only callers of that payload.
THEOREM Implements == Spec => ImplementsAtMostOnce
<1>1. Init => Promise!AInit
    BY DEF Init, Promise!AInit
<1> QED
    BY <1>1, InvariantHolds, StepMaps, PTL
       DEF Spec, ImplementsAtMostOnce, Promise!ASpec

=============================================================================
