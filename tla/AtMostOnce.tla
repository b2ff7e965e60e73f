----------------------------- MODULE AtMostOnce -----------------------------
(***************************************************************************)
(* What the idempotency layer promises its callers, with the protocol that *)
(* keeps the promise left out: a key is bound to one payload, the wrapped  *)
(* write of a key takes effect at most once, and a success that carries    *)
(* the write's result is only ever told to a caller whose payload is the   *)
(* one that took effect.                                                   *)
(***************************************************************************)

EXTENDS Naturals

CONSTANTS
    Keys,       \* idempotency keys (scope, key, method and path together)
    Payloads,   \* request fingerprints
    NoPayload   \* marks a key nobody has used yet

VARIABLES
    bound,      \* bound[k]: the payload key k belongs to
    runs,       \* runs[k]: how often the write of k has taken effect
    told        \* the pairs <<key, payload>> that were told the result

avars == <<bound, runs, told>>

AInit ==
    /\ bound = [k \in Keys |-> NoPayload]
    /\ runs = [k \in Keys |-> 0]
    /\ told = {}

\* The first request with a key binds it to its payload.
Bind(k, p) ==
    /\ bound[k] = NoPayload
    /\ bound' = [bound EXCEPT ![k] = p]
    /\ UNCHANGED <<runs, told>>

\* The write of a bound key takes effect, once.
Execute(k) ==
    /\ bound[k] # NoPayload
    /\ runs[k] = 0
    /\ runs' = [runs EXCEPT ![k] = 1]
    /\ UNCHANGED <<bound, told>>

\* A caller that used the key with its own payload learns the result.
Tell(k) ==
    /\ runs[k] = 1
    /\ told' = told \cup {<<k, bound[k]>>}
    /\ UNCHANGED <<bound, runs>>

ANext ==
    \E k \in Keys :
        \/ \E p \in Payloads : Bind(k, p)
        \/ Execute(k)
        \/ Tell(k)

ASpec == AInit /\ [][ANext]_avars

=============================================================================
