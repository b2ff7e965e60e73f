--------------------------------- MODULE Stock ---------------------------------
(***************************************************************************)
(* Stock of an inventory item (InventoryService): batches are received,    *)
(* and adjusted up (a new batch) or down, from the oldest batch on.        *)
(*                                                                         *)
(* An adjustment runs outside a transaction: it sums the stock, reads the  *)
(* batches again, writes what is left of each, one after the other, as     *)
(* computed from what was read, and inserts the adjustment at last.        *)
(***************************************************************************)
EXTENDS Integers, Sequences, FiniteSets, SequencesExt, FiniteSetsExt

CONSTANTS
    Quantities,     \* what is received or adjusted
    Requests,       \* requests in progress at a time
    MaxBatches, MaxArrivals, MaxCrashes     \* bounds

VARIABLES
    batches,    \* stock_batches rows, oldest first
    adjusted,   \* the sum of the stock_adjustments rows
    req,        \* req[r]: the request's next call and what it carries
    overlaps,   \* whether two requests were ever in progress at once
    arrived,    \* requests taken
    crashes

vars == <<batches, adjusted, req, overlaps, arrived, crashes>>

PC == {"idle", "sum", "find", "deduct", "add", "record"}

\* n is what to adjust by, need what is still to be deducted, todo the batches
\* that were found, with what they held.
Idle == [pc |-> "idle", n |-> 0, need |-> 0, todo |-> <<>>]

Largest == Max(Quantities)

TypeOK ==
    /\ batches \in Seq([received : Quantities, remaining : 0..Largest, manual : BOOLEAN])
    /\ Len(batches) <= MaxBatches
    /\ adjusted \in Int
    /\ \A r \in Requests : /\ req[r].pc \in PC /\ req[r].need \in 0..Largest
                           /\ req[r].n \in -Largest..Largest
    /\ overlaps \in BOOLEAN /\ arrived \in 0..MaxArrivals /\ crashes \in 0..MaxCrashes

Init ==
    /\ batches = <<>>
    /\ adjusted = 0
    /\ req = [r \in Requests |-> Idle]
    /\ overlaps = FALSE /\ arrived = 0 /\ crashes = 0

-----------------------------------------------------------------------------

Start(r, d) ==
    /\ req[r].pc = "idle"
    /\ arrived < MaxArrivals
    /\ arrived' = arrived + 1
    /\ req' = [req EXCEPT ![r] = d]
    /\ overlaps' = (overlaps \/ \E q \in Requests \ {r} : req[q].pc # "idle")

Goto(r, q) == req' = [req EXCEPT ![r].pc = q] /\ UNCHANGED <<overlaps, arrived>>
Finish(r) == req' = [req EXCEPT ![r] = Idle] /\ UNCHANGED <<overlaps, arrived>>

Sum(field(_)) == FoldSeq(LAMBDA b, sum : field(b) + sum, 0, batches)

OnHand == Sum(LAMBDA b : b.remaining)

\* The oldest batches first.
NonEmpty == SetToSortSeq({i \in DOMAIN batches : batches[i].remaining > 0}, <)

-----------------------------------------------------------------------------

\* createStockBatch, received now.
CreateBatch(n) ==
    /\ arrived < MaxArrivals /\ arrived' = arrived + 1
    /\ Len(batches) < MaxBatches
    /\ batches' = Append(batches, [received |-> n, remaining |-> n, manual |-> FALSE])
    /\ UNCHANGED <<adjusted, req, overlaps, crashes>>

\* createStockAdjustment by n, of either sign.
Adjust(r, n) ==
    /\ Start(r, [Idle EXCEPT !.pc = "sum", !.n = n, !.need = IF n < 0 THEN -n ELSE 0])
    /\ UNCHANGED <<batches, adjusted, crashes>>

\* Mutant: the stock may be adjusted below zero.
SumOnHandAny(r) ==
    /\ req[r].pc = "sum"
    /\ Goto(r, IF req[r].n > 0 THEN "add" ELSE "find")
    /\ UNCHANGED <<batches, adjusted, crashes>>

\* "Block negative stock".
SumOnHand(r) ==
    /\ req[r].pc = "sum"
    /\ IF req[r].n > 0 THEN Goto(r, "add")
       ELSE IF OnHand + req[r].n < 0 THEN Finish(r) ELSE Goto(r, "find")
    /\ UNCHANGED <<batches, adjusted, crashes>>

AddBatch(r) ==
    /\ req[r].pc = "add"
    /\ Len(batches) < MaxBatches
    /\ batches' = Append(batches, [received |-> req[r].n, remaining |-> req[r].n, manual |-> TRUE])
    /\ Goto(r, "record")
    /\ UNCHANGED <<adjusted, crashes>>

\* fifoDeduct reads the batches ...
FindBatches(r) ==
    LET found == NonEmpty IN
    /\ req[r].pc = "find"
    /\ req' = [req EXCEPT ![r].pc = IF found = <<>> THEN "record" ELSE "deduct",
                   ![r].todo = [k \in DOMAIN found |->
                                   [batch |-> found[k], held |-> batches[found[k]].remaining]]]
    /\ UNCHANGED <<batches, adjusted, overlaps, arrived, crashes>>

\* ... and writes the next one, until enough was deducted or none is left.
Deduct(r) ==
    LET b == Head(req[r].todo)
        n == Min({b.held, req[r].need})
        done == req[r].need = n \/ Len(req[r].todo) = 1
    IN
    /\ req[r].pc = "deduct"
    /\ batches' = [batches EXCEPT ![b.batch].remaining = b.held - n]
    /\ req' = [req EXCEPT ![r].need = @ - n, ![r].pc = IF done THEN "record" ELSE @,
                          ![r].todo = IF done THEN <<>> ELSE Tail(@)]
    /\ UNCHANGED <<adjusted, overlaps, arrived, crashes>>

\* The adjustment's row says what was asked for, whatever was deducted.
Record(r) ==
    /\ req[r].pc = "record"
    /\ adjusted' = adjusted + req[r].n
    /\ Finish(r)
    /\ UNCHANGED <<batches, crashes>>

Crash(r) ==
    /\ req[r].pc # "idle"
    /\ crashes < MaxCrashes
    /\ crashes' = crashes + 1
    /\ Finish(r)
    /\ UNCHANGED <<batches, adjusted>>

Proceed(r) ==
    SumOnHand(r) \/ AddBatch(r) \/ FindBatches(r) \/ Deduct(r) \/ Record(r)

Next ==
    \/ \E n \in Quantities : CreateBatch(n)
    \/ \E r \in Requests :
           \/ \E n \in Quantities : Adjust(r, n) \/ Adjust(r, -n)
           \/ Proceed(r) \/ Crash(r)

Spec == Init /\ [][Next]_vars

-----------------------------------------------------------------------------
(* What must hold.                                                         *)

\* Between adjustments the stock on hand is what was received and adjusted, and
\* it is taken first in first out: before a batch that was begun every older one
\* is empty.  Unless adjustments overlapped (fifoDeduct writes absolute
\* quantities) or one died before its row was inserted.
StockAgrees ==
    ~overlaps /\ crashes = 0 =>
        /\ (\A r \in Requests : req[r].pc = "idle") =>
               OnHand = Sum(LAMBDA b : IF b.manual THEN 0 ELSE b.received) + adjusted
        /\ \A i, j \in DOMAIN batches :
               i < j /\ batches[j].remaining < batches[j].received => batches[i].remaining = 0

=============================================================================
