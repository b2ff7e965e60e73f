--------------------------------- MODULE Bank ---------------------------------
(***************************************************************************)
(* Bank reconciliation (BankRecService): the lines of an imported bank     *)
(* statement are matched with entries of the books, or skipped, under a    *)
(* reconciliation that may be completed once the matched lines come to the *)
(* statement's balance.                                                    *)
(*                                                                         *)
(* A request is a sequence of single database calls; matching and skipping *)
(* end in a transaction that trusts the rows read before it.  One account, *)
(* one statement; a line's amount is signed by its direction.              *)
(***************************************************************************)
EXTENDS Integers, Sequences, FiniteSets, FiniteSetsExt

CONSTANTS
    Lines, LineAmount,  \* bank_statement_lines and their signed amounts
    StatementBalance,   \* the statement's closingBalance
    Requests,           \* requests in progress at a time
    None,
    MaxRecs, MaxArrivals, MaxCrashes    \* bounds

VARIABLES
    line,       \* the status of each line
    recs,       \* bank_reconciliations rows
    locked,     \* whether the fiscal period of the reconciliations is CLOSED or LOCKED
    req,        \* req[r]: the request's next call and what it carries
    overlaps,   \* whether two requests were ever in progress at once
    arrived,    \* requests taken
    crashes

vars == <<line, recs, locked, req, overlaps, arrived, crashes>>

LineStatus == {"UNMATCHED", "MATCHED", "SKIPPED"}
RecStatus == {"OPEN", "IN_PROGRESS", "COMPLETED"}
PC == {"idle", "count", "insert", "period", "matchLine", "match", "skipLine", "skip", "complete"}

\* status is that of the reconciliation when it was read.
Idle == [pc |-> "idle", rec |-> 0, line |-> None, status |-> "OPEN", count |-> 0]

TypeOK ==
    /\ line \in [Lines -> LineStatus]
    /\ recs \in Seq([status : RecStatus, matched : Int, unmatched : 0..Cardinality(Lines)])
    /\ Len(recs) <= MaxRecs
    /\ locked \in BOOLEAN
    /\ req \in [Requests -> [pc : PC, rec : 0..MaxRecs, line : Lines \cup {None},
                             status : RecStatus, count : 0..Cardinality(Lines)]]
    /\ overlaps \in BOOLEAN /\ arrived \in 0..MaxArrivals /\ crashes \in 0..MaxCrashes

Init ==
    /\ line = [l \in Lines |-> "UNMATCHED"]
    /\ recs = <<>>
    /\ locked = FALSE
    /\ req = [r \in Requests |-> Idle]
    /\ overlaps = FALSE /\ arrived = 0 /\ crashes = 0

-----------------------------------------------------------------------------

Start(r, d) ==
    /\ req[r].pc = "idle"
    /\ arrived < MaxArrivals
    /\ arrived' = arrived + 1
    /\ req' = [req EXCEPT ![r] = d]
    /\ overlaps' = (overlaps \/ \E q \in Requests \ {r} : req[q].pc # "idle")

Goto(r, q) == req' = [req EXCEPT ![r].pc = q] /\ UNCHANGED <<overlaps, arrived>>
Finish(r) == req' = [req EXCEPT ![r] = Idle] /\ UNCHANGED <<overlaps, arrived>>

With(status, of) == {l \in Lines : of[l] = status}

\* _recomputeTotals, over the statement's lines.
MatchedTotal(of) == MapThenSumSet(LAMBDA l : LineAmount[l], With("MATCHED", of))

-----------------------------------------------------------------------------
(* createReconciliation: one at a time for an account                      *)

CreateRead(r) ==
    /\ \A i \in DOMAIN recs : recs[i].status = "COMPLETED"
    /\ Start(r, [Idle EXCEPT !.pc = "count"])
    /\ UNCHANGED <<line, recs, locked, crashes>>

CountUnmatched(r) ==
    /\ req[r].pc = "count"
    /\ req' = [req EXCEPT ![r].pc = "insert", ![r].count = Cardinality(With("UNMATCHED", line))]
    /\ UNCHANGED <<line, recs, locked, overlaps, arrived, crashes>>

\* Lines that an earlier reconciliation matched do not count until the next match.
InsertRec(r) ==
    /\ req[r].pc = "insert"
    /\ Len(recs) < MaxRecs
    /\ recs' = Append(recs, [status |-> "OPEN", matched |-> 0, unmatched |-> req[r].count])
    /\ Finish(r)
    /\ UNCHANGED <<line, locked, crashes>>

-----------------------------------------------------------------------------
(* matchLine                                                               *)

MatchRead(r, i, l) ==
    /\ recs[i].status # "COMPLETED"
    /\ Start(r, [Idle EXCEPT !.pc = "period", !.rec = i, !.line = l, !.status = recs[i].status])
    /\ UNCHANGED <<line, recs, locked, crashes>>

ReadPeriod(r) ==
    /\ req[r].pc = "period"
    /\ IF locked THEN Finish(r) ELSE Goto(r, "matchLine")
    /\ UNCHANGED <<line, recs, locked, crashes>>

MatchReadLine(r) ==
    /\ req[r].pc = "matchLine"
    /\ IF line[req[r].line] = "MATCHED" THEN Finish(r) ELSE Goto(r, "match")
    /\ UNCHANGED <<line, recs, locked, crashes>>

\* The line, and the totals over all lines; the reconciliation's status is the
\* one that was read, or what follows it.
Match(r) ==
    LET after == [line EXCEPT ![req[r].line] = "MATCHED"] IN
    /\ req[r].pc = "match"
    /\ line' = after
    /\ recs' = [recs EXCEPT ![req[r].rec] =
                   [status |-> IF req[r].status = "OPEN" THEN "IN_PROGRESS" ELSE req[r].status,
                    matched |-> MatchedTotal(after),
                    unmatched |-> Cardinality(With("UNMATCHED", after))]]
    /\ Finish(r)
    /\ UNCHANGED <<locked, crashes>>

-----------------------------------------------------------------------------
(* skipLine.  The period is not looked at, the matched total not summed.   *)

SkipRead(r, i, l) ==
    /\ recs[i].status # "COMPLETED"
    /\ Start(r, [Idle EXCEPT !.pc = "skipLine", !.rec = i, !.line = l])
    /\ UNCHANGED <<line, recs, locked, crashes>>

\* Mutant: a matched line is skipped like any other.
SkipReadAnyLine(r) ==
    /\ req[r].pc = "skipLine"
    /\ Goto(r, "skip")
    /\ UNCHANGED <<line, recs, locked, crashes>>

SkipReadLine(r) ==
    /\ req[r].pc = "skipLine"
    /\ IF line[req[r].line] = "MATCHED" THEN Finish(r) ELSE Goto(r, "skip")
    /\ UNCHANGED <<line, recs, locked, crashes>>

Skip(r) ==
    LET after == [line EXCEPT ![req[r].line] = "SKIPPED"] IN
    /\ req[r].pc = "skip"
    /\ line' = after
    /\ recs' = [recs EXCEPT ![req[r].rec].unmatched = Cardinality(With("UNMATCHED", after))]
    /\ Finish(r)
    /\ UNCHANGED <<locked, crashes>>

-----------------------------------------------------------------------------
(* completeReconciliation                                                  *)

CompleteRead(r, i) ==
    /\ recs[i].status = "IN_PROGRESS"
    /\ recs[i].matched = StatementBalance
    /\ Start(r, [Idle EXCEPT !.pc = "complete", !.rec = i])
    /\ UNCHANGED <<line, recs, locked, crashes>>

Complete(r) ==
    /\ req[r].pc = "complete"
    /\ recs' = [recs EXCEPT ![req[r].rec].status = "COMPLETED"]
    /\ Finish(r)
    /\ UNCHANGED <<line, locked, crashes>>

-----------------------------------------------------------------------------

\* The fiscal period is closed (module Books).
ClosePeriod ==
    /\ ~locked
    /\ locked' = TRUE
    /\ UNCHANGED <<line, recs, req, overlaps, arrived, crashes>>

Crash(r) ==
    /\ req[r].pc # "idle"
    /\ crashes < MaxCrashes
    /\ crashes' = crashes + 1
    /\ Finish(r)
    /\ UNCHANGED <<line, recs, locked>>

Arrive(r) ==
    \/ CreateRead(r)
    \/ \E i \in DOMAIN recs :
           CompleteRead(r, i) \/ \E l \in Lines : MatchRead(r, i, l) \/ SkipRead(r, i, l)

Proceed(r) ==
    \/ CountUnmatched(r) \/ InsertRec(r) \/ ReadPeriod(r) \/ MatchReadLine(r) \/ Match(r)
    \/ SkipReadLine(r) \/ Skip(r) \/ Complete(r)

Next == ClosePeriod \/ \E r \in Requests : Arrive(r) \/ Proceed(r) \/ Crash(r)

Spec == Init /\ [][Next]_vars

-----------------------------------------------------------------------------
(* What must hold.                                                         *)

\* A COMPLETED reconciliation balances and, as long as it is the account's last,
\* still says what the lines say, whatever died half-way; at most one is not
\* COMPLETED.  Unless requests overlapped: skipLine and matchLine write a line
\* they read earlier, and matchLine the status it read ("Cannot match lines on
\* a completed reconciliation").
BankAgrees ==
    ~overlaps =>
        /\ \A i \in DOMAIN recs :
               /\ recs[i].status = "COMPLETED" => recs[i].matched = StatementBalance
               /\ recs[i].status # "COMPLETED" => i = Len(recs)
        /\ recs # <<>> =>
               LET last == recs[Len(recs)] IN
               /\ last.status # "OPEN" => last.matched = MatchedTotal(line)
               /\ last.unmatched = Cardinality(With("UNMATCHED", line))

=============================================================================
