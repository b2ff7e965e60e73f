------------------------------ MODULE Lifecycle ------------------------------
(***************************************************************************)
(* What ReservationsService promises about a reservation: its status moves *)
(* along the graph only, and every status it takes is logged at most once, *)
(* after it was taken.                                                     *)
(***************************************************************************)
EXTENDS Naturals

CONSTANTS
    Things,     \* what has a lifecycle
    First,      \* the status a new thing has
    Absent,     \* the status of one that does not exist yet
    Graph       \* Graph[s]: the statuses that may follow s

VARIABLES
    status,     \* status[v]
    reached,    \* reached[v]: every status v has had
    log         \* log[v][s]: how many entries say that v took s

lvars == <<status, reached, log>>

Statuses == DOMAIN Graph

LInit ==
    /\ status = [v \in Things |-> Absent]
    /\ reached = [v \in Things |-> {}]
    /\ log = [v \in Things |-> [s \in Statuses |-> 0]]

Enter(v, s) ==
    /\ status' = [status EXCEPT ![v] = s]
    /\ reached' = [reached EXCEPT ![v] = @ \cup {s}]
    /\ UNCHANGED log

\* v comes into being.
Begin(v) == status[v] = Absent /\ Enter(v, First)

\* v moves along the graph.
Move(v, s) == status[v] # Absent /\ s \in Graph[status[v]] /\ Enter(v, s)

\* A status v has taken is logged, once.
Log(v, s) ==
    /\ s \in reached[v]
    /\ log[v][s] = 0
    /\ log' = [log EXCEPT ![v][s] = 1]
    /\ UNCHANGED <<status, reached>>

LNext ==
    \E v \in Things :
        \/ Begin(v)
        \/ \E s \in Statuses : Move(v, s) \/ Log(v, s)

LSpec == LInit /\ [][LNext]_lvars

=============================================================================
