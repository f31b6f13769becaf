----------------------------- MODULE UserMirror -----------------------------
(***************************************************************************)
(* What replication promises, seen from the user table alone: numbered     *)
(* events wait in a backlog; the events of one user take effect one at a   *)
(* time, in the order of their numbers, each as a single step; an event    *)
(* may be dropped before it took effect, and is then never applied.        *)
(***************************************************************************)
EXTENDS UserEvents

VARIABLES
  backlog,   \* the events received and not yet applied: pairs <<number, event>>
  users      \* the replicated table: [User -> Row \cup {NoRow}]

mvars == <<backlog, users>>

MirrorInit ==
  /\ backlog = {}
  /\ users = [u \in User |-> NoRow]

\* A new event is numbered after all those that still wait.
Receive(item) ==
  /\ \A old \in backlog : old[1] < item[1]
  /\ backlog' = backlog \cup {item}
  /\ UNCHANGED users

\* The oldest event of a user takes effect.  An update of a user that has no
\* row has none: such an event can only be dropped.
Apply(item) ==
  LET e == item[2] IN
  /\ \A other \in backlog : other[2].user = e.user => item[1] <= other[1]
  /\ e.type = "create" \/ users[e.user] # NoRow
  /\ users' = [users EXCEPT ![e.user] = Effect(@, e)]
  /\ backlog' = backlog \ {item}

Drop ==
  /\ backlog' \in SUBSET backlog
  /\ UNCHANGED users

MirrorNext ==
  \/ \E item \in backlog' \ backlog : Receive(item)
  \/ \E item \in backlog : Apply(item)
  \/ Drop
=============================================================================
