--------------------------- MODULE AccountsProofs ---------------------------
(***************************************************************************)
(* Proofs about Accounts.  The replica keeps all that is proved of it in   *)
(* UserReplicaProofs, because each step of the process is one of the       *)
(* replica or leaves it alone.  Of the requests it is enough to know how   *)
(* they move from stage to stage (Moves).                                  *)
(***************************************************************************)
EXTENDS Accounts, UserReplicaProofs, FiniteSetTheorems

\* The requests.
Requests ==
  /\ stage \in [Request -> {"new", "answered", "dead"} \cup Trips!Waiting]
  /\ req \in [Request -> Trips!Content \cup {NoRequest}]
  /\ trips \in SUBSET Request
  /\ \A r \in Request : /\ stage[r] \in Trips!Waiting => req[r] \in Trips!Content
                        /\ r \in trips => stage[r] \in {"ack", "answered", "dead"}

-----------------------------------------------------------------------------
(* The replica.                                                            *)

LEMMA ReplicaStep ==
  ASSUME [AccountsNext]_accountsVars
  PROVE  [Next]_vars
BY DEF AccountsNext, Replicate, Serve, Die, StartAgain, Next, Process, accountsVars

\* So what is true of the replica is so here.
LEMMA ProcessRunsReplica == AccountsSpec => Spec
<1>1. AccountsInit => Init
  BY DEF AccountsInit
<1> QED
  BY <1>1, ReplicaStep, PTL DEF AccountsSpec, Spec

LEMMA ReplicaInvariance == AccountsSpec => []PInv
BY ProcessRunsReplica, Tracing, PTL
-----------------------------------------------------------------------------
(* The requests.                                                           *)

Checked == {"locations", "route", "insert", "commit", "ack"}  \* publisher loaded

\* What a step does to request r: it ends it, leaves it where it is, or moves it
\* to its next stage; the publisher is only passed by an active user, and a trip
\* is only stored by a COMMIT.
Moves(r) ==
  /\ \/ stage'[r] = stage[r] /\ req'[r] = req[r]
     \/ stage'[r] \in {"answered", "dead"}
     \/ stage[r] = "new" /\ stage'[r] = "blacklist" /\ req'[r] \in Trips!Content
     \/ /\ stage[r] \in Trips!Guarded
        /\ stage'[r] \in Trips!Guarded \cup {"publisher"}
        /\ req'[r] = req[r]
     \/ /\ stage[r] = "publisher" /\ stage'[r] = "locations" /\ req'[r] = req[r]
        /\ active[req[r].user]
     \/ stage[r] \in Checked /\ stage'[r] \in Checked /\ req'[r] = req[r]
  /\ stage'[r] # stage[r] => stage[r] \in {"new"} \cup Trips!Waiting
  /\ r \in trips' /\ r \notin trips => stage[r] = "commit" /\ stage'[r] = "ack"
  /\ r \in trips => r \in trips' /\ (stage[r] = "ack" => stage'[r] \in {"ack", "answered", "dead"})
  /\ stage[r] # "new" => req'[r] = req[r]

\* The steps of the requests.
LEMMA ServeMoves ==
  ASSUME Requests, Serve
  PROVE  /\ stage' \in [Request -> {"new", "answered", "dead"} \cup Trips!Waiting]
         /\ req' \in [Request -> Trips!Content \cup {NoRequest}]
         /\ trips' \in SUBSET Request
         /\ \A r \in Request : Moves(r)
<1> DEFINE Goal == /\ stage' \in [Request -> {"new", "answered", "dead"} \cup Trips!Waiting]
                   /\ req' \in [Request -> Trips!Content \cup {NoRequest}]
                   /\ trips' \in SUBSET Request
                   /\ \A r \in Request : Moves(r)
<1> USE DEF Requests, Moves, Checked, Trips!Waiting, Trips!Guarded, Trips!Handled,
            Trips!GoTo, Trips!Answer, Trips!world, Trips!effects, Trips!aside
<1>1. ASSUME NEW r \in Request, Trips!Arrive(r)
      PROVE  Goal
  BY <1>1 DEF Trips!Arrive
<1>2. ASSUME NEW r \in Request, Trips!CheckBlacklist(r) \/ Trips!FindUser(r) \/ Trips!Enter(r)
      PROVE  Goal
  BY <1>2 DEF Trips!CheckBlacklist, Trips!FindUser, Trips!Enter
<1>3. ASSUME NEW r \in Request,
             Trips!LoadPublisher(r) \/ Trips!LoadLocations(r) \/ Trips!RouteAnswers(r) \/ Trips!RouteTimesOut(r)
      PROVE  Goal
  BY <1>3 DEF Trips!LoadPublisher, Trips!LoadLocations, Trips!RouteAnswers, Trips!RouteTimesOut
<1>4. ASSUME NEW r \in Request,
             Trips!Insert(r) \/ Trips!CommitTrip(r) \/ Trips!Finish(r) \/ Trips!Fails(r)
      PROVE  Goal
  BY <1>4 DEF Trips!Insert, Trips!CommitTrip, Trips!Finish, Trips!Fails
<1>5. ASSUME NEW r \in Request,
             Trips!StoreAudit(r) \/ Trips!RejectAudit(r) \/ Trips!Announce(r)
      PROVE  Goal
  BY <1>5 DEF Trips!StoreAudit, Trips!RejectAudit, Trips!Announce, Trips!Connect,
              Trips!ConnectRefused, Trips!Send, Trips!SendFails
<1>6. ASSUME NEW u \in User, Trips!SignOut(u)
      PROVE  Goal
  BY <1>6 DEF Trips!SignOut
<1> HIDE DEF Goal
<1>7. Goal
  BY <1>1, <1>2, <1>3, <1>4, <1>5, <1>6 DEF Serve, Trips!Proceed
<1> QED
  BY <1>7 DEF Goal

\* Every step moves the requests so.
LEMMA AllMove ==
  ASSUME Requests, [AccountsNext]_accountsVars
  PROVE  Requests' /\ \A r \in Request : Moves(r)
<1>1. /\ stage' \in [Request -> {"new", "answered", "dead"} \cup Trips!Waiting]
      /\ req' \in [Request -> Trips!Content \cup {NoRequest}]
      /\ trips' \in SUBSET Request
      /\ \A r \in Request : Moves(r)
  <2>1. CASE Serve
    BY <2>1, ServeMoves
  <2>2. CASE Replicate \/ UNCHANGED accountsVars
    BY <2>2 DEF Replicate, accountsVars, own, Requests, Moves
  <2>3. CASE Die
    BY <2>3 DEF Die, Trips!Crash, Trips!effects, Requests, Moves, Trips!Waiting
  <2>4. CASE StartAgain
    BY <2>4 DEF StartAgain, Trips!Restart, Trips!effects, Requests, Moves
  <2> QED
    BY <2>1, <2>2, <2>3, <2>4 DEF AccountsNext
<1>2. ASSUME NEW r \in Request
      PROVE  /\ stage'[r] \in Trips!Waiting => req'[r] \in Trips!Content
             /\ r \in trips' => stage'[r] \in {"ack", "answered", "dead"}
  BY <1>1 DEF Requests, Moves, Checked, Trips!Waiting, Trips!Guarded, Trips!Handled
<1> QED
  BY <1>1, <1>2 DEF Requests

LEMMA RequestsInit == AccountsInit => Requests
BY DEF AccountsInit, Trips!Init, Requests, Trips!Waiting, Trips!Guarded, Trips!Handled
-----------------------------------------------------------------------------
(* Deletions.                                                              *)

\* A request that was too late has passed no check of its publisher, and its
\* user stays deleted.
Late ==
  \A r \in late :
    /\ r \in Request /\ r \notin trips
    /\ stage[r] \in Trips!Guarded \cup {"publisher", "answered", "dead"}
    /\ DeletionSettled(req[r].user)
    /\ req[r].user \in User

\* The settled deletion of a user leaves that user inactive.
LEMMA SettledIsInactive ==
  ASSUME NEW u \in User, DeletionSettled(u)
  PROVE  ~active[u]
BY DEF DeletionSettled, active

LEMMA UserOf ==
  ASSUME NEW q \in Trips!Content
  PROVE  q.user \in User
BY DEF Trips!Content

LEMMA LateStep ==
  ASSUME IInv, Requests, Late, [AccountsNext]_accountsVars
  PROVE  Late'
<1>1. Requests' /\ [Next]_vars
  BY AllMove, ReplicaStep
<1>2. ASSUME NEW r \in late
      PROVE  /\ r \in Request /\ r \notin trips'
             /\ stage'[r] \in Trips!Guarded \cup {"publisher", "answered", "dead"}
             /\ DeletionSettled(req[r].user)' /\ req'[r] = req[r]
             /\ req[r].user \in User
  <2>1. r \in Request /\ Moves(r) /\ ~active[req[r].user]
    BY <1>2, AllMove, SettledIsInactive DEF Late
  <2>2. DeletionSettled(req[r].user)' /\ req'[r] = req[r]
    <3>1. req'[r] = req[r]
      BY <2>1 DEF Late, Moves, Trips!Guarded
    <3>2. PICK u \in User : u = req[r].user
      BY DEF Late
    <3>3. DeletionSettled(u)'
      BY <1>1, <3>2, DeletionStays DEF Late
    <3> QED
      BY <3>1, <3>2, <3>3 DEF DeletionSettled
  <2>3. /\ r \notin trips'
        /\ stage'[r] \in Trips!Guarded \cup {"publisher", "answered", "dead"}
    BY <2>1 DEF Late, Moves, Trips!Guarded, Checked
  <2> QED
    BY <2>1, <2>2, <2>3 DEF Late
<1>3. ASSUME NEW r \in TooLate'
      PROVE  /\ r \in Request /\ r \notin trips'
             /\ stage'[r] \in Trips!Guarded \cup {"publisher"}
             /\ req'[r].user \in User
             /\ DeletionSettled(req[r].user)'
  BY <1>1, UserOf DEF TooLate, Requests, Trips!Guarded, Trips!Waiting
<1>4. late' \subseteq late \cup TooLate'
  BY DEF AccountsNext, Remember, accountsVars
<1> QED
  BY <1>2, <1>3, <1>4 DEF Late
-----------------------------------------------------------------------------
(* Creations.                                                              *)

\* A creation of u has been audited.
Made(u) == \E n \in EventsOf(u) : event[n].type = "create" /\ audit[n] # "none"

\* The rows, and the publishers that were loaded, have been created.
Creations ==
  /\ \A u \in User : users[u] # NoRow => Made(u)
  /\ \A r \in Request : stage[r] \in Checked \/ r \in trips => Made(req[r].user)

LEMMA MadeStays ==
  ASSUME IInv, [Next]_vars, NEW u, Made(u)
  PROVE  Made(u)'
BY TraceStays DEF Made

LEMMA RowsAreMade ==
  ASSUME PInv, Creations, [Next]_vars, NEW u \in User, users'[u] # NoRow
  PROVE  Made(u)'
<1>1. IInv
  BY DEF PInv
<1>2. CASE users[u] # NoRow
  BY <1>1, <1>2, MadeStays DEF Creations
<1>3. CASE users[u] = NoRow
  <2>1. PICK n \in EventId : Commit(n)
    BY <1>3, RowsChangeByCommit
  <2>2. n \in 1..published /\ event[n].user = u /\ event[n].type = "create"
    BY <1>1, <1>3, <2>1, CommitCreates
  <2>3. audit[n] # "none"
    BY <2>1, <2>2 DEF PInv, CopyTraced, Commit
  <2>4. Made(u)
    BY <2>2, <2>3 DEF Made, EventsOf
  <2> QED
    BY <1>1, <2>4, MadeStays
<1> QED
  BY <1>2, <1>3

LEMMA CreationsStep ==
  ASSUME PInv, Requests, Creations, [AccountsNext]_accountsVars
  PROVE  Creations'
<1>1. IInv /\ [Next]_vars
  BY ReplicaStep DEF PInv
<1>2. ASSUME NEW r \in Request, stage'[r] \in Checked \/ r \in trips'
      PROVE  Made(req[r].user)'
  <2>1. req'[r] = req[r] /\ Made(req[r].user)
    <3>1. Moves(r)
      BY AllMove
    <3>2. CASE stage[r] \in Checked \/ r \in trips
      BY <3>1, <3>2 DEF Moves, Requests, Creations, Checked
    <3>3. CASE stage[r] \notin Checked /\ r \notin trips
      <4>1. stage[r] = "publisher" /\ active[req[r].user] /\ req'[r] = req[r]
        BY <1>2, <3>1, <3>3 DEF Moves, Checked, Trips!Guarded
      <4>2. req[r].user \in User
        BY <4>1, UserOf DEF Requests, Trips!Waiting, Trips!Handled
      <4> QED
        BY <4>1, <4>2 DEF active, Creations
    <3> QED
      BY <3>2, <3>3
  <2>2. PICK u : u = req[r].user
    OBVIOUS
  <2>3. Made(u)'
    BY <1>1, <2>1, <2>2, MadeStays
  <2> QED
    BY <2>1, <2>2, <2>3 DEF Made, EventsOf
<1> QED
  BY <1>1, <1>2, RowsAreMade DEF Creations
-----------------------------------------------------------------------------
(* The refinement.  Users change no more often than events are applied, and *)
(* the process dies no more often than there are outages.                  *)

Applied == {n \in EventId : pc[n] = "done"}

Counted ==
  /\ changes \in Nat /\ crashes \in Nat
  /\ changes <= Cardinality(Applied)
  /\ crashes <= outages

LEMMA AppliedFinite ==
  ASSUME NEW S \in SUBSET EventId
  PROVE  IsFiniteSet(S) /\ Cardinality(S) \in Nat /\ Cardinality(S) <= MaxEvents
<1>1. IsFiniteSet(1..MaxEvents) /\ Cardinality(1..MaxEvents) = MaxEvents
  <2>1. MaxEvents \in Int /\ MaxEvents >= 0
    BY BoundsAssumption
  <2>2. /\ IsFiniteSet(1..MaxEvents)
        /\ Cardinality(1..MaxEvents) = IF 1 > MaxEvents THEN 0 ELSE MaxEvents - 1 + 1
    BY <2>1, FS_Interval
  <2> QED
    BY <2>1, <2>2
<1>2. IsFiniteSet(S) /\ Cardinality(S) <= MaxEvents
  BY <1>1, FS_Subset DEF EventId
<1> QED
  BY <1>2, FS_CardinalityType

\* A commit adds its event to those that have been applied.
LEMMA CommitApplies ==
  ASSUME IInv, NEW n \in EventId, Commit(n)
  PROVE  /\ Cardinality(Applied') = Cardinality(Applied) + 1
         /\ Cardinality(Applied) < MaxEvents
<1>1. Applied' = Applied \cup {n} /\ n \notin Applied
  BY DEF Applied, Commit, IInv, TypeOK
<1>2. Cardinality(Applied') = Cardinality(Applied) + 1
  BY <1>1, AppliedFinite, FS_AddElement DEF Applied
<1>3. Applied' \in SUBSET EventId
  BY <1>1 DEF Applied
<1>4. /\ Cardinality(Applied) \in Nat
      /\ Cardinality(Applied') <= MaxEvents
  BY <1>3, AppliedFinite DEF Applied
<1> QED
  BY <1>2, <1>4, BoundsAssumption

\* What has been applied has been applied for good.
LEMMA AppliedGrows ==
  ASSUME IInv, [Next]_vars
  PROVE  Applied \subseteq Applied' /\ Cardinality(Applied) <= Cardinality(Applied')
<1>1. ASSUME NEW n \in EventId, pc[n] = "done"
      PROVE  pc'[n] = "done"
  <2> USE DEF IInv, TypeOK
  <2>1. CASE UserService
    <3>1. PICK e : Broadcast(e)
      BY <2>1 DEF UserService, PublishCreate, PublishUpdate
    <3> QED
      BY <1>1, <3>1 DEF Broadcast, Numbered
  <2>2. ASSUME NEW m \in EventId, Handler(m)
        PROVE  pc'[n] = "done"
    BY <1>1, <2>2 DEF Handler, Progress, ReceiveCreate, ReceiveUpdate, Deliver, Find, FindNothing,
           Lookup, Flush, Commit, Abort, AuditStore, AuditReject, Handling
  <2>3. CASE Process \/ UNCHANGED vars
    BY <1>1, <2>3 DEF Process, Subscribe, SubscribeRejected, BrokerCloses, Crash, Restart, Outage,
           InFlight, Handling, vars
  <2> QED
    BY <2>1, <2>2, <2>3 DEF Next
<1>2. Applied \subseteq Applied' /\ Applied' \in SUBSET EventId
  BY <1>1 DEF Applied
<1> QED
  BY <1>2, AppliedFinite, FS_Subset DEF Applied

\* Replication changes the active users by commits alone, and one at a time.
LEMMA ActiveChange ==
  ASSUME IInv, Replicate
  PROVE  \/ active' = active
         \/ \E u \in User, n \in EventId :
              /\ Commit(n)
              /\ active' = [active EXCEPT ![u] = ~@]
<1>1. [Next]_vars
  BY DEF Replicate, Next, Process
<1>2. CASE users' = users
  BY <1>2 DEF active
<1>3. CASE users' # users
  <2>1. PICK n \in EventId : Commit(n)
    BY <1>1, <1>3, RowsChangeByCommit
  <2>2. PICK u : u = event[n].user
    OBVIOUS
  <2>3. \A v \in User : v # u => users'[v] = users[v]
    BY <2>1, <2>2 DEF Commit, IInv, TypeOK, Table
  <2>4. \A v \in User : v # u => active'[v] = active[v]
    BY <2>3 DEF active
  <2>5. u \in User
    BY <2>1, <2>2, Known DEF Commit
  <2>6. /\ active \in [User -> BOOLEAN] /\ active' \in [User -> BOOLEAN]
    <3>1. \A v \in User : /\ users[v] # NoRow => users[v].status \in BOOLEAN
                         /\ users'[v] # NoRow => users'[v].status \in BOOLEAN
      BY <1>1, InvStep, RowFields DEF IInv, TypeOK, Table
    <3> QED
      BY <3>1 DEF active
  <2> QED
    BY <2>1, <2>4, <2>5, <2>6
<1> QED
  BY <1>2, <1>3

LEMMA CountedInit == AccountsInit => Counted
<1> SUFFICES ASSUME AccountsInit PROVE Counted
  OBVIOUS
<1>1. Cardinality(Applied) \in Nat
  BY AppliedFinite DEF Applied
<1> QED
  BY <1>1 DEF AccountsInit, Init, Trips!Init, Counted

LEMMA CountedStep ==
  ASSUME IInv, Counted, [AccountsNext]_accountsVars
  PROVE  Counted'
<1>1. /\ Cardinality(Applied) \in Nat /\ Cardinality(Applied') \in Nat
      /\ Cardinality(Applied) <= Cardinality(Applied')
  <2>1. Applied \in SUBSET EventId /\ Applied' \in SUBSET EventId
    BY DEF Applied
  <2> QED
    BY <2>1, AppliedFinite, AppliedGrows, ReplicaStep
<1>2. outages \in Nat /\ outages' \in Nat
  BY InvStep, ReplicaStep, BoundsAssumption DEF IInv, TypeOK
<1>3. CASE Replicate
  <2>1. crashes' = crashes /\ outages' >= outages
    <3>1. CASE outages' = outages
      BY <1>2, <1>3, <3>1 DEF Replicate
    <3>2. CASE SubscribeRejected \/ BrokerCloses
      BY <1>2, <1>3, <3>2 DEF Replicate, SubscribeRejected, BrokerCloses, Outage
    <3>3. ASSUME NEW n \in EventId, Handler(n)
          PROVE  outages' = outages
      BY <3>3 DEF Handler, Progress, ReceiveCreate, ReceiveUpdate, Deliver, Find, FindNothing,
           Lookup, Flush, Commit, Abort, AuditStore, AuditReject
    <3>4. ASSUME UserService \/ Subscribe
          PROVE  outages' = outages
      BY <3>4 DEF UserService, PublishCreate, PublishUpdate, Broadcast, Subscribe
    <3> QED
      BY <1>3, <3>1, <3>2, <3>3, <3>4 DEF Replicate
  <2>2. \/ changes' = changes
        \/ changes' = changes + 1 /\ Cardinality(Applied') = Cardinality(Applied) + 1
    <3>1. changes' = IF active' = active THEN changes ELSE changes + 1
      BY <1>3 DEF Replicate, Observe
    <3>2. CASE active' = active
      BY <3>1, <3>2
    <3>3. CASE active' # active
      <4>1. PICK n \in EventId : Commit(n)
        BY <1>3, <3>3, ActiveChange
      <4> QED
        BY <3>1, <3>3, <4>1, CommitApplies
    <3> QED
      BY <3>2, <3>3
  <2> QED
    BY <1>1, <1>2, <2>1, <2>2 DEF Counted
<1>4. CASE Serve
  <2>1. changes' = changes /\ crashes' = crashes /\ outages' = outages
    BY <1>4 DEF Serve, vars, Trips!Arrive, Trips!Proceed, Trips!CheckBlacklist, Trips!FindUser,
         Trips!Enter, Trips!LoadPublisher, Trips!LoadLocations, Trips!RouteAnswers,
         Trips!RouteTimesOut, Trips!Insert, Trips!CommitTrip, Trips!Finish, Trips!Fails,
         Trips!StoreAudit, Trips!RejectAudit, Trips!Announce, Trips!Connect,
         Trips!ConnectRefused, Trips!Send, Trips!SendFails, Trips!SignOut, Trips!world, Trips!aside
  <2> QED
    BY <1>1, <1>2, <2>1 DEF Counted
<1>5. CASE Die
  <2>1. changes' = changes /\ crashes' = crashes + 1 /\ outages' = outages + 1
    BY <1>5 DEF Die, Crash, Outage, Trips!Crash
  <2> QED
    BY <1>1, <1>2, <2>1 DEF Counted
<1>6. CASE StartAgain \/ UNCHANGED accountsVars
  <2>1. changes' = changes /\ crashes' = crashes /\ outages' = outages
    BY <1>6 DEF StartAgain, Restart, Trips!Restart, accountsVars, vars
  <2> QED
    BY <1>1, <1>2, <2>1 DEF Counted
<1> QED
  BY <1>3, <1>4, <1>5, <1>6 DEF AccountsNext

\* What the replica does to the requests is at most one change of one user.
LEMMA ReplicationImplementsChanges ==
  ASSUME IInv, Requests, Counted, Replicate
  PROVE  [Trips!Next]_(Trips!vars)
<1>1. (proc # "down") = (proc' # "down")
  BY DEF Replicate, UserService, PublishCreate, PublishUpdate, Broadcast, Handler,
       Progress, ReceiveCreate, ReceiveUpdate, Deliver, Find, FindNothing, Lookup, Flush, Commit,
       Abort, AuditStore, AuditReject, Subscribe, SubscribeRejected, BrokerCloses
<1>2. UNCHANGED <<own, crashes>> /\ Observe
  BY DEF Replicate
<1>3. CASE active' = active
  BY <1>1, <1>2, <1>3 DEF Observe, own, Trips!vars
<1>4. ASSUME NEW u \in User, NEW n \in EventId, Commit(n), active' = [active EXCEPT ![u] = ~@],
             active' # active
      PROVE  Trips!ChangeUser(u)
  <2>1. active \in [User -> BOOLEAN]
    <3>1. \A v \in User : users[v] # NoRow => users[v].status \in BOOLEAN
      BY RowFields DEF IInv, TypeOK, Table
    <3> QED
      BY <3>1 DEF active
  <2>2. changes < MaxEvents /\ changes' = changes + 1
    <3>1. Cardinality(Applied) \in Nat
      BY AppliedFinite DEF Applied
    <3> QED
      BY <1>2, <1>4, <3>1, CommitApplies, BoundsAssumption DEF Counted, Observe
  <2>3. \A r \in Request : stage[r] \in Trips!Handled => req[r].user \in User
    BY UserOf DEF Requests, Trips!Waiting
  <2>4. seen' = IF active'[u]
                  THEN seen \cup {r \in Request : stage[r] \in Trips!Handled /\ req[r].user = u}
                  ELSE seen
    <3> DEFINE Back == {r \in Request : /\ stage[r] \in Trips!Handled
                                        /\ active'[req[r].user] /\ ~active[req[r].user]}
               Mine == {r \in Request : stage[r] \in Trips!Handled /\ req[r].user = u}
    <3>1. seen' = seen \cup Back
      BY <1>2 DEF Observe
    <3>2. Back = IF active'[u] THEN Mine ELSE {}
      BY <1>4, <2>1, <2>3
    <3> HIDE DEF Back
    <3> QED
      BY <3>1, <3>2
  <2> QED
    BY <1>1, <1>2, <1>4, <2>2, <2>4 DEF Trips!ChangeUser, own, Trips!effects
<1> QED
  BY <1>3, <1>4, ActiveChange DEF Trips!Next

LEMMA StepsImplement ==
  ASSUME IInv, Requests, Counted, [AccountsNext]_accountsVars
  PROVE  [Trips!Next]_(Trips!vars)
<1>1. CASE Replicate
  BY <1>1, ReplicationImplementsChanges
<1>2. CASE Serve
  BY <1>2 DEF Serve, Trips!Next
<1>3. CASE Die \/ StartAgain
  BY <1>3 DEF Die, StartAgain, Trips!Next
<1>4. CASE UNCHANGED accountsVars
  BY <1>4 DEF accountsVars, vars, own, active, Trips!vars
<1> QED
  BY <1>1, <1>2, <1>3, <1>4 DEF AccountsNext
-----------------------------------------------------------------------------
(* The theorems.                                                           *)

AInv == Requests /\ Late /\ Creations /\ Counted

LEMMA Composed == AccountsSpec => [](PInv /\ AInv)
<1>1. AccountsInit => AInv
  BY RequestsInit, CountedInit
     DEF AccountsInit, Init, Trips!Init, AInv, Late, Creations, Checked
<1>2. PInv /\ AInv /\ [AccountsNext]_accountsVars => AInv'
  BY AllMove, LateStep, CreationsStep, CountedStep DEF AInv, PInv
<1> QED
  BY <1>1, <1>2, ReplicaInvariance, PTL DEF AccountsSpec

\* For every number of users, events and requests: once the replica has settled
\* the deletion of a user, no request of that user that has still to load its
\* publisher ever stores a trip (user.repository.ts 110-120, trip.service.ts 66).
THEOREM SettledDeletionsAreHeld == AccountsSpec => []SettledDeletionsHold
<1>1. AInv => SettledDeletionsHold
  BY DEF AInv, Late, SettledDeletionsHold
<1> QED
  BY <1>1, Composed, PTL

\* Whoever publishes a trip was created by an audited event of the user service
\* (user.repository.ts 20-29, 71-73).
THEOREM EveryPublisherWasCreated == AccountsSpec => []PublishersWereCreated
<1>1. AInv => PublishersWereCreated
  BY DEF AInv, Creations, Requests, Made, PublishersWereCreated
<1> QED
  BY <1>1, Composed, PTL

\* The process implements TripCreation: every step of a handler of user events
\* is, for the requests, the change of one user or nothing, so what holds of
\* TripCreation holds with the real replica (user.repository.ts 20-120,
\* trip.service.ts 54-131).
THEOREM AccountsImplementTrips == AccountsSpec => TripsSpec
<1>1. AccountsInit => Trips!Init
  BY DEF AccountsInit
<1>2. PInv /\ AInv /\ [AccountsNext]_accountsVars => [Trips!Next]_(Trips!vars)
  BY StepsImplement DEF AInv, PInv
<1> QED
  BY <1>1, <1>2, Composed, PTL DEF AccountsSpec, TripsSpec, Trips!Spec

\* While requests read the replica it stays what it is alone: the mirror of the
\* events handled, which converges, whose deletions are final once settled, and
\* whose passwords never go back when no handlers overlap (user.repository.ts
\* 20-120, while trip.service.ts 54-131 awaits).
THEOREM ReplicaUnderRequests ==
  AccountsSpec => /\ []Converged /\ []Provenance
                  /\ MirrorSpec
                  /\ PasswordNeverClobbered /\ PasswordsOnlyAdvance /\ DeletionIsFinal
BY ProcessRunsReplica, ReplicaConverges, RowsAreTraced, HandlersMirrorEvents,
   CredentialsFollowPasswordEvents, PasswordsAdvance, DeletionIsFinalOnceSettled
=============================================================================
