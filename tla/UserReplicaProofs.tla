-------------------------- MODULE UserReplicaProofs --------------------------
(***************************************************************************)
(* Proofs about UserReplica, for every number of users, events, handlers,  *)
(* faults and outages.  The inductive invariant IInv says what the copies  *)
(* of a running handler may hold.                                          *)
(***************************************************************************)
EXTENDS UserReplica, TLAPS

Loaded == {"lookup", "write", "commit"}   \* the handler holds an entity
Saving == {"write", "commit"}             \* and has looked the row up

\* The events are numbered in the order of their broadcast.
Numbered ==
  \A n \in EventId : /\ pc[n] # "unsent" => n <= published
                     /\ n <= published => event[n] \in Event

\* The user service creates a user once, and before the replica has it.
CreatedOnce ==
  /\ \A u \in User : users[u] # NoRow => source[u] # NoRow
  /\ \A n \in 1..published : source[event[n].user] # NoRow
  /\ \A m, n \in 1..published :
       event[m].type = "create" /\ event[n].type = "create" /\ event[m].user = event[n].user
         => m = n

\* The row exists for the handler of an update that found it, and does not
\* exist yet for that of a creation.
RowOf(n) ==
  /\ pc[n] \in Loaded => mem[n] \in Row
  /\ event[n].type # "create" =>
       /\ pc[n] \in Loaded => users[event[n].user] # NoRow
       /\ pc[n] \in Saving => db[n] # NoRow
  /\ event[n].type = "create" =>
       /\ pc[n] \in {"queued", "find"} \cup Loaded => users[event[n].user] = NoRow
       /\ pc[n] # "find"
       /\ pc[n] \in Saving => db[n] = NoRow

\* Loaded copies have no credentials unless the event brought them.
CredOf(n) ==
  /\ pc[n] \in Loaded /\ mem[n].cred # Hidden =>
       event[n].type \in {"create", "password"} /\ mem[n].cred = event[n].value
  /\ pc[n] \in Saving /\ db[n] # NoRow => db[n].cred = Hidden

IInv ==
  /\ TypeOK
  /\ Numbered
  /\ CreatedOnce
  /\ \A n \in 1..published : RowOf(n) /\ CredOf(n)

-----------------------------------------------------------------------------
(* The rows that the handlers compute.                                     *)

LEMMA RowFields ==
  \A row \in Row : row.status \in BOOLEAN /\ row.cred \in Nat /\ row.info \in Nat
BY DEF Row

LEMMA SelectRow ==
  \A row \in Row : /\ Select(row) \in Row
                   /\ Select(row).cred = Hidden
                   /\ Select(row).status = row.status
                   /\ Select(row).info = row.info
BY DEF Select, Row, Hidden

LEMMA NewUserRow ==
  \A e \in Event : /\ NewUser(e) \in Row
                   /\ NewUser(e).status
                   /\ NewUser(e).cred = e.value
                   /\ NewUser(e).info = e.value
BY DEF NewUser, Row, Event

LEMMA AssignRow ==
  \A row \in Row, e \in Event :
    /\ Assign(row, e) \in Row
    /\ Assign(row, e).status <=> row.status /\ e.type # "delete"
    /\ Assign(row, e).cred = IF e.type = "password" THEN e.value ELSE row.cred
    /\ Assign(row, e).info = row.info \/ (e.type = "info" /\ Assign(row, e).info = e.value)
BY DEF Assign, Row, Event

LEMMA EffectRow ==
  \A row \in Row \cup {NoRow}, e \in Event :
    row # NoRow \/ e.type = "create" => Effect(row, e) \in Row
BY AssignRow, NewUserRow DEF Effect

LEMMA MergeRow ==
  \A row, copy, stored \in Row :
    /\ Merge(row, copy, stored) \in Row
    /\ Merge(row, copy, stored).status =
         IF copy.status # stored.status THEN copy.status ELSE row.status
    /\ Merge(row, copy, stored).cred =
         IF copy.cred # stored.cred THEN copy.cred ELSE row.cred
    /\ Merge(row, copy, stored).info =
         IF copy.info # stored.info THEN copy.info ELSE row.info
BY DEF Merge, Row

LEMMA TrailSteps ==
  ASSUME Trail!TypeOK, NEW n \in EventId
  PROVE  /\ Trail!Fire(n) \/ Trail!Store(n) \/ Trail!Reject(n) \/ Trail!Wipe => Trail!TypeOK'
         /\ Trail!Fire(n) \/ Trail!Store(n) \/ Trail!Reject(n) \/ Trail!Wipe
              => \A m \in EventId : audit[m] # "none" => audit'[m] # "none"
         /\ Trail!Fire(n) => audit'[n] # "none"
BY DEF Trail!TypeOK, Trail!Fire, Trail!Store, Trail!Reject, Trail!Wipe, Trail!AuditState

LEMMA TrailWipe ==
  ASSUME Trail!TypeOK, Trail!Wipe
  PROVE  /\ Trail!TypeOK'
         /\ \A m \in EventId : audit[m] # "none" => audit'[m] # "none"
BY DEF Trail!TypeOK, Trail!Wipe, Trail!AuditState
-----------------------------------------------------------------------------
(* Every action preserves the invariant.                                   *)

\* The numbers in use are numbers of events.
LEMMA Numbers ==
  ASSUME IInv
  PROVE  published \in Nat /\ 1..published \subseteq EventId
BY BoundsAssumption DEF IInv, TypeOK, EventId

\* What the invariant says of an event that has been broadcast.
LEMMA Known ==
  ASSUME IInv, NEW n \in EventId, pc[n] # "unsent" \/ n <= published
  PROVE  /\ n \in 1..published
         /\ event[n] \in Event
         /\ event[n].user \in User
         /\ event[n].value \in Nat
         /\ event[n].type \in EventType
         /\ users[event[n].user] \in Row \cup {NoRow}
         /\ db[n] \in Row \cup {NoRow}
         /\ mem[n] \in Row \cup {NoRow}
         /\ RowOf(n)
         /\ CredOf(n)
<1>1. n \in 1..published
  BY DEF IInv, TypeOK, Numbered, EventId
<1>2. event[n] \in Event
  BY <1>1 DEF IInv, Numbered
<1> QED
  BY <1>1, <1>2 DEF IInv, TypeOK, Table, Event

\* A step of the handlers or of the process leaves the broadcasts alone; no
\* event becomes or ceases to be unsent.
LEMMA BroadcastFrame ==
  ASSUME IInv, UNCHANGED <<source, published, event>>,
         \A n \in EventId : pc[n] = "unsent" => pc'[n] = "unsent",
         \A u \in User : users'[u] # NoRow => users[u] # NoRow \/ source[u] # NoRow
  PROVE  Numbered' /\ CreatedOnce'
BY DEF IInv, Numbered, CreatedOnce

\* A step that leaves the rows and the data of the handler of m alone, and
\* keeps m at its stage or settles it, leaves m in order.
LEMMA HandlerFrame ==
  ASSUME IInv, NEW m \in 1..published, m \in EventId,
         event'[m] = event[m], mem'[m] = mem[m], db'[m] = db[m],
         users'[event[m].user] = users[event[m].user],
         pc'[m] = pc[m] \/ pc'[m] \in Settled \/ (pc[m] = "write" /\ pc'[m] = "commit")
  PROVE  RowOf(m)' /\ CredOf(m)'
BY DEF IInv, RowOf, CredOf, Loaded, Saving, Settled

\* The user service broadcasts: the new event is of the next number and waits,
\* or is lost, with no handler yet; a creation is the first event of its user.
LEMMA BroadcastInv ==
  ASSUME IInv, NEW e \in Event, Broadcast(e),
         e.type = "create" <=> source[e.user] = NoRow
  PROVE  IInv'
<1> SUFFICES ASSUME NEW k \in Nat, k = published + 1
             PROVE  IInv'
  BY Numbers
<1>1. /\ e.user \in User
      /\ k \in EventId
      /\ k \notin 1..published
      /\ 1..published' = (1..published) \cup {k}
  BY BoundsAssumption DEF Broadcast, IInv, TypeOK, EventId, Event
<1>2. Effect(source[e.user], e) \in Row
  BY <1>1, EffectRow DEF IInv, TypeOK, Table
<1>3. /\ pc[k] = "unsent"
      /\ pc'[k] \in {"queued", "lost"}
      /\ event'[k] = e
  BY <1>1 DEF Broadcast, IInv, TypeOK, Numbered, EventId
<1>4. UNCHANGED <<mem, db, users, audit, proc, raced, faults, outages>>
  BY DEF Broadcast
<1>5. TypeOK'
  <2>1. source' \in Table
    BY <1>1, <1>2 DEF Broadcast, IInv, TypeOK, Table
  <2>2. published' \in 0..MaxEvents
    BY BoundsAssumption DEF Broadcast, IInv, TypeOK
  <2>3. event' \in [EventId -> Event \cup {NoEvent}]
    BY <1>1 DEF Broadcast, IInv, TypeOK
  <2>4. pc' \in [EventId -> Stage]
    BY <1>1 DEF Broadcast, IInv, TypeOK, Stage, Settled
  <2> QED
    BY <2>1, <2>2, <2>3, <2>4, <1>4 DEF IInv, TypeOK, Table, Trail!TypeOK
<1>6. Numbered'
  BY <1>1, <1>3 DEF Broadcast, IInv, TypeOK, Numbered, EventId
<1>7. \A m \in 1..published : /\ m \in EventId
                             /\ event'[m] = event[m]
                             /\ pc'[m] = pc[m]
                             /\ event[m].user \in User
                             /\ source[event[m].user] # NoRow
  BY <1>1, Numbers, Known DEF Broadcast, IInv, TypeOK, CreatedOnce
<1>8. CreatedOnce'
  <2>1. \A m \in 1..published' : source'[event'[m].user] # NoRow
    BY <1>1, <1>2, <1>3, <1>7, NoRowAssumption DEF Broadcast, IInv, TypeOK, Table
  <2>2. ASSUME NEW m \in 1..published', NEW n \in 1..published',
               event'[m].type = "create", event'[n].type = "create",
               event'[m].user = event'[n].user
        PROVE  m = n
    BY <1>1, <1>3, <1>7, <2>2 DEF IInv, CreatedOnce
  <2>3. \A v \in User : users'[v] # NoRow => source'[v] # NoRow
    BY <1>1, <1>2, <1>4, NoRowAssumption DEF Broadcast, IInv, TypeOK, Table, CreatedOnce
  <2> QED
    BY <2>1, <2>2, <2>3 DEF CreatedOnce
<1>9. ASSUME NEW m \in 1..published
      PROVE  RowOf(m)' /\ CredOf(m)'
  BY <1>4, <1>7, HandlerFrame
<1>10. RowOf(k)' /\ CredOf(k)'
  <2>1. e.type = "create" => users[e.user] = NoRow
    BY <1>1 DEF IInv, CreatedOnce
  <2> QED
    BY <1>3, <1>4, <2>1 DEF RowOf, CredOf, Loaded, Saving
<1> QED
  BY <1>1, <1>5, <1>6, <1>8, <1>9, <1>10 DEF IInv

\* What a commit leaves in the table is a row.
LEMMA CommitRow ==
  ASSUME IInv, NEW n \in 1..published, n \in EventId, pc[n] = "commit"
  PROVE  /\ db[n] = NoRow => mem[n] \in Row
         /\ db[n] # NoRow => Merge(users[event[n].user], mem[n], db[n]) \in Row
<1>1. RowOf(n) /\ event[n].user \in User
  BY Known DEF IInv
<1>2. mem[n] \in Row /\ db[n] \in Row \cup {NoRow} /\ users[event[n].user] \in Row \cup {NoRow}
  BY <1>1, Known DEF RowOf, Loaded
<1>3. db[n] # NoRow => users[event[n].user] # NoRow
  BY <1>1 DEF RowOf, Loaded, Saving
<1> QED
  BY <1>2, <1>3, MergeRow

LEMMA InvInit == Init => IInv
BY BoundsAssumption DEF Init, IInv, TypeOK, Table, Stage, Numbered, CreatedOnce, EventId,
       Trail!Init, Trail!TypeOK, Trail!AuditState

LEMMA InvStep == IInv /\ [Next]_vars => IInv'
<1> SUFFICES ASSUME IInv, [Next]_vars PROVE IInv'
  OBVIOUS
<1>1. ASSUME NEW u \in User, PublishCreate(u)
      PROVE  IInv'
  <2> DEFINE e == [type |-> "create", user |-> u, value |-> published + 1]
  <2>1. e \in Event
    BY DEF IInv, TypeOK, Event, EventType
  <2> QED
    BY <1>1, <2>1, BroadcastInv DEF PublishCreate
<1>2. ASSUME NEW u \in User, NEW type \in EventType \ {"create"}, PublishUpdate(u, type)
      PROVE  IInv'
  <2>1. PICK value \in Nat : Broadcast([type |-> type, user |-> u, value |-> value])
    BY <1>2 DEF PublishUpdate, Blank, IInv, TypeOK
  <2>2. [type |-> type, user |-> u, value |-> value] \in Event
    BY DEF Event
  <2> QED
    BY <1>2, <2>1, <2>2, BroadcastInv DEF PublishUpdate
<1>3. ASSUME NEW n \in EventId, ReceiveCreate(n)
      PROVE  IInv'
  <2>1. pc[n] # "unsent" /\ n \in 1..published
    BY <1>3, Known DEF ReceiveCreate, Deliver, Handling
  <2>2. TypeOK'
    BY <1>3, <2>1, Known, BoundsAssumption, NewUserRow DEF ReceiveCreate, Deliver, IInv, TypeOK, Table, Stage, Handling, Settled, Trail!TypeOK
  <2>3. Numbered' /\ CreatedOnce'
    BY <1>3, <2>1, Known, BroadcastFrame DEF ReceiveCreate, Deliver, IInv, TypeOK, CreatedOnce, Table
  <2>4. ASSUME NEW m \in 1..published, m # n
        PROVE  RowOf(m)' /\ CredOf(m)'
    <3>1. m \in EventId
      BY Numbers
    <3> QED
      BY <1>3, <2>1, <2>4, <3>1, HandlerFrame DEF ReceiveCreate, Deliver, IInv, TypeOK
  <2>5. RowOf(n)' /\ CredOf(n)'
    BY <1>3, <2>1, Known, NewUserRow DEF ReceiveCreate, Deliver, RowOf, CredOf, Loaded, Saving, IInv, TypeOK
  <2> QED
    BY <1>3, <2>2, <2>3, <2>4, <2>5 DEF ReceiveCreate, Deliver, IInv
<1>4. ASSUME NEW n \in EventId, ReceiveUpdate(n)
      PROVE  IInv'
  <2>1. pc[n] # "unsent" /\ n \in 1..published
    BY <1>4, Known DEF ReceiveUpdate, Deliver, Handling
  <2>2. TypeOK'
    BY <1>4, <2>1, Known, BoundsAssumption DEF ReceiveUpdate, Deliver, IInv, TypeOK, Table, Stage, Handling, Settled, Trail!TypeOK
  <2>3. Numbered' /\ CreatedOnce'
    BY <1>4, <2>1, Known, BroadcastFrame DEF ReceiveUpdate, Deliver, IInv, TypeOK, CreatedOnce, Table
  <2>4. ASSUME NEW m \in 1..published, m # n
        PROVE  RowOf(m)' /\ CredOf(m)'
    <3>1. m \in EventId
      BY Numbers
    <3> QED
      BY <1>4, <2>1, <2>4, <3>1, HandlerFrame DEF ReceiveUpdate, Deliver, IInv, TypeOK
  <2>5. RowOf(n)' /\ CredOf(n)'
    BY <1>4, <2>1, Known DEF ReceiveUpdate, Deliver, RowOf, CredOf, Loaded, Saving, IInv, TypeOK
  <2> QED
    BY <1>4, <2>2, <2>3, <2>4, <2>5 DEF ReceiveUpdate, Deliver, IInv
<1>5. ASSUME NEW n \in EventId, Find(n)
      PROVE  IInv'
  <2>1. pc[n] # "unsent" /\ n \in 1..published
    BY <1>5, Known DEF Find, Handling
  <2>2. TypeOK'
    BY <1>5, <2>1, Known, BoundsAssumption, SelectRow, AssignRow DEF Find, IInv, TypeOK, Table, Stage, Handling, Settled, Trail!TypeOK
  <2>3. Numbered' /\ CreatedOnce'
    BY <1>5, <2>1, Known, BroadcastFrame DEF Find, IInv, TypeOK, CreatedOnce, Table
  <2>4. ASSUME NEW m \in 1..published, m # n
        PROVE  RowOf(m)' /\ CredOf(m)'
    <3>1. m \in EventId
      BY Numbers
    <3> QED
      BY <1>5, <2>1, <2>4, <3>1, HandlerFrame DEF Find, IInv, TypeOK
  <2>5. RowOf(n)' /\ CredOf(n)'
    <3>1. Select(users[event[n].user]) \in Row /\ Select(users[event[n].user]).cred = Hidden
      BY <1>5, <2>1, Known, SelectRow DEF Find
    <3>2. /\ mem'[n] \in Row
          /\ mem'[n].cred = IF event[n].type = "password" THEN event[n].value ELSE Hidden
      BY <1>5, <2>1, <3>1, Known, AssignRow DEF Find, IInv, TypeOK
    <3> QED
      BY <1>5, <2>1, <3>2, Known DEF Find, RowOf, CredOf, Loaded, Saving, IInv, TypeOK
  <2> QED
    BY <1>5, <2>2, <2>3, <2>4, <2>5 DEF Find, IInv
<1>6. ASSUME NEW n \in EventId, FindNothing(n)
      PROVE  IInv'
  <2>1. pc[n] # "unsent" /\ n \in 1..published
    BY <1>6, Known DEF FindNothing, Handling
  <2>2. TypeOK'
    BY <1>6, <2>1, Known, BoundsAssumption DEF FindNothing, IInv, TypeOK, Table, Stage, Handling, Settled, Trail!TypeOK
  <2>3. Numbered' /\ CreatedOnce'
    BY <1>6, <2>1, Known, BroadcastFrame DEF FindNothing, IInv, TypeOK, CreatedOnce, Table
  <2>4. ASSUME NEW m \in 1..published, m # n
        PROVE  RowOf(m)' /\ CredOf(m)'
    <3>1. m \in EventId
      BY Numbers
    <3> QED
      BY <1>6, <2>1, <2>4, <3>1, HandlerFrame DEF FindNothing, IInv, TypeOK
  <2>5. RowOf(n)' /\ CredOf(n)'
    BY <1>6, <2>1, Known, HandlerFrame DEF FindNothing, Settled, IInv, TypeOK
  <2> QED
    BY <1>6, <2>2, <2>3, <2>4, <2>5 DEF FindNothing, IInv
<1>7. ASSUME NEW n \in EventId, Lookup(n)
      PROVE  IInv'
  <2>1. pc[n] # "unsent" /\ n \in 1..published
    BY <1>7, Known DEF Lookup, Handling
  <2>2. TypeOK'
    BY <1>7, <2>1, Known, BoundsAssumption, SelectRow DEF Lookup, IInv, TypeOK, Table, Stage, Handling, Settled, Trail!TypeOK
  <2>3. Numbered' /\ CreatedOnce'
    BY <1>7, <2>1, Known, BroadcastFrame DEF Lookup, IInv, TypeOK, CreatedOnce, Table
  <2>4. ASSUME NEW m \in 1..published, m # n
        PROVE  RowOf(m)' /\ CredOf(m)'
    <3>1. m \in EventId
      BY Numbers
    <3> QED
      BY <1>7, <2>1, <2>4, <3>1, HandlerFrame DEF Lookup, IInv, TypeOK
  <2>5. RowOf(n)' /\ CredOf(n)'
    BY <1>7, <2>1, Known, SelectRow, NoRowAssumption DEF Lookup, RowOf, CredOf, Loaded, Saving, IInv, TypeOK
  <2> QED
    BY <1>7, <2>2, <2>3, <2>4, <2>5 DEF Lookup, IInv
<1>8. ASSUME NEW n \in EventId, Flush(n)
      PROVE  IInv'
  <2>1. pc[n] # "unsent" /\ n \in 1..published
    BY <1>8, Known DEF Flush, Handling
  <2>2. TypeOK'
    BY <1>8, <2>1, Known, BoundsAssumption, TrailSteps DEF Flush, IInv, TypeOK, Table, Stage, Handling, Settled, Trail!TypeOK
  <2>3. Numbered' /\ CreatedOnce'
    BY <1>8, <2>1, Known, BroadcastFrame DEF Flush, IInv, TypeOK, CreatedOnce, Table
  <2>4. ASSUME NEW m \in 1..published, m # n
        PROVE  RowOf(m)' /\ CredOf(m)'
    <3>1. m \in EventId
      BY Numbers
    <3> QED
      BY <1>8, <2>1, <2>4, <3>1, HandlerFrame DEF Flush, IInv, TypeOK
  <2>5. RowOf(n)' /\ CredOf(n)'
    BY <1>8, <2>1, Known, HandlerFrame DEF Flush, IInv, TypeOK
  <2> QED
    BY <1>8, <2>2, <2>3, <2>4, <2>5 DEF Flush, IInv
<1>9. ASSUME NEW n \in EventId, Commit(n)
      PROVE  IInv'
  <2>1. pc[n] # "unsent" /\ n \in 1..published
    BY <1>9, Known DEF Commit, Handling
  <2>2. TypeOK'
    BY <1>9, <2>1, Known, BoundsAssumption, MergeRow, CommitRow DEF Commit, IInv, TypeOK, Table, Stage, Handling, Settled, Trail!TypeOK
  <2>3. Numbered' /\ CreatedOnce'
    BY <1>9, <2>1, Known, BroadcastFrame DEF Commit, IInv, TypeOK, CreatedOnce, Table
  <2>4. ASSUME NEW m \in 1..published, m # n
        PROVE  RowOf(m)' /\ CredOf(m)'
    <3>1. m \in EventId
      BY Numbers
    <3>2. CASE event[m].user # event[n].user
      BY <1>9, <2>1, <2>4, <3>1, <3>2, Known, HandlerFrame DEF Commit, IInv, TypeOK, Table
    <3>3. CASE event[m].user = event[n].user
      <4>1. users'[event[m].user] \in Row
        BY <1>9, <2>1, <3>3, Known, MergeRow DEF Commit, IInv, TypeOK, Table, RowOf, Loaded, Saving
      <4>2. event[m].type = "create" => pc[m] \notin {"queued", "find"} \cup Loaded
        BY <1>9, <2>1, <2>4, <3>1, <3>3, Known DEF Commit, IInv, CreatedOnce, RowOf, Loaded, Saving
      <4> QED
        BY <1>9, <2>1, <2>4, <3>1, <4>1, <4>2, Known, NoRowAssumption
        DEF Commit, IInv, TypeOK, RowOf, CredOf, Loaded, Saving
    <3> QED
      BY <3>2, <3>3
  <2>5. RowOf(n)' /\ CredOf(n)'
    BY <1>9, <2>1, Known DEF Commit, RowOf, CredOf, Loaded, Saving, IInv, TypeOK
  <2> QED
    BY <1>9, <2>2, <2>3, <2>4, <2>5 DEF Commit, IInv
<1>10. ASSUME NEW n \in EventId, Abort(n)
      PROVE  IInv'
  <2>1. pc[n] # "unsent" /\ n \in 1..published
    BY <1>10, Known DEF Abort, Handling
  <2>2. TypeOK'
    BY <1>10, <2>1, Known, BoundsAssumption DEF Abort, IInv, TypeOK, Table, Stage, Handling, Settled, Trail!TypeOK
  <2>3. Numbered' /\ CreatedOnce'
    BY <1>10, <2>1, Known, BroadcastFrame DEF Abort, IInv, TypeOK, CreatedOnce, Table
  <2>4. ASSUME NEW m \in 1..published, m # n
        PROVE  RowOf(m)' /\ CredOf(m)'
    <3>1. m \in EventId
      BY Numbers
    <3> QED
      BY <1>10, <2>1, <2>4, <3>1, HandlerFrame DEF Abort, IInv, TypeOK
  <2>5. RowOf(n)' /\ CredOf(n)'
    BY <1>10, <2>1, Known, HandlerFrame DEF Abort, Settled, IInv, TypeOK
  <2> QED
    BY <1>10, <2>2, <2>3, <2>4, <2>5 DEF Abort, IInv
<1>11. ASSUME NEW n \in EventId, AuditStore(n)
      PROVE  IInv'
  <2>1. TypeOK'
    BY <1>11, BoundsAssumption, TrailSteps DEF AuditStore, IInv, TypeOK, Table, Stage, Handling, Settled
  <2>2. Numbered' /\ CreatedOnce'
    BY <1>11, BroadcastFrame DEF AuditStore, IInv, TypeOK, InFlight, Handling
  <2>3. ASSUME NEW m \in 1..published
        PROVE  RowOf(m)' /\ CredOf(m)'
    BY <1>11, Numbers, HandlerFrame DEF AuditStore, IInv, TypeOK, EventId, Settled
  <2> QED
    BY <1>11, <2>1, <2>2, <2>3 DEF AuditStore, IInv
<1>12. ASSUME NEW n \in EventId, AuditReject(n)
      PROVE  IInv'
  <2>1. TypeOK'
    BY <1>12, BoundsAssumption, TrailSteps DEF AuditReject, IInv, TypeOK, Table, Stage, Handling, Settled
  <2>2. Numbered' /\ CreatedOnce'
    BY <1>12, BroadcastFrame DEF AuditReject, IInv, TypeOK, InFlight, Handling
  <2>3. ASSUME NEW m \in 1..published
        PROVE  RowOf(m)' /\ CredOf(m)'
    BY <1>12, Numbers, HandlerFrame DEF AuditReject, IInv, TypeOK, EventId, Settled
  <2> QED
    BY <1>12, <2>1, <2>2, <2>3 DEF AuditReject, IInv
<1>13. CASE Subscribe
  <2>1. TypeOK'
    BY <1>13, BoundsAssumption DEF Subscribe, IInv, TypeOK, Table, Stage, Handling, Settled, Trail!TypeOK
  <2>2. Numbered' /\ CreatedOnce'
    BY <1>13, BroadcastFrame DEF Subscribe, IInv, TypeOK, InFlight, Handling
  <2>3. ASSUME NEW m \in 1..published
        PROVE  RowOf(m)' /\ CredOf(m)'
    BY <1>13, Numbers, HandlerFrame DEF Subscribe, IInv, TypeOK, EventId, Settled
  <2> QED
    BY <1>13, <2>1, <2>2, <2>3 DEF Subscribe, IInv
<1>14. CASE SubscribeRejected
  <2>1. TypeOK'
    BY <1>14, BoundsAssumption DEF SubscribeRejected, Outage, IInv, TypeOK, Table, Stage, Handling, Settled, Trail!TypeOK
  <2>2. Numbered' /\ CreatedOnce'
    BY <1>14, BroadcastFrame DEF SubscribeRejected, Outage, IInv, TypeOK, InFlight, Handling
  <2>3. ASSUME NEW m \in 1..published
        PROVE  RowOf(m)' /\ CredOf(m)'
    BY <1>14, Numbers, HandlerFrame DEF SubscribeRejected, Outage, IInv, TypeOK, EventId, Settled
  <2> QED
    BY <1>14, <2>1, <2>2, <2>3 DEF SubscribeRejected, Outage, IInv
<1>15. CASE BrokerCloses
  <2>1. TypeOK'
    BY <1>15, BoundsAssumption DEF BrokerCloses, Outage, IInv, TypeOK, Table, Stage, Handling, Settled, Trail!TypeOK, InFlight
  <2>2. Numbered' /\ CreatedOnce'
    BY <1>15, BroadcastFrame DEF BrokerCloses, Outage, IInv, TypeOK, InFlight, Handling
  <2>3. ASSUME NEW m \in 1..published
        PROVE  RowOf(m)' /\ CredOf(m)'
    BY <1>15, Numbers, HandlerFrame DEF BrokerCloses, Outage, IInv, TypeOK, EventId, Settled
  <2> QED
    BY <1>15, <2>1, <2>2, <2>3 DEF BrokerCloses, Outage, IInv
<1>16. CASE Crash
  <2>1. TypeOK'
    BY <1>16, BoundsAssumption, TrailWipe DEF Crash, Outage, IInv, TypeOK, Table, Stage, Handling, Settled, InFlight
  <2>2. Numbered' /\ CreatedOnce'
    BY <1>16, BroadcastFrame DEF Crash, Outage, IInv, TypeOK, InFlight, Handling
  <2>3. ASSUME NEW m \in 1..published
        PROVE  RowOf(m)' /\ CredOf(m)'
    BY <1>16, Numbers, HandlerFrame DEF Crash, Outage, IInv, TypeOK, EventId, Settled
  <2> QED
    BY <1>16, <2>1, <2>2, <2>3 DEF Crash, Outage, IInv
<1>17. CASE Restart
  <2>1. TypeOK'
    BY <1>17, BoundsAssumption DEF Restart, IInv, TypeOK, Table, Stage, Handling, Settled, Trail!TypeOK
  <2>2. Numbered' /\ CreatedOnce'
    BY <1>17, BroadcastFrame DEF Restart, IInv, TypeOK, InFlight, Handling
  <2>3. ASSUME NEW m \in 1..published
        PROVE  RowOf(m)' /\ CredOf(m)'
    BY <1>17, Numbers, HandlerFrame DEF Restart, IInv, TypeOK, EventId, Settled
  <2> QED
    BY <1>17, <2>1, <2>2, <2>3 DEF Restart, IInv
<1>18. CASE UNCHANGED vars
  <2>1. TypeOK'
    BY <1>18, BoundsAssumption DEF vars, IInv, TypeOK, Table, Stage, Handling, Settled, Trail!TypeOK
  <2>2. Numbered' /\ CreatedOnce'
    BY <1>18, BroadcastFrame DEF vars, IInv, TypeOK, InFlight, Handling
  <2>3. ASSUME NEW m \in 1..published
        PROVE  RowOf(m)' /\ CredOf(m)'
    BY <1>18, Numbers, HandlerFrame DEF vars, IInv, TypeOK, EventId, Settled
  <2> QED
    BY <1>18, <2>1, <2>2, <2>3 DEF vars, IInv
<1> QED
  BY <1>1, <1>2, <1>3, <1>4, <1>5, <1>6, <1>7, <1>8, <1>9, <1>10, <1>11, <1>12, <1>13, <1>14, <1>15, <1>16, <1>17, <1>18 DEF Next, UserService, Handler, Progress, Process

-----------------------------------------------------------------------------
(* Theorems.                                                               *)

\* The inductive invariant holds in every reachable state.
LEMMA Invariance == Spec => []IInv
BY InvInit, InvStep, PTL DEF Spec

\* Every variable keeps its type: in particular what a handler commits is a
\* whole row, never the absent one (user.repository.ts).
THEOREM TypeCorrect == Spec => []TypeOK
<1>1. IInv => TypeOK
  BY DEF IInv
<1> QED
  BY <1>1, Invariance, PTL

\* A commit is the only step that changes the replicated rows.
LEMMA RowsChangeByCommit ==
  ASSUME [Next]_vars, users' # users
  PROVE  \E n \in EventId : Commit(n)
BY DEF Next, UserService, Handler, Progress, Process, PublishCreate, PublishUpdate, Broadcast,
       ReceiveCreate, ReceiveUpdate, Deliver, Find, FindNothing, Lookup, Flush, Abort,
       AuditStore, AuditReject, Subscribe, SubscribeRejected, BrokerCloses, Crash,
       Restart, Outage, vars

\* The row that a commit leaves, when the row existed before.
LEMMA CommitMerges ==
  ASSUME IInv, NEW n \in EventId, Commit(n), NEW u \in User, users[u] # NoRow
  PROVE  \/ users'[u] = users[u]
         \/ /\ n \in EventsOf(u)
            /\ mem[n] \in Row /\ db[n] \in Row /\ users[u] \in Row
            /\ users'[u] = Merge(users[u], mem[n], db[n])
<1>1. n \in 1..published /\ event[n].user \in User /\ RowOf(n)
  BY Known DEF Commit
<1>2. users[u] \in Row
  BY DEF IInv, TypeOK, Table
<1>3. CASE event[n].user # u
  BY <1>1, <1>3 DEF Commit, IInv, TypeOK, Table
<1>4. CASE event[n].user = u
  <2>1. event[n].type # "create"
    BY <1>4, <1>1 DEF Commit, RowOf, Loaded
  <2>2. db[n] # NoRow /\ mem[n] \in Row
    BY <1>1, <2>1 DEF Commit, RowOf, Loaded, Saving
  <2>3. db[n] \in Row
    BY <2>2, Known, <1>1
  <2> QED
    BY <1>1, <1>2, <1>4, <2>2, <2>3 DEF Commit, IInv, TypeOK, Table, EventsOf
<1> QED
  BY <1>3, <1>4

\* Stale copies never bring old credentials back: the copies that findOne
\* returns have none (user.entity.ts 53-57, user.repository.ts 68-79).
THEOREM CredentialsFollowPasswordEvents == Spec => PasswordNeverClobbered
<1>1. IInv /\ [Next]_vars =>
        [\A u \in User :
           users[u] # NoRow /\ users'[u] # NoRow /\ users'[u].cred # users[u].cred
             => \E n \in EventsOf(u) : /\ pc[n] = "commit" /\ pc'[n] = "done"
                                       /\ event[n].type = "password"
                                       /\ users'[u].cred = event[n].value]_vars
  <2> SUFFICES ASSUME IInv, [Next]_vars, NEW u \in User,
                      users[u] # NoRow, users'[u] # NoRow, users'[u].cred # users[u].cred
               PROVE  \E n \in EventsOf(u) : /\ pc[n] = "commit" /\ pc'[n] = "done"
                                             /\ event[n].type = "password"
                                             /\ users'[u].cred = event[n].value
    OBVIOUS
  <2>1. PICK n \in EventId : Commit(n)
    BY RowsChangeByCommit
  <2>2. pc[n] = "commit" /\ pc'[n] = "done"
    BY <2>1 DEF Commit, IInv, TypeOK
  <2>3. /\ n \in EventsOf(u)
        /\ mem[n] \in Row /\ db[n] \in Row /\ users[u] \in Row
        /\ users'[u] = Merge(users[u], mem[n], db[n])
    BY <2>1, CommitMerges
  <2>4. users'[u].cred = mem[n].cred /\ mem[n].cred # db[n].cred
    BY <2>3, MergeRow
  <2>5. n \in 1..published /\ event[n].user = u /\ RowOf(n) /\ CredOf(n)
    BY <2>2, <2>3, Known DEF EventsOf
  <2>6. db[n].cred = Hidden
    BY <2>2, <2>3, <2>5, NoRowAssumption DEF CredOf, Saving
  <2>7. event[n].type \in {"create", "password"} /\ mem[n].cred = event[n].value
    BY <2>2, <2>4, <2>5, <2>6 DEF CredOf, Loaded
  <2>8. event[n].type # "create"
    BY <2>2, <2>5 DEF RowOf, Loaded
  <2> QED
    BY <2>2, <2>3, <2>4, <2>7, <2>8
<1> QED
  BY <1>1, Invariance, PTL DEF Spec, PasswordNeverClobbered

\* A handler comes to hold an entity when a creation is received or a row is
\* found, and keeps that entity; it was broadcast before.
LEMMA LoadedBySteps ==
  ASSUME IInv, [Next]_vars, NEW n \in EventId, pc'[n] \in Loaded
  PROVE  \/ ReceiveCreate(n)
         \/ Find(n)
         \/ pc[n] \in Loaded /\ mem'[n] = mem[n] /\ event'[n] = event[n]
<1> USE DEF IInv, TypeOK, Loaded
<1>1. CASE UserService
  <2>1. PICK e : Broadcast(e)
    BY <1>1 DEF UserService, PublishCreate, PublishUpdate
  <2> QED
    BY <2>1 DEF Broadcast, Numbered
<1>2. ASSUME NEW m \in EventId, Handler(m)
      PROVE  \/ ReceiveCreate(n)
             \/ Find(n)
             \/ pc[n] \in Loaded /\ mem'[n] = mem[n] /\ event'[n] = event[n]
  BY <1>2 DEF Handler, Progress, ReceiveCreate, ReceiveUpdate, Deliver, Find, FindNothing,
         Lookup, Flush, Commit, Abort, AuditStore, AuditReject
<1>3. CASE Process \/ UNCHANGED vars
  BY <1>3 DEF Process, Subscribe, SubscribeRejected, BrokerCloses, Crash, Restart, Outage,
         InFlight, Handling, vars
<1> QED
  BY <1>1, <1>2, <1>3 DEF Next

\* A transaction waits for its COMMIT only after its statement was executed.
LEMMA CommitByFlush ==
  ASSUME IInv, [Next]_vars, NEW n \in EventId, pc'[n] = "commit", pc[n] # "commit"
  PROVE  Flush(n)
<1> USE DEF IInv, TypeOK
<1>1. CASE UserService
  <2>1. PICK e : Broadcast(e)
    BY <1>1 DEF UserService, PublishCreate, PublishUpdate
  <2> QED
    BY <2>1 DEF Broadcast
<1>2. ASSUME NEW m \in EventId, Handler(m)
      PROVE  Flush(n)
  BY <1>2 DEF Handler, Progress, ReceiveCreate, ReceiveUpdate, Deliver, Find, FindNothing,
         Lookup, Flush, Commit, Abort, AuditStore, AuditReject
<1>3. CASE Process \/ UNCHANGED vars
  BY <1>3 DEF Process, Subscribe, SubscribeRejected, BrokerCloses, Crash, Restart, Outage, vars
<1> QED
  BY <1>1, <1>2, <1>3 DEF Next

\* The merge of a copy that says "deleted" into a deleted row says so too.
LEMMA DeletedMerge ==
  ASSUME NEW row \in Row, NEW copy \in Row, NEW stored \in Row, ~row.status, ~copy.status
  PROVE  ~Merge(row, copy, stored).status
BY MergeRow

\* A deletion that no running handler has a copy from before stays for another
\* step: every copy loaded later has status FALSE, and no handler of a creation
\* is left.
LEMMA DeletionStays ==
  ASSUME IInv, [Next]_vars, NEW u \in User, DeletionSettled(u)
  PROVE  DeletionSettled(u)'
<1>1. users[u] \in Row /\ users[u] # NoRow /\ ~users[u].status
  BY DEF DeletionSettled, IInv, TypeOK, Table
<1>2. users'[u] # NoRow /\ ~users'[u].status
  <2>1. CASE users' = users
    BY <1>1, <2>1
  <2>2. CASE users' # users
    <3>1. PICK n \in EventId : Commit(n)
      BY <2>2, RowsChangeByCommit
    <3>2. CASE users'[u] = users[u]
      BY <1>1, <3>2
    <3>3. CASE users'[u] # users[u]
      <4>1. /\ n \in EventsOf(u)
            /\ mem[n] \in Row /\ db[n] \in Row
            /\ users'[u] = Merge(users[u], mem[n], db[n])
        BY <1>1, <3>1, <3>3, CommitMerges
      <4>2. n \in InFlight /\ pc[n] # "find"
        BY <3>1 DEF Commit, InFlight, Handling
      <4>3. ~mem[n].status
        BY <4>1, <4>2 DEF DeletionSettled
      <4>4. users'[u] \in Row
        BY <1>1, <4>1, MergeRow
      <4>5. ~users'[u].status
        BY <1>1, <4>1, <4>3, DeletedMerge
      <4> QED
        BY <4>4, <4>5, NoRowAssumption
    <3> QED
      BY <3>2, <3>3
  <2> QED
    BY <2>1, <2>2
<1>3. ASSUME NEW n \in (InFlight \cap EventsOf(u))', pc'[n] # "find"
      PROVE  ~mem'[n].status
  <2>1. n \in EventId /\ pc'[n] \in Loaded /\ n \in 1..published' /\ event'[n].user = u
    BY <1>3 DEF InFlight, EventsOf, Handling, Loaded
  <2>2. CASE pc[n] \in Loaded /\ mem'[n] = mem[n] /\ event'[n] = event[n]
    <3>1. n \in InFlight \cap EventsOf(u) /\ pc[n] # "find"
      BY <2>1, <2>2, Known DEF InFlight, EventsOf, Handling, Loaded
    <3> QED
      BY <2>2, <3>1 DEF DeletionSettled
  <2>3. CASE ReceiveCreate(n)
    <3>1. n \in 1..published /\ event[n].user = u /\ event[n].type = "create" /\ RowOf(n)
      BY <2>1, <2>3, Known DEF ReceiveCreate, Deliver
    <3>2. pc[n] = "queued"
      BY <2>3 DEF ReceiveCreate, Deliver
    <3> QED
      BY <1>1, <3>1, <3>2 DEF RowOf
  <2>4. CASE Find(n)
    <3>1. event[n] \in Event /\ event[n].user = u
      BY <2>1, <2>4, Known DEF Find
    <3>2. mem'[n] = Assign(Select(users[u]), event[n])
      <4>1. mem \in [EventId -> Row \cup {NoRow}]
        BY DEF IInv, TypeOK
      <4> QED
        BY <2>1, <2>4, <3>1, <4>1 DEF Find
    <3>3. Select(users[u]) \in Row /\ ~Select(users[u]).status
      BY <1>1, SelectRow
    <3> QED
      BY <3>1, <3>2, <3>3, AssignRow
  <2> QED
    BY <2>1, <2>2, <2>3, <2>4, LoadedBySteps
<1> QED
  BY <1>2, <1>3 DEF DeletionSettled

\* So a deletion that is settled is never undone (user.repository.ts 68-120).
THEOREM DeletionIsFinalOnceSettled == Spec => DeletionIsFinal
<1>1. IInv /\ [Next]_vars => [\A u \in User : DeletionSettled(u) => DeletionSettled(u)']_vars
  BY DeletionStays
<1> QED
  BY <1>1, Invariance, PTL DEF Spec, DeletionIsFinal

-----------------------------------------------------------------------------
(* Provenance.  What a row holds has been traced; so has what a handler    *)
(* copied from it, and the rest of the copy comes from the event handled.  *)

CopyTraced(n) ==
  /\ pc[n] \in Loaded =>
       /\ \/ event[n].type \in {"create", "info"} /\ mem[n].info = event[n].value
          \/ Traced(event[n].user, {"create", "info"}, {mem[n].info})
       /\ ~mem[n].status =>
            event[n].type = "delete" \/ Traced(event[n].user, {"delete"}, Nat)
       /\ event[n].type = "create" => mem[n].cred = event[n].value
  /\ pc[n] = "commit" => audit[n] # "none"

PInv == IInv /\ Provenance /\ \A n \in 1..published : CopyTraced(n)

\* A trace is never erased.
LEMMA TraceStays ==
  ASSUME IInv, [Next]_vars, NEW u, NEW n \in EventsOf(u), audit[n] # "none"
  PROVE  n \in EventsOf(u)' /\ event'[n] = event[n] /\ audit'[n] # "none"
<1>1. n \in 1..published /\ n \in EventId /\ event[n].user = u /\ Trail!TypeOK
  BY Numbers DEF EventsOf, IInv, TypeOK
<1> USE DEF EventsOf
<1>2. CASE UserService
  <2>1. PICK e : Broadcast(e)
    BY <1>2 DEF UserService, PublishCreate, PublishUpdate
  <2> QED
    BY <1>1, <2>1 DEF Broadcast, IInv, TypeOK
<1>3. ASSUME NEW m \in EventId, Handler(m)
      PROVE  n \in EventsOf(u)' /\ event'[n] = event[n] /\ audit'[n] # "none"
  <2>1. UNCHANGED <<published, event>>
    BY <1>3 DEF Handler, Progress, ReceiveCreate, ReceiveUpdate, Deliver, Find, FindNothing,
           Lookup, Flush, Commit, Abort, AuditStore, AuditReject
  <2>2. UNCHANGED audit \/ Trail!Fire(m) \/ Trail!Store(m) \/ Trail!Reject(m)
    BY <1>3 DEF Handler, Progress, ReceiveCreate, ReceiveUpdate, Deliver, Find, FindNothing,
           Lookup, Flush, Commit, Abort, AuditStore, AuditReject
  <2> QED
    BY <1>1, <2>1, <2>2, TrailSteps
<1>4. CASE Process \/ UNCHANGED vars
  <2>1. UNCHANGED <<published, event>> /\ (UNCHANGED audit \/ Trail!Wipe)
    BY <1>4 DEF Process, Subscribe, SubscribeRejected, BrokerCloses, Crash, Restart, Outage, vars
  <2> QED
    BY <1>1, <2>1, TrailWipe
<1> QED
  BY <1>2, <1>3, <1>4 DEF Next

\* So what was traced once is traced for good.
LEMMA TracedStays ==
  ASSUME IInv, [Next]_vars, NEW u, NEW types, NEW values, Traced(u, types, values)
  PROVE  Traced(u, types, values)'
BY TraceStays DEF Traced

\* An audited event of u traces what it gave.
LEMMA TracedByOwn ==
  ASSUME IInv, [Next]_vars, NEW u, NEW n \in 1..published, event[n].user = u,
         audit[n] # "none", NEW types, event[n].type \in types,
         NEW values, event[n].value \in values
  PROVE  Traced(u, types, values)'
<1>1. n \in EventsOf(u)
  BY DEF EventsOf
<1> QED
  BY <1>1, TraceStays DEF Traced

\* The row that creates the user is that of its creation event.
LEMMA CommitCreates ==
  ASSUME IInv, NEW n \in EventId, Commit(n), NEW u \in User,
         users[u] = NoRow, users'[u] # NoRow
  PROVE  /\ n \in 1..published /\ event[n].user = u /\ event[n].type = "create"
         /\ users'[u] = mem[n] /\ mem[n] \in Row
<1>1. n \in 1..published /\ RowOf(n) /\ pc[n] = "commit"
  BY Known DEF Commit
<1>2. event[n].user = u
  BY DEF Commit, IInv, TypeOK, Table
<1>3. event[n].type = "create"
  BY <1>1, <1>2 DEF RowOf, Loaded
<1>4. db[n] = NoRow /\ mem[n] \in Row
  BY <1>1, <1>3 DEF RowOf, Loaded, Saving
<1> QED
  BY <1>1, <1>2, <1>3, <1>4 DEF Commit, IInv, TypeOK, Table

\* One step keeps each row accounted for.
LEMMA RowTraced ==
  ASSUME PInv, [Next]_vars, NEW u \in User, users'[u] # NoRow
  PROVE  /\ Traced(u, {"create", "password"}, {users[u].cred})'
         /\ Traced(u, {"create", "info"}, {users[u].info})'
         /\ ~users'[u].status => Traced(u, {"delete"}, Nat)'
<1> DEFINE Kept(row) == /\ Traced(u, {"create", "password"}, {row.cred})'
                        /\ Traced(u, {"create", "info"}, {row.info})'
                        /\ ~row.status => Traced(u, {"delete"}, Nat)'
<1>0. IInv /\ Provenance
  BY DEF PInv
<1>1. ASSUME NEW row, row = users[u], users[u] # NoRow
      PROVE  Kept(row)
  <2>1. /\ Traced(u, {"create", "password"}, {row.cred})
        /\ Traced(u, {"create", "info"}, {row.info})
        /\ ~row.status => Traced(u, {"delete"}, Nat)
    BY <1>0, <1>1 DEF Provenance
  <2> QED
    BY <1>0, <2>1, TracedStays
<1>2. ASSUME NEW row, row = users'[u], Kept(row)
      PROVE  /\ Traced(u, {"create", "password"}, {users[u].cred})'
             /\ Traced(u, {"create", "info"}, {users[u].info})'
             /\ ~users'[u].status => Traced(u, {"delete"}, Nat)'
  BY <1>2 DEF Traced
<1>3. CASE users'[u] = users[u]
  BY <1>1, <1>2, <1>3
<1>4. CASE users'[u] # users[u]
  <2>1. PICK n \in EventId : Commit(n)
    BY <1>0, <1>4, RowsChangeByCommit
  <2>2. /\ n \in 1..published /\ event[n].value \in Nat
        /\ CopyTraced(n) /\ CredOf(n) /\ RowOf(n) /\ pc[n] = "commit"
    BY <1>0, <2>1, Known DEF Commit, PInv
  <2>3. audit[n] # "none"
    BY <2>2 DEF CopyTraced
  <2>4. ASSUME NEW copy, copy = mem[n], event[n].user = u
        PROVE  /\ Traced(u, {"create", "info"}, {copy.info})'
               /\ ~copy.status => Traced(u, {"delete"}, Nat)'
    <3>1. /\ \/ event[n].type \in {"create", "info"} /\ event[n].value \in {copy.info}
             \/ Traced(u, {"create", "info"}, {copy.info})
          /\ ~copy.status => event[n].type \in {"delete"} \/ Traced(u, {"delete"}, Nat)
      BY <2>2, <2>4 DEF CopyTraced, Loaded
    <3>2. Traced(u, {"create", "info"}, {copy.info})'
      BY <1>0, <2>2, <2>3, <2>4, <3>1, TracedStays, TracedByOwn
    <3>3. ~copy.status => Traced(u, {"delete"}, Nat)'
      BY <1>0, <2>2, <2>3, <2>4, <3>1, TracedStays, TracedByOwn
    <3> QED
      BY <3>2, <3>3
  <2>5. CASE users[u] = NoRow
    <3>1. event[n].user = u /\ event[n].type = "create" /\ users'[u] = mem[n]
      BY <1>0, <2>1, <2>5, CommitCreates
    <3>2. PICK copy : copy = mem[n]
      OBVIOUS
    <3>3. event[n].value \in {copy.cred} /\ event[n].type \in {"create", "password"}
      BY <2>2, <3>1, <3>2 DEF CopyTraced, Loaded
    <3>4. Traced(u, {"create", "password"}, {copy.cred})'
      BY <1>0, <2>2, <2>3, <3>1, <3>3, TracedByOwn
    <3> QED
      BY <1>2, <2>4, <3>1, <3>2, <3>4
  <2>6. CASE users[u] # NoRow
    <3>1. /\ event[n].user = u
          /\ mem[n] \in Row /\ db[n] \in Row /\ users[u] \in Row
          /\ users'[u] = Merge(users[u], mem[n], db[n])
      BY <1>0, <1>4, <2>1, <2>6, CommitMerges DEF EventsOf
    <3>2. PICK row \in Row, copy \in Row, stored \in Row, new \in Row :
            row = users[u] /\ copy = mem[n] /\ stored = db[n] /\ new = users'[u]
      BY <3>1, MergeRow
    <3>3. /\ new.status = IF copy.status # stored.status THEN copy.status ELSE row.status
          /\ new.cred = IF copy.cred # stored.cred THEN copy.cred ELSE row.cred
          /\ new.info = IF copy.info # stored.info THEN copy.info ELSE row.info
      BY <3>1, <3>2, MergeRow
    <3>4. Kept(row)
      BY <1>1, <2>6, <3>2
    <3>5. /\ Traced(u, {"create", "info"}, {copy.info})'
          /\ ~copy.status => Traced(u, {"delete"}, Nat)'
      BY <2>4, <3>1, <3>2
    <3>6. copy.cred # stored.cred => Traced(u, {"create", "password"}, {copy.cred})'
      <4> SUFFICES ASSUME copy.cred # stored.cred
                   PROVE  Traced(u, {"create", "password"}, {copy.cred})'
        OBVIOUS
      <4>1. stored.cred = Hidden
        BY <2>2, <3>1, <3>2, NoRowAssumption DEF CredOf, Saving
      <4>2. event[n].type \in {"create", "password"} /\ event[n].value \in {copy.cred}
        BY <2>2, <3>2, <4>1 DEF CredOf, Loaded
      <4> QED
        BY <1>0, <2>2, <2>3, <3>1, <4>2, TracedByOwn
    <3>7. (new.cred = copy.cred /\ copy.cred # stored.cred) \/ new.cred = row.cred
      BY <3>3
    <3>8. new.info = copy.info \/ new.info = row.info
      BY <3>3
    <3>9. ~new.status => ~copy.status \/ ~row.status
      BY <3>3, RowFields
    <3> QED
      BY <1>2, <3>2, <3>4, <3>5, <3>6, <3>7, <3>8, <3>9
  <2> QED
    BY <2>5, <2>6
<1> QED
  BY <1>3, <1>4

\* One step keeps each copy accounted for.
LEMMA CopyStep ==
  ASSUME PInv, [Next]_vars, NEW n \in 1..published'
  PROVE  CopyTraced(n)'
<1>0. IInv /\ IInv' /\ Provenance
  BY InvStep DEF PInv
<1>1. n \in EventId
  BY <1>0, BoundsAssumption DEF IInv, TypeOK, EventId
<1>2. ASSUME pc'[n] \in Loaded
      PROVE  /\ \/ event'[n].type \in {"create", "info"} /\ mem'[n].info = event'[n].value
                \/ Traced(event[n].user, {"create", "info"}, {mem[n].info})'
             /\ ~mem'[n].status =>
                  event'[n].type = "delete" \/ Traced(event[n].user, {"delete"}, Nat)'
             /\ event'[n].type = "create" => mem'[n].cred = event'[n].value
  <2>1. CASE ReceiveCreate(n)
    <3>1. event' = event /\ event[n] \in Event /\ mem'[n] = NewUser(event[n])
      BY <1>0, <1>1, <2>1, Known DEF ReceiveCreate, Deliver, IInv, TypeOK
    <3> QED
      BY <2>1, <3>1, NewUserRow DEF ReceiveCreate
  <2>2. CASE Find(n)
    <3>1. PICK u \in User, e \in Event : u = event[n].user /\ e = event[n]
      BY <1>0, <1>1, <2>2, Known DEF Find
    <3>2. e.type # "create" /\ users[u] # NoRow /\ users[u] \in Row
      BY <1>0, <1>1, <2>2, <3>1, Known DEF Find, RowOf
    <3>3. mem'[n] = Assign(Select(users[u]), e) /\ event' = event
      BY <1>0, <1>1, <2>2, <3>1 DEF Find, IInv, TypeOK
    <3>4. PICK row \in Row, copy \in Row : row = users[u] /\ copy = mem'[n]
      BY <3>2, <3>3, SelectRow, AssignRow
    <3>5. /\ Traced(u, {"create", "info"}, {row.info})'
          /\ ~row.status => Traced(u, {"delete"}, Nat)'
      <4>1. /\ Traced(u, {"create", "info"}, {row.info})
            /\ ~row.status => Traced(u, {"delete"}, Nat)
        BY <1>0, <3>2, <3>4 DEF Provenance
      <4> QED
        BY <1>0, <4>1, TracedStays
    <3>6. /\ copy.info = row.info \/ (e.type = "info" /\ copy.info = e.value)
          /\ ~copy.status => ~row.status \/ e.type = "delete"
      <4>1. PICK sel \in Row : /\ copy = Assign(sel, e)
                              /\ sel.info = row.info
                              /\ sel.status = row.status
        BY <3>2, <3>3, <3>4, SelectRow
      <4>2. copy.status <=> sel.status /\ e.type # "delete"
        BY <4>1, AssignRow
      <4>3. copy.info = row.info \/ (e.type = "info" /\ copy.info = e.value)
        BY <4>1 DEF Assign
      <4>4. ~copy.status => ~row.status \/ e.type = "delete"
        BY <4>1, <4>2
      <4> QED
        BY <4>3, <4>4
    <3> QED
      BY <3>1, <3>2, <3>3, <3>4, <3>5, <3>6 DEF Traced
  <2>3. CASE pc[n] \in Loaded /\ mem'[n] = mem[n] /\ event'[n] = event[n]
    <3>1. n \in 1..published
      BY <1>0, <1>1, <2>3, Known DEF Loaded
    <3>2. PICK u, copy : u = event[n].user /\ copy = mem[n]
      OBVIOUS
    <3>3. /\ \/ event[n].type \in {"create", "info"} /\ copy.info = event[n].value
             \/ Traced(u, {"create", "info"}, {copy.info})
          /\ ~copy.status => event[n].type = "delete" \/ Traced(u, {"delete"}, Nat)
          /\ event[n].type = "create" => copy.cred = event[n].value
      BY <2>3, <3>1, <3>2 DEF PInv, CopyTraced
    <3>4. /\ Traced(u, {"create", "info"}, {copy.info}) => Traced(u, {"create", "info"}, {copy.info})'
          /\ Traced(u, {"delete"}, Nat) => Traced(u, {"delete"}, Nat)'
      BY <1>0, TracedStays
    <3> QED
      BY <2>3, <3>2, <3>3, <3>4 DEF Traced
  <2> QED
    BY <1>0, <1>1, <1>2, <2>1, <2>2, <2>3, LoadedBySteps
<1>3. pc'[n] = "commit" => audit'[n] # "none"
  <2> SUFFICES ASSUME pc'[n] = "commit" PROVE audit'[n] # "none"
    OBVIOUS
  <2>1. CASE pc[n] = "commit"
    <3>1. n \in 1..published /\ audit[n] # "none"
      BY <1>0, <1>1, <2>1, Known DEF PInv, CopyTraced
    <3>2. n \in EventsOf(event[n].user)
      BY <3>1 DEF EventsOf
    <3> QED
      BY <1>0, <3>1, <3>2, TraceStays
  <2>2. CASE pc[n] # "commit"
    <3>1. Flush(n)
      BY <1>0, <1>1, <2>2, CommitByFlush
    <3> QED
      BY <1>0, <1>1, <3>1, TrailSteps DEF Flush, IInv, TypeOK
  <2> QED
    BY <2>1, <2>2
<1> QED
  BY <1>2, <1>3 DEF CopyTraced

\* Traces accompany rows and copies in every reachable state.
LEMMA Tracing == Spec => []PInv
<1>1. Init => PInv
  <2>1. Init => IInv
    BY InvInit
  <2> QED
    BY <2>1 DEF Init, PInv, Provenance
<1>2. PInv /\ [Next]_vars => PInv'
  <2> SUFFICES ASSUME PInv, [Next]_vars PROVE PInv'
    OBVIOUS
  <2>1. IInv'
    BY InvStep DEF PInv
  <2>2. Provenance'
    BY RowTraced DEF Provenance
  <2>3. (\A n \in 1..published : CopyTraced(n))'
    BY CopyStep
  <2> QED
    BY <2>1, <2>2, <2>3 DEF PInv
<1> QED
  BY <1>1, <1>2, PTL DEF Spec

\* However handlers overlap, fail or die, every column of a replicated row is
\* one that an audited event of that user gave it (user.repository.ts,
\* user.audit.ts).
THEOREM RowsAreTraced == Spec => []Provenance
<1>1. PInv => Provenance
  BY DEF PInv
<1> QED
  BY <1>1, Tracing, PTL

-----------------------------------------------------------------------------
(* The order of passwords.  Of a user whose handlers never overlapped, the *)
(* row is older than every event that waits or is being handled.           *)

Pending == {"queued"} \cup Handling

\* Fresh values are numbers of events.
Stamped ==
  \A n \in 1..published : event[n].type \in {"create", "password"} => event[n].value = n

\* What is handled was broadcast before what is queued.
InOrder == \A m, n \in EventId : pc[m] \in Handling /\ pc[n] = "queued" => m < n

OneAtATime ==
  \A m, n \in EventId :
    pc[m] \in Handling /\ pc[n] \in Handling /\ event[m].user = event[n].user
      /\ event[n].user \notin raced => m = n

Older ==
  \A u \in User \ raced : users[u] # NoRow =>
    /\ users[u].cred <= published
    /\ \A n \in EventsOf(u) : pc[n] \in Pending => users[u].cred < n

OInv == IInv /\ Stamped /\ InOrder /\ OneAtATime /\ Older

\* An event begins to wait when it is broadcast, and begins to be handled when it
\* is delivered.
LEMMA PendingBySteps ==
  ASSUME IInv, [Next]_vars, NEW n \in EventId, pc'[n] \in Pending
  PROVE  /\ \/ pc[n] \in Pending /\ event'[n] = event[n] /\ n \in 1..published
            \/ pc'[n] = "queued" /\ n = published + 1 /\ published' = n
         /\ pc'[n] = "queued" => pc[n] = "queued" \/ n = published + 1
         /\ pc'[n] \in Handling => pc[n] \in Handling \/ Deliver(n)
<1>0. published \in Nat /\ (pc[n] # "unsent" => n \in 1..published)
  BY Known DEF IInv, TypeOK
<1> USE DEF Pending, Handling
<1>1. CASE UserService
  <2>1. PICK e : Broadcast(e)
    BY <1>1 DEF UserService, PublishCreate, PublishUpdate
  <2> QED
    BY <1>0, <2>1 DEF Broadcast, IInv, TypeOK
<1>2. ASSUME NEW m \in EventId, Handler(m)
      PROVE  /\ pc[n] \in Pending /\ event'[n] = event[n]
             /\ pc'[n] = "queued" => pc[n] = "queued"
             /\ pc'[n] \in Handling => pc[n] \in Handling \/ Deliver(n)
  BY <1>2 DEF Handler, Progress, ReceiveCreate, ReceiveUpdate, Deliver, Find, FindNothing,
         Lookup, Flush, Commit, Abort, AuditStore, AuditReject, IInv, TypeOK
<1>3. CASE Process \/ UNCHANGED vars
  BY <1>0, <1>3 DEF Process, Subscribe, SubscribeRejected, BrokerCloses, Crash, Restart, Outage,
         InFlight, vars
<1> QED
  BY <1>0, <1>1, <1>2, <1>3 DEF Next

\* The history of overlaps grows, and broadcasts are never taken back.
LEMMA HistoryGrows ==
  ASSUME IInv, [Next]_vars
  PROVE  /\ raced \subseteq raced'
         /\ published \in Nat /\ published' \in Nat /\ published <= published'
         /\ \A n \in 1..published : event'[n] = event[n]
<1>0. published \in Nat
  BY DEF IInv, TypeOK
<1>1. CASE UserService
  <2>1. PICK e : Broadcast(e)
    BY <1>1 DEF UserService, PublishCreate, PublishUpdate
  <2> QED
    BY <1>0, <2>1 DEF Broadcast, IInv, TypeOK
<1>2. ASSUME NEW m \in EventId, Handler(m)
      PROVE  raced \subseteq raced' /\ UNCHANGED <<published, event>>
  BY <1>2 DEF Handler, Progress, ReceiveCreate, ReceiveUpdate, Deliver, Find, FindNothing,
         Lookup, Flush, Commit, Abort, AuditStore, AuditReject
<1>3. CASE Process \/ UNCHANGED vars
  BY <1>0, <1>3 DEF Process, Subscribe, SubscribeRejected, BrokerCloses, Crash, Restart, Outage, vars
<1> QED
  BY <1>0, <1>1, <1>2, <1>3 DEF Next

LEMMA StampedStep ==
  ASSUME OInv, [Next]_vars
  PROVE  Stamped'
<1>1. CASE UserService
  <2>1. ASSUME NEW e, Broadcast(e), e.type \in {"create", "password"} => e.value = published + 1
        PROVE  Stamped'
    <3>1. published \in Nat /\ published' = published + 1 /\ published' \in EventId
      BY <2>1, BoundsAssumption DEF Broadcast, OInv, IInv, TypeOK, EventId
    <3>2. event'[published'] = e /\ \A n \in 1..published : event'[n] = event[n]
      BY <2>1, <3>1 DEF Broadcast, OInv, IInv, TypeOK
    <3> QED
      BY <2>1, <3>1, <3>2 DEF OInv, Stamped
  <2>2. CASE \E u \in User : PublishCreate(u)
    BY <2>1, <2>2 DEF PublishCreate
  <2>3. ASSUME NEW u \in User, NEW type \in EventType \ {"create"}, PublishUpdate(u, type)
        PROVE  Stamped'
    <3>1. PICK value \in {published + 1} \cup (IF type = "info" THEN {Blank} ELSE {}) :
            Broadcast([type |-> type, user |-> u, value |-> value])
      BY <2>3 DEF PublishUpdate
    <3>2. type = "password" => value = published + 1
      BY <3>1
    <3> QED
      BY <2>1, <3>1, <3>2
  <2> QED
    BY <1>1, <2>2, <2>3 DEF UserService
<1>2. CASE ~UserService
  <2>1. UNCHANGED <<published, event>>
    <3>1. ASSUME NEW m \in EventId, Handler(m)
          PROVE  UNCHANGED <<published, event>>
      BY <3>1 DEF Handler, Progress, ReceiveCreate, ReceiveUpdate, Deliver, Find, FindNothing,
             Lookup, Flush, Commit, Abort, AuditStore, AuditReject
    <3>2. CASE Process \/ UNCHANGED vars
      BY <3>2 DEF Process, Subscribe, SubscribeRejected, BrokerCloses, Crash, Restart, Outage, vars
    <3> QED
      BY <1>2, <3>1, <3>2 DEF Next
  <2> QED
    BY <2>1 DEF OInv, Stamped
<1> QED
  BY <1>1, <1>2

LEMMA OrderStep ==
  ASSUME OInv, [Next]_vars
  PROVE  InOrder' /\ OneAtATime'
<1>0. IInv
  BY DEF OInv
<1>1. ASSUME NEW m \in EventId, NEW n \in EventId, pc'[m] \in Handling, pc'[n] = "queued"
      PROVE  m < n
  <2>1. m \in Nat /\ n \in Nat /\ m \in 1..published
    BY <1>0, <1>1, PendingBySteps DEF Pending, EventId, Handling
  <2>2. CASE pc[n] = "queued"
    <3>1. CASE pc[m] \in Handling
      BY <2>2, <3>1 DEF OInv, InOrder
    <3>2. CASE Deliver(m)
      <4>1. m <= n
        BY <2>2, <3>2 DEF Deliver
      <4>2. m # n
        BY <1>1 DEF Handling
      <4> QED
        BY <2>1, <4>1, <4>2
    <3> QED
      BY <1>0, <1>1, <3>1, <3>2, PendingBySteps DEF Pending
  <2>3. CASE n = published + 1
    BY <1>0, <2>1, <2>3, HistoryGrows
  <2> QED
    BY <1>0, <1>1, <2>2, <2>3, PendingBySteps DEF Pending
<1>2. ASSUME NEW m \in EventId, NEW n \in EventId, pc'[m] \in Handling, pc'[n] \in Handling,
             event'[m].user = event'[n].user, event'[n].user \notin raced', m # n
      PROVE  FALSE
  <2>1. /\ m \in 1..published /\ n \in 1..published
        /\ event'[m] = event[m] /\ event'[n] = event[n]
        /\ event[n].user \notin raced
    BY <1>0, <1>2, PendingBySteps, HistoryGrows DEF Pending, Handling
  <2>2. ~(pc[m] \in Handling /\ pc[n] \in Handling)
    BY <1>2, <2>1 DEF OInv, OneAtATime
  <2>3. ASSUME NEW d \in EventId, NEW o \in EventId, Deliver(d), pc[o] \in Handling,
               event[o].user = event[d].user
        PROVE  event[d].user \in raced'
    BY <2>3 DEF Deliver, InFlight
  <2>4. ~(Deliver(m) /\ Deliver(n))
    <3> SUFFICES ASSUME Deliver(m), Deliver(n) PROVE FALSE
      OBVIOUS
    <3>1. m <= n /\ n <= m
      BY DEF Deliver
    <3> QED
      BY <1>2, <2>1, <3>1
  <2> QED
    BY <1>0, <1>2, <2>1, <2>2, <2>3, <2>4, PendingBySteps DEF Pending
<1> QED
  BY <1>1, <1>2 DEF InOrder, OneAtATime

\* The credentials a commit leaves are those of the row or the event's own.
LEMMA CommitCred ==
  ASSUME OInv, NEW n \in EventId, Commit(n), NEW u \in User, users'[u] # users[u]
  PROVE  /\ n \in EventsOf(u) /\ pc[n] = "commit"
         /\ users'[u] \in Row
         /\ users'[u].cred \in {0, n} \/ (users[u] # NoRow /\ users'[u].cred = users[u].cred)
         /\ users[u] # NoRow => users'[u].cred \in {n, users[u].cred}
<1>0. IInv
  BY DEF OInv
<1>1. /\ n \in 1..published /\ RowOf(n) /\ CredOf(n) /\ pc[n] = "commit"
      /\ event[n].type \in {"create", "password"} => event[n].value = n
  BY <1>0, Known DEF Commit, OInv, Stamped
<1>2. event[n].user = u
  BY <1>0 DEF Commit, IInv, TypeOK, Table
<1>3. CASE users[u] = NoRow
  <2>1. event[n].type = "create" /\ mem[n] \in Row /\ db[n] = NoRow
    BY <1>1, <1>2, <1>3 DEF RowOf, Loaded, Saving
  <2>2. users'[u] = mem[n]
    BY <1>0, <1>2, <2>1 DEF Commit, IInv, TypeOK, Table
  <2>3. mem[n].cred \in {0, n}
    BY <1>1, <2>1 DEF CredOf, Loaded, Hidden
  <2> QED
    BY <1>1, <1>2, <1>3, <2>1, <2>2, <2>3 DEF EventsOf
<1>4. CASE users[u] # NoRow
  <2>1. /\ mem[n] \in Row /\ db[n] \in Row /\ users[u] \in Row
        /\ users'[u] = Merge(users[u], mem[n], db[n])
    BY <1>0, <1>4, CommitMerges
  <2>2. db[n].cred = Hidden
    BY <1>1, <2>1, NoRowAssumption DEF CredOf, Saving
  <2>3. mem[n].cred # Hidden => mem[n].cred = n
    BY <1>1 DEF CredOf, Loaded
  <2> QED
    BY <1>1, <1>2, <1>4, <2>1, <2>2, <2>3, MergeRow DEF EventsOf
<1> QED
  BY <1>3, <1>4

LEMMA OlderStep ==
  ASSUME OInv, [Next]_vars
  PROVE  Older'
<1>0. IInv
  BY DEF OInv
<1> SUFFICES ASSUME NEW u \in User, u \notin raced', users'[u] # NoRow
             PROVE  /\ users'[u].cred <= published'
                    /\ \A n \in EventsOf(u)' : pc'[n] \in Pending => users'[u].cred < n
  BY DEF Older
<1>1. /\ u \notin raced
      /\ published \in Nat /\ published' \in Nat /\ published <= published'
      /\ 1..published' \subseteq EventId
  <2>1. published' \in 0..MaxEvents
    BY <1>0, InvStep DEF IInv, TypeOK
  <2> QED
    BY <1>0, <2>1, BoundsAssumption, HistoryGrows DEF EventId
<1>2. CASE users'[u] = users[u]
  <2>1. /\ users[u] \in Row /\ users[u].cred \in Nat
        /\ users[u].cred <= published
        /\ \A n \in EventsOf(u) : pc[n] \in Pending => users[u].cred < n
    BY <1>0, <1>1, <1>2, RowFields DEF OInv, Older, IInv, TypeOK, Table
  <2>2. ASSUME NEW n \in EventsOf(u)', pc'[n] \in Pending
        PROVE  users[u].cred < n
    <3>1. n \in EventId /\ event'[n].user = u
      BY <1>1, <2>2 DEF EventsOf
    <3>2. CASE pc[n] \in Pending /\ event'[n] = event[n] /\ n \in 1..published
      BY <2>1, <3>1, <3>2 DEF EventsOf
    <3>3. CASE n = published + 1
      BY <1>1, <2>1, <3>3
    <3> QED
      BY <1>0, <2>2, <3>1, <3>2, <3>3, PendingBySteps
  <2> QED
    BY <1>1, <1>2, <2>1, <2>2
<1>3. CASE users'[u] # users[u]
  <2>1. PICK m \in EventId : Commit(m)
    BY <1>0, <1>3, RowsChangeByCommit
  <2>2. /\ m \in EventsOf(u) /\ pc[m] = "commit"
        /\ users'[u].cred \in {0, m} \/ (users[u] # NoRow /\ users'[u].cred = users[u].cred)
    BY <1>3, <2>1, CommitCred
  <2>3. m \in 1..published /\ event[m].user = u /\ UNCHANGED <<published, event>> /\ pc'[m] = "done"
    BY <1>0, <2>1, <2>2 DEF EventsOf, Commit, IInv, TypeOK
  <2>4. users[u] # NoRow => /\ users[u].cred <= published
                            /\ \A n \in EventsOf(u) : pc[n] \in Pending => users[u].cred < n
    BY <1>1 DEF OInv, Older
  <2>5. users'[u].cred <= published'
    BY <1>1, <2>2, <2>3, <2>4
  <2>6. ASSUME NEW n \in EventsOf(u)', pc'[n] \in Pending
        PROVE  users'[u].cred < n
    <3>1. n \in 1..published /\ n \in EventId /\ event[n].user = u /\ n # m
      BY <1>1, <2>3, <2>6 DEF EventsOf, Pending, Handling
    <3>2. pc[n] \in Pending
      BY <1>0, <1>1, <2>6, <3>1, PendingBySteps
    <3>3. pc[n] = "queued"
      BY <1>1, <2>2, <2>3, <3>1, <3>2 DEF OInv, OneAtATime, Pending, Handling
    <3>4. m < n
      BY <2>2, <3>1, <3>3 DEF OInv, InOrder, Handling
    <3>5. n \in EventsOf(u)
      BY <3>1 DEF EventsOf
    <3> QED
      BY <2>2, <2>3, <2>4, <3>1, <3>2, <3>4, <3>5
  <2> QED
    BY <2>5, <2>6
<1> QED
  BY <1>2, <1>3

\* Passwords of a user whose handlers never overlapped only become newer: what
\* commits was broadcast after what the row holds (trip.subscribe.ts 53-62,
\* user.repository.ts 68-80).
THEOREM PasswordsAdvance == Spec => PasswordsOnlyAdvance
<1>1. Init => OInv
  <2> SUFFICES ASSUME Init PROVE OInv
    OBVIOUS
  <2>1. IInv
    BY InvInit
  <2> QED
    BY <2>1 DEF Init, OInv, Stamped, InOrder, OneAtATime, Older, Handling
<1>2. OInv /\ [Next]_vars => OInv'
  BY InvStep, StampedStep, OrderStep, OlderStep DEF OInv
<1>3. ASSUME OInv, [Next]_vars, NEW u \in User \ raced', users[u] # NoRow
      PROVE  users'[u] # NoRow /\ users'[u].cred >= users[u].cred
  <2>0. IInv /\ users[u] \in Row /\ users[u].cred \in Nat /\ u \notin raced
    BY <1>3, RowFields, HistoryGrows DEF OInv, IInv, TypeOK, Table
  <2>1. CASE users'[u] = users[u]
    BY <1>3, <2>0, <2>1
  <2>2. CASE users'[u] # users[u]
    <3>1. PICK n \in EventId : Commit(n)
      BY <1>3, <2>0, <2>2, RowsChangeByCommit
    <3>2. /\ n \in EventsOf(u) /\ pc[n] = "commit" /\ users'[u] \in Row
          /\ users'[u].cred \in {n, users[u].cred}
      BY <1>3, <2>2, <3>1, CommitCred
    <3>3. users[u].cred < n
      BY <1>3, <2>0, <3>2 DEF OInv, Older, Pending, Handling
    <3> QED
      BY <2>0, <3>1, <3>2, <3>3, NoRowAssumption DEF EventId
  <2> QED
    BY <2>1, <2>2
<1>4. OInv /\ [Next]_vars =>
        [\A u \in User \ raced' :
           users[u] # NoRow => users'[u] # NoRow /\ users'[u].cred >= users[u].cred]_vars
  BY <1>3
<1> QED
  BY <1>1, <1>2, <1>4, PTL DEF Spec, PasswordsOnlyAdvance

-----------------------------------------------------------------------------
(* Handlers of a user that never overlapped hold copies of the row as it   *)
(* is, so that what they commit is the whole effect of their event.        *)

FreshCopy(n) ==
  LET row == users[event[n].user] IN
  /\ pc[n] \in Loaded => mem[n] = IF event[n].type = "create" THEN NewUser(event[n])
                                  ELSE Assign(Select(row), event[n])
  /\ pc[n] \in Saving => db[n] = IF row = NoRow THEN NoRow ELSE Select(row)

\* What was applied was broadcast before what waits or is being handled.
DoneFirst ==
  \A m, n \in EventId :
    pc[m] = "done" /\ pc[n] \in Pending /\ event[m].user = event[n].user
      /\ event[n].user \notin raced => m < n

SInv ==
  /\ OInv
  /\ DoneFirst
  /\ \A n \in EventId : pc[n] \in Loaded /\ event[n].user \notin raced => FreshCopy(n)

GivesCred(e) == e.type \in {"create", "password"}
GivesInfo(e) == e.type = "create" \/ (e.type = "info" /\ e.value # Blank)

\* The row that the events of E leave when they take effect one after the other.
Reflects(row, E, ev) ==
  IF E = {} THEN row = NoRow
  ELSE /\ row \in Row
       /\ \E n \in E : /\ GivesCred(ev[n]) /\ row.cred = ev[n].value
                       /\ \A m \in E : GivesCred(ev[m]) => m <= n
       /\ \E n \in E : /\ GivesInfo(ev[n]) /\ row.info = ev[n].value
                       /\ \A m \in E : GivesInfo(ev[m]) => m <= n
       /\ row.status <=> \A m \in E : ev[m].type # "delete"

AppliedTo(u) == {n \in EventsOf(u) : pc[n] = "done"}

CInv ==
  /\ SInv
  /\ \A u \in User : Reflects(source[u], EventsOf(u), event)
  /\ \A u \in User \ raced : Reflects(users[u], AppliedTo(u), event)

\* Two rows that the same events leave are the same row.
LEMMA Determined ==
  ASSUME NEW E, E \subseteq Nat, NEW ev, NEW row, NEW other,
         Reflects(row, E, ev), Reflects(other, E, ev)
  PROVE  row = other
<1>1. CASE E = {}
  BY <1>1 DEF Reflects
<1>2. CASE E # {}
  <2>1. row \in Row /\ other \in Row
    BY <1>2 DEF Reflects
  <2>2. row.cred = other.cred
    <3>1. PICK m \in E : /\ GivesCred(ev[m]) /\ row.cred = ev[m].value
                         /\ \A k \in E : GivesCred(ev[k]) => k <= m
      BY <1>2 DEF Reflects
    <3>2. PICK n \in E : /\ GivesCred(ev[n]) /\ other.cred = ev[n].value
                         /\ \A k \in E : GivesCred(ev[k]) => k <= n
      BY <1>2 DEF Reflects
    <3>3. m <= n /\ n <= m /\ m \in Nat /\ n \in Nat
      BY <3>1, <3>2
    <3>4. m = n
      BY <3>3
    <3> QED
      BY <3>1, <3>2, <3>4
  <2>3. row.info = other.info
    <3>1. PICK m \in E : /\ GivesInfo(ev[m]) /\ row.info = ev[m].value
                         /\ \A k \in E : GivesInfo(ev[k]) => k <= m
      BY <1>2 DEF Reflects
    <3>2. PICK n \in E : /\ GivesInfo(ev[n]) /\ other.info = ev[n].value
                         /\ \A k \in E : GivesInfo(ev[k]) => k <= n
      BY <1>2 DEF Reflects
    <3>3. m <= n /\ n <= m /\ m \in Nat /\ n \in Nat
      BY <3>1, <3>2
    <3>4. m = n
      BY <3>3
    <3> QED
      BY <3>1, <3>2, <3>4
  <2>4. row.status = other.status
    <3>1. /\ row.status <=> \A m \in E : ev[m].type # "delete"
          /\ other.status <=> \A m \in E : ev[m].type # "delete"
      BY <1>2 DEF Reflects
    <3>2. row.status \in BOOLEAN /\ other.status \in BOOLEAN
      BY <2>1, RowFields
    <3> QED
      BY <3>1, <3>2
  <2> QED
    BY <2>1, <2>2, <2>3, <2>4 DEF Row
<1> QED
  BY <1>1, <1>2

\* A later event adds its effect.
LEMMA Extended ==
  ASSUME NEW E, E \subseteq Nat, NEW ev, NEW n \in Nat, \A m \in E : m < n,
         ev[n] \in Event, NEW row, Reflects(row, E, ev),
         E = {} <=> ev[n].type = "create"
  PROVE  Reflects(Effect(row, ev[n]), E \cup {n}, ev)
<1> SUFFICES ASSUME NEW e \in Event, e = ev[n],
                    NEW F, F = E \cup {n},
                    NEW new, new = Effect(row, e)
             PROVE  Reflects(new, F, ev)
  OBVIOUS
<1>0. /\ F # {} /\ n \in F /\ \A m \in F : m <= n
      /\ \A m \in F : m = n \/ m \in E
  OBVIOUS
<1>1. CASE E = {}
  <2>1. e.type = "create" /\ new = NewUser(e)
    BY <1>1 DEF Effect
  <2>2. /\ new \in Row /\ new.status /\ new.cred = e.value /\ new.info = e.value
    BY <2>1, NewUserRow
  <2>3. /\ GivesCred(ev[n]) /\ GivesInfo(ev[n]) /\ \A m \in F : ev[m].type # "delete"
    BY <1>0, <1>1, <2>1 DEF GivesCred, GivesInfo
  <2> QED
    BY <1>0, <2>2, <2>3 DEF Reflects
<1>2. CASE E # {}
  <2>1. /\ row \in Row
        /\ row.status <=> \A m \in E : ev[m].type # "delete"
    BY <1>2 DEF Reflects
  <2>2. e.type # "create" /\ new = Assign(row, e)
    BY <1>2 DEF Effect
  <2>3. /\ new \in Row
        /\ new.status <=> row.status /\ e.type # "delete"
        /\ new.cred = IF GivesCred(e) THEN e.value ELSE row.cred
        /\ new.info = IF GivesInfo(e) THEN e.value ELSE row.info
    <3>1. new \in Row /\ (new.status <=> row.status /\ e.type # "delete")
      BY <2>1, <2>2, AssignRow
    <3>2. new.cred = IF e.type = "password" THEN e.value ELSE row.cred
      BY <2>1, <2>2, AssignRow
    <3>3. new.info = IF e.type = "info" /\ e.value # Blank THEN e.value ELSE row.info
      BY <2>2 DEF Assign
    <3> QED
      BY <2>2, <3>1, <3>2, <3>3 DEF GivesCred, GivesInfo
  <2>4. new.status <=> \A m \in F : ev[m].type # "delete"
    <3>1. (\A m \in F : ev[m].type # "delete") <=> (\A m \in E : ev[m].type # "delete") /\ e.type # "delete"
      OBVIOUS
    <3> QED
      BY <2>1, <2>3, <3>1
  <2>5. \E k \in F : /\ GivesCred(ev[k]) /\ new.cred = ev[k].value
                     /\ \A m \in F : GivesCred(ev[m]) => m <= k
    <3>1. CASE GivesCred(e)
      BY <1>0, <2>3, <3>1
    <3>2. CASE ~GivesCred(e)
      <4>1. PICK k \in E : /\ GivesCred(ev[k]) /\ row.cred = ev[k].value
                           /\ \A m \in E : GivesCred(ev[m]) => m <= k
        BY <1>2 DEF Reflects
      <4>2. \A m \in F : GivesCred(ev[m]) => m <= k
        BY <1>0, <3>2, <4>1
      <4> QED
        BY <2>3, <3>2, <4>1, <4>2
    <3> QED
      BY <3>1, <3>2
  <2>6. \E k \in F : /\ GivesInfo(ev[k]) /\ new.info = ev[k].value
                     /\ \A m \in F : GivesInfo(ev[m]) => m <= k
    <3>1. CASE GivesInfo(e)
      BY <1>0, <2>3, <3>1
    <3>2. CASE ~GivesInfo(e)
      <4>1. PICK k \in E : /\ GivesInfo(ev[k]) /\ row.info = ev[k].value
                           /\ \A m \in E : GivesInfo(ev[m]) => m <= k
        BY <1>2 DEF Reflects
      <4>2. \A m \in F : GivesInfo(ev[m]) => m <= k
        BY <1>0, <3>2, <4>1
      <4> QED
        BY <2>3, <3>2, <4>1, <4>2
    <3> QED
      BY <3>1, <3>2
  <2> QED
    BY <1>0, <2>3, <2>4, <2>5, <2>6 DEF Reflects
<1> QED
  BY <1>1, <1>2

\* What the events of E leave depends on these events alone.
LEMMA SameEvents ==
  ASSUME NEW E, NEW ev, NEW later, \A n \in E : later[n] = ev[n],
         NEW row, Reflects(row, E, ev)
  PROVE  Reflects(row, E, later)
<1>1. CASE E = {}
  BY <1>1 DEF Reflects
<1>2. CASE E # {}
  BY <1>2 DEF Reflects
<1> QED
  BY <1>1, <1>2

\* The user service either broadcasts an event, the first of a user being its
\* creation, or nothing changes on its side.
LEMMA BroadcastOrNot ==
  ASSUME IInv, [Next]_vars
  PROVE  \/ \E e \in Event : Broadcast(e) /\ (e.type = "create" <=> source[e.user] = NoRow)
         \/ UNCHANGED <<source, published, event>>
<1>1. ASSUME NEW u \in User, PublishCreate(u)
      PROVE  \E e \in Event : Broadcast(e) /\ (e.type = "create" <=> source[e.user] = NoRow)
  <2>1. [type |-> "create", user |-> u, value |-> published + 1] \in Event
    BY DEF IInv, TypeOK, Event, EventType
  <2> QED
    BY <1>1, <2>1 DEF PublishCreate
<1>2. ASSUME NEW u \in User, NEW type \in EventType \ {"create"}, PublishUpdate(u, type)
      PROVE  \E e \in Event : Broadcast(e) /\ (e.type = "create" <=> source[e.user] = NoRow)
  <2>1. PICK value \in Nat : Broadcast([type |-> type, user |-> u, value |-> value])
    BY <1>2 DEF PublishUpdate, Blank, IInv, TypeOK
  <2>2. [type |-> type, user |-> u, value |-> value] \in Event
    BY DEF Event
  <2> QED
    BY <1>2, <2>1, <2>2 DEF PublishUpdate
<1>3. ASSUME NEW m \in EventId, Handler(m)
      PROVE  UNCHANGED <<source, published, event>>
  BY <1>3 DEF Handler, Progress, ReceiveCreate, ReceiveUpdate, Deliver, Find, FindNothing,
         Lookup, Flush, Commit, Abort, AuditStore, AuditReject
<1>4. CASE Process \/ UNCHANGED vars
  BY <1>4 DEF Process, Subscribe, SubscribeRejected, BrokerCloses, Crash, Restart, Outage, vars
<1> QED
  BY <1>1, <1>2, <1>3, <1>4 DEF Next, UserService

\* A handler has looked its row up in its last query, or keeps what it found.
LEMMA SavingBySteps ==
  ASSUME IInv, [Next]_vars, NEW n \in EventId, pc'[n] \in Saving
  PROVE  Lookup(n) \/ (pc[n] \in Saving /\ db'[n] = db[n])
<1> USE DEF IInv, TypeOK, Saving
<1>1. CASE UserService
  <2>1. PICK e : Broadcast(e)
    BY <1>1 DEF UserService, PublishCreate, PublishUpdate
  <2> QED
    BY <2>1 DEF Broadcast, Numbered
<1>2. ASSUME NEW m \in EventId, Handler(m)
      PROVE  Lookup(n) \/ (pc[n] \in Saving /\ db'[n] = db[n])
  BY <1>2 DEF Handler, Progress, ReceiveCreate, ReceiveUpdate, Deliver, Find, FindNothing,
         Lookup, Flush, Commit, Abort, AuditStore, AuditReject
<1>3. CASE Process \/ UNCHANGED vars
  BY <1>3 DEF Process, Subscribe, SubscribeRejected, BrokerCloses, Crash, Restart, Outage,
         InFlight, Handling, vars
<1> QED
  BY <1>1, <1>2, <1>3 DEF Next

\* An event has been applied when its save found nothing to write, or has
\* committed; it stays so.
LEMMA DoneBySteps ==
  ASSUME IInv, [Next]_vars, NEW n \in EventId
  PROVE  /\ pc[n] = "done" => pc'[n] = "done"
         /\ pc'[n] = "done" => pc[n] = "done" \/ Lookup(n) \/ Commit(n)
<1> USE DEF IInv, TypeOK
<1>1. CASE UserService
  <2>1. PICK e : Broadcast(e)
    BY <1>1 DEF UserService, PublishCreate, PublishUpdate
  <2> QED
    BY <2>1 DEF Broadcast, Numbered
<1>2. ASSUME NEW m \in EventId, Handler(m)
      PROVE  /\ pc[n] = "done" => pc'[n] = "done"
             /\ pc'[n] = "done" => pc[n] = "done" \/ Lookup(n) \/ Commit(n)
  BY <1>2 DEF Handler, Progress, ReceiveCreate, ReceiveUpdate, Deliver, Find, FindNothing,
         Lookup, Flush, Commit, Abort, AuditStore, AuditReject, Handling
<1>3. CASE Process \/ UNCHANGED vars
  BY <1>3 DEF Process, Subscribe, SubscribeRejected, BrokerCloses, Crash, Restart, Outage,
         InFlight, Handling, vars
<1> QED
  BY <1>1, <1>2, <1>3 DEF Next

\* The row of a user whose handlers never overlapped changes only when the one
\* handler there is commits.
LEMMA OnlyOwnCommit ==
  ASSUME OInv, [Next]_vars, NEW n \in EventId, pc[n] \in Handling,
         event[n].user \notin raced, users'[event[n].user] # users[event[n].user]
  PROVE  Commit(n)
<1>0. IInv /\ event[n].user \in User
  BY Known DEF OInv, Handling
<1>1. PICK m \in EventId : Commit(m)
  BY RowsChangeByCommit
<1>2. m \in EventsOf(event[n].user) /\ pc[m] = "commit"
  BY <1>0, <1>1, CommitCred
<1>3. m = n
  BY <1>2 DEF OInv, OneAtATime, EventsOf, Handling
<1> QED
  BY <1>1, <1>3

LEMMA FreshStep ==
  ASSUME SInv, [Next]_vars, NEW n \in EventId, pc'[n] \in Loaded, event'[n].user \notin raced'
  PROVE  FreshCopy(n)'
<1>0. IInv /\ OInv
  BY DEF SInv, OInv
<1>1. /\ event'[n] = event[n] /\ n \in 1..published
      /\ event[n].user \in User /\ event[n].user \notin raced
      /\ RowOf(n)
  <2>1. event'[n] = event[n] /\ n \in 1..published
    BY <1>0, PendingBySteps DEF Loaded, Pending, Handling
  <2> QED
    BY <1>0, <2>1, Known, HistoryGrows
<1>2. CASE ReceiveCreate(n)
  BY <1>0, <1>1, <1>2 DEF ReceiveCreate, FreshCopy, Saving, IInv, TypeOK
<1>3. CASE Find(n)
  <2>1. event[n].type # "create" /\ UNCHANGED users /\ pc'[n] = "lookup"
        /\ mem'[n] = Assign(Select(users[event[n].user]), event[n])
    BY <1>0, <1>1, <1>3 DEF Find, RowOf, IInv, TypeOK
  <2> QED
    BY <1>1, <2>1 DEF FreshCopy, Saving
<1>4. CASE pc[n] \in Loaded /\ mem'[n] = mem[n]
  <2>1. users'[event[n].user] = users[event[n].user]
    <3>1. ~Commit(n)
      BY <1>0 DEF Commit, IInv, TypeOK, Loaded
    <3> QED
      BY <1>0, <1>1, <1>4, <3>1, OnlyOwnCommit DEF Loaded, Handling
  <2>2. FreshCopy(n)
    BY <1>1, <1>4 DEF SInv
  <2>3. pc'[n] \in Saving =>
          db'[n] = IF users[event[n].user] = NoRow THEN NoRow ELSE Select(users[event[n].user])
    <3>1. CASE Lookup(n)
      BY <1>0, <3>1 DEF Lookup, IInv, TypeOK
    <3>2. CASE pc[n] \in Saving /\ db'[n] = db[n]
      BY <2>2, <3>2 DEF FreshCopy
    <3> QED
      BY <1>0, <3>1, <3>2, SavingBySteps
  <2>4. mem[n] = IF event[n].type = "create" THEN NewUser(event[n])
                 ELSE Assign(Select(users[event[n].user]), event[n])
    BY <1>4, <2>2 DEF FreshCopy
  <2> QED
    BY <1>1, <1>4, <2>1, <2>3, <2>4 DEF FreshCopy
<1> QED
  BY <1>0, <1>2, <1>3, <1>4, LoadedBySteps

LEMMA DoneFirstStep ==
  ASSUME SInv, [Next]_vars
  PROVE  DoneFirst'
<1>0. IInv /\ OInv
  BY DEF SInv, OInv
<1> SUFFICES ASSUME NEW m \in EventId, NEW n \in EventId, pc'[m] = "done", pc'[n] \in Pending,
                    event'[m].user = event'[n].user, event'[n].user \notin raced'
             PROVE  m < n
  BY DEF DoneFirst
<1>1. m \in 1..published /\ event'[m] = event[m]
  <2>1. pc[m] # "unsent"
    BY <1>0, DoneBySteps DEF Lookup, Commit
  <2> QED
    BY <1>0, <2>1, Known, HistoryGrows
<1>2. CASE n = published + 1
  BY <1>0, <1>1, <1>2, HistoryGrows
<1>3. CASE pc[n] \in Pending /\ event'[n] = event[n] /\ n \in 1..published
  <2>1. event[m].user = event[n].user /\ event[n].user \notin raced
    BY <1>0, <1>1, <1>3, HistoryGrows
  <2>2. CASE pc[m] = "done"
    BY <1>3, <2>1, <2>2 DEF SInv, DoneFirst
  <2>3. CASE pc[m] \in Handling
    <3>1. m # n
      BY DEF Pending, Handling
    <3>2. pc[n] = "queued"
      <4>1. pc[n] \in Handling => m = n
        BY <1>0, <2>1, <2>3 DEF OInv, OneAtATime
      <4> QED
        BY <1>3, <3>1, <4>1 DEF Pending
    <3> QED
      BY <1>0, <2>3, <3>2 DEF OInv, InOrder
  <2> QED
    BY <1>0, <2>2, <2>3, DoneBySteps DEF Lookup, Commit, Handling
<1> QED
  BY <1>0, <1>2, <1>3, PendingBySteps

\* What a fresh copy changes in the row it was made from is the effect of the
\* event, although the save compares it with an entity without credentials.
LEMMA FreshMerge ==
  ASSUME NEW row \in Row, NEW e \in Event, e.type # "create",
         e.type = "password" => e.value # Hidden
  PROVE  Merge(row, Assign(Select(row), e), Select(row)) = Effect(row, e)
<1>1. Select(row) \in Row /\ Assign(Select(row), e) \in Row
  BY SelectRow, AssignRow
<1> QED
  BY <1>1, RowFields DEF Merge, Assign, Select, Effect, Event, Hidden

\* So a commit of a handler that was alone applies its event, in full ...
LEMMA FreshCommit ==
  ASSUME SInv, NEW n \in EventId, Commit(n), event[n].user \notin raced
  PROVE  users' = [users EXCEPT ![event[n].user] = Effect(@, event[n])]
<1>0. IInv /\ OInv
  BY DEF SInv, OInv
<1>1. /\ n \in 1..published /\ pc[n] = "commit"
      /\ event[n] \in Event /\ event[n].user \in User
      /\ users[event[n].user] \in Row \cup {NoRow}
      /\ RowOf(n)
      /\ event[n].type = "password" => event[n].value = n
  BY <1>0, Known DEF Commit, OInv, Stamped
<1>2. FreshCopy(n)
  BY <1>1 DEF SInv, Loaded
<1>3. CASE event[n].type = "create"
  <2>1. db[n] = NoRow /\ mem[n] = NewUser(event[n])
    BY <1>1, <1>2, <1>3 DEF RowOf, FreshCopy, Loaded, Saving
  <2> QED
    BY <1>3, <2>1 DEF Commit, Effect
<1>4. CASE event[n].type # "create"
  <2> DEFINE row == users[event[n].user]
  <2>1. row \in Row /\ row # NoRow /\ db[n] # NoRow
    BY <1>1, <1>4 DEF RowOf, Loaded, Saving
  <2>2. mem[n] = Assign(Select(row), event[n]) /\ db[n] = Select(row)
    BY <1>1, <1>2, <1>4, <2>1 DEF FreshCopy, Loaded, Saving
  <2>3. Merge(row, mem[n], db[n]) = Effect(row, event[n])
    <3>1. n # Hidden
      BY DEF EventId, Hidden
    <3>2. event[n].type = "password" => event[n].value # Hidden
      BY <1>1, <3>1
    <3> QED
      BY <1>1, <1>4, <2>1, <2>2, <3>2, FreshMerge
  <2> QED
    BY <2>1, <2>3 DEF Commit
<1> QED
  BY <1>3, <1>4

\* ... and a save that finds nothing to write had nothing to apply.
LEMMA FreshLookup ==
  ASSUME SInv, NEW n \in EventId, Lookup(n), pc'[n] = "done", event[n].user \notin raced
  PROVE  /\ UNCHANGED users
         /\ users[event[n].user] = Effect(users[event[n].user], event[n])
<1>0. IInv /\ OInv
  BY DEF SInv, OInv
<1>1. /\ n \in 1..published /\ pc[n] = "lookup"
      /\ event[n] \in Event
      /\ users[event[n].user] \in Row \cup {NoRow}
      /\ RowOf(n) /\ mem[n] \in Row
      /\ event[n].type = "password" => event[n].value = n
  BY <1>0, Known DEF Lookup, OInv, Stamped, RowOf, Loaded
<1>2. FreshCopy(n)
  BY <1>1 DEF SInv, Loaded
<1>3. PICK row \in Row \cup {NoRow}, e \in Event : row = users[event[n].user] /\ e = event[n]
  BY <1>1
<1>4. mem[n] = IF row = NoRow THEN NoRow ELSE Select(row)
  BY <1>0, <1>3 DEF Lookup, IInv, TypeOK
<1>5. row \in Row /\ mem[n] = Select(row)
  BY <1>1, <1>3, <1>4, NoRowAssumption
<1>6. e.type # "create"
  BY <1>1, <1>3, <1>5, NoRowAssumption DEF RowOf, Loaded
<1>7. Assign(Select(row), e) = Select(row)
  BY <1>1, <1>2, <1>3, <1>5, <1>6 DEF FreshCopy, Loaded
<1>8. e.type = "password" => e.value # Hidden
  <2>1. n # Hidden
    BY DEF EventId, Hidden
  <2> QED
    BY <1>1, <1>3, <2>1
<1>9. Effect(row, e) = row
  <2>1. Merge(row, Select(row), Select(row)) = row
    BY <1>5 DEF Merge, Row
  <2> QED
    BY <1>5, <1>6, <1>7, <1>8, <2>1, FreshMerge
<1> QED
  BY <1>3, <1>9 DEF Lookup

\* The user service has what all its events leave.
LEMMA SourceStep ==
  ASSUME CInv, [Next]_vars, NEW u \in User
  PROVE  Reflects(source'[u], EventsOf(u)', event')
<1>0. IInv /\ Reflects(source[u], EventsOf(u), event)
  BY DEF CInv, SInv, OInv
<1>1. published \in Nat /\ EventsOf(u) \subseteq 1..published
  BY <1>0 DEF IInv, TypeOK, EventsOf
<1>2. \A n \in EventsOf(u) : event'[n] = event[n]
  BY <1>0, <1>1, HistoryGrows
<1>3. CASE UNCHANGED <<source, published, event>>
  BY <1>0, <1>3 DEF EventsOf
<1>4. ASSUME NEW e \in Event, Broadcast(e), e.type = "create" <=> source[e.user] = NoRow
      PROVE  Reflects(source'[u], EventsOf(u)', event')
  <2> DEFINE n == published + 1
  <2>1. /\ published' = n /\ n \in EventId
        /\ event'[n] = e
        /\ source' = [source EXCEPT ![e.user] = Effect(@, e)]
        /\ \A m \in 1..published : event'[m] = event[m]
    BY <1>0, <1>1, <1>4, BoundsAssumption, HistoryGrows DEF Broadcast, IInv, TypeOK, EventId
  <2>2. EventsOf(u)' = EventsOf(u) \cup (IF e.user = u THEN {n} ELSE {})
    BY <1>1, <2>1 DEF EventsOf
  <2>3. Reflects(source[u], EventsOf(u), event')
    BY <1>0, <1>2, SameEvents
  <2>4. CASE e.user # u
    BY <1>0, <2>1, <2>2, <2>3, <2>4 DEF IInv, TypeOK, Table
  <2>5. CASE e.user = u
    <3>1. source'[u] = Effect(source[u], e)
      BY <1>0, <2>1, <2>5 DEF IInv, TypeOK, Table
    <3>2. EventsOf(u) = {} <=> e.type = "create"
      BY <1>0, <1>4, <2>5, NoRowAssumption DEF Reflects
    <3>3. n \in Nat /\ EventsOf(u) \subseteq Nat /\ \A m \in EventsOf(u) : m < n
      BY <1>1
    <3>4. Reflects(Effect(source[u], event'[n]), EventsOf(u) \cup {n}, event')
      BY <2>1, <2>3, <3>2, <3>3, Extended
    <3> QED
      BY <2>1, <2>2, <2>5, <3>1, <3>4
  <2> QED
    BY <2>4, <2>5
<1> QED
  BY <1>0, <1>3, <1>4, BroadcastOrNot

\* Of a user whose handlers never overlapped, the replica has what the events
\* that were applied leave.
LEMMA AppliedStep ==
  ASSUME CInv, [Next]_vars, NEW u \in User, u \notin raced'
  PROVE  Reflects(users'[u], AppliedTo(u)', event')
<1>0. IInv /\ OInv /\ SInv /\ u \notin raced
  <2>1. IInv /\ OInv /\ SInv
    BY DEF CInv, SInv, OInv
  <2> QED
    BY <2>1, HistoryGrows
<1>1. Reflects(users[u], AppliedTo(u), event)
  BY <1>0 DEF CInv
<1>2. /\ published \in Nat /\ published' \in Nat /\ published <= published'
      /\ 1..published \subseteq EventId /\ 1..published' \subseteq EventId
      /\ \A n \in 1..published : event'[n] = event[n]
      /\ users[u] \in Row \cup {NoRow}
  <2>1. published' \in 0..MaxEvents
    BY <1>0, InvStep DEF IInv, TypeOK
  <2> QED
    BY <1>0, <2>1, BoundsAssumption, HistoryGrows, Numbers DEF EventId, IInv, TypeOK, Table
<1>3. Reflects(users[u], AppliedTo(u), event')
  BY <1>1, <1>2, SameEvents DEF AppliedTo, EventsOf
<1>4. AppliedTo(u) \subseteq AppliedTo(u)'
  BY <1>0, <1>2, DoneBySteps DEF AppliedTo, EventsOf
<1>5. CASE \E n \in EventId : event[n].user = u /\ pc[n] # "done" /\ pc'[n] = "done"
  <2>1. PICK n \in EventId : event[n].user = u /\ pc[n] # "done" /\ pc'[n] = "done"
    BY <1>5
  <2>2. Lookup(n) \/ Commit(n)
    BY <1>0, <2>1, DoneBySteps
  <2>3. /\ UNCHANGED <<published, event>>
        /\ \A m \in EventId \ {n} : pc'[m] = pc[m]
        /\ pc[n] \in Handling
    BY <1>0, <2>2 DEF Lookup, Commit, Handling, IInv, TypeOK
  <2>4. n \in 1..published /\ event[n] \in Event /\ RowOf(n)
    BY <1>0, <2>3, Known DEF Handling
  <2>5. AppliedTo(u)' = AppliedTo(u) \cup {n}
    BY <1>2, <2>1, <2>3, <2>4 DEF AppliedTo, EventsOf
  <2>6. users'[u] = Effect(users[u], event[n])
    <3>1. CASE Commit(n)
      BY <1>0, <2>1, <3>1, FreshCommit DEF IInv, TypeOK, Table
    <3>2. CASE Lookup(n)
      BY <1>0, <2>1, <3>2, FreshLookup
    <3> QED
      BY <2>2, <3>1, <3>2
  <2>7. AppliedTo(u) = {} <=> event[n].type = "create"
    <3>1. AppliedTo(u) = {} <=> users[u] = NoRow
      BY <1>1, NoRowAssumption DEF Reflects
    <3>2. users[u] = NoRow <=> event[n].type = "create"
      BY <2>1, <2>2, <2>4 DEF Lookup, Commit, RowOf, Loaded
    <3> QED
      BY <3>1, <3>2
  <2>8. n \in Nat /\ AppliedTo(u) \subseteq Nat /\ \A m \in AppliedTo(u) : m < n
    <3>1. AppliedTo(u) \subseteq 1..published
      BY DEF AppliedTo, EventsOf
    <3>2. \A m \in AppliedTo(u) : m < n
      BY <1>0, <1>2, <2>1, <2>3, <3>1 DEF SInv, DoneFirst, AppliedTo, EventsOf, Pending
    <3> QED
      BY <1>2, <2>4, <3>1, <3>2
  <2>9. Reflects(Effect(users[u], event'[n]), AppliedTo(u) \cup {n}, event')
    BY <1>3, <2>3, <2>4, <2>7, <2>8, Extended
  <2> QED
    BY <2>3, <2>5, <2>6, <2>9
<1>6. CASE ~(\E n \in EventId : event[n].user = u /\ pc[n] # "done" /\ pc'[n] = "done")
  <2>1. AppliedTo(u)' \subseteq AppliedTo(u)
    <3> SUFFICES ASSUME NEW n \in EventsOf(u)', pc'[n] = "done"
                 PROVE  n \in EventsOf(u) /\ pc[n] = "done"
      BY DEF AppliedTo
    <3>1. n \in EventId
      BY <1>2 DEF EventsOf
    <3>2. pc[n] # "unsent"
      BY <1>0, <3>1, DoneBySteps DEF Lookup, Commit
    <3>3. n \in 1..published
      BY <1>0, <3>1, <3>2, Known
    <3>4. event[n].user = u
      BY <1>2, <3>3 DEF EventsOf
    <3> QED
      BY <1>6, <3>1, <3>3, <3>4 DEF EventsOf
  <2>2. users'[u] = users[u]
    <3> SUFFICES ASSUME users'[u] # users[u] PROVE FALSE
      OBVIOUS
    <3>1. PICK m \in EventId : Commit(m)
      BY RowsChangeByCommit
    <3>2. m \in EventsOf(u) /\ pc[m] = "commit"
      BY <1>0, <3>1, CommitCred
    <3>3. pc'[m] = "done"
      BY <1>0, <3>1 DEF Commit, IInv, TypeOK
    <3> QED
      BY <1>6, <3>2, <3>3 DEF EventsOf
  <2>3. AppliedTo(u)' = AppliedTo(u)
    BY <1>4, <2>1
  <2> QED
    BY <1>3, <2>2, <2>3
<1> QED
  BY <1>5, <1>6

LEMMA CInvInit == Init => CInv
<1> SUFFICES ASSUME Init PROVE CInv
  OBVIOUS
<1>1. OInv
  BY InvInit DEF Init, OInv, Stamped, InOrder, OneAtATime, Older, Handling
<1>2. SInv
  BY <1>1 DEF Init, SInv, DoneFirst, Loaded
<1>3. \A u \in User : EventsOf(u) = {} /\ AppliedTo(u) = {}
  <2>1. 1..published = {}
    BY DEF Init
  <2> QED
    BY <2>1 DEF EventsOf, AppliedTo
<1> QED
  BY <1>2, <1>3 DEF Init, CInv, Reflects

LEMMA CInvStep == CInv /\ [Next]_vars => CInv'
<1> SUFFICES ASSUME CInv, [Next]_vars PROVE CInv'
  OBVIOUS
<1>1. OInv'
  BY InvStep, StampedStep, OrderStep, OlderStep DEF CInv, SInv, OInv
<1>2. SInv'
  BY <1>1, DoneFirstStep, FreshStep DEF CInv, SInv
<1>3. (\A u \in User : Reflects(source[u], EventsOf(u), event))'
  BY SourceStep
<1>4. (\A u \in User \ raced : Reflects(users[u], AppliedTo(u), event))'
  BY AppliedStep
<1> QED
  BY <1>2, <1>3, <1>4 DEF CInv

LEMMA Convergence == Spec => []CInv
BY CInvInit, CInvStep, PTL DEF Spec

\* Whatever fails, is lost or dies meanwhile: a user all of whose events took
\* effect, never two at a time, has in the replica the row of the user service
\* (user.repository.ts 28-120).
THEOREM ReplicaConverges == Spec => []Converged
<1>1. CInv => Converged
  <2> SUFFICES ASSUME CInv, NEW u \in User, u \notin raced, \A n \in EventsOf(u) : pc[n] = "done"
               PROVE  users[u] = source[u]
    BY DEF Converged
  <2>1. AppliedTo(u) = EventsOf(u)
    BY DEF AppliedTo
  <2>2. /\ Reflects(users[u], EventsOf(u), event)
        /\ Reflects(source[u], EventsOf(u), event)
    BY <2>1 DEF CInv
  <2>3. EventsOf(u) \subseteq Nat
    BY DEF EventsOf
  <2> QED
    BY <2>2, <2>3, Determined
<1> QED
  BY <1>1, Convergence, PTL

-----------------------------------------------------------------------------
(* The refinement of UserMirror.                                           *)

LEMMA BacklogItems ==
  /\ \A n \in EventId : pc[n] \in Pending => <<n, event[n]>> \in Backlog
  /\ \A item \in Backlog : \E n \in EventId : pc[n] \in Pending /\ item = <<n, event[n]>>
BY DEF Backlog, Pending

\* A new event joins the backlog behind all others, or was lost at once.
LEMMA BroadcastMirrored ==
  ASSUME IInv, NEW e \in Event, Broadcast(e)
  PROVE  Mirror!MirrorNext \/ UNCHANGED Mirror!mvars
<1> DEFINE n == published + 1
<1>1. /\ n \in EventId /\ published \in Nat /\ n \notin 1..published
      /\ UNCHANGED users
      /\ event' = [event EXCEPT ![n] = e]
      /\ pc' = [pc EXCEPT ![n] = IF proc = "consuming" THEN "queued" ELSE "lost"]
  BY BoundsAssumption DEF Broadcast, IInv, TypeOK, EventId
<1>2. pc[n] \notin Pending
  BY <1>1 DEF IInv, Numbered, Pending, Handling
<1>3. \A m \in EventId \ {n} : pc'[m] = pc[m] /\ event'[m] = event[m]
  BY <1>1 DEF IInv, TypeOK
<1>4. event'[n] = e /\ pc'[n] \in {"queued", "lost"}
  BY <1>1 DEF IInv, TypeOK
<1>5. CASE pc'[n] = "lost"
  <2>1. Backlog' = Backlog
    BY <1>2, <1>3, <1>5 DEF Backlog, Pending, Handling
  <2> QED
    BY <1>1, <2>1 DEF Mirror!mvars
<1>6. CASE pc'[n] = "queued"
  <2>1. Backlog' = Backlog \cup {<<n, e>>}
    BY <1>1, <1>2, <1>3, <1>4, <1>6 DEF Backlog, Pending
  <2>2. ASSUME NEW old \in Backlog
        PROVE  old[1] < n
    <3>1. PICK m \in EventId : pc[m] \in Pending /\ old = <<m, event[m]>>
      BY BacklogItems
    <3>2. m \in 1..published
      BY <3>1, Known DEF Pending, Handling
    <3> QED
      BY <1>1, <3>1, <3>2
  <2>3. <<n, e>> \notin Backlog
    BY <1>1, <2>2
  <2>4. Mirror!Receive(<<n, e>>)
    BY <1>1, <2>1, <2>2 DEF Mirror!Receive
  <2> QED
    BY <2>1, <2>3, <2>4 DEF Mirror!MirrorNext
<1> QED
  BY <1>4, <1>5, <1>6

\* The commit of a handler that was alone applies the oldest event of its user.
LEMMA CommitMirrored ==
  ASSUME SInv, NEW n \in EventId, Commit(n), raced = {}
  PROVE  Mirror!MirrorNext
<1>0. IInv /\ OInv
  BY DEF SInv, OInv
<1>1. /\ n \in 1..published /\ pc[n] = "commit" /\ pc[n] \in Pending
      /\ pc' = [pc EXCEPT ![n] = "done"] /\ UNCHANGED event
      /\ RowOf(n)
  BY <1>0, Known DEF Commit, Pending, Handling
<1> DEFINE item == <<n, event[n]>>
<1>2. item \in Backlog
  BY <1>1, BacklogItems
<1>3. Backlog' = Backlog \ {item}
  <2>1. pc'[n] \notin Pending /\ \A m \in EventId \ {n} : pc'[m] = pc[m]
    BY <1>0, <1>1 DEF IInv, TypeOK, Pending, Handling
  <2>2. Backlog = {<<m, event[m]>> : m \in {k \in EventId : pc[k] \in Pending}}
    BY DEF Backlog, Pending
  <2>3. Backlog' = {<<m, event[m]>> : m \in {k \in EventId : pc'[k] \in Pending}}
    BY <1>1 DEF Backlog, Pending
  <2>4. \A m \in EventId : pc'[m] \in Pending <=> pc[m] \in Pending /\ m # n
    BY <1>1, <2>1
  <2> QED
    BY <2>2, <2>3, <2>4
<1>4. ASSUME NEW other \in Backlog, other[2].user = event[n].user
      PROVE  n <= other[1]
  <2>1. PICK m \in EventId : pc[m] \in Pending /\ other = <<m, event[m]>>
    BY BacklogItems
  <2>2. pc[n] \in Handling
    BY <1>1 DEF Handling
  <2>3. pc[m] = "queued" => n < m
    BY <1>0, <2>2 DEF OInv, InOrder
  <2>4. pc[m] \in Handling => m = n
    <3>1. event[m].user = event[n].user
      BY <1>4, <2>1
    <3> QED
      BY <1>0, <2>2, <3>1 DEF OInv, OneAtATime
  <2> QED
    BY <2>1, <2>3, <2>4 DEF Pending, EventId
<1>5. event[n].type = "create" \/ users[event[n].user] # NoRow
  BY <1>1 DEF RowOf, Loaded
<1>6. users' = [users EXCEPT ![event[n].user] = Effect(@, event[n])]
  BY FreshCommit
<1>7. Mirror!Apply(item)
  BY <1>3, <1>4, <1>5, <1>6 DEF Mirror!Apply, Mirror!Effect, Effect, Mirror!Assign, Assign,
     Mirror!NewUser, NewUser, Mirror!Blank, Blank
<1> QED
  BY <1>2, <1>7 DEF Mirror!MirrorNext

LEMMA MirrorStep ==
  ASSUME CInv, [Next]_vars, raced' = {}
  PROVE  Mirror!MirrorNext \/ UNCHANGED Mirror!mvars
<1>0. SInv /\ IInv /\ raced = {}
  <2>1. SInv /\ IInv
    BY DEF CInv, SInv, OInv
  <2> QED
    BY <2>1, HistoryGrows
<1>1. CASE users' # users
  <2>1. PICK n \in EventId : Commit(n)
    BY <1>1, RowsChangeByCommit
  <2> QED
    BY <1>0, <2>1, CommitMirrored
<1>2. ASSUME NEW e \in Event, Broadcast(e)
      PROVE  Mirror!MirrorNext \/ UNCHANGED Mirror!mvars
  BY <1>0, <1>2, BroadcastMirrored
<1>3. CASE users' = users /\ UNCHANGED <<published, event>>
  <2>1. ASSUME NEW item \in Backlog'
        PROVE  item \in Backlog
    <3>1. PICK n \in EventId : pc'[n] \in Pending /\ item = <<n, event[n]>>
      BY <1>3, <2>1 DEF Backlog, Pending
    <3>2. pc[n] \in Pending
      BY <1>0, <1>3, <3>1, PendingBySteps DEF IInv, TypeOK
    <3> QED
      BY <3>1, <3>2, BacklogItems
  <2>2. Mirror!Drop
    BY <1>3, <2>1 DEF Mirror!Drop
  <2> QED
    BY <2>2 DEF Mirror!MirrorNext
<1> QED
  BY <1>0, <1>1, <1>2, <1>3, BroadcastOrNot

\* As long as no two handlers of one user overlap, the replica does what
\* UserMirror says: each save is the whole effect of one event, in the order of
\* the broadcasts, whatever is dropped (trip.subscribe.ts, user.repository.ts).
THEOREM HandlersMirrorEvents == Spec => MirrorSpec
<1>1. Init => Mirror!MirrorInit
  BY DEF Init, Mirror!MirrorInit, Backlog, Handling
<1>2. CInv /\ [Next]_vars => [raced' = {} => Mirror!MirrorNext]_(Mirror!mvars)
  BY MirrorStep
<1> QED
  BY <1>1, <1>2, Convergence, PTL DEF Spec, MirrorSpec
=============================================================================
