---------------------------- MODULE UserReplica ----------------------------
(***************************************************************************)
(* The trip service keeps a replica of the users owned by the user service *)
(* and updates it from the events that service broadcasts.                 *)
(*                                                                         *)
(* The consumer hands each delivery to a UserRepository handler and does   *)
(* not wait for it, so handlers overlap.  A handler that updates a user    *)
(* queries the row ("find"), changes its own copy and saves it.  The save  *)
(* of TypeORM queries the row once more ("lookup"), compares its copy with *)
(* that second result, and opens a transaction that writes the columns     *)
(* that differ ("write", then "commit").  Other handlers run between any   *)
(* two of these steps.                                                     *)
(***************************************************************************)
EXTENDS UserEvents, FiniteSets

CONSTANTS
  NoEvent,      \* what an event number not yet used stands for
  MaxEvents,    \* bound: events the user service broadcasts
  MaxInFlight,  \* bound: handlers that overlap (the code sets no limit)
  MaxFaults,    \* bound: queries that fail
  MaxOutages    \* bound: refused subscriptions, closed connections, crashes

ASSUME NoEventAssumption == NoEvent \notin Event

ASSUME BoundsAssumption ==
  /\ MaxEvents \in Nat
  /\ MaxInFlight \in Nat
  /\ MaxFaults \in Nat
  /\ MaxOutages \in Nat

EventId == 1..MaxEvents

VARIABLES
  source,     \* the rows of the user service itself
  published,  \* how many events it has broadcast
  event,      \* event[n]: the n-th of them
  pc,         \* pc[n]: where the n-th event, or its handler, has got to
  mem,        \* mem[n]: the entity its handler holds
  db,         \* db[n]: the row found by the lookup of its save
  users,      \* the replicated rows
  audit,      \* the audit log rows started by the saves
  proc,       \* the process and its subscription
  raced,      \* users two of whose events have been handled at the same time
  faults,     \* queries that failed so far
  outages     \* outages so far

vars == <<source, published, event, pc, mem, db, users, audit, proc, raced,
          faults, outages>>

Trail == INSTANCE AuditTrail WITH Save <- EventId

Handling == {"find", "lookup", "write", "commit"}
Settled == {"done", "failed", "lost"}
Stage == {"unsent", "queued"} \cup Handling \cup Settled

Table == [User -> Row \cup {NoRow}]

InFlight == {n \in EventId : pc[n] \in Handling}

TypeOK ==
  /\ source \in Table
  /\ published \in 0..MaxEvents
  /\ event \in [EventId -> Event \cup {NoEvent}]
  /\ pc \in [EventId -> Stage]
  /\ mem \in [EventId -> Row \cup {NoRow}]
  /\ db \in [EventId -> Row \cup {NoRow}]
  /\ users \in Table
  /\ Trail!TypeOK
  /\ proc \in {"starting", "consuming", "deaf", "down"}
  /\ raced \in SUBSET User
  /\ faults \in 0..MaxFaults
  /\ outages \in 0..MaxOutages

Init ==
  /\ source = [u \in User |-> NoRow]
  /\ published = 0
  /\ event = [n \in EventId |-> NoEvent]
  /\ pc = [n \in EventId |-> "unsent"]
  /\ mem = [n \in EventId |-> NoRow]
  /\ db = [n \in EventId |-> NoRow]
  /\ users = [u \in User |-> NoRow]
  /\ Trail!Init
  /\ proc = "starting"
  /\ raced = {}
  /\ faults = 0
  /\ outages = 0

-----------------------------------------------------------------------------
(* The user service: it changes its own row and broadcasts the event on a  *)
(* fanout exchange that is not durable.  Without a bound queue the event   *)
(* is gone.                                                                *)

Broadcast(e) ==
  LET n == published + 1 IN
  /\ published < MaxEvents
  /\ source' = [source EXCEPT ![e.user] = Effect(@, e)]
  /\ published' = n
  /\ event' = [event EXCEPT ![n] = e]
  /\ pc' = [pc EXCEPT ![n] = IF proc = "consuming" THEN "queued" ELSE "lost"]
  /\ UNCHANGED <<mem, db, users, audit, proc, raced, faults, outages>>

PublishCreate(u) ==
  /\ source[u] = NoRow
  /\ Broadcast([type |-> "create", user |-> u, value |-> published + 1])

PublishUpdate(u, type) ==
  /\ source[u] # NoRow
  /\ source[u].status
  /\ \E value \in {published + 1} \cup (IF type = "info" THEN {Blank} ELSE {}) :
       Broadcast([type |-> type, user |-> u, value |-> value])

-----------------------------------------------------------------------------
(* The consumer and the handlers.                                          *)

\* Mutant of Deliver: the queue does not keep the order of the events.
DeliverAnyOrder(n) ==
  /\ proc = "consuming"
  /\ pc[n] = "queued"
  /\ Cardinality(InFlight) < MaxInFlight
  /\ raced' = IF \E m \in InFlight : event[m].user = event[n].user
                THEN raced \cup {event[n].user}
                ELSE raced
  /\ UNCHANGED <<source, published, event, db, users, audit, proc, faults, outages>>

\* The broker delivers the oldest queued event; execute starts its handler
\* without waiting for those that still run.
Deliver(n) ==
  /\ proc = "consuming"
  /\ pc[n] = "queued"
  /\ \A m \in EventId : pc[m] = "queued" => n <= m
  /\ Cardinality(InFlight) < MaxInFlight
  /\ raced' = IF \E m \in InFlight : event[m].user = event[n].user
                THEN raced \cup {event[n].user}
                ELSE raced
  /\ UNCHANGED <<source, published, event, db, users, audit, proc, faults, outages>>

ReceiveCreate(n) ==
  /\ Deliver(n)
  /\ event[n].type = "create"
  /\ mem' = [mem EXCEPT ![n] = NewUser(event[n])]
  /\ pc' = [pc EXCEPT ![n] = "lookup"]

ReceiveUpdate(n) ==
  /\ Deliver(n)
  /\ event[n].type # "create"
  /\ pc' = [pc EXCEPT ![n] = "find"]
  /\ UNCHANGED mem

\* findOne({ id }) returns, and the handler assigns to the entity.
Find(n) ==
  /\ pc[n] = "find"
  /\ users[event[n].user] # NoRow
  /\ mem' = [mem EXCEPT ![n] = Assign(Select(users[event[n].user]), event[n])]
  /\ pc' = [pc EXCEPT ![n] = "lookup"]
  /\ UNCHANGED <<source, published, event, db, users, audit, proc, raced, faults, outages>>

\* Mutant of FindNothing: the row that is missing is created from the event.
FindNothingAndCreate(n) ==
  /\ pc[n] = "find"
  /\ users[event[n].user] = NoRow
  /\ mem' = [mem EXCEPT ![n] = NewUser(event[n])]
  /\ pc' = [pc EXCEPT ![n] = "lookup"]
  /\ UNCHANGED <<source, published, event, db, users, audit, proc, raced, faults, outages>>

\* findOne({ id }) returns undefined: assigning to it throws, the handler
\* logs the error and rejects.
FindNothing(n) ==
  /\ pc[n] = "find"
  /\ users[event[n].user] = NoRow
  /\ pc' = [pc EXCEPT ![n] = "failed"]
  /\ UNCHANGED <<source, published, event, mem, db, users, audit, proc, raced,
                 faults, outages>>

\* The query save makes for the row.  A copy that agrees with it needs no
\* write, unless another handler has saved the row since the copy was loaded:
\* then version and updatedAt, which the model leaves out, differ and are written
\* back.  A column that is never selected is compared with Hidden.
Lookup(n) ==
  LET row == users[event[n].user]
      stored == IF row = NoRow THEN NoRow ELSE Select(row)
  IN
  /\ pc[n] = "lookup"
  /\ db' = [db EXCEPT ![n] = stored]
  /\ \/ mem[n] = stored /\ pc' = [pc EXCEPT ![n] = "done"]
     \/ /\ mem[n] # stored \/ event[n].user \in raced
        /\ pc' = [pc EXCEPT ![n] = "write"]
  /\ UNCHANGED <<source, published, event, mem, users, audit, proc, raced,
                 faults, outages>>

\* Mutants of Flush: only an INSERT is audited; a statement waits for every
\* other open transaction on the row, not only for the one that has the lock.
FlushAuditingInserts(n) ==
  /\ pc[n] = "write"
  /\ \A m \in InFlight : pc[m] = "commit" => event[m].user # event[n].user
  /\ IF db[n] = NoRow THEN Trail!Fire(n) ELSE UNCHANGED audit
  /\ pc' = [pc EXCEPT ![n] = "commit"]
  /\ UNCHANGED <<source, published, event, mem, db, users, proc, raced, faults, outages>>

FlushAlone(n) ==
  /\ pc[n] = "write"
  /\ \A m \in InFlight \ {n} : pc[m] \in {"write", "commit"} => event[m].user # event[n].user
  /\ Trail!Fire(n)
  /\ pc' = [pc EXCEPT ![n] = "commit"]
  /\ UNCHANGED <<source, published, event, mem, db, users, proc, raced, faults, outages>>

\* The transaction executes its INSERT or UPDATE.  An UPDATE waits for the
\* lock of the row.  The audit hook runs here, before the COMMIT.
Flush(n) ==
  /\ pc[n] = "write"
  /\ \A m \in InFlight : pc[m] = "commit" => event[m].user # event[n].user
  /\ Trail!Fire(n)
  /\ pc' = [pc EXCEPT ![n] = "commit"]
  /\ UNCHANGED <<source, published, event, mem, db, users, proc, raced, faults, outages>>

\* What an UPDATE leaves in a row: of the copy only the columns that differed
\* from the lookup.
Merge(row, copy, stored) ==
  LET New(column) == IF copy[column] # stored[column] THEN copy[column] ELSE row[column]
  IN [status |-> New("status"), cred |-> New("cred"), info |-> New("info")]

\* The COMMIT is executed; whether its answer arrives is all one, for nobody
\* looks at what becomes of the handler.
Commit(n) ==
  LET u == event[n].user IN
  /\ pc[n] = "commit"
  /\ users' = [users EXCEPT ![u] = IF db[n] = NoRow THEN mem[n]
                                   ELSE Merge(@, mem[n], db[n])]
  /\ pc' = [pc EXCEPT ![n] = "done"]
  /\ UNCHANGED <<source, published, event, mem, db, audit, proc, raced, faults, outages>>

\* Any query of the handler fails, and of a COMMIT that means that it was not
\* executed; the transaction, if open, rolls back.  The event was acknowledged on
\* delivery (noAck), so nobody tries it again.
Abort(n) ==
  /\ pc[n] \in Handling
  /\ faults < MaxFaults
  /\ faults' = faults + 1
  /\ pc' = [pc EXCEPT ![n] = "failed"]
  /\ UNCHANGED <<source, published, event, mem, db, users, audit, proc, raced, outages>>

AuditStore(n) ==
  /\ Trail!Store(n)
  /\ UNCHANGED <<source, published, event, pc, mem, db, users, proc, raced,
                 faults, outages>>

AuditReject(n) ==
  /\ faults < MaxFaults
  /\ faults' = faults + 1
  /\ Trail!Reject(n)
  /\ UNCHANGED <<source, published, event, pc, mem, db, users, proc, raced, outages>>

-----------------------------------------------------------------------------
(* The subscription and the process.                                       *)

\* connect, createChannel, assertQueue, bindQueue and consume succeed.
Subscribe ==
  /\ proc = "starting"
  /\ proc' = "consuming"
  /\ UNCHANGED <<source, published, event, pc, mem, db, users, audit, raced,
                 faults, outages>>

Outage ==
  /\ outages < MaxOutages
  /\ outages' = outages + 1
  /\ UNCHANGED <<source, published, event, mem, db, users, raced, faults>>

\* One of them fails: the constructor ignores the rejected promise and the
\* service runs on without a subscription.
SubscribeRejected ==
  /\ proc = "starting"
  /\ proc' = "deaf"
  /\ Outage
  /\ UNCHANGED <<pc, audit>>

\* The broker closes the connection.  The exclusive queue disappears with its
\* messages; the handlers that had started go on.
BrokerCloses ==
  /\ proc = "consuming"
  /\ proc' = "deaf"
  /\ pc' = [n \in EventId |-> IF pc[n] = "queued" THEN "lost" ELSE pc[n]]
  /\ Outage
  /\ UNCHANGED audit

Crash ==
  /\ proc # "down"
  /\ proc' = "down"
  /\ pc' = [n \in EventId |-> IF pc[n] = "queued" \/ n \in InFlight THEN "lost" ELSE pc[n]]
  /\ Trail!Wipe
  /\ Outage

Restart ==
  /\ proc = "down"
  /\ proc' = "starting"
  /\ UNCHANGED <<source, published, event, pc, mem, db, users, audit, raced,
                 faults, outages>>

-----------------------------------------------------------------------------
UserService ==
  \/ \E u \in User : PublishCreate(u)
  \/ \E u \in User, type \in EventType \ {"create"} : PublishUpdate(u, type)

\* The steps of the handler of event n that succeed.
Progress(n) ==
  \/ ReceiveCreate(n)
  \/ ReceiveUpdate(n)
  \/ Find(n)
  \/ FindNothing(n)
  \/ Lookup(n)
  \/ Flush(n)
  \/ Commit(n)

Handler(n) ==
  \/ Progress(n)
  \/ Abort(n)
  \/ AuditStore(n)
  \/ AuditReject(n)

Process == Subscribe \/ SubscribeRejected \/ BrokerCloses \/ Crash \/ Restart

Next ==
  \/ UserService
  \/ \E n \in EventId : Handler(n)
  \/ Process

Spec == Init /\ [][Next]_vars

-----------------------------------------------------------------------------
(* Properties.                                                             *)

EventsOf(u) == {n \in 1..published : event[n].user = u}

\* A user whose events all took effect, and were never handled two at a time,
\* has in the replica exactly the row the user service has: stale copies,
\* omitted columns and the diff of save lose nothing (user.repository.ts).
Converged ==
  \A u \in User :
    u \notin raced /\ (\A n \in EventsOf(u) : pc[n] = "done") => users[u] = source[u]

\* One of these events of u carries one of these values and was audited.
Traced(u, types, values) ==
  \E n \in EventsOf(u) : audit[n] # "none" /\ event[n].type \in types /\ event[n].value \in values

\* However handlers overlap, each column of a replicated row holds what some
\* event of that user gave it, and the save of that event has started an audit
\* row: nothing is invented, blanked or changed without a trace
\* (user.repository.ts, user.audit.ts).
Provenance ==
  \A u \in User : users[u] # NoRow =>
    /\ Traced(u, {"create", "password"}, {users[u].cred})
    /\ Traced(u, {"create", "info"}, {users[u].info})
    /\ ~users[u].status => Traced(u, {"delete"}, Nat)

\* The credentials of a row change only when a password event of that user
\* commits, and to the value of that event: a stale copy never brings old
\* credentials back, because findOne leaves them out (user.entity.ts 53-57).
PasswordNeverClobbered ==
  [][\A u \in User :
       users[u] # NoRow /\ users'[u] # NoRow /\ users'[u].cred # users[u].cred
         => \E n \in EventsOf(u) : /\ pc[n] = "commit" /\ pc'[n] = "done"
                                   /\ event[n].type = "password"
                                   /\ users'[u].cred = event[n].value]_vars

\* The credentials of a user whose events were never handled two at a time only
\* become newer, whatever fails, is lost or is handled again after a restart: to
\* see an old password come back takes two handlers at once
\* (user.repository.ts 68-80, trip.subscribe.ts 53-62).
PasswordsOnlyAdvance ==
  [][\A u \in User \ raced' :
       users[u] # NoRow => users'[u] # NoRow /\ users'[u].cred >= users[u].cred]_vars

\* The replica says that u is deleted, and no running handler holds a copy of
\* the row from before the deletion.
DeletionSettled(u) ==
  /\ users[u] # NoRow
  /\ ~users[u].status
  /\ \A n \in InFlight \cap EventsOf(u) : pc[n] # "find" => ~mem[n].status

\* Once that is so it remains so, through later events, failures, crashes and
\* restarts: only a handler that overlapped the deletion can undo it
\* (user.repository.ts 68-120).
DeletionIsFinal == [][\A u \in User : DeletionSettled(u) => DeletionSettled(u)']_vars

\* An event that reached the queue ends: it is applied, it fails, or it is lost
\* with its connection or process.  No handler waits for ever, although
\* transactions wait for each other's row locks (trip.subscribe.ts 75-88).
Settles == \A n \in EventId : pc[n] = "queued" ~> pc[n] \in Settled

\* user.entity.ts:60 says of the column status that "true means not deleted".
\* For a user all of whose events were applied without an error that would be:
StatusMeansNotDeleted ==
  \A u \in User :
    users[u] # NoRow /\ (\A n \in EventsOf(u) : pc[n] = "done")
      => (users[u].status => source[u].status)

\* As long as the events of each user come far enough apart to be handled one at
\* a time, every step of the replica is one of the mirror that UserMirror
\* describes, or leaves it alone: each committed save is the whole effect of one
\* event, in order (trip.subscribe.ts, user.repository.ts).
Backlog == {<<n, event[n]>> : n \in {m \in EventId : pc[m] \in {"queued"} \cup Handling}}

Mirror == INSTANCE UserMirror WITH backlog <- Backlog

MirrorSpec == Mirror!MirrorInit /\ [][raced' = {} => Mirror!MirrorNext]_(Mirror!mvars)
=============================================================================
