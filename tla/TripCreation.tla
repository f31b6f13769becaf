---------------------------- MODULE TripCreation ----------------------------
(***************************************************************************)
(* POST /trips, from the guards of the controller to the event that        *)
(* announces the trip.  Requests overlap: each pauses wherever the code    *)
(* awaits Redis, PostgreSQL or the location service, and between two of    *)
(* its steps users are deleted in the replica (module UserReplica),        *)
(* headers are blacklisted and the process may die.                        *)
(*                                                                         *)
(* Stages, named for what the request waits for: the blacklist, the user   *)
(* of the token, its callback ("entry"), the publisher, the two locations, *)
(* the route plan, the INSERT ("insert"), its COMMIT and the answer to the *)
(* COMMIT ("ack").                                                         *)
(***************************************************************************)
EXTENDS Naturals, FiniteSets

CONSTANTS
  Request,         \* the requests that may arrive
  User,            \* users, and the one token of each
  Header,          \* forms in which an Authorization header may carry the token
  Trial,           \* users whose role the route does not admit
  Place,           \* location names a request may give
  Known,           \* those the location table has
  Flaw,            \* what may be wrong with a request
  NoRequest,       \* a request that has not arrived
  MaxConnections,  \* connections to the broker that may be open at a time
  MaxFaults,       \* bound: queries, calls and connections that fail
  MaxListed,       \* bound: headers blacklisted
  MaxChanges,      \* bound: deletions and restorations of users
  MaxCrashes       \* bound: crashes

Content == [user : User, header : Header, publisherId : User,
            places : (SUBSET Place) \ {{}}, flaw : Flaw]

ASSUME RequestAssumption == NoRequest \notin Content

\* The token has expired, or the body is not a CreateTripDto.
ASSUME FlawAssumption == Flaw \subseteq {"none", "expired", "invalid"}

ASSUME TrialAssumption == Trial \subseteq User

ASSUME BoundsAssumption ==
  /\ MaxConnections \in Nat
  /\ MaxFaults \in Nat
  /\ MaxListed \in Nat
  /\ MaxChanges \in Nat
  /\ MaxCrashes \in Nat

VARIABLES
  pc,         \* pc[r]: the stage of request r
  req,        \* req[r]: what it asks for
  code,       \* code[r]: the status its handler answers with, 0 before
  active,     \* active[u]: status of u in the replica
  blacklist,  \* the blacklisted headers: the token of a user, in a form
  trips,      \* requests whose trip is stored
  audit,      \* the audit rows of those trips (AuditTrail)
  conn, open, \* the announcements (Publisher)
  up,         \* the process runs
  blocked,    \* requests whose header was blacklisted before they arrived
  seen,       \* requests whose user has been active since the handler was entered
  faults, changes, crashes

vars == <<pc, req, code, active, blacklist, trips, audit, conn, open, up,
          blocked, seen, faults, changes, crashes>>

Trail == INSTANCE AuditTrail WITH Save <- Request

Broker == INSTANCE Publisher WITH Message <- Request

Guarded == {"blacklist", "user", "entry"}
Handled == {"publisher", "locations", "route", "insert", "commit", "ack"}
Waiting == Guarded \cup Handled
Code == {0, 201, 400, 401, 403, 500}

TypeOK ==
  /\ pc \in [Request -> {"new", "answered", "dead"} \cup Waiting]
  /\ req \in [Request -> Content \cup {NoRequest}]
  /\ code \in [Request -> Code]
  /\ active \in [User -> BOOLEAN]
  /\ blacklist \in SUBSET (User \X Header)
  /\ trips \in SUBSET Request
  /\ Trail!TypeOK
  /\ Broker!TypeOK
  /\ up \in BOOLEAN
  /\ blocked \in SUBSET Request
  /\ seen \in SUBSET Request
  /\ faults \in 0..MaxFaults
  /\ changes \in 0..MaxChanges
  /\ crashes \in 0..MaxCrashes

Init ==
  /\ pc = [r \in Request |-> "new"]
  /\ req = [r \in Request |-> NoRequest]
  /\ code = [r \in Request |-> 0]
  /\ active \in [User -> BOOLEAN]
  /\ blacklist = {}
  /\ trips = {}
  /\ Trail!Init
  /\ Broker!Init
  /\ up = TRUE
  /\ blocked = {}
  /\ seen = {}
  /\ faults = 0
  /\ changes = 0
  /\ crashes = 0

\* What surrounds the requests, and what follows the INSERT.
world == <<active, blacklist, up, changes, crashes>>
effects == <<trips, audit, conn, open>>

\* The list is searched for the header as the request wrote it.  The strategy
\* takes the token out of other forms of the header as well.
Listed(q) == <<q.user, q.header>> \in blacklist

GoTo(r, stage) == pc' = [pc EXCEPT ![r] = stage] /\ UNCHANGED code

Answer(r, status) ==
  /\ pc' = [pc EXCEPT ![r] = "answered"]
  /\ code' = [code EXCEPT ![r] = status]

-----------------------------------------------------------------------------
(* The guards.                                                             *)

\* JwtStrategy.validate up to its first await.
Arrive(r) ==
  /\ up
  /\ pc[r] = "new"
  /\ \E q \in Content :
       /\ req' = [req EXCEPT ![r] = q]
       /\ blocked' = IF Listed(q) THEN blocked \cup {r} ELSE blocked
       /\ IF q.flaw = "expired" THEN Answer(r, 401) ELSE GoTo(r, "blacklist")
  /\ UNCHANGED <<world, effects, seen, faults>>

\* Mutant of CheckBlacklist: the list is read from the wrong end, and the last
\* header appended is not in the range.
CheckOldBlacklist(r) ==
  /\ pc[r] = "blacklist"
  /\ IF Listed(req[r]) /\ Cardinality(blacklist) > 1
       THEN Answer(r, 401) ELSE GoTo(r, "user")
  /\ UNCHANGED <<world, effects, req, blocked, seen, faults>>

CheckBlacklist(r) ==
  /\ pc[r] = "blacklist"
  /\ IF Listed(req[r]) THEN Answer(r, 401) ELSE GoTo(r, "user")
  /\ UNCHANGED <<world, effects, req, blocked, seen, faults>>

\* The database looks for the username with status TRUE.
FindUser(r) ==
  /\ pc[r] = "user"
  /\ IF active[req[r].user] THEN GoTo(r, "entry") ELSE Answer(r, 401)
  /\ UNCHANGED <<world, effects, req, blocked, seen, faults>>

\* With the user found, RoleGuard, the ValidationPipe and the first lines of
\* createTrip run up to the next await.
Enter(r) ==
  LET q == req[r] IN
  /\ pc[r] = "entry"
  /\ \/ /\ q.user \in Trial
        /\ Answer(r, 403)
     \/ /\ q.user \notin Trial
        /\ q.flaw = "invalid"
        /\ Answer(r, 400)
     \/ /\ q.user \notin Trial
        /\ q.flaw # "invalid"
        /\ IF q.user # q.publisherId THEN Answer(r, 403) ELSE GoTo(r, "publisher")
  /\ seen' = IF active[q.user] THEN seen \cup {r} ELSE seen
  /\ UNCHANGED <<world, effects, req, blocked, faults>>

-----------------------------------------------------------------------------
(* TripService.createTrip.                                                 *)

\* Mutant of LoadPublisher: the query does not ask for the status.
LoadAnyPublisher(r) ==
  /\ pc[r] = "publisher"
  /\ GoTo(r, "locations")
  /\ UNCHANGED <<world, effects, req, blocked, seen, faults>>

\* getUserById asks for status TRUE.  Its NotFoundException is rethrown as an
\* InternalServerErrorException, so that createTrip throws.
LoadPublisher(r) ==
  /\ pc[r] = "publisher"
  /\ IF active[req[r].user] THEN GoTo(r, "locations") ELSE Answer(r, 500)
  /\ UNCHANGED <<world, effects, req, blocked, seen, faults>>

\* Both lookups, under Promise.all.  The repository throws for an unknown name.
LoadLocations(r) ==
  /\ pc[r] = "locations"
  /\ IF req[r].places \subseteq Known THEN GoTo(r, "route") ELSE Answer(r, 500)
  /\ UNCHANGED <<world, effects, req, blocked, seen, faults>>

\* The location service answers: with a plan, or with a status other than
\* "success", which stands for the plan without lines.
RouteAnswers(r) ==
  /\ pc[r] = "route"
  /\ GoTo(r, "insert")
  /\ UNCHANGED <<world, effects, req, blocked, seen, faults>>

\* Mutant of RouteTimesOut: the option "timeout" is not handed on.
RouteNeverTimesOut(r) ==
  /\ pc[r] = "route"
  /\ FALSE
  /\ UNCHANGED vars

\* Three seconds pass without an answer; getRoutePlanning throws.
RouteTimesOut(r) ==
  /\ pc[r] = "route"
  /\ Answer(r, 500)
  /\ UNCHANGED <<world, effects, req, blocked, seen, faults>>

\* Mutants of Insert: the save is not awaited, and the trip is announced, or
\* the request answered, at once.
InsertAndAnnounce(r) ==
  /\ pc[r] = "insert"
  /\ GoTo(r, "commit")
  /\ Trail!Fire(r)
  /\ Broker!Start(r)
  /\ UNCHANGED <<world, trips, req, blocked, seen, faults>>

InsertAndAnswer(r) ==
  /\ pc[r] = "insert"
  /\ pc' = [pc EXCEPT ![r] = "commit"]
  /\ code' = [code EXCEPT ![r] = 201]
  /\ Trail!Fire(r)
  /\ UNCHANGED <<world, trips, conn, open, req, blocked, seen, faults>>

\* trip.save(): INSERT, then the audit hook, then COMMIT.
Insert(r) ==
  /\ pc[r] = "insert"
  /\ GoTo(r, "commit")
  /\ Trail!Fire(r)
  /\ UNCHANGED <<world, trips, conn, open, req, blocked, seen, faults>>

CommitTrip(r) ==
  /\ pc[r] = "commit"
  /\ trips' = trips \cup {r}
  /\ GoTo(r, "ack")
  /\ UNCHANGED <<world, audit, conn, open, req, blocked, seen, faults>>

\* Mutant of Finish: the answer is built with StatusOK, not StatusCreated.
FinishWithOK(r) ==
  /\ pc[r] = "ack"
  /\ Broker!Start(r)
  /\ Answer(r, 200)
  /\ UNCHANGED <<world, trips, audit, req, blocked, seen, faults>>

\* Mutant of Finish: the trip is stored and never announced.
FinishUnannounced(r) ==
  /\ pc[r] = "ack"
  /\ Answer(r, 201)
  /\ UNCHANGED <<world, effects, req, blocked, seen, faults>>

\* save resolves: the trip is announced, and nobody waits for that.
Finish(r) ==
  /\ pc[r] = "ack"
  /\ Broker!Start(r)
  /\ Answer(r, 201)
  /\ UNCHANGED <<world, trips, audit, req, blocked, seen, faults>>

\* What the request waits for fails: a query, the call of the location
\* service, or the connection that should bring the answer to the COMMIT.
Fails(r) ==
  /\ pc[r] \in Waiting \ {"entry"}
  /\ faults < MaxFaults
  /\ faults' = faults + 1
  /\ Answer(r, 500)
  /\ UNCHANGED <<world, effects, req, blocked, seen>>

-----------------------------------------------------------------------------
(* What nobody waits for: audit rows and announcements.                    *)

aside == <<pc, req, code, world, trips, blocked, seen>>

StoreAudit(r) == Trail!Store(r) /\ UNCHANGED <<aside, conn, open, faults>>

RejectAudit(r) ==
  /\ faults < MaxFaults
  /\ faults' = faults + 1
  /\ Trail!Reject(r)
  /\ UNCHANGED <<aside, conn, open>>

Connect(r) == Broker!Connected(r) /\ UNCHANGED <<aside, audit, faults>>

\* The limit is reached.
ConnectRefused(r) ==
  /\ Broker!Full
  /\ Broker!ConnectFails(r)
  /\ UNCHANGED <<aside, audit, faults>>

Send(r) == Broker!Opened(r) /\ UNCHANGED <<aside, audit, faults>>

SendFails(r) ==
  /\ faults < MaxFaults
  /\ faults' = faults + 1
  /\ Broker!ConnectFails(r) \/ Broker!ChannelFails(r)
  /\ UNCHANGED <<aside, audit>>

-----------------------------------------------------------------------------
(* The world around: the user service and the process.                     *)

SignOut(u) ==
  /\ Cardinality(blacklist) < MaxListed
  /\ \E h \in Header :
       /\ <<u, h>> \notin blacklist
       /\ blacklist' = blacklist \cup {<<u, h>>}
  /\ UNCHANGED <<pc, req, code, active, up, changes, crashes, effects, blocked, seen, faults>>

\* A handler of UserReplica commits: it deletes the user, or restores one with
\* a stale copy.
ChangeUser(u) ==
  /\ changes < MaxChanges
  /\ changes' = changes + 1
  /\ active' = [active EXCEPT ![u] = ~@]
  /\ seen' = IF active'[u] THEN seen \cup {r \in Request : pc[r] \in Handled /\ req[r].user = u}
                           ELSE seen
  /\ UNCHANGED <<pc, req, code, blacklist, up, crashes, effects, blocked, faults>>

Crash ==
  /\ up
  /\ crashes < MaxCrashes
  /\ crashes' = crashes + 1
  /\ up' = FALSE
  /\ pc' = [r \in Request |-> IF pc[r] \in Waiting THEN "dead" ELSE pc[r]]
  /\ Trail!Wipe
  /\ Broker!Reset
  /\ UNCHANGED <<req, code, active, blacklist, trips, blocked, seen, faults, changes>>

Restart ==
  /\ ~up
  /\ up' = TRUE
  /\ UNCHANGED <<pc, req, code, active, blacklist, effects, blocked, seen, faults, changes, crashes>>

-----------------------------------------------------------------------------
\* The steps of a request other than its arrival and the failures.  The
\* answer of the location service is not among them.
Proceed(r) ==
  \/ CheckBlacklist(r)
  \/ FindUser(r)
  \/ Enter(r)
  \/ LoadPublisher(r)
  \/ LoadLocations(r)
  \/ RouteTimesOut(r)
  \/ Insert(r)
  \/ CommitTrip(r)
  \/ Finish(r)

Announce(r) == Connect(r) \/ ConnectRefused(r) \/ Send(r) \/ SendFails(r)

Next ==
  \/ \E r \in Request :
       \/ Arrive(r)
       \/ Proceed(r)
       \/ RouteAnswers(r)
       \/ Fails(r)
       \/ StoreAudit(r)
       \/ RejectAudit(r)
       \/ Announce(r)
  \/ \E u \in User : SignOut(u) \/ ChangeUser(u)
  \/ Crash
  \/ Restart

Spec == Init /\ [][Next]_vars

-----------------------------------------------------------------------------
(* Properties.                                                             *)

\* A user who had been deleted when the handler was entered, and was not
\* restored, publishes no trip, whatever the guards saw before
\* (user.repository.ts 38-59, trip.service.ts 66).
DeletedUsersPublishNothing == trips \subseteq seen

\* A request whose header, as it is written, was blacklisted before it arrived
\* creates nothing; the same token in a header written otherwise is not looked
\* for (jwt-strategy.ts 39-43).
BlacklistedCreateNothing == trips \cap blocked = {}

\* Only stored trips are announced, though a save may fail, and the process
\* die, at any step (trip.service.ts 116-131).
AnnouncedIsStored == \A r \in Request : conn[r] # "idle" => r \in trips

\* The answer tells whether the trip is stored; only a 500, or none, does not:
\* the COMMIT may have been executed and its reply lost
\* (trip.service.ts 54-131, trip.repository.ts 31-37).
AnswerTellsOutcome ==
  \A r \in Request : /\ code[r] = 201 => r \in trips
                     /\ code[r] \in {400, 401, 403} => r \notin trips

\* A trip that is answered with 201 has been announced.  Unless something fails
\* or the process dies, an announcement is dropped only when as many others as
\* the limit have had their connection, none of which is ever closed
\* (trip.service.ts 116-131, publisher.ts 16-31).
Dropped == {r \in Request : conn[r] = "rejected"}
AnsweredIsAnnounced ==
  /\ \A r \in Request : code[r] = 201 => conn[r] # "idle"
  /\ faults = 0 /\ crashes = 0 /\ Dropped # {} =>
       Cardinality({r \in Request : conn[r] \in {"opening", "sent"}}) >= MaxConnections

\* trip-service.spec.ts:122-144 and 146-173 expect that createTrip answers 400,
\* "User not found" and "Location not found", when the user or the locations do
\* not exist.
NotFoundIs400 ==
  [][\A r \in Request :
       (\/ LoadPublisher(r) /\ ~active[req[r].user]
        \/ LoadLocations(r) /\ ~(req[r].places \subseteq Known)) => code'[r] = 400]_vars
=============================================================================
