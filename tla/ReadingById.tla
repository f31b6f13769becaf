---------------------------- MODULE ReadingById ----------------------------
(***************************************************************************)
(* GET /trips/:id/publishers/:publisherId and GET /posts/:postId, from the *)
(* guards on, while trips and posts are stored and users are deleted and   *)
(* restored.  A trip is read with its posts by one query, after a query    *)
(* for the user; a post is read by one query that names its publisher.     *)
(*                                                                         *)
(* Stages: a request waits for the user ("guard"), its handler             *)
(* ("handler"), the publisher and the row.                                 *)
(***************************************************************************)
EXTENDS Naturals

CONSTANTS
  Reader,     \* the requests
  User,
  Trial,      \* users whose role the routes do not admit
  Trip,       \* trips that may be stored
  Owner,      \* Owner[t]: the publisher of trip t
  Post,       \* posts that may be stored
  About,      \* About[p]: the trip of post p, whose publisher is that of the post
  Malformed,  \* an id that is no UUID
  NoRequest,  \* a request that has not arrived
  MaxFaults,  \* bound: queries that fail
  MaxChanges  \* bound: deletions and restorations of users

Request == [of : {"trip"}, user : User, id : Trip \cup {Malformed}, publisherId : User]
           \cup [of : {"post"}, user : User, id : Post \cup {Malformed}]

ASSUME RequestAssumption == NoRequest \notin Request

ASSUME RowAssumption ==
  /\ Owner \in [Trip -> User]
  /\ About \in [Post -> Trip]
  /\ Trip \cap Post = {}
  /\ Malformed \notin Trip \cup Post

ASSUME BoundsAssumption == MaxFaults \in Nat /\ MaxChanges \in Nat

VARIABLES
  pc,       \* pc[r]: the stage of request r
  req,      \* req[r]: what it asks for
  code,     \* code[r]: the status it is answered with, 0 before
  shown,    \* shown[r]: the rows of its answer
  stored,   \* the trips and posts committed
  active,   \* active[u]: status of u in the replica
  known,    \* known[r]: the rows there were when r arrived
  seen,     \* requests whose user has been active since they arrived and, for
            \* those of trips, since their handler was entered
  faults, changes

world == <<stored, active, changes>>
vars == <<pc, req, code, shown, known, seen, world, faults>>

Waiting == {"guard", "handler", "publisher", "row"}

TypeOK ==
  /\ pc \in [Reader -> {"new", "answered"} \cup Waiting]
  /\ req \in [Reader -> Request \cup {NoRequest}]
  /\ code \in [Reader -> {0, 200, 400, 401, 403, 404, 500}]
  /\ shown \in [Reader -> SUBSET (Trip \cup Post)]
  /\ stored \in SUBSET (Trip \cup Post)
  /\ active \in [User -> BOOLEAN]
  /\ known \in [Reader -> SUBSET (Trip \cup Post)]
  /\ seen \in SUBSET Reader
  /\ faults \in 0..MaxFaults
  /\ changes \in 0..MaxChanges

Init ==
  /\ pc = [r \in Reader |-> "new"]
  /\ req = [r \in Reader |-> NoRequest]
  /\ code = [r \in Reader |-> 0]
  /\ shown = [r \in Reader |-> {}]
  /\ stored = {}
  /\ active = [u \in User |-> TRUE]
  /\ known = [r \in Reader |-> {}]
  /\ seen = {}
  /\ faults = 0
  /\ changes = 0

GoTo(r, s) == pc' = [pc EXCEPT ![r] = s] /\ UNCHANGED <<code, shown>>

Answer(r, status, rows) ==
  /\ pc' = [pc EXCEPT ![r] = "answered"]
  /\ code' = [code EXCEPT ![r] = status]
  /\ shown' = [shown EXCEPT ![r] = rows]

Refuse(r, status) == Answer(r, status, {})

Saw(r, u) == seen' = IF active[u] THEN seen \cup {r} ELSE seen \ {r}

-----------------------------------------------------------------------------
(* The guards.                                                             *)

Arrive(r) ==
  /\ pc[r] = "new"
  /\ \E q \in Request :
       /\ req' = [req EXCEPT ![r] = q]
       /\ Saw(r, q.user)
  /\ known' = [known EXCEPT ![r] = stored]
  /\ GoTo(r, "guard")
  /\ UNCHANGED <<world, faults>>

\* JwtStrategy asks for the user with status TRUE.  (Its blacklist, which ends
\* requests here with the same status, is in TripCreation.)
FindUser(r) ==
  /\ pc[r] = "guard"
  /\ IF active[req[r].user] THEN GoTo(r, "handler") ELSE Refuse(r, 401)
  /\ UNCHANGED <<req, known, seen, world, faults>>

\* RoleGuard, the validation pipe and, for a trip, the check of the credential.
Enter(r) ==
  LET q == req[r] IN
  /\ pc[r] = "handler"
  /\ \/ q.user \in Trial /\ Refuse(r, 403) /\ UNCHANGED seen
     \/ q.user \notin Trial /\ q.id = Malformed /\ Refuse(r, 400) /\ UNCHANGED seen
     \/ /\ q.user \notin Trial /\ q.id # Malformed /\ q.of = "post"
        /\ GoTo(r, "row")
        /\ UNCHANGED seen
     \/ /\ q.user \notin Trial /\ q.id # Malformed /\ q.of = "trip"
        /\ IF q.user = q.publisherId THEN GoTo(r, "publisher") ELSE Refuse(r, 403)
        /\ Saw(r, q.user)
  /\ UNCHANGED <<req, known, world, faults>>

-----------------------------------------------------------------------------
(* The queries.                                                            *)

\* Mutants of LoadPublisher: any user will do; a user who is gone gets a status
\* of its own.
LoadAnyPublisher(r) ==
  /\ pc[r] = "publisher"
  /\ GoTo(r, "row")
  /\ UNCHANGED <<req, known, seen, world, faults>>

LoadPublisherOrGone(r) ==
  /\ pc[r] = "publisher"
  /\ IF active[req[r].user] THEN GoTo(r, "row") ELSE Refuse(r, 410)
  /\ UNCHANGED <<req, known, seen, world, faults>>

\* getUserById asks for status TRUE, and throws when there is no such user.
LoadPublisher(r) ==
  /\ pc[r] = "publisher"
  /\ IF active[req[r].user] THEN GoTo(r, "row") ELSE Refuse(r, 500)
  /\ UNCHANGED <<req, known, seen, world, faults>>

PostsOf(t) == {p \in stored \cap Post : About[p] = t}

\* Mutant of FindTrip: the posts are joined, but not as a left join.
FindTripWithPosts(r) ==
  LET t == req[r].id IN
  /\ pc[r] = "row"
  /\ req[r].of = "trip"
  /\ IF t \in stored /\ PostsOf(t) # {} THEN Answer(r, 200, {t} \cup PostsOf(t)) ELSE Refuse(r, 404)
  /\ UNCHANGED <<req, known, seen, world, faults>>

\* The trip of that id, whoever published it, left joined with its posts.
FindTrip(r) ==
  LET t == req[r].id IN
  /\ pc[r] = "row"
  /\ req[r].of = "trip"
  /\ IF t \in stored THEN Answer(r, 200, {t} \cup PostsOf(t)) ELSE Refuse(r, 404)
  /\ UNCHANGED <<req, known, seen, world, faults>>

\* The post of that id and that publisher, without its relations.
FindPost(r) ==
  LET p == req[r].id IN
  /\ pc[r] = "row"
  /\ req[r].of = "post"
  /\ IF p \in stored /\ Owner[About[p]] = req[r].user THEN Answer(r, 200, {p}) ELSE Refuse(r, 404)
  /\ UNCHANGED <<req, known, seen, world, faults>>

\* What is waited for fails.
Fails(r) ==
  /\ pc[r] \in {"guard", "publisher", "row"}
  /\ faults < MaxFaults
  /\ faults' = faults + 1
  /\ Refuse(r, 500)
  /\ UNCHANGED <<req, known, seen, world>>

-----------------------------------------------------------------------------
(* The other requests, and the replica.                                    *)

requests == <<pc, req, code, shown, known, faults>>

StoreTrip(t) ==
  /\ t \notin stored
  /\ stored' = stored \cup {t}
  /\ UNCHANGED <<requests, seen, active, changes>>

StorePost(p) ==
  /\ p \notin stored
  /\ About[p] \in stored
  /\ stored' = stored \cup {p}
  /\ UNCHANGED <<requests, seen, active, changes>>

ChangeUser(u) ==
  /\ changes < MaxChanges
  /\ changes' = changes + 1
  /\ active' = [active EXCEPT ![u] = ~@]
  /\ seen' = seen \cup {r \in Reader : active'[u] /\ pc[r] \in Waiting /\ req[r].user = u}
  /\ UNCHANGED <<requests, stored>>

Next ==
  \/ \E r \in Reader : \/ Arrive(r) \/ FindUser(r) \/ Enter(r)
                       \/ LoadPublisher(r) \/ FindTrip(r) \/ FindPost(r) \/ Fails(r)
  \/ \E t \in Trip : StoreTrip(t)
  \/ \E p \in Post : StorePost(p)
  \/ \E u \in User : ChangeUser(u)

Spec == Init /\ [][Next]_vars

-----------------------------------------------------------------------------
(* Properties.                                                             *)

\* What there was of a trip when the request arrived is in its answer, and a
\* trip or an own post that was there is found, whatever is stored while the
\* request waits: who has been told of a row, or has read it, reads it again
\* (trip.repository.ts 64-74, post.repository.ts 49-56).
NothingGoesMissing ==
  \A r \in Reader :
    LET q == req[r] IN
    /\ code[r] = 200 /\ q.of = "trip" => {p \in known[r] \cap Post : About[p] = q.id} \subseteq shown[r]
    /\ code[r] = 404 /\ q.id \in known[r] => q.of = "post" /\ q.user # Owner[About[q.id]]

\* Whoever learns that a row is there, or that it is not, has been active since
\* the request arrived, and since its handler was entered if it is about a trip
\* (trip.service.ts 141-165, jwt-strategy.ts 45-51).
DeletedUsersReadNothing ==
  \A r \in Reader : code[r] \in {200, 404} => r \in seen
=============================================================================
