---------------------------- MODULE PostCreation ----------------------------
(***************************************************************************)
(* POST /posts from the handler on: PostService.createPost, the post it    *)
(* stores and announces, and the images it hands to the uploader without   *)
(* waiting.  The guards in front are those of TripCreation.  Requests      *)
(* overlap at every await, users are deleted meanwhile, trips appear, and  *)
(* the process dies: of itself, or of an upload.                           *)
(*                                                                         *)
(* Stages: a request waits for the publisher, the trip, the INSERT         *)
(* ("insert"), its COMMIT and the answer to the COMMIT ("ack").            *)
(***************************************************************************)
EXTENDS Naturals, FiniteSets

CONSTANTS
  Request,         \* the requests that may arrive
  User,
  Trip,            \* trips that may exist
  Owner,           \* Owner[t]: the publisher of trip t
  File,            \* names of image files
  PublicId,        \* PublicId[f]: the public id of the name f at the CDN
  NoRequest,       \* a request that has not arrived
  NoFile,
  MaxConnections,  \* connections to the broker that may be open at a time
  MaxDescriptors,  \* file descriptors the process may have
  MaxFaults,       \* bound: queries and calls that fail
  MaxChanges,      \* bound: deletions and restorations of users
  MaxCrashes       \* bound: crashes that no upload causes

Content == [user : User, publisherId : User, trip : Trip, files : SUBSET File]

ASSUME RequestAssumption == NoRequest \notin Content

ASSUME OwnerAssumption == Owner \in [Trip -> User]

ASSUME FileAssumption == NoFile \notin File

ASSUME BoundsAssumption ==
  /\ MaxConnections \in Nat
  /\ MaxDescriptors \in Nat
  /\ MaxFaults \in Nat
  /\ MaxChanges \in Nat
  /\ MaxCrashes \in Nat

VARIABLES
  pc,         \* pc[r]: the stage of request r
  req,        \* req[r]: what it asks for
  code,       \* code[r]: the status its handler answers with, 0 before
  active,     \* active[u]: status of u in the replica
  trips,      \* the trips that are stored
  posts,      \* requests whose post is stored
  audit,      \* the audit rows of those posts (AuditTrail)
  conn, open, \* the announcements (Publisher)
  stage, left, file, dir, disk, fds, transit, cdn,  \* the images (Uploader)
  up,         \* the process runs
  seen,       \* requests whose user has been active since the handler was entered
  thrown,     \* how often mkdirSync has ended the process
  faults, changes, crashes

images == <<stage, left, file, dir, disk, fds, transit, cdn>>
effects == <<posts, audit, conn, open>>
world == <<active, trips, up, thrown, changes, crashes>>
vars == <<pc, req, code, effects, images, world, seen, faults>>

Trail == INSTANCE AuditTrail WITH Save <- Request

Broker == INSTANCE Publisher WITH Message <- Request

Files == [r \in Request |-> IF req[r] = NoRequest THEN {} ELSE req[r].files]

Images == INSTANCE Uploader WITH Batch <- Request, files <- Files

Waiting == {"publisher", "trip", "insert", "commit", "ack"}
Code == {0, 201, 400, 403, 500}

TypeOK ==
  /\ pc \in [Request -> {"new", "answered", "dead"} \cup Waiting]
  /\ req \in [Request -> Content \cup {NoRequest}]
  /\ code \in [Request -> Code]
  /\ active \in [User -> BOOLEAN]
  /\ trips \in SUBSET Trip
  /\ posts \in SUBSET Request
  /\ Trail!TypeOK
  /\ Broker!TypeOK
  /\ Images!TypeOK
  /\ up \in BOOLEAN
  /\ seen \in SUBSET Request
  /\ thrown \in Nat
  /\ faults \in 0..MaxFaults
  /\ changes \in 0..MaxChanges
  /\ crashes \in 0..MaxCrashes

Init ==
  /\ pc = [r \in Request |-> "new"]
  /\ req = [r \in Request |-> NoRequest]
  /\ code = [r \in Request |-> 0]
  /\ active = [u \in User |-> TRUE]
  /\ trips = {}
  /\ posts = {}
  /\ Trail!Init
  /\ Broker!Init
  /\ Images!Init
  /\ up = TRUE
  /\ seen = {}
  /\ thrown = 0
  /\ faults = 0
  /\ changes = 0
  /\ crashes = 0

GoTo(r, s) == pc' = [pc EXCEPT ![r] = s] /\ UNCHANGED code

Answer(r, status) ==
  /\ pc' = [pc EXCEPT ![r] = "answered"]
  /\ code' = [code EXCEPT ![r] = status]

-----------------------------------------------------------------------------
(* PostService.createPost.                                                 *)

\* The handler is entered, for a user the guards have found active before.
Enter(r) ==
  /\ up
  /\ pc[r] = "new"
  /\ \E q \in Content :
       /\ req' = [req EXCEPT ![r] = q]
       /\ seen' = IF active[q.user] THEN seen \cup {r} ELSE seen
       /\ IF q.user # q.publisherId THEN Answer(r, 403) ELSE GoTo(r, "publisher")
  /\ UNCHANGED <<effects, images, world, faults>>

\* Mutant of LoadPublisher: the NotFoundException is not caught on its way.
LoadPublisherOr404(r) ==
  /\ pc[r] = "publisher"
  /\ IF active[req[r].user] THEN GoTo(r, "trip") ELSE Answer(r, 404)
  /\ UNCHANGED <<req, effects, images, world, seen, faults>>

\* getUserById asks for status TRUE, and throws when there is no such user.
LoadPublisher(r) ==
  /\ pc[r] = "publisher"
  /\ IF active[req[r].user] THEN GoTo(r, "trip") ELSE Answer(r, 500)
  /\ UNCHANGED <<req, effects, images, world, seen, faults>>

\* Mutant of VerifyTrip: the upload is begun before the checks.
UploadAndVerifyTrip(r) ==
  LET t == req[r].trip IN
  /\ pc[r] = "trip"
  /\ \/ /\ t \notin trips
        /\ Answer(r, 400)
     \/ /\ t \in trips /\ Owner[t] # req[r].publisherId
        /\ Answer(r, 403)
     \/ /\ t \in trips /\ Owner[t] = req[r].publisherId
        /\ GoTo(r, "insert")
  /\ Images!Begin(r, req[r].files)
  /\ UNCHANGED <<req, effects, world, seen, faults>>

\* The trip must exist and be the publisher's.  The upload is begun, and the
\* save of the post with it.
VerifyTrip(r) ==
  LET t == req[r].trip IN
  /\ pc[r] = "trip"
  /\ \/ /\ t \notin trips
        /\ Answer(r, 400)
        /\ UNCHANGED images
     \/ /\ t \in trips /\ Owner[t] # req[r].publisherId
        /\ Answer(r, 403)
        /\ UNCHANGED images
     \/ /\ t \in trips /\ Owner[t] = req[r].publisherId
        /\ GoTo(r, "insert")
        /\ Images!Begin(r, req[r].files)
  /\ UNCHANGED <<req, effects, world, seen, faults>>

\* Mutant of Insert: the save is not awaited, and the post is announced at once.
InsertAndAnnounce(r) ==
  /\ pc[r] = "insert"
  /\ GoTo(r, "commit")
  /\ Trail!Fire(r)
  /\ Broker!Start(r)
  /\ UNCHANGED <<req, posts, images, world, seen, faults>>

\* post.save(): INSERT, then the audit hook, then COMMIT.
Insert(r) ==
  /\ pc[r] = "insert"
  /\ GoTo(r, "commit")
  /\ Trail!Fire(r)
  /\ UNCHANGED <<req, posts, conn, open, images, world, seen, faults>>

CommitPost(r) ==
  /\ pc[r] = "commit"
  /\ posts' = posts \cup {r}
  /\ GoTo(r, "ack")
  /\ UNCHANGED <<req, audit, conn, open, images, world, seen, faults>>

\* save resolves: the post is announced, and nobody waits for that.
Finish(r) ==
  /\ pc[r] = "ack"
  /\ Broker!Start(r)
  /\ Answer(r, 201)
  /\ UNCHANGED <<req, posts, audit, images, world, seen, faults>>

Fault ==
  /\ faults < MaxFaults
  /\ faults' = faults + 1

\* A query fails, or the connection that should bring the answer to the COMMIT.
Fails(r) ==
  /\ pc[r] \in Waiting
  /\ Fault
  /\ Answer(r, 500)
  /\ UNCHANGED <<req, effects, images, world, seen>>

-----------------------------------------------------------------------------
(* What nobody waits for.                                                  *)

handlers == <<pc, req, code, posts, seen>>

StoreAudit(r) ==
  /\ Trail!Store(r)
  /\ UNCHANGED <<handlers, conn, open, images, world, faults>>

RejectAudit(r) ==
  /\ Trail!Reject(r)
  /\ Fault
  /\ UNCHANGED <<handlers, conn, open, images, world>>

Announce(r) ==
  /\ \/ /\ Broker!Connected(r) \/ Broker!Opened(r) \/ (Broker!Full /\ Broker!ConnectFails(r))
        /\ UNCHANGED faults
     \/ /\ Broker!ConnectFails(r) \/ Broker!ChannelFails(r)
        /\ Fault
  /\ UNCHANGED <<handlers, audit, images, world>>

\* The upload of r goes on.
Upload(r) ==
  /\ \/ Images!Look(r)
     \/ Images!MakeDirectory(r)
     \/ Images!Open(r)
     \/ Images!NoBytes(r)
     \/ Images!Write(r)
     \/ Images!Read(r)
     \/ Images!Stored(r)
     \/ Images!EmptyRefused(r)
  /\ UNCHANGED <<handlers, audit, conn, open, world, faults>>

UploadFails(r) ==
  /\ Images!UploadFails(r)
  /\ Fault
  /\ UNCHANGED <<handlers, audit, conn, open, world>>

-----------------------------------------------------------------------------
(* The world around.                                                       *)

StoreTrip(t) ==
  /\ t \notin trips
  /\ trips' = trips \cup {t}
  /\ UNCHANGED <<pc, req, code, effects, images, active, up, thrown, changes, crashes, seen, faults>>

\* A handler of UserReplica commits.
ChangeUser(u) ==
  /\ changes < MaxChanges
  /\ changes' = changes + 1
  /\ active' = [active EXCEPT ![u] = ~@]
  /\ seen' = IF active'[u] THEN seen \cup {r \in Request : pc[r] \in Waiting /\ req[r].user = u}
                           ELSE seen
  /\ UNCHANGED <<pc, req, code, effects, images, trips, up, thrown, crashes, faults>>

\* The process dies, with everything that waits.
Die ==
  /\ up
  /\ up' = FALSE
  /\ pc' = [r \in Request |-> IF pc[r] \in Waiting THEN "dead" ELSE pc[r]]
  /\ Trail!Wipe
  /\ Broker!Reset
  /\ Images!Killed
  /\ UNCHANGED <<req, code, posts, active, trips, changes, seen>>

\* An upload finds the directory half made, or made meanwhile.
DieOfDirectory(r) ==
  /\ Images!MkdirThrows(r)
  /\ Die
  /\ thrown' = thrown + 1
  /\ UNCHANGED <<faults, crashes>>

DieOfDescriptors(r) ==
  /\ Images!NoDescriptor(r)
  /\ Die
  /\ UNCHANGED <<thrown, faults, crashes>>

DieOfDisk(r) ==
  /\ Images!DiskFails(r) \/ Images!HalfMade(r)
  /\ Fault
  /\ Die
  /\ UNCHANGED <<thrown, crashes>>

Crash ==
  /\ crashes < MaxCrashes
  /\ crashes' = crashes + 1
  /\ Die
  /\ UNCHANGED <<dir, thrown, faults>>

Restart ==
  /\ ~up
  /\ up' = TRUE
  /\ UNCHANGED <<pc, req, code, effects, images, active, trips, thrown, changes, crashes, seen, faults>>

-----------------------------------------------------------------------------
Proceed(r) ==
  \/ LoadPublisher(r)
  \/ VerifyTrip(r)
  \/ Insert(r)
  \/ CommitPost(r)
  \/ Finish(r)

Next ==
  \/ \E r \in Request :
       \/ Enter(r)
       \/ Proceed(r)
       \/ Fails(r)
       \/ StoreAudit(r)
       \/ RejectAudit(r)
       \/ Announce(r)
       \/ Upload(r)
       \/ UploadFails(r)
       \/ DieOfDirectory(r)
       \/ DieOfDescriptors(r)
       \/ DieOfDisk(r)
  \/ \E t \in Trip : StoreTrip(t)
  \/ \E u \in User : ChangeUser(u)
  \/ Crash
  \/ Restart

Spec == Init /\ [][Next]_vars

\* The disk and the CDN answer, and what their callbacks throw is thrown.
FairSpec ==
  Spec /\ \A r \in Request : WF_vars(Upload(r) \/ DieOfDirectory(r) \/ DieOfDescriptors(r))

-----------------------------------------------------------------------------
(* Properties.                                                             *)

\* A post, a file or an image is the trace of a request about a stored trip of
\* its own user, who was active at some time since the handler was entered
\* (post.service.ts 43-92).
OnlyOwnersLeaveTraces ==
  \A r \in Request : r \in posts \/ stage[r] # "idle" =>
    /\ r \in seen
    /\ req[r].trip \in trips
    /\ Owner[req[r].trip] = req[r].user

\* Only a stored post is answered with 201 or announced, and a post refused
\* with 400 or 403 is not stored, whatever fails and whenever the process dies
\* (post.service.ts 94-109, post.repository.ts 33-39).
OnlyStoredIsTold ==
  \A r \in Request : /\ code[r] = 201 \/ conn[r] # "idle" => r \in posts
                     /\ code[r] \in {400, 403} => r \notin posts

\* The race for the missing directory can end the process once and, unless the
\* directory was left half made, never again (cloudinary.ts 27-35).
DirectoryKillsOnce == dir # "public" => thrown <= 1

Ids(r) == {PublicId[f] : f \in Files[r]}

\* No public id of r is that of another of its files, or of another upload.
Unshared(r) ==
  /\ \A f, g \in Files[r] : PublicId[f] = PublicId[g] => f = g
  /\ \A s \in Request \ {r} : stage[s] # "idle" => Ids(r) \cap Ids(s) = {}

Uploaded(r) == \A id \in Ids(r) : cdn[id] = {r}

\* A batch that ended well has its images at the CDN, whole and its own, if it
\* shares no public id (cloudinary.ts 63-95).
UnsharedImagesAreTheirs ==
  \A r \in Request : stage[r] = "done" /\ Unshared(r) => Uploaded(r)

\* Seen without the files on the disk, the directory and the descriptors, every
\* step of the uploads is one of ImageDelivery: a batch is done only when each of
\* its images was taken once, none is taken of a batch that is done or dead, and
\* an image has nothing in it but what came under its file name, although batches
\* overlap and read back what others write (cloudinary.ts 45-95).
Outcome ==
  [r \in Request |-> IF stage[r] \in Images!Loop \cup {"upload"} THEN "pending"
                    ELSE IF stage[r] = "broken" THEN "failing"
                    ELSE stage[r]]

Untaken ==
  [r \in Request |-> IF stage[r] \in Images!Loop THEN Files[r]
                    ELSE IF stage[r] = "upload"
                      THEN left[r] \cup {x.file : x \in {y \in transit : y.batch = r}}
                    ELSE {}]

Delivery == INSTANCE ImageDelivery WITH
              Batch <- Request, files <- Files, outcome <- Outcome, untaken <- Untaken

DeliverySpec == Delivery!Spec

\* Every upload ends, well or not, unless the process dies (cloudinary.ts 63-95).
UploadsEnd ==
  \A r \in Request : stage[r] = "stat" ~> stage[r] \in {"done", "failed", "dead"}

\* post.service.ts:33 says of createPost: "also updating post images to CDN and
\* store it's url string".  When all uploads have ended well, the URLs of every
\* stored post would lead to its images.
StoredUrlsLeadToImages ==
  (\A r \in Request : stage[r] \in {"idle", "done"}) =>
    \A r \in posts : Uploaded(r)
=============================================================================
