# Formal models of one-piece-trip

one-piece-trip is the NestJS service that keeps trips and the posts about them.
It replicates the users of another service from RabbitMQ events, stores its data
in PostgreSQL through TypeORM, and announces what it creates on RabbitMQ. This
directory holds TLA+ models of it, the TLC configurations that check them on
small instances, and proofs, checked by TLAPS, that hold for every instance.
Paths below are relative to the repository's `src/` directory.

## 1. The system

| Component | State | Operations | Correct when |
|---|---|---|---|
| User replication: `subscribers/trip.subscribe.ts`, `users/user.repository.ts`, `users/user.entity.ts` | the subscription; the `user` rows | `subscribeData`, `execute`, `createUser`, `updateUserPassword`, `updateUserAdditionalInfo`, `softDeleteUser` | the rows follow the events; no save invents, blanks or reverts a column; every event ends |
| Audit subscribers: `audits/*/*.audit.ts` | log rows | `afterInsert`, `afterUpdate`, `afterRemove` | no row changes without a log row having been started |
| Publishing: `publishers/publisher.ts`, `handlers/*.handler.ts` | broker connections | `publishData`, `createTrip`, `createPost` | only what is stored is announced |
| Trip creation: `strategy/jwt-strategy.ts`, `guards/local-guard.ts`, `trips/`, `locations/location.repository.ts`, `providers/route-plan.provider.ts` | trips; the list of blacklisted headers (Redis) | the guards, `createTrip` | deleted users and blacklisted headers create nothing; the answer tells whether the trip is stored; every request is answered |
| Post creation: `posts/`, `libs/cloudinary.ts` | posts; files under `public/assets`; images at the CDN | `createPost`, `uploadBatch` | a stored post is the publisher's, about an own trip; its images exist |
| Reading: `getTripById`, `getTripByPaging`, `getPostById`, `getPosts` | none | queries | a page and its count agree; a reader sees what is there |
| Post subscriber: `subscribers/post.subscribe.ts` | the subscription | `execute`, which only logs | nothing to go wrong beyond the subscription |
| Seed loader: `libs/loaddbf.ts` | locations, countries | `generate` | every port is loaded once, with its country |
| Helpers: `libs/utils.ts` (`addMonths`), `libs/response.ts`, `libs/error.ts` | none; `addMonths` changes its argument | pure functions | calls in a row end on the right day of the right month |
| Wiring: modules, configuration, `main.ts`, health check | none | start-up | |

**Interactions.** The broker calls the consumer of `subscribeData`, which calls
`execute`, which starts a repository handler and drops its promise. A handler
calls TypeORM, which queries the database several times and calls the audit
subscriber, which starts an insertion and drops that promise too. A request
passes `JwtStrategy` (Redis, then the users), `RoleGuard`, the validation pipe
and the service; the service calls the repositories, the location service over
HTTP and, after the save, the publisher, whose promise it drops. The service of
posts also calls the uploader, and drops that promise as well; what goes wrong
in a callback of the uploader ends the process, and with it every request and
every handler. Replication and requests share the `user` table and nothing else.

**What is hard.** Node runs one callback at a time, but every `await` lets
another in. No handler excludes another; entities are loaded, changed and saved
as separate steps; five kinds of promises have no owner; a message is
acknowledged by being delivered; connections and files are opened and never
closed; files and images of overlapping requests share their names; two network
services may be slow or silent; a COMMIT may be executed and its reply
lost. `PROJECT.json` lists these hazards line by line, with the property that
watches over each, or the reason why none does yet.

## 2. The modules

| Module | Models | Used by |
|---|---|---|
| `UserEvents` | events, rows, what an event assigns, what a query selects | `UserReplica`, `UserMirror` |
| `AuditTrail` | the log row of each save: none, pending, saved, lost | instantiated by `UserReplica`, `TripCreation`, `PostCreation` |
| `UserReplica` | replication, in full | extended by `Accounts` |
| `UserMirror` | the abstract specification: events take effect one at a time | instantiated in `UserReplica` |
| `Publisher` | connection, channel and send of one message | instantiated in `TripCreation` and `PostCreation` |
| `TripCreation` | POST /trips, from the guards to the announcement | instantiated in `Accounts` |
| `Accounts` | the process: `UserReplica` and `TripCreation` over one table of users | |
| `Uploader` | batches of images: directory, files, CDN | instantiated in `PostCreation` |
| `ImageDelivery` | the abstract specification of the uploader: the CDN takes images one at a time | instantiated in `PostCreation` |
| `PostCreation` | POST /posts, from the handler to the announcement and the end of the upload | |
| `Reading` | the paging of trips and posts, while rows are stored | |
| `ReadingById` | GET of a trip with its posts, and of a post, from the guards on | |
| `SeedLoader` | npm run generate: overlapping and repeated runs | |
| `AddMonths` | `addMonths` on the Date it changes | |
| `UserReplicaProofs`, `TripCreationProofs`, `AccountsProofs`, `PostCreationProofs`, `ReadingProofs`, `ReadingByIdProofs`, `SeedLoaderProofs`, `AddMonthsProofs` | theorems and proofs | `AccountsProofs` extends `UserReplicaProofs` |
| `MCUserReplica`, `MCTripCreation`, `MCAccounts`, `MCPostCreation`, `MCReading`, `MCReadingById`, `MCSeedLoader`, `MCAddMonths` | instances and symmetry for TLC | |

### UserReplica

`pc[n]` says where event `n` has got to. One action stands for what runs between
two awaits:

| Stage | The handler waits for | Action that ends it |
|---|---|---|
| `queued` | delivery | `ReceiveCreate`, `ReceiveUpdate` (the callback of `consume`, `execute`, the handler up to its first await) |
| `find` | `findOne({ id })` | `Find`, with the assignments that follow, or `FindNothing`: assigning to `undefined` throws |
| `lookup` | the query `save` makes for the row | `Lookup`: a copy that agrees is not written, unless another handler has saved the row since |
| `write` | the INSERT or UPDATE, and the row lock it needs | `Flush`, with the audit hook |
| `commit` | the COMMIT | `Commit`: only the columns that differed at the lookup are written |

`Abort` fails any of these waits; a COMMIT that was executed counts as `Commit`,
whether its reply arrives or not, since nothing depends on the handler's end. `Subscribe`, `SubscribeRejected`,
`BrokerCloses`, `Crash` and `Restart` are the life of the subscription and of
the process. `source`, `published` and `event` are the user service; `raced` is a
history variable that collects the users two of whose events overlapped.

Decisions:

- *TypeORM's `save`.* An entity with an id is looked up again before the
  transaction begins; the columns that differ from what that lookup returned are
  updated, and none if nothing differs. `password` and `salt` are declared
  `select: false`: neither `findOne` nor the lookup returns them, so they differ
  exactly when the handler assigned them. `Select`, `Lookup` and `Merge` say
  this, and everything the replica promises rests on it.
- *Columns.* `status`, `cred` (password and salt) and `info` (gender, age, desc
  and profileImage) stand for the columns an event can touch; a save never
  changes the others on its own account, except `version` and `updatedAt`, which
  move with every write. These two are left out: they make a copy differ from the
  row that another handler has saved since, which `Lookup` leaves open for the users
  in `raced`, and the write they cause changes no column of the model. `Blank` is an optional field left out (`if (gender)`).
- *Row locks.* A statement waits for another open transaction that has written
  the row; two handlers hold at most one row each.
- *Audit rows* are started inside the transaction, on another connection: one is
  left even when the transaction rolls back.
- *External.* The user service creates an id once, updates only users that are
  not deleted, and broadcasts in the order of its own changes. The model assumes
  it; the code in the repository relies on it.
- *The queue* is exclusive and the exchange not durable: without a connection
  the events are gone. A connection closed by the broker is not reopened.

### TripCreation

`pc[r]` names what request `r` waits for. `Arrive`, `CheckBlacklist`, `FindUser`
are `JwtStrategy.validate`; `Enter` is `RoleGuard`, the validation pipe and the
credential check of `createTrip`; `LoadPublisher`, `LoadLocations`,
`RouteAnswers`/`RouteTimesOut`, `Insert`, `CommitTrip` and `Finish` follow
`createTrip` await by await. `Fails` is an error of whatever is waited for: in
the last stage, `ack`, the trip is stored and the answer is 500 all the same.
`Connect`, `ConnectRefused`, `Send`, `SendFails`, `StoreAudit` and `RejectAudit`
are what nobody waits for. `SignOut` (the user service lists a header) and
`ChangeUser` are the world:
`ChangeUser` may also restore a user, because `UserReplica` shows that a stale
copy can. `blocked` and `seen` are history variables.

Decisions:

- `code[r]` is the status the handler means. `createTrip` *returns* most of its
  exceptions instead of throwing them, so the HTTP status of such an answer is
  the 201 of a POST with the meant status in the body; the model keeps the
  meant one.
- The list holds whole `Authorization` headers, and `Listed` looks for the header
  as the request wrote it. The strategy takes the token out of other forms of the
  header too (the scheme in lower case, more blanks), so a listed token in another
  form passes: `Header` is the set of forms, and `BlacklistedCreateNothing` speaks
  of identical headers only.
- The `cache: true` of `JwtStrategy` has no effect: `config/orm.config.ts`
  configures no query cache.
- A request is flawed in at most one way (`flaw`): of an expired token the body
  is not looked at.
- Any of the users may be active at the start: the table outlives the process.
- The two location lookups run under one `Promise.all`; the table of locations
  does not change while the service runs, so they are one step.
- Start and end may be the same place; `places` is the set of them.
- The role of a user does not change in the replica (the column is never
  written), so it is a constant, `Trial`: the users the route does not admit.
- An announcement's connection is requested at once and opened later; the broker
  or the process allow `MaxConnections`.

### Accounts

`TripCreation` leaves to its environment which users are active. `Accounts` puts
the replica there: `active` is what the queries with status TRUE find in `users`,
and the stage, the answer and the effects of the requests are variables beside
those of the replica. `Replicate` is a step of the user service, of a handler or
of the subscription; `Serve` a step of a request; `Die` and `StartAgain` end and
start both at once, because they are one process (`TripModule` holds the
subscriber and the controller). `TripsSpec` says that this implements
`TripCreation`, with a commit of a handler that changes the status of its user as
`ChangeUser`, and every other step of the replica as a stutter. `late` collects
the requests that had still to load their publisher when the deletion of that
user was settled; `seen` and `changes` are the histories of `TripCreation`.

### PostCreation and Uploader

`PostCreation` has the stages of `createPost`: `LoadPublisher`, `VerifyTrip`
(which begins the upload), `Insert`, `CommitPost`, `Finish`, and `Fails` as for
trips. Its guards are those of `TripCreation`, so a request starts at its
handler (`Enter`), for a user that may have been deleted since. `Uploader` holds
the batches, one for each request: `stage[b]` is the callback the batch waits
for.

| Stage | Waits for | Actions |
|---|---|---|
| `stat` | `fs.stat` of `public/assets` | `Look` |
| `missing` | the callback of a `stat` that found nothing | `MakeDirectory`, or `MkdirThrows`, `HalfMade` |
| `open` | the opening of the stream | `Open`, which truncates the file, or `NoDescriptor`, `DiskFails`; or `NoBytes` |
| `write` | the write | `Write`, then the next file or the uploads; or `DiskFails` |
| `upload`, `broken` | the uploads; `broken` when one has failed | `Read`, then `Stored`, `EmptyRefused` or `UploadFails` |

Decisions:

- `disk[f]` and `cdn[id]` are the sets of batches whose bytes a file or an image
  consists of: `{b}` is the image of `b` whole, `{}` an empty file, anything else
  a mixture. An image is written by one `write` at the start of the file.
- A missing `files` is an empty set: nothing is uploaded then (`files.length`
  throws inside the async function, and the rejection is noticed by nobody).
  The order of the files of a request is left open, and two files of the same name
  in one request are left out: `files[b]` is a set of names.
- No validator looks into the entries of `files`. One without bytes makes
  `Buffer.from` throw after the stream was made (`NoBytes`): the file is truncated,
  the descriptor kept, and the batch rejected before anything is uploaded.
- An exception thrown in a callback of `fs`, and the `error` event of a stream
  without a listener, end the process; a rejected promise nobody holds only
  leaves a warning with the Node version of the Dockerfile.
- A write stream that is never ended keeps its descriptor (`fds`).
- A death ends all that waits, and leaves `posts`, the files and the CDN.
- `thrown` counts the deaths the directory caused, `seen` is as in
  `TripCreation`; both are history variables.
- Trips appear by `StoreTrip` and are never changed, as in the code.
- `ImageDelivery` knows neither files nor directory nor descriptors: a batch is
  pending until the CDN has taken each of its images once, failing when one was
  refused, and dead with the process; an image consists of what batches handed in
  under its file name. `Outcome` and `Untaken` are the refinement mapping: the
  stages before the uploads are one "pending", and an image is untaken while it
  waits to be read or is in transit.

### Reading

`Find` and `Count` are the two queries of `findAndCount`; `Save`, `Store` and
`Tick` are the rows that are stored meanwhile, with `updatedAt` set by
`BeforeInsert` and visible after the COMMIT. `Pages(q)` is the set of pages the
database may answer with: those cut from any order that agrees with `updatedAt`.
`Limit` and `Offset` say what `take` and `skip` come to: `Number` makes a number
or NaN of them, TypeORM ignores 0 and NaN, and PostgreSQL refuses a negative
one. No validator looks at `sort` either: one that is missing becomes DESC, and
TypeORM ignores any other value but ASC and DESC, so that the rows have no order
then (the sort "other"). Fractions for `take` and `skip` are left out. The reader (`AskMore`, external) goes on behind the rows it has got until
it has reached the count. The order of the rows within a page is left out. The
relations of posts cost a query more for the same rows, which nothing removes,
so that the queries for a page are one step. They also make TypeORM order rows of
the same instant by their id; `Pages` allows any order of those.

### ReadingById

`FindUser` is `JwtStrategy.validate` (whose blacklist is in `TripCreation`),
`Enter` the role guard, the validation pipe and, for a trip, the comparison of the
user with the publisher of the path. `LoadPublisher` is `getUserById`, `FindTrip`
the query that left joins the posts, `FindPost` the `findOne` of a post by id and
publisher, which joins nothing, although its doc comments
(`post.repository.ts:43`, `post.service.ts:113`) say that it does. Trips, posts
and changes of users happen between any two of these. The trip is looked up by
its id alone: any admitted user may read any trip. `known` (the rows there were
when the request arrived) and `seen` are history variables.

### SeedLoader

`pc[l]` is what the loop of run `l` waits for, `save[l][i]` the save of the port
of record `i`, which the loop starts and does not wait for.

- Unique indexes: a second port of the same name and a second country of the same
  name and code are refused; the name comes from `country.json` by the code, so the
  model knows the code alone. An INSERT waits for an open transaction with the same key.
- A country found by the query, or created and committed, lets the loop go on. A
  country that another run has created in between is refused, and the exception
  leaves the loop ("beaten"), which nobody catches.
- `Listed` are the codes of `country.json`; a port of another code is stored
  without a country.
- A COMMIT without an answer may have been executed: `LoopFails`, `SaveFails` and
  `Kill` leave both possibilities.
- The script exits by itself when nothing is pending. A run that failed before
  the loop has no connection, and each query of it fails at once: `BeginFails`.
- Of records with equal names one row is kept and the others are refused and
  logged: `datasets/ports/WPI.dbf` has 3669 records and 3579 names. So "loaded"
  means that each name has a row.

### AddMonths

`setMonth` and `setDate(0)` of the Date of JavaScript over the Gregorian calendar
(external), and the one test in between. `total` adds up the months of all calls
and `shortest` is the length of the shortest month come to; both are history
variables, and `Lands` is the reference definition in terms of them. Nothing in
the repository calls `addMonths` yet.

## 3. What the runs check

| Run | Specification | Properties | What it shows |
|---|---|---|---|
| `user_safety` | `Spec` | `TypeOK`, `Converged`, `Provenance`, `MirrorSpec`, `PasswordNeverClobbered`, `PasswordsOnlyAdvance`, `DeletionIsFinal` | without overlap nothing is lost, each save is the whole effect of one event (the abstract mirror) and passwords only become newer; with overlap, every column still comes from an audited event, credentials only change by password events, and only an overlap can undo a deletion |
| `user_deletion` | `Spec` | `StatusMeansNotDeleted` (violated) | a stale copy brings a deleted user back |
| `trip_safety` | `Spec` | `TypeOK`, `DeletedUsersPublishNothing`, `BlacklistedCreateNothing`, `AnnouncedIsStored`, `AnswerTellsOutcome`, `AnsweredIsAnnounced` | the guards hold across every wait; answers and announcements are true; a trip answered with 201 has been announced, and without a failure only the limit of connections stops an announcement |
| `trip_notfound` | `Spec` | `NotFoundIs400` (violated) | the 400 branches of `createTrip` cannot be taken |
| `accounts` | `AccountsFairSpec` | `SettledDeletionsHold`, `PublishersWereCreated`, `TripsSpec`, `Settles`, `Answered` | a settled deletion stops the requests on their way; only users created here publish; the real replica is an environment `TripCreation` allows; no handler waits for ever for a row lock, and no request for a silent location service |
| `post_safety` | `Spec` | `TypeOK`, `OnlyOwnersLeaveTraces`, `OnlyStoredIsTold`, `DirectoryKillsOnce`, `UnsharedImagesAreTheirs`, `DeliverySpec` | no row, file or image without a verified owner; answers and announcements are true; the directory race ends the process once; an image under a name of its own arrives whole; seen from the CDN, the uploads are those of `ImageDelivery` |
| `post_liveness` | `FairSpec` | `UploadsEnd` | an upload ends, or the process does |
| `post_images` | `Spec` | `StoredUrlsLeadToImages` (violated) | a later image of the same name replaces an earlier one |
| `paging` | `Spec` | `TypeOK`, `CountCoversPage`, `NothingSkipped` | the count is never too small for the page; reading on in one of the two orders finds everything there was at the start, except rows that share their `updatedAt` |
| `by_id` | `Spec` | `TypeOK`, `NothingGoesMissing`, `DeletedUsersReadNothing` | a read shows all there was when it arrived; a deleted user learns nothing |
| `seed_runs` | `FairSpec` | `TypeOK`, `Complete`, `BeatenIsOvertaken`, `RerunLoads`, `StoredOnce` | a run without losses has loaded every port; a port is stored once, with its country; races for a country never end all runs; after the last failure one more run is enough |
| `add_months` | `Spec` | `Lands` | calls add up, and the day is cut to the shortest month come to |

**Bounds.** Four events of two users (`MaxEvents`) are the smallest number with
a creation and three updates of one user: a handler that holds a copy, one that
commits in between, and one that loads what they left. `MaxInFlight = 2`
handlers at a time are enough for each race here, which are all between one
stale copy and one commit; the code has no limit. One fault and one outage may
fall between any two steps. The deletion run needs neither. For trips, two requests, two users of which one is not admitted,
two places of which one is unknown, two forms of a header of which one is listed,
one connection, one fault, two changes of
users (a deletion and its undoing) and one crash. The composed run has one user,
one request without a flaw and one form of its header, which is never listed, and
three events: enough to create and delete the
user and restore it by a stale copy, and for two handlers to want the lock of a
row that a third created; one outage or crash, and no failing query, since those
only end a wait. For posts, two
requests, the smallest number that overlap, with up to two files each, whose
public ids differ; two users and a trip of the first; three descriptors for at
most four writes, so that a life may run out of them; one fault and one change
of a user. Uploads end the process by themselves in this run; the crash for any
other cause is in the liveness run, which has one user, no faults and no broker.
The run of finding 3 has two names with the same public id and no failure. For
pages, three rows of two users at three instants, both orders and none, every `take` and `skip` from
-1 to 2, absent or not a number, and one reader, since readers do not disturb
each other. For reads by id, one reader for the same reason, two trips of two
users, three posts, and a third user without a role; one fault, two changes. The
seed loader has two runs, which overlap or follow each other, one fault and one
kill, and a file of four records: a country that comes twice, a port name that
comes twice in two countries, and a code that is not listed. `addMonths` is called
up to three times from every day of five months around the end of February, in
leap years and others, with months from -24 to 14 and NaN. Users in the runs of the replica, and requests in the safety runs of
trips and posts, are symmetric, and so are the forms of a header; no run with a liveness property uses symmetry.

**Deadlock.** Every configuration turns the deadlock check off: the workload is
finite, and when every event or request has ended and the bounds are used up
nothing remains to do. What must not get stuck is what `Settles`, `Answered`,
`UploadsEnd` and `RerunLoads` state.

**Fairness.** `WF(Progress(n))`: the broker delivers what it holds, the database
answers a query, and Node runs the continuation. `WF(Continue(r))`: Redis and
PostgreSQL answer (ioredis and pg report a lost connection as an error, which is
`Fails`), and the three-second timer fires. Nothing is assumed of the location
service, of announcements, of audit rows, of the user service or of restarts.
`WF(Upload(r) \/ DieOfDirectory(r) \/ DieOfDescriptors(r))`: the disk answers,
what a callback throws is thrown, and a call of the CDN is answered (the library
ends one that stays without an answer for a minute: `UploadFails`). The seed
loader: `WF(Loop(l))` once the run is begun, and `WF(SaveStep(l, i))`: the database
answers; whether anybody begins a run is left open.

## 4. What is proved

For any sets of users, requests, places, trips, posts and records and any bounds:

| Theorem | Property |
|---|---|
| `UserReplicaProofs!TypeCorrect` | `TypeOK` |
| `CredentialsFollowPasswordEvents` | `PasswordNeverClobbered` |
| `DeletionIsFinalOnceSettled` | `DeletionIsFinal` |
| `RowsAreTraced` | `Provenance` |
| `PasswordsAdvance` | `PasswordsOnlyAdvance` |
| `ReplicaConverges` | `Converged` |
| `HandlersMirrorEvents` | `MirrorSpec` |
| `TripCreationProofs!TypeCorrect` | `TypeOK` |
| `NoTripsOfDeletedUsers` | `DeletedUsersPublishNothing` |
| `NoTripsOfBlacklistedHeaders` | `BlacklistedCreateNothing` |
| `OnlyStoredTripsAnnounced` | `AnnouncedIsStored` |
| `AnswersAreTrue` | `AnswerTellsOutcome` |
| `AnsweredTripsAreAnnounced` | `AnsweredIsAnnounced` |
| `AccountsProofs!AccountsImplementTrips` | `TripsSpec` |
| `SettledDeletionsAreHeld` | `SettledDeletionsHold` |
| `EveryPublisherWasCreated` | `PublishersWereCreated` |
| `ReplicaUnderRequests` | the properties of the replica, of the process |
| `PostCreationProofs!TypeCorrect` | `TypeOK` |
| `OwnersLeaveTraces` | `OnlyOwnersLeaveTraces` |
| `AnswersAreTrue` | `OnlyStoredIsTold` |
| `DirectoryRaceEnds` | `DirectoryKillsOnce` |
| `UnsharedImagesArrive` | `UnsharedImagesAreTheirs` |
| `UploadsDeliver` | `DeliverySpec` |
| `UploadsHaveWork` | the safe half of `UploadsEnd` |
| `ReadingProofs!TypeCorrect` | `TypeOK` |
| `CountsCoverPages` | `CountCoversPage` |
| `NobodyMissesARow` | `NothingSkipped` |
| `ReadingByIdProofs!TypeCorrect` | `TypeOK` |
| `RowsAreFound` | `NothingGoesMissing` |
| `OnlyActiveUsersRead` | `DeletedUsersReadNothing` |
| `SeedLoaderProofs!TypeCorrect` | `TypeOK` |
| `FinishedRunsLoad` | `Complete` |
| `BeatenRunsAreOvertaken` | `BeatenIsOvertaken` |
| `PortsAreStoredOnce` | `StoredOnce` |
| `AddMonthsProofs!CallsAddUp` | `Lands` |

They assume only that absences are not values (`NoRow \notin Row`,
`NoEvent \notin Event`, `NoRequest \notin Content`), that the bounds are natural
numbers, that the users not admitted are users, that a request is flawed in a
known way, that trips have owners and posts are about trips, that there are
finitely many rows and at least one instant, that each record of the seed file
has a port and a country, and that an argument of a reader or of `addMonths` is
absent, no number, or an integer.

*UserReplica.* `TypeOK` is not inductive: `Assign` applied to an absent row, or
`Merge` with an absent lookup, would leave the types. `IInv` adds that events
are numbered in order (`Numbered`), that a user is created once and first
(`CreatedOnce`), that an update which passed `find` has a row and a creation
does not (`RowOf`), and that a copy has no credentials unless its event brought
them (`CredOf`). The theorem on credentials follows from `IInv` and
`CommitMerges`: a commit writes only columns that differ from the lookup.
`DeletionIsFinal` is proved action by action: a copy loaded from a deleted row is
deleted, and the merge of a deleted copy into a deleted row is deleted.
`RowsAreTraced` strengthens `IInv` to `PInv`, which says of the copies in memory
(`CopyTraced`) what `Provenance` says of the rows. `PasswordsAdvance` needs of the
events of a user never handled two at a time that the older ones are behind the
newer, and that the row is no newer than any event still to come.

`ReplicaConverges` and `HandlersMirrorEvents` rest on `SInv`: as long as the events
of a user have not overlapped, the copy a handler holds, and what its lookup
returned, are those of the row as it is (`FreshCopy`), and what is done was
broadcast before what is not (`DoneFirst`). `CInv` adds what a row says about its
events: `Reflects(row, E, event)` holds of the row that the events of `E` leave
when they take effect in order. The row of the user service reflects all events of
the user, the row of the replica those that were applied, and two rows that reflect
the same events are the same (`Determined`); so when all were applied they agree.
The refinement is then shown step by step: a broadcast is one of the mirror
(`BroadcastMirrored`), a commit of a fresh copy is the whole effect of its event
(`CommitMirrored`), and everything else leaves the mirror alone (`MirrorStep`).

*TripCreation.* `IInv` says, stage by stage, what has been established about a
request (`Admitted`) and what it has left behind (`Stored`); the four theorems
before the last are its consequences. The last rests on `Stored`, which also says
that a trip answered with 201 has been announced, and on `Limited`: as long as
nothing has failed and the process has not died, the open connections are those of
the announcements under way or sent, and one is dropped only when they are as many as
the limit.

*Accounts.* Each step of the process is a step of the replica or leaves it alone
(`ReplicaStep`), so the process implements `UserReplica` and all that
`UserReplicaProofs` proves holds here too (`ReplicaUnderRequests`). Of the
requests it is enough to know how a step moves them from stage to stage (`Moves`):
nobody passes the publisher who is not active, and only a COMMIT stores a trip.
`Late` (a late request has passed no check of its publisher, and the deletion of
its user stays settled, by the step lemma behind `DeletionIsFinal`) gives the
first invariant, `Creations` (every row, and every publisher that was loaded, has
an audited creation) the second. For the refinement, `ActiveChange` shows that a
step of the replica changes at most one user, by a commit, and `Counted` that the
bound on changes suffices: each change has an event that has been applied, and
what has been applied remains so.

*PostCreation.* `IInv` again says what a stage has established (`Admitted`), what
a trace presupposes (`Justified`) and what is stored (`Stored`). Two parts are
about the uploader. `InTransit`: a batch waits for its uploads, without which the
end of an upload could seem to begin a batch. `Directory`: once the directory is
there, a batch that missed it may throw once, and after that none is left that
missed it, because the process has died; this is what `DirectoryKillsOnce` needs,
and the property alone is not inductive. The steps of the uploader are treated in
lemmas of their own (`UploadSteps`, `EndSteps`, `BeginStep`, `DeathSteps`).

`UInv` follows the images of a batch that shares no public id (`Whole`): the files
written so far have its bytes alone, so has what was read of them, and each file is
still to be read, in transit, or at the CDN. That needs of every batch that it works
through its own files (`Batches`, `OwnFiles`), and that a batch which shares nothing
now has never shared anything (`UnsharedBefore`). `DInv` is the invariant of the
refinement: what is written or in transit was handed in under that name
(`OwnBytes`), a file is read by one upload only (`ReadOnce`; without it the CDN
could take an image twice), and a batch that has not ended has something left to do
(`HasWork`). Every action of the uploader is then shown to be a step of
`ImageDelivery` or a stutter (`EndDelivers`, `BeginDelivers`, `KilledDelivers`,
`StillDelivers`).

*Reading.* A page fits into the rows that match when it is queried (`PageFits`,
from the cardinalities of `Pages`), matching rows only grow (`MatchingGrows`), so
it fits into those that are counted later (`Reads`). For `NobodyMissesARow` the
place of a row is the number of the rows that must come before it (`Ahead`). `NInv`
says that the rows a reader knows of, that have an instant of their own and that it has not read, have at least as many rows
ahead as it has gone past (`Covers`). Rows that are stored only add to those ahead
(`StillBehind`); a page takes the rows right behind those skipped, so what is not on
it has the page ahead too (`BehindPage`), which is where rows that share their
instant, and pages in no order, must be excluded; and once the count is reached no row can have that many ahead of it.

*ReadingById.* As for trips, `IInv` says what a stage has established about its
user (`Admitted`) and about the rows (`Complete`).

*SeedLoader.* The countries of the records behind a loop are stored (`Known`), so
that the save of a port is only refused for its name; what was saved or refused
is there (`Kept`); a loop creates no country of a record behind it (`Fresh`); and
every stored country was created by a run that has come past a record of it, or
ended there (`Created`), which with `Fresh` makes that run one that overtook.
`StoredOnce` needs of the open transactions that each is alone with its name, that
this name is not stored yet, and that the country of its port is (`Alone`); a kill
may execute several of them at once.

*AddMonths.* `AddedCuts` says what one call comes to; `Lands` is inductive with the
types.

**Only model-checked.** `Settles`, `Answered`, `UploadsEnd` and `RerunLoads`, since
liveness under fairness is out of the prover's reach. `UploadsHaveWork` proves of
`UploadsEnd` that no batch waits for nothing. All invariants and action properties
of the passing runs are proved, and so are all refinements. The theorems of one module
cannot be cited through an instance of it in another, so what is proved of
`TripCreation` is not restated for `Accounts`: it follows from
`AccountsImplementTrips` by reading.

## 5. Findings

1. *A deletion can be undone* (`user_deletion`). `user.entity.ts:60` says that
   `status` true "means not deleted". Let `softDeleteUser` commit between the
   `findOne` and the `save` of an overlapping `updateUserAdditionalInfo`. The
   save reads the row again, sees `status` differ from its stale copy, and
   writes true. Nothing failed, and the replica keeps the deleted user active.
2. *A missing user or location yields 500* (`trip_notfound`).
   `trip-service.spec.ts:122-144` and `146-173` expect 400 and mock `getUserById`
   and `findLocationByLocationName` to return `undefined`; the real ones throw
   (`user.repository.ts:51,57`, `location.repository.ts:22-26`). `createPost` and
   `post-service.spec.ts:110-128` repeat the first for posts.
3. *A stored URL may lead to another's image* (`post_images`).
   `post.service.ts:33` says that the images are uploaded and their URLs stored.
   The URL, the file and the public id are all made of the original name of the
   file (`post.repository.ts:29`, `cloudinary.ts:50`, `cloudinary.ts:71`), so the
   next post with an image of that name, or of that name with another extension,
   replaces the image of the first, without any error.

## 6. Plan and limits

The plan of modules is carried out, and every invariant and action property of the
passing runs is proved. What remains beyond the models is listed here.

**Not modelled.**

- *Post subscriber.* Its handler logs the event. Its subscription is that of
  `UserReplica`, on another queue, and shares nothing with it.
- *Audit of locations.* Only the seed loader saves locations, on a connection
  without subscribers, so the hooks never run; their code is that of `AuditTrail`.
- *A repeated POST /trips.* Nothing identifies a request, so a client that asks
  again stores a second trip. The code promises nothing about the two.
- *Response and error builders, DTO classes, enums, module wiring, configuration,
  the health check, and the one-line helpers of `utils.ts`* keep no state and
  decide nothing that the models do not already contain.
