------------------------- MODULE PostCreationProofs -------------------------
(***************************************************************************)
(* Proofs about PostCreation, for any sets of requests, users, trips and   *)
(* files and any limits.  IInv says what has been established by the time  *)
(* a request waits at a stage, what its traces presuppose, and what the    *)
(* directory tells about the deaths it has caused.                         *)
(***************************************************************************)
EXTENDS PostCreation, TLAPS

\* The trip has been verified.
Verified == {"insert", "commit", "ack"}

\* Request r is its publisher's, who was active in its handler.
Admitted(r) ==
  /\ pc[r] # "new" => req[r] \in Content
  /\ pc[r] \in Waiting => req[r].user = req[r].publisherId
  /\ pc[r] = "publisher" /\ active[req[r].user] => r \in seen
  /\ pc[r] \in Verified \cup {"trip"} => r \in seen

\* Only a request about a trip of its user is saved or uploads anything.
Justified(r) ==
  /\ pc[r] = "new" => stage[r] = "idle"
  /\ pc[r] \in Verified \/ stage[r] # "idle" \/ r \in posts =>
       /\ r \in seen
       /\ req[r].trip \in trips
       /\ Owner[req[r].trip] = req[r].user

\* What request r has stored, answered and announced.
Stored(r) ==
  /\ code[r] # 0 => pc[r] = "answered"
  /\ pc[r] = "ack" => r \in posts
  /\ r \in posts =>
       /\ pc[r] \in {"ack", "answered", "dead"}
       /\ code[r] \in {0, 201, 500}
  /\ code[r] = 201 => r \in posts
  /\ conn[r] # "idle" => r \in posts

\* Once the directory is there, whoever has missed it can throw once, for then
\* the process dies and nobody is left who has missed it.
Directory ==
  /\ dir = "none" => thrown = 0
  /\ dir = "assets" => /\ thrown \in {0, 1}
                       /\ thrown = 1 => \A r \in Request : stage[r] # "missing"

\* A batch waits for its uploads.
InTransit == \A x \in transit : stage[x.batch] \in Images!Uploading

IInv ==
  /\ TypeOK
  /\ \A r \in Request : Admitted(r) /\ Justified(r) /\ Stored(r)
  /\ Directory
  /\ InTransit

-----------------------------------------------------------------------------
LEMMA InvInit == Init => IInv
<1> SUFFICES ASSUME Init PROVE IInv
  OBVIOUS
<1>1. Trail!TypeOK /\ Broker!TypeOK
  BY DEF Init, Trail!Init, Trail!TypeOK, Trail!AuditState, Broker!Init, Broker!TypeOK, Broker!ConnState
<1>2. Images!TypeOK
  BY BoundsAssumption DEF Init, Images!Init, Images!TypeOK, Images!Stage
<1>3. TypeOK
  BY <1>1, <1>2, BoundsAssumption DEF Init, TypeOK, Waiting, Code
<1>4. ASSUME NEW r \in Request
      PROVE  Admitted(r) /\ Justified(r) /\ Stored(r)
  BY <1>4 DEF Init, Broker!Init, Images!Init, Admitted, Justified, Stored, Verified, Waiting
<1>5. Directory /\ InTransit
  BY DEF Init, Images!Init, Directory, InTransit
<1> QED
  BY <1>3, <1>4, <1>5 DEF IInv

-----------------------------------------------------------------------------
(* The parts of which PostCreation is made.                                *)

\* The steps of the audit rows and of the announcements keep their types; an
\* announcement is begun by Start alone.
LEMMA AsideSteps ==
  ASSUME Trail!TypeOK, Broker!TypeOK, NEW r \in Request
  PROVE  /\ Trail!Fire(r) \/ Trail!Store(r) \/ Trail!Reject(r)
              => Trail!TypeOK'
         /\ Broker!Start(r)
              => Broker!TypeOK' /\ \A s \in Request \ {r} : conn'[s] = conn[s]
         /\ Broker!Connected(r) \/ Broker!ConnectFails(r) \/ Broker!Opened(r) \/ Broker!ChannelFails(r)
              => Broker!TypeOK' /\ \A s \in Request : conn[s] = "idle" => conn'[s] = "idle"
BY DEF Trail!TypeOK, Trail!AuditState, Trail!Fire, Trail!Store, Trail!Reject,
       Broker!TypeOK, Broker!ConnState, Broker!Start, Broker!Connected, Broker!ConnectFails,
       Broker!Opened, Broker!ChannelFails

\* Every request hands the uploader a set of files.
LEMMA FilesType ==
  ASSUME req \in [Request -> Content \cup {NoRequest}]
  PROVE  Files \in [Request -> SUBSET File]
BY DEF Files, Content

\* What the steps of an upload have in common: they begin no batch, and miss
\* the directory only when it is not there.
Continues ==
  /\ Images!TypeOK' /\ InTransit'
  /\ \A s \in Request : stage'[s] = "idle" <=> stage[s] = "idle"
  /\ dir' = dir \/ (dir = "none" /\ dir' = "assets")
  /\ dir = "assets" => \A s \in Request : stage'[s] = "missing" => stage[s] = "missing"

LEMMA EndedType ==
  ASSUME Images!TypeOK, InTransit, NEW x \in transit, NEW good \in BOOLEAN, Images!Ended(x, good)
  PROVE  /\ stage' \in [Request -> Images!Stage]
         /\ transit' \in SUBSET [batch : Request, file : File, bytes : SUBSET Request]
         /\ \A s \in Request : stage'[s] = stage[s] \/ (s = x.batch /\ stage'[s] \in {"done", "failed", "upload", "broken"})
         /\ InTransit'
BY DEF Images!TypeOK, Images!Stage, Images!Uploading, Images!Ended, Images!GoTo, InTransit

LEMMA UploadSteps ==
  ASSUME Images!TypeOK, InTransit, Files \in [Request -> SUBSET File], NEW r \in Request,
         \/ Images!Look(r)
         \/ Images!MakeDirectory(r)
         \/ Images!Open(r)
         \/ Images!NoBytes(r)
         \/ Images!Write(r)
         \/ Images!Read(r)
  PROVE  Continues
<1> USE DEF InTransit
<1>1. CASE Images!Look(r)
  BY <1>1 DEF Continues, Images!TypeOK, Images!Stage, Images!Loop, Images!Uploading, Images!Look, Images!GoTo
<1>2. CASE Images!MakeDirectory(r)
  BY <1>2 DEF Continues, Images!TypeOK, Images!Stage, Images!Loop, Images!Uploading, Images!MakeDirectory, Images!GoTo
<1>3. CASE Images!Open(r)
  <2>1. PICK f \in left[r] : /\ file' = [file EXCEPT ![r] = f]
                             /\ disk' = [disk EXCEPT ![f] = {}]
    BY <1>3 DEF Images!Open
  <2>2. fds' \in 0..MaxDescriptors
    BY <1>3, BoundsAssumption DEF Images!Open, Images!TypeOK
  <2>3. f \in File
    BY <2>1 DEF Images!TypeOK
  <2>4. Images!TypeOK'
    BY <1>3, <2>1, <2>2, <2>3 DEF Images!TypeOK, Images!Stage, Images!Loop, Images!Open, Images!GoTo
  <2> QED
    BY <1>3, <2>4 DEF Continues, Images!TypeOK, Images!Uploading, Images!Open, Images!GoTo
<1>4. CASE Images!Write(r)
  <2>1. PICK bytes \in {{r}, disk[file[r]] \cup {r}} : disk' = [disk EXCEPT ![file[r]] = bytes]
    BY <1>4 DEF Images!Write
  <2>2. disk' \in [File -> SUBSET Request]
    BY <2>1 DEF Images!TypeOK
  <2>3. left' \in [Request -> SUBSET File]
    BY <1>4 DEF Images!TypeOK, Images!Write
  <2>4. /\ stage' \in [Request -> Images!Stage]
        /\ \A s \in Request : stage'[s] = "idle" <=> stage[s] = "idle"
        /\ \A s \in Request : stage'[s] = "missing" => stage[s] = "missing"
    BY <1>4 DEF Images!TypeOK, Images!Stage, Images!Loop, Images!Uploading, Images!Write, Images!GoTo
  <2>5. /\ file' \in [Request -> File \cup {NoFile}]
        /\ UNCHANGED <<dir, fds, transit, cdn>>
    BY <1>4 DEF Images!TypeOK, Images!Write
  <2>6. InTransit'
    BY <1>4 DEF Images!TypeOK, Images!Stage, Images!Uploading, Images!Write, Images!GoTo
  <2> QED
    BY <2>2, <2>3, <2>4, <2>5, <2>6 DEF Continues, Images!TypeOK
<1>5. CASE Images!Read(r)
  BY <1>5 DEF Continues, Images!TypeOK, Images!Read, Images!Uploading
<1>6. CASE Images!NoBytes(r)
  <2>1. PICK f \in left[r] : disk' = [disk EXCEPT ![f] = {}]
    BY <1>6 DEF Images!NoBytes
  <2>2. fds' \in 0..MaxDescriptors
    BY <1>6, BoundsAssumption DEF Images!NoBytes, Images!TypeOK
  <2>3. Images!TypeOK'
    BY <1>6, <2>1, <2>2 DEF Images!TypeOK, Images!Stage, Images!NoBytes, Images!GoTo
  <2> QED
    BY <1>6, <2>3 DEF Continues, Images!TypeOK, Images!Uploading, Images!NoBytes, Images!GoTo
<1> QED
  BY <1>1, <1>2, <1>3, <1>4, <1>5, <1>6

\* The same of an upload that ends.
LEMMA EndSteps ==
  ASSUME Images!TypeOK, InTransit, NEW r \in Request,
         Images!Stored(r) \/ Images!EmptyRefused(r) \/ Images!UploadFails(r)
  PROVE  Continues
<1> SUFFICES ASSUME NEW x \in transit, NEW good \in BOOLEAN, Images!Ended(x, good),
                    cdn' \in [Images!Id -> SUBSET Request],
                    UNCHANGED <<left, file, dir, disk, fds>>
             PROVE  Continues
  BY DEF Images!Stored, Images!EmptyRefused, Images!UploadFails, Images!Refused, Images!TypeOK, Images!Id
<1>1. stage[x.batch] # "idle"
  BY DEF InTransit, Images!Uploading
<1> QED
  BY <1>1, EndedType DEF Continues, Images!TypeOK

\* The death of the process ends whatever waits.
LEMMA DeathSteps ==
  ASSUME TypeOK, Die
  PROVE  /\ Trail!TypeOK' /\ Broker!TypeOK'
         /\ \A s \in Request : conn[s] = "idle" => conn'[s] = "idle"
         /\ dir' \in {"none", "public", "assets"} => Images!TypeOK'
         /\ \A s \in Request : stage[s] = "idle" <=> stage'[s] = "idle"
         /\ \A s \in Request : stage'[s] # "missing"
         /\ InTransit'
<1>1. /\ Trail!TypeOK' /\ Broker!TypeOK'
      /\ \A s \in Request : conn[s] = "idle" => conn'[s] = "idle"
  BY DEF TypeOK, Die, Trail!TypeOK, Trail!AuditState, Trail!Wipe, Broker!TypeOK, Broker!ConnState, Broker!Reset
<1>2. /\ stage' \in [Request -> Images!Stage]
      /\ \A s \in Request : stage[s] = "idle" <=> stage'[s] = "idle"
      /\ \A s \in Request : stage'[s] # "missing"
  BY DEF TypeOK, Die, Images!Killed, Images!TypeOK, Images!Stage, Images!Loop, Images!Uploading
<1>3. fds' \in 0..MaxDescriptors /\ transit' = {} /\ UNCHANGED <<left, file, disk, cdn>>
  BY BoundsAssumption DEF Die, Images!Killed
<1> QED
  BY <1>1, <1>2, <1>3 DEF TypeOK, Images!TypeOK, InTransit
\* A batch begins, and has looked for nothing yet.
LEMMA BeginStep ==
  ASSUME Images!TypeOK, InTransit, NEW r \in Request, NEW names \in SUBSET File,
         Images!Begin(r, names)
  PROVE  /\ Images!TypeOK' /\ InTransit'
         /\ dir' = dir
         /\ \A s \in Request : stage'[s] = "missing" => stage[s] = "missing"
         /\ \A s \in Request \ {r} : stage'[s] = stage[s]
BY DEF Images!Begin, Images!GoTo, Images!TypeOK, Images!Stage, Images!Loop, Images!Uploading, InTransit

LEMMA StillImages ==
  ASSUME IInv, UNCHANGED images, UNCHANGED thrown
  PROVE  Images!TypeOK' /\ Directory' /\ InTransit'
BY DEF IInv, TypeOK, images, Images!TypeOK, Directory, InTransit

LEMMA KeepsDirectory ==
  ASSUME Directory, UNCHANGED thrown,
         dir' = dir \/ (dir = "none" /\ dir' = "assets"),
         dir = "assets" => \A s \in Request : stage'[s] = "missing" => stage[s] = "missing"
  PROVE  Directory'
BY DEF Directory

\* A request that a step does not touch stays as it was known.
LEMMA Frame ==
  ASSUME IInv, NEW s \in Request,
         pc'[s] = pc[s], req'[s] = req[s], code'[s] = code[s],
         active' = active, s \in seen => s \in seen', trips \subseteq trips',
         s \in posts' <=> s \in posts, conn[s] = "idle" => conn'[s] = "idle",
         stage'[s] = "idle" <=> stage[s] = "idle"
  PROVE  Admitted(s)' /\ Justified(s)' /\ Stored(s)'
BY DEF IInv, Admitted, Justified, Stored

\* What is left to show of a death: where it leaves the directory.
LEMMA AnyDeath ==
  ASSUME IInv, Die,
         dir' \in {"none", "public", "assets"}, thrown' \in Nat,
         dir' = "none" => thrown' = 0,
         dir' = "assets" => thrown' \in {0, 1},
         faults' \in 0..MaxFaults, crashes' \in 0..MaxCrashes
  PROVE  IInv'
<1>1. /\ Trail!TypeOK' /\ Broker!TypeOK'
      /\ \A s \in Request : conn[s] = "idle" => conn'[s] = "idle"
      /\ Images!TypeOK'
      /\ \A s \in Request : stage[s] = "idle" <=> stage'[s] = "idle"
      /\ \A s \in Request : stage'[s] # "missing"
      /\ InTransit'
  BY DeathSteps DEF IInv
<1>2. pc' \in [Request -> {"new", "answered", "dead"} \cup Waiting]
  BY DEF Die, IInv, TypeOK
<1>3. /\ up' \in BOOLEAN
      /\ UNCHANGED <<req, code, posts, active, trips, changes, seen>>
  BY DEF Die
<1>4. TypeOK'
  BY <1>1, <1>2, <1>3 DEF IInv, TypeOK
<1>5. ASSUME NEW s \in Request
      PROVE  Admitted(s)' /\ Justified(s)' /\ Stored(s)'
  BY <1>1 DEF Die, IInv, TypeOK, Waiting, Admitted, Justified, Stored, Verified
<1>6. Directory'
  BY <1>1 DEF Directory
<1> QED
  BY <1>1, <1>4, <1>5, <1>6 DEF IInv

-----------------------------------------------------------------------------
LEMMA InvStep == IInv /\ [Next]_vars => IInv'
<1> SUFFICES ASSUME IInv, [Next]_vars PROVE IInv'
  OBVIOUS
<1> USE DEF world, effects, handlers
<1>1. ASSUME NEW r \in Request, Enter(r)
      PROVE  IInv'
  <2>1. Trail!TypeOK' /\ Broker!TypeOK'
    BY <1>1 DEF Enter, IInv, TypeOK, Trail!TypeOK, Broker!TypeOK
  <2>2. Images!TypeOK' /\ Directory' /\ InTransit'
    BY <1>1, StillImages DEF Enter
  <2>3. TypeOK'
    BY <1>1, <2>1, <2>2, BoundsAssumption DEF Enter, GoTo, Answer, IInv, TypeOK, Waiting, Code
  <2>4. ASSUME NEW s \in Request, s # r
        PROVE  Admitted(s)' /\ Justified(s)' /\ Stored(s)'
    BY <1>1, <2>4, Frame DEF Enter, GoTo, Answer, IInv, TypeOK, images
  <2>5. Admitted(r)' /\ Justified(r)' /\ Stored(r)'
    BY <1>1, <2>3 DEF Enter, GoTo, Answer, IInv, TypeOK, Waiting, Code, Content, Admitted, Justified, Stored, Verified, images
  <2> QED
    BY <2>2, <2>3, <2>4, <2>5 DEF IInv
<1>2. ASSUME NEW r \in Request, LoadPublisher(r)
      PROVE  IInv'
  <2>1. Trail!TypeOK' /\ Broker!TypeOK'
    BY <1>2 DEF LoadPublisher, IInv, TypeOK, Trail!TypeOK, Broker!TypeOK
  <2>2. Images!TypeOK' /\ Directory' /\ InTransit'
    BY <1>2, StillImages DEF LoadPublisher
  <2>3. TypeOK'
    BY <1>2, <2>1, <2>2, BoundsAssumption DEF LoadPublisher, GoTo, Answer, IInv, TypeOK, Waiting, Code
  <2>4. ASSUME NEW s \in Request, s # r
        PROVE  Admitted(s)' /\ Justified(s)' /\ Stored(s)'
    BY <1>2, <2>4, Frame DEF LoadPublisher, GoTo, Answer, IInv, TypeOK, images
  <2>5. Admitted(r)' /\ Justified(r)' /\ Stored(r)'
    BY <1>2, <2>3 DEF LoadPublisher, GoTo, Answer, IInv, TypeOK, Waiting, Code, Content, Admitted, Justified, Stored, Verified, images
  <2> QED
    BY <2>2, <2>3, <2>4, <2>5 DEF IInv
<1>3. ASSUME NEW r \in Request, VerifyTrip(r)
      PROVE  IInv'
  <2>1. CASE UNCHANGED images
    <3>1. Trail!TypeOK' /\ Broker!TypeOK'
      BY <1>3 DEF VerifyTrip, IInv, TypeOK, Trail!TypeOK, Broker!TypeOK
    <3>2. Images!TypeOK' /\ Directory' /\ InTransit'
      BY <1>3, <2>1, StillImages DEF VerifyTrip
    <3>3. TypeOK'
      BY <1>3, <3>1, <3>2 DEF VerifyTrip, GoTo, Answer, IInv, TypeOK, Waiting, Code
    <3>4. ASSUME NEW s \in Request, s # r
          PROVE  Admitted(s)' /\ Justified(s)' /\ Stored(s)'
      BY <1>3, <2>1, <3>4, Frame DEF VerifyTrip, GoTo, Answer, IInv, TypeOK, images
    <3>5. Admitted(r)' /\ Justified(r)' /\ Stored(r)'
      BY <1>3, <2>1, <3>3 DEF VerifyTrip, GoTo, Answer, IInv, TypeOK, Waiting, Code, Content, Admitted, Justified, Stored, Verified, images
    <3> QED
      BY <3>2, <3>3, <3>4, <3>5 DEF IInv
  <2>2. CASE /\ req[r].trip \in trips /\ Owner[req[r].trip] = req[r].publisherId
             /\ GoTo(r, "insert")
             /\ Images!Begin(r, req[r].files)
    <3>1. pc[r] = "trip" /\ req[r] \in Content /\ r \in seen
      BY <1>3 DEF VerifyTrip, IInv, Admitted, Verified
    <3>2. req[r].files \in SUBSET File /\ req[r].user = req[r].publisherId
      BY <3>1 DEF Content, IInv, Admitted, Waiting
    <3>3. /\ Images!TypeOK' /\ InTransit'
          /\ dir' = dir
          /\ \A s \in Request : stage'[s] = "missing" => stage[s] = "missing"
          /\ \A s \in Request \ {r} : stage'[s] = stage[s]
      BY <2>2, <3>2, BeginStep DEF IInv, TypeOK
    <3>4. Directory'
      BY <1>3, <3>3, KeepsDirectory DEF VerifyTrip, IInv
    <3>5. Trail!TypeOK' /\ Broker!TypeOK'
      BY <1>3 DEF VerifyTrip, IInv, TypeOK, Trail!TypeOK, Broker!TypeOK
    <3>6. TypeOK'
      BY <1>3, <2>2, <3>3, <3>5 DEF VerifyTrip, GoTo, IInv, TypeOK, Waiting, Code
    <3>7. ASSUME NEW s \in Request, s # r
          PROVE  Admitted(s)' /\ Justified(s)' /\ Stored(s)'
      BY <1>3, <2>2, <3>3, <3>7, Frame DEF VerifyTrip, GoTo, IInv, TypeOK
    <3>8. Admitted(r)' /\ Justified(r)' /\ Stored(r)'
      BY <1>3, <2>2, <3>1, <3>2, <3>6 DEF VerifyTrip, GoTo, IInv, TypeOK, Waiting, Content, Admitted, Justified, Stored, Verified
    <3> QED
      BY <3>3, <3>4, <3>6, <3>7, <3>8 DEF IInv
  <2> QED
    BY <1>3, <2>1, <2>2 DEF VerifyTrip
<1>4. ASSUME NEW r \in Request, Insert(r)
      PROVE  IInv'
  <2>1. Trail!TypeOK' /\ Broker!TypeOK'
    BY <1>4, AsideSteps DEF Insert, IInv, TypeOK, Trail!TypeOK, Broker!TypeOK
  <2>2. Images!TypeOK' /\ Directory' /\ InTransit'
    BY <1>4, StillImages DEF Insert
  <2>3. TypeOK'
    BY <1>4, <2>1, <2>2, BoundsAssumption DEF Insert, GoTo, IInv, TypeOK, Waiting, Code
  <2>4. ASSUME NEW s \in Request, s # r
        PROVE  Admitted(s)' /\ Justified(s)' /\ Stored(s)'
    BY <1>4, <2>4, AsideSteps, Frame DEF Insert, GoTo, IInv, TypeOK, images
  <2>5. Admitted(r)' /\ Justified(r)' /\ Stored(r)'
    BY <1>4, <2>3 DEF Insert, GoTo, IInv, TypeOK, Waiting, Code, Content, Admitted, Justified, Stored, Verified, images
  <2> QED
    BY <2>2, <2>3, <2>4, <2>5 DEF IInv
<1>5. ASSUME NEW r \in Request, CommitPost(r)
      PROVE  IInv'
  <2>1. Trail!TypeOK' /\ Broker!TypeOK'
    BY <1>5 DEF CommitPost, IInv, TypeOK, Trail!TypeOK, Broker!TypeOK
  <2>2. Images!TypeOK' /\ Directory' /\ InTransit'
    BY <1>5, StillImages DEF CommitPost
  <2>3. TypeOK'
    BY <1>5, <2>1, <2>2, BoundsAssumption DEF CommitPost, GoTo, IInv, TypeOK, Waiting, Code
  <2>4. ASSUME NEW s \in Request, s # r
        PROVE  Admitted(s)' /\ Justified(s)' /\ Stored(s)'
    BY <1>5, <2>4, Frame DEF CommitPost, GoTo, IInv, TypeOK, images
  <2>5. Admitted(r)' /\ Justified(r)' /\ Stored(r)'
    BY <1>5, <2>3 DEF CommitPost, GoTo, IInv, TypeOK, Waiting, Code, Content, Admitted, Justified, Stored, Verified, images
  <2> QED
    BY <2>2, <2>3, <2>4, <2>5 DEF IInv
<1>6. ASSUME NEW r \in Request, Finish(r)
      PROVE  IInv'
  <2>1. Trail!TypeOK' /\ Broker!TypeOK'
    BY <1>6, AsideSteps DEF Finish, IInv, TypeOK, Trail!TypeOK, Broker!TypeOK
  <2>2. Images!TypeOK' /\ Directory' /\ InTransit'
    BY <1>6, StillImages DEF Finish
  <2>3. TypeOK'
    BY <1>6, <2>1, <2>2, BoundsAssumption DEF Finish, Answer, IInv, TypeOK, Waiting, Code
  <2>4. ASSUME NEW s \in Request, s # r
        PROVE  Admitted(s)' /\ Justified(s)' /\ Stored(s)'
    BY <1>6, <2>4, AsideSteps, Frame DEF Finish, Answer, IInv, TypeOK, images
  <2>5. Admitted(r)' /\ Justified(r)' /\ Stored(r)'
    BY <1>6, <2>3 DEF Finish, Answer, IInv, TypeOK, Waiting, Code, Content, Admitted, Justified, Stored, Verified, images
  <2> QED
    BY <2>2, <2>3, <2>4, <2>5 DEF IInv
<1>7. ASSUME NEW r \in Request, Fails(r)
      PROVE  IInv'
  <2>1. Trail!TypeOK' /\ Broker!TypeOK'
    BY <1>7 DEF Fails, IInv, TypeOK, Trail!TypeOK, Broker!TypeOK
  <2>2. Images!TypeOK' /\ Directory' /\ InTransit'
    BY <1>7, StillImages DEF Fails
  <2>3. TypeOK'
    BY <1>7, <2>1, <2>2, BoundsAssumption DEF Fails, Fault, Answer, IInv, TypeOK, Waiting, Code
  <2>4. ASSUME NEW s \in Request, s # r
        PROVE  Admitted(s)' /\ Justified(s)' /\ Stored(s)'
    BY <1>7, <2>4, Frame DEF Fails, Fault, Answer, IInv, TypeOK, images
  <2>5. Admitted(r)' /\ Justified(r)' /\ Stored(r)'
    BY <1>7, <2>3 DEF Fails, Fault, Answer, IInv, TypeOK, Waiting, Code, Content, Admitted, Justified, Stored, Verified, images
  <2> QED
    BY <2>2, <2>3, <2>4, <2>5 DEF IInv
<1>8. ASSUME NEW r \in Request, StoreAudit(r)
      PROVE  IInv'
  <2>1. Trail!TypeOK' /\ Broker!TypeOK' /\ \A s \in Request : conn[s] = "idle" => conn'[s] = "idle"
    BY <1>8, AsideSteps DEF StoreAudit, IInv, TypeOK, Trail!TypeOK, Broker!TypeOK
  <2>2. Images!TypeOK' /\ Directory' /\ InTransit'
    BY <1>8, StillImages DEF StoreAudit
  <2>3. TypeOK'
    BY <1>8, <2>1, <2>2, BoundsAssumption DEF StoreAudit, IInv, TypeOK, Waiting, Code
  <2>4. ASSUME NEW s \in Request
        PROVE  Admitted(s)' /\ Justified(s)' /\ Stored(s)'
    BY <1>8, <2>1, Frame DEF StoreAudit, images
  <2> QED
    BY <2>2, <2>3, <2>4 DEF IInv
<1>9. ASSUME NEW r \in Request, RejectAudit(r)
      PROVE  IInv'
  <2>1. Trail!TypeOK' /\ Broker!TypeOK' /\ \A s \in Request : conn[s] = "idle" => conn'[s] = "idle"
    BY <1>9, AsideSteps DEF RejectAudit, IInv, TypeOK, Trail!TypeOK, Broker!TypeOK
  <2>2. Images!TypeOK' /\ Directory' /\ InTransit'
    BY <1>9, StillImages DEF RejectAudit
  <2>3. TypeOK'
    BY <1>9, <2>1, <2>2, BoundsAssumption DEF RejectAudit, Fault, IInv, TypeOK, Waiting, Code
  <2>4. ASSUME NEW s \in Request
        PROVE  Admitted(s)' /\ Justified(s)' /\ Stored(s)'
    BY <1>9, <2>1, Frame DEF RejectAudit, images
  <2> QED
    BY <2>2, <2>3, <2>4 DEF IInv
<1>10. ASSUME NEW r \in Request, Announce(r)
      PROVE  IInv'
  <2>1. Trail!TypeOK' /\ Broker!TypeOK' /\ \A s \in Request : conn[s] = "idle" => conn'[s] = "idle"
    BY <1>10, AsideSteps DEF Announce, IInv, TypeOK, Trail!TypeOK, Broker!TypeOK
  <2>2. Images!TypeOK' /\ Directory' /\ InTransit'
    BY <1>10, StillImages DEF Announce
  <2>3. TypeOK'
    BY <1>10, <2>1, <2>2, BoundsAssumption DEF Announce, Fault, IInv, TypeOK, Waiting, Code
  <2>4. ASSUME NEW s \in Request
        PROVE  Admitted(s)' /\ Justified(s)' /\ Stored(s)'
    BY <1>10, <2>1, Frame DEF Announce, images
  <2> QED
    BY <2>2, <2>3, <2>4 DEF IInv
<1>11. ASSUME NEW r \in Request, Upload(r)
      PROVE  IInv'
  <2>1. Continues
    BY <1>11, FilesType, UploadSteps, EndSteps DEF Upload, IInv, TypeOK
  <2>2. Directory'
    BY <1>11, <2>1, KeepsDirectory DEF Upload, IInv, Continues
  <2>3. Trail!TypeOK' /\ Broker!TypeOK'
    BY <1>11 DEF Upload, IInv, TypeOK, Trail!TypeOK, Broker!TypeOK
  <2>4. TypeOK'
    BY <1>11, <2>1, <2>3, BoundsAssumption DEF Upload, IInv, TypeOK, Continues, Waiting, Code
  <2>5. ASSUME NEW s \in Request
        PROVE  Admitted(s)' /\ Justified(s)' /\ Stored(s)'
    BY <1>11, <2>1, Frame DEF Upload, Continues
  <2> QED
    BY <2>1, <2>2, <2>4, <2>5 DEF IInv, Continues
<1>12. ASSUME NEW r \in Request, UploadFails(r)
      PROVE  IInv'
  <2>1. Continues
    BY <1>12, EndSteps DEF UploadFails, IInv, TypeOK
  <2>2. Directory'
    BY <1>12, <2>1, KeepsDirectory DEF UploadFails, IInv, Continues
  <2>3. Trail!TypeOK' /\ Broker!TypeOK'
    BY <1>12 DEF UploadFails, IInv, TypeOK, Trail!TypeOK, Broker!TypeOK
  <2>4. TypeOK'
    BY <1>12, <2>1, <2>3, BoundsAssumption DEF UploadFails, Fault, IInv, TypeOK, Continues, Waiting, Code
  <2>5. ASSUME NEW s \in Request
        PROVE  Admitted(s)' /\ Justified(s)' /\ Stored(s)'
    BY <1>12, <2>1, Frame DEF UploadFails, Continues
  <2> QED
    BY <2>1, <2>2, <2>4, <2>5 DEF IInv, Continues
<1>13. ASSUME NEW r \in Request, DieOfDirectory(r)
      PROVE  IInv'
  <2>1. Die
    BY <1>13 DEF DieOfDirectory
  <2>2. /\ dir' \in {"none", "public", "assets"}
        /\ thrown' \in Nat
        /\ dir' = "none" => thrown' = 0
        /\ dir' = "assets" => thrown' \in {0, 1}
    BY <1>13 DEF DieOfDirectory, Images!MkdirThrows, IInv, TypeOK, Images!TypeOK, Directory
  <2>3. faults' \in 0..MaxFaults /\ crashes' \in 0..MaxCrashes
    BY <1>13, BoundsAssumption DEF DieOfDirectory, Fault, IInv, TypeOK
  <2> QED
    BY <2>1, <2>2, <2>3, AnyDeath
<1>14. ASSUME NEW r \in Request, DieOfDescriptors(r)
      PROVE  IInv'
  <2>1. Die
    BY <1>14 DEF DieOfDescriptors
  <2>2. /\ dir' \in {"none", "public", "assets"}
        /\ thrown' \in Nat
        /\ dir' = "none" => thrown' = 0
        /\ dir' = "assets" => thrown' \in {0, 1}
    BY <1>14 DEF DieOfDescriptors, Images!NoDescriptor, IInv, TypeOK, Images!TypeOK, Directory
  <2>3. faults' \in 0..MaxFaults /\ crashes' \in 0..MaxCrashes
    BY <1>14, BoundsAssumption DEF DieOfDescriptors, Fault, IInv, TypeOK
  <2> QED
    BY <2>1, <2>2, <2>3, AnyDeath
<1>15. ASSUME NEW r \in Request, DieOfDisk(r)
      PROVE  IInv'
  <2>1. Die
    BY <1>15 DEF DieOfDisk
  <2>2. /\ dir' \in {"none", "public", "assets"}
        /\ thrown' \in Nat
        /\ dir' = "none" => thrown' = 0
        /\ dir' = "assets" => thrown' \in {0, 1}
    BY <1>15 DEF DieOfDisk, Images!DiskFails, Images!HalfMade, IInv, TypeOK, Images!TypeOK, Directory
  <2>3. faults' \in 0..MaxFaults /\ crashes' \in 0..MaxCrashes
    BY <1>15, BoundsAssumption DEF DieOfDisk, Fault, IInv, TypeOK
  <2> QED
    BY <2>1, <2>2, <2>3, AnyDeath
<1>16. ASSUME NEW t \in Trip, StoreTrip(t)
      PROVE  IInv'
  <2>1. Images!TypeOK' /\ Directory' /\ InTransit'
    BY <1>16, StillImages DEF StoreTrip
  <2>2. TypeOK'
    BY <1>16, <2>1 DEF StoreTrip, IInv, TypeOK, Trail!TypeOK, Broker!TypeOK
  <2>3. ASSUME NEW s \in Request
        PROVE  Admitted(s)' /\ Justified(s)' /\ Stored(s)'
    BY <1>16, Frame DEF StoreTrip, images
  <2> QED
    BY <2>1, <2>2, <2>3 DEF IInv
<1>17. ASSUME NEW u \in User, ChangeUser(u)
      PROVE  IInv'
  <2>1. Images!TypeOK' /\ Directory' /\ InTransit'
    BY <1>17, StillImages DEF ChangeUser
  <2>2. TypeOK'
    BY <1>17, <2>1, BoundsAssumption DEF ChangeUser, IInv, TypeOK, Trail!TypeOK, Broker!TypeOK
  <2>3. ASSUME NEW s \in Request
        PROVE  Admitted(s)' /\ Justified(s)' /\ Stored(s)'
    BY <1>17, <2>2 DEF ChangeUser, IInv, TypeOK, Content, Waiting, Admitted, Justified, Stored, Verified, images
  <2> QED
    BY <2>1, <2>2, <2>3 DEF IInv
<1>18. CASE Crash
  <2>1. Die
    BY <1>18 DEF Crash
  <2>2. /\ dir' \in {"none", "public", "assets"}
        /\ thrown' \in Nat
        /\ dir' = "none" => thrown' = 0
        /\ dir' = "assets" => thrown' \in {0, 1}
    BY <1>18 DEF Crash, IInv, TypeOK, Images!TypeOK, Directory
  <2>3. faults' \in 0..MaxFaults /\ crashes' \in 0..MaxCrashes
    BY <1>18, BoundsAssumption DEF Crash, Fault, IInv, TypeOK
  <2> QED
    BY <2>1, <2>2, <2>3, AnyDeath
<1>19. CASE Restart
  <2>1. Images!TypeOK' /\ Directory' /\ InTransit'
    BY <1>19, StillImages DEF Restart
  <2>2. TypeOK'
    BY <1>19, <2>1 DEF Restart, IInv, TypeOK, Trail!TypeOK, Broker!TypeOK
  <2>3. ASSUME NEW s \in Request
        PROVE  Admitted(s)' /\ Justified(s)' /\ Stored(s)'
    BY <1>19, Frame DEF Restart, images
  <2> QED
    BY <2>1, <2>2, <2>3 DEF IInv
<1>20. CASE UNCHANGED vars
  <2>1. Images!TypeOK' /\ Directory' /\ InTransit'
    BY <1>20, StillImages DEF vars
  <2>2. TypeOK'
    BY <1>20, <2>1 DEF vars, IInv, TypeOK, Trail!TypeOK, Broker!TypeOK
  <2>3. ASSUME NEW s \in Request
        PROVE  Admitted(s)' /\ Justified(s)' /\ Stored(s)'
    BY <1>20, Frame DEF vars, images
  <2> QED
    BY <2>1, <2>2, <2>3 DEF IInv
<1> QED
  BY <1>1, <1>2, <1>3, <1>4, <1>5, <1>6, <1>7, <1>8, <1>9, <1>10, <1>11, <1>12, <1>13, <1>14, <1>15, <1>16, <1>17, <1>18, <1>19, <1>20 DEF Next, Proceed

LEMMA Invariance == Spec => []IInv
BY InvInit, InvStep, PTL DEF Spec

-----------------------------------------------------------------------------
(* The images of a batch that shares no public id.                         *)

\* A batch works through its own files.
Batches(r) ==
  /\ stage[r] # "idle" => left[r] \subseteq Files[r]
  /\ stage[r] = "write" => file[r] \in left[r]

OwnFiles == \A x \in transit : x.file \in Files[x.batch]

\* The files written so far, and the images uploaded from them, are those of r
\* alone, and no file is forgotten.
Whole(r) ==
  /\ stage[r] \in Images!Loop => \A f \in Files[r] \ left[r] : disk[f] = {r}
  /\ stage[r] = "write" => disk[file[r]] = {}
  /\ stage[r] \in Images!Uploading => \A f \in Files[r] : disk[f] = {r}
  /\ \A x \in transit : x.batch = r => x.bytes = {r}
  /\ stage[r] = "upload" =>
       \A f \in Files[r] : \/ f \in left[r]
                           \/ \E x \in transit : x.batch = r /\ x.file = f
                           \/ cdn[PublicId[f]] = {r}
  /\ stage[r] = "done" => Uploaded(r)

UInv ==
  /\ IInv
  /\ \A r \in Request : Batches(r)
  /\ OwnFiles
  /\ \A r \in Request : stage[r] # "idle" /\ Unshared(r) => Whole(r)

\* The upload of r was begun, and no name in it is that of another.
Shares(r) == stage[r] # "idle" /\ Unshared(r)

\* The files, and the public ids, of another batch are not those of r.
LEMMA Apart ==
  ASSUME NEW r \in Request, Unshared(r), NEW s \in Request, s # r, stage[s] # "idle",
         NEW f \in Files[r], NEW g \in Files[s]
  PROVE  f # g /\ PublicId[f] # PublicId[g]
BY DEF Unshared, Ids

\* A request keeps its files once its upload was begun, and the uploads of others
\* that were begun remain so: who shares no public id has shared none before.
LEMMA UnsharedBefore ==
  ASSUME NEW r \in Request,
         Files'[r] = Files[r],
         \A s \in Request : stage[s] # "idle" => stage'[s] # "idle" /\ Files'[s] = Files[s],
         Unshared(r)'
  PROVE  Unshared(r)
BY DEF Unshared, Ids

\* The steps of an upload, seen from batch r.  Each either leaves what r has alone
\* or is a step of r itself.
LEMMA LookWhole ==
  ASSUME UInv, UNCHANGED Files, NEW b \in Request, Images!Look(b) \/ Images!MakeDirectory(b),
         NEW r \in Request
  PROVE  /\ Batches(r)' /\ OwnFiles'
         /\ Shares(r) => Whole(r)'
<1>1. stage \in [Request -> Images!Stage] /\ UNCHANGED <<left, file, disk, transit, cdn>>
  BY DEF UInv, IInv, TypeOK, Images!TypeOK, Images!Look, Images!MakeDirectory
<1>2. \A s \in Request : \/ stage'[s] = stage[s]
                         \/ stage[s] \in {"stat", "missing"} /\ stage'[s] \in {"open", "missing"}
  BY <1>1 DEF Images!Look, Images!MakeDirectory, Images!GoTo
<1>3. Batches(r)' /\ OwnFiles'
  BY <1>1, <1>2 DEF UInv, Batches, OwnFiles
<1>4. ASSUME Shares(r)
      PROVE  Whole(r)'
  <2>1. Whole(r)
    BY <1>4 DEF Shares, UInv
  <2> QED
    BY <1>1, <1>2, <2>1 DEF Whole, Uploaded, Ids, Images!Loop, Images!Uploading
<1> QED
  BY <1>3, <1>4

LEMMA OpenWhole ==
  ASSUME UInv, UNCHANGED Files, NEW b \in Request, Images!Open(b), NEW r \in Request
  PROVE  /\ Batches(r)' /\ OwnFiles'
         /\ Shares(r) => Whole(r)'
<1>1. PICK f \in left[b] : /\ file' = [file EXCEPT ![b] = f]
                           /\ disk' = [disk EXCEPT ![f] = {}]
  BY DEF Images!Open
<1>2. /\ stage \in [Request -> Images!Stage] /\ file \in [Request -> File \cup {NoFile}]
      /\ disk \in [File -> SUBSET Request] /\ f \in File
  BY DEF UInv, IInv, TypeOK, Images!TypeOK
<1>3. /\ stage[b] = "open" /\ stage' = [stage EXCEPT ![b] = "write"]
      /\ UNCHANGED <<left, transit, cdn>>
  BY DEF Images!Open, Images!GoTo
<1>4. f \in Files[b]
  BY <1>1, <1>3 DEF UInv, Batches
<1>5. Batches(r)' /\ OwnFiles'
  BY <1>1, <1>2, <1>3 DEF UInv, Batches, OwnFiles
<1>6. ASSUME Shares(r)
      PROVE  Whole(r)'
  <2>1. Whole(r) /\ Batches(r)
    BY <1>6 DEF Shares, UInv
  <2>2. CASE b = r
    <3>1. stage'[r] = "write" /\ disk'[f] = {} /\ file'[r] = f
      BY <1>1, <1>2, <1>3, <2>2
    <3>2. \A g \in Files[r] \ left[r] : disk'[g] = {r}
      BY <1>1, <1>2, <1>3, <2>1, <2>2 DEF Whole, Images!Loop
    <3> QED
      BY <1>3, <2>1, <3>1, <3>2 DEF Whole, Images!Uploading
  <2>3. CASE b # r
    <3>1. \A g \in Files[r] : disk'[g] = disk[g]
      BY <1>1, <1>2, <1>3, <1>4, <1>6, <2>3, Apart DEF Shares
    <3>2. stage'[r] = stage[r] /\ file'[r] = file[r]
      BY <1>1, <1>2, <1>3, <2>3
    <3>3. stage[r] = "write" => file[r] \in Files[r]
      BY <2>1 DEF Batches
    <3> QED
      BY <1>3, <2>1, <3>1, <3>2, <3>3 DEF Whole, Uploaded, Ids
  <2> QED
    BY <2>2, <2>3
<1> QED
  BY <1>5, <1>6

LEMMA NoBytesWhole ==
  ASSUME UInv, UNCHANGED Files, NEW b \in Request, Images!NoBytes(b), NEW r \in Request
  PROVE  /\ Batches(r)' /\ OwnFiles'
         /\ Shares(r) => Whole(r)'
<1>1. PICK f \in left[b] : disk' = [disk EXCEPT ![f] = {}]
  BY DEF Images!NoBytes
<1>2. /\ stage \in [Request -> Images!Stage] /\ disk \in [File -> SUBSET Request] /\ f \in File
  BY DEF UInv, IInv, TypeOK, Images!TypeOK
<1>3. /\ stage[b] = "open" /\ stage' = [stage EXCEPT ![b] = "failed"]
      /\ UNCHANGED <<left, file, transit, cdn>>
  BY DEF Images!NoBytes, Images!GoTo
<1>4. f \in Files[b]
  BY <1>1, <1>3 DEF UInv, Batches
<1>5. Batches(r)' /\ OwnFiles'
  BY <1>1, <1>2, <1>3 DEF UInv, Batches, OwnFiles
<1>6. ASSUME Shares(r)
      PROVE  Whole(r)'
  <2>1. Whole(r) /\ Batches(r)
    BY <1>6 DEF Shares, UInv
  <2>2. CASE b = r
    <3>1. stage'[r] = "failed"
      BY <1>2, <1>3, <2>2
    <3> QED
      BY <1>3, <2>1, <3>1 DEF Whole, Images!Loop, Images!Uploading
  <2>3. CASE b # r
    <3>1. \A g \in Files[r] : disk'[g] = disk[g]
      BY <1>1, <1>2, <1>3, <1>4, <1>6, <2>3, Apart DEF Shares
    <3>2. stage'[r] = stage[r]
      BY <1>2, <1>3, <2>3
    <3>3. stage[r] = "write" => file[r] \in Files[r]
      BY <2>1 DEF Batches
    <3> QED
      BY <1>3, <2>1, <3>1, <3>2, <3>3 DEF Whole, Uploaded, Ids
  <2> QED
    BY <2>2, <2>3
<1> QED
  BY <1>5, <1>6

LEMMA WriteWhole ==
  ASSUME UInv, UNCHANGED Files, NEW b \in Request, Images!Write(b), NEW r \in Request
  PROVE  /\ Batches(r)' /\ OwnFiles'
         /\ Shares(r) => Whole(r)'
<1> DEFINE f == file[b]
           rest == left[b] \ {f}
<1>1. PICK bytes \in {{b}, disk[f] \cup {b}} : disk' = [disk EXCEPT ![f] = bytes]
  BY DEF Images!Write
<1>2. /\ stage \in [Request -> Images!Stage] /\ file \in [Request -> File \cup {NoFile}]
      /\ disk \in [File -> SUBSET Request] /\ left \in [Request -> SUBSET File]
  BY DEF UInv, IInv, TypeOK, Images!TypeOK
<1>3. /\ stage[b] = "write"
      /\ stage' = [stage EXCEPT ![b] = IF rest = {} THEN "upload" ELSE "stat"]
      /\ left' = [left EXCEPT ![b] = IF rest = {} THEN Files[b] ELSE rest]
      /\ file' = [file EXCEPT ![b] = NoFile]
      /\ UNCHANGED <<transit, cdn>>
  BY DEF Images!Write, Images!GoTo
<1>4. f \in left[b] /\ left[b] \subseteq Files[b] /\ f \in Files[b]
  BY <1>3 DEF UInv, Batches
<1>5. Batches(r)' /\ OwnFiles'
  BY <1>2, <1>3, <1>4 DEF UInv, Batches, OwnFiles
<1>6. ASSUME Shares(r)
      PROVE  Whole(r)'
  <2>1. Whole(r) /\ Batches(r)
    BY <1>6 DEF Shares, UInv
  <2>2. CASE b = r
    <3>1. disk[f] = {}
      BY <1>3, <2>1, <2>2 DEF Whole
    <3>2. disk'[f] = {r} /\ \A g \in Files[r] \ left[r] : disk'[g] = {r}
      BY <1>1, <1>2, <1>3, <1>4, <2>1, <2>2, <3>1 DEF Whole, Images!Loop
    <3>3. CASE rest = {}
      <4>1. stage'[r] = "upload" /\ left'[r] = Files[r]
        BY <1>2, <1>3, <2>2, <3>3
      <4>2. \A g \in Files[r] : disk'[g] = {r}
        BY <2>2, <3>2, <3>3
      <4> QED
        BY <1>3, <2>1, <4>1, <4>2 DEF Whole, Images!Loop
    <3>4. CASE rest # {}
      <4>1. stage'[r] = "stat" /\ left'[r] = left[r] \ {f}
        BY <1>2, <1>3, <2>2, <3>4
      <4>2. \A g \in Files[r] \ left'[r] : disk'[g] = {r}
        BY <2>2, <3>2, <4>1
      <4> QED
        BY <1>3, <2>1, <4>1, <4>2 DEF Whole, Images!Uploading
    <3> QED
      BY <3>3, <3>4
  <2>3. CASE b # r
    <3>1. \A g \in Files[r] : disk'[g] = disk[g]
      BY <1>1, <1>2, <1>3, <1>4, <1>6, <2>3, Apart DEF Shares
    <3>2. stage'[r] = stage[r] /\ file'[r] = file[r] /\ left'[r] = left[r]
      BY <1>1, <1>2, <1>3, <2>3
    <3>3. stage[r] = "write" => file[r] \in Files[r]
      BY <2>1 DEF Batches
    <3> QED
      BY <1>3, <2>1, <3>1, <3>2, <3>3 DEF Whole, Uploaded, Ids
  <2> QED
    BY <2>2, <2>3
<1> QED
  BY <1>5, <1>6

LEMMA ReadWhole ==
  ASSUME UInv, UNCHANGED Files, NEW b \in Request, Images!Read(b), NEW r \in Request
  PROVE  /\ Batches(r)' /\ OwnFiles'
         /\ Shares(r) => Whole(r)'
<1>1. PICK f \in left[b] :
        /\ left' = [left EXCEPT ![b] = left[b] \ {f}]
        /\ transit' = transit \cup {[batch |-> b, file |-> f, bytes |-> disk[f]]}
  BY DEF Images!Read
<1>2. /\ left \in [Request -> SUBSET File]
      /\ stage[b] \in Images!Uploading
      /\ UNCHANGED <<stage, file, disk, cdn>>
  BY DEF Images!Read, UInv, IInv, TypeOK, Images!TypeOK
<1>3. f \in Files[b]
  BY <1>1, <1>2 DEF UInv, Batches, Images!Uploading
<1>4. Batches(r)' /\ OwnFiles'
  BY <1>1, <1>2, <1>3 DEF UInv, Batches, OwnFiles, Images!Uploading
<1>5. ASSUME Shares(r)
      PROVE  Whole(r)'
  <2>1. Whole(r)
    BY <1>5 DEF Shares, UInv
  <2>2. b = r => disk[f] = {r}
    BY <1>2, <1>3, <2>1 DEF Whole
  <2>3. \A x \in transit' : x.batch = r => x.bytes = {r}
    BY <1>1, <2>1, <2>2 DEF Whole
  <2>4. CASE b # r
    <3>1. left'[r] = left[r]
      BY <1>1, <1>2, <2>4
    <3> QED
      BY <1>1, <1>2, <2>1, <2>3, <3>1 DEF Whole, Uploaded, Ids
  <2>5. CASE b = r
    <3>1. left'[r] = left[r] \ {f} /\ stage[r] \in {"upload", "broken"}
      BY <1>1, <1>2, <2>5 DEF Images!Uploading
    <3>2. \E x \in transit' : x.batch = r /\ x.file = f
      <4>1. [batch |-> r, file |-> f, bytes |-> disk[f]] \in transit'
        BY <1>1, <2>5
      <4> QED
        BY <4>1
    <3>3. stage[r] = "upload" =>
            \A g \in Files[r] : \/ g \in left'[r]
                                \/ \E x \in transit' : x.batch = r /\ x.file = g
                                \/ cdn[PublicId[g]] = {r}
      <4> SUFFICES ASSUME stage[r] = "upload", NEW g \in Files[r]
                   PROVE  \/ g \in left'[r]
                          \/ \E x \in transit' : x.batch = r /\ x.file = g
                          \/ cdn[PublicId[g]] = {r}
        OBVIOUS
      <4>1. CASE g = f
        BY <3>2, <4>1
      <4>2. CASE g # f
        BY <1>1, <2>1, <3>1, <4>2 DEF Whole
      <4> QED
        BY <4>1, <4>2
    <3> QED
      BY <1>2, <2>1, <2>3, <3>1, <3>3 DEF Whole, Images!Loop
  <2> QED
    BY <2>4, <2>5
<1> QED
  BY <1>4, <1>5

\* An upload ends: what the other uploads of its batch need is there still, and
\* the image of another batch has another public id.
LEMMA EndWhole ==
  ASSUME UInv, UNCHANGED Files, NEW x \in transit, NEW good \in BOOLEAN, Images!Ended(x, good),
         \/ good /\ cdn' = [cdn EXCEPT ![PublicId[x.file]] = x.bytes]
         \/ ~good /\ cdn' = cdn,
         UNCHANGED <<left, file, disk>>,
         NEW r \in Request
  PROVE  /\ Batches(r)' /\ OwnFiles'
         /\ Shares(r) => Whole(r)'
<1> DEFINE b == x.batch
           last == left[b] = {} /\ \A y \in transit : y.batch = b => y = x
           fine == good /\ stage[b] = "upload"
<1>1. /\ x \in [batch : Request, file : File, bytes : SUBSET Request]
      /\ stage \in [Request -> Images!Stage]
      /\ cdn \in [Images!Id -> SUBSET Request]
  BY DEF UInv, IInv, TypeOK, Images!TypeOK
<1>2. /\ transit' = transit \ {x}
      /\ stage' = [stage EXCEPT ![b] = IF last THEN (IF fine THEN "done" ELSE "failed")
                                               ELSE (IF fine THEN "upload" ELSE "broken")]
  BY DEF Images!Ended, Images!GoTo
<1>3. /\ b \in Request /\ x.file \in Files[b] /\ x.file \in File
      /\ stage[b] \in Images!Uploading /\ stage[b] # "idle"
  BY <1>1 DEF UInv, IInv, InTransit, OwnFiles, Images!Uploading
<1>4. Batches(r)' /\ OwnFiles'
  BY <1>1, <1>2, <1>3 DEF UInv, Batches, OwnFiles, Images!Uploading
<1>5. ASSUME Shares(r)
      PROVE  Whole(r)'
  <2>1. Whole(r)
    BY <1>5 DEF Shares, UInv
  <2>2. \A g \in Files[r] : g \in File /\ PublicId[g] \in Images!Id
    <3>1. Files[r] \subseteq File
      BY FilesType DEF UInv, IInv, TypeOK
    <3> QED
      BY <3>1 DEF Images!Id
  <2>3. \A y \in transit' : y.batch = r => y.bytes = {r}
    BY <1>2, <2>1 DEF Whole
  <2>4. CASE b # r
    <3>1. stage'[r] = stage[r]
      BY <1>1, <1>2, <1>3, <2>4
    <3>2. \A g \in Files[r] : cdn'[PublicId[g]] = cdn[PublicId[g]]
      BY <1>1, <1>3, <1>5, <2>2, <2>4, Apart DEF Shares
    <3>3. \A y \in transit : y.batch = r => y \in transit'
      BY <1>2, <2>4
    <3>4. stage[r] = "upload" =>
            \A g \in Files[r] : \/ g \in left'[r]
                                \/ \E y \in transit' : y.batch = r /\ y.file = g
                                \/ cdn'[PublicId[g]] = {r}
      BY <2>1, <3>2, <3>3 DEF Whole
    <3>5. stage[r] = "done" => Uploaded(r)'
      BY <2>1, <3>2 DEF Whole, Uploaded, Ids
    <3> QED
      BY <2>1, <2>3, <3>1, <3>4, <3>5 DEF Whole
  <2>5. CASE b = r
    <3>1. /\ stage'[r] \in {"done", "failed", "upload", "broken"}
          /\ stage'[r] \in {"done", "upload"} => fine
          /\ stage'[r] = "done" => last
      BY <1>1, <1>2, <2>5
    <3>2. \A g \in Files[r] : disk'[g] = {r}
      BY <1>3, <2>1, <2>5 DEF Whole
    <3>3. ASSUME fine
          PROVE  \A g \in Files[r] : \/ g \in left[r]
                                     \/ \E y \in transit \ {x} : y.batch = r /\ y.file = g
                                     \/ cdn'[PublicId[g]] = {r}
      <4>1. cdn' = [cdn EXCEPT ![PublicId[x.file]] = {r}]
        BY <2>1, <2>5, <3>3 DEF Whole
      <4> SUFFICES ASSUME NEW g \in Files[r]
                   PROVE  \/ g \in left[r]
                          \/ \E y \in transit \ {x} : y.batch = r /\ y.file = g
                          \/ cdn'[PublicId[g]] = {r}
        OBVIOUS
      <4>2. CASE g = x.file
        BY <1>1, <2>2, <4>1, <4>2
      <4>3. CASE g # x.file
        <5>1. PublicId[g] # PublicId[x.file]
          BY <1>3, <1>5, <2>5, <4>3 DEF Shares, Unshared
        <5>2. cdn'[PublicId[g]] = cdn[PublicId[g]]
          BY <1>1, <2>2, <4>1, <5>1
        <5>3. stage[r] = "upload"
          BY <2>5, <3>3
        <5> QED
          BY <2>1, <4>3, <5>2, <5>3 DEF Whole
      <4> QED
        BY <4>2, <4>3
    <3>4. stage'[r] = "upload" =>
            \A g \in Files[r] : \/ g \in left'[r]
                                \/ \E y \in transit' : y.batch = r /\ y.file = g
                                \/ cdn'[PublicId[g]] = {r}
      BY <1>2, <3>1, <3>3
    <3>5. ASSUME stage'[r] = "done"
          PROVE  Uploaded(r)'
      <4>1. left[r] = {} /\ \A y \in transit : y.batch = r => y = x
        BY <2>5, <3>1, <3>5
      <4>2. \A g \in Files[r] : cdn'[PublicId[g]] = {r}
        BY <3>1, <3>3, <3>5, <4>1
      <4> QED
        BY <4>2 DEF Uploaded, Ids
    <3> QED
      BY <2>3, <3>1, <3>2, <3>4, <3>5 DEF Whole, Images!Loop
  <2> QED
    BY <2>4, <2>5
<1> QED
  BY <1>4, <1>5

LEMMA EndsWhole ==
  ASSUME UInv, UNCHANGED Files, NEW b \in Request,
         Images!Stored(b) \/ Images!EmptyRefused(b) \/ Images!UploadFails(b),
         NEW r \in Request
  PROVE  /\ Batches(r)' /\ OwnFiles'
         /\ Shares(r) => Whole(r)'
<1> SUFFICES ASSUME NEW x \in transit, NEW good \in BOOLEAN, Images!Ended(x, good),
                    \/ good /\ cdn' = [cdn EXCEPT ![PublicId[x.file]] = x.bytes]
                    \/ ~good /\ cdn' = cdn,
                    UNCHANGED <<left, file, disk>>
             PROVE  /\ Batches(r)' /\ OwnFiles'
                    /\ Shares(r) => Whole(r)'
  BY DEF Images!Stored, Images!EmptyRefused, Images!UploadFails, Images!Refused
<1> QED
  BY EndWhole

\* A batch begins with all its files to write.
LEMMA BeginWhole ==
  ASSUME UInv, UNCHANGED Files, NEW b \in Request, Images!Begin(b, Files[b]),
         NEW r \in Request
  PROVE  /\ Batches(r)' /\ OwnFiles'
         /\ b = r \/ Shares(r) => Whole(r)'
<1>1. /\ stage \in [Request -> Images!Stage] /\ left \in [Request -> SUBSET File]
      /\ \A x \in transit : stage[x.batch] # "idle"
  BY DEF UInv, IInv, TypeOK, Images!TypeOK, InTransit, Images!Uploading
<1>2. /\ stage[b] = "idle"
      /\ stage' = [stage EXCEPT ![b] = IF Files[b] = {} THEN "done" ELSE "stat"]
      /\ left' = [left EXCEPT ![b] = Files[b]]
      /\ UNCHANGED <<file, disk, transit, cdn>>
  BY DEF Images!Begin, Images!GoTo
<1>3. Batches(r)' /\ OwnFiles'
  BY <1>1, <1>2 DEF UInv, Batches, OwnFiles
<1>4. ASSUME b = r
      PROVE  Whole(r)'
  <2>1. left'[r] = Files[r] /\ stage'[r] = IF Files[r] = {} THEN "done" ELSE "stat"
    BY <1>1, <1>2, <1>4
  <2>2. \A x \in transit' : x.batch # r
    BY <1>1, <1>2, <1>4
  <2> QED
    BY <2>1, <2>2 DEF Whole, Uploaded, Ids, Images!Loop, Images!Uploading
<1>5. ASSUME b # r, Shares(r)
      PROVE  Whole(r)'
  <2>1. Whole(r)
    BY <1>5 DEF Shares, UInv
  <2>2. stage'[r] = stage[r] /\ left'[r] = left[r]
    BY <1>1, <1>2, <1>5
  <2> QED
    BY <1>2, <2>1, <2>2 DEF Whole, Uploaded, Ids
<1> QED
  BY <1>3, <1>4, <1>5

\* The process dies: what was done stays done.
LEMMA KilledWhole ==
  ASSUME UInv, UNCHANGED Files, Images!Killed, NEW r \in Request
  PROVE  /\ Batches(r)' /\ OwnFiles'
         /\ Shares(r) => Whole(r)'
<1>1. /\ stage'[r] = IF stage[r] \in Images!Loop \cup Images!Uploading THEN "dead" ELSE stage[r]
      /\ transit' = {}
      /\ UNCHANGED <<left, file, disk, cdn>>
  BY DEF Images!Killed
<1>2. Batches(r)' /\ OwnFiles'
  BY <1>1 DEF UInv, Batches, OwnFiles, Images!Loop, Images!Uploading
<1>3. ASSUME Shares(r)
      PROVE  Whole(r)'
  <2>1. Whole(r)
    BY <1>3 DEF Shares, UInv
  <2> QED
    BY <1>1, <2>1 DEF Whole, Uploaded, Ids, Images!Loop, Images!Uploading
<1> QED
  BY <1>2, <1>3

\* Elsewhere nothing happens to the images, though a request may just now say
\* which files it has.
LEMMA StillWhole ==
  ASSUME UInv, UNCHANGED images,
         \A s \in Request : stage[s] # "idle" => Files'[s] = Files[s],
         NEW r \in Request
  PROVE  /\ Batches(r)' /\ OwnFiles'
         /\ stage'[r] # "idle" /\ Unshared(r)' => Whole(r)'
<1>1. UNCHANGED <<stage, left, file, disk, transit, cdn>>
  BY DEF images
<1>2. \A x \in transit : x.batch \in Request /\ stage[x.batch] # "idle"
  BY DEF UInv, IInv, TypeOK, Images!TypeOK, InTransit, Images!Uploading
<1>3. Batches(r)' /\ OwnFiles'
  BY <1>1, <1>2 DEF UInv, Batches, OwnFiles
<1>4. ASSUME stage'[r] # "idle", Unshared(r)'
      PROVE  Whole(r)'
  <2>1. Files'[r] = Files[r] /\ Unshared(r)
    BY <1>1, <1>4, UnsharedBefore
  <2>2. Whole(r)
    BY <1>1, <1>4, <2>1 DEF UInv
  <2> QED
    BY <1>1, <2>1, <2>2 DEF Whole, Uploaded, Ids
<1> QED
  BY <1>3, <1>4

\* What a step, or the start, owes to batch r.
Owed(r) ==
  /\ Batches(r) /\ OwnFiles
  /\ Shares(r) => Whole(r)

\* A step of the uploads, or the death of the process, begins no batch.
LEMMA UploadOwes ==
  ASSUME UInv, UNCHANGED req, NEW b \in Request,
         \/ Images!Look(b)
         \/ Images!MakeDirectory(b)
         \/ Images!Open(b)
         \/ Images!NoBytes(b)
         \/ Images!Write(b)
         \/ Images!Read(b)
         \/ Images!Stored(b)
         \/ Images!EmptyRefused(b)
         \/ Images!UploadFails(b)
         \/ Images!Killed,
         NEW r \in Request
  PROVE  Owed(r)'
<1>1. UNCHANGED Files
  BY DEF Files
<1>2. \A s \in Request : stage'[s] = "idle" <=> stage[s] = "idle"
  <2>1. CASE Images!Killed
    BY <2>1 DEF Images!Killed, Images!Loop, Images!Uploading
  <2>2. CASE ~Images!Killed
    BY <2>2, FilesType, UploadSteps, EndSteps DEF Continues, UInv, IInv, TypeOK
  <2> QED
    BY <2>1, <2>2
<1>3. Shares(r)' => Shares(r)
  BY <1>1, <1>2, UnsharedBefore DEF Shares
<1> QED
  BY <1>1, <1>3, LookWhole, OpenWhole, NoBytesWhole, WriteWhole, ReadWhole, EndsWhole, KilledWhole DEF Owed

LEMMA BeginOwes ==
  ASSUME UInv, UNCHANGED req, NEW b \in Request, Images!Begin(b, Files[b]), NEW r \in Request
  PROVE  Owed(r)'
<1>1. UNCHANGED Files
  BY DEF Files
<1>2. /\ \A s \in Request : stage[s] # "idle" => stage'[s] = stage[s]
      /\ b # r => stage'[r] = stage[r]
  BY DEF Images!Begin, Images!GoTo, UInv, IInv, TypeOK, Images!TypeOK
<1>3. b # r /\ Shares(r)' => Shares(r)
  BY <1>1, <1>2, UnsharedBefore DEF Shares
<1> QED
  BY <1>1, <1>3, BeginWhole DEF Owed

LEMMA StillOwes ==
  ASSUME UInv, UNCHANGED images,
         \A s \in Request : pc[s] # "new" => req'[s] = req[s],
         NEW r \in Request
  PROVE  Owed(r)'
<1>1. \A s \in Request : stage[s] # "idle" => Files'[s] = Files[s]
  BY DEF UInv, IInv, Justified, Files
<1> QED
  BY <1>1, StillWhole DEF Owed, Shares

LEMMA UInvInit == Init => UInv
<1> SUFFICES ASSUME Init PROVE UInv
  OBVIOUS
<1>1. \A r \in Request : stage[r] = "idle"
  BY DEF Init, Images!Init
<1>2. transit = {}
  BY DEF Init, Images!Init
<1> QED
  BY <1>1, <1>2, InvInit DEF UInv, Batches, OwnFiles

LEMMA UInvStep == UInv /\ [Next]_vars => UInv'
<1> SUFFICES ASSUME UInv, [Next]_vars PROVE UInv'
  OBVIOUS
<1>1. IInv'
  BY InvStep DEF UInv
<1> SUFFICES ASSUME NEW r \in Request PROVE Owed(r)'
  <2> SUFFICES ASSUME \A r \in Request : Owed(r)' PROVE UInv'
    OBVIOUS
  <2>1. \A x \in transit' : x.batch \in Request
    BY <1>1 DEF IInv, TypeOK, Images!TypeOK
  <2>2. OwnFiles'
    BY <2>1 DEF Owed, OwnFiles
  <2> QED
    BY <1>1, <2>2 DEF UInv, Owed, Shares
<1> USE DEF world, effects, handlers
<1>2. ASSUME NEW s \in Request, Enter(s)
      PROVE  Owed(r)'
  <2>1. \A t \in Request : pc[t] # "new" => req'[t] = req[t]
    BY <1>2 DEF Enter, UInv, IInv, TypeOK
  <2> QED
    BY <1>2, <2>1, StillOwes DEF Enter
<1>3. ASSUME NEW s \in Request,
             LoadPublisher(s) \/ Insert(s) \/ CommitPost(s) \/ Finish(s) \/ Fails(s)
      PROVE  Owed(r)'
  BY <1>3, StillOwes DEF LoadPublisher, Insert, CommitPost, Finish, Fails
<1>4. ASSUME NEW s \in Request, VerifyTrip(s)
      PROVE  Owed(r)'
  <2>1. CASE UNCHANGED images
    BY <1>4, <2>1, StillOwes DEF VerifyTrip
  <2>2. CASE Images!Begin(s, req[s].files)
    <3>1. req[s] \in Content
      BY <1>4 DEF VerifyTrip, UInv, IInv, Admitted
    <3>2. Files[s] = req[s].files
      BY <3>1, RequestAssumption DEF Files
    <3> QED
      BY <1>4, <2>2, <3>2, BeginOwes DEF VerifyTrip
  <2> QED
    BY <1>4, <2>1, <2>2 DEF VerifyTrip
<1>5. ASSUME NEW s \in Request, StoreAudit(s) \/ RejectAudit(s) \/ Announce(s)
      PROVE  Owed(r)'
  BY <1>5, StillOwes DEF StoreAudit, RejectAudit, Announce
<1>6. ASSUME NEW s \in Request, Upload(s) \/ UploadFails(s)
      PROVE  Owed(r)'
  BY <1>6, UploadOwes DEF Upload, UploadFails
<1>7. ASSUME Die
      PROVE  Owed(r)'
  BY <1>7, UploadOwes DEF Die
<1>8. ASSUME NEW t \in Trip, StoreTrip(t)
      PROVE  Owed(r)'
  BY <1>8, StillOwes DEF StoreTrip
<1>9. ASSUME NEW u \in User, ChangeUser(u)
      PROVE  Owed(r)'
  BY <1>9, StillOwes DEF ChangeUser
<1>10. CASE Restart
  BY <1>10, StillOwes DEF Restart
<1>11. CASE UNCHANGED vars
  BY <1>11, StillOwes DEF vars
<1> QED
  BY <1>2, <1>3, <1>4, <1>5, <1>6, <1>7, <1>8, <1>9, <1>10, <1>11
  DEF Next, Proceed, DieOfDirectory, DieOfDescriptors, DieOfDisk, Crash

LEMMA BatchInvariance == Spec => []UInv
BY UInvInit, UInvStep, PTL DEF Spec

-----------------------------------------------------------------------------
(* The uploader implements ImageDelivery.                                  *)

\* The batches that have handed in a file named f.
Senders(f) == {r \in Request : stage[r] # "idle" /\ f \in Files[r]}

\* Whatever is written, and then read, was handed in under that name.
OwnBytes ==
  /\ \A f \in File : disk[f] \subseteq Senders(f)
  /\ \A x \in transit : x.bytes \subseteq Senders(x.file)

\* A file is read by one upload only.
ReadOnce ==
  \A x \in transit :
    /\ x.file \notin left[x.batch]
    /\ \A y \in transit : y.batch = x.batch /\ y.file = x.file => y = x

\* A batch that has not ended has a file to write or to read, or an upload on
\* its way: it never waits for nothing.
HasWork(r) ==
  /\ stage[r] \in Images!Loop => left[r] # {}
  /\ stage[r] \in Images!Uploading => left[r] # {} \/ \E x \in transit : x.batch = r

DInv ==
  /\ UInv
  /\ OwnBytes
  /\ ReadOnce
  /\ \A r \in Request : HasWork(r)

\* All of it but UInv.
Kept == OwnBytes /\ ReadOnce /\ \A r \in Request : HasWork(r)

\* What ImageDelivery sees of a batch.
LEMMA Seen ==
  ASSUME NEW r \in Request
  PROVE  /\ Outcome[r] = IF stage[r] \in Images!Loop \cup {"upload"} THEN "pending"
                         ELSE IF stage[r] = "broken" THEN "failing" ELSE stage[r]
         /\ Untaken[r] = IF stage[r] \in Images!Loop THEN Files[r]
                         ELSE IF stage[r] = "upload"
                           THEN left[r] \cup {x.file : x \in {y \in transit : y.batch = r}}
                         ELSE {}
         /\ Outcome'[r] = IF stage'[r] \in Images!Loop \cup {"upload"} THEN "pending"
                          ELSE IF stage'[r] = "broken" THEN "failing" ELSE stage'[r]
         /\ Untaken'[r] = IF stage'[r] \in Images!Loop THEN Files'[r]
                          ELSE IF stage'[r] = "upload"
                            THEN left'[r] \cup {x.file : x \in {y \in transit' : y.batch = r}}
                          ELSE {}
BY DEF Outcome, Untaken

\* ImageDelivery sees nothing of a step that leaves each batch as it stands.
LEMMA Unseen ==
  ASSUME cdn' = cdn, \A r \in Request : Outcome'[r] = Outcome[r] /\ Untaken'[r] = Untaken[r]
  PROVE  UNCHANGED Delivery!deliveries
<1>1. Outcome' = Outcome
  BY DEF Outcome
<1>2. Untaken' = Untaken
  BY DEF Untaken
<1> QED
  BY <1>1, <1>2 DEF Delivery!deliveries

\* Who has handed in a file has done so for ever.
LEMMA SendersStay ==
  ASSUME \A r \in Request : stage[r] # "idle" => stage'[r] # "idle" /\ Files'[r] = Files[r],
         NEW f
  PROVE  Senders(f) \subseteq Senders(f)'
BY DEF Senders

LEMMA LookDelivers ==
  ASSUME DInv, UNCHANGED Files, NEW b \in Request, Images!Look(b) \/ Images!MakeDirectory(b)
  PROVE  Kept' /\ UNCHANGED Delivery!deliveries
<1>1. stage \in [Request -> Images!Stage] /\ UNCHANGED <<left, file, disk, transit, cdn>>
  BY DEF DInv, UInv, IInv, TypeOK, Images!TypeOK, Images!Look, Images!MakeDirectory
<1>2. \A s \in Request : \/ stage'[s] = stage[s]
                         \/ stage[s] \in {"stat", "missing"} /\ stage'[s] \in {"open", "missing"}
  BY <1>1 DEF Images!Look, Images!MakeDirectory, Images!GoTo
<1>3. \A f : Senders(f) \subseteq Senders(f)'
  BY <1>2, SendersStay
<1>4. OwnBytes' /\ ReadOnce'
  BY <1>1, <1>3 DEF DInv, OwnBytes, ReadOnce
<1>5. ASSUME NEW r \in Request
      PROVE  HasWork(r)'
  BY <1>1, <1>2 DEF DInv, HasWork, Images!Loop, Images!Uploading
<1>6. \A r \in Request : Outcome'[r] = Outcome[r] /\ Untaken'[r] = Untaken[r]
  BY <1>1, <1>2, Seen DEF Images!Loop
<1> QED
  BY <1>1, <1>4, <1>5, <1>6, Unseen DEF Kept

LEMMA OpenDelivers ==
  ASSUME DInv, UNCHANGED Files, NEW b \in Request, Images!Open(b)
  PROVE  Kept' /\ UNCHANGED Delivery!deliveries
<1>1. PICK f \in left[b] : disk' = [disk EXCEPT ![f] = {}]
  BY DEF Images!Open
<1>2. /\ stage \in [Request -> Images!Stage] /\ disk \in [File -> SUBSET Request]
      /\ stage[b] = "open" /\ stage' = [stage EXCEPT ![b] = "write"]
      /\ UNCHANGED <<left, transit, cdn>>
  BY DEF DInv, UInv, IInv, TypeOK, Images!TypeOK, Images!Open, Images!GoTo
<1>3. \A s \in Request : stage'[s] = stage[s] \/ (stage[s] = "open" /\ stage'[s] = "write")
  BY <1>2
<1>4. \A g : Senders(g) \subseteq Senders(g)'
  BY <1>3, SendersStay
<1>5. \A g \in File : disk'[g] \subseteq disk[g]
  BY <1>1, <1>2
<1>6. OwnBytes' /\ ReadOnce'
  BY <1>2, <1>4, <1>5 DEF DInv, OwnBytes, ReadOnce
<1>7. ASSUME NEW r \in Request
      PROVE  HasWork(r)'
  BY <1>2, <1>3 DEF DInv, HasWork, Images!Loop, Images!Uploading
<1>8. ASSUME NEW r \in Request
      PROVE  Outcome'[r] = Outcome[r] /\ Untaken'[r] = Untaken[r]
  <2>1. CASE stage'[r] = stage[r]
    BY <1>2, <2>1, Seen
  <2>2. CASE stage[r] = "open" /\ stage'[r] = "write"
    BY <2>2, Seen DEF Images!Loop
  <2> QED
    BY <1>3, <2>1, <2>2
<1> QED
  BY <1>2, <1>6, <1>7, <1>8, Unseen DEF Kept

\* When the last file is written, all files are to be uploaded.
LEMMA WriteDelivers ==
  ASSUME DInv, UNCHANGED Files, NEW b \in Request, Images!Write(b)
  PROVE  Kept' /\ UNCHANGED Delivery!deliveries
<1> DEFINE f == file[b]
           rest == left[b] \ {f}
<1>1. PICK bytes \in {{b}, disk[f] \cup {b}} : disk' = [disk EXCEPT ![f] = bytes]
  BY DEF Images!Write
<1>2. /\ stage \in [Request -> Images!Stage] /\ disk \in [File -> SUBSET Request]
      /\ left \in [Request -> SUBSET File]
      /\ \A x \in transit : stage[x.batch] \in {"upload", "broken"}
  BY DEF DInv, UInv, IInv, TypeOK, Images!TypeOK, InTransit, Images!Uploading
<1>3. /\ stage[b] = "write"
      /\ stage' = [stage EXCEPT ![b] = IF rest = {} THEN "upload" ELSE "stat"]
      /\ left' = [left EXCEPT ![b] = IF rest = {} THEN Files[b] ELSE rest]
      /\ UNCHANGED <<transit, cdn>>
  BY DEF Images!Write, Images!GoTo
<1>4. f \in Files[b] /\ f \in File
  BY <1>2, <1>3 DEF DInv, UInv, Batches
<1>5. /\ stage'[b] = IF rest = {} THEN "upload" ELSE "stat"
      /\ left'[b] = IF rest = {} THEN Files[b] ELSE rest
      /\ \A s \in Request \ {b} : stage'[s] = stage[s] /\ left'[s] = left[s]
      /\ \A x \in transit : x.batch # b
  BY <1>2, <1>3
<1>6. \A g : Senders(g) \subseteq Senders(g)'
  BY <1>3, <1>5, SendersStay
<1>7. OwnBytes'
  <2>1. disk'[f] \subseteq Senders(f)
    BY <1>1, <1>2, <1>3, <1>4 DEF DInv, OwnBytes, Senders
  <2>2. \A g \in File : g # f => disk'[g] = disk[g]
    BY <1>1, <1>2
  <2> QED
    BY <1>3, <1>6, <2>1, <2>2 DEF DInv, OwnBytes
<1>8. ReadOnce'
  <2>1. \A x \in transit : x.batch \in Request
    BY DEF DInv, UInv, IInv, TypeOK, Images!TypeOK
  <2> QED
    BY <1>3, <1>5, <2>1 DEF DInv, ReadOnce
<1>9. ASSUME NEW r \in Request
      PROVE  HasWork(r)'
  <2>1. CASE r = b
    BY <1>4, <1>5, <2>1 DEF HasWork, Images!Loop, Images!Uploading
  <2>2. CASE r # b
    BY <1>3, <1>5, <2>2 DEF DInv, HasWork
  <2> QED
    BY <2>1, <2>2
<1>10. ASSUME NEW r \in Request
       PROVE  Outcome'[r] = Outcome[r] /\ Untaken'[r] = Untaken[r]
  <2>1. CASE r = b
    <3>1. {x.file : x \in {y \in transit' : y.batch = b}} = {}
      BY <1>3, <1>5
    <3>2. Outcome[b] = "pending" /\ Untaken[b] = Files[b]
      BY <1>3, Seen DEF Images!Loop
    <3>3. CASE rest = {}
      BY <1>5, <2>1, <3>1, <3>2, <3>3, Seen DEF Images!Loop
    <3>4. CASE rest # {}
      BY <1>5, <2>1, <3>2, <3>4, Seen DEF Images!Loop
    <3> QED
      BY <3>3, <3>4
  <2>2. CASE r # b
    BY <1>3, <1>5, <2>2, Seen
  <2> QED
    BY <2>1, <2>2
<1> QED
  BY <1>3, <1>7, <1>8, <1>9, <1>10, Unseen DEF Kept

\* A file that is read is still to be taken.
LEMMA ReadDelivers ==
  ASSUME DInv, UNCHANGED Files, NEW b \in Request, Images!Read(b)
  PROVE  Kept' /\ UNCHANGED Delivery!deliveries
<1>1. PICK f \in left[b] :
        /\ left' = [left EXCEPT ![b] = left[b] \ {f}]
        /\ transit' = transit \cup {[batch |-> b, file |-> f, bytes |-> disk[f]]}
  BY DEF Images!Read
<1> DEFINE new == [batch |-> b, file |-> f, bytes |-> disk[f]]
<1>2. /\ left \in [Request -> SUBSET File] /\ stage[b] \in Images!Uploading
      /\ UNCHANGED <<stage, disk, cdn>>
      /\ \A x \in transit : x.batch \in Request
  BY DEF DInv, UInv, IInv, TypeOK, Images!TypeOK, Images!Read
<1>3. f \in File /\ new.batch = b /\ new.file = f /\ new.bytes = disk[f] /\ new \in transit'
  BY <1>1, <1>2
<1>4. /\ left'[b] = left[b] \ {f}
      /\ \A s \in Request \ {b} : left'[s] = left[s]
  BY <1>1, <1>2
<1>5. \A g : Senders(g)' = Senders(g)
  BY <1>2 DEF Senders
<1>6. OwnBytes'
  BY <1>1, <1>2, <1>3, <1>5 DEF DInv, OwnBytes
<1>7. ReadOnce'
  <2> SUFFICES ASSUME NEW x \in transit'
               PROVE  /\ x.file \notin left'[x.batch]
                      /\ \A y \in transit' : y.batch = x.batch /\ y.file = x.file => y = x
    BY DEF ReadOnce
  <2>1. CASE x = new
    <3>1. \A y \in transit : ~(y.batch = b /\ y.file = f)
      BY <1>1 DEF DInv, ReadOnce
    <3> QED
      BY <1>1, <1>3, <1>4, <2>1, <3>1
  <2>2. CASE x \in transit
    <3>1. ~(x.batch = b /\ x.file = f)
      BY <1>1, <2>2 DEF DInv, ReadOnce
    <3>2. \A y \in transit : y.batch = x.batch /\ y.file = x.file => y = x
      BY <2>2 DEF DInv, ReadOnce
    <3>3. x.file \notin left'[x.batch]
      BY <1>2, <1>4, <2>2 DEF DInv, ReadOnce
    <3> QED
      BY <1>1, <1>3, <3>1, <3>2, <3>3
  <2> QED
    BY <1>1, <2>1, <2>2
<1>8. ASSUME NEW r \in Request
      PROVE  HasWork(r)'
  <2>1. CASE r = b
    BY <1>2, <1>3, <2>1 DEF HasWork, Images!Loop, Images!Uploading
  <2>2. CASE r # b
    BY <1>1, <1>2, <1>4, <2>2 DEF DInv, HasWork
  <2> QED
    BY <2>1, <2>2
<1>9. ASSUME NEW r \in Request
      PROVE  Outcome'[r] = Outcome[r] /\ Untaken'[r] = Untaken[r]
  <2>1. CASE r = b
    <3>1. {x.file : x \in {y \in transit' : y.batch = b}}
            = {x.file : x \in {y \in transit : y.batch = b}} \cup {f}
      BY <1>1, <1>3
    <3>2. left'[b] \cup {x.file : x \in {y \in transit' : y.batch = b}}
            = left[b] \cup {x.file : x \in {y \in transit : y.batch = b}}
      BY <1>4, <3>1
    <3> QED
      BY <1>2, <2>1, <3>2, Seen
  <2>2. CASE r # b
    <3>1. {y \in transit' : y.batch = r} = {y \in transit : y.batch = r}
      BY <1>1, <1>3, <2>2
    <3> QED
      BY <1>2, <1>4, <2>2, <3>1, Seen
  <2> QED
    BY <2>1, <2>2
<1> QED
  BY <1>2, <1>6, <1>7, <1>8, <1>9, Unseen DEF Kept

\* A step that concerns one batch.
LEMMA OneBatch ==
  ASSUME NEW b \in Request,
         \A r \in Request \ {b} : Outcome'[r] = Outcome[r] /\ Untaken'[r] = Untaken[r]
  PROVE  /\ Outcome' = [Outcome EXCEPT ![b] = Outcome'[b]]
         /\ Untaken' = [Untaken EXCEPT ![b] = Untaken'[b]]
<1>1. /\ Outcome' = [r \in Request |-> Outcome'[r]] /\ Outcome = [r \in Request |-> Outcome[r]]
      /\ Untaken' = [r \in Request |-> Untaken'[r]] /\ Untaken = [r \in Request |-> Untaken[r]]
  BY DEF Outcome, Untaken
<1> QED
  BY <1>1

\* An image that is taken came under its name, and an upload that ends is of a
\* file that was to be taken; the last of them settles the batch.
LEMMA EndDelivers ==
  ASSUME DInv, UNCHANGED Files, NEW x \in transit, NEW good \in BOOLEAN, Images!Ended(x, good),
         \/ good /\ x.bytes # {} /\ cdn' = [cdn EXCEPT ![PublicId[x.file]] = x.bytes]
         \/ ~good /\ cdn' = cdn,
         UNCHANGED <<left, disk>>
  PROVE  Kept' /\ Delivery!Next
<1> DEFINE b == x.batch
           f == x.file
           others == \E y \in transit : y.batch = b /\ y # x
           last == left[b] = {} /\ \A y \in transit : y.batch = b => y = x
           fine == good /\ stage[b] = "upload"
<1>1. /\ x \in [batch : Request, file : File, bytes : SUBSET Request]
      /\ stage \in [Request -> Images!Stage]
      /\ left \in [Request -> SUBSET File]
      /\ stage[b] \in {"upload", "broken"}
  BY DEF DInv, UInv, IInv, TypeOK, Images!TypeOK, InTransit, Images!Uploading
<1>2. b \in Request /\ f \in File /\ f \in Files[b]
  BY <1>1 DEF DInv, UInv, OwnFiles
<1>3. /\ transit' = transit \ {x}
      /\ stage' = [stage EXCEPT ![b] = IF last THEN (IF fine THEN "done" ELSE "failed")
                                               ELSE (IF fine THEN "upload" ELSE "broken")]
  BY DEF Images!Ended, Images!GoTo
<1>4. /\ stage'[b] = IF last THEN (IF fine THEN "done" ELSE "failed")
                             ELSE (IF fine THEN "upload" ELSE "broken")
      /\ \A r \in Request \ {b} : stage'[r] = stage[r]
  BY <1>1, <1>2, <1>3
<1>5. OwnBytes'
  <2>1. \A g : Senders(g) \subseteq Senders(g)'
    BY <1>4, SendersStay
  <2> QED
    BY <1>3, <2>1 DEF DInv, OwnBytes
<1>6. ReadOnce'
  BY <1>3 DEF DInv, ReadOnce
<1>7. ASSUME NEW r \in Request
      PROVE  HasWork(r)'
  <2>1. CASE r = b
    BY <1>3, <1>4, <2>1 DEF HasWork, Images!Loop, Images!Uploading
  <2>2. CASE r # b
    <3>1. \A y \in transit : y.batch = r => y \in transit'
      BY <1>3, <2>2
    <3> QED
      BY <1>4, <2>2, <3>1 DEF DInv, HasWork
  <2> QED
    BY <2>1, <2>2
<1>8. ASSUME NEW r \in Request \ {b}
      PROVE  Outcome'[r] = Outcome[r] /\ Untaken'[r] = Untaken[r]
  <2>1. {y \in transit' : y.batch = r} = {y \in transit : y.batch = r}
    BY <1>3
  <2> QED
    BY <1>4, <2>1, Seen
<1>9. /\ Outcome' = [Outcome EXCEPT ![b] = Outcome'[b]]
      /\ Untaken' = [Untaken EXCEPT ![b] = Untaken'[b]]
  BY <1>2, <1>8, OneBatch
<1>10. good => Delivery!Replace(f)
  <2>1. Senders(f) \subseteq Delivery!Senders(f)
    BY Seen DEF Senders, Delivery!Senders
  <2>2. x.bytes \subseteq Senders(f)
    BY DEF DInv, OwnBytes
  <2>3. x.bytes \subseteq Delivery!Senders(f)
    BY <2>1, <2>2
  <2>4. good => x.bytes # {} /\ cdn' = [cdn EXCEPT ![PublicId[f]] = x.bytes]
    OBVIOUS
  <2>5. good => x.bytes \in (SUBSET Delivery!Senders(f)) \ {{}}
    BY <2>3, <2>4
  <2> QED
    BY <2>4, <2>5 DEF Delivery!Replace
<1>11. CASE fine
  <2>1. Outcome[b] = "pending" /\ Outcome'[b] = IF last THEN "done" ELSE "pending"
    BY <1>2, <1>4, <1>11, Seen DEF Images!Loop
  <2>2. Untaken[b] = left[b] \cup {y.file : y \in {z \in transit : z.batch = b}}
    BY <1>2, <1>11, Seen DEF Images!Loop
  <2>3. f \in Untaken[b]
    BY <2>2
  <2>4. Untaken[b] = {f} <=> last
    <3>1. ASSUME last
          PROVE  Untaken[b] = {f}
      BY <2>2, <3>1
    <3>2. ASSUME Untaken[b] = {f}
          PROVE  last
      <4>1. f \notin left[b] /\ \A y \in transit : y.batch = b /\ y.file = f => y = x
        BY DEF DInv, ReadOnce
      <4>2. left[b] = {}
        BY <2>2, <3>2, <4>1
      <4>3. \A y \in transit : y.batch = b => y.file = f
        BY <2>2, <3>2
      <4> QED
        BY <4>1, <4>2, <4>3
    <3> QED
      BY <3>1, <3>2
  <2>5. Untaken'[b] = Untaken[b] \ {f}
    <3>1. CASE last
      BY <1>2, <1>4, <1>11, <2>4, <3>1, Seen DEF Images!Loop
    <3>2. CASE ~last
      <4>1. Untaken'[b] = left[b] \cup {y.file : y \in {z \in transit' : z.batch = b}}
        BY <1>2, <1>4, <1>11, <3>2, Seen DEF Images!Loop
      <4>2. f \notin left[b] /\ \A y \in transit : y.batch = b /\ y.file = f => y = x
        BY DEF DInv, ReadOnce
      <4>3. {y.file : y \in {z \in transit' : z.batch = b}}
              = {y.file : y \in {z \in transit : z.batch = b}} \ {f}
        BY <1>3, <4>2
      <4> QED
        BY <2>2, <4>1, <4>2, <4>3
    <3> QED
      BY <3>1, <3>2
  <2>6. Delivery!Take(b, f)
    BY <1>9, <1>10, <1>11, <2>1, <2>3, <2>4, <2>5 DEF Delivery!Take
  <2> QED
    BY <1>2, <1>5, <1>6, <1>7, <2>6 DEF Kept, Delivery!Next
<1>12. CASE ~fine
  <2>1. Outcome'[b] \in {"failing", "failed"} /\ Untaken'[b] = {}
    BY <1>2, <1>4, <1>12, Seen DEF Images!Loop
  <2>2. Outcome[b] \in {"pending", "failing"}
    BY <1>1, <1>2, Seen DEF Images!Loop
  <2>3. CASE good
    <3>1. stage[b] = "broken"
      BY <1>1, <1>12, <2>3
    <3>2. Outcome[b] = "failing" /\ Untaken[b] = {}
      BY <1>2, <3>1, Seen DEF Images!Loop
    <3>3. UNCHANGED Untaken
      <4>1. \A r \in Request : Untaken'[r] = Untaken[r]
        BY <1>8, <2>1, <3>2
      <4> QED
        BY <4>1 DEF Untaken
    <3>4. Delivery!TakeOfFailing(b, f)
      BY <1>2, <1>9, <1>10, <2>1, <2>3, <3>2, <3>3 DEF Delivery!TakeOfFailing
    <3> QED
      BY <1>2, <1>5, <1>6, <1>7, <3>4 DEF Kept, Delivery!Next
  <2>4. CASE ~good
    <3>1. Delivery!Refuse(b)
      BY <1>2, <1>9, <2>1, <2>2, <2>4 DEF Delivery!Refuse
    <3> QED
      BY <1>2, <1>5, <1>6, <1>7, <3>1 DEF Kept, Delivery!Next
  <2> QED
    BY <2>3, <2>4
<1> QED
  BY <1>11, <1>12

LEMMA EndsDeliver ==
  ASSUME DInv, UNCHANGED Files, NEW b \in Request,
         Images!Stored(b) \/ Images!EmptyRefused(b) \/ Images!UploadFails(b)
  PROVE  Kept' /\ Delivery!Next
<1> SUFFICES ASSUME NEW x \in transit, NEW good \in BOOLEAN, Images!Ended(x, good),
                    \/ good /\ x.bytes # {} /\ cdn' = [cdn EXCEPT ![PublicId[x.file]] = x.bytes]
                    \/ ~good /\ cdn' = cdn,
                    UNCHANGED <<left, disk>>
             PROVE  Kept' /\ Delivery!Next
  BY DEF Images!Stored, Images!EmptyRefused, Images!UploadFails, Images!Refused
<1> QED
  BY EndDelivers

\* A batch that is rejected at a file without bytes has had nothing taken.
LEMMA NoBytesDelivers ==
  ASSUME DInv, UNCHANGED Files, NEW b \in Request, Images!NoBytes(b)
  PROVE  Kept' /\ Delivery!Next
<1>1. PICK f \in left[b] : disk' = [disk EXCEPT ![f] = {}]
  BY DEF Images!NoBytes
<1>2. /\ stage \in [Request -> Images!Stage] /\ disk \in [File -> SUBSET Request]
      /\ stage[b] = "open" /\ stage' = [stage EXCEPT ![b] = "failed"]
      /\ UNCHANGED <<left, transit, cdn>>
  BY DEF DInv, UInv, IInv, TypeOK, Images!TypeOK, Images!NoBytes, Images!GoTo
<1>3. stage'[b] = "failed" /\ \A s \in Request \ {b} : stage'[s] = stage[s]
  BY <1>2
<1>4. \A g : Senders(g) \subseteq Senders(g)'
  BY <1>2, <1>3, SendersStay
<1>5. \A g \in File : disk'[g] \subseteq disk[g]
  BY <1>1, <1>2
<1>6. OwnBytes' /\ ReadOnce'
  BY <1>2, <1>4, <1>5 DEF DInv, OwnBytes, ReadOnce
<1>7. ASSUME NEW r \in Request
      PROVE  HasWork(r)'
  BY <1>2, <1>3 DEF DInv, HasWork, Images!Loop, Images!Uploading
<1>8. ASSUME NEW r \in Request \ {b}
      PROVE  Outcome'[r] = Outcome[r] /\ Untaken'[r] = Untaken[r]
  BY <1>2, <1>3, Seen
<1>9. /\ Outcome' = [Outcome EXCEPT ![b] = Outcome'[b]]
      /\ Untaken' = [Untaken EXCEPT ![b] = Untaken'[b]]
  BY <1>8, OneBatch
<1>10. Outcome[b] = "pending"
  BY <1>2, Seen DEF Images!Loop
<1>11. Outcome'[b] = "failed" /\ Untaken'[b] = {}
  BY <1>3, Seen DEF Images!Loop
<1>12. Delivery!Refuse(b)
  BY <1>2, <1>9, <1>10, <1>11 DEF Delivery!Refuse
<1> QED
  BY <1>6, <1>7, <1>12 DEF Kept, Delivery!Next

LEMMA BeginDelivers ==
  ASSUME DInv, UNCHANGED Files, NEW b \in Request, Images!Begin(b, Files[b])
  PROVE  Kept' /\ Delivery!Next
<1>1. /\ stage \in [Request -> Images!Stage] /\ left \in [Request -> SUBSET File]
      /\ \A x \in transit : stage[x.batch] # "idle" /\ x.batch \in Request
  BY DEF DInv, UInv, IInv, TypeOK, Images!TypeOK, InTransit, Images!Uploading
<1>2. /\ stage[b] = "idle"
      /\ stage' = [stage EXCEPT ![b] = IF Files[b] = {} THEN "done" ELSE "stat"]
      /\ left' = [left EXCEPT ![b] = Files[b]]
      /\ UNCHANGED <<disk, transit, cdn>>
  BY DEF Images!Begin, Images!GoTo
<1>3. /\ stage'[b] = IF Files[b] = {} THEN "done" ELSE "stat"
      /\ left'[b] = Files[b]
      /\ \A s \in Request \ {b} : stage'[s] = stage[s] /\ left'[s] = left[s]
      /\ \A x \in transit : x.batch # b
  BY <1>1, <1>2
<1>4. OwnBytes'
  <2>1. \A g : Senders(g) \subseteq Senders(g)'
    BY <1>2, <1>3, SendersStay
  <2> QED
    BY <1>2, <2>1 DEF DInv, OwnBytes
<1>5. ReadOnce'
  BY <1>1, <1>2, <1>3 DEF DInv, ReadOnce
<1>6. ASSUME NEW r \in Request
      PROVE  HasWork(r)'
  BY <1>2, <1>3 DEF DInv, HasWork, Images!Loop, Images!Uploading
<1>7. ASSUME NEW r \in Request \ {b}
      PROVE  Outcome'[r] = Outcome[r] /\ Untaken'[r] = Untaken[r]
  BY <1>2, <1>3, Seen
<1>8. /\ Outcome' = [Outcome EXCEPT ![b] = Outcome'[b]]
      /\ Untaken' = [Untaken EXCEPT ![b] = Untaken'[b]]
  BY <1>7, OneBatch
<1>9. /\ Outcome[b] = "idle"
      /\ Outcome'[b] = IF Files[b] = {} THEN "done" ELSE "pending"
      /\ Untaken'[b] = Files[b]
  <2>1. Outcome[b] = "idle"
    BY <1>2, Seen DEF Images!Loop
  <2>2. CASE Files[b] = {}
    BY <1>3, <2>1, <2>2, Seen DEF Images!Loop
  <2>3. CASE Files[b] # {}
    BY <1>3, <2>1, <2>3, Seen DEF Images!Loop
  <2> QED
    BY <2>1, <2>2, <2>3
<1>10. Delivery!Begin(b)
  BY <1>2, <1>8, <1>9 DEF Delivery!Begin
<1> QED
  BY <1>4, <1>5, <1>6, <1>10 DEF Kept, Delivery!Next

LEMMA KilledDelivers ==
  ASSUME DInv, UNCHANGED Files, Images!Killed
  PROVE  Kept' /\ Delivery!Next
<1>1. /\ \A r \in Request : stage'[r] = IF stage[r] \in Images!Loop \cup Images!Uploading
                                        THEN "dead" ELSE stage[r]
      /\ transit' = {}
      /\ UNCHANGED <<left, disk, cdn>>
  BY DEF Images!Killed
<1>2. OwnBytes'
  <2>1. \A g : Senders(g) \subseteq Senders(g)'
    BY <1>1, SendersStay DEF Images!Loop, Images!Uploading
  <2> QED
    BY <1>1, <2>1 DEF DInv, OwnBytes
<1>3. ReadOnce' /\ \A r \in Request : HasWork(r)'
  BY <1>1 DEF ReadOnce, HasWork, Images!Loop, Images!Uploading
<1>4. ASSUME NEW r \in Request
      PROVE  /\ Outcome'[r] = IF Outcome[r] \in {"pending", "failing"} THEN "dead" ELSE Outcome[r]
             /\ Untaken'[r] = {}
  <2>1. stage[r] \in Images!Stage
    BY DEF DInv, UInv, IInv, TypeOK, Images!TypeOK
  <2>2. CASE stage[r] \in Images!Loop \cup Images!Uploading
    <3>1. Outcome[r] \in {"pending", "failing"}
      BY <2>2, Seen DEF Images!Uploading
    <3>2. stage'[r] = "dead"
      BY <1>1, <2>2
    <3> QED
      BY <3>1, <3>2, Seen DEF Images!Loop
  <2>3. CASE stage[r] \in {"idle", "done", "failed", "dead"}
    BY <1>1, <2>3, Seen DEF Images!Loop, Images!Uploading
  <2> QED
    BY <2>1, <2>2, <2>3 DEF Images!Stage
<1>5. /\ Outcome' = [r \in Request |-> Outcome'[r]]
      /\ Untaken' = [r \in Request |-> Untaken'[r]]
  BY DEF Outcome, Untaken
<1>6. Delivery!Die
  BY <1>1, <1>4, <1>5 DEF Delivery!Die
<1> QED
  BY <1>2, <1>3, <1>6 DEF Kept, Delivery!Next

LEMMA StillDelivers ==
  ASSUME DInv, UNCHANGED images, \A s \in Request : pc[s] # "new" => req'[s] = req[s]
  PROVE  Kept' /\ UNCHANGED Delivery!deliveries
<1>1. UNCHANGED <<stage, left, disk, transit, cdn>>
  BY DEF images
<1>2. \A s \in Request : stage[s] # "idle" => Files'[s] = Files[s]
  BY DEF DInv, UInv, IInv, Justified, Files
<1>3. OwnBytes'
  <2>1. \A g : Senders(g) \subseteq Senders(g)'
    BY <1>1, <1>2, SendersStay
  <2> QED
    BY <1>1, <2>1 DEF DInv, OwnBytes
<1>4. ReadOnce' /\ \A r \in Request : HasWork(r)'
  BY <1>1 DEF DInv, ReadOnce, HasWork
<1>5. ASSUME NEW r \in Request
      PROVE  Outcome'[r] = Outcome[r] /\ Untaken'[r] = Untaken[r]
  BY <1>1, <1>2, Seen DEF Images!Loop
<1> QED
  BY <1>1, <1>3, <1>4, <1>5, Unseen DEF Kept

LEMMA DInvInit == Init => DInv /\ Delivery!Init
<1> SUFFICES ASSUME Init PROVE DInv /\ Delivery!Init
  OBVIOUS
<1>1. /\ \A r \in Request : stage[r] = "idle"
      /\ transit = {} /\ disk = [f \in File |-> {}] /\ cdn = [id \in Images!Id |-> {}]
  BY DEF Init, Images!Init
<1>2. OwnBytes /\ ReadOnce /\ \A r \in Request : HasWork(r)
  BY <1>1 DEF OwnBytes, ReadOnce, HasWork, Images!Loop, Images!Uploading
<1>3. Outcome = [r \in Request |-> "idle"] /\ Untaken = [r \in Request |-> {}]
  BY <1>1 DEF Outcome, Untaken, Images!Loop
<1> QED
  BY <1>1, <1>2, <1>3, UInvInit DEF DInv, Delivery!Init, Images!Id

LEMMA DInvStep == DInv /\ [Next]_vars => DInv' /\ [Delivery!Next]_(Delivery!deliveries)
<1> SUFFICES ASSUME DInv, [Next]_vars PROVE DInv' /\ [Delivery!Next]_(Delivery!deliveries)
  OBVIOUS
<1>1. UInv'
  BY UInvStep DEF DInv
<1> SUFFICES Kept' /\ [Delivery!Next]_(Delivery!deliveries)
  BY <1>1 DEF DInv, Kept
<1> USE DEF world, effects, handlers
<1>2. ASSUME NEW s \in Request, Enter(s)
      PROVE  Kept' /\ UNCHANGED Delivery!deliveries
  <2>1. \A t \in Request : pc[t] # "new" => req'[t] = req[t]
    BY <1>2 DEF Enter, DInv, UInv, IInv, TypeOK
  <2> QED
    BY <1>2, <2>1, StillDelivers DEF Enter
<1>3. ASSUME NEW s \in Request,
             LoadPublisher(s) \/ Insert(s) \/ CommitPost(s) \/ Finish(s) \/ Fails(s)
      PROVE  Kept' /\ UNCHANGED Delivery!deliveries
  BY <1>3, StillDelivers DEF LoadPublisher, Insert, CommitPost, Finish, Fails
<1>4. ASSUME NEW s \in Request, VerifyTrip(s)
      PROVE  Kept' /\ [Delivery!Next]_(Delivery!deliveries)
  <2>1. CASE UNCHANGED images
    BY <1>4, <2>1, StillDelivers DEF VerifyTrip
  <2>2. CASE Images!Begin(s, req[s].files)
    <3>1. req[s] \in Content
      BY <1>4 DEF VerifyTrip, DInv, UInv, IInv, Admitted
    <3>2. Files[s] = req[s].files
      BY <3>1, RequestAssumption DEF Files
    <3>3. UNCHANGED Files
      BY <1>4 DEF VerifyTrip, Files
    <3> QED
      BY <2>2, <3>2, <3>3, BeginDelivers
  <2> QED
    BY <1>4, <2>1, <2>2 DEF VerifyTrip
<1>5. ASSUME NEW s \in Request, StoreAudit(s) \/ RejectAudit(s) \/ Announce(s)
      PROVE  Kept' /\ UNCHANGED Delivery!deliveries
  BY <1>5, StillDelivers DEF StoreAudit, RejectAudit, Announce
<1>6. ASSUME NEW s \in Request, Upload(s) \/ UploadFails(s)
      PROVE  Kept' /\ [Delivery!Next]_(Delivery!deliveries)
  <2>1. UNCHANGED Files
    BY <1>6 DEF Upload, UploadFails, Files
  <2> QED
    BY <1>6, <2>1, LookDelivers, OpenDelivers, NoBytesDelivers, WriteDelivers, ReadDelivers, EndsDeliver
    DEF Upload, UploadFails
<1>7. ASSUME Die
      PROVE  Kept' /\ Delivery!Next
  <2>1. UNCHANGED Files
    BY <1>7 DEF Die, Files
  <2> QED
    BY <1>7, <2>1, KilledDelivers DEF Die
<1>8. ASSUME NEW t \in Trip, StoreTrip(t)
      PROVE  Kept' /\ UNCHANGED Delivery!deliveries
  BY <1>8, StillDelivers DEF StoreTrip
<1>9. ASSUME NEW u \in User, ChangeUser(u)
      PROVE  Kept' /\ UNCHANGED Delivery!deliveries
  BY <1>9, StillDelivers DEF ChangeUser
<1>10. CASE Restart
  BY <1>10, StillDelivers DEF Restart
<1>11. CASE UNCHANGED vars
  BY <1>11, StillDelivers DEF vars
<1> QED
  BY <1>2, <1>3, <1>4, <1>5, <1>6, <1>7, <1>8, <1>9, <1>10, <1>11
  DEF Next, Proceed, DieOfDirectory, DieOfDescriptors, DieOfDisk, Crash

LEMMA DeliveryInvariance == Spec => []DInv
<1>1. DInv /\ [Next]_vars => DInv'
  BY DInvStep
<1> QED
  BY <1>1, DInvInit, PTL DEF Spec

-----------------------------------------------------------------------------
(* Theorems.                                                               *)

\* Every variable keeps its type.
THEOREM TypeCorrect == Spec => []TypeOK
<1>1. IInv => TypeOK
  BY DEF IInv
<1> QED
  BY <1>1, Invariance, PTL

\* Nobody stores a post, or uploads an image, about a trip of another user or
\* of none, or without having been active in the handler (post.service.ts 43-92).
THEOREM OwnersLeaveTraces == Spec => []OnlyOwnersLeaveTraces
<1>1. IInv => OnlyOwnersLeaveTraces
  BY DEF IInv, Justified, OnlyOwnersLeaveTraces
<1> QED
  BY <1>1, Invariance, PTL

\* A post announced, or answered with 201, is stored; one refused is not
\* (post.service.ts 94-109).
THEOREM AnswersAreTrue == Spec => []OnlyStoredIsTold
<1>1. IInv => OnlyStoredIsTold
  BY DEF IInv, Stored, OnlyStoredIsTold
<1> QED
  BY <1>1, Invariance, PTL

\* However many uploads miss the directory, it ends the process once, unless it
\* was left half made (cloudinary.ts 27-35).
THEOREM DirectoryRaceEnds == Spec => []DirectoryKillsOnce
<1>1. IInv => DirectoryKillsOnce
  BY DEF IInv, TypeOK, Images!TypeOK, Directory, DirectoryKillsOnce
<1> QED
  BY <1>1, Invariance, PTL

\* Whatever overlaps, a batch that ended well and shares no public id has all its
\* images at the CDN, and nobody else's bytes in them (cloudinary.ts 63-95).
THEOREM UnsharedImagesArrive == Spec => []UnsharedImagesAreTheirs
<1>1. UInv => UnsharedImagesAreTheirs
  BY DEF UInv, Whole, UnsharedImagesAreTheirs
<1> QED
  BY <1>1, BatchInvariance, PTL

\* The uploader implements ImageDelivery: a batch is done only when the CDN has
\* taken each of its images once, and no image has anything in it but what came
\* under its file name (cloudinary.ts 45-95).
THEOREM UploadsDeliver == Spec => DeliverySpec
<1>1. DInv /\ [Next]_vars => [Delivery!Next]_(Delivery!deliveries)
  BY DInvStep
<1>2. Init => Delivery!Init
  BY DInvInit
<1> QED
  BY <1>1, <1>2, DeliveryInvariance, PTL DEF Spec, DeliverySpec, Delivery!Spec

\* The safe half of UploadsEnd: while the process runs, a batch that has not ended
\* has something left to do (cloudinary.ts 66-95).
THEOREM UploadsHaveWork == Spec => [](\A r \in Request : HasWork(r))
<1>1. DInv => \A r \in Request : HasWork(r)
  BY DEF DInv
<1> QED
  BY <1>1, DeliveryInvariance, PTL
=============================================================================
