------------------------- MODULE TripCreationProofs -------------------------
(***************************************************************************)
(* Proofs about TripCreation, for any sets of requests, users and places   *)
(* and any limits.  IInv says what has been established by the time a      *)
(* request waits at a stage.                                               *)
(***************************************************************************)
EXTENDS TripCreation, TLAPS

\* The publisher has been loaded.
Loaded == {"locations", "route", "insert", "commit", "ack"}

\* What request r has been found to be: its user was active in its handler, and
\* its header was not blacklisted when it came.
Admitted(r) ==
  /\ pc[r] # "new" => req[r] \in Content
  /\ pc[r] = "publisher" /\ active[req[r].user] => r \in seen
  /\ pc[r] \in Loaded => r \in seen
  /\ r \in blocked => Listed(req[r]) /\ pc[r] \in {"blacklist", "answered", "dead"}

\* What request r has left behind: its trip, announcement and answer.
Stored(r) ==
  /\ code[r] # 0 => pc[r] = "answered"
  /\ pc[r] = "ack" => r \in trips
  /\ r \in trips =>
       /\ pc[r] \in {"ack", "answered", "dead"}
       /\ code[r] \in {0, 201, 500}
       /\ r \in seen /\ r \notin blocked
  /\ code[r] = 201 => r \in trips /\ conn[r] # "idle"
  /\ conn[r] # "idle" => r \in trips

IInv ==
  /\ TypeOK
  /\ \A r \in Request : Admitted(r) /\ Stored(r)

-----------------------------------------------------------------------------
LEMMA InvInit == Init => IInv
BY BoundsAssumption
DEF Init, IInv, TypeOK, Admitted, Stored, Loaded, Waiting, Guarded, Handled, Code,
    Trail!Init, Trail!TypeOK, Trail!AuditState,
    Broker!Init, Broker!TypeOK, Broker!ConnState

\* The steps of the audit rows and of the announcements keep their types; an
\* announcement is begun by Start alone.
LEMMA AsideSteps ==
  ASSUME Trail!TypeOK, Broker!TypeOK, NEW r \in Request
  PROVE  /\ Trail!Fire(r) \/ Trail!Store(r) \/ Trail!Reject(r)
              => Trail!TypeOK'
         /\ Broker!Start(r)
              => /\ Broker!TypeOK'
                 /\ conn'[r] = "connecting"
                 /\ \A s \in Request \ {r} : conn'[s] = conn[s]
         /\ Broker!Connected(r) \/ Broker!ConnectFails(r) \/ Broker!Opened(r) \/ Broker!ChannelFails(r)
              => Broker!TypeOK' /\ \A s \in Request : conn[s] = "idle" <=> conn'[s] = "idle"
BY DEF Trail!TypeOK, Trail!AuditState, Trail!Fire, Trail!Store, Trail!Reject, Trail!Wipe,
       Broker!TypeOK, Broker!ConnState, Broker!Start, Broker!Connected, Broker!ConnectFails,
       Broker!Opened, Broker!ChannelFails, Broker!Reset

\* The same of the death of the process.
LEMMA DeathSteps ==
  ASSUME Trail!TypeOK, Broker!TypeOK, Trail!Wipe, Broker!Reset
  PROVE  /\ Trail!TypeOK' /\ Broker!TypeOK'
         /\ \A s \in Request : conn[s] = "idle" <=> conn'[s] = "idle"
BY DEF Trail!TypeOK, Trail!AuditState, Trail!Wipe, Broker!TypeOK, Broker!ConnState, Broker!Reset

\* A request that a step does not touch stays as it was known.
LEMMA Frame ==
  ASSUME IInv, NEW s \in Request,
         pc'[s] = pc[s], req'[s] = req[s], code'[s] = code[s],
         active' = active, blacklist \subseteq blacklist',
         s \in seen => s \in seen', s \in blocked' <=> s \in blocked,
         s \in trips' <=> s \in trips, conn[s] = "idle" <=> conn'[s] = "idle"
  PROVE  Admitted(s)' /\ Stored(s)'
BY DEF IInv, Admitted, Stored, Listed

LEMMA InvStep == IInv /\ [Next]_vars => IInv'
<1> SUFFICES ASSUME IInv, [Next]_vars PROVE IInv'
  OBVIOUS
<1> USE DEF world, effects, aside, Listed
<1>1. ASSUME NEW r \in Request, Arrive(r)
      PROVE  IInv'
  <2>2. TypeOK'
    BY <1>1, BoundsAssumption DEF Arrive, GoTo, Answer, IInv, TypeOK, Waiting, Guarded, Handled, Code, Trail!TypeOK, Broker!TypeOK
  <2>3. ASSUME NEW s \in Request, s # r
        PROVE  Admitted(s)' /\ Stored(s)'
    BY <1>1, <2>3, Frame DEF Arrive, GoTo, Answer, IInv, TypeOK
  <2>4. Admitted(r)' /\ Stored(r)'
    <3>1. PICK q \in Content :
            /\ req' = [req EXCEPT ![r] = q]
            /\ blocked' = IF <<q.user, q.header>> \in blacklist THEN blocked \cup {r} ELSE blocked
            /\ IF q.flaw = "expired" THEN Answer(r, 401) ELSE GoTo(r, "blacklist")
      BY <1>1 DEF Arrive
    <3>2. /\ pc[r] = "new" /\ code[r] = 0 /\ r \notin trips /\ r \notin blocked /\ conn[r] = "idle"
          /\ trips' = trips /\ conn' = conn /\ blacklist' = blacklist
      BY <1>1 DEF Arrive, IInv, TypeOK, Code, Admitted, Stored
    <3>3. req'[r] = q /\ (r \in blocked' => <<q.user, q.header>> \in blacklist)
      BY <3>1, <3>2 DEF IInv, TypeOK
    <3>4. \/ pc'[r] = "blacklist" /\ code'[r] = 0
          \/ pc'[r] = "answered" /\ code'[r] = 401
      BY <3>1, <3>2 DEF GoTo, Answer, IInv, TypeOK
    <3> QED
      BY <3>2, <3>3, <3>4 DEF Admitted, Stored, Loaded
  <2> QED
    BY <2>2, <2>3, <2>4 DEF IInv
<1>2. ASSUME NEW r \in Request, CheckBlacklist(r)
      PROVE  IInv'
  <2>2. TypeOK'
    BY <1>2, BoundsAssumption DEF CheckBlacklist, GoTo, Answer, IInv, TypeOK, Waiting, Guarded, Handled, Code, Trail!TypeOK, Broker!TypeOK
  <2>3. ASSUME NEW s \in Request, s # r
        PROVE  Admitted(s)' /\ Stored(s)'
    BY <1>2, <2>3, Frame DEF CheckBlacklist, GoTo, Answer, IInv, TypeOK
  <2>4. Admitted(r)' /\ Stored(r)'
    BY <1>2, <2>2 DEF CheckBlacklist, GoTo, Answer, IInv, TypeOK, Waiting, Guarded, Handled, Code, Content, Admitted, Stored, Loaded
  <2> QED
    BY <2>2, <2>3, <2>4 DEF IInv
<1>3. ASSUME NEW r \in Request, FindUser(r)
      PROVE  IInv'
  <2>2. TypeOK'
    BY <1>3, BoundsAssumption DEF FindUser, GoTo, Answer, IInv, TypeOK, Waiting, Guarded, Handled, Code, Trail!TypeOK, Broker!TypeOK
  <2>3. ASSUME NEW s \in Request, s # r
        PROVE  Admitted(s)' /\ Stored(s)'
    BY <1>3, <2>3, Frame DEF FindUser, GoTo, Answer, IInv, TypeOK
  <2>4. Admitted(r)' /\ Stored(r)'
    BY <1>3, <2>2 DEF FindUser, GoTo, Answer, IInv, TypeOK, Waiting, Guarded, Handled, Code, Content, Admitted, Stored, Loaded
  <2> QED
    BY <2>2, <2>3, <2>4 DEF IInv
<1>4. ASSUME NEW r \in Request, Enter(r)
      PROVE  IInv'
  <2>2. TypeOK'
    BY <1>4, BoundsAssumption DEF Enter, GoTo, Answer, IInv, TypeOK, Waiting, Guarded, Handled, Code, Trail!TypeOK, Broker!TypeOK
  <2>3. ASSUME NEW s \in Request, s # r
        PROVE  Admitted(s)' /\ Stored(s)'
    BY <1>4, <2>3, Frame DEF Enter, GoTo, Answer, IInv, TypeOK
  <2>4. Admitted(r)' /\ Stored(r)'
    BY <1>4, <2>2 DEF Enter, GoTo, Answer, IInv, TypeOK, Waiting, Guarded, Handled, Code, Content, Admitted, Stored, Loaded
  <2> QED
    BY <2>2, <2>3, <2>4 DEF IInv
<1>5. ASSUME NEW r \in Request, LoadPublisher(r)
      PROVE  IInv'
  <2>2. TypeOK'
    BY <1>5, BoundsAssumption DEF LoadPublisher, GoTo, Answer, IInv, TypeOK, Waiting, Guarded, Handled, Code, Trail!TypeOK, Broker!TypeOK
  <2>3. ASSUME NEW s \in Request, s # r
        PROVE  Admitted(s)' /\ Stored(s)'
    BY <1>5, <2>3, Frame DEF LoadPublisher, GoTo, Answer, IInv, TypeOK
  <2>4. Admitted(r)' /\ Stored(r)'
    BY <1>5, <2>2 DEF LoadPublisher, GoTo, Answer, IInv, TypeOK, Waiting, Guarded, Handled, Code, Content, Admitted, Stored, Loaded
  <2> QED
    BY <2>2, <2>3, <2>4 DEF IInv
<1>6. ASSUME NEW r \in Request, LoadLocations(r)
      PROVE  IInv'
  <2>2. TypeOK'
    BY <1>6, BoundsAssumption DEF LoadLocations, GoTo, Answer, IInv, TypeOK, Waiting, Guarded, Handled, Code, Trail!TypeOK, Broker!TypeOK
  <2>3. ASSUME NEW s \in Request, s # r
        PROVE  Admitted(s)' /\ Stored(s)'
    BY <1>6, <2>3, Frame DEF LoadLocations, GoTo, Answer, IInv, TypeOK
  <2>4. Admitted(r)' /\ Stored(r)'
    BY <1>6, <2>2 DEF LoadLocations, GoTo, Answer, IInv, TypeOK, Waiting, Guarded, Handled, Code, Content, Admitted, Stored, Loaded
  <2> QED
    BY <2>2, <2>3, <2>4 DEF IInv
<1>7. ASSUME NEW r \in Request, RouteAnswers(r)
      PROVE  IInv'
  <2>2. TypeOK'
    BY <1>7, BoundsAssumption DEF RouteAnswers, GoTo, IInv, TypeOK, Waiting, Guarded, Handled, Code, Trail!TypeOK, Broker!TypeOK
  <2>3. ASSUME NEW s \in Request, s # r
        PROVE  Admitted(s)' /\ Stored(s)'
    BY <1>7, <2>3, Frame DEF RouteAnswers, GoTo, IInv, TypeOK
  <2>4. Admitted(r)' /\ Stored(r)'
    <3>1. /\ pc[r] = "route" /\ pc'[r] = "insert"
          /\ UNCHANGED <<req, code, trips, conn, blocked, seen>>
      BY <1>7 DEF RouteAnswers, GoTo, IInv, TypeOK
    <3>2. /\ req[r] \in Content /\ r \in seen /\ r \notin blocked /\ r \notin trips
          /\ code[r] = 0 /\ conn[r] = "idle"
      BY <3>1 DEF IInv, Admitted, Stored, Loaded
    <3> QED
      BY <3>1, <3>2 DEF Admitted, Stored, Loaded
  <2> QED
    BY <2>2, <2>3, <2>4 DEF IInv
<1>8. ASSUME NEW r \in Request, RouteTimesOut(r)
      PROVE  IInv'
  <2>2. TypeOK'
    BY <1>8, BoundsAssumption DEF RouteTimesOut, Answer, IInv, TypeOK, Waiting, Guarded, Handled, Code, Trail!TypeOK, Broker!TypeOK
  <2>3. ASSUME NEW s \in Request, s # r
        PROVE  Admitted(s)' /\ Stored(s)'
    BY <1>8, <2>3, Frame DEF RouteTimesOut, Answer, IInv, TypeOK
  <2>4. Admitted(r)' /\ Stored(r)'
    BY <1>8, <2>2 DEF RouteTimesOut, Answer, IInv, TypeOK, Waiting, Guarded, Handled, Code, Content, Admitted, Stored, Loaded
  <2> QED
    BY <2>2, <2>3, <2>4 DEF IInv
<1>9. ASSUME NEW r \in Request, Insert(r)
      PROVE  IInv'
  <2>1. Trail!TypeOK' /\ Broker!TypeOK'
    BY <1>9, AsideSteps DEF Insert, IInv, TypeOK, Trail!TypeOK, Broker!TypeOK
  <2>2. TypeOK'
    BY <1>9, <2>1, BoundsAssumption DEF Insert, GoTo, IInv, TypeOK, Waiting, Guarded, Handled, Code
  <2>3. ASSUME NEW s \in Request, s # r
        PROVE  Admitted(s)' /\ Stored(s)'
    BY <1>9, <2>3, AsideSteps, Frame DEF Insert, GoTo, IInv, TypeOK
  <2>4. Admitted(r)' /\ Stored(r)'
    BY <1>9 DEF Insert, GoTo, IInv, TypeOK, Admitted, Stored, Loaded
  <2> QED
    BY <2>2, <2>3, <2>4 DEF IInv
<1>10. ASSUME NEW r \in Request, CommitTrip(r)
      PROVE  IInv'
  <2>2. TypeOK'
    BY <1>10, BoundsAssumption DEF CommitTrip, GoTo, IInv, TypeOK, Waiting, Guarded, Handled, Code, Trail!TypeOK, Broker!TypeOK
  <2>3. ASSUME NEW s \in Request, s # r
        PROVE  Admitted(s)' /\ Stored(s)'
    BY <1>10, <2>3, Frame DEF CommitTrip, GoTo, IInv, TypeOK
  <2>4. Admitted(r)' /\ Stored(r)'
    <3>1. /\ pc[r] = "commit" /\ pc'[r] = "ack" /\ r \in trips'
          /\ UNCHANGED <<req, code, conn, blocked, seen>>
      BY <1>10 DEF CommitTrip, GoTo, IInv, TypeOK
    <3>2. /\ req[r] \in Content /\ r \in seen /\ r \notin blocked
          /\ code[r] = 0 /\ conn[r] = "idle"
      BY <3>1 DEF IInv, Admitted, Stored, Loaded
    <3> QED
      BY <3>1, <3>2 DEF Admitted, Stored, Loaded
  <2> QED
    BY <2>2, <2>3, <2>4 DEF IInv
<1>11. ASSUME NEW r \in Request, Finish(r)
      PROVE  IInv'
  <2>1. Trail!TypeOK' /\ Broker!TypeOK'
    BY <1>11, AsideSteps DEF Finish, IInv, TypeOK, Trail!TypeOK, Broker!TypeOK
  <2>2. TypeOK'
    BY <1>11, <2>1, BoundsAssumption DEF Finish, Answer, IInv, TypeOK, Waiting, Guarded, Handled, Code
  <2>3. ASSUME NEW s \in Request, s # r
        PROVE  Admitted(s)' /\ Stored(s)'
    BY <1>11, <2>3, AsideSteps, Frame DEF Finish, Answer, IInv, TypeOK
  <2>4. Admitted(r)' /\ Stored(r)'
    BY <1>11, <2>2, AsideSteps DEF Finish, Answer, IInv, TypeOK, Waiting, Guarded, Handled, Code, Content, Admitted, Stored, Loaded
  <2> QED
    BY <2>2, <2>3, <2>4 DEF IInv
<1>12. ASSUME NEW r \in Request, Fails(r)
      PROVE  IInv'
  <2>2. TypeOK'
    BY <1>12, BoundsAssumption DEF Fails, Answer, IInv, TypeOK, Waiting, Guarded, Handled, Code, Trail!TypeOK, Broker!TypeOK
  <2>3. ASSUME NEW s \in Request, s # r
        PROVE  Admitted(s)' /\ Stored(s)'
    BY <1>12, <2>3, Frame DEF Fails, Answer, IInv, TypeOK
  <2>4. Admitted(r)' /\ Stored(r)'
    BY <1>12, <2>2 DEF Fails, Answer, IInv, TypeOK, Waiting, Guarded, Handled, Code, Content, Admitted, Stored, Loaded
  <2> QED
    BY <2>2, <2>3, <2>4 DEF IInv
<1>13. ASSUME NEW r \in Request, StoreAudit(r)
      PROVE  IInv'
  <2>1. Trail!TypeOK' /\ Broker!TypeOK'
    BY <1>13, AsideSteps DEF StoreAudit, IInv, TypeOK, Trail!TypeOK, Broker!TypeOK
  <2>2. TypeOK'
    BY <1>13, <2>1, BoundsAssumption DEF StoreAudit, IInv, TypeOK, Waiting, Guarded, Handled, Code
  <2>3. ASSUME NEW s \in Request
        PROVE  Admitted(s)' /\ Stored(s)'
    BY <1>13, <2>3, AsideSteps, Frame DEF StoreAudit, IInv, TypeOK
  <2> QED
    BY <2>2, <2>3 DEF IInv
<1>14. ASSUME NEW r \in Request, RejectAudit(r)
      PROVE  IInv'
  <2>1. Trail!TypeOK' /\ Broker!TypeOK'
    BY <1>14, AsideSteps DEF RejectAudit, IInv, TypeOK, Trail!TypeOK, Broker!TypeOK
  <2>2. TypeOK'
    BY <1>14, <2>1, BoundsAssumption DEF RejectAudit, IInv, TypeOK, Waiting, Guarded, Handled, Code
  <2>3. ASSUME NEW s \in Request
        PROVE  Admitted(s)' /\ Stored(s)'
    BY <1>14, <2>3, AsideSteps, Frame DEF RejectAudit, IInv, TypeOK
  <2> QED
    BY <2>2, <2>3 DEF IInv
<1>15. ASSUME NEW r \in Request, Connect(r)
      PROVE  IInv'
  <2>1. Trail!TypeOK' /\ Broker!TypeOK'
    BY <1>15, AsideSteps DEF Connect, IInv, TypeOK, Trail!TypeOK
  <2>2. TypeOK'
    BY <1>15, <2>1, BoundsAssumption DEF Connect, IInv, TypeOK, Waiting, Guarded, Handled, Code
  <2>3. ASSUME NEW s \in Request
        PROVE  Admitted(s)' /\ Stored(s)'
    BY <1>15, <2>3, AsideSteps, Frame DEF Connect, IInv, TypeOK
  <2> QED
    BY <2>2, <2>3 DEF IInv
<1>16. ASSUME NEW r \in Request, ConnectRefused(r)
      PROVE  IInv'
  <2>1. Trail!TypeOK' /\ Broker!TypeOK'
    BY <1>16, AsideSteps DEF ConnectRefused, IInv, TypeOK, Trail!TypeOK
  <2>2. TypeOK'
    BY <1>16, <2>1, BoundsAssumption DEF ConnectRefused, IInv, TypeOK, Waiting, Guarded, Handled, Code
  <2>3. ASSUME NEW s \in Request
        PROVE  Admitted(s)' /\ Stored(s)'
    BY <1>16, <2>3, AsideSteps, Frame DEF ConnectRefused, IInv, TypeOK
  <2> QED
    BY <2>2, <2>3 DEF IInv
<1>17. ASSUME NEW r \in Request, Send(r)
      PROVE  IInv'
  <2>1. Trail!TypeOK' /\ Broker!TypeOK'
    BY <1>17, AsideSteps DEF Send, IInv, TypeOK, Trail!TypeOK
  <2>2. TypeOK'
    BY <1>17, <2>1, BoundsAssumption DEF Send, IInv, TypeOK, Waiting, Guarded, Handled, Code
  <2>3. ASSUME NEW s \in Request
        PROVE  Admitted(s)' /\ Stored(s)'
    BY <1>17, <2>3, AsideSteps, Frame DEF Send, IInv, TypeOK
  <2> QED
    BY <2>2, <2>3 DEF IInv
<1>18. ASSUME NEW r \in Request, SendFails(r)
      PROVE  IInv'
  <2>1. Trail!TypeOK' /\ Broker!TypeOK'
    BY <1>18, AsideSteps DEF SendFails, IInv, TypeOK, Trail!TypeOK
  <2>2. TypeOK'
    BY <1>18, <2>1, BoundsAssumption DEF SendFails, IInv, TypeOK, Waiting, Guarded, Handled, Code
  <2>3. ASSUME NEW s \in Request
        PROVE  Admitted(s)' /\ Stored(s)'
    BY <1>18, <2>3, AsideSteps, Frame DEF SendFails, IInv, TypeOK
  <2> QED
    BY <2>2, <2>3 DEF IInv
<1>19. ASSUME NEW u \in User, SignOut(u)
      PROVE  IInv'
  <2>1. TypeOK'
    BY <1>19 DEF SignOut, IInv, TypeOK, Trail!TypeOK, Broker!TypeOK
  <2>2. ASSUME NEW s \in Request
        PROVE  Admitted(s)' /\ Stored(s)'
    BY <1>19, Frame DEF SignOut
  <2> QED
    BY <2>1, <2>2 DEF IInv
<1>20. ASSUME NEW u \in User, ChangeUser(u)
      PROVE  IInv'
  <2>1. TypeOK'
    BY <1>20, BoundsAssumption DEF ChangeUser, IInv, TypeOK, Trail!TypeOK, Broker!TypeOK
  <2>2. ASSUME NEW s \in Request
        PROVE  Admitted(s)' /\ Stored(s)'
    BY <1>20, <2>1 DEF ChangeUser, IInv, TypeOK, Content, Handled, Admitted, Stored
  <2> QED
    BY <2>1, <2>2 DEF IInv
<1>21. CASE Crash
  <2>1. Trail!TypeOK' /\ Broker!TypeOK'
    BY <1>21, DeathSteps DEF Crash, IInv, TypeOK
  <2>2. TypeOK'
    <3>1. pc' \in [Request -> {"new", "answered", "dead"} \cup Waiting]
      BY <1>21 DEF Crash, IInv, TypeOK
    <3>2. up' \in BOOLEAN
      BY <1>21 DEF Crash
    <3>3. crashes' \in 0..MaxCrashes
      <4>1. crashes \in 0..MaxCrashes
        BY DEF IInv, TypeOK
      <4>2. crashes < MaxCrashes /\ crashes' = crashes + 1
        BY <1>21 DEF Crash
      <4> QED
        BY <4>1, <4>2, BoundsAssumption
    <3>4. UNCHANGED <<req, code, active, blacklist, trips, blocked, seen, faults, changes>>
      BY <1>21 DEF Crash
    <3> QED
      BY <2>1, <3>1, <3>2, <3>3, <3>4 DEF IInv, TypeOK
  <2>3. ASSUME NEW s \in Request
        PROVE  Admitted(s)' /\ Stored(s)'
    BY <1>21, DeathSteps DEF Crash, IInv, TypeOK, Waiting, Guarded, Handled, Admitted, Stored, Loaded
  <2> QED
    BY <2>2, <2>3 DEF IInv
<1>22. CASE Restart
  BY <1>22, Frame DEF Restart, IInv, TypeOK, Trail!TypeOK, Broker!TypeOK
<1>23. CASE UNCHANGED vars
  BY <1>23, Frame DEF vars, IInv, TypeOK, Trail!TypeOK, Broker!TypeOK
<1> QED
  BY <1>1, <1>2, <1>3, <1>4, <1>5, <1>6, <1>7, <1>8, <1>9, <1>10, <1>11, <1>12, <1>13, <1>14, <1>15, <1>16, <1>17, <1>18, <1>19, <1>20, <1>21, <1>22, <1>23
  DEF Next, Proceed, Announce

LEMMA Invariance == Spec => []IInv
BY InvInit, InvStep, PTL DEF Spec

-----------------------------------------------------------------------------
(* Connections.  Until something fails or the process dies, the open        *)
(* connections are those of the announcements sent or about to be, and an   *)
(* announcement is dropped only when the limit is reached.                  *)

Limited ==
  crashes = 0 /\ faults = 0 =>
    /\ open = {r \in Request : conn[r] \in {"opening", "sent"}}
    /\ Dropped # {} => Broker!Full

\* What a step does to the connections.
LEMMA ConnectionSteps ==
  ASSUME [Next]_vars
  PROVE  \/ UNCHANGED <<conn, open, crashes, faults>>
         \/ /\ UNCHANGED <<crashes, faults>>
            /\ \E r \in Request : \/ Broker!Start(r)
                                  \/ Broker!Connected(r)
                                  \/ Broker!Full /\ Broker!ConnectFails(r)
                                  \/ Broker!Opened(r)
         \/ faults' = faults + 1 /\ faults < MaxFaults
         \/ crashes' = crashes + 1 /\ crashes < MaxCrashes
<1> DEFINE Goal == \/ UNCHANGED <<conn, open, crashes, faults>>
                   \/ /\ UNCHANGED <<crashes, faults>>
                      /\ \E r \in Request : \/ Broker!Start(r)
                                            \/ Broker!Connected(r)
                                            \/ Broker!Full /\ Broker!ConnectFails(r)
                                            \/ Broker!Opened(r)
                   \/ faults' = faults + 1 /\ faults < MaxFaults
                   \/ crashes' = crashes + 1 /\ crashes < MaxCrashes
<1> USE DEF world, effects, aside
<1>1. ASSUME NEW r \in Request, Arrive(r) \/ CheckBlacklist(r) \/ FindUser(r) \/ Enter(r)
      PROVE  Goal
  BY <1>1 DEF Arrive, CheckBlacklist, FindUser, Enter
<1>2. ASSUME NEW r \in Request,
             LoadPublisher(r) \/ LoadLocations(r) \/ RouteAnswers(r) \/ RouteTimesOut(r)
      PROVE  Goal
  BY <1>2 DEF LoadPublisher, LoadLocations, RouteAnswers, RouteTimesOut
<1>3. ASSUME NEW r \in Request,
             Insert(r) \/ CommitTrip(r) \/ Fails(r) \/ StoreAudit(r) \/ RejectAudit(r)
      PROVE  Goal
  BY <1>3 DEF Insert, CommitTrip, Fails, StoreAudit, RejectAudit
<1>4. ASSUME NEW r \in Request, Finish(r) \/ Announce(r)
      PROVE  Goal
  BY <1>4 DEF Finish, Announce, Connect, ConnectRefused, Send, SendFails
<1>5. ASSUME NEW u \in User, SignOut(u) \/ ChangeUser(u)
      PROVE  Goal
  BY <1>5 DEF SignOut, ChangeUser
<1>6. ASSUME Crash \/ Restart \/ UNCHANGED vars
      PROVE  Goal
  BY <1>6 DEF Crash, Restart, vars
<1> HIDE DEF Goal
<1>7. ASSUME NEW r \in Request, Proceed(r) \/ RouteAnswers(r)
      PROVE  Goal
  BY <1>1, <1>2, <1>3, <1>4, <1>7 DEF Proceed
<1>8. Goal
  BY <1>1, <1>3, <1>4, <1>5, <1>6, <1>7 DEF Next
<1> QED
  BY <1>8 DEF Goal

LEMMA LimitedStep ==
  ASSUME IInv, Limited, [Next]_vars
  PROVE  Limited'
<1> USE DEF Limited, Dropped, Broker!TypeOK, Broker!ConnState
<1>1. Broker!TypeOK /\ crashes \in Nat /\ faults \in Nat
  BY BoundsAssumption DEF IInv, TypeOK
<1>2. ASSUME UNCHANGED <<conn, open, crashes, faults>>
      PROVE  Limited'
  BY <1>2 DEF Broker!Full
<1>3. ASSUME NEW r \in Request, UNCHANGED <<crashes, faults>>, Broker!Connected(r)
      PROVE  Limited'
  <2>1. Dropped' = {} \/ ~(crashes = 0 /\ faults = 0)
    BY <1>1, <1>3 DEF Broker!Connected
  <2> QED
    BY <1>1, <1>3, <2>1 DEF Broker!Connected
<1>4. ASSUME NEW r \in Request, UNCHANGED <<crashes, faults>>, Broker!Full, Broker!ConnectFails(r)
      PROVE  Limited'
  BY <1>1, <1>4 DEF Broker!ConnectFails, Broker!Full
<1>5. ASSUME NEW r \in Request, UNCHANGED <<crashes, faults>>, Broker!Start(r) \/ Broker!Opened(r)
      PROVE  Limited'
  BY <1>1, <1>5 DEF Broker!Start, Broker!Opened, Broker!Full
<1>6. ASSUME faults' = faults + 1 \/ crashes' = crashes + 1
      PROVE  Limited'
  BY <1>1, <1>6
<1> QED
  BY <1>2, <1>3, <1>4, <1>5, <1>6, ConnectionSteps

LEMMA Limits == Spec => [](IInv /\ Limited)
<1>1. Init => Limited
  BY DEF Init, Broker!Init, Limited, Dropped
<1> QED
  BY <1>1, LimitedStep, Invariance, PTL DEF Spec

-----------------------------------------------------------------------------
(* Theorems.                                                               *)

\* Every variable keeps its type.
THEOREM TypeCorrect == Spec => []TypeOK
<1>1. IInv => TypeOK
  BY DEF IInv
<1> QED
  BY <1>1, Invariance, PTL

\* A user who is deleted when the handler is entered, and stays so, publishes
\* no trip (user.repository.ts 38-59).
THEOREM NoTripsOfDeletedUsers == Spec => []DeletedUsersPublishNothing
<1>1. IInv => DeletedUsersPublishNothing
  BY DEF IInv, TypeOK, Stored, DeletedUsersPublishNothing
<1> QED
  BY <1>1, Invariance, PTL

\* A request whose header had been blacklisted when it arrived creates nothing
\* (jwt-strategy.ts 39-43).
THEOREM NoTripsOfBlacklistedHeaders == Spec => []BlacklistedCreateNothing
<1>1. IInv => BlacklistedCreateNothing
  BY DEF IInv, TypeOK, Stored, BlacklistedCreateNothing
<1> QED
  BY <1>1, Invariance, PTL

\* Only stored trips are announced (trip.service.ts 116-131).
THEOREM OnlyStoredTripsAnnounced == Spec => []AnnouncedIsStored
<1>1. IInv => AnnouncedIsStored
  BY DEF IInv, Stored, AnnouncedIsStored
<1> QED
  BY <1>1, Invariance, PTL

\* A 201 means that the trip is stored, a 4xx that it is not
\* (trip.service.ts 54-131).
THEOREM AnswersAreTrue == Spec => []AnswerTellsOutcome
<1>1. IInv => AnswerTellsOutcome
  BY DEF IInv, Stored, AnswerTellsOutcome
<1> QED
  BY <1>1, Invariance, PTL

\* A trip answered with 201 has been announced, and before anything fails or
\* dies the announcement is dropped only at the limit, whatever the limit is
\* (trip.service.ts 116-131, publisher.ts 16-31).
THEOREM AnsweredTripsAreAnnounced == Spec => []AnsweredIsAnnounced
<1>1. IInv /\ Limited => AnsweredIsAnnounced
  <2> SUFFICES ASSUME IInv, Limited PROVE AnsweredIsAnnounced
    OBVIOUS
  <2>1. \A r \in Request : code[r] = 201 => conn[r] # "idle"
    BY DEF IInv, Stored
  <2>2. ASSUME faults = 0, crashes = 0, Dropped # {}
        PROVE  Cardinality({r \in Request : conn[r] \in {"opening", "sent"}}) >= MaxConnections
    <3>1. Broker!Full /\ open = {r \in Request : conn[r] \in {"opening", "sent"}}
      BY <2>2 DEF Limited
    <3>2. Broker!Cardinality(open) = Cardinality(open)
      BY DEF Broker!Cardinality, Cardinality
    <3>3. Cardinality(open) >= MaxConnections
      BY <3>1, <3>2 DEF Broker!Full
    <3> QED
      BY <3>1, <3>3
  <2> QED
    BY <2>1, <2>2 DEF AnsweredIsAnnounced
<1> QED
  BY <1>1, Limits, PTL
=============================================================================
