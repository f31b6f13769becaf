-------------------------- MODULE ReadingByIdProofs --------------------------
(***************************************************************************)
(* Proofs about ReadingById: what was there is found, and only by users    *)
(* who were active.                                                        *)
(***************************************************************************)
EXTENDS ReadingById, TLAPS

\* What a stage has established about its request.
Admitted(r) ==
  /\ pc[r] # "new" => req[r] \in Request
  /\ pc[r] \in Waiting /\ active[req[r].user] => r \in seen
  /\ pc[r] \in {"handler", "row"} => r \in seen
  /\ pc[r] \in {"publisher", "row"} => req[r].id # Malformed
  /\ pc[r] = "publisher" => req[r].of = "trip"
  /\ code[r] # 0 => pc[r] = "answered"

\* An answer shows what there was, and was given to a user who was active.
Complete(r) ==
  /\ known[r] \subseteq stored
  /\ code[r] = 200 /\ req[r].of = "trip"
       => {p \in known[r] \cap Post : About[p] = req[r].id} \subseteq shown[r]
  /\ code[r] = 404 /\ req[r].id \in known[r]
       => req[r].of = "post" /\ req[r].user # Owner[About[req[r].id]]
  /\ code[r] \in {200, 404} => r \in seen

IInv ==
  /\ TypeOK
  /\ \A r \in Reader : Admitted(r) /\ Complete(r)

LEMMA InvInit == Init => IInv
BY RequestAssumption, BoundsAssumption DEF Init, IInv, TypeOK, Admitted, Complete, Waiting

\* A request that a step does not touch stays as it was known.
LEMMA Frame ==
  ASSUME IInv, NEW r \in Reader, stored \subseteq stored',
         UNCHANGED <<active>>, r \in seen => r \in seen',
         pc'[r] = pc[r], req'[r] = req[r], code'[r] = code[r], shown'[r] = shown[r],
         known'[r] = known[r]
  PROVE  Admitted(r)' /\ Complete(r)'
BY DEF IInv, Admitted, Complete

\* An answer has the types, whatever rows it shows.
LEMMA AnswerTyped ==
  ASSUME TypeOK, NEW r \in Reader, NEW status \in {0, 200, 400, 401, 403, 404, 500},
         NEW rows \in SUBSET (Trip \cup Post), Answer(r, status, rows)
  PROVE  /\ pc' \in [Reader -> {"new", "answered"} \cup Waiting]
         /\ code' \in [Reader -> {0, 200, 400, 401, 403, 404, 500}]
         /\ shown' \in [Reader -> SUBSET (Trip \cup Post)]
BY DEF Answer, TypeOK

-----------------------------------------------------------------------------
\* Every action preserves the invariant.
LEMMA InvStep == IInv /\ [Next]_vars => IInv'
<1> SUFFICES ASSUME IInv, [Next]_vars PROVE IInv'
  OBVIOUS
<1> USE DEF world
<1>1. ASSUME NEW r \in Reader, Arrive(r)
      PROVE  IInv'
  <2>1. TypeOK'
    BY <1>1, RowAssumption, BoundsAssumption DEF Arrive, GoTo, Saw, IInv, TypeOK, Waiting, Admitted, Request
  <2>2. ASSUME NEW s \in Reader, s # r
        PROVE  Admitted(s)' /\ Complete(s)'
    BY <1>1, <2>2, Frame DEF Arrive, GoTo, Saw, IInv, TypeOK
  <2>3. Admitted(r)' /\ Complete(r)'
    BY <1>1, <2>1, RowAssumption, RequestAssumption DEF Arrive, GoTo, Saw, IInv, TypeOK, Waiting, Admitted, Complete, Request
  <2> QED
    BY <2>1, <2>2, <2>3 DEF IInv
<1>2. ASSUME NEW r \in Reader, FindUser(r)
      PROVE  IInv'
  <2>1. TypeOK'
    BY <1>2, RowAssumption, BoundsAssumption DEF FindUser, GoTo, Refuse, Answer, IInv, TypeOK, Waiting, Admitted, Request
  <2>2. ASSUME NEW s \in Reader, s # r
        PROVE  Admitted(s)' /\ Complete(s)'
    BY <1>2, <2>2, Frame DEF FindUser, GoTo, Refuse, Answer, IInv, TypeOK
  <2>3. Admitted(r)' /\ Complete(r)'
    BY <1>2, <2>1, RowAssumption, RequestAssumption DEF FindUser, GoTo, Refuse, Answer, IInv, TypeOK, Waiting, Admitted, Complete, Request
  <2> QED
    BY <2>1, <2>2, <2>3 DEF IInv
<1>3. ASSUME NEW r \in Reader, Enter(r)
      PROVE  IInv'
  <2>1. TypeOK'
    BY <1>3, RowAssumption, BoundsAssumption DEF Enter, GoTo, Refuse, Answer, Saw, IInv, TypeOK, Waiting, Admitted, Request
  <2>2. ASSUME NEW s \in Reader, s # r
        PROVE  Admitted(s)' /\ Complete(s)'
    BY <1>3, <2>2, Frame DEF Enter, GoTo, Refuse, Answer, Saw, IInv, TypeOK
  <2>3. Admitted(r)' /\ Complete(r)'
    BY <1>3, <2>1, RowAssumption, RequestAssumption DEF Enter, GoTo, Refuse, Answer, Saw, IInv, TypeOK, Waiting, Admitted, Complete, Request
  <2> QED
    BY <2>1, <2>2, <2>3 DEF IInv
<1>4. ASSUME NEW r \in Reader, LoadPublisher(r)
      PROVE  IInv'
  <2>1. TypeOK'
    BY <1>4, RowAssumption, BoundsAssumption DEF LoadPublisher, GoTo, Refuse, Answer, IInv, TypeOK, Waiting, Admitted, Request
  <2>2. ASSUME NEW s \in Reader, s # r
        PROVE  Admitted(s)' /\ Complete(s)'
    BY <1>4, <2>2, Frame DEF LoadPublisher, GoTo, Refuse, Answer, IInv, TypeOK
  <2>3. Admitted(r)' /\ Complete(r)'
    BY <1>4, <2>1, RowAssumption, RequestAssumption DEF LoadPublisher, GoTo, Refuse, Answer, IInv, TypeOK, Waiting, Admitted, Complete, Request
  <2> QED
    BY <2>1, <2>2, <2>3 DEF IInv
<1>5. ASSUME NEW r \in Reader, FindTrip(r)
      PROVE  IInv'
  <2>1. TypeOK'
    <3>1. PICK status \in {200, 404}, rows \in SUBSET (Trip \cup Post) : Answer(r, status, rows)
      <4>1. CASE req[r].id \in stored
        <5>1. {req[r].id} \cup PostsOf(req[r].id) \in SUBSET (Trip \cup Post)
          BY <4>1 DEF PostsOf, IInv, TypeOK
        <5> QED
          BY <1>5, <4>1, <5>1 DEF FindTrip
      <4>2. CASE req[r].id \notin stored
        BY <1>5, <4>2 DEF FindTrip, Refuse
      <4> QED
        BY <4>1, <4>2
    <3>2. UNCHANGED <<req, known, seen, stored, active, changes, faults>>
      BY <1>5 DEF FindTrip
    <3> QED
      BY <3>1, <3>2, AnswerTyped DEF IInv, TypeOK
  <2>2. ASSUME NEW s \in Reader, s # r
        PROVE  Admitted(s)' /\ Complete(s)'
    BY <1>5, <2>2, Frame DEF FindTrip, Refuse, Answer, IInv, TypeOK
  <2>3. Admitted(r)' /\ Complete(r)'
    BY <1>5, <2>1, RowAssumption, RequestAssumption DEF FindTrip, Refuse, Answer, IInv, TypeOK, Waiting, Admitted, Complete, Request, PostsOf
  <2> QED
    BY <2>1, <2>2, <2>3 DEF IInv
<1>6. ASSUME NEW r \in Reader, FindPost(r)
      PROVE  IInv'
  <2>1. TypeOK'
    <3>1. PICK status \in {200, 404}, rows \in SUBSET (Trip \cup Post) : Answer(r, status, rows)
      <4>1. CASE req[r].id \in stored /\ Owner[About[req[r].id]] = req[r].user
        <5>1. {req[r].id} \in SUBSET (Trip \cup Post)
          BY <4>1 DEF IInv, TypeOK
        <5> QED
          BY <1>6, <4>1, <5>1 DEF FindPost
      <4>2. CASE ~(req[r].id \in stored /\ Owner[About[req[r].id]] = req[r].user)
        BY <1>6, <4>2 DEF FindPost, Refuse
      <4> QED
        BY <4>1, <4>2
    <3>2. UNCHANGED <<req, known, seen, stored, active, changes, faults>>
      BY <1>6 DEF FindPost
    <3> QED
      BY <3>1, <3>2, AnswerTyped DEF IInv, TypeOK
  <2>2. ASSUME NEW s \in Reader, s # r
        PROVE  Admitted(s)' /\ Complete(s)'
    BY <1>6, <2>2, Frame DEF FindPost, Refuse, Answer, IInv, TypeOK
  <2>3. Admitted(r)' /\ Complete(r)'
    BY <1>6, <2>1, RowAssumption, RequestAssumption DEF FindPost, Refuse, Answer, IInv, TypeOK, Waiting, Admitted, Complete, Request
  <2> QED
    BY <2>1, <2>2, <2>3 DEF IInv
<1>7. ASSUME NEW r \in Reader, Fails(r)
      PROVE  IInv'
  <2>1. TypeOK'
    BY <1>7, RowAssumption, BoundsAssumption DEF Fails, Refuse, Answer, IInv, TypeOK, Waiting, Admitted, Request
  <2>2. ASSUME NEW s \in Reader, s # r
        PROVE  Admitted(s)' /\ Complete(s)'
    BY <1>7, <2>2, Frame DEF Fails, Refuse, Answer, IInv, TypeOK
  <2>3. Admitted(r)' /\ Complete(r)'
    BY <1>7, <2>1, RowAssumption, RequestAssumption DEF Fails, Refuse, Answer, IInv, TypeOK, Waiting, Admitted, Complete, Request
  <2> QED
    BY <2>1, <2>2, <2>3 DEF IInv
<1>8. ASSUME NEW t \in Trip, StoreTrip(t)
      PROVE  IInv'
  <2>1. TypeOK'
    BY <1>8 DEF StoreTrip, requests, IInv, TypeOK
  <2> QED
    BY <1>8, <2>1, Frame DEF StoreTrip, requests, IInv
<1>9. ASSUME NEW p \in Post, StorePost(p)
      PROVE  IInv'
  <2>1. TypeOK'
    BY <1>9 DEF StorePost, requests, IInv, TypeOK
  <2> QED
    BY <1>9, <2>1, Frame DEF StorePost, requests, IInv
<1>10. ASSUME NEW u \in User, ChangeUser(u)
      PROVE  IInv'
  <2>1. TypeOK'
    BY <1>10, BoundsAssumption DEF ChangeUser, requests, IInv, TypeOK
  <2>2. ASSUME NEW r \in Reader
        PROVE  Admitted(r)' /\ Complete(r)'
    BY <1>10, <2>1, RequestAssumption
       DEF ChangeUser, requests, IInv, TypeOK, Admitted, Complete, Waiting, Request
  <2> QED
    BY <2>1, <2>2 DEF IInv
<1>11. CASE UNCHANGED vars
  BY <1>11 DEF vars, IInv, TypeOK, Admitted, Complete
<1> QED
  BY <1>1, <1>2, <1>3, <1>4, <1>5, <1>6, <1>7, <1>8, <1>9, <1>10, <1>11 DEF Next

LEMMA Invariance == Spec => []IInv
BY InvInit, InvStep, PTL DEF Spec

-----------------------------------------------------------------------------
(* Theorems.                                                               *)

\* Every variable keeps its type.
THEOREM TypeCorrect == Spec => []TypeOK
<1>1. IInv => TypeOK
  BY DEF IInv
<1> QED
  BY <1>1, Invariance, PTL

\* A trip or an own post that was there when the request arrived is found, and
\* the trip with every post it had then (trip.repository.ts 64-74).
THEOREM RowsAreFound == Spec => []NothingGoesMissing
<1>1. IInv => NothingGoesMissing
  BY DEF IInv, Complete, NothingGoesMissing
<1> QED
  BY <1>1, Invariance, PTL

\* Only users who have been active since learn what is stored
\* (trip.service.ts 141-165).
THEOREM OnlyActiveUsersRead == Spec => []DeletedUsersReadNothing
<1>1. IInv => DeletedUsersReadNothing
  BY DEF IInv, Complete, DeletedUsersReadNothing
<1> QED
  BY <1>1, Invariance, PTL
=============================================================================
