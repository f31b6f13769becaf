------------------------------ MODULE Accounts ------------------------------
(***************************************************************************)
(* The trip service as the one process it is: the replication of users     *)
(* (module UserReplica) and the requests for trips (module TripCreation)   *)
(* share the table of users, and end together when the process dies.  What *)
(* TripCreation leaves to its environment, which users are active and      *)
(* when, is here what the handlers of the replica commit.                  *)
(***************************************************************************)
EXTENDS UserReplica

CONSTANTS Request, Header, Trial, Place, Ports, Flaw, NoRequest, MaxConnections,   \* Ports: Known
          MaxListed

VARIABLES
  stage, req, code, blacklist, trips, log, conn, open, blocked, seen, errors,
            \* the requests: in TripCreation stage is pc, log audit, errors faults
  changes,  \* how often a user has been deleted, restored or created
  crashes,
  late      \* requests that had still to load their publisher when the
            \* deletion of that user was settled

own == <<stage, req, code, blacklist, trips, log, conn, open, blocked, errors>>

accountsVars == <<vars, own, seen, changes, crashes, late>>

\* The users that the queries of the requests, all with status TRUE, can find.
active == [u \in User |-> users[u] # NoRow /\ users[u].status]

Trips == INSTANCE TripCreation WITH
           pc <- stage, audit <- log, faults <- errors, up <- proc # "down",
           Known <- Ports, MaxChanges <- MaxEvents, MaxCrashes <- MaxOutages

AccountsInit == Init /\ Trips!Init /\ late = {}

-----------------------------------------------------------------------------
\* The histories that depend on the active users.
Observe ==
  /\ changes' = IF active' = active THEN changes ELSE changes + 1
  /\ seen' = seen \cup {r \in Request :
                          /\ stage[r] \in Trips!Handled
                          /\ active'[req[r].user] /\ ~active[req[r].user]}

TooLate ==
  {r \in Request : /\ stage[r] \in Trips!Guarded \cup {"publisher"}
                   /\ DeletionSettled(req[r].user)}

Remember == late' = late \cup TooLate'

\* The user service and the handlers of its events; no request moves.
Replicate ==
  /\ \/ UserService
     \/ \E n \in EventId : Handler(n)
     \/ Subscribe
     \/ SubscribeRejected
     \/ BrokerCloses
  /\ Observe
  /\ UNCHANGED <<own, crashes>>

\* A request, or what it has started, goes on; no handler moves.
Serve ==
  /\ UNCHANGED vars
  /\ \/ \E r \in Request :
          \/ Trips!Arrive(r)
          \/ Trips!Proceed(r)
          \/ Trips!RouteAnswers(r)
          \/ Trips!Fails(r)
          \/ Trips!StoreAudit(r)
          \/ Trips!RejectAudit(r)
          \/ Trips!Announce(r)
     \/ \E u \in User : Trips!SignOut(u)

\* Mutant of Die: the subscriber is a process of its own, and dies alone.
DieApart == Crash /\ UNCHANGED <<own, seen, changes, crashes>>

\* Requests and handlers end together.
Die == Crash /\ Trips!Crash

StartAgain == Restart /\ Trips!Restart

AccountsNext == (Replicate \/ Serve \/ Die \/ StartAgain) /\ Remember

AccountsSpec == AccountsInit /\ [][AccountsNext]_accountsVars

\* A query of a handler or a request is answered or fails, the broker delivers
\* what it holds, and the timer of the route plan fires.  Nothing is promised of
\* the user service, the location service, the client or a restart.
Continue(r) == UNCHANGED vars /\ Trips!Proceed(r)

AccountsFairSpec ==
  /\ AccountsSpec
  /\ \A n \in EventId : WF_vars(Progress(n))
  /\ \A r \in Request : WF_own(Continue(r))

-----------------------------------------------------------------------------
(* Properties.                                                             *)

\* Seen from the requests, the replica does to the users what TripCreation
\* expects of its environment: everything shown there holds of the real table
\* of users, with its stale copies, lost events and restarts
\* (user.repository.ts 20-120, trip.service.ts 54-131).
TripsSpec == Trips!Spec

\* Once the replica has settled the deletion of a user, no request that has
\* still to load its publisher stores a trip of that user, whatever its guard
\* saw, and whatever events, failures and restarts follow
\* (user.repository.ts 110-120, trip.service.ts 66).
SettledDeletionsHold == trips \cap late = {}

\* Whoever has published a trip was created by an event of the user service that
\* reached this process and whose save was audited: no other event, and no token,
\* makes a publisher (user.repository.ts 20-29, 71-73, jwt-strategy.ts 45-51).
PublishersWereCreated ==
  \A r \in trips : \E n \in EventsOf(req[r].user) :
    event[n].type = "create" /\ audit[n] # "none"

\* Every request is answered unless the process dies, while handlers go on beside
\* it, and even when the location service is silent (route-plan.provider.ts 31).
Answered == \A r \in Request : stage[r] = "blacklist" ~> stage[r] \in {"answered", "dead"}
=============================================================================
