----------------------------- MODULE UserEvents -----------------------------
(***************************************************************************)
(* The vocabulary of user replication: the events the user service         *)
(* broadcasts, the columns of the replicated user row that they touch, and *)
(* what each event assigns.  A row keeps the columns that behave           *)
(* differently: "status" (FALSE once soft deleted), "cred" (the salt and   *)
(* password pair, declared select: false) and "info" (standing for gender, *)
(* age, desc and profileImage, which the code treats alike).  Credentials  *)
(* and infos are numbers: a fresh one is the number of the event carrying  *)
(* it.                                                                     *)
(***************************************************************************)
EXTENDS Naturals

CONSTANTS
  User,      \* user ids
  NoRow      \* the absence of a row

Hidden == 0  \* a select: false column of an entity that was loaded by a query
Blank  == 0  \* an optional info field that the event leaves out

EventType == {"create", "password", "info", "delete"}

Event == [type : EventType, user : User, value : Nat]

Row == [status : BOOLEAN, cred : Nat, info : Nat]

ASSUME NoRowAssumption == NoRow \notin Row

\* Mutant of Select: credentials are selected like any column.
SelectAll(row) == row

\* The entity that findOne, and the lookup made by save, return for a row.
Select(row) == [status |-> row.status, cred |-> Hidden, info |-> row.info]

\* createUser: new User() with the properties of the event assigned to it.
NewUser(e) == [status |-> TRUE, cred |-> e.value, info |-> e.value]

\* Mutants of Assign: the entity is built anew, with the default status; the
\* credentials are deleted from it, as getUserById does.
AssignToNew(user, e) ==
  [status |-> e.type # "delete",
   cred   |-> IF e.type = "password" THEN e.value ELSE user.cred,
   info   |-> IF e.type = "info" /\ e.value # Blank THEN e.value ELSE user.info]

AssignToStripped(user, e) ==
  [status |-> user.status /\ e.type # "delete",
   info   |-> IF e.type = "info" /\ e.value # Blank THEN e.value ELSE user.info]

\* The assignments the three update handlers make to the entity they loaded.
Assign(user, e) ==
  [status |-> user.status /\ e.type # "delete",
   cred   |-> IF e.type = "password" THEN e.value ELSE user.cred,
   info   |-> IF e.type = "info" /\ e.value # Blank THEN e.value ELSE user.info]

\* What an event means for a row: the reading both sides of the replication
\* share.
Effect(row, e) == IF e.type = "create" THEN NewUser(e) ELSE Assign(row, e)
=============================================================================
