----------------------------- MODULE AuditTrail -----------------------------
(***************************************************************************)
(* The audit subscribers (src/audits): for every entity TypeORM inserts or *)
(* updates, the subscriber of that entity starts an INSERT of one log row. *)
(* The hooks afterInsert and afterUpdate do not return the promise of that *)
(* INSERT, so the save that fired them neither waits for it nor learns     *)
(* that it failed: the row is written later, on a connection of its own,   *)
(* or not at all.                                                          *)
(***************************************************************************)
CONSTANT Save        \* the entity saves whose audit is followed

VARIABLE audit       \* audit[s]: what became of the log row of save s

AuditState == {"none", "pending", "saved", "lost"}

TypeOK == audit \in [Save -> AuditState]

Init == audit = [s \in Save |-> "none"]

\* afterInsert, afterUpdate: the hook starts the INSERT of the log row and
\* returns at once.
Fire(s) ==
  /\ audit[s] = "none"
  /\ audit' = [audit EXCEPT ![s] = "pending"]

\* auditLog.save() succeeds.
Store(s) ==
  /\ audit[s] = "pending"
  /\ audit' = [audit EXCEPT ![s] = "saved"]

\* auditLog.save() fails; the exception rejects a promise nobody holds.
Reject(s) ==
  /\ audit[s] = "pending"
  /\ audit' = [audit EXCEPT ![s] = "lost"]

\* The process dies: an INSERT that had not reached the database never will.
Wipe == audit' = [s \in Save |-> IF audit[s] = "pending" THEN "lost" ELSE audit[s]]
=============================================================================
