----------------------------- MODULE SeedLoader -----------------------------
(***************************************************************************)
(* npm run generate: the script that reads the ports of a DBF file and     *)
(* stores them with their countries.  The loop over the records waits for  *)
(* the country of a port, looking it up and creating it if it is missing,  *)
(* but not for the save of the port.  Runs of the script may overlap, fail *)
(* anywhere and be killed, and the next run begins again at the first      *)
(* record.  Unique indexes refuse a second port of the same name and a     *)
(* second country of the same name and code.                               *)
(*                                                                         *)
(* A loop waits for the query of a country ("find"), its INSERT            *)
(* ("country") and its COMMIT ("commit"); the save of a port waits for its *)
(* INSERT ("insert") and its COMMIT ("commit").                            *)
(***************************************************************************)
EXTENDS Naturals, FiniteSets

CONSTANTS
  Loader,     \* runs of the script
  Size,       \* how many records the file has
  Port,       \* names of ports
  PortOf,     \* PortOf[i]: the port of record i
  Code,       \* codes of countries
  CodeOf,     \* CodeOf[i]: the country of record i
  Listed,     \* the codes country.json lists
  MaxFaults,  \* bound: connections and queries that fail
  MaxKills    \* bound: runs that are killed

Record == 1..Size

ASSUME SizeAssumption == Size \in Nat

ASSUME FileAssumption == PortOf \in [Record -> Port] /\ CodeOf \in [Record -> Code]

ASSUME BoundsAssumption == MaxFaults \in Nat /\ MaxKills \in Nat

VARIABLES
  pc,         \* pc[l]: what the loop of run l waits for
  at,         \* at[l]: the record it has come to
  save,       \* save[l][i]: what became of the save of the port of record i
  ports,      \* ports[p]: the record the stored port p was made of, 0 if none
  countries,  \* the codes of the stored countries
  faults, kills

vars == <<pc, at, save, ports, countries, faults, kills>>

Looping == {"find", "country", "commit"}

\* Why a loop ends early: its country was created by another run, a query
\* failed, or the run was killed.
Broken == {"beaten", "failed", "killed"}

TypeOK ==
  /\ pc \in [Loader -> {"new", "done"} \cup Looping \cup Broken]
  /\ at \in [Loader -> 1..Size + 1]
  /\ save \in [Loader -> [Record -> {"none", "insert", "commit", "saved", "refused", "lost"}]]
  /\ ports \in [Port -> 0..Size]
  /\ countries \in SUBSET Code
  /\ faults \in 0..MaxFaults
  /\ kills \in 0..MaxKills

Init ==
  /\ pc = [l \in Loader |-> "new"]
  /\ at = [l \in Loader |-> 1]
  /\ save = [l \in Loader |-> [i \in Record |-> "none"]]
  /\ ports = [p \in Port |-> 0]
  /\ countries = {}
  /\ faults = 0
  /\ kills = 0

Break(l, why) == pc' = [pc EXCEPT ![l] = why]

Fault == faults < MaxFaults /\ faults' = faults + 1

-----------------------------------------------------------------------------
(* The loop.                                                               *)

\* createConnection, DBFFile.open and readRecords succeed.
Begin(l) ==
  /\ pc[l] = "new"
  /\ pc' = [pc EXCEPT ![l] = IF Size = 0 THEN "done" ELSE "find"]
  /\ UNCHANGED <<at, save, ports, countries, faults, kills>>

\* One of them fails.  When it is the connection, the loop is begun all the
\* same, and no query of it can succeed.
BeginFails(l) ==
  /\ pc[l] = "new"
  /\ Break(l, "failed")
  /\ Fault
  /\ UNCHANGED <<at, save, ports, countries, kills>>

\* The country is known: the save of the port is started, and nobody waits for
\* it; the loop goes on with the next record.
StartSave(l) ==
  /\ save' = [save EXCEPT ![l][at[l]] = "insert"]
  /\ at' = [at EXCEPT ![l] = @ + 1]
  /\ pc' = [pc EXCEPT ![l] = IF at[l] = Size THEN "done" ELSE "find"]

\* A code that is not listed needs no query and gives no country.
SkipCountry(l) ==
  /\ pc[l] = "find"
  /\ CodeOf[at[l]] \notin Listed
  /\ StartSave(l)
  /\ UNCHANGED <<ports, countries, faults, kills>>

\* Mutant of FindCountry: what the query returns is not looked at.
FindNoCountry(l) ==
  /\ pc[l] = "find"
  /\ CodeOf[at[l]] \in Listed
  /\ pc' = [pc EXCEPT ![l] = "country"]
  /\ UNCHANGED <<at, save, ports, countries, faults, kills>>

FindCountry(l) ==
  /\ pc[l] = "find"
  /\ CodeOf[at[l]] \in Listed
  /\ IF CodeOf[at[l]] \in countries
       THEN StartSave(l)
       ELSE /\ pc' = [pc EXCEPT ![l] = "country"]
            /\ UNCHANGED <<at, save>>
  /\ UNCHANGED <<ports, countries, faults, kills>>

\* Mutant of InsertCountry: the save of the country is not awaited.
InsertCountryAndGoOn(l) ==
  /\ pc[l] = "country"
  /\ StartSave(l)
  /\ UNCHANGED <<ports, countries, faults, kills>>

\* The INSERT of the country waits for an open transaction that inserts the
\* same one.  If the country is there then, it is refused, and the exception
\* leaves the loop.  The unique index is over name and code, of which the code
\* decides: the name is the one country.json has for it.
InsertCountry(l) ==
  LET code == CodeOf[at[l]] IN
  /\ pc[l] = "country"
  /\ \A k \in Loader : pc[k] = "commit" => CodeOf[at[k]] # code
  /\ Break(l, IF code \in countries THEN "beaten" ELSE "commit")
  /\ UNCHANGED <<at, save, ports, countries, faults, kills>>

CommitCountry(l) ==
  /\ pc[l] = "commit"
  /\ countries' = countries \cup {CodeOf[at[l]]}
  /\ StartSave(l)
  /\ UNCHANGED <<ports, faults, kills>>

\* A query fails.  A COMMIT of which no answer comes may have been executed.
LoopFails(l) ==
  /\ pc[l] \in Looping
  /\ \/ UNCHANGED countries
     \/ pc[l] = "commit" /\ countries' = countries \cup {CodeOf[at[l]]}
  /\ Break(l, "failed")
  /\ Fault
  /\ UNCHANGED <<at, save, ports, kills>>

-----------------------------------------------------------------------------
(* The saves.                                                              *)

SaveIs(l, i, state) == save' = [save EXCEPT ![l][i] = state]

\* Mutant of InsertPort: were the name the primary key, save would look it up and
\* update the port that is there.
InsertOrUpdatePort(l, i) ==
  /\ save[l][i] = "insert"
  /\ \A k \in Loader, j \in Record : save[k][j] = "commit" => PortOf[j] # PortOf[i]
  /\ SaveIs(l, i, IF CodeOf[i] \in Listed \ countries THEN "refused" ELSE "commit")
  /\ UNCHANGED <<pc, at, ports, countries, faults, kills>>

\* The INSERT of a port waits for an open transaction that inserts the same
\* name.  It is refused if the name is there, or if its country is not.
InsertPort(l, i) ==
  /\ save[l][i] = "insert"
  /\ \A k \in Loader, j \in Record : save[k][j] = "commit" => PortOf[j] # PortOf[i]
  /\ SaveIs(l, i, IF ports[PortOf[i]] # 0 \/ CodeOf[i] \in Listed \ countries
                    THEN "refused" ELSE "commit")
  /\ UNCHANGED <<pc, at, ports, countries, faults, kills>>

\* Mutant of CommitPort: the row is made when the loop has gone on, of the
\* record it has come to.
CommitNextPort(l, i) ==
  /\ save[l][i] = "commit"
  /\ ports' = [ports EXCEPT ![PortOf[i]] = at[l]]
  /\ SaveIs(l, i, "saved")
  /\ UNCHANGED <<pc, at, countries, faults, kills>>

CommitPort(l, i) ==
  /\ save[l][i] = "commit"
  /\ ports' = [ports EXCEPT ![PortOf[i]] = i]
  /\ SaveIs(l, i, "saved")
  /\ UNCHANGED <<pc, at, countries, faults, kills>>

\* The error is logged.
SaveFails(l, i) ==
  /\ save[l][i] \in {"insert", "commit"}
  /\ \/ UNCHANGED ports
     \/ save[l][i] = "commit" /\ ports' = [ports EXCEPT ![PortOf[i]] = i]
  /\ SaveIs(l, i, "lost")
  /\ Fault
  /\ UNCHANGED <<pc, at, countries, kills>>

-----------------------------------------------------------------------------
\* A run is killed.  Any COMMIT it had sent may have been executed.
Kill(l) ==
  LET open == {i \in Record : save[l][i] = "commit"} IN
  /\ pc[l] \notin {"new", "killed"}
  /\ kills < MaxKills
  /\ kills' = kills + 1
  /\ \/ UNCHANGED countries
     \/ pc[l] = "commit" /\ countries' = countries \cup {CodeOf[at[l]]}
  /\ \E executed \in SUBSET open :
       ports' = [p \in Port |-> IF \E i \in executed : PortOf[i] = p
                                  THEN CHOOSE i \in executed : PortOf[i] = p
                                  ELSE ports[p]]
  /\ save' = [save EXCEPT ![l] =
                [i \in Record |-> IF @[i] \in {"insert", "commit"} THEN "lost" ELSE @[i]]]
  /\ Break(l, "killed")
  /\ UNCHANGED <<at, faults>>

-----------------------------------------------------------------------------
Loop(l) ==
  \/ Begin(l)
  \/ SkipCountry(l)
  \/ FindCountry(l)
  \/ InsertCountry(l)
  \/ CommitCountry(l)

SaveStep(l, i) == InsertPort(l, i) \/ CommitPort(l, i)

Next ==
  \E l \in Loader :
    \/ Loop(l)
    \/ BeginFails(l)
    \/ LoopFails(l)
    \/ \E i \in Record : SaveStep(l, i) \/ SaveFails(l, i)
    \/ Kill(l)

Spec == Init /\ [][Next]_vars

\* The database answers, and Node runs the continuation.
FairSpec ==
  Spec /\ \A l \in Loader :
            WF_vars(Loop(l) /\ pc[l] # "new") /\ \A i \in Record : WF_vars(SaveStep(l, i))

-----------------------------------------------------------------------------
(* Properties.                                                             *)

\* A run whose loop has come to the end, and none of whose saves has been lost,
\* leaves every port of the file stored, whatever was there before and whatever
\* other runs do: a save is only refused for a name that is there
\* (loaddbf.ts 48-77).
Complete ==
  \A l \in Loader :
    pc[l] = "done" /\ (\A i \in Record : save[l][i] \in {"saved", "refused"})
      => \A i \in Record : ports[PortOf[i]] # 0

\* A run that lost the race for a country was overtaken: the run that created
\* the country has gone on, unless it failed or was killed right there.  So the
\* run that is furthest ahead never loses one, and runs that overlap do not all
\* end early (loaddbf.ts 29-42).
BeatenIsOvertaken ==
  \A l \in Loader : pc[l] = "beaten" =>
    \E k \in Loader \ {l} :
      \/ at[k] > at[l]
      \/ at[k] = at[l] /\ pc[k] \in {"failed", "killed"}

\* The port stored under name p is that of a record which names it, with its
\* country, unless country.json does not list that.
OfTheFile(p) ==
  LET i == ports[p] IN
  i # 0 => i \in Record /\ PortOf[i] = p /\ (CodeOf[i] \in Listed => CodeOf[i] \in countries)

\* A port is stored once, from one record with the country of that record, and no
\* other save, of an equal name, of another run, or one whose answer got lost,
\* ever changes it (loaddbf.ts 58-75).
StoredOnce ==
  [][\A p \in Port : OfTheFile(p)' /\ (ports[p] # 0 => ports'[p] = ports[p])]_vars

Loaded == \A i \in Record : ports[PortOf[i]] # 0

\* Whatever earlier runs have left, and however many still go on, a run that is
\* begun after the last failure ends with every port of the file stored
\* (loaddbf.ts 48-77).
RerunLoads ==
  \A l \in Loader :
    (pc[l] = "find" /\ at[l] = 1 /\ faults = MaxFaults /\ kills = MaxKills) ~> Loaded
=============================================================================
