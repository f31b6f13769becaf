-------------------------- MODULE SeedLoaderProofs --------------------------
(***************************************************************************)
(* Proofs about SeedLoader: what a run that came to its end has stored,    *)
(* that a run which ended early was overtaken, and that a port is stored   *)
(* once.                                                                   *)
(***************************************************************************)
EXTENDS SeedLoader, TLAPS

\* Where the loop of l stands, and that no save runs ahead of it.
Standing(l) ==
  /\ pc[l] = "new" => at[l] = 1
  /\ pc[l] \in Looping \cup {"beaten"} => at[l] \in Record
  /\ \A i \in Record : save[l][i] # "none" => i < at[l]

\* The countries of the records behind a loop are stored.
Known(l) ==
  \A i \in Record : i < at[l] /\ CodeOf[i] \in Listed => CodeOf[i] \in countries

\* A country that l creates is of no record behind it.
Fresh(l) ==
  pc[l] \in {"country", "commit"} =>
    \A i \in Record : i < at[l] => CodeOf[i] # CodeOf[at[l]]

\* What was saved, or refused, is there.
Kept(l) ==
  \A i \in Record : save[l][i] \in {"saved", "refused"} => ports[PortOf[i]] # 0

\* k has come past record i, or ended there by a failure.
Passed(k, i) == at[k] > i \/ (at[k] = i /\ pc[k] \in {"failed", "killed"})

\* A country that is stored was created by a run that has come past a record
\* of it, or ended there.
Created == \A c \in countries : \E k \in Loader, i \in Record : CodeOf[i] = c /\ Passed(k, i)

Overtaken(l) == pc[l] = "beaten" => \E k \in Loader \ {l} : Passed(k, at[l])

IInv ==
  /\ TypeOK
  /\ Created
  /\ \A l \in Loader : Standing(l) /\ Known(l) /\ Fresh(l) /\ Kept(l) /\ Overtaken(l)

LEMMA InvInit == Init => IInv
BY SizeAssumption, BoundsAssumption
   DEF Init, IInv, TypeOK, Record, Looping, Broken, Created, Standing, Known, Fresh, Kept, Overtaken

-----------------------------------------------------------------------------
\* A loop goes on, or stays; ports and countries only appear.
LEMMA Frame ==
  ASSUME IInv, TypeOK', NEW l \in Loader,
         \A k \in Loader : at[k] <= at'[k],
         \A k \in Loader : pc[k] \in {"failed", "killed"} => pc'[k] \in {"failed", "killed"},
         countries \subseteq countries',
         \A p \in Port : ports[p] # 0 => ports'[p] # 0,
         at'[l] = at[l], save'[l] = save[l], pc'[l] = pc[l]
  PROVE  Standing(l)' /\ Known(l)' /\ Fresh(l)' /\ Kept(l)' /\ Overtaken(l)'
<1>1. Standing(l)' /\ Known(l)' /\ Fresh(l)'
  BY DEF IInv, Standing, Known, Fresh
<1>2. Kept(l)'
  BY FileAssumption DEF IInv, Kept
<1>3. ASSUME pc'[l] = "beaten"
      PROVE  \E k \in Loader \ {l} : Passed(k, at[l])'
  <2>1. PICK k \in Loader \ {l} : Passed(k, at[l])
    BY <1>3 DEF IInv, Overtaken
  <2>2. at[l] \in Nat /\ at[k] \in Nat /\ at'[k] \in Nat /\ at[k] <= at'[k]
    BY SizeAssumption DEF IInv, TypeOK
  <2>3. Passed(k, at[l])'
    BY <2>1, <2>2 DEF Passed
  <2> QED
    BY <2>3
<1>4. Overtaken(l)'
  BY <1>3 DEF Overtaken
<1> QED
  BY <1>1, <1>2, <1>4

\* A loop that has passed a record keeps having passed it.
LEMMA StillCreated ==
  ASSUME IInv, TypeOK', countries' = countries,
         \A k \in Loader : at[k] <= at'[k],
         \A k \in Loader : pc[k] \in {"failed", "killed"} => pc'[k] \in {"failed", "killed"}
  PROVE  Created'
<1>1. SUFFICES ASSUME NEW c \in countries
               PROVE  \E k \in Loader, i \in Record : CodeOf[i] = c /\ Passed(k, i)'
  BY DEF Created
<1>2. PICK k \in Loader, i \in Record : CodeOf[i] = c /\ Passed(k, i)
  BY DEF IInv, Created
<1>3. i \in Nat /\ at[k] \in Nat /\ at'[k] \in Nat /\ at[k] <= at'[k]
  BY SizeAssumption DEF IInv, TypeOK, Record
<1>4. Passed(k, i)'
  BY <1>2, <1>3 DEF Passed
<1> QED
  BY <1>2, <1>4

\* The country of the record l stands at may appear, if l then has passed it.
LEMMA CreatedBy ==
  ASSUME IInv, TypeOK', NEW l \in Loader, pc[l] \in Looping,
         countries' \subseteq countries \cup {CodeOf[at[l]]},
         \A k \in Loader : at[k] <= at'[k],
         \A k \in Loader : pc[k] \in {"failed", "killed"} => pc'[k] \in {"failed", "killed"},
         at'[l] > at[l] \/ (at'[l] = at[l] /\ pc'[l] \in {"failed", "killed"})
  PROVE  Created'
<1>1. SUFFICES ASSUME NEW c \in countries'
               PROVE  \E k \in Loader, i \in Record : CodeOf[i] = c /\ Passed(k, i)'
  BY DEF Created
<1>2. CASE c = CodeOf[at[l]]
  <2>1. at[l] \in Record
    BY DEF IInv, Standing
  <2>2. \A i : Passed(l, i)' <=> (at'[l] > i \/ (at'[l] = i /\ pc'[l] \in {"failed", "killed"}))
    BY DEF Passed
  <2> QED
    BY <1>2, <2>1, <2>2
<1>3. CASE c \in countries
  <2>1. PICK k \in Loader, i \in Record : CodeOf[i] = c /\ Passed(k, i)
    BY <1>3 DEF IInv, Created
  <2>2. i \in Nat /\ at[k] \in Nat /\ at'[k] \in Nat /\ at[k] <= at'[k]
    BY SizeAssumption DEF IInv, TypeOK, Record
  <2>3. Passed(k, i)'
    BY <2>1, <2>2 DEF Passed
  <2> QED
    BY <2>1, <2>3
<1> QED
  BY <1>1, <1>2, <1>3

-----------------------------------------------------------------------------
\* The save of the record l stands at is started.
LEMMA SaveStarted ==
  ASSUME IInv, NEW l \in Loader, pc[l] \in Looping, StartSave(l),
         countries \subseteq countries', ports' = ports,
         CodeOf[at[l]] \in Listed => CodeOf[at[l]] \in countries'
  PROVE  Standing(l)' /\ Known(l)' /\ Fresh(l)' /\ Kept(l)' /\ Overtaken(l)'
<1>1. at[l] \in Record /\ at[l] \in Nat /\ Size \in Nat
  BY SizeAssumption DEF IInv, Standing, Record
<1>2. /\ at'[l] = at[l] + 1
      /\ pc'[l] = IF at[l] = Size THEN "done" ELSE "find"
      /\ save'[l] = [save[l] EXCEPT ![at[l]] = "insert"]
  BY DEF StartSave, IInv, TypeOK
<1>3. save[l] \in [Record -> {"none", "insert", "commit", "saved", "refused", "lost"}]
  BY DEF IInv, TypeOK
<1>4. Standing(l)'
  BY <1>1, <1>2, <1>3 DEF IInv, Standing, Looping, Record
<1>5. Known(l)'
  BY <1>1, <1>2 DEF IInv, Known, Record
<1>6. Fresh(l)' /\ Overtaken(l)'
  BY <1>2 DEF Fresh, Overtaken
<1>7. Kept(l)'
  BY <1>2, <1>3 DEF IInv, Kept
<1> QED
  BY <1>4, <1>5, <1>6, <1>7

\* The types after the start of a save.
LEMMA StartTypes ==
  ASSUME IInv, NEW l \in Loader, pc[l] \in Looping, StartSave(l)
  PROVE  /\ pc' \in [Loader -> {"new", "done"} \cup Looping \cup Broken]
         /\ at' \in [Loader -> 1..Size + 1]
         /\ save' \in [Loader -> [Record -> {"none", "insert", "commit", "saved", "refused", "lost"}]]
         /\ \A k \in Loader : at[k] <= at'[k]
         /\ \A k \in Loader \ {l} : at'[k] = at[k] /\ save'[k] = save[k] /\ pc'[k] = pc[k]
         /\ at'[l] > at[l]
<1>1. at[l] \in 1..Size /\ Size \in Nat
  BY SizeAssumption DEF IInv, Standing, Record
<1>2. at' = [at EXCEPT ![l] = at[l] + 1]
  BY DEF StartSave
<1>3. at \in [Loader -> 1..Size + 1]
  BY DEF IInv, TypeOK
<1>4. /\ at' \in [Loader -> 1..Size + 1]
      /\ \A k \in Loader : at[k] <= at'[k]
      /\ at'[l] > at[l]
  BY <1>1, <1>2, <1>3
<1> QED
  BY <1>4 DEF StartSave, IInv, TypeOK, Looping

\* A step of the loop of l that does not start a save.
LEMMA Stopped ==
  ASSUME IInv, NEW l \in Loader, NEW why \in {"country", "commit", "failed"},
         pc[l] \in Looping, Break(l, why), UNCHANGED <<at, save, ports>>,
         countries \subseteq countries', countries' \subseteq Code,
         faults' \in 0..MaxFaults, kills' \in 0..MaxKills,
         why \in {"country", "commit"} =>
           \A i \in Record : i < at[l] => CodeOf[i] # CodeOf[at[l]]
  PROVE  TypeOK' /\ \A k \in Loader : Standing(k)' /\ Known(k)' /\ Fresh(k)' /\ Kept(k)' /\ Overtaken(k)'
<1>1. TypeOK'
  BY DEF Break, IInv, TypeOK, Looping, Broken
<1>2. /\ pc'[l] = why
      /\ \A k \in Loader \ {l} : pc'[k] = pc[k]
  BY DEF Break, IInv, TypeOK
<1>3. \A k \in Loader : at[k] <= at'[k]
  BY SizeAssumption DEF IInv, TypeOK
<1>4. ASSUME NEW k \in Loader, k # l
      PROVE  Standing(k)' /\ Known(k)' /\ Fresh(k)' /\ Kept(k)' /\ Overtaken(k)'
  BY <1>1, <1>2, <1>3, <1>4, Frame DEF Looping
<1>5. Standing(l)' /\ Known(l)' /\ Fresh(l)' /\ Kept(l)' /\ Overtaken(l)'
  BY <1>2 DEF IInv, Standing, Known, Fresh, Kept, Overtaken, Looping
<1> QED
  BY <1>1, <1>4, <1>5

\* What a step of a save, or a death, leaves alone.
LEMMA Aside ==
  ASSUME IInv, TypeOK', NEW l \in Loader,
         at' = at,
         pc' = pc \/ pc' = [pc EXCEPT ![l] = "killed"],
         countries \subseteq countries',
         \A p \in Port : ports[p] # 0 => ports'[p] # 0,
         \A k \in Loader \ {l} : save'[k] = save[k],
         \A i \in Record : save'[l][i] # "none" => save[l][i] # "none",
         Kept(l)'
  PROVE  \A k \in Loader : Standing(k)' /\ Known(k)' /\ Fresh(k)' /\ Kept(k)' /\ Overtaken(k)'
<1>1. /\ \A k \in Loader : at[k] <= at'[k]
      /\ \A k \in Loader : pc'[k] = pc[k] \/ pc'[k] = "killed"
      /\ \A k \in Loader \ {l} : pc'[k] = pc[k]
  BY SizeAssumption DEF IInv, TypeOK
<1>2. ASSUME NEW k \in Loader, k # l
      PROVE  Standing(k)' /\ Known(k)' /\ Fresh(k)' /\ Kept(k)' /\ Overtaken(k)'
  BY <1>1, <1>2, Frame
<1>3. Standing(l)' /\ Known(l)' /\ Fresh(l)'
  BY <1>1 DEF IInv, Standing, Known, Fresh, Looping
<1>4. ASSUME pc'[l] = "beaten"
      PROVE  \E k \in Loader \ {l} : Passed(k, at[l])'
  <2>1. pc[l] = "beaten"
    BY <1>1, <1>4
  <2>2. PICK k \in Loader \ {l} : Passed(k, at[l])
    BY <2>1 DEF IInv, Overtaken
  <2>3. Passed(k, at[l])'
    BY <1>1, <2>2 DEF Passed
  <2> QED
    BY <2>3
<1> QED
  BY <1>2, <1>3, <1>4 DEF Overtaken

\* Every action preserves the invariant.
LEMMA InvStep == IInv /\ [Next]_vars => IInv'
<1> SUFFICES ASSUME IInv, [Next]_vars PROVE IInv'
  OBVIOUS
<1>1. ASSUME NEW l \in Loader, Begin(l)
      PROVE  IInv'
  <2>1. TypeOK'
    BY <1>1 DEF Begin, IInv, TypeOK, Looping
  <2>2. /\ \A k \in Loader : at[k] <= at'[k]
        /\ \A k \in Loader : pc[k] \in {"failed", "killed"} => pc'[k] \in {"failed", "killed"}
        /\ \A k \in Loader \ {l} : pc'[k] = pc[k]
        /\ pc'[l] = IF Size = 0 THEN "done" ELSE "find"
    BY <1>1, SizeAssumption DEF Begin, IInv, TypeOK
  <2>3. Created'
    BY <1>1, <2>1, <2>2, StillCreated DEF Begin
  <2>4. ASSUME NEW k \in Loader, k # l
        PROVE  Standing(k)' /\ Known(k)' /\ Fresh(k)' /\ Kept(k)' /\ Overtaken(k)'
    BY <1>1, <2>1, <2>2, <2>4, Frame DEF Begin
  <2>5. at[l] \in Record \/ Size = 0
    BY <1>1, SizeAssumption DEF Begin, IInv, Standing, Record
  <2>6. Standing(l)' /\ Known(l)' /\ Fresh(l)' /\ Kept(l)' /\ Overtaken(l)'
    BY <1>1, <2>2, <2>5 DEF Begin, IInv, Standing, Known, Fresh, Kept, Overtaken, Looping
  <2> QED
    BY <2>1, <2>3, <2>4, <2>6 DEF IInv
<1>2. ASSUME NEW l \in Loader, BeginFails(l)
      PROVE  IInv'
  <2>1. TypeOK'
    BY <1>2, BoundsAssumption DEF BeginFails, Break, Fault, IInv, TypeOK, Broken
  <2>2. /\ \A k \in Loader : at[k] <= at'[k]
        /\ \A k \in Loader : pc[k] \in {"failed", "killed"} => pc'[k] \in {"failed", "killed"}
        /\ \A k \in Loader \ {l} : pc'[k] = pc[k]
        /\ pc'[l] = "failed"
    BY <1>2, SizeAssumption DEF BeginFails, Break, IInv, TypeOK
  <2>3. Created'
    BY <1>2, <2>1, <2>2, StillCreated DEF BeginFails
  <2>4. ASSUME NEW k \in Loader, k # l
        PROVE  Standing(k)' /\ Known(k)' /\ Fresh(k)' /\ Kept(k)' /\ Overtaken(k)'
    BY <1>2, <2>1, <2>2, <2>4, Frame DEF BeginFails
  <2>5. Standing(l)' /\ Known(l)' /\ Fresh(l)' /\ Kept(l)' /\ Overtaken(l)'
    BY <1>2, <2>2 DEF BeginFails, IInv, Standing, Known, Fresh, Kept, Overtaken, Looping
  <2> QED
    BY <2>1, <2>3, <2>4, <2>5 DEF IInv
<1>3. ASSUME NEW l \in Loader, SkipCountry(l) \/ (FindCountry(l) /\ CodeOf[at[l]] \in countries)
      PROVE  IInv'
  <2>1. /\ pc[l] \in Looping /\ pc[l] \notin {"failed", "killed"}
        /\ StartSave(l)
        /\ UNCHANGED <<ports, countries, faults, kills>>
        /\ CodeOf[at[l]] \in Listed => CodeOf[at[l]] \in countries
    BY <1>3 DEF SkipCountry, FindCountry, Looping
  <2>2. TypeOK'
    BY <2>1, StartTypes DEF IInv, TypeOK
  <2>3. Created'
    BY <2>1, <2>2, StartTypes, StillCreated
  <2>4. ASSUME NEW k \in Loader, k # l
        PROVE  Standing(k)' /\ Known(k)' /\ Fresh(k)' /\ Kept(k)' /\ Overtaken(k)'
    BY <2>1, <2>2, <2>4, StartTypes, Frame
  <2>5. Standing(l)' /\ Known(l)' /\ Fresh(l)' /\ Kept(l)' /\ Overtaken(l)'
    BY <2>1, SaveStarted
  <2> QED
    BY <2>2, <2>3, <2>4, <2>5 DEF IInv
<1>4. ASSUME NEW l \in Loader, FindCountry(l), CodeOf[at[l]] \notin countries
      PROVE  IInv'
  <2>1. /\ pc[l] \in Looping /\ pc[l] \notin {"failed", "killed"}
        /\ Break(l, "country")
        /\ UNCHANGED <<at, save, ports, countries, faults, kills>>
    BY <1>4 DEF FindCountry, Looping, Break
  <2>2. \A i \in Record : i < at[l] => CodeOf[i] # CodeOf[at[l]]
    BY <1>4 DEF FindCountry, IInv, Known
  <2>3. /\ TypeOK'
        /\ \A k \in Loader : Standing(k)' /\ Known(k)' /\ Fresh(k)' /\ Kept(k)' /\ Overtaken(k)'
    BY <2>1, <2>2, Stopped DEF IInv, TypeOK
  <2>4. Created'
    BY <2>1, <2>3, SizeAssumption, StillCreated DEF Break, IInv, TypeOK
  <2> QED
    BY <2>3, <2>4 DEF IInv
<1>5. ASSUME NEW l \in Loader, InsertCountry(l), CodeOf[at[l]] \notin countries
      PROVE  IInv'
  <2>1. /\ pc[l] \in Looping /\ pc[l] \notin {"failed", "killed"}
        /\ Break(l, "commit")
        /\ UNCHANGED <<at, save, ports, countries, faults, kills>>
    BY <1>5 DEF InsertCountry, Looping
  <2>2. \A i \in Record : i < at[l] => CodeOf[i] # CodeOf[at[l]]
    BY <1>5 DEF InsertCountry, IInv, Fresh
  <2>3. /\ TypeOK'
        /\ \A k \in Loader : Standing(k)' /\ Known(k)' /\ Fresh(k)' /\ Kept(k)' /\ Overtaken(k)'
    BY <2>1, <2>2, Stopped DEF IInv, TypeOK
  <2>4. Created'
    BY <2>1, <2>3, SizeAssumption, StillCreated DEF Break, IInv, TypeOK
  <2> QED
    BY <2>3, <2>4 DEF IInv
<1>6. ASSUME NEW l \in Loader, InsertCountry(l), CodeOf[at[l]] \in countries
      PROVE  IInv'
  <2>1. /\ pc[l] = "country" /\ Break(l, "beaten")
        /\ UNCHANGED <<at, save, ports, countries, faults, kills>>
        /\ at[l] \in Record
    BY <1>6 DEF InsertCountry, IInv, Standing, Looping
  <2>2. TypeOK'
    BY <2>1 DEF Break, IInv, TypeOK, Broken
  <2>3. /\ \A k \in Loader : at[k] <= at'[k]
        /\ \A k \in Loader : pc[k] \in {"failed", "killed"} => pc'[k] \in {"failed", "killed"}
        /\ \A k \in Loader \ {l} : pc'[k] = pc[k]
        /\ pc'[l] = "beaten"
    BY <2>1, SizeAssumption DEF Break, IInv, TypeOK
  <2>4. Created'
    BY <2>1, <2>2, <2>3, StillCreated
  <2>5. ASSUME NEW k \in Loader, k # l
        PROVE  Standing(k)' /\ Known(k)' /\ Fresh(k)' /\ Kept(k)' /\ Overtaken(k)'
    BY <2>1, <2>2, <2>3, <2>5, Frame
  <2>6. PICK k \in Loader, i \in Record : CodeOf[i] = CodeOf[at[l]] /\ Passed(k, i)
    BY <1>6 DEF IInv, Created
  <2>7. ~(i < at[l])
    BY <2>1, <2>6 DEF IInv, Fresh
  <2>8. i \in Nat /\ at[l] \in Nat /\ at[k] \in Nat
    BY <2>1, SizeAssumption DEF IInv, TypeOK, Record
  <2>9. Passed(k, at[l]) /\ k # l
    BY <2>1, <2>6, <2>7, <2>8 DEF Passed
  <2>10. Passed(k, at[l])'
    BY <2>1, <2>3, <2>9 DEF Passed
  <2>11. Standing(l)' /\ Known(l)' /\ Fresh(l)' /\ Kept(l)' /\ Overtaken(l)'
    BY <2>1, <2>3, <2>9, <2>10 DEF IInv, Standing, Known, Fresh, Kept, Overtaken
  <2> QED
    BY <2>2, <2>4, <2>5, <2>11 DEF IInv
<1>7. ASSUME NEW l \in Loader, CommitCountry(l)
      PROVE  IInv'
  <2>1. /\ pc[l] \in Looping /\ pc[l] \notin {"failed", "killed"}
        /\ StartSave(l)
        /\ UNCHANGED <<ports, faults, kills>>
        /\ countries' = countries \cup {CodeOf[at[l]]}
        /\ at[l] \in Record
    BY <1>7 DEF CommitCountry, Looping, IInv, Standing
  <2>2. countries' \subseteq Code
    BY <2>1, FileAssumption DEF IInv, TypeOK
  <2>3. TypeOK'
    BY <2>1, <2>2, StartTypes DEF IInv, TypeOK
  <2>4. Created'
    BY <2>1, <2>3, StartTypes, CreatedBy
  <2>5. ASSUME NEW k \in Loader, k # l
        PROVE  Standing(k)' /\ Known(k)' /\ Fresh(k)' /\ Kept(k)' /\ Overtaken(k)'
    BY <2>1, <2>3, <2>5, StartTypes, Frame
  <2>6. Standing(l)' /\ Known(l)' /\ Fresh(l)' /\ Kept(l)' /\ Overtaken(l)'
    BY <2>1, SaveStarted
  <2> QED
    BY <2>3, <2>4, <2>5, <2>6 DEF IInv
<1>8. ASSUME NEW l \in Loader, LoopFails(l)
      PROVE  IInv'
  <2>1. /\ pc[l] \in Looping /\ pc[l] \notin {"failed", "killed"}
        /\ Break(l, "failed")
        /\ UNCHANGED <<at, save, ports, kills>>
        /\ faults' \in 0..MaxFaults
        /\ at[l] \in Record
    BY <1>8, BoundsAssumption DEF LoopFails, Fault, Looping, IInv, TypeOK, Standing
  <2>2. countries \subseteq countries' /\ countries' \subseteq countries \cup {CodeOf[at[l]]}
    BY <1>8 DEF LoopFails
  <2>3. countries' \subseteq Code
    BY <2>1, <2>2, FileAssumption DEF IInv, TypeOK
  <2>4. /\ TypeOK'
        /\ \A k \in Loader : Standing(k)' /\ Known(k)' /\ Fresh(k)' /\ Kept(k)' /\ Overtaken(k)'
    BY <2>1, <2>2, <2>3, Stopped DEF IInv, TypeOK
  <2>5. Created'
    BY <2>1, <2>2, <2>4, SizeAssumption, CreatedBy DEF Break, IInv, TypeOK
  <2> QED
    BY <2>4, <2>5 DEF IInv
<1>9. ASSUME NEW l \in Loader, NEW i \in Record, InsertPort(l, i)
      PROVE  IInv'
  <2>1. /\ save[l][i] \in {"insert", "commit"}
        /\ UNCHANGED <<pc, at, countries>>
        /\ ports' = ports \/ ports' = [ports EXCEPT ![PortOf[i]] = i]
        /\ \A k \in Loader \ {l} : save'[k] = save[k]
        /\ \A j \in Record \ {i} : save'[l][j] = save[l][j]
    BY <1>9 DEF InsertPort, SaveIs, IInv, TypeOK
  <2>2. TypeOK'
    BY <1>9, FileAssumption, SizeAssumption, BoundsAssumption DEF InsertPort, SaveIs, IInv, TypeOK, Record
  <2>3. i # 0 /\ PortOf[i] \in Port /\ ports \in [Port -> 0..Size]
    BY FileAssumption, SizeAssumption DEF IInv, TypeOK, Record
  <2>4. \A p \in Port : ports[p] # 0 => ports'[p] # 0
    BY <2>1, <2>3
  <2>5. save'[l][i] \in {"saved", "refused"} => ports'[PortOf[i]] # 0
    BY <1>9, <2>1, <2>3 DEF InsertPort, SaveIs, IInv, TypeOK, Standing, Known
  <2>6. Kept(l)'
    BY <2>1, <2>4, <2>5, FileAssumption DEF IInv, Kept
  <2>7. \A j \in Record : save'[l][j] # "none" => save[l][j] # "none"
    BY <2>1
  <2>8. \A k \in Loader : Standing(k)' /\ Known(k)' /\ Fresh(k)' /\ Kept(k)' /\ Overtaken(k)'
    BY <2>1, <2>2, <2>4, <2>6, <2>7, Aside
  <2>9. Created'
    BY <2>1, <2>2, SizeAssumption, StillCreated DEF IInv, TypeOK
  <2> QED
    BY <2>2, <2>8, <2>9 DEF IInv
<1>10. ASSUME NEW l \in Loader, NEW i \in Record, CommitPort(l, i)
      PROVE  IInv'
  <2>1. /\ save[l][i] \in {"insert", "commit"}
        /\ UNCHANGED <<pc, at, countries>>
        /\ ports' = ports \/ ports' = [ports EXCEPT ![PortOf[i]] = i]
        /\ \A k \in Loader \ {l} : save'[k] = save[k]
        /\ \A j \in Record \ {i} : save'[l][j] = save[l][j]
    BY <1>10 DEF CommitPort, SaveIs, IInv, TypeOK
  <2>2. TypeOK'
    BY <1>10, FileAssumption, SizeAssumption, BoundsAssumption DEF CommitPort, SaveIs, IInv, TypeOK, Record
  <2>3. i # 0 /\ PortOf[i] \in Port /\ ports \in [Port -> 0..Size]
    BY FileAssumption, SizeAssumption DEF IInv, TypeOK, Record
  <2>4. \A p \in Port : ports[p] # 0 => ports'[p] # 0
    BY <2>1, <2>3
  <2>5. save'[l][i] \in {"saved", "refused"} => ports'[PortOf[i]] # 0
    BY <1>10, <2>3 DEF CommitPort
  <2>6. Kept(l)'
    BY <2>1, <2>4, <2>5, FileAssumption DEF IInv, Kept
  <2>7. \A j \in Record : save'[l][j] # "none" => save[l][j] # "none"
    BY <2>1
  <2>8. \A k \in Loader : Standing(k)' /\ Known(k)' /\ Fresh(k)' /\ Kept(k)' /\ Overtaken(k)'
    BY <2>1, <2>2, <2>4, <2>6, <2>7, Aside
  <2>9. Created'
    BY <2>1, <2>2, SizeAssumption, StillCreated DEF IInv, TypeOK
  <2> QED
    BY <2>2, <2>8, <2>9 DEF IInv
<1>11. ASSUME NEW l \in Loader, NEW i \in Record, SaveFails(l, i)
      PROVE  IInv'
  <2>1. /\ save[l][i] \in {"insert", "commit"}
        /\ UNCHANGED <<pc, at, countries>>
        /\ ports' = ports \/ ports' = [ports EXCEPT ![PortOf[i]] = i]
        /\ \A k \in Loader \ {l} : save'[k] = save[k]
        /\ \A j \in Record \ {i} : save'[l][j] = save[l][j]
    BY <1>11 DEF SaveFails, SaveIs, IInv, TypeOK
  <2>2. TypeOK'
    <3>1. ports' \in [Port -> 0..Size]
      BY <2>1, SizeAssumption DEF IInv, TypeOK, Record
    <3>2. faults' \in 0..MaxFaults /\ kills' = kills
      BY <1>11, BoundsAssumption DEF SaveFails, Fault, IInv, TypeOK
    <3>3. save' \in [Loader -> [Record -> {"none", "insert", "commit", "saved", "refused", "lost"}]]
      BY <1>11 DEF SaveFails, SaveIs, IInv, TypeOK
    <3> QED
      BY <2>1, <3>1, <3>2, <3>3 DEF IInv, TypeOK
  <2>3. i # 0 /\ PortOf[i] \in Port /\ ports \in [Port -> 0..Size]
    BY FileAssumption, SizeAssumption DEF IInv, TypeOK, Record
  <2>4. \A p \in Port : ports[p] # 0 => ports'[p] # 0
    BY <2>1, <2>3
  <2>5. save'[l][i] \in {"saved", "refused"} => ports'[PortOf[i]] # 0
    BY <1>11 DEF SaveFails, SaveIs, IInv, TypeOK
  <2>6. Kept(l)'
    BY <2>1, <2>4, <2>5, FileAssumption DEF IInv, Kept
  <2>7. \A j \in Record : save'[l][j] # "none" => save[l][j] # "none"
    BY <2>1
  <2>8. \A k \in Loader : Standing(k)' /\ Known(k)' /\ Fresh(k)' /\ Kept(k)' /\ Overtaken(k)'
    BY <2>1, <2>2, <2>4, <2>6, <2>7, Aside
  <2>9. Created'
    BY <2>1, <2>2, SizeAssumption, StillCreated DEF IInv, TypeOK
  <2> QED
    BY <2>2, <2>8, <2>9 DEF IInv
<1>12. ASSUME NEW l \in Loader, Kill(l)
      PROVE  IInv'
  <2>1. /\ at' = at
        /\ pc' = [pc EXCEPT ![l] = "killed"]
        /\ save' = [save EXCEPT ![l] =
              [i \in Record |-> IF save[l][i] \in {"insert", "commit"} THEN "lost" ELSE save[l][i]]]
    BY <1>12 DEF Kill, Break
  <2>2. /\ \A k \in Loader : pc[k] \in {"failed", "killed"} => pc'[k] \in {"failed", "killed"}
        /\ \A k \in Loader : at[k] <= at'[k]
        /\ pc'[l] = "killed"
        /\ \A k \in Loader \ {l} : save'[k] = save[k]
        /\ \A i \in Record : save'[l][i] = IF save[l][i] \in {"insert", "commit"} THEN "lost" ELSE save[l][i]
    BY <2>1, SizeAssumption DEF IInv, TypeOK
  <2>3. PICK executed \in SUBSET Record :
          ports' = [p \in Port |-> IF \E i \in executed : PortOf[i] = p
                                     THEN CHOOSE i \in executed : PortOf[i] = p
                                     ELSE ports[p]]
    <3> DEFINE open == {i \in Record : save[l][i] = "commit"}
    <3>1. \E executed \in SUBSET open :
             ports' = [p \in Port |-> IF \E i \in executed : PortOf[i] = p
                                        THEN CHOOSE i \in executed : PortOf[i] = p
                                        ELSE ports[p]]
      BY <1>12 DEF Kill
    <3> QED
      BY <3>1
  <2>4. \A p \in Port : ports'[p] = ports[p] \/ ports'[p] \in Record
    BY <2>3
  <2>5. ports' \in [Port -> 0..Size] /\ 0 \notin Record
    <3>1. DOMAIN ports' = Port /\ ports' = [p \in Port |-> ports'[p]]
      BY <2>3
    <3> QED
      BY <3>1, <2>4, SizeAssumption DEF IInv, TypeOK, Record
  <2>6. \A p \in Port : ports[p] # 0 => ports'[p] # 0
    BY <2>4, <2>5
  <2>7. /\ countries \subseteq countries'
        /\ countries' = countries \/ (pc[l] = "commit" /\ countries' = countries \cup {CodeOf[at[l]]})
        /\ kills' \in 0..MaxKills /\ faults' = faults
    BY <1>12, BoundsAssumption DEF Kill, IInv, TypeOK
  <2>8. pc[l] = "commit" => at[l] \in Record
    BY DEF IInv, Standing, Looping
  <2>9. countries' \subseteq Code
    BY <2>7, <2>8, FileAssumption DEF IInv, TypeOK
  <2>10. save' \in [Loader -> [Record -> {"none", "insert", "commit", "saved", "refused", "lost"}]]
    BY <2>1 DEF IInv, TypeOK
  <2>11. TypeOK'
    BY <2>1, <2>5, <2>7, <2>9, <2>10 DEF IInv, TypeOK, Broken
  <2>12. Kept(l)'
    BY <2>2, <2>6, FileAssumption DEF IInv, Kept
  <2>13. \A k \in Loader : Standing(k)' /\ Known(k)' /\ Fresh(k)' /\ Kept(k)' /\ Overtaken(k)'
    BY <2>1, <2>2, <2>6, <2>7, <2>11, <2>12, Aside
  <2>14. Created'
    <3>1. CASE countries' = countries
      BY <3>1, <2>2, <2>11, StillCreated
    <3>2. CASE pc[l] = "commit" /\ countries' = countries \cup {CodeOf[at[l]]}
      BY <3>2, <2>1, <2>2, <2>11, CreatedBy DEF Looping
    <3> QED
      BY <2>7, <3>1, <3>2
  <2> QED
    BY <2>11, <2>13, <2>14 DEF IInv
<1>13. CASE UNCHANGED vars
  BY <1>13 DEF vars, IInv, TypeOK, Created, Passed, Standing, Known, Fresh, Kept, Overtaken
<1> QED
  BY <1>1, <1>2, <1>3, <1>4, <1>5, <1>6, <1>7, <1>8, <1>9, <1>10, <1>11, <1>12, <1>13
  DEF Next, Loop, SaveStep, FindCountry

LEMMA Invariance == Spec => []IInv
BY InvInit, InvStep, PTL DEF Spec

-----------------------------------------------------------------------------
(* A port is stored once.                                                  *)

\* A transaction that inserts a port is the only one to insert that name, which is
\* not there yet, and the country of the port is.
Alone(l, i) ==
  save[l][i] = "commit" =>
    /\ ports[PortOf[i]] = 0
    /\ CodeOf[i] \in Listed => CodeOf[i] \in countries
    /\ \A k \in Loader, j \in Record :
         save[k][j] = "commit" /\ PortOf[j] = PortOf[i] => k = l /\ j = i

OInv ==
  /\ IInv
  /\ \A l \in Loader, i \in Record : Alone(l, i)
  /\ \A p \in Port : OfTheFile(p)

\* What a step does to the ports.
Once ==
  /\ (\A l \in Loader, i \in Record : Alone(l, i))'
  /\ \A p \in Port : OfTheFile(p)' /\ (ports[p] # 0 => ports'[p] = ports[p])

\* A step that neither inserts nor stores a port.
LEMMA QuietOnce ==
  ASSUME OInv, ports' = ports, countries \subseteq countries',
         \A l \in Loader, i \in Record : save'[l][i] = "commit" => save[l][i] = "commit"
  PROVE  Once
BY DEF OInv, Alone, OfTheFile, Once

\* The starts of saves, and the steps of the loops, are such steps.
LEMMA LoopOnce ==
  ASSUME OInv, NEW l \in Loader, ports' = ports, countries \subseteq countries',
         StartSave(l) \/ save' = save
  PROVE  Once
<1>1. ASSUME NEW k \in Loader, NEW i \in Record, save'[k][i] = "commit"
      PROVE  save[k][i] = "commit"
  BY <1>1 DEF StartSave, OInv, IInv, TypeOK
<1> QED
  BY <1>1, QuietOnce

\* The INSERT of a port.
LEMMA InsertOnce ==
  ASSUME OInv, NEW l \in Loader, NEW i \in Record, InsertPort(l, i)
  PROVE  Once
<1>1. /\ save[l][i] = "insert"
      /\ \A k \in Loader, j \in Record : save[k][j] = "commit" => PortOf[j] # PortOf[i]
      /\ UNCHANGED <<ports, countries>>
      /\ \A k \in Loader, j \in Record : k # l \/ j # i => save'[k][j] = save[k][j]
      /\ save'[l][i] = IF ports[PortOf[i]] # 0 \/ CodeOf[i] \in Listed \ countries
                         THEN "refused" ELSE "commit"
  BY DEF InsertPort, SaveIs, OInv, IInv, TypeOK
<1>2. CASE save'[l][i] = "refused"
  <2>1. \A k \in Loader, j \in Record : save'[k][j] = "commit" => save[k][j] = "commit"
    BY <1>1, <1>2
  <2> QED
    BY <1>1, <2>1, QuietOnce
<1>3. CASE save'[l][i] = "commit"
  <2>1. ports[PortOf[i]] = 0 /\ (CodeOf[i] \in Listed => CodeOf[i] \in countries)
    BY <1>1, <1>3
  <2>2. Alone(l, i)'
    BY <1>1, <2>1 DEF Alone
  <2>3. ASSUME NEW k \in Loader, NEW j \in Record, k # l \/ j # i
        PROVE  Alone(k, j)'
    BY <1>1, <2>3 DEF OInv, Alone
  <2>4. \A k \in Loader, j \in Record : Alone(k, j)'
    BY <2>2, <2>3
  <2> QED
    BY <1>1, <2>4 DEF OInv, OfTheFile, Once
<1> QED
  BY <1>1, <1>2, <1>3

\* COMMITs of ports that are executed, and saves of one run that end.
LEMMA StoreOnce ==
  ASSUME OInv, NEW l \in Loader, NEW stored \in SUBSET Record,
         \A i \in stored : save[l][i] = "commit" /\ save'[l][i] # "commit",
         \A k \in Loader, i \in Record : save'[k][i] = "commit" => save[k][i] = "commit",
         ports' = [p \in Port |-> IF \E i \in stored : PortOf[i] = p
                                    THEN CHOOSE i \in stored : PortOf[i] = p
                                    ELSE ports[p]],
         countries \subseteq countries'
  PROVE  Once
<1>1. ASSUME NEW i \in stored
      PROVE  /\ ports[PortOf[i]] = 0 /\ PortOf[i] \in Port
             /\ CodeOf[i] \in Listed => CodeOf[i] \in countries
             /\ ports'[PortOf[i]] \in stored /\ PortOf[ports'[PortOf[i]]] = PortOf[i]
  BY FileAssumption DEF OInv, Alone
<1>2. ASSUME NEW p \in Port, \A i \in stored : PortOf[i] # p
      PROVE  ports'[p] = ports[p]
  BY <1>2
<1>3. ASSUME NEW p \in Port
      PROVE  OfTheFile(p)' /\ (ports[p] # 0 => ports'[p] = ports[p])
  <2>1. CASE \E i \in stored : PortOf[i] = p
    <3>1. PICK i \in stored : PortOf[i] = p
      BY <2>1
    <3>2. ports'[p] \in stored /\ PortOf[ports'[p]] = p /\ ports[p] = 0
      BY <1>1, <3>1
    <3>3. CodeOf[ports'[p]] \in Listed => CodeOf[ports'[p]] \in countries'
      BY <1>1, <3>2
    <3> QED
      BY <3>2, <3>3 DEF OfTheFile
  <2>2. CASE \A i \in stored : PortOf[i] # p
    BY <1>2, <2>2 DEF OInv, OfTheFile
  <2> QED
    BY <2>1, <2>2
<1>4. ASSUME NEW k \in Loader, NEW j \in Record, save'[k][j] = "commit"
      PROVE  Alone(k, j)'
  <2>1. save[k][j] = "commit" /\ Alone(k, j) /\ PortOf[j] \in Port
    BY <1>4, FileAssumption DEF OInv
  <2>2. ASSUME NEW i \in stored PROVE PortOf[i] # PortOf[j]
    BY <1>4, <2>1 DEF Alone
  <2>3. ports'[PortOf[j]] = ports[PortOf[j]]
    BY <1>2, <2>1, <2>2
  <2> QED
    BY <2>1, <2>3 DEF Alone
<1>5. \A k \in Loader, j \in Record : Alone(k, j)'
  BY <1>4 DEF Alone
<1> QED
  BY <1>3, <1>5 DEF Once

LEMMA OnceStep == OInv /\ [Next]_vars => Once
<1> SUFFICES ASSUME OInv, [Next]_vars PROVE Once
  OBVIOUS
<1>1. ASSUME NEW l \in Loader, Loop(l) \/ BeginFails(l) \/ LoopFails(l)
      PROVE  Once
  <2>1. ports' = ports /\ countries \subseteq countries' /\ (StartSave(l) \/ save' = save)
    BY <1>1 DEF Loop, Begin, SkipCountry, FindCountry, InsertCountry, CommitCountry,
                BeginFails, LoopFails
  <2> QED
    BY <2>1, LoopOnce
<1>2. ASSUME NEW l \in Loader, NEW i \in Record, CommitPort(l, i) \/ SaveFails(l, i)
      PROVE  Once
  <2>1. /\ \A k \in Loader, j \in Record : k # l \/ j # i => save'[k][j] = save[k][j]
        /\ save'[l][i] # "commit"
        /\ UNCHANGED countries
    BY <1>2 DEF CommitPort, SaveFails, SaveIs, OInv, IInv, TypeOK
  <2>2. \A k \in Loader, j \in Record : save'[k][j] = "commit" => save[k][j] = "commit"
    BY <2>1
  <2>3. \/ ports' = ports
        \/ save[l][i] = "commit" /\ ports' = [ports EXCEPT ![PortOf[i]] = i]
    BY <1>2 DEF CommitPort, SaveFails
  <2>4. CASE ports' = ports
    BY <2>1, <2>2, <2>4, QuietOnce
  <2>5. CASE save[l][i] = "commit" /\ ports' = [ports EXCEPT ![PortOf[i]] = i]
    <3>1. ports' = [p \in Port |-> IF \E j \in {i} : PortOf[j] = p
                                     THEN CHOOSE j \in {i} : PortOf[j] = p
                                     ELSE ports[p]]
      BY <2>5, FileAssumption DEF OInv, IInv, TypeOK
    <3>2. \A j \in {i} : save[l][j] = "commit" /\ save'[l][j] # "commit"
      BY <2>1, <2>5
    <3>3. {i} \in SUBSET Record
      OBVIOUS
    <3> QED
      BY <2>1, <2>2, <3>1, <3>2, <3>3, StoreOnce
  <2> QED
    BY <2>3, <2>4, <2>5
<1>3. ASSUME NEW l \in Loader, Kill(l)
      PROVE  Once
  <2> DEFINE sent == {i \in Record : save[l][i] = "commit"}
  <2>1. PICK executed \in SUBSET sent :
          ports' = [p \in Port |-> IF \E i \in executed : PortOf[i] = p
                                     THEN CHOOSE i \in executed : PortOf[i] = p
                                     ELSE ports[p]]
    BY <1>3 DEF Kill
  <2>2. /\ \A k \in Loader \ {l} : save'[k] = save[k]
        /\ \A i \in Record : save'[l][i] = IF save[l][i] \in {"insert", "commit"}
                                             THEN "lost" ELSE save[l][i]
        /\ countries \subseteq countries'
    BY <1>3 DEF Kill, OInv, IInv, TypeOK
  <2>3. \A k \in Loader, i \in Record : save'[k][i] = "commit" => save[k][i] = "commit"
    BY <2>2
  <2>4. \A i \in executed : save[l][i] = "commit" /\ save'[l][i] # "commit"
    BY <2>2
  <2>5. executed \in SUBSET Record
    OBVIOUS
  <2> QED
    BY <2>1, <2>2, <2>3, <2>4, <2>5, StoreOnce
<1>4. CASE UNCHANGED vars
  BY <1>4, QuietOnce DEF vars
<1> QED
  BY <1>1, <1>2, <1>3, <1>4, InsertOnce DEF Next, SaveStep

LEMMA OInvInit == Init => OInv
<1>1. Init => (\A l \in Loader, i \in Record : Alone(l, i)) /\ \A p \in Port : OfTheFile(p)
  BY DEF Init, Alone, OfTheFile
<1> QED
  BY <1>1, InvInit DEF OInv

LEMMA OnceInvariance == Spec => []OInv
<1>1. OInv /\ [Next]_vars => OInv'
  BY InvStep, OnceStep DEF OInv, Once
<1> QED
  BY <1>1, OInvInit, PTL DEF Spec

-----------------------------------------------------------------------------
(* Theorems.                                                               *)

\* Every variable keeps its type.
THEOREM TypeCorrect == Spec => []TypeOK
<1>1. IInv => TypeOK
  BY DEF IInv
<1> QED
  BY <1>1, Invariance, PTL

\* A run that has come to its end and lost no save leaves every port stored,
\* whatever the file and whatever other runs do (loaddbf.ts 48-77).
THEOREM FinishedRunsLoad == Spec => []Complete
<1>1. IInv => Complete
  BY DEF IInv, Kept, Complete
<1> QED
  BY <1>1, Invariance, PTL

\* A run that lost the race for a country was overtaken (loaddbf.ts 29-42).
THEOREM BeatenRunsAreOvertaken == Spec => []BeatenIsOvertaken
<1>1. IInv => BeatenIsOvertaken
  BY DEF IInv, Overtaken, Passed, BeatenIsOvertaken
<1> QED
  BY <1>1, Invariance, PTL

\* A port is stored once, from a record that names it and with its country, and
\* nothing changes it afterwards (loaddbf.ts 58-75).
THEOREM PortsAreStoredOnce == Spec => StoredOnce
<1>1. OInv /\ [Next]_vars =>
        [\A p \in Port : OfTheFile(p)' /\ (ports[p] # 0 => ports'[p] = ports[p])]_vars
  BY OnceStep DEF Once
<1> QED
  BY <1>1, OnceInvariance, PTL DEF Spec, StoredOnce
=============================================================================
