---------------------------- MODULE ImageDelivery ----------------------------
(***************************************************************************)
(* What the uploader promises, seen without its files, directory and       *)
(* descriptors: the CDN takes each image of a batch once, and the batch is *)
(* done when the last is taken; an image consists of what batches handed   *)
(* in under that very file name; when one is refused the batch is failing, *)
(* though more of its images may be taken; and all that is pending ends    *)
(* with the process.                                                       *)
(***************************************************************************)
CONSTANTS Batch, File, PublicId

VARIABLES
  files,    \* files[b]: the names batch b is called with (set by the caller)
  outcome,  \* outcome[b]: how batch b stands
  untaken,  \* untaken[b]: the files of a pending batch the CDN has not taken
  cdn       \* cdn[id]: the batches whose bytes the CDN serves under id

deliveries == <<outcome, untaken, cdn>>

Init ==
  /\ outcome = [b \in Batch |-> "idle"]
  /\ untaken = [b \in Batch |-> {}]
  /\ cdn = [id \in {PublicId[f] : f \in File} |-> {}]

Begin(b) ==
  /\ outcome[b] = "idle"
  /\ outcome' = [outcome EXCEPT ![b] = IF files[b] = {} THEN "done" ELSE "pending"]
  /\ untaken' = [untaken EXCEPT ![b] = files[b]]
  /\ UNCHANGED cdn

\* The batches that have handed in a file of that name.
Senders(f) == {b \in Batch : outcome[b] # "idle" /\ f \in files[b]}

Replace(f) ==
  \E bytes \in (SUBSET Senders(f)) \ {{}} : cdn' = [cdn EXCEPT ![PublicId[f]] = bytes]

Take(b, f) ==
  /\ outcome[b] = "pending"
  /\ f \in untaken[b]
  /\ untaken' = [untaken EXCEPT ![b] = @ \ {f}]
  /\ outcome' = [outcome EXCEPT ![b] = IF untaken[b] = {f} THEN "done" ELSE "pending"]
  /\ Replace(f)

\* One more image of a batch that will fail.
TakeOfFailing(b, f) ==
  /\ outcome[b] = "failing"
  /\ f \in files[b]
  /\ \E how \in {"failing", "failed"} : outcome' = [outcome EXCEPT ![b] = how]
  /\ Replace(f)
  /\ UNCHANGED untaken

Refuse(b) ==
  /\ outcome[b] \in {"pending", "failing"}
  /\ \E how \in {"failing", "failed"} : outcome' = [outcome EXCEPT ![b] = how]
  /\ untaken' = [untaken EXCEPT ![b] = {}]
  /\ UNCHANGED cdn

Die ==
  /\ outcome' = [b \in Batch |-> IF outcome[b] \in {"pending", "failing"} THEN "dead" ELSE outcome[b]]
  /\ untaken' = [b \in Batch |-> {}]
  /\ UNCHANGED cdn

Next ==
  \/ \E b \in Batch : Begin(b) \/ Refuse(b)
  \/ \E b \in Batch, f \in File : Take(b, f) \/ TakeOfFailing(b, f)
  \/ Die

Spec == Init /\ [][Next]_deliveries
=============================================================================
