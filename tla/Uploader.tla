------------------------------ MODULE Uploader ------------------------------
(***************************************************************************)
(* Batches of images on their way to the CDN (libs/cloudinary.ts).  The    *)
(* files of a batch are written to public/assets one after the other, each *)
(* after a check that the directory is there, and are then all uploaded    *)
(* from there.  Batches overlap, and file names and public ids are shared  *)
(* by all of them.  An error inside a callback of fs, or on a stream, is   *)
(* caught by nobody and ends the process.                                  *)
(***************************************************************************)
EXTENDS Naturals, FiniteSets

CONSTANTS
  Batch,          \* the calls of uploadBatch
  File,           \* file names
  PublicId,       \* the public id of each name: the name without its extension
  NoFile,
  MaxDescriptors  \* file descriptors the process may have

VARIABLES
  files,    \* files[b]: the names batch b is called with (set by the caller), each once
  stage,    \* stage[b]: what batch b waits for, or how it ended
  left,     \* left[b]: its files not yet written, and then not yet uploaded
  file,     \* file[b]: the one being written
  dir,      \* what there is of the directory
  disk,     \* disk[f]: the batches whose bytes are in file f
  fds,      \* descriptors in use: no stream is ever closed
  transit,  \* uploads that have read their file and have not ended
  cdn       \* cdn[id]: the batches whose bytes the CDN serves under id

Id == {PublicId[f] : f \in File}
Loop == {"stat", "missing", "open", "write"}
Uploading == {"upload", "broken"}
Stage == {"idle", "done", "failed", "dead"} \cup Loop \cup Uploading

TypeOK ==
  /\ stage \in [Batch -> Stage]
  /\ left \in [Batch -> SUBSET File]
  /\ file \in [Batch -> File \cup {NoFile}]
  /\ dir \in {"none", "public", "assets"}
  /\ disk \in [File -> SUBSET Batch]
  /\ fds \in 0..MaxDescriptors
  /\ transit \in SUBSET [batch : Batch, file : File, bytes : SUBSET Batch]
  /\ cdn \in [Id -> SUBSET Batch]

Init ==
  /\ stage = [b \in Batch |-> "idle"]
  /\ left = [b \in Batch |-> {}]
  /\ file = [b \in Batch |-> NoFile]
  /\ dir = "none"
  /\ disk = [f \in File |-> {}]
  /\ fds = 0
  /\ transit = {}
  /\ cdn = [id \in Id |-> {}]

GoTo(b, s) == stage' = [stage EXCEPT ![b] = s]

\* uploadBatch is called, and runs up to the fs.stat for its first file.
Begin(b, names) ==
  /\ stage[b] = "idle"
  /\ GoTo(b, IF names = {} THEN "done" ELSE "stat")
  /\ left' = [left EXCEPT ![b] = names]
  /\ UNCHANGED <<file, dir, disk, fds, transit, cdn>>

\* Mutants of Look: a directory is no file, and so is missing for ever; only
\* the branch that creates the directory resolves.
LookForFile(b) ==
  /\ stage[b] = "stat"
  /\ GoTo(b, "missing")
  /\ UNCHANGED <<left, file, dir, disk, fds, transit, cdn>>

LookAndWait(b) ==
  /\ stage[b] = "stat"
  /\ dir # "assets"
  /\ GoTo(b, "missing")
  /\ UNCHANGED <<left, file, dir, disk, fds, transit, cdn>>

\* fs.stat looks for public/assets; its callback runs later.
Look(b) ==
  /\ stage[b] = "stat"
  /\ GoTo(b, IF dir = "assets" THEN "open" ELSE "missing")
  /\ UNCHANGED <<left, file, dir, disk, fds, transit, cdn>>

MakeDirectory(b) ==
  /\ stage[b] = "missing"
  /\ dir = "none"
  /\ dir' = "assets"
  /\ GoTo(b, "open")
  /\ UNCHANGED <<left, file, disk, fds, transit, cdn>>

\* createWriteStream opens the file, which truncates it.
Open(b) ==
  /\ stage[b] = "open"
  /\ fds < MaxDescriptors
  /\ fds' = fds + 1
  /\ \E f \in left[b] :
       /\ file' = [file EXCEPT ![b] = f]
       /\ disk' = [disk EXCEPT ![f] = {}]
  /\ GoTo(b, "write")
  /\ UNCHANGED <<left, dir, transit, cdn>>

\* The entry of a file has no bytes, which nobody has looked at before: the stream
\* is made, Buffer.from throws, and the batch ends there, rejected.
NoBytes(b) ==
  /\ stage[b] = "open"
  /\ fds < MaxDescriptors
  /\ fds' = fds + 1
  /\ \E f \in left[b] : disk' = [disk EXCEPT ![f] = {}]
  /\ GoTo(b, "failed")
  /\ UNCHANGED <<left, file, dir, transit, cdn>>

\* The bytes are written from the start of the file: what another batch wrote
\* since the file was opened is covered, or sticks out behind.
Write(b) ==
  LET f == file[b]
      rest == left[b] \ {f}
  IN
  /\ stage[b] = "write"
  /\ \E bytes \in {{b}, disk[f] \cup {b}} : disk' = [disk EXCEPT ![f] = bytes]
  /\ GoTo(b, IF rest = {} THEN "upload" ELSE "stat")
  /\ left' = [left EXCEPT ![b] = IF rest = {} THEN files[b] ELSE rest]
  /\ file' = [file EXCEPT ![b] = NoFile]
  /\ UNCHANGED <<dir, fds, transit, cdn>>

\* An upload reads its file.
Read(b) ==
  /\ stage[b] \in Uploading
  /\ \E f \in left[b] :
       /\ left' = [left EXCEPT ![b] = @ \ {f}]
       /\ transit' = transit \cup {[batch |-> b, file |-> f, bytes |-> disk[f]]}
  /\ UNCHANGED <<stage, file, dir, disk, fds, cdn>>

\* Mutant of Ended: the first upload settles the batch (Promise.race).
EndedByFirst(x, good) ==
  /\ transit' = transit \ {x}
  /\ GoTo(x.batch, IF good THEN "done" ELSE "failed")

\* Mutant of Ended: failed uploads are not told apart (Promise.allSettled).
EndedAllSettled(x, good) ==
  LET b == x.batch
      last == left[b] = {} /\ \A y \in transit : y.batch = b => y = x
  IN
  /\ transit' = transit \ {x}
  /\ GoTo(b, IF last THEN "done" ELSE "upload")

\* Upload x ends; the last one settles the Promise.all of its batch.
Ended(x, good) ==
  LET b == x.batch
      last == left[b] = {} /\ \A y \in transit : y.batch = b => y = x
      fine == good /\ stage[b] = "upload"
  IN
  /\ transit' = transit \ {x}
  /\ GoTo(b, IF last THEN (IF fine THEN "done" ELSE "failed")
                     ELSE (IF fine THEN "upload" ELSE "broken"))

\* The CDN takes the image; an earlier one of that public id is replaced.
Stored(b) ==
  \E x \in transit :
    /\ x.batch = b
    /\ x.bytes # {}
    /\ cdn' = [cdn EXCEPT ![PublicId[x.file]] = x.bytes]
    /\ Ended(x, TRUE)
    /\ UNCHANGED <<left, file, dir, disk, fds>>

Refused(x) == Ended(x, FALSE) /\ UNCHANGED <<left, file, dir, disk, fds, cdn>>

\* The CDN refuses an empty file.
EmptyRefused(b) == \E x \in transit : x.batch = b /\ x.bytes = {} /\ Refused(x)

\* The call of the CDN fails.
UploadFails(b) == \E x \in transit : x.batch = b /\ Refused(x)

-----------------------------------------------------------------------------
(* The ways a batch ends the process.                                      *)

\* mkdirSync throws in the callback of fs.stat: public is there by now.
MkdirThrows(b) == stage[b] = "missing" /\ dir # "none" /\ UNCHANGED dir

\* The second mkdirSync fails, or the process dies between the two.
HalfMade(b) == stage[b] = "missing" /\ dir = "none" /\ dir' = "public"

\* No descriptor is left.
NoDescriptor(b) == stage[b] = "open" /\ fds = MaxDescriptors /\ UNCHANGED dir

\* open or write fails, and the stream has no listener for its error event.
DiskFails(b) == stage[b] \in {"open", "write"} /\ UNCHANGED dir

\* What the end of the process, whatever its cause, does to the batches.
Killed ==
  /\ stage' = [b \in Batch |-> IF stage[b] \in Loop \cup Uploading THEN "dead" ELSE stage[b]]
  /\ fds' = 0
  /\ transit' = {}
  /\ UNCHANGED <<left, file, disk, cdn>>
=============================================================================
