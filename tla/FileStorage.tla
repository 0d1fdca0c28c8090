----------------------------- MODULE FileStorage -----------------------------
(***************************************************************************)
(* save_upload_stream (app/document_processing/file_storage.py): an upload *)
(* is streamed into a temporary file of its own and published under its    *)
(* destination by a hard link.  Several calls run at once, in the threads  *)
(* of one API process, which may die and be started again; two of them may *)
(* name the same destination, for the function promises that an existing   *)
(* one is never replaced.                                                  *)
(*                                                                         *)
(* Bytes are counted, not represented: a file holds the first disk[w]      *)
(* bytes of the source of the call w that wrote it.  The temporary name    *)
(* and the published one are links to that same file.  Removing a          *)
(* published file is the business of the callers (AsyncIngestion,          *)
(* SyncIngestion) and of DocumentService.                                  *)
(***************************************************************************)
EXTENDS Naturals, FiniteSets

CONSTANTS
  Calls,           \* the calls of save_upload_stream
  Paths,           \* their destinations
  Lengths,         \* the lengths, in bytes, an upload may have
  MaxUploadBytes,  \* max_upload_bytes
  BufferSize,      \* buffer_size
  None             \* no call

ASSUME NoneAssumption == None \notin Calls
ASSUME LengthsAssumption == Lengths \subseteq Nat
\* The two ValueErrors of save_upload_stream.
ASSUME BoundsAssumption == MaxUploadBytes \in Nat \ {0} /\ BufferSize \in Nat \ {0}

VARIABLES
  destination,  \* what each call was given: where to,
  length,       \* and how much there is to read
  pc,           \* the next step of each call, or how it ended
  size,         \* size_bytes of each call
  disk,         \* the bytes its file holds
  parts,        \* the calls whose temporary name is in the directory
  published     \* the call whose file a destination is, None for no file

arguments == <<destination, length>>
vars == <<arguments, pc, size, disk, parts, published>>

\* "discard" and "unlink" are _remove_if_present before an error and before the
\* return; "dead" calls were cut off with their process.
Running == {"check", "open", "stream", "publish", "unlink", "discard"}
Ended == {"returned", "raised", "dead"}

Init ==
  /\ destination \in [Calls -> Paths]
  /\ length \in [Calls -> Lengths]
  /\ pc = [w \in Calls |-> "idle"]
  /\ size = [w \in Calls |-> 0]
  /\ disk = [w \in Calls |-> 0]
  /\ parts = {}
  /\ published = [p \in Paths |-> None]

GoTo(w, step) == pc' = [pc EXCEPT ![w] = step]

Begin(w) ==
  /\ pc[w] = "idle"
  /\ GoTo(w, "check")
  /\ UNCHANGED <<arguments, size, disk, parts, published>>

\* mkdir and exists(), either of which may raise.
CheckDestination(w) ==
  /\ pc[w] = "check"
  /\ \/ published[destination[w]] = None /\ GoTo(w, "open")
     \/ GoTo(w, "discard")
  /\ UNCHANGED <<arguments, size, disk, parts, published>>

\* open("xb") of a name that no other call has.
OpenPart(w) ==
  /\ pc[w] = "open"
  /\ \/ parts' = parts \union {w} /\ GoTo(w, "stream")
     \/ GoTo(w, "discard") /\ UNCHANGED parts
  /\ UNCHANGED <<arguments, size, disk, published>>

\* Writing to the file is buffered: what is on the disk may lag behind what was
\* written, until the file is closed, and a write or the close may fail half-way.
Flushed(w, written, d) == d \in disk[w]..written

\* Mutation: the limit is checked once the block is written.
ReadBlockThenCheck(w) ==
  /\ pc[w] = "stream"
  /\ size[w] < length[w]
  /\ \E n \in 1..BufferSize, d \in 0..length[w] :
       /\ size[w] + n <= length[w]
       /\ size' = [size EXCEPT ![w] = @ + n]
       /\ Flushed(w, size'[w], d) /\ disk' = [disk EXCEPT ![w] = d]
       /\ \/ size'[w] <= MaxUploadBytes /\ GoTo(w, "stream")
          \/ GoTo(w, "discard")
  /\ UNCHANGED <<arguments, parts, published>>

\* One iteration with a block: over the limit it is not written any more.
\* Reading may raise too, and so may the write.
ReadBlock(w) ==
  /\ pc[w] = "stream"
  /\ size[w] < length[w]
  /\ \E n \in 1..BufferSize, d \in 0..length[w] :
       /\ size[w] + n <= length[w]
       /\ size' = [size EXCEPT ![w] = @ + n]
       /\ \/ /\ size'[w] <= MaxUploadBytes
             /\ Flushed(w, size'[w], d)
             /\ GoTo(w, "stream") \/ GoTo(w, "discard")
          \/ /\ size'[w] > MaxUploadBytes
             /\ Flushed(w, size[w], d)
             /\ GoTo(w, "discard")
       /\ disk' = [disk EXCEPT ![w] = d]
  /\ UNCHANGED <<arguments, parts, published>>

\* source.read raises, or returns what is not bytes.
ReadFails(w) ==
  /\ pc[w] = "stream"
  /\ \E d \in 0..length[w] : Flushed(w, size[w], d) /\ disk' = [disk EXCEPT ![w] = d]
  /\ GoTo(w, "discard")
  /\ UNCHANGED <<arguments, size, parts, published>>

\* Mutation: a failing close is not noticed.
CloseBlindly(w) ==
  /\ pc[w] = "stream"
  /\ size[w] = length[w]
  /\ \E d \in 0..length[w] : Flushed(w, size[w], d) /\ disk' = [disk EXCEPT ![w] = d]
  /\ GoTo(w, IF size[w] = 0 THEN "discard" ELSE "publish")
  /\ UNCHANGED <<arguments, size, parts, published>>

\* The empty block ends the loop and the file is closed; an empty upload is an
\* error.
CloseFile(w) ==
  /\ pc[w] = "stream"
  /\ size[w] = length[w]
  /\ \E d \in 0..length[w] :
       /\ Flushed(w, size[w], d)
       /\ disk' = [disk EXCEPT ![w] = d]
       /\ \/ d = size[w] /\ GoTo(w, IF size[w] = 0 THEN "discard" ELSE "publish")
          \/ GoTo(w, "discard")
  /\ UNCHANGED <<arguments, size, parts, published>>

\* Mutation: os.replace instead of os.link.
PublishReplacing(w) ==
  /\ pc[w] = "publish"
  /\ \/ /\ published' = [published EXCEPT ![destination[w]] = w]
        /\ GoTo(w, "unlink")
     \/ GoTo(w, "discard") /\ UNCHANGED published
  /\ UNCHANGED <<arguments, size, disk, parts>>

\* os.link, which fails if the destination exists.
Publish(w) ==
  /\ pc[w] = "publish"
  /\ \/ /\ published[destination[w]] = None
        /\ published' = [published EXCEPT ![destination[w]] = w]
        /\ GoTo(w, "unlink")
     \/ GoTo(w, "discard") /\ UNCHANGED published
  /\ UNCHANGED <<arguments, size, disk, parts>>

\* Mutation: an OSError of the unlink is raised, also once published.
RemovePartRaising(w) ==
  /\ pc[w] \in {"unlink", "discard"}
  /\ \/ /\ parts' = parts \ {w}
        /\ GoTo(w, IF pc[w] = "unlink" THEN "returned" ELSE "raised")
     \/ UNCHANGED parts /\ GoTo(w, "raised")
  /\ UNCHANGED <<arguments, size, disk, published>>

\* _remove_if_present, whose OSError is swallowed, then the return or the raise.
RemovePart(w) ==
  /\ pc[w] \in {"unlink", "discard"}
  /\ parts' \in {parts, parts \ {w}}
  /\ GoTo(w, IF pc[w] = "unlink" THEN "returned" ELSE "raised")
  /\ UNCHANGED <<arguments, size, disk, published>>

\* The process dies with all its calls; the calls still idle are those of the
\* process that replaces it.
Die ==
  /\ \E w \in Calls : pc[w] \in Running
  /\ pc' = [w \in Calls |-> IF pc[w] \in Running THEN "dead" ELSE pc[w]]
  /\ UNCHANGED <<arguments, size, disk, parts, published>>

Step(w) ==
  \/ Begin(w) \/ CheckDestination(w) \/ OpenPart(w)
  \/ ReadBlock(w) \/ ReadFails(w) \/ CloseFile(w)
  \/ Publish(w) \/ RemovePart(w)

Done == (\A w \in Calls : pc[w] \in Ended) /\ UNCHANGED vars

Next == (\E w \in Calls : Step(w)) \/ Die \/ Done

Spec == Init /\ [][Next]_vars

(***************************************************************************)
(* Properties                                                              *)
(***************************************************************************)
TypeOK ==
  /\ destination \in [Calls -> Paths]
  /\ length \in [Calls -> Lengths]
  /\ pc \in [Calls -> {"idle"} \union Running \union Ended]
  /\ size \in [Calls -> Nat]
  /\ disk \in [Calls -> Nat]
  /\ parts \in SUBSET Calls
  /\ published \in [Paths -> Calls \union {None}]

\* Whatever fails, races or dies, a file under a destination is the whole of one
\* upload for that destination, neither empty nor beyond the limit: a reader can
\* never meet an upload in progress.
PublishedIsWhole ==
  \A p \in Paths : \A w \in Calls : published[p] = w =>
    /\ destination[w] = p
    /\ disk[w] = length[w]
    /\ length[w] \in 1..MaxUploadBytes

\* The limit bounds what an upload can put on the disk, not only what is kept
\* of it.
DiskIsBounded == \A w \in Calls : disk[w] <= MaxUploadBytes

\* The caller can trust the outcome: a call that returned is the one whose file
\* is there, and one that raised published nothing, so removing the destination
\* of one's own upload after an error never hides a stored document.
OutcomeIsTrue ==
  \A w \in Calls :
    /\ pc[w] = "returned" => published[destination[w]] = w /\ size[w] = disk[w]
    /\ pc[w] = "raised" => \A p \in Paths : published[p] # w

\* No step replaces or changes a published file.
NeverReplaced ==
  [][\A p \in Paths : published[p] # None =>
       published'[p] = published[p] /\ disk'[published[p]] = disk[published[p]]]_vars
=============================================================================
