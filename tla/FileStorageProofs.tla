-------------------------- MODULE FileStorageProofs --------------------------
(***************************************************************************)
(* What FileStorage guarantees for any number of calls and destinations,   *)
(* and any lengths, limit and buffer size.                                 *)
(***************************************************************************)
EXTENDS FileStorage, TLAPS

\* Calls whose file is complete, and those that have published it.
Complete == {"publish", "unlink", "returned"}
Published == {"unlink", "returned", "dead"}

\* How far each call has come determines what is on the disk.
Counted(w) ==
  /\ disk[w] <= size[w] /\ disk[w] <= MaxUploadBytes
  /\ pc[w] \in {"idle", "check", "open"} => size[w] = 0
  /\ pc[w] = "stream" => size[w] <= MaxUploadBytes
  /\ pc[w] \in Complete =>
       /\ disk[w] = length[w] /\ size[w] = length[w]
       /\ length[w] \in 1..MaxUploadBytes

\* A destination holds a file only of a call past its os.link.
LinkedBy(w) ==
  /\ \A p \in Paths : published[p] = w =>
       /\ destination[w] = p
       /\ pc[w] \in Published
       /\ disk[w] = length[w] /\ length[w] \in 1..MaxUploadBytes
  /\ pc[w] \in {"unlink", "returned"} => published[destination[w]] = w

IInv == TypeOK /\ \A w \in Calls : Counted(w) /\ LinkedBy(w)

LEMMA InitHolds == Init => IInv
<1> SUFFICES ASSUME Init PROVE IInv
  OBVIOUS
<1>1. TypeOK
  BY DEF Init, TypeOK
<1>2. \A w \in Calls : Counted(w)
  BY BoundsAssumption DEF Init, Counted, Complete
<1>3. \A w \in Calls : LinkedBy(w)
  BY NoneAssumption DEF Init, LinkedBy
<1>4. QED
  BY <1>1, <1>2, <1>3 DEF IInv

\* The types are kept by every step of a call.
LEMMA StepTypes ==
  ASSUME TypeOK, NEW w \in Calls, Step(w)
  PROVE  /\ TypeOK' /\ UNCHANGED arguments
         /\ \A v \in Calls : v # w => pc'[v] = pc[v] /\ size'[v] = size[v] /\ disk'[v] = disk[v]
<1> USE DEF GoTo, arguments
<1> DEFINE Others == \A v \in Calls : v # w =>
                       pc'[v] = pc[v] /\ size'[v] = size[v] /\ disk'[v] = disk[v]
<1>0. length[w] \in Nat /\ size[w] \in Nat /\ disk[w] \in Nat
  BY LengthsAssumption DEF TypeOK
<1>1. CASE Begin(w) \/ CheckDestination(w) \/ OpenPart(w) \/ RemovePart(w)
  <2>1. /\ pc' \in [Calls -> {"idle"} \union Running \union Ended]
        /\ parts' \in SUBSET Calls
        /\ UNCHANGED <<destination, length, size, disk, published>>
        /\ \A v \in Calls : v # w => pc'[v] = pc[v]
    BY <1>1 DEF Begin, CheckDestination, OpenPart, RemovePart, TypeOK, Running, Ended
  <2>2. QED
    BY <2>1 DEF TypeOK
<1>2. CASE ReadBlock(w)
  <2>1. PICK n \in 1..BufferSize, d \in 0..length[w] :
          /\ size' = [size EXCEPT ![w] = @ + n]
          /\ disk' = [disk EXCEPT ![w] = d]
          /\ GoTo(w, "stream") \/ GoTo(w, "discard")
    BY <1>2 DEF ReadBlock
  <2>2. n \in Nat /\ d \in Nat
    BY <1>0, <2>1, BoundsAssumption
  <2>3. UNCHANGED <<destination, length, parts, published>>
    BY <1>2 DEF ReadBlock
  <2>4. /\ pc' \in [Calls -> {"idle"} \union Running \union Ended]
        /\ size' \in [Calls -> Nat] /\ disk' \in [Calls -> Nat] /\ Others
    BY <1>0, <2>1, <2>2 DEF TypeOK, Running
  <2>5. QED
    BY <2>3, <2>4 DEF TypeOK
<1>3. CASE ReadFails(w) \/ CloseFile(w)
  <2>1. PICK d \in 0..length[w] :
          /\ disk' = [disk EXCEPT ![w] = d]
          /\ GoTo(w, "publish") \/ GoTo(w, "discard")
    BY <1>3 DEF ReadFails, CloseFile
  <2>2. d \in Nat
    BY <1>0, <2>1
  <2>3. UNCHANGED <<destination, length, size, parts, published>>
    BY <1>3 DEF ReadFails, CloseFile
  <2>4. /\ pc' \in [Calls -> {"idle"} \union Running \union Ended]
        /\ disk' \in [Calls -> Nat] /\ Others
    BY <2>1, <2>2, <2>3 DEF TypeOK, Running
  <2>5. QED
    BY <2>3, <2>4 DEF TypeOK
<1>4. CASE Publish(w)
  BY <1>4 DEF Publish, TypeOK, Running
<1>5. QED
  BY <1>1, <1>2, <1>3, <1>4 DEF Step

\* The call that takes the step keeps its own count.
LEMMA StepCounts ==
  ASSUME IInv, NEW w \in Calls, Step(w)
  PROVE  Counted(w)'
<1> USE DEF GoTo, arguments
<1>0. /\ TypeOK /\ Counted(w) /\ length' = length
      /\ length[w] \in Nat /\ size[w] \in Nat /\ disk[w] \in Nat
      /\ MaxUploadBytes \in Nat
  BY StepTypes, LengthsAssumption, BoundsAssumption DEF IInv, TypeOK
<1>1. CASE Begin(w) \/ CheckDestination(w) \/ OpenPart(w)
  <2>1. size[w] = 0 /\ disk[w] = 0
    BY <1>0, <1>1 DEF Begin, CheckDestination, OpenPart, Counted
  <2>2. size' = size /\ disk' = disk /\ pc'[w] \in {"check", "open", "stream", "discard"}
    BY <1>0, <1>1 DEF Begin, CheckDestination, OpenPart, TypeOK
  <2>3. QED
    BY <1>0, <2>1, <2>2 DEF Counted, Complete
<1>2. CASE ReadBlock(w)
  <2>1. PICK n \in 1..BufferSize, d \in 0..length[w] :
          /\ size' = [size EXCEPT ![w] = @ + n]
          /\ disk' = [disk EXCEPT ![w] = d]
          /\ \/ /\ size'[w] <= MaxUploadBytes
                /\ Flushed(w, size'[w], d)
                /\ GoTo(w, "stream") \/ GoTo(w, "discard")
             \/ Flushed(w, size[w], d) /\ GoTo(w, "discard")
    BY <1>2 DEF ReadBlock
  <2>2. n \in Nat /\ d \in Nat /\ pc[w] = "stream"
    BY <1>0, <1>2, <2>1, BoundsAssumption DEF ReadBlock
  <2>3. size'[w] = size[w] + n /\ disk'[w] = d /\ size[w] <= MaxUploadBytes
    BY <1>0, <2>1, <2>2 DEF TypeOK, Counted
  <2>4. /\ d <= size'[w] /\ d <= MaxUploadBytes
        /\ \/ pc'[w] = "stream" /\ size'[w] <= MaxUploadBytes
           \/ pc'[w] = "discard"
    BY <1>0, <2>1, <2>2, <2>3 DEF Flushed, TypeOK
  <2>5. QED
    BY <2>3, <2>4 DEF Counted, Complete
<1>3. CASE ReadFails(w) \/ CloseFile(w)
  <2>1. PICK d \in 0..length[w] :
          /\ disk' = [disk EXCEPT ![w] = d]
          /\ Flushed(w, size[w], d)
          /\ \/ GoTo(w, "discard")
             \/ /\ GoTo(w, "publish") /\ d = size[w]
                /\ size[w] # 0 /\ size[w] = length[w]
    BY <1>3 DEF ReadFails, CloseFile
  <2>2. /\ d \in Nat /\ size' = size /\ disk'[w] = d
        /\ d <= size[w] /\ size[w] <= MaxUploadBytes
    BY <1>0, <1>3, <2>1 DEF ReadFails, CloseFile, Flushed, Counted, TypeOK
  <2>3. CASE pc'[w] = "discard"
    BY <1>0, <2>2, <2>3 DEF Counted, Complete
  <2>4. CASE pc'[w] = "publish"
    <3>1. d = size[w] /\ size[w] # 0 /\ size[w] = length[w]
      BY <1>0, <2>1, <2>4 DEF TypeOK
    <3>2. QED
      BY <1>0, <2>2, <2>4, <3>1 DEF Counted, Complete
  <2>5. QED
    BY <1>0, <2>1, <2>3, <2>4 DEF TypeOK
<1>4. CASE Publish(w) \/ RemovePart(w)
  <2>1. /\ size' = size /\ disk' = disk
        /\ \/ pc'[w] \in {"unlink", "returned"} /\ pc[w] \in {"publish", "unlink"}
           \/ pc'[w] \in {"discard", "raised"}
    BY <1>0, <1>4 DEF Publish, RemovePart, TypeOK
  <2>2. QED
    BY <1>0, <2>1 DEF Counted, Complete
<1>5. QED
  BY <1>1, <1>2, <1>3, <1>4 DEF Step

\* A step of the call w leaves the links right, its own and those of the others.
LEMMA StepLinks ==
  ASSUME IInv, NEW w \in Calls, Step(w), NEW v \in Calls
  PROVE  LinkedBy(v)'
<1> USE DEF GoTo, arguments
<1>0. /\ TypeOK /\ Counted(w) /\ LinkedBy(v) /\ LinkedBy(w)
      /\ destination' = destination /\ length' = length
      /\ destination[w] \in Paths /\ destination[v] \in Paths
      /\ v # w => pc'[v] = pc[v] /\ disk'[v] = disk[v]
  BY StepTypes DEF IInv, TypeOK
<1>1. CASE Publish(w) /\ published' # published
  <2>1. /\ published[destination[w]] = None
        /\ published' = [published EXCEPT ![destination[w]] = w]
        /\ pc'[w] = "unlink" /\ pc[w] = "publish" /\ disk' = disk
    BY <1>0, <1>1 DEF Publish, TypeOK
  <2>2. CASE v = w
    BY <1>0, <2>1, <2>2 DEF LinkedBy, Counted, Complete, Published, TypeOK
  <2>3. CASE v # w
    BY <1>0, <2>1, <2>3, NoneAssumption DEF LinkedBy, TypeOK
  <2>4. QED
    BY <2>2, <2>3
<1>2. CASE published' = published
  <2>1. CASE v # w
    BY <1>0, <1>2, <2>1 DEF LinkedBy
  <2>2. CASE v = w
    <3>1. CASE RemovePart(w)
      BY <1>0, <1>2, <2>2, <3>1 DEF RemovePart, LinkedBy, Published, TypeOK
    <3>2. CASE ~RemovePart(w)
      <4>1. pc[w] \notin Published /\ pc'[w] \notin {"unlink", "returned"}
        BY <1>0, <1>2, <3>2, NoneAssumption
        DEF Step, Begin, CheckDestination, OpenPart, ReadBlock, ReadFails, CloseFile,
            Publish, Published, TypeOK
      <4>2. QED
        BY <1>0, <1>2, <2>2, <4>1 DEF LinkedBy
    <3>3. QED
      BY <3>1, <3>2
  <2>3. QED
    BY <2>1, <2>2
<1>3. QED
  BY <1>1, <1>2 DEF Step, Begin, CheckDestination, OpenPart, ReadBlock, ReadFails,
     CloseFile, RemovePart

LEMMA StepPreserves ==
  ASSUME IInv, NEW w \in Calls, Step(w)
  PROVE  IInv'
<1>1. TypeOK'
  BY StepTypes DEF IInv
<1>2. \A v \in Calls : Counted(v)'
  <2> SUFFICES ASSUME NEW v \in Calls PROVE Counted(v)'
    OBVIOUS
  <2>1. CASE v = w
    BY <2>1, StepCounts
  <2>2. CASE v # w
    BY <2>2, StepTypes DEF IInv, Counted, arguments
  <2>3. QED
    BY <2>1, <2>2
<1>3. \A v \in Calls : LinkedBy(v)'
  BY StepLinks
<1>4. QED
  BY <1>1, <1>2, <1>3 DEF IInv

LEMMA DiePreserves == IInv /\ Die => IInv'
<1> SUFFICES ASSUME IInv, Die PROVE IInv'
  OBVIOUS
<1>1. TypeOK'
  BY DEF IInv, TypeOK, Die, Ended, arguments
<1>2. ASSUME NEW w \in Calls
      PROVE  pc'[w] = pc[w] \/ (pc'[w] = "dead" /\ pc[w] \in Running)
  BY DEF Die
<1>3. ASSUME NEW w \in Calls
      PROVE  Counted(w)' /\ LinkedBy(w)'
  BY <1>2, <1>3 DEF IInv, Die, Counted, LinkedBy, Complete, Published, Running, arguments
<1>4. QED
  BY <1>1, <1>3 DEF IInv

LEMMA NextPreserves == IInv /\ [Next]_vars => IInv'
<1> SUFFICES ASSUME IInv, [Next]_vars PROVE IInv'
  OBVIOUS
<1>1. CASE \E w \in Calls : Step(w)
  BY <1>1, StepPreserves
<1>2. CASE Die
  BY <1>2, DiePreserves
<1>3. CASE UNCHANGED vars
  BY <1>3 DEF IInv, TypeOK, Counted, LinkedBy, vars, arguments
<1>4. QED
  BY <1>1, <1>2, <1>3 DEF Next, Done

\* The counts, the links and the types, at every moment of every run.
THEOREM Invariance == Spec => []IInv
  BY InitHolds, NextPreserves, PTL DEF Spec

\* A published file is one whole upload within the limit, through every race,
\* error and death of the process.
THEOREM PublishedWhole == Spec => []PublishedIsWhole
<1>1. IInv => PublishedIsWhole
  BY DEF IInv, LinkedBy, PublishedIsWhole
<1>2. QED
  BY <1>1, Invariance, PTL

\* No upload puts more than max_upload_bytes on the disk.
THEOREM DiskBounded == Spec => []DiskIsBounded
<1>1. IInv => DiskIsBounded
  BY DEF IInv, Counted, DiskIsBounded
<1>2. QED
  BY <1>1, Invariance, PTL

\* What a call reports is what it did.
THEOREM OutcomesTrue == Spec => []OutcomeIsTrue
<1>1. IInv => OutcomeIsTrue
  BY DEF IInv, Counted, LinkedBy, Complete, Published, OutcomeIsTrue
<1>2. QED
  BY <1>1, Invariance, PTL

\* A published file is never replaced and never written to again.
THEOREM PublishedForGood == Spec => NeverReplaced
<1>1. IInv /\ [Next]_vars =>
        [\A p \in Paths : published[p] # None =>
           published'[p] = published[p] /\ disk'[published[p]] = disk[published[p]]]_vars
  <2> SUFFICES ASSUME IInv, Next, NEW p \in Paths, published[p] # None
               PROVE  published'[p] = published[p] /\ disk'[published[p]] = disk[published[p]]
    OBVIOUS
  <2>1. /\ TypeOK /\ published[p] \in Calls
        /\ pc[published[p]] \in Published
    BY DEF IInv, TypeOK, LinkedBy
  <2>2. CASE Die \/ Done
    BY <2>2 DEF Die, Done, vars, arguments
  <2>3. ASSUME NEW w \in Calls, Step(w)
        PROVE  published'[p] = published[p] /\ disk'[published[p]] = disk[published[p]]
    <3>1. published'[p] = published[p]
      BY <2>1, <2>3 DEF Step, Begin, CheckDestination, OpenPart, ReadBlock, ReadFails,
         CloseFile, Publish, RemovePart, TypeOK, GoTo
    <3>2. CASE published[p] # w
      BY <2>1, <2>3, <3>1, <3>2, StepTypes
    <3>3. CASE published[p] = w
      BY <2>1, <2>3, <3>3 DEF Step, Begin, CheckDestination, OpenPart, ReadBlock,
         ReadFails, CloseFile, Publish, RemovePart, Published
    <3>4. QED
      BY <3>1, <3>2, <3>3
  <2>4. QED
    BY <2>2, <2>3 DEF Next
<1>2. QED
  BY <1>1, Invariance, PTL DEF Spec, NeverReplaced
=============================================================================
