--------------------------- MODULE R7RunsProofs ---------------------------
(***************************************************************************)
(* That the R7 programs stay within what they were approved to pay, leave  *)
(* artifacts that belong together and export whole extractions only, for   *)
(* any number of invocations, every batch size and all limits.             *)
(***************************************************************************)
EXTENDS R7Runs, SetFolds, SequenceTheorems, TLAPS

(***************************************************************************)
(* Batches                                                                 *)
(***************************************************************************)
LEMMA Ceiling ==
  ASSUME NEW n \in Nat, NEW b \in Nat \ {0}
  PROVE  /\ CeilDiv(n, b) \in Nat
         /\ n <= CeilDiv(n, b) * b
         /\ n > 0 => (CeilDiv(n, b) - 1) * b < n
         /\ n = 0 => CeilDiv(n, b) = 0
  BY DEF CeilDiv

LEMMA CeilingMonotonic ==
  ASSUME NEW m \in Nat, NEW n \in Nat, m <= n, NEW b \in Nat \ {0}
  PROVE  CeilDiv(m, b) <= CeilDiv(n, b)
  BY DEF CeilDiv

LEMMA BatchSizes ==
  ASSUME NEW n \in Nat
  PROVE  /\ BatchesOf(n) \in Seq(Nat) /\ Len(BatchesOf(n)) = CeilDiv(n, BatchSize)
         /\ TextsOf(n, 0) = 0
         /\ TextsOf(n, CeilDiv(n, BatchSize)) = n
         /\ \A k \in Nat : /\ TextsOf(n, k) \in Nat /\ TextsOf(n, k) <= n
                           /\ k < CeilDiv(n, BatchSize)
                                => TextsOf(n, k + 1) = TextsOf(n, k) + BatchesOf(n)[k + 1]
<1> DEFINE B == BatchSize
           c == CeilDiv(n, B)
<1>1. B \in Nat \ {0}
  BY LimitsAssumption
<1>2. c \in Nat /\ n <= c * B /\ (n > 0 => (c - 1) * B < n) /\ (n = 0 => c = 0)
  BY <1>1, Ceiling
<1> HIDE DEF B, c
<1>3. \A k \in 1..c : (k - 1) * B < n
  <2> SUFFICES ASSUME NEW k \in 1..c PROVE (k - 1) * B < n
    OBVIOUS
  <2>1. n > 0
    BY <1>2
  <2>2. k - 1 <= c - 1 /\ k - 1 \in Nat /\ c - 1 \in Nat
    BY <1>2
  <2>3. (k - 1) * B <= (c - 1) * B
    BY <2>2, <1>1
  <2>4. (k - 1) * B \in Nat /\ (c - 1) * B \in Nat
    BY <2>2, <1>1
  <2> QED
    BY <2>1, <2>3, <2>4, <1>2
<1>4. BatchesOf(n) = [i \in 1..c |-> IF i * B <= n THEN B ELSE n - (i - 1) * B]
  BY DEF BatchesOf, B, c
<1>5. \A k \in 1..c : BatchesOf(n)[k] \in Nat
  <2> SUFFICES ASSUME NEW k \in 1..c PROVE BatchesOf(n)[k] \in Nat
    OBVIOUS
  <2>1. (k - 1) * B < n /\ (k - 1) * B \in Nat
    BY <1>1, <1>2, <1>3
  <2> QED
    BY <2>1, <1>1, <1>4
<1>6. BatchesOf(n) \in Seq(Nat) /\ Len(BatchesOf(n)) = c
  BY <1>2, <1>4, <1>5
<1>7. TextsOf(n, 0) = 0 /\ TextsOf(n, c) = n
  <2>1. c * B \in Nat
    BY <1>1, <1>2
  <2> QED
    BY <1>1, <1>2, <2>1 DEF TextsOf, B
<1>8. ASSUME NEW k \in Nat
      PROVE  /\ TextsOf(n, k) \in Nat /\ TextsOf(n, k) <= n
             /\ k < c => TextsOf(n, k + 1) = TextsOf(n, k) + BatchesOf(n)[k + 1]
  <2>1. k * B \in Nat /\ (k + 1) * B = k * B + B
    BY <1>1
  <2>2. TextsOf(n, k) \in Nat /\ TextsOf(n, k) <= n
    BY <2>1 DEF TextsOf, B
  <2>3. ASSUME k < c PROVE TextsOf(n, k + 1) = TextsOf(n, k) + BatchesOf(n)[k + 1]
    <3>1. k + 1 \in 1..c /\ (k + 1) - 1 = k
      BY <2>3, <1>2
    <3>2. k * B < n
      BY <3>1, <1>3
    <3>3. BatchesOf(n)[k + 1] = IF (k + 1) * B <= n THEN B ELSE n - k * B
      BY <3>1, <1>4
    <3>4. TextsOf(n, k) = k * B
      BY <3>2, <2>1 DEF TextsOf, B
    <3>5. TextsOf(n, k + 1) = IF (k + 1) * B <= n THEN (k + 1) * B ELSE n
      BY DEF TextsOf, B
    <3> QED
      BY <3>3, <3>4, <3>5, <2>1, <1>1
  <2> QED
    BY <2>2, <2>3
<1> QED
  BY <1>6, <1>7, <1>8 DEF c, B

LEMMA PlanTypes ==
  ASSUME RunsTypeOK
  PROVE  /\ plan.documents \in Nat /\ plan.queries \in Nat /\ plan.bytes \in Nat
         /\ program = "auto_graph" => plan.documents = 0
         /\ MaxRequests[program] \in Nat /\ MaxTokens[program] \in Nat
<1>1. 2 * BatchSize \in Nat /\ 2 * BatchSize + 1 \in Nat
  BY LimitsAssumption
<1>2. /\ plan.documents \in 0..(2 * BatchSize) /\ plan.queries \in 0..(2 * BatchSize + 1)
      /\ plan.bytes \in 1..2
  BY DEF RunsTypeOK, Plans
<1>3. program = "auto_graph" => plan.documents = 0
  BY DEF RunsTypeOK, Calibrations
<1> QED
  BY <1>1, <1>2, <1>3, LimitsAssumption DEF RunsTypeOK

\* The requests send what is planned, each its own part of it.
LEMMA SendTexts ==
  ASSUME RunsTypeOK
  PROVE  /\ Sends \in Seq(Nat)
         /\ Texts(0) = 0
         /\ \A k \in 0..Len(Sends) :
              /\ Texts(k) \in Nat /\ Texts(k) <= plan.documents + plan.queries
              /\ k < Len(Sends) => Texts(k + 1) = Texts(k) + Sends[k + 1]
<1> DEFINE first == CeilDiv(plan.documents, BatchSize)
           last == CeilDiv(plan.queries, BatchSize)
<1>1. /\ plan.documents \in Nat /\ plan.queries \in Nat
      /\ program = "auto_graph" => plan.documents = 0
  BY PlanTypes
<1>2. CASE program = "auto_graph"
  <2>1. Sends = [i \in 1..plan.queries |-> 1]
    BY <1>2 DEF Sends
  <2>2. \A k \in Nat : Texts(k) = k
    BY <1>2 DEF Texts
  <2>3. Sends \in Seq(Nat) /\ Len(Sends) = plan.queries
    BY <1>1, <2>1
  <2> QED
    BY <1>1, <1>2, <2>1, <2>2, <2>3
<1>3. CASE program # "auto_graph"
  <2> DEFINE one == BatchesOf(plan.documents)
             two == BatchesOf(plan.queries)
  <2>1. /\ one \in Seq(Nat) /\ Len(one) = first /\ two \in Seq(Nat) /\ Len(two) = last
        /\ first \in Nat /\ last \in Nat
    BY <1>1, BatchSizes, Ceiling, LimitsAssumption
  <2>2. /\ Sends \in Seq(Nat) /\ Len(Sends) = first + last
        /\ \A k \in 1..(first + last) : Sends[k] = IF k <= first THEN one[k] ELSE two[k - first]
    <3>1. Sends = one \o two
      BY <1>3 DEF Sends
    <3> HIDE DEF one, two, first, last
    <3>2. /\ one \o two \in Seq(Nat)
          /\ Len(one \o two) = Len(one) + Len(two)
          /\ \A i \in 1..(Len(one) + Len(two)) :
               (one \o two)[i] = IF i <= Len(one) THEN one[i] ELSE two[i - Len(one)]
      BY <2>1, ConcatProperties, Zenon
    <3> QED
      BY <3>1, <3>2, <2>1
  <2>3. \A k \in Nat : Texts(k) = IF k <= first THEN TextsOf(plan.documents, k)
                                  ELSE plan.documents + TextsOf(plan.queries, k - first)
    BY <1>3 DEF Texts
  <2>4. /\ TextsOf(plan.documents, 0) = 0 /\ TextsOf(plan.queries, 0) = 0
        /\ TextsOf(plan.documents, first) = plan.documents
        /\ \A k \in Nat : /\ TextsOf(plan.documents, k) \in Nat
                          /\ TextsOf(plan.documents, k) <= plan.documents
                          /\ k < first => TextsOf(plan.documents, k + 1)
                                            = TextsOf(plan.documents, k) + one[k + 1]
                          /\ TextsOf(plan.queries, k) \in Nat
                          /\ TextsOf(plan.queries, k) <= plan.queries
                          /\ k < last => TextsOf(plan.queries, k + 1)
                                           = TextsOf(plan.queries, k) + two[k + 1]
    BY <1>1, BatchSizes
  <2> HIDE DEF one, two, first, last
  <2>5. Texts(0) = 0
    BY <2>1, <2>3, <2>4
  <2>6. ASSUME NEW k \in 0..(first + last)
        PROVE  Texts(k) \in Nat /\ Texts(k) <= plan.documents + plan.queries
    <3>1. k \in Nat
      BY <2>1
    <3>2. CASE k <= first
      <4>1. Texts(k) = TextsOf(plan.documents, k)
        BY <3>1, <3>2, <2>3
      <4>2. TextsOf(plan.documents, k) \in Nat /\ TextsOf(plan.documents, k) <= plan.documents
        BY <3>1, <2>4
      <4> QED
        BY <4>1, <4>2, <1>1
    <3>3. CASE ~(k <= first)
      <4> DEFINE m == k - first
      <4>1. m \in Nat /\ Texts(k) = plan.documents + TextsOf(plan.queries, m)
        BY <3>1, <3>3, <2>1, <2>3
      <4> HIDE DEF m
      <4>2. TextsOf(plan.queries, m) \in Nat /\ TextsOf(plan.queries, m) <= plan.queries
        BY <4>1, <2>4
      <4> QED
        BY <4>1, <4>2, <1>1
    <3> QED
      BY <3>2, <3>3
  <2>7. ASSUME NEW k \in 0..(first + last), k < first + last
        PROVE  Texts(k + 1) = Texts(k) + Sends[k + 1]
    <3>1. k \in Nat /\ k + 1 \in 1..(first + last)
      BY <2>1, <2>7
    <3>2. CASE k < first
      <4>1. k <= first /\ k + 1 <= first /\ k + 1 \in Nat
        BY <3>1, <3>2, <2>1
      <4>2. /\ Texts(k) = TextsOf(plan.documents, k)
            /\ Texts(k + 1) = TextsOf(plan.documents, k + 1)
        BY <3>1, <4>1, <2>3, Zenon
      <4>3. TextsOf(plan.documents, k + 1) = TextsOf(plan.documents, k) + one[k + 1]
        BY <3>1, <3>2, <2>4, Zenon
      <4>4. Sends[k + 1] = one[k + 1]
        BY <3>1, <4>1, <2>2, Zenon
      <4> QED
        BY <4>2, <4>3, <4>4, Zenon
    <3>3. CASE k = first
      <4>1. Texts(k) = plan.documents
        <5>1. Texts(k) = TextsOf(plan.documents, k)
          BY <3>1, <3>3, <2>1, <2>3
        <5> QED
          BY <5>1, <3>3, <2>4
      <4>2. Texts(k + 1) = plan.documents + TextsOf(plan.queries, 1)
        BY <3>1, <3>3, <2>1, <2>3
      <4>3. TextsOf(plan.queries, 0 + 1) = TextsOf(plan.queries, 0) + two[0 + 1]
        BY <3>1, <3>3, <2>1, <2>4
      <4>4. Sends[k + 1] = two[1]
        BY <3>1, <3>3, <2>1, <2>2
      <4>5. TextsOf(plan.queries, 1) = two[1] /\ two[1] \in Nat
        <5>1. 0 + 1 = 1 /\ 1 \in Nat
          OBVIOUS
        <5>2. TextsOf(plan.queries, 0) = 0 /\ TextsOf(plan.queries, 1) \in Nat
          BY <5>1, <2>4, Zenon
        <5>3. TextsOf(plan.queries, 1) = 0 + two[1]
          BY <4>3, <5>1, <5>2, Zenon
        <5>4. two[1] \in Nat
          <6>1. 1 \in 1..last
            BY <2>1, <2>7, <3>1, <3>3
          <6> QED
            BY <6>1, <2>1
        <5> QED
          BY <5>3, <5>4
      <4> QED
        BY <4>1, <4>2, <4>4, <4>5, <1>1
    <3>4. CASE k > first
      <4> DEFINE m == k - first
      <4>1. m \in Nat /\ m < last /\ (k + 1) - first = m + 1
        BY <3>1, <3>4, <2>1, <2>7
      <4>2. Texts(k) = plan.documents + TextsOf(plan.queries, m)
        BY <3>1, <3>4, <2>1, <2>3
      <4>3. Texts(k + 1) = plan.documents + TextsOf(plan.queries, m + 1)
        BY <3>1, <3>4, <4>1, <2>1, <2>3
      <4>4. Sends[k + 1] = two[m + 1]
        BY <3>1, <3>4, <4>1, <2>1, <2>2
      <4>5. two[m + 1] \in Nat /\ TextsOf(plan.queries, m) \in Nat
        <5>1. TextsOf(plan.queries, m) \in Nat
          BY <4>1, <2>4
        <5>2. m + 1 \in 1..Len(two)
          BY <4>1, <2>1
        <5> QED
          BY <5>1, <5>2, <2>1
      <4>6. TextsOf(plan.queries, m + 1) = TextsOf(plan.queries, m) + two[m + 1]
        BY <4>1, <2>4
      <4> HIDE DEF m
      <4> QED
        BY <4>2, <4>3, <4>4, <4>5, <4>6, <1>1
    <3> QED
      BY <3>2, <3>3, <3>4, <2>1, <3>1
  <2> QED
    BY <2>1, <2>2, <2>5, <2>6, <2>7
<1> QED
  BY <1>2, <1>3

\* What is admitted is within the limits of the meter.
LEMMA AdmittedWithinLimits ==
  ASSUME RunsTypeOK, Admitted
  PROVE  /\ Len(Sends) <= MaxRequests[program]
         /\ (plan.documents + plan.queries) * plan.bytes <= MaxTokens[program]
<1>1. (plan.documents + plan.queries) * plan.bytes <= MaxTokens[program]
  BY DEF Admitted, UpperBound
<1>2. CASE program \in Calibrations
  <2>1. program \notin ArmRuns /\ program # "auto_graph"
    BY <1>2 DEF Calibrations, ArmRuns
  <2>2. CalibrationAdmitted
    BY <1>2, <2>1 DEF Admitted
  <2> QED
    BY <1>1, <2>2 DEF CalibrationAdmitted
<1>3. CASE program \in ArmRuns
  <2>1. /\ plan.documents = 0 /\ plan.queries \in Nat /\ plan.queries <= MaxTexts[program]
        /\ program \notin Calibrations /\ program # "auto_graph"
    BY <1>3, PlanTypes DEF RunsTypeOK, Admitted, ArmRunAdmitted, ArmRuns, Calibrations
  <2>2. CeilDiv(plan.queries, BatchSize) <= MaxRequests[program]
    <3>1. CeilDiv(plan.queries, BatchSize) <= CeilDiv(MaxTexts[program], BatchSize)
      BY <1>3, <2>1, CeilingMonotonic, LimitsAssumption
    <3>2. CeilDiv(plan.queries, BatchSize) \in Nat /\ CeilDiv(MaxTexts[program], BatchSize) \in Nat
      BY <1>3, <2>1, Ceiling, LimitsAssumption
    <3> QED
      BY <1>3, <3>1, <3>2, LimitsAssumption, PlanTypes
  <2>3. Len(Sends) = CeilDiv(plan.queries, BatchSize)
    <3>1. /\ BatchesOf(0) \in Seq(Nat) /\ Len(BatchesOf(0)) = 0
          /\ BatchesOf(plan.queries) \in Seq(Nat)
          /\ Len(BatchesOf(plan.queries)) = CeilDiv(plan.queries, BatchSize)
      <4>1. CeilDiv(0, BatchSize) = 0
        BY Ceiling, LimitsAssumption
      <4>2. 0 \in Nat
        OBVIOUS
      <4> QED
        BY <2>1, <4>1, <4>2, BatchSizes
    <3>2. Sends = BatchesOf(0) \o BatchesOf(plan.queries)
      BY <2>1 DEF Sends
    <3>3. Len(Sends) = Len(BatchesOf(0)) + Len(BatchesOf(plan.queries))
      BY <3>1, <3>2, ConcatProperties
    <3>4. CeilDiv(plan.queries, BatchSize) \in Nat
      BY <2>1, Ceiling, LimitsAssumption
    <3> QED
      BY <3>1, <3>3, <3>4
  <2> QED
    BY <1>1, <2>2, <2>3
<1>4. CASE program = "auto_graph"
  <2>1. plan.queries \in Nat /\ plan.queries <= MaxRequests[program]
    BY <1>4, PlanTypes DEF Admitted, ExtractionAdmitted, Calibrations, ArmRuns
  <2>2. Sends = [i \in 1..plan.queries |-> 1]
    BY <1>4 DEF Sends
  <2>3. Len(Sends) = plan.queries
    BY <2>1, <2>2
  <2> QED
    BY <1>1, <1>4, <2>1, <2>3
<1> QED
  BY <1>1, <1>2, <1>3, <1>4 DEF RunsTypeOK, Programs, ArmRuns, Calibrations

(***************************************************************************)
(* Steps                                                                   *)
(***************************************************************************)
LEMMA Names ==
  {"run_dir", "plan", "cache", "trajectories", "partial", "report", "status", "output",
   "summary"} = Artifacts
  BY DEF Artifacts

\* A step of an invocation moves no other one and writes in its own name only.
Alone(i) ==
  /\ UNCHANGED <<program, plan, exported>>
  /\ \A j \in Invocations \ {i} :
       /\ pc'[j] = pc[j] /\ exit'[j] = exit[j]
       /\ attempts'[j] = attempts[j] /\ submitted'[j] = submitted[j]
       /\ records'[j] = records[j]
  /\ \A a \in Artifacts : disk'[a] \in {disk[a], i, Torn}
  /\ disturbed => disturbed'
  /\ overwritten => overwritten'

LEMMA WriteKeeps ==
  ASSUME RunsTypeOK, NEW i \in Invocations, NEW as \in SUBSET Artifacts, Write(i, as)
  PROVE  /\ disk' \in [Artifacts -> Invocations \union {Free, Torn}] /\ overwritten' \in BOOLEAN
         /\ \A a \in Artifacts : disk'[a] = IF a \in as THEN i ELSE disk[a]
         /\ \A a \in Artifacts : disk'[a] \in {disk[a], i, Torn}
         /\ overwritten => overwritten'
         /\ overwritten' => overwritten \/ \E a \in as : disk[a] # Free
         /\ ~overwritten' => \A a \in Artifacts : disk[a] # Free => disk'[a] = disk[a]
<1>1. /\ disk' = [a \in Artifacts |-> IF a \in as THEN i ELSE disk[a]]
      /\ disk \in [Artifacts -> Invocations \union {Free, Torn}]
  BY DEF RunsTypeOK, Write
<1>2. overwritten' = (overwritten \/ \E a \in as : disk[a] # Free)
  BY DEF Write
<1>3. /\ overwritten' \in BOOLEAN
      /\ overwritten' <=> overwritten \/ \E a \in as : disk[a] # Free
  BY <1>2, Zenon
<1> QED
  BY <1>1, <1>3

\* A write that does not succeed leaves a part of its file at most.
LEMMA FaultKeeps ==
  ASSUME RunsTypeOK, NEW a \in Artifacts, Fault(a)
  PROVE  /\ disk' \in [Artifacts -> Invocations \union {Free, Torn}] /\ overwritten' \in BOOLEAN
         /\ \A b \in Artifacts : disk'[b] = disk[b] \/ (b = a /\ disk'[b] = Torn)
         /\ disk' = disk \/ Writable(a)
         /\ overwritten => overwritten'
         /\ overwritten' => overwritten \/ (Writable(a) /\ disk[a] # Free)
         /\ ~overwritten' => \A b \in Artifacts : disk[b] # Free => disk'[b] = disk[b]
<1>1. CASE UNCHANGED files
  BY <1>1 DEF files, RunsTypeOK
<1>2. CASE ~UNCHANGED files
  <2>1. /\ Writable(a) /\ disk' = [disk EXCEPT ![a] = Torn]
        /\ disk \in [Artifacts -> Invocations \union {Free, Torn}]
    BY <1>2 DEF Fault, RunsTypeOK
  <2>2. overwritten' = (overwritten \/ disk[a] # Free)
    BY <1>2 DEF Fault
  <2>3. overwritten' \in BOOLEAN /\ (overwritten' <=> overwritten \/ disk[a] # Free)
    BY <2>2, Zenon
  <2> QED
    BY <2>1, <2>3
<1> QED
  BY <1>1, <1>2

\* The directory is new when it is made, with a plan, a part of one or none.
LEMMA ClaimKeeps ==
  ASSUME RunsTypeOK, NEW i \in Invocations, ClaimDirectory(i)
  PROVE  /\ disk' \in [Artifacts -> Invocations \union {Free, Torn}] /\ overwritten' \in BOOLEAN
         /\ \A a \in Artifacts : disk'[a] \in {disk[a], i, Torn}
         /\ disk' = disk
              \/ /\ disk["run_dir"] = Free /\ disk'["run_dir"] = i
                 /\ disk'["plan"] \in {i, disk["plan"], Torn}
                 /\ \A a \in Artifacts \ {"run_dir", "plan"} : disk'[a] = disk[a]
         /\ overwritten => overwritten'
         /\ disk["plan"] = Free => overwritten' = overwritten
         /\ \/ /\ pc' = [pc EXCEPT ![i] = "pay"] /\ exit' = exit
               /\ disk["run_dir"] = Free /\ disk'["run_dir"] = i /\ disk'["plan"] = i
            \/ pc' = [pc EXCEPT ![i] = "ended"] /\ exit' = [exit EXCEPT ![i] = "raised"]
<1>1. CASE UNCHANGED files /\ End(i, "raised")
  BY <1>1 DEF files, RunsTypeOK, End
<1>2. CASE disk["run_dir"] = Free /\ Write(i, {"run_dir", "plan"}) /\ GoTo(i, "pay")
  <2>1. {"run_dir", "plan"} \in SUBSET Artifacts
    BY Names
  <2>2. \A a \in Artifacts : disk'[a] = IF a \in {"run_dir", "plan"} THEN i ELSE disk[a]
    BY <1>2, <2>1, WriteKeeps
  <2>3. /\ overwritten => overwritten'
        /\ disk["plan"] = Free => overwritten' = overwritten
    <3>1. overwritten' = (overwritten \/ \E a \in {"run_dir", "plan"} : disk[a] # Free)
      BY <1>2 DEF Write
    <3>2. overwritten \in BOOLEAN /\ disk["run_dir"] = Free
      BY <1>2 DEF RunsTypeOK
    <3>3. CASE disk["plan"] = Free
      <4>1. ~ \E a \in {"run_dir", "plan"} : disk[a] # Free
        BY <3>2, <3>3
      <4> QED
        BY <3>1, <3>2, <4>1, Zenon
    <3>4. overwritten => overwritten'
      BY <3>1, Zenon
    <3> QED
      BY <3>3, <3>4, Zenon
  <2>4. pc' = [pc EXCEPT ![i] = "pay"] /\ exit' = exit
    BY <1>2 DEF GoTo
  <2>5. disk' \in [Artifacts -> Invocations \union {Free, Torn}] /\ overwritten' \in BOOLEAN
    BY <1>2, <2>1, WriteKeeps
  <2> QED
    BY <1>2, <2>2, <2>3, <2>4, <2>5, Names
<1>3. CASE /\ disk["run_dir"] = Free /\ End(i, "raised") /\ UNCHANGED overwritten
           /\ \E rest \in {disk["plan"], Torn} :
                disk' = [disk EXCEPT !["run_dir"] = i, !["plan"] = rest]
  <2>1. PICK rest \in {disk["plan"], Torn} :
          disk' = [disk EXCEPT !["run_dir"] = i, !["plan"] = rest]
    BY <1>3
  <2>2. DOMAIN disk = Artifacts /\ overwritten' = overwritten
    BY <1>3 DEF RunsTypeOK
  <2>3. \A a \in Artifacts : disk'[a] = IF a = "run_dir" THEN i
                                       ELSE IF a = "plan" THEN rest ELSE disk[a]
    BY <2>1, <2>2, Names
  <2>4. pc' = [pc EXCEPT ![i] = "ended"] /\ exit' = [exit EXCEPT ![i] = "raised"]
    BY <1>3 DEF End
  <2>5. disk' \in [Artifacts -> Invocations \union {Free, Torn}] /\ overwritten' \in BOOLEAN
    BY <2>1, <2>2 DEF RunsTypeOK
  <2> QED
    BY <1>3, <2>2, <2>3, <2>4, <2>5, Names
<1> QED
  BY <1>1, <1>2, <1>3 DEF ClaimDirectory

\* A request is counted with the texts it sends.
LEMMA CountAdds ==
  ASSUME RunsTypeOK, NEW i \in Invocations, Count(i), NextRequest(i) \in DOMAIN Sends
  PROVE  /\ attempts' \in [Invocations -> Nat] /\ submitted' \in [Invocations -> Nat]
         /\ attempts'[i] = attempts[i] + 1
         /\ submitted'[i] = submitted[i] + Sends[attempts[i] + 1] * plan.bytes
         /\ \A j \in Invocations \ {i} : attempts'[j] = attempts[j] /\ submitted'[j] = submitted[j]
<1>1. attempts[i] \in Nat /\ submitted[i] \in Nat
  BY DEF RunsTypeOK
<1>2. Sends[attempts[i] + 1] \in Nat
  BY SendTexts DEF NextRequest
<1>3. Sends[attempts[i] + 1] * plan.bytes \in Nat
  BY <1>2, PlanTypes
<1> QED
  BY <1>1, <1>3 DEF RunsTypeOK, Count, NextRequest, Prospective

LEMMA StepAlone ==
  ASSUME RunsTypeOK, NEW i \in Invocations, Invocation(i)
  PROVE  RunsTypeOK' /\ Alone(i)
<1> USE DEF RunsTypeOK, Alone, Labels
<1>1. /\ \A as \in SUBSET Artifacts : Write(i, as) =>
           /\ disk' \in [Artifacts -> Invocations \union {Free, Torn}] /\ overwritten' \in BOOLEAN
           /\ \A a \in Artifacts : disk'[a] \in {disk[a], i, Torn}
           /\ overwritten => overwritten'
      /\ \A a \in Artifacts : Fault(a) =>
           /\ disk' \in [Artifacts -> Invocations \union {Free, Torn}] /\ overwritten' \in BOOLEAN
           /\ \A b \in Artifacts : disk'[b] \in {disk[b], i, Torn}
           /\ overwritten => overwritten'
  BY WriteKeeps, FaultKeeps
<1>2. ASSUME Count(i), NextRequest(i) \in DOMAIN Sends
      PROVE  /\ attempts' \in [Invocations -> Nat] /\ submitted' \in [Invocations -> Nat]
             /\ \A j \in Invocations \ {i} :
                  attempts'[j] = attempts[j] /\ submitted'[j] = submitted[j]
  BY <1>2, CountAdds
<1>3. CASE CheckPaths(i)
  BY <1>3 DEF CheckPaths, GoTo, End, Running, Overlaps, work, files
<1>4. CASE DryRun(i)
  BY <1>4 DEF DryRun, End, work, files
<1>5. CASE PlanRun(i)
  BY <1>5 DEF PlanRun, GoTo, End, work, files
<1>6. CASE Authorize(i)
  BY <1>6 DEF Authorize, GoTo, End, work, files
<1>7. CASE ClaimDirectory(i)
  BY <1>7, ClaimKeeps DEF ClaimDirectory, work
<1>8. CASE EmbedBatch(i)
  BY <1>8, <1>2 DEF EmbedBatch, GoTo, files
<1>9. CASE Embedded(i)
  BY <1>9 DEF Embedded, GoTo, work, files
<1>10. CASE ExtractChunk(i)
  BY <1>10, <1>2 DEF ExtractChunk, GoTo, End, files
<1>11. CASE WriteSummary(i)
  BY <1>11, <1>1, Names DEF WriteSummary, End, work
<1>12. CASE WriteCache(i)
  BY <1>12, <1>1, Names DEF WriteCache, GoTo, End, work
<1>13. CASE RankAndSelect(i)
  BY <1>13 DEF RankAndSelect, GoTo, files
<1>14. CASE RunArm(i)
  BY <1>14 DEF RunArm, GoTo, files
<1>15. CASE ArmsDone(i)
  BY <1>15, <1>1, Names DEF ArmsDone, GoTo, work, files
<1>16. CASE WriteReport(i)
  BY <1>16, <1>1, Names DEF WriteReport, GoTo, work
<1>17. CASE WriteStatus(i)
  BY <1>17, <1>1, Names DEF WriteStatus, End, work
<1>18. CASE WriteOutput(i)
  BY <1>18, <1>1, Names DEF WriteOutput, End, work
<1>19. CASE Kill(i)
  BY <1>19 DEF Kill, GoTo, Running, work, files
<1>20. CASE WritePlan(i)
  BY <1>20, <1>1, Names DEF WritePlan, End, Overlaps, Running, work
<1>21. CASE KeepPartial(i)
  BY <1>21, <1>1, Names DEF KeepPartial, GoTo, End, work, files
<1> QED
  BY <1>20, <1>21, <1>3, <1>4, <1>5, <1>6, <1>7, <1>8, <1>9, <1>10, <1>11, <1>12, <1>13, <1>14, <1>15, <1>16, <1>17, <1>18, <1>19 DEF Invocation


\* The definitions that speak of the program and the plan only.
LEMMA SamePlan ==
  ASSUME UNCHANGED <<program, plan>>
  PROVE  /\ Claims' = Claims /\ Sends' = Sends /\ (Admitted' <=> Admitted)
         /\ Written' = Written /\ Early' = Early /\ WholeRun' = WholeRun
         /\ \A k : Texts(k)' = Texts(k)
  BY DEF Claims, Sends, Admitted, UpperBound, CalibrationAdmitted, ArmRunAdmitted,
         ExtractionAdmitted, Written, Early, WholeRun, Texts, TextsOf

LEMMA LabelStep ==
  ASSUME RunsTypeOK, LabelInv, NEW i \in Invocations, Invocation(i)
  PROVE  LabelInv'
<1> DEFINE Fits(j) ==
      /\ pc[j] = "claim" => Claims
      /\ pc[j] \in {"cache", "completed", "failed"} => program \in Metered
      /\ pc[j] = "rank" => program \in Calibrations
      /\ pc[j] = "arms" => program \in ArmRuns
      /\ pc[j] \in {"report", "kept"} => program = "formal"
      /\ pc[j] = "status" => program = "auto_graph"
      /\ exit[j] # "none" => pc[j] = "ended"
<1> USE DEF RunsTypeOK, Programs, Metered, Calibrations, ArmRuns
<1>0. RunsTypeOK' /\ Alone(i) /\ Claims' = Claims /\ program' = program /\ Fits(i)
  BY StepAlone, SamePlan DEF Alone, LabelInv
<1>1. SUFFICES Fits(i)'
  BY <1>0 DEF Alone, LabelInv
<1>2. CASE CheckPaths(i)
  BY <1>2, <1>0 DEF CheckPaths, GoTo, End, Running, work
<1>3. CASE DryRun(i)
  BY <1>3, <1>0 DEF DryRun, End, work
<1>4. CASE PlanRun(i)
  BY <1>4, <1>0 DEF PlanRun, GoTo, End, work
<1>5. CASE Authorize(i)
  BY <1>5, <1>0 DEF Authorize, GoTo, End, work
<1>6. CASE ClaimDirectory(i)
  BY <1>6, <1>0 DEF ClaimDirectory, GoTo, End, work
<1>7. CASE EmbedBatch(i)
  BY <1>7, <1>0 DEF EmbedBatch, GoTo
<1>8. CASE Embedded(i)
  BY <1>8, <1>0 DEF Embedded, GoTo, work
<1>9. CASE ExtractChunk(i)
  BY <1>9, <1>0 DEF ExtractChunk, GoTo, End
<1>10. CASE WriteSummary(i)
  BY <1>10, <1>0 DEF WriteSummary, End, work
<1>11. CASE WriteCache(i)
  BY <1>11, <1>0 DEF WriteCache, GoTo, End, work
<1>12. CASE RankAndSelect(i)
  BY <1>12, <1>0 DEF RankAndSelect, GoTo
<1>13. CASE RunArm(i)
  BY <1>13, <1>0 DEF RunArm, GoTo
<1>14. CASE ArmsDone(i)
  BY <1>14, <1>0 DEF ArmsDone, GoTo, work
<1>15. CASE WriteReport(i)
  BY <1>15, <1>0 DEF WriteReport, GoTo, work
<1>16. CASE WriteStatus(i)
  BY <1>16, <1>0 DEF WriteStatus, End, work
<1>17. CASE WriteOutput(i)
  BY <1>17, <1>0 DEF WriteOutput, End, work
<1>18. CASE Kill(i)
  BY <1>18, <1>0 DEF Kill, GoTo, Running, work
<1>19. CASE WritePlan(i)
  BY <1>19, <1>0 DEF WritePlan, End, work
<1>20. CASE KeepPartial(i)
  BY <1>20, <1>0 DEF KeepPartial, GoTo, End, work
<1> QED
  BY <1>19, <1>20, <1>2, <1>3, <1>4, <1>5, <1>6, <1>7, <1>8, <1>9, <1>10, <1>11, <1>12, <1>13, <1>14, <1>15, <1>16, <1>17, <1>18 DEF Invocation


LEMMA TimesMonotonic ==
  ASSUME NEW a \in Nat, NEW b \in Nat, NEW c \in Nat, a <= b
  PROVE  a * c \in Nat /\ b * c \in Nat /\ a * c <= b * c
  OBVIOUS

\* A request that is counted is the next of the plan: the meter would have let it
\* through.
LEMMA NextWithinLimits ==
  ASSUME RunsTypeOK, PayInv, NEW i \in Invocations, Admitted, NextRequest(i) \in DOMAIN Sends
  PROVE  /\ Prospective(i) = Texts(NextRequest(i)) * plan.bytes
         /\ NextRequest(i) \in 1..Len(Sends)
         /\ MeterAdmits(i)
<1>1. attempts[i] \in Nat /\ submitted[i] = Texts(attempts[i]) * plan.bytes
  BY DEF RunsTypeOK, PayInv
<1>2. attempts[i] + 1 \in 1..Len(Sends) /\ attempts[i] \in 0..Len(Sends) /\ Len(Sends) \in Nat
  BY <1>1, SendTexts DEF NextRequest
<1>3. /\ Texts(attempts[i] + 1) = Texts(attempts[i]) + Sends[attempts[i] + 1]
      /\ Texts(attempts[i]) \in Nat /\ Texts(attempts[i] + 1) \in Nat
      /\ Texts(attempts[i] + 1) <= plan.documents + plan.queries
      /\ Sends[attempts[i] + 1] \in Nat
  <2> DEFINE k == attempts[i]
  <2>1. k \in 0..Len(Sends) /\ k + 1 \in 0..Len(Sends) /\ k < Len(Sends)
    BY <1>2
  <2>2. k + 1 \in 1..Len(Sends)
    BY <1>2
  <2> HIDE DEF k
  <2>3. Texts(k) \in Nat /\ Texts(k + 1) = Texts(k) + Sends[k + 1]
    BY <2>1, SendTexts
  <2>4. Texts(k + 1) \in Nat /\ Texts(k + 1) <= plan.documents + plan.queries
    BY <2>1, SendTexts
  <2>5. Sends[k + 1] \in Nat
    BY <2>2, SendTexts
  <2> QED
    BY <2>3, <2>4, <2>5 DEF k
<1>4. Prospective(i) = Texts(attempts[i] + 1) * plan.bytes
  BY <1>1, <1>3, PlanTypes DEF Prospective, NextRequest
<1>5. /\ Texts(attempts[i] + 1) * plan.bytes \in Nat
      /\ (plan.documents + plan.queries) * plan.bytes \in Nat
      /\ Texts(attempts[i] + 1) * plan.bytes <= (plan.documents + plan.queries) * plan.bytes
  <2>1. plan.documents + plan.queries \in Nat /\ plan.bytes \in Nat
    BY PlanTypes
  <2> DEFINE texts == Texts(attempts[i] + 1)
             all == plan.documents + plan.queries
  <2>2. texts \in Nat /\ all \in Nat /\ plan.bytes \in Nat /\ texts <= all
    BY <1>3, <2>1
  <2> HIDE DEF texts, all
  <2>3. /\ texts * plan.bytes \in Nat /\ all * plan.bytes \in Nat
        /\ texts * plan.bytes <= all * plan.bytes
    BY <2>2, TimesMonotonic, Zenon
  <2> QED
    BY <2>3 DEF texts, all
<1>6. Prospective(i) <= MaxTokens[program]
  BY <1>4, <1>5, AdmittedWithinLimits, PlanTypes
<1>7. attempts[i] < MaxRequests[program]
  BY <1>1, <1>2, AdmittedWithinLimits, PlanTypes
<1> QED
  BY <1>2, <1>4, <1>6, <1>7 DEF MeterAdmits, NextRequest

LEMMA PayStep ==
  ASSUME RunsTypeOK, PayInv, NEW i \in Invocations, Invocation(i)
  PROVE  PayInv'
<1> DEFINE Counted(j) ==
      /\ attempts[j] <= Len(Sends)
      /\ submitted[j] = Texts(attempts[j]) * plan.bytes
      /\ pc[j] \in {"authorize", "claim", "pay"} \/ attempts[j] > 0 => Admitted
      /\ pc[j] \in Unpaid => attempts[j] = 0
<1>0. /\ RunsTypeOK' /\ Alone(i) /\ Counted(i) /\ plan' = plan
      /\ Sends' = Sends /\ (Admitted' <=> Admitted) /\ \A k : Texts(k)' = Texts(k)
  BY StepAlone, SamePlan DEF Alone, PayInv
<1>1. SUFFICES Counted(i)'
  <2>1. ASSUME NEW j \in Invocations \ {i} PROVE Counted(j)'
    <3>1. /\ attempts'[j] = attempts[j] /\ submitted'[j] = submitted[j] /\ pc'[j] = pc[j]
          /\ Counted(j)
      BY <1>0 DEF Alone, PayInv
    <3> QED
      BY <3>1, <1>0 DEF Unpaid
  <2> QED
    BY <2>1 DEF PayInv
<1>2. ASSUME attempts'[i] = attempts[i], submitted'[i] = submitted[i],
             pc'[i] \in {"authorize", "claim", "pay"} => Admitted,
             pc'[i] \in Unpaid => pc[i] \in Unpaid
      PROVE  Counted(i)'
  BY <1>0, <1>2 DEF Unpaid
<1>3. ASSUME pc[i] = "pay", NextRequest(i) \in DOMAIN Sends, Count(i), pc'[i] \notin Unpaid
      PROVE  Counted(i)'
  <2>1. attempts'[i] = NextRequest(i) /\ submitted'[i] = Texts(NextRequest(i)) * plan.bytes
    BY <1>0, <1>3, NextWithinLimits DEF Count, RunsTypeOK
  <2>2. NextRequest(i) \in 1..Len(Sends) /\ Admitted
    BY <1>0, <1>3, NextWithinLimits
  <2> QED
    BY <2>1, <2>2, <1>0, <1>3 DEF Unpaid
<1>4. pc[i] \in {"authorize", "claim", "pay"} => Admitted
  BY <1>0
<1> USE DEF RunsTypeOK, Unpaid
<1> HIDE DEF Counted
<1>5. CASE CheckPaths(i)
  BY <1>5, <1>0, <1>2, <1>4 DEF CheckPaths, GoTo, End, Running, work
<1>6. CASE DryRun(i)
  BY <1>6, <1>0, <1>2, <1>4 DEF DryRun, End, work
<1>7. CASE PlanRun(i)
  BY <1>7, <1>0, <1>2, <1>4 DEF PlanRun, GoTo, End, work
<1>8. CASE Authorize(i)
  BY <1>8, <1>0, <1>2, <1>4 DEF Authorize, GoTo, End, work
<1>9. CASE ClaimDirectory(i)
  BY <1>9, <1>0, <1>2, <1>4 DEF ClaimDirectory, GoTo, End, work
<1>10. CASE EmbedBatch(i)
  BY <1>10, <1>0, <1>2, <1>3 DEF EmbedBatch, GoTo
<1>11. CASE Embedded(i)
  BY <1>11, <1>0, <1>2 DEF Embedded, GoTo, work
<1>12. CASE ExtractChunk(i)
  BY <1>12, <1>0, <1>2, <1>3 DEF ExtractChunk, GoTo, End
<1>13. CASE WriteSummary(i)
  BY <1>13, <1>0, <1>2, <1>4 DEF WriteSummary, End, work
<1>14. CASE WriteCache(i)
  BY <1>14, <1>0, <1>2, <1>4 DEF WriteCache, GoTo, End, work
<1>15. CASE RankAndSelect(i)
  BY <1>15, <1>0, <1>2, <1>4 DEF RankAndSelect, GoTo
<1>16. CASE RunArm(i)
  BY <1>16, <1>0, <1>2, <1>4 DEF RunArm, GoTo
<1>17. CASE ArmsDone(i)
  BY <1>17, <1>0, <1>2, <1>4 DEF ArmsDone, GoTo, work
<1>18. CASE WriteReport(i)
  BY <1>18, <1>0, <1>2, <1>4 DEF WriteReport, GoTo, work
<1>19. CASE WriteStatus(i)
  BY <1>19, <1>0, <1>2, <1>4 DEF WriteStatus, End, work
<1>20. CASE WriteOutput(i)
  BY <1>20, <1>0, <1>2, <1>4 DEF WriteOutput, End, work
<1>21. CASE Kill(i)
  BY <1>21, <1>0, <1>2, <1>4 DEF Kill, GoTo, Running, work
<1>22. CASE WritePlan(i)
  BY <1>22, <1>0, <1>2, <1>4 DEF WritePlan, End, work
<1>23. CASE KeepPartial(i)
  BY <1>23, <1>0, <1>2, <1>4 DEF KeepPartial, GoTo, End, work
<1> QED
  BY <1>22, <1>23, <1>5, <1>6, <1>7, <1>8, <1>9, <1>10, <1>11, <1>12, <1>13, <1>14, <1>15, <1>16, <1>17, <1>18, <1>19, <1>20, <1>21 DEF Invocation


LEMMA DiskStep ==
  ASSUME RunsTypeOK, LabelInv, DiskInv, NEW i \in Invocations, Invocation(i)
  PROVE  DiskInv'
<1>1. /\ RunsTypeOK' /\ Alone(i) /\ Written' = Written /\ Early' = Early
  BY StepAlone, SamePlan DEF Alone
<1>2. SUFFICES /\ \A a \in Artifacts \ Written : disk'[a] = disk[a]
               /\ pc'[i] \in Early => pc[i] \in Early /\ disk' = disk
  BY <1>1, FreeAssumption DEF DiskInv, Alone
<1>3. /\ \A as \in SUBSET Artifacts : Write(i, as) =>
           \A a \in Artifacts : disk'[a] = IF a \in as THEN i ELSE disk[a]
      /\ \A a \in Artifacts : Fault(a) => \A b \in Artifacts \ {a} : disk'[b] = disk[b]
  BY WriteKeeps, FaultKeeps
<1> USE DEF RunsTypeOK, LabelInv, Written, Early, Unpaid, Claims, Programs, Metered, Calibrations,
            ArmRuns
<1>4. CASE CheckPaths(i)
  BY <1>4 DEF CheckPaths, GoTo, End, Running, work, files
<1>5. CASE DryRun(i)
  BY <1>5 DEF DryRun, End, work, files
<1>6. CASE PlanRun(i)
  BY <1>6 DEF PlanRun, GoTo, End, work, files
<1>7. CASE Authorize(i)
  BY <1>7 DEF Authorize, GoTo, End, work, files
<1>8. CASE ClaimDirectory(i)
  BY <1>8, ClaimKeeps DEF ClaimDirectory, work
<1>9. CASE EmbedBatch(i)
  BY <1>9 DEF EmbedBatch, GoTo, files
<1>10. CASE Embedded(i)
  BY <1>10 DEF Embedded, GoTo, work, files
<1>11. CASE ExtractChunk(i)
  BY <1>11 DEF ExtractChunk, GoTo, End, files
<1>12. CASE WriteSummary(i)
  BY <1>12, <1>3, Names DEF WriteSummary, End, work
<1>13. CASE WriteCache(i)
  BY <1>13, <1>3, Names DEF WriteCache, GoTo, End, work
<1>14. CASE RankAndSelect(i)
  BY <1>14 DEF RankAndSelect, GoTo, files
<1>15. CASE RunArm(i)
  BY <1>15 DEF RunArm, GoTo, files
<1>16. CASE ArmsDone(i)
  <2>1. CASE UNCHANGED files
    BY <2>1, <1>16 DEF ArmsDone, GoTo, files
  <2>2. CASE Write(i, {"trajectories"})
    BY <2>2, <1>16, <1>3, Names DEF ArmsDone, GoTo, files
  <2>3. CASE Fault("trajectories")
    BY <2>3, <1>16, <1>3, Names DEF ArmsDone, GoTo, files
  <2> QED
    BY <1>16, <2>1, <2>2, <2>3 DEF ArmsDone
<1>17. CASE WriteReport(i)
  BY <1>17, <1>3, Names DEF WriteReport, GoTo, work
<1>18. CASE WriteStatus(i)
  BY <1>18, <1>3, Names DEF WriteStatus, End, work
<1>19. CASE WriteOutput(i)
  BY <1>19, <1>3, Names DEF WriteOutput, End, work
<1>20. CASE Kill(i)
  BY <1>20 DEF Kill, GoTo, Running, work, files
<1>21. CASE WritePlan(i)
  BY <1>21, <1>3, Names DEF WritePlan, End, work
<1>22. CASE KeepPartial(i)
  BY <1>22, <1>3, Names DEF KeepPartial, GoTo, End, work, files
<1> QED
  BY <1>21, <1>22, <1>4, <1>5, <1>6, <1>7, <1>8, <1>9, <1>10, <1>11, <1>12, <1>13, <1>14, <1>15, <1>16,
     <1>17, <1>18, <1>19, <1>20 DEF Invocation


\* Only the owner of the directory writes behind the claim, so the others find
\* what is said of them unchanged.
LEMMA ClaimStep ==
  ASSUME RunsTypeOK, LabelInv, DiskInv, ClaimInv, NEW i \in Invocations, Invocation(i)
  PROVE  ClaimInv'
<1> DEFINE Owns(j) ==
      /\ pc[j] \in Claimed \/ attempts[j] > 0 => disk["run_dir"] = j
      /\ pc[j] \in Claimed => /\ disk["plan"] = j
                              /\ \A a \in {"status", "summary"} : disk[a] = Free
                              /\ pc[j] # "kept" => disk["partial"] = Free
      /\ pc[j] \in {"pay", "cache", "arms"} => disk["trajectories"] = Free
      /\ pc[j] \in {"pay", "cache", "arms", "report"} => disk["report"] = Free
      /\ pc[j] \in {"report", "completed"} => disk["trajectories"] = j
      /\ pc[j] = "completed" => disk["report"] = j
      /\ pc[j] = "kept" => OneTrajectories
    Tidy ==
      /\ disk["run_dir"] # Torn
      /\ \A a \in Artifacts : /\ disk[a] \in {Free, Torn, disk["run_dir"]}
                              /\ disk[a] # Free => disk["run_dir"] # Free
      /\ disk["status"] # Free => OneTrajectories
<1>1. RunsTypeOK' /\ Alone(i) /\ Claims' = Claims
  BY StepAlone, SamePlan DEF Alone
<1>2. SUFFICES ASSUME Claims PROVE Tidy' /\ \A j \in Invocations : Owns(j)'
  BY <1>1 DEF ClaimInv
<1>3. Tidy /\ \A j \in Invocations : Owns(j)
  BY <1>2 DEF ClaimInv
<1>4. SUFFICES Tidy' /\ Owns(i)' /\ (disk' = disk \/ disk["run_dir"] \in {Free, i})
  <2>1. ASSUME NEW j \in Invocations \ {i}, disk' = disk \/ disk["run_dir"] \in {Free, i}
        PROVE  Owns(j)'
    <3>1. pc'[j] = pc[j] /\ attempts'[j] = attempts[j]
      BY <1>1 DEF Alone
    <3>2. pc[j] \in Claimed \/ attempts[j] > 0 => disk' = disk
      BY <1>3, <2>1, FreeAssumption
    <3> QED
      BY <1>3, <3>1, <3>2 DEF Claimed, OneTrajectories
  <2> QED
    BY <2>1
<1>5. /\ \A as \in SUBSET Artifacts : Write(i, as) =>
           \A a \in Artifacts : disk'[a] = IF a \in as THEN i ELSE disk[a]
      /\ \A a \in Artifacts : Fault(a) =>
           \A b \in Artifacts : disk'[b] = disk[b] \/ (b = a /\ disk'[b] = Torn)
  BY WriteKeeps, FaultKeeps
<1>6. Tidy /\ Owns(i)
  BY <1>3
<1>7. pc[i] \in Unpaid => \A a \in Artifacts : disk[a] # i
  BY DEF DiskInv, Early
<1> USE FreeAssumption DEF RunsTypeOK, LabelInv, Unpaid, Claims, Programs, Metered, Calibrations,
            ArmRuns, Claimed, OneTrajectories
<1>8. CASE CheckPaths(i)
  BY <1>8, <1>2, <1>6, <1>7 DEF CheckPaths, GoTo, End, Running, work, files
<1>9. CASE DryRun(i)
  BY <1>9, <1>2, <1>6, <1>7 DEF DryRun, End, work, files
<1>10. CASE PlanRun(i)
  BY <1>10, <1>2, <1>6, <1>7 DEF PlanRun, GoTo, End, work, files
<1>11. CASE Authorize(i)
  BY <1>11, <1>2, <1>6, <1>7 DEF Authorize, GoTo, End, work, files
<1>12. CASE ClaimDirectory(i)
  BY <1>12, <1>2, <1>6, <1>7, Names, ClaimKeeps DEF ClaimDirectory, work
<1>13. CASE EmbedBatch(i)
  BY <1>13, <1>2, <1>6, <1>7, <1>1 DEF EmbedBatch, GoTo, files
<1>14. CASE Embedded(i)
  BY <1>14, <1>2, <1>6, <1>7 DEF Embedded, GoTo, work, files
<1>15. CASE ExtractChunk(i)
  BY <1>15, <1>2, <1>6, <1>7, <1>1 DEF ExtractChunk, GoTo, End, files
<1>16. CASE WriteSummary(i)
  BY <1>16, <1>2, <1>6, <1>7, <1>5, Names DEF WriteSummary, End, work
<1>17. CASE WriteCache(i)
  BY <1>17, <1>2, <1>6, <1>7, <1>5, Names DEF WriteCache, GoTo, End, work
<1>18. CASE RankAndSelect(i)
  BY <1>18, <1>2, <1>6, <1>7 DEF RankAndSelect, GoTo, files
<1>19. CASE RunArm(i)
  BY <1>19, <1>2, <1>6, <1>7 DEF RunArm, GoTo, files
<1>20. CASE ArmsDone(i)
  <2>1. program = "formal" /\ pc[i] = "arms" /\ attempts' = attempts
    BY <1>20, <1>2 DEF ArmsDone, work
  <2>2. \/ /\ \A a \in Artifacts : disk'[a] = IF a = "trajectories" THEN i ELSE disk[a]
           /\ pc'[i] = "report"
        \/ /\ \A a \in Artifacts : disk'[a] = disk[a] \/ (a = "trajectories" /\ disk'[a] = Torn)
           /\ pc'[i] = "failed"
    BY <1>20, <1>5, <2>1, Names DEF ArmsDone, GoTo
  <2>3. disk["run_dir"] = i /\ disk["status"] = Free
    BY <1>6, <2>1
  <2> QED
    BY <1>6, <2>1, <2>2, <2>3, Names
<1>21. CASE WriteReport(i)
  BY <1>21, <1>2, <1>6, <1>7, <1>5, Names DEF WriteReport, GoTo, work
<1>22. CASE WriteStatus(i)
  <2>1. /\ program = "formal" /\ pc[i] \in {"completed", "kept"} /\ attempts' = attempts
        /\ pc'[i] = "ended"
    BY <1>22, <1>1 DEF WriteStatus, End, work
  <2>2. /\ disk'["status"] \in {disk["status"], i, Torn}
        /\ \A a \in Artifacts \ {"status"} : disk'[a] = disk[a]
    BY <1>22, <1>5, Names DEF WriteStatus
  <2>3. disk["run_dir"] = i /\ i # Free /\ Free # Torn
    BY <1>6, <2>1 DEF Free, Torn
  <2>4. OneTrajectories
    BY <1>6, <2>1, <2>3
  <2>5. OneTrajectories'
    BY <2>2, <2>4, Names
  <2>6. Tidy'
    BY <1>6, <2>2, <2>3, <2>5, Names
  <2> QED
    BY <1>6, <2>1, <2>2, <2>3, <2>6, Names
<1>23. CASE WriteOutput(i)
  BY <1>23, <1>2, <1>6, <1>7, <1>5, Names DEF WriteOutput, End, work
<1>24. CASE Kill(i)
  BY <1>24, <1>2, <1>6, <1>7 DEF Kill, GoTo, Running, work, files
<1>25. CASE WritePlan(i)
  BY <1>25, <1>2 DEF WritePlan
<1>26. CASE KeepPartial(i)
  <2>1. /\ program = "formal" /\ pc[i] = "failed" /\ attempts' = attempts
        /\ pc'[i] \in {"kept", "ended"}
    BY <1>26, <1>1 DEF KeepPartial, GoTo, End, work
  <2>2. /\ disk["run_dir"] = i /\ disk["plan"] = i /\ disk["partial"] = Free
        /\ disk["status"] = Free /\ disk["summary"] = Free
        /\ i # Free /\ i # Torn /\ Free # Torn
    BY <1>6, <2>1 DEF Free, Torn
  <2>3. \/ disk["trajectories"] # Free /\ disk' = disk
        \/ /\ disk["trajectories"] = Free
           /\ \A a \in Artifacts \ {"partial"} : disk'[a] = disk[a]
           /\ disk'["partial"] = i \/ (disk'["partial"] \in {Free, Torn} /\ pc'[i] = "ended")
    BY <1>26, <1>1, <1>5, <2>2, Names DEF KeepPartial, GoTo, End, files
  <2>4. pc'[i] = "kept" => OneTrajectories'
    BY <2>2, <2>3, Names
  <2> QED
    BY <1>6, <2>1, <2>2, <2>3, <2>4, Names
<1> QED
  BY <1>25, <1>26, <1>8, <1>9, <1>10, <1>11, <1>12, <1>13, <1>14, <1>15, <1>16, <1>17, <1>18, <1>19, <1>20,
     <1>21, <1>22, <1>23, <1>24 DEF Invocation


\* No artifact that exists is written over, except by NEUQ calibrations.
LEMMA OverwriteStep ==
  ASSUME RunsTypeOK, LabelInv, ClaimInv, OverwriteInv, NEW i \in Invocations, Invocation(i)
  PROVE  OverwriteInv'
<1>1. program' = program /\ overwritten' \in BOOLEAN
  BY StepAlone DEF Alone, RunsTypeOK
<1>2. SUFFICES ASSUME program # "neuq_calibration" PROVE ~overwritten'
  BY <1>1 DEF OverwriteInv
<1>3. ~overwritten
  BY <1>2 DEF OverwriteInv
<1>4. /\ \A as \in SUBSET Artifacts :
           Write(i, as) /\ overwritten' => \E a \in as : disk[a] # Free
      /\ \A a \in Artifacts : Fault(a) => ~overwritten'
  BY <1>2, <1>3, WriteKeeps, FaultKeeps DEF Writable
<1>5. Claims /\ pc[i] \in Claimed
        => /\ \A a \in {"status", "summary"} : disk[a] = Free
           /\ pc[i] # "kept" => disk["partial"] = Free
           /\ pc[i] \in {"pay", "cache", "arms"} => disk["trajectories"] = Free
           /\ pc[i] \in {"pay", "cache", "arms", "report"} => disk["report"] = Free
  BY DEF ClaimInv
<1> USE DEF Claims, Claimed
<1>6. CASE ClaimDirectory(i)
  <2>1. pc[i] = "claim" /\ Claims
    BY <1>6 DEF ClaimDirectory, LabelInv
  <2>2. CASE disk["run_dir"] = Free
    <3>1. disk["plan"] = Free
      BY <2>1, <2>2, Names DEF ClaimInv
    <3> QED
      BY <3>1, <1>3, <1>6, ClaimKeeps
  <2>3. CASE disk["run_dir"] # Free
    BY <2>3, <1>3, <1>6 DEF ClaimDirectory, files
  <2> QED
    BY <2>2, <2>3
<1>7. CASE WriteSummary(i)
  BY <1>7, <1>4, <1>5, Names DEF WriteSummary
<1>8. CASE WriteCache(i)
  BY <1>8, <1>2, <1>4, Names DEF WriteCache, Writable
<1>9. CASE ArmsDone(i)
  BY <1>9, <1>3, <1>4, <1>5, Names DEF ArmsDone, files
<1>10. CASE WriteReport(i)
  BY <1>10, <1>4, <1>5, Names DEF WriteReport, LabelInv
<1>11. CASE KeepPartial(i)
  BY <1>11, <1>3, <1>4, <1>5, Names DEF KeepPartial, files
<1>12. CASE WriteStatus(i)
  BY <1>12, <1>4, <1>5, Names DEF WriteStatus
<1>13. CASE WriteOutput(i)
  BY <1>13, <1>2, <1>4, Names DEF WriteOutput, Writable
<1>14. CASE WritePlan(i)
  BY <1>14, <1>2 DEF WritePlan
<1>15. CASE \/ CheckPaths(i) \/ DryRun(i) \/ PlanRun(i) \/ Authorize(i) \/ EmbedBatch(i)
            \/ Embedded(i) \/ ExtractChunk(i) \/ RankAndSelect(i) \/ RunArm(i) \/ Kill(i)
  BY <1>15, <1>3 DEF CheckPaths, DryRun, PlanRun, Authorize, EmbedBatch, Embedded, ExtractChunk,
                     RankAndSelect, RunArm, Kill, files
<1> QED
  BY <1>6, <1>7, <1>8, <1>9, <1>10, <1>11, <1>12, <1>13, <1>14, <1>15 DEF Invocation

\* What is not written over stays.
LEMMA FilesStay ==
  ASSUME RunsTypeOK, LabelInv, ClaimInv, NEW i \in Invocations, Invocation(i), ~overwritten'
  PROVE  \A a \in Artifacts : disk[a] # Free => disk'[a] = disk[a]
<1>1. /\ \A as \in SUBSET Artifacts :
           Write(i, as) => \A a \in Artifacts : disk[a] # Free => disk'[a] = disk[a]
      /\ \A b \in Artifacts :
           Fault(b) => \A a \in Artifacts : disk[a] # Free => disk'[a] = disk[a]
  BY WriteKeeps, FaultKeeps
<1>2. CASE ClaimDirectory(i)
  <2>1. pc[i] = "claim" /\ Claims
    BY <1>2 DEF ClaimDirectory, LabelInv
  <2>2. disk["run_dir"] = Free => \A a \in Artifacts : disk[a] = Free
    BY <2>1 DEF ClaimInv
  <2> QED
    BY <1>2, <2>2, ClaimKeeps
<1>3. CASE WriteSummary(i)
  BY <1>3, <1>1, Names DEF WriteSummary
<1>4. CASE WriteCache(i)
  BY <1>4, <1>1, Names DEF WriteCache
<1>5. CASE ArmsDone(i)
  BY <1>5, <1>1, Names DEF ArmsDone, files
<1>6. CASE WriteReport(i)
  BY <1>6, <1>1, Names DEF WriteReport
<1>7. CASE KeepPartial(i)
  BY <1>7, <1>1, Names DEF KeepPartial, files
<1>8. CASE WriteStatus(i)
  BY <1>8, <1>1, Names DEF WriteStatus
<1>9. CASE WriteOutput(i)
  BY <1>9, <1>1, Names DEF WriteOutput
<1>10. CASE WritePlan(i)
  BY <1>10, <1>1, Names DEF WritePlan
<1>11. CASE \/ CheckPaths(i) \/ DryRun(i) \/ PlanRun(i) \/ Authorize(i) \/ EmbedBatch(i)
            \/ Embedded(i) \/ ExtractChunk(i) \/ RankAndSelect(i) \/ RunArm(i) \/ Kill(i)
  BY <1>11 DEF CheckPaths, DryRun, PlanRun, Authorize, EmbedBatch, Embedded, ExtractChunk,
               RankAndSelect, RunArm, Kill, files
<1> QED
  BY <1>2, <1>3, <1>4, <1>5, <1>6, <1>7, <1>8, <1>9, <1>10, <1>11 DEF Invocation

\* A calibration ranks with the vectors it has itself put into the cache.
LEMMA OutputStep ==
  ASSUME RunsInv, NEW i \in Invocations, Invocation(i)
  PROVE  OutputInv'
<1>1. /\ RunsTypeOK' /\ Alone(i) /\ program' = program
      /\ RunsTypeOK /\ LabelInv /\ ClaimInv /\ OverwriteInv'
  BY StepAlone, OverwriteStep DEF RunsInv, Alone
<1>2. SUFFICES ASSUME program = "calibration", NEW j \in Invocations,
                      pc'[j] \in {"rank", "completed"}
               PROVE  disk'["cache"] = j
  BY <1>1 DEF OutputInv
<1>3. ASSUME pc[j] \in {"rank", "completed"} PROVE disk'["cache"] = j
  <2>1. disk["cache"] = j /\ ~overwritten'
    BY <1>1, <1>2, <1>3 DEF RunsInv, OutputInv, OverwriteInv
  <2> QED
    BY <1>1, <2>1, FilesStay, Names, FreeAssumption
<1>4. CASE j # i
  BY <1>1, <1>2, <1>3, <1>4 DEF Alone
<1>5. CASE j = i /\ WriteCache(i)
  BY <1>5, <1>1, <1>2, WriteKeeps, Names DEF WriteCache, GoTo, End, RunsTypeOK
<1>6. CASE j = i /\ RankAndSelect(i)
  BY <1>6, <1>3 DEF RankAndSelect
<1>7. CASE j = i /\ ~WriteCache(i) /\ ~RankAndSelect(i)
  <2>1. pc'[i] = "rank" \/ pc'[i] = "completed"
    BY <1>2, <1>7
  <2>2. program \notin ArmRuns /\ program # "formal" /\ program # "smoke"
    BY <1>2 DEF ArmRuns
  <2> QED
    BY <2>1, <2>2, <1>1, <1>7 DEF Invocation, CheckPaths, DryRun, WritePlan, PlanRun, Authorize,
       ClaimDirectory, EmbedBatch, Embedded, ExtractChunk, WriteSummary, RunArm, ArmsDone,
       WriteReport, KeepPartial, WriteStatus, WriteOutput, Kill, GoTo, End, RunsTypeOK, LabelInv
<1> QED
  BY <1>4, <1>5, <1>6, <1>7

\* An invocation that starts alone finds no output, so no other one has paid and
\* could write; it ends with an output, raised, or without having paid.
LEMMA SoloStep ==
  ASSUME RunsInv, NEW i \in Invocations, Invocation(i)
  PROVE  SoloInv'
<1> DEFINE Solo(j) ==
      /\ Running(j) => \A k \in Invocations \ {j} : ~Running(k) /\ ~Payer(k)
      /\ Payer(j) => Running(j) \/ disk["output"] # Free
      /\ Payer(j) => \A k \in Invocations : Payer(k) => j = k
<1>1. /\ RunsTypeOK' /\ Alone(i) /\ Claims' = Claims /\ RunsTypeOK /\ PayInv
  BY StepAlone, SamePlan DEF RunsInv, Alone
<1>2. SUFFICES ASSUME ~Claims, ~disturbed' PROVE \A j \in Invocations : Solo(j)'
  BY <1>1 DEF SoloInv
<1>3. ~disturbed /\ \A j \in Invocations : Solo(j)
  BY <1>1, <1>2 DEF RunsInv, SoloInv, Alone
<1>4. \A j \in Invocations \ {i} : (Payer(j)' <=> Payer(j)) /\ (Running(j)' <=> Running(j))
  BY <1>1 DEF Alone, Running, Payer
<1>5. disk["output"] # Free => disk'["output"] # Free
  <2>1. i # Free /\ Torn # Free
    BY FreeAssumption DEF Free, Torn
  <2> QED
    BY <1>1, <2>1, Names DEF Alone
<1>6. CASE CheckPaths(i)
  <2>1. /\ disk' = disk /\ ~Payer(i)' /\ ~Payer(i)
        /\ \A j \in Invocations \ {i} : ~Running(j)
        /\ Running(i)' => disk["output"] = Free
    <3>1. pc[i] = "new" /\ disk' = disk /\ attempts' = attempts
      BY <1>6 DEF CheckPaths, work, files
    <3>2. attempts[i] = 0
      BY <3>1, <1>1 DEF PayInv, Unpaid
    <3>3. ~Overlaps(i)
      <4>1. disturbed' = (disturbed \/ Overlaps(i))
        BY <1>6 DEF CheckPaths
      <4> QED
        BY <4>1, <1>2, Zenon
    <3>4. \/ pc'[i] = "ended"
          \/ \A a \in Guarded : disk[a] = Free
      BY <1>6, <1>1 DEF CheckPaths, End, RunsTypeOK
    <3>5. Guarded = {"output", "cache"}
      BY <1>2 DEF Guarded
    <3> QED
      BY <3>1, <3>2, <3>3, <3>4, <3>5 DEF Overlaps, Running, Payer
  <2>2. \A j \in Invocations : Payer(j) => disk["output"] # Free
    BY <2>1, <1>3
  <2> QED
    BY <2>1, <2>2, <1>3, <1>4
<1>7. ASSUME pc[i] = "new", pc'[i] = "ended", attempts' = attempts
      PROVE  \A j \in Invocations : Solo(j)'
  <2>1. ~Payer(i)' /\ ~Payer(i) /\ ~Running(i) /\ ~Running(i)'
    BY <1>1, <1>7 DEF Payer, PayInv, Unpaid, Running
  <2>2. \A j \in Invocations : (Payer(j)' <=> Payer(j)) /\ (Running(j)' <=> Running(j))
    BY <2>1, <1>4
  <2> HIDE DEF Solo
  <2>3. ASSUME NEW j \in Invocations PROVE Solo(j)'
    <3>1. Solo(j)
      BY <1>3
    <3> QED
      BY <3>1, <2>2, <1>5 DEF Solo
  <2> QED
    BY <2>3
<1>8. ASSUME Running(i), Payer(i)' => Running(i)' \/ disk'["output"] # Free
      PROVE  \A j \in Invocations : Solo(j)'
  BY <1>3, <1>4, <1>8
<1>9. pc[i] \in Unpaid => attempts[i] = 0
  BY <1>1 DEF PayInv
<1> USE DEF RunsTypeOK, Running, Unpaid, Payer
<1> HIDE DEF Solo
<1>10. CASE DryRun(i)
  BY <1>10, <1>1, <1>7, <1>8, <1>9 DEF DryRun, End, work
<1>11. CASE WritePlan(i)
  BY <1>11, <1>1, <1>7 DEF WritePlan, End, work
<1>12. CASE PlanRun(i)
  BY <1>12, <1>1, <1>8, <1>9 DEF PlanRun, GoTo, End, work
<1>13. CASE Authorize(i)
  BY <1>13, <1>1, <1>8, <1>9 DEF Authorize, GoTo, End, work
<1>14. CASE ClaimDirectory(i)
  BY <1>14, <1>2 DEF ClaimDirectory, LabelInv, RunsInv
<1>15. CASE EmbedBatch(i)
  BY <1>15, <1>1, <1>2, <1>8 DEF EmbedBatch, GoTo
<1>16. CASE Embedded(i)
  BY <1>16, <1>1, <1>8 DEF Embedded, GoTo
<1>17. CASE ExtractChunk(i) \/ WriteSummary(i) \/ WriteReport(i) \/ KeepPartial(i) \/ WriteStatus(i)
  BY <1>17, <1>2 DEF ExtractChunk, WriteSummary, WriteReport, KeepPartial, WriteStatus, Claims,
                     LabelInv, RunsInv
<1>18. CASE WriteCache(i)
  BY <1>18, <1>1, <1>8 DEF WriteCache, GoTo, End
<1>19. CASE RankAndSelect(i)
  BY <1>19, <1>1, <1>8 DEF RankAndSelect, GoTo
<1>20. CASE RunArm(i)
  BY <1>20, <1>1, <1>8 DEF RunArm, GoTo
<1>21. CASE ArmsDone(i)
  BY <1>21, <1>1, <1>8 DEF ArmsDone, GoTo
<1>22. CASE WriteOutput(i)
  <2>1. CASE Write(i, {"output"})
    <3>1. disk'["output"] = i
      BY <2>1, <1>1, WriteKeeps, Names
    <3> QED
      BY <3>1, <1>22, <1>8, FreeAssumption DEF WriteOutput
  <2>2. CASE End(i, "raised")
    BY <2>2, <1>22, <1>1, <1>8 DEF WriteOutput, End
  <2> QED
    BY <2>1, <2>2, <1>22 DEF WriteOutput
<1>23. CASE Kill(i)
  BY <1>23, <1>2 DEF Kill
<1> QED
  BY <1>6, <1>10, <1>11, <1>12, <1>13, <1>14, <1>15, <1>16, <1>17, <1>18, <1>19, <1>20, <1>21,
     <1>22, <1>23 DEF Invocation

\* Success is the last thing an invocation writes, and stays what it wrote.
LEMMA WholeStep ==
  ASSUME RunsInv, NEW i \in Invocations, Invocation(i)
  PROVE  WholeInv'
<1> DEFINE Succeeded(j) == exit[j] = "ok" /\ \E a \in Artifacts : disk[a] = j
           Whole(j) == (\A a \in WholeRun : disk[a] = j) /\ disk["partial"] = Free
<1>1. /\ RunsTypeOK' /\ Alone(i) /\ Claims' = Claims /\ program' = program
      /\ WholeRun' = WholeRun /\ DiskInv'
      /\ RunsTypeOK /\ LabelInv /\ DiskInv /\ ClaimInv /\ OutputInv /\ WholeInv
  BY StepAlone, SamePlan, DiskStep DEF RunsInv, Alone
<1>2. SUFFICES ASSUME NEW j \in Invocations, Succeeded(j)', ~overwritten'
               PROVE  Whole(j)'
  BY DEF WholeInv
<1>3. ~overwritten
  BY <1>1, <1>2 DEF Alone
<1>4. WholeRun \subseteq Artifacts /\ (program # "formal" => disk'["partial"] = Free)
  BY <1>1, Names DEF WholeRun, Artifacts, DiskInv, Written
<1>5. CASE j # i
  <2>1. Succeeded(j)
    BY <1>1, <1>2, <1>5, FreeAssumption DEF Alone
  <2>2. Whole(j)
    BY <1>1, <1>3, <2>1 DEF WholeInv
  <2>3. \A a \in WholeRun : disk'[a] = j
    BY <1>1, <1>2, <1>4, <2>2, FilesStay, FreeAssumption
  <2>4. ASSUME program = "formal" PROVE disk'["partial"] = Free
    <3>1. disk["run_dir"] = j /\ disk["partial"] = Free
      BY <2>2, <2>4 DEF WholeRun
    <3>2. pc[i] \notin Claimed
      BY <3>1, <2>4, <1>1, <1>5 DEF ClaimInv, Claims
    <3>3. \A as \in SUBSET Artifacts :
            Write(i, as) => \A a \in Artifacts : disk'[a] = IF a \in as THEN i ELSE disk[a]
      BY <1>1, WriteKeeps
    <3>4. disk' = disk \/ ClaimDirectory(i)
      BY <3>2, <2>4, <1>1 DEF Invocation, CheckPaths, DryRun, WritePlan, PlanRun, Authorize,
         EmbedBatch, Embedded, ExtractChunk, WriteSummary, WriteCache, RankAndSelect, RunArm,
         ArmsDone, WriteReport, KeepPartial, WriteStatus, WriteOutput, Kill, files, Claimed,
         Calibrations
    <3> QED
      BY <3>1, <3>4, <1>1, ClaimKeeps, Names
  <2> QED
    BY <1>1, <1>4, <2>3, <2>4
<1>6. CASE j = i
  <2>1. exit'[i] = "ok" /\ \E a \in Artifacts : disk'[a] = i
    BY <1>2, <1>6
  <2>2. exit[i] = "none" \/ pc[i] = "ended"
    BY <1>1 DEF LabelInv
  <2>3. \A as \in SUBSET Artifacts :
          Write(i, as) => \A a \in Artifacts : disk'[a] = IF a \in as THEN i ELSE disk[a]
    BY <1>1, WriteKeeps
  <2> USE DEF RunsTypeOK
  <2>4. CASE DryRun(i)
    <3>1. disk' = disk /\ pc[i] \in Unpaid
      BY <2>4 DEF DryRun, Unpaid, files
    <3> QED
      BY <2>1, <3>1, <1>1 DEF DiskInv, Early
  <2>5. CASE WriteSummary(i)
    <3>1. program = "auto_graph" /\ Claims /\ pc[i] \in Claimed
      BY <2>5 DEF WriteSummary, Claims, Claimed
    <3>2. disk["run_dir"] = i /\ disk["plan"] = i
      BY <3>1, <1>1 DEF ClaimInv
    <3>3. \A a \in Artifacts : disk'[a] = IF a = "summary" THEN i ELSE disk[a]
      BY <2>5, <2>1, <2>3, <1>1, Names DEF WriteSummary, End
    <3> QED
      BY <3>1, <3>2, <3>3, <1>1, <1>4, <1>6, Names DEF WholeRun
  <2>6. CASE WriteStatus(i)
    <3>1. program = "formal" /\ Claims /\ pc[i] = "completed"
      BY <2>6, <2>1, <1>1 DEF WriteStatus, Claims, End
    <3>2. /\ disk["run_dir"] = i /\ disk["plan"] = i /\ disk["trajectories"] = i
          /\ disk["report"] = i /\ disk["partial"] = Free
      BY <3>1, <1>1 DEF ClaimInv, Claimed
    <3>3. \A a \in Artifacts : disk'[a] = IF a = "status" THEN i ELSE disk[a]
      BY <2>6, <2>1, <2>3, <1>1, Names DEF WriteStatus, End
    <3> QED
      BY <3>1, <3>2, <3>3, <1>1, <1>6, Names DEF WholeRun
  <2>7. CASE WriteOutput(i) \/ WritePlan(i)
    <3>1. program \in Calibrations \union {"smoke"} /\ Write(i, {"output"})
      BY <2>7, <2>1, <1>1 DEF WriteOutput, WritePlan, Calibrations, End
    <3>2. \A a \in Artifacts : disk'[a] = IF a = "output" THEN i ELSE disk[a]
      BY <2>3, <3>1, Names
    <3>3. program = "calibration" => disk["cache"] = i
      BY <2>7, <2>1, <1>1 DEF WriteOutput, WritePlan, OutputInv, End
    <3> QED
      BY <3>1, <3>2, <3>3, <1>1, <1>4, <1>6, Names DEF WholeRun, Calibrations
  <2>8. CASE CheckPaths(i)
    BY <2>8, <2>1, <2>2, <1>1 DEF CheckPaths, GoTo, End, Running
  <2>9. CASE PlanRun(i)
    BY <2>9, <2>1, <2>2, <1>1 DEF PlanRun, GoTo, End
  <2>10. CASE Authorize(i)
    BY <2>10, <2>1, <2>2, <1>1 DEF Authorize, GoTo, End
  <2>11. CASE ClaimDirectory(i)
    BY <2>11, <2>1, <2>2, <1>1 DEF ClaimDirectory, GoTo, End
  <2>12. CASE EmbedBatch(i)
    BY <2>12, <2>1, <2>2, <1>1 DEF EmbedBatch, GoTo
  <2>13. CASE Embedded(i)
    BY <2>13, <2>1, <2>2, <1>1 DEF Embedded, GoTo
  <2>14. CASE ExtractChunk(i)
    BY <2>14, <2>1, <2>2, <1>1 DEF ExtractChunk, GoTo, End
  <2>15. CASE WriteCache(i)
    BY <2>15, <2>1, <2>2, <1>1 DEF WriteCache, GoTo, End
  <2>16. CASE RankAndSelect(i)
    BY <2>16, <2>1, <2>2, <1>1 DEF RankAndSelect, GoTo
  <2>17. CASE RunArm(i)
    BY <2>17, <2>1, <2>2, <1>1 DEF RunArm, GoTo
  <2>18. CASE ArmsDone(i)
    BY <2>18, <2>1, <2>2, <1>1 DEF ArmsDone, GoTo
  <2>19. CASE WriteReport(i)
    BY <2>19, <2>1, <2>2, <1>1 DEF WriteReport, GoTo
  <2>20. CASE Kill(i)
    BY <2>20, <2>1, <2>2, <1>1 DEF Kill, GoTo, Running
  <2>21. CASE KeepPartial(i)
    BY <2>21, <2>1, <2>2, <1>1 DEF KeepPartial, GoTo, End
  <2> QED
    BY <2>4, <2>5, <2>6, <2>7, <2>8, <2>9, <2>10, <2>11, <2>12, <2>13, <2>14, <2>15, <2>16,
       <2>17, <2>18, <2>19, <2>20, <2>21 DEF Invocation
<1> QED
  BY <1>5, <1>6

\* The summary ends the extraction: whoever has written it takes no more steps, and
\* no one else touches its directory or its records.
LEMMA ExportStep ==
  ASSUME RunsInv, ExportInv, NEW i \in Invocations, Invocation(i)
  PROVE  ExportInv'
<1> DEFINE Kinds == {"validated", "invalid", "unanswered"}
           owner == disk["run_dir"]
<1>1. /\ RunsTypeOK' /\ Alone(i) /\ program' = program /\ plan' = plan /\ exported' = exported
      /\ RunsTypeOK /\ LabelInv /\ ClaimInv /\ OverwriteInv'
  BY StepAlone, OverwriteStep DEF RunsInv, Alone
<1>2. SUFFICES ASSUME program = "auto_graph" PROVE ExportInv'
  BY <1>1 DEF ExportInv
<1>3. /\ \A j \in Invocations : records[j] \in Seq(Kinds)
      /\ disk["summary"] \in Invocations
           => /\ pc[owner] = "ended"
              /\ exit[owner] = "ok" <=> Cardinality(ValidatedChunks(owner)) = plan.queries
      /\ exported # <<>> => /\ disk["summary"] \in Invocations
                            /\ Len(records[owner]) = plan.queries
                            /\ exported = <<ValidatedChunks(owner)>>
  BY <1>2 DEF ExportInv
<1>4. Claims /\ ~overwritten' /\ program \notin Metered /\ program \notin Calibrations
      /\ program \notin ArmRuns /\ program # "formal"
  BY <1>1, <1>2 DEF Claims, OverwriteInv, Metered, Calibrations, ArmRuns
<1>5. \A j \in Invocations : records'[j] \in Seq(Kinds)
  <2>1. ASSUME NEW j \in Invocations \ {i} PROVE records'[j] \in Seq(Kinds)
    BY <1>1, <1>3 DEF Alone
  <2>2. ASSUME NEW kind \in Kinds, records' = [records EXCEPT ![i] = Append(@, kind)]
        PROVE  records'[i] \in Seq(Kinds)
    <3>1. Append(records[i], kind) \in Seq(Kinds)
      BY <1>3, AppendProperties, Zenon
    <3> QED
      BY <2>2, <3>1, <1>1 DEF RunsTypeOK
  <2>3. CASE records' = records
    BY <2>3, <1>3
  <2>4. CASE ExtractChunk(i)
    <3>1. records' = records \/ \E kind \in Kinds : records' = [records EXCEPT ![i] = Append(@, kind)]
      BY <2>4 DEF ExtractChunk
    <3> QED
      BY <2>1, <2>2, <2>3, <3>1
  <2>5. CASE RankAndSelect(i) \/ RunArm(i)
    BY <2>5, <1>1, <1>4 DEF RankAndSelect, RunArm, LabelInv
  <2>6. Invocation(i) => records' = records \/ ExtractChunk(i) \/ RankAndSelect(i) \/ RunArm(i)
    BY DEF Invocation, CheckPaths, DryRun, WritePlan, PlanRun, Authorize, ClaimDirectory, EmbedBatch,
           Embedded, WriteSummary, WriteCache, ArmsDone, WriteReport, KeepPartial, WriteStatus,
           WriteOutput, Kill, work
  <2> QED
    BY <2>1, <2>3, <2>4, <2>5, <2>6
<1>6. CASE disk["summary"] \in Invocations
  <2>1. owner \in Invocations /\ owner # i /\ disk["summary"] = owner
    <3>1. owner \in Invocations /\ disk["summary"] = owner
      BY <1>1, <1>4, <1>6, Names, FreeAssumption DEF ClaimInv, RunsTypeOK
    <3>2. pc[i] # "ended"
      BY DEF Invocation, CheckPaths, DryRun, WritePlan, PlanRun, Authorize, ClaimDirectory,
             EmbedBatch, Embedded, ExtractChunk, WriteSummary, WriteCache, RankAndSelect, RunArm,
             ArmsDone, WriteReport, KeepPartial, WriteStatus, WriteOutput, Kill, Running
    <3> QED
      BY <3>1, <3>2, <1>3, <1>6
  <2>2. disk'["run_dir"] = owner /\ disk'["summary"] = owner
    BY <2>1, <1>1, <1>4, FilesStay, Names, FreeAssumption
  <2>3. pc'[owner] = pc[owner] /\ exit'[owner] = exit[owner] /\ records'[owner] = records[owner]
    BY <2>1, <1>1 DEF Alone
  <2>4. ValidatedChunks(disk["run_dir"])' = ValidatedChunks(owner)
    BY <2>2, <2>3 DEF ValidatedChunks
  <2>5. /\ pc'[disk'["run_dir"]] = "ended"
        /\ exit'[disk'["run_dir"]] = "ok"
             <=> Cardinality(ValidatedChunks(disk["run_dir"])') = plan'.queries
    BY <1>1, <1>3, <1>6, <2>2, <2>3, <2>4
  <2>6. exported' # <<>> => /\ Len(records'[disk'["run_dir"]]) = plan'.queries
                            /\ exported' = <<ValidatedChunks(disk["run_dir"])'>>
    BY <1>1, <1>3, <2>2, <2>3, <2>4
  <2>7. disk'["summary"] \in Invocations
    BY <2>1, <2>2
  <2> QED
    BY <1>1, <1>5, <2>5, <2>6, <2>7, Zenon DEF ExportInv
<1>7. CASE disk["summary"] \notin Invocations /\ WriteSummary(i) /\ Write(i, {"summary"})
  <2>1. owner = i
    BY <1>1, <1>4, <1>7 DEF ClaimInv, Claimed, WriteSummary
  <2>2. \A a \in Artifacts : disk'[a] = IF a = "summary" THEN i ELSE disk[a]
    BY <1>1, <1>7, WriteKeeps, Names
  <2>3. disk'["run_dir"] = i /\ i \in Invocations
    BY <2>1, <2>2, Names
  <2>4. records' = records /\ pc'[i] = "ended"
        /\ (exit'[i] = "ok" <=> Cardinality(ValidatedChunks(i)) = plan.queries)
    <3>1. disk' # disk
      BY <1>7, <2>2, Names
    <3>2. ~overwritten' /\ disk["summary"] # Torn => disk["summary"] = Free
      BY <1>1, <1>7, Names DEF RunsTypeOK
    <3>3. ~Fault("summary")
      BY <1>1, <1>7, <2>2, FaultKeeps, Names, FreeAssumption
    <3> QED
      BY <1>1, <1>7, <3>3 DEF WriteSummary, End, work, RunsTypeOK
  <2>5. ValidatedChunks(disk["run_dir"])' = ValidatedChunks(i)
    BY <2>3, <2>4 DEF ValidatedChunks
  <2> QED
    BY <1>1, <1>3, <1>5, <1>7, <2>3, <2>4, <2>5 DEF ExportInv
<1>8. CASE disk["summary"] \notin Invocations /\ ~(WriteSummary(i) /\ Write(i, {"summary"}))
  <2>1. disk'["summary"] \notin Invocations
    <3>1. CASE UNCHANGED files
      BY <3>1, <1>8 DEF files
    <3>2. CASE ClaimDirectory(i)
      BY <3>2, <1>1, <1>8, ClaimKeeps, Names
    <3>3. CASE WriteSummary(i)
      BY <3>3, <1>1, <1>8, FaultKeeps, Names, FreeAssumption DEF WriteSummary
    <3>4. CASE \/ WriteCache(i) \/ ArmsDone(i) \/ WriteReport(i) \/ KeepPartial(i)
               \/ WriteStatus(i) \/ WriteOutput(i) \/ WritePlan(i)
      BY <3>4, <1>1, <1>2, <1>4 DEF WriteCache, ArmsDone, WriteReport, KeepPartial, WriteStatus,
                                    WriteOutput, WritePlan, LabelInv
    <3> QED
      BY <3>1, <3>2, <3>3, <3>4 DEF Invocation, CheckPaths, DryRun, PlanRun, Authorize, EmbedBatch,
         Embedded, ExtractChunk, RankAndSelect, RunArm, Kill
  <2> QED
    BY <1>1, <1>3, <1>5, <1>8, <2>1 DEF ExportInv
<1> QED
  BY <1>6, <1>7, <1>8

(***************************************************************************)
(* Rankings                                                                *)
(***************************************************************************)
\* What every step of an arm returns: hits in scope, no chunk twice, up to a limit.
HitSet == [chunk : {c \in Chunks : InScope(c)}, score : Int, path : Seq(Nat)]

Distinct(hits) == \A i, j \in DOMAIN hits : hits[i].chunk = hits[j].chunk => i = j

Ranking(hits, limit) == hits \in Seq(HitSet) /\ Len(hits) <= limit /\ Distinct(hits)

LEMMA UniqueRanks ==
  ASSUME NEW hits \in Seq(HitSet), NEW limit \in Nat
  PROVE  Ranking(Unique(hits, limit), limit)
<1> DEFINE places == {i \in DOMAIN hits : \A j \in 1..(i - 1) : hits[j].chunk # hits[i].chunk}
           t == Keep(hits, places)
           u == Prefix(t, limit)
<1>1. Unique(hits, limit) = u
  BY DEF Unique
<1>2. /\ t \in Seq(HitSet)
      /\ \E at \in [1..Len(t) -> places] :
           /\ \A n \in 1..Len(t) : t[n] = hits[at[n]]
           /\ \A p \in places : \E n \in 1..Len(t) : at[n] = p
           /\ \A m, n \in 1..Len(t) : m < n => at[m] < at[n]
  BY KeepsPlaces
<1>3. \A i \in places : i \in Nat /\ \A j \in 1..(i - 1) : hits[j].chunk # hits[i].chunk
  OBVIOUS
<1>4. ASSUME NEW m \in 1..Len(t), NEW n \in 1..Len(t), m < n
      PROVE  t[m].chunk # t[n].chunk
  <2> HIDE DEF t, places
  <2>1. PICK at \in [1..Len(t) -> places] :
           /\ \A k \in 1..Len(t) : t[k] = hits[at[k]]
           /\ \A k, l \in 1..Len(t) : k < l => at[k] < at[l]
    BY <1>2
  <2>2. at[m] \in places /\ at[n] \in places /\ at[m] < at[n]
    BY <1>4, <2>1
  <2>3. hits[at[m]].chunk # hits[at[n]].chunk
    <3>1. at[m] \in Nat /\ at[n] \in Nat /\ at[m] # 0
      <4>1. 0 \notin places
        BY DEF places
      <4> QED
        BY <4>1, <2>2, <1>3
    <3>2. at[m] \in 1..(at[n] - 1)
      BY <2>2, <3>1
    <3> QED
      BY <2>2, <3>2, <1>3
  <2> QED
    BY <1>4, <2>1, <2>3
<1> HIDE DEF t
<1>5. u \in Seq(HitSet) /\ Len(u) <= limit /\ Len(u) <= Len(t)
      /\ \A i \in 1..Len(u) : u[i] = t[i]
  BY <1>2, PrefixKeeps
<1> HIDE DEF u
<1>6. Distinct(u)
  <2> SUFFICES ASSUME NEW i \in 1..Len(u), NEW j \in 1..Len(u), i # j
               PROVE  u[i].chunk # u[j].chunk
    BY <1>5 DEF Distinct
  <2>1. i \in 1..Len(t) /\ j \in 1..Len(t) /\ (i < j \/ j < i)
    BY <1>2, <1>5
  <2> QED
    BY <2>1, <1>4, <1>5
<1> QED
  BY <1>1, <1>5, <1>6 DEF Ranking

\* A sorted list of a finite set is a sequence without repetition.
LEMMA SortedDistinct ==
  ASSUME NEW S, IsFiniteSet(S), NEW keys, NEW wide, Keyed(keys, wide), NEW key,
         \A x \in S : key[x] \in keys, \A x, y \in S : key[x] = key[y] => x = y
  PROVE  /\ Sorted(S, key) \in Seq(S)
         /\ \A m, n \in 1..Len(Sorted(S, key)) : Sorted(S, key)[m] = Sorted(S, key)[n] => m = n
<1> DEFINE order == Sorted(S, key)
           size == Cardinality(S)
<1>1. /\ size \in Nat /\ order \in [1..size -> S]
      /\ \A m, n \in 1..size : order[m] = order[n] => m = n
  BY SortedByKey
<1> HIDE DEF order, size
<1>2. order \in Seq(S) /\ Len(order) = size
  BY <1>1
<1> QED
  BY <1>1, <1>2 DEF order

LEMMA KeyWidth ==
  ASSUME NEW wide \in Nat
  PROVE  Keyed({t \in Seq(Int) : Len(t) = wide}, wide)
  BY DEF Keyed

LEMMA DenseRanks ==
  ASSUME NEW score \in Similarities
  PROVE  Ranking(Dense(score), TopK)
<1> DEFINE allowed == {c \in Chunks : InScope(c)}
           keys == {t \in Seq(Int) : Len(t) = 2}
           key == [c \in allowed |-> <<-score[c], c>>]
           order == Sorted(allowed, key)
           scoped == Prefix(order, TopK)
           places == {i \in DOMAIN scoped : score[scoped[i]] >= ScoreThreshold}
           relevant == Keep(scoped, places)
           hits == [i \in DOMAIN relevant |-> Hit(relevant[i], score[relevant[i]], <<>>)]
<1>1. Dense(score) = hits
  BY DEF Dense
<1>2. TopK \in Nat /\ allowed \subseteq Nat /\ IsFiniteSet(allowed)
      /\ \A c \in allowed : score[c] \in Int
  <2>1. IsFiniteSet(allowed)
    BY RetrievalAssumption, FS_Subset
  <2>2. TopK \in Nat /\ Chunks \subseteq Nat /\ Scores \subseteq Nat
    BY RetrievalAssumption
  <2>3. \A c \in Chunks : score[c] \in Int
    <3>1. \A c \in Chunks : score[c] \in Scores
      BY DEF Similarities
    <3>2. \A x \in Scores : x \in Int
      BY <2>2
    <3> QED
      BY <3>1, <3>2
  <2>4. allowed \subseteq Chunks
    OBVIOUS
  <2> HIDE DEF allowed
  <2> QED
    BY <2>1, <2>2, <2>3, <2>4
<1>3. order \in Seq(allowed) /\ \A m, n \in 1..Len(order) : order[m] = order[n] => m = n
  <2>1. Keyed(keys, 2)
    BY KeyWidth
  <2>2. \A c \in allowed : key[c] \in keys
    BY <1>2
  <2>3. \A c, d \in allowed : key[c] = key[d] => c = d
    BY <1>2
  <2> HIDE DEF keys, key, allowed
  <2> QED
    BY <1>2, <2>1, <2>2, <2>3, SortedDistinct
<1> HIDE DEF order, key, keys
<1>4. /\ scoped \in Seq(allowed) /\ Len(scoped) <= TopK /\ Len(scoped) <= Len(order)
      /\ \A i \in 1..Len(scoped) : scoped[i] = order[i]
  <2> HIDE DEF allowed
  <2> QED
    BY <1>2, <1>3, PrefixKeeps
<1>5. \A m, n \in 1..Len(scoped) : scoped[m] = scoped[n] => m = n
  <2> HIDE DEF scoped, allowed
  <2> QED
    BY <1>3, <1>4
<1> HIDE DEF scoped
<1>6. /\ relevant \in Seq(allowed) /\ Len(relevant) <= Len(scoped)
      /\ \E at \in [1..Len(relevant) -> places] :
           /\ \A n \in 1..Len(relevant) : relevant[n] = scoped[at[n]]
           /\ \A m, n \in 1..Len(relevant) : m < n => at[m] < at[n]
  <2>1. places \in SUBSET DOMAIN scoped
    OBVIOUS
  <2> HIDE DEF places, allowed
  <2> QED
    BY <1>4, <2>1, KeepsPlaces
<1>7. \A m, n \in 1..Len(relevant) : relevant[m] = relevant[n] => m = n
  <2>1. places \subseteq 1..Len(scoped) /\ Len(scoped) \in Nat
    BY <1>4
  <2>2. PICK at \in [1..Len(relevant) -> places] :
           /\ \A n \in 1..Len(relevant) : relevant[n] = scoped[at[n]]
           /\ \A m, n \in 1..Len(relevant) : m < n => at[m] < at[n]
    BY <1>6
  <2> HIDE DEF relevant, places, allowed
  <2>3. ASSUME NEW m \in 1..Len(relevant), NEW n \in 1..Len(relevant), m < n
        PROVE  relevant[m] # relevant[n]
    <3>1. at[m] \in 1..Len(scoped) /\ at[n] \in 1..Len(scoped) /\ at[m] < at[n]
      BY <2>1, <2>2, <2>3
    <3>2. at[m] # at[n]
      BY <3>1, <2>1
    <3> QED
      BY <2>2, <2>3, <3>1, <3>2, <1>5
  <2>4. Len(relevant) \in Nat
    BY <1>6
  <2>5. \A m, n \in 1..Len(relevant) : m < n \/ n < m \/ m = n
    BY <2>4
  <2> QED
    BY <2>3, <2>5
<1> HIDE DEF relevant, places
<1>8. \A i \in 1..Len(relevant) : hits[i] \in HitSet /\ hits[i].chunk = relevant[i]
  BY <1>2, <1>6 DEF Hit, HitSet
<1>9. hits \in Seq(HitSet) /\ Len(hits) = Len(relevant)
  <2> HIDE DEF allowed
  <2>1. DOMAIN hits = 1..Len(relevant) /\ Len(relevant) \in Nat
    BY <1>6
  <2> QED
    BY <1>8, <2>1
<1> HIDE DEF hits
<1>10. Distinct(hits)
  BY <1>7, <1>8, <1>9 DEF Distinct
<1> QED
  BY <1>1, <1>2, <1>4, <1>6, <1>9, <1>10 DEF Ranking

(***************************************************************************)
(* The paths of the graph                                                  *)
(***************************************************************************)
ScopedEdges == {e \in Edges : InScope(e.chunk)}
Paths == {es \in Seq(ScopedEdges) : Len(es) \in 1..3}

LEMMA ExtensionsScoped ==
  ASSUME NEW walk, walk.edges \in Seq(ScopedEdges), NEW w \in Extensions(walk)
  PROVE  w.edges \in Seq(ScopedEdges) /\ Len(w.edges) = Len(walk.edges) + 1
<1>1. PICK e \in ScopedEdges : w.edges = Append(walk.edges, e)
  BY DEF Extensions, ScopedEdges
<1> QED
  BY <1>1

LEMMA WalksScoped ==
  ASSUME NEW seeds, NEW w \in Walks(seeds)
  PROVE  w.edges \in Paths
<1> DEFINE start(s) == [edges |-> <<>>, last |-> s, visited |-> {s}]
           one == UNION {Extensions(start(s)) : s \in seeds}
           two == UNION {Extensions(x) : x \in one}
           three == UNION {Extensions(x) : x \in two}
<1>1. w \in one \/ w \in two \/ w \in three
  BY DEF Walks
<1>2. \A x \in one : x.edges \in Seq(ScopedEdges) /\ Len(x.edges) = 1
  <2> SUFFICES ASSUME NEW s \in seeds, NEW x \in Extensions(start(s))
               PROVE  x.edges \in Seq(ScopedEdges) /\ Len(x.edges) = 1
    OBVIOUS
  <2>1. start(s).edges \in Seq(ScopedEdges) /\ Len(start(s).edges) = 0
    OBVIOUS
  <2> HIDE DEF start
  <2>2. x.edges \in Seq(ScopedEdges) /\ Len(x.edges) = Len(start(s).edges) + 1
    BY <2>1, ExtensionsScoped
  <2> QED
    BY <2>1, <2>2
<1>3. \A x \in two : x.edges \in Seq(ScopedEdges) /\ Len(x.edges) = 2
  <2> SUFFICES ASSUME NEW y \in one, NEW x \in Extensions(y)
               PROVE  x.edges \in Seq(ScopedEdges) /\ Len(x.edges) = 2
    OBVIOUS
  <2> HIDE DEF one
  <2>1. x.edges \in Seq(ScopedEdges) /\ Len(x.edges) = Len(y.edges) + 1
    BY <1>2, ExtensionsScoped
  <2>2. Len(y.edges) = 1
    BY <1>2
  <2> QED
    BY <2>1, <2>2
<1>4. \A x \in three : x.edges \in Seq(ScopedEdges) /\ Len(x.edges) = 3
  <2> SUFFICES ASSUME NEW y \in two, NEW x \in Extensions(y)
               PROVE  x.edges \in Seq(ScopedEdges) /\ Len(x.edges) = 3
    OBVIOUS
  <2> HIDE DEF two
  <2>1. x.edges \in Seq(ScopedEdges) /\ Len(x.edges) = Len(y.edges) + 1
    BY <1>3, ExtensionsScoped
  <2>2. Len(y.edges) = 2
    BY <1>3
  <2> QED
    BY <2>1, <2>2
<1> HIDE DEF one, two, three
<1> QED
  BY <1>1, <1>2, <1>3, <1>4 DEF Paths

LEMMA PathsFinite == IsFiniteSet(Paths)
<1> DEFINE E == ScopedEdges
           E2 == E \X E
           E3 == E2 \X E
           f1 == [x \in E |-> [i \in 1..1 |-> x]]
           f2 == [x \in E2 |-> [i \in 1..2 |-> x[i]]]
           f3 == [x \in E3 |-> [i \in 1..3 |-> IF i = 3 THEN x[2] ELSE x[1][i]]]
           T == {f1[x] : x \in E} \union {f2[x] : x \in E2} \union {f3[x] : x \in E3}
<1>1. IsFiniteSet(E) /\ IsFiniteSet(E2) /\ IsFiniteSet(E3)
  <2>1. IsFiniteSet(E)
    BY RetrievalAssumption, FS_Subset DEF ScopedEdges
  <2> HIDE DEF E
  <2>2. IsFiniteSet(E2)
    BY <2>1, FS_Product
  <2> HIDE DEF E2
  <2> QED
    BY <2>1, <2>2, FS_Product
<1>2. IsFiniteSet(T)
  <2>1. DOMAIN f1 = E /\ DOMAIN f2 = E2 /\ DOMAIN f3 = E3
    OBVIOUS
  <2> HIDE DEF E, E2, E3, f1, f2, f3
  <2>2. IsFiniteSet({f1[x] : x \in E}) /\ IsFiniteSet({f2[x] : x \in E2})
        /\ IsFiniteSet({f3[x] : x \in E3})
    BY <1>1, <2>1, ImageFinite
  <2> QED
    BY <2>2, FS_Union
<1>3. Paths \subseteq T
  <2> SUFFICES ASSUME NEW es \in Paths PROVE es \in T
    OBVIOUS
  <2>1. es \in Seq(E) /\ Len(es) \in 1..3
    BY DEF Paths
  <2>5. es = [i \in 1..Len(es) |-> es[i]] /\ \A i \in 1..Len(es) : es[i] \in E
    BY <2>1
  <2>2. CASE Len(es) = 1
    <3>1. es[1] \in E
      BY <2>5, <2>2
    <3>2. es = f1[es[1]]
      BY <3>1, <2>5, <2>2
    <3> QED
      BY <3>1, <3>2
  <2>3. CASE Len(es) = 2
    <3> DEFINE x == <<es[1], es[2]>>
    <3>1. x \in E2 /\ x[1] = es[1] /\ x[2] = es[2]
      BY <2>5, <2>3
    <3>2. f2[x] = [i \in 1..2 |-> x[i]]
      BY <3>1
    <3> HIDE DEF x
    <3>3. es = f2[x]
      BY <3>1, <3>2, <2>5, <2>3
    <3> HIDE DEF E2, E, f2
    <3> QED
      BY <3>1, <3>3
  <2>4. CASE Len(es) = 3
    <3> DEFINE x == <<<<es[1], es[2]>>, es[3]>>
    <3>1. x \in E3 /\ x[1][1] = es[1] /\ x[1][2] = es[2] /\ x[2] = es[3]
      BY <2>5, <2>4
    <3>2. f3[x] = [i \in 1..3 |-> IF i = 3 THEN x[2] ELSE x[1][i]]
      BY <3>1
    <3> HIDE DEF x
    <3>3. es = f3[x]
      BY <3>1, <3>2, <2>5, <2>4
    <3> HIDE DEF E3, E2, E, f3
    <3> QED
      BY <3>1, <3>3
  <2> QED
    BY <2>1, <2>2, <2>3, <2>4
<1> HIDE DEF T
<1> QED
  BY <1>2, <1>3, FS_Subset

\* The keys by which paths are sorted tell the length in their third place.
PathKeys == {t \in Seq(Int) : t[3] \in Nat /\ Len(t) = 3 + t[3]}

LEMMA PathKeysKeyed == Keyed(PathKeys, 3)
<1>1. \A s \in PathKeys : 3 <= Len(s)
  BY DEF PathKeys
<1>2. ASSUME NEW s \in PathKeys, NEW t \in PathKeys, Len(s) # Len(t)
      PROVE  \E m \in 1..3 : s[m] # t[m]
  <2>1. s[3] # t[3]
    BY <1>2 DEF PathKeys
  <2> QED
    BY <2>1
<1> QED
  BY <1>1, <1>2 DEF Keyed, PathKeys

LEMMA PairMeets ==
  ASSUME NEW a, NEW b, NEW S
  PROVE  Cardinality({a, b} \intersect S) \in Nat
<1>1. IsFiniteSet({a} \union {b})
  BY FS_Singleton, FS_Union
<1>2. IsFiniteSet({a, b})
  <2>1. {a} \union {b} = {a, b}
    OBVIOUS
  <2> QED
    BY <1>1, <2>1
<1>3. IsFiniteSet({a, b} \intersect S)
  BY <1>2, FS_Intersection
<1> QED
  BY <1>3, FS_CardinalityType

LEMMA PathKeyJoined ==
  ASSUME NEW h \in Seq(Int), NEW t \in Seq(Int)
  PROVE  Len(h) = 3 /\ h[3] = Len(t)
           => /\ h \o t \in PathKeys /\ (h \o t)[3] = Len(t)
              /\ \A i \in 1..Len(t) : (h \o t)[3 + i] = t[i]
<1>1. /\ h \o t \in Seq(Int) /\ Len(h \o t) = Len(h) + Len(t)
      /\ \A i \in 1..Len(h) : (h \o t)[i] = h[i]
      /\ \A i \in 1..Len(t) : (h \o t)[Len(h) + i] = t[i]
  OBVIOUS
<1>2. Len(t) \in Nat /\ 3 \in 1..3
  OBVIOUS
<1> QED
  BY <1>1, <1>2 DEF PathKeys

LEMMA SearchRanks ==
  ASSUME NEW m
  PROVE  Ranking(Search(m), TopK)
<1> DEFINE LastOf(es) == es[Len(es)]
           Exact(es) == Cardinality({LastOf(es).subject, LastOf(es).object} \intersect m.seeds)
           Cued(es) == LastOf(es).predicate \in m.cues
           Key(es) == <<-Exact(es), IF Cued(es) THEN 0 ELSE 1, Len(es)>> \o Ids(es)
           found == {w.edges : w \in Walks(m.seeds)}
           key == [es \in found |-> Key(es)]
           paths == Sorted(found, key)
           hits == [i \in DOMAIN paths |-> Hit(LastOf(paths[i]).chunk, 0, Ids(paths[i]))]
<1>1. Search(m) = Unique(hits, TopK)
  BY DEF Search
<1>2. found \subseteq Paths
  BY WalksScoped
<1>3. IsFiniteSet(found)
  <2> HIDE DEF found
  <2> QED
    BY <1>2, PathsFinite, FS_Subset
<1>4. ASSUME NEW es \in Paths
      PROVE  /\ es \in Seq(ScopedEdges) /\ Len(es) \in 1..3 /\ LastOf(es) \in ScopedEdges
             /\ Ids(es) \in Seq(Nat) /\ Len(Ids(es)) = Len(es)
             /\ \A i \in 1..Len(es) : es[i] \in ScopedEdges /\ Ids(es)[i] = es[i].id
  <2>1. es \in Seq(ScopedEdges) /\ Len(es) \in 1..3 /\ DOMAIN es = 1..Len(es)
        /\ \A i \in 1..Len(es) : es[i] \in ScopedEdges
    BY DEF Paths
  <2>2. LastOf(es) \in ScopedEdges
    BY <2>1
  <2>3. \A i \in 1..Len(es) : es[i].id \in Nat
    BY <2>1, RetrievalAssumption DEF ScopedEdges
  <2>4. Ids(es) = [i \in 1..Len(es) |-> es[i].id]
    BY <2>1 DEF Ids
  <2> QED
    BY <2>1, <2>2, <2>3, <2>4
<1>5. ASSUME NEW es \in Paths
      PROVE  /\ Key(es) \in PathKeys /\ Key(es)[3] = Len(es)
             /\ \A i \in 1..Len(es) : Key(es)[3 + i] = es[i].id
  <2> DEFINE head == <<-Exact(es), IF Cued(es) THEN 0 ELSE 1, Len(es)>>
  <2>1. Exact(es) \in Nat
    BY PairMeets
  <2>2. Len(es) \in Nat
    BY <1>4
  <2>3. head \in Seq(Int) /\ Len(head) = 3 /\ head[3] = Len(es)
    <3> HIDE DEF Exact, Cued
    <3> QED
      BY <2>1, <2>2
  <2>4. Ids(es) \in Seq(Int) /\ Len(Ids(es)) = Len(es)
    BY <1>4
  <2>5. Key(es) = head \o Ids(es)
    BY DEF head
  <2> HIDE DEF head, Key
  <2>6. /\ head \o Ids(es) \in PathKeys /\ (head \o Ids(es))[3] = Len(Ids(es))
        /\ \A i \in 1..Len(Ids(es)) : (head \o Ids(es))[3 + i] = Ids(es)[i]
    BY <2>3, <2>4, PathKeyJoined, Zenon
  <2> QED
    BY <2>4, <2>5, <2>6, <1>4
<1>6. ASSUME NEW a \in Paths, NEW b \in Paths, Key(a) = Key(b)
      PROVE  a = b
  <2> HIDE DEF Key
  <2>1. Len(a) = Len(b)
    BY <1>5, <1>6
  <2>2. \A i \in 1..Len(a) : a[i].id = b[i].id
    BY <2>1, <1>5, <1>6
  <2>3. \A i \in 1..Len(a) : a[i] = b[i]
    <3>1. \A e, f \in ScopedEdges : e.id = f.id => e = f
      BY RetrievalAssumption DEF ScopedEdges
    <3>2. \A i \in 1..Len(a) : a[i] \in ScopedEdges /\ b[i] \in ScopedEdges
      BY <2>1, <1>4
    <3> QED
      BY <2>2, <3>1, <3>2
  <2>4. a \in Seq(ScopedEdges) /\ b \in Seq(ScopedEdges)
    BY <1>4
  <2> QED
    BY <2>1, <2>3, <2>4
<1>7. paths \in Seq(found)
  <2>1. \A es \in found : key[es] = Key(es)
    OBVIOUS
  <2>2. \A es \in found : key[es] \in PathKeys
    <3> HIDE DEF key, found, Key
    <3> QED
      BY <1>2, <1>5, <2>1
  <2>3. \A a, b \in found : key[a] = key[b] => a = b
    <3> HIDE DEF key, found, Key
    <3> QED
      BY <1>2, <1>6, <2>1
  <2> HIDE DEF key, found
  <2> QED
    BY <1>3, <2>2, <2>3, PathKeysKeyed, SortedDistinct
<1>8. hits \in Seq(HitSet)
  <2> HIDE DEF paths, found
  <2>1. /\ Len(paths) \in Nat /\ DOMAIN paths = 1..Len(paths)
        /\ \A i \in 1..Len(paths) : paths[i] \in Paths
    BY <1>2, <1>7
  <2>2. \A i \in 1..Len(paths) : LastOf(paths[i]) \in ScopedEdges /\ Ids(paths[i]) \in Seq(Nat)
    BY <2>1, <1>4
  <2>3. \A e \in ScopedEdges : e.chunk \in Chunks /\ InScope(e.chunk)
    BY RetrievalAssumption DEF ScopedEdges
  <2> HIDE DEF LastOf
  <2>4. \A i \in 1..Len(paths) : Hit(LastOf(paths[i]).chunk, 0, Ids(paths[i])) \in HitSet
    BY <2>2, <2>3 DEF Hit, HitSet
  <2> QED
    BY <2>1, <2>4
<1>9. TopK \in Nat
  BY RetrievalAssumption
<1> HIDE DEF hits
<1> QED
  BY <1>1, <1>8, <1>9, UniqueRanks

(***************************************************************************)
(* Fusion                                                                  *)
(***************************************************************************)
LEMMA RankTyped ==
  ASSUME NEW hits, NEW c
  PROVE  RankOf(hits, c) = 0 \/ RankOf(hits, c) \in DOMAIN hits
  BY DEF RankOf

LEMMA FuseRanks ==
  ASSUME NEW dense, NEW graph, Ranking(dense, TopK), Ranking(graph, TopK)
  PROVE  Ranking(Fuse(dense, graph), TopK)
<1> DEFINE chunks == HitChunks(dense) \union HitChunks(graph)
           D(c) == RankOf(dense, c)
           G(c) == RankOf(graph, c)
           Score(c) == Reciprocal(D(c)) + Reciprocal(G(c))
           Similarity(c) == IF D(c) = 0 THEN -1 ELSE dense[D(c)].score
           PathLength(c) == IF G(c) = 0 THEN 4 ELSE Len(graph[G(c)].path)
           Path(c) == IF G(c) = 0 THEN <<>> ELSE graph[G(c)].path
           Key(c) == <<-Score(c), -Similarity(c), PathLength(c), c>>
           keys == {t \in Seq(Int) : Len(t) = 4}
           key == [c \in chunks |-> Key(c)]
           order == Sorted(chunks, key)
           best == Prefix(order, TopK)
           hits == [i \in DOMAIN best |-> Hit(best[i], Score(best[i]), Path(best[i]))]
<1>1. Fuse(dense, graph) = hits
  BY DEF Fuse
<1>2. \A c \in {x \in Chunks : InScope(x)} : c \in Nat
  BY RetrievalAssumption
<1>3. /\ \A i \in DOMAIN dense : dense[i] \in HitSet
      /\ \A i \in DOMAIN graph : graph[i] \in HitSet
  BY DEF Ranking
<1>4. /\ chunks \subseteq {x \in Chunks : InScope(x)}
  BY <1>3 DEF HitChunks, HitSet
<1>5. IsFiniteSet(chunks)
  <2>1. IsFiniteSet(Chunks) /\ chunks \subseteq Chunks
    BY <1>4, RetrievalAssumption
  <2> HIDE DEF chunks
  <2> QED
    BY <2>1, FS_Subset
<1>6. \A c \in chunks : Score(c) \in Int /\ Similarity(c) \in Int /\ PathLength(c) \in Int
                        /\ Path(c) \in Seq(Nat)
  <2> SUFFICES ASSUME NEW c \in chunks
               PROVE  Score(c) \in Int /\ Similarity(c) \in Int /\ PathLength(c) \in Int
                      /\ Path(c) \in Seq(Nat)
    OBVIOUS
  <2>1. TopK \in Nat /\ 60 \in Nat
    BY RetrievalAssumption
  <2>2. Reciprocal(D(c)) \in Nat /\ Reciprocal(G(c)) \in Nat
    BY <2>1, ShareTyped DEF Reciprocal
  <2>3. Score(c) \in Int
    BY <2>2
  <2>4. D(c) = 0 \/ dense[D(c)] \in HitSet
    BY <1>3, RankTyped
  <2>5. G(c) = 0 \/ graph[G(c)] \in HitSet
    BY <1>3, RankTyped
  <2>6. Similarity(c) \in Int
    BY <2>4 DEF HitSet
  <2>7. G(c) = 0 \/ graph[G(c)].path \in Seq(Nat)
    BY <2>5 DEF HitSet
  <2>8. Path(c) \in Seq(Nat) /\ PathLength(c) \in Int
    BY <2>7
  <2> QED
    BY <2>3, <2>6, <2>8
<1> HIDE DEF Score, Similarity, PathLength, Path
<1>7. \A c \in chunks : Key(c) \in keys /\ Key(c)[4] = c
  <2> SUFFICES ASSUME NEW c \in chunks PROVE Key(c) \in keys /\ Key(c)[4] = c
    OBVIOUS
  <2>1. -Score(c) \in Int /\ -Similarity(c) \in Int /\ PathLength(c) \in Int /\ c \in Int
    BY <1>2, <1>4, <1>6
  <2> QED
    BY <2>1
<1>8. order \in Seq(chunks) /\ \A m, n \in 1..Len(order) : order[m] = order[n] => m = n
  <2>1. Keyed(keys, 4)
    BY KeyWidth
  <2>2. \A c \in chunks : key[c] = Key(c)
    OBVIOUS
  <2>3. \A c \in chunks : key[c] \in keys /\ key[c][4] = c
    <3> HIDE DEF keys, key, chunks, Key
    <3> QED
      BY <2>2, <1>7
  <2>4. \A c, d \in chunks : key[c] = key[d] => c = d
    <3> HIDE DEF keys, key, chunks, Key
    <3> QED
      BY <2>3
  <2> HIDE DEF keys, key, chunks
  <2> QED
    BY <1>5, <2>1, <2>3, <2>4, SortedDistinct
<1> HIDE DEF order, chunks
<1>9. TopK \in Nat
  BY RetrievalAssumption
<1>10. /\ best \in Seq(chunks) /\ Len(best) <= TopK /\ Len(best) <= Len(order)
       /\ \A i \in 1..Len(best) : best[i] = order[i]
  BY <1>8, <1>9, PrefixKeeps
<1> HIDE DEF best
<1>11. \A m, n \in 1..Len(best) : best[m] = best[n] => m = n
  BY <1>8, <1>10
<1>12. \A i \in 1..Len(best) : hits[i] \in HitSet /\ hits[i].chunk = best[i]
  <2> SUFFICES ASSUME NEW i \in 1..Len(best)
               PROVE  hits[i] \in HitSet /\ hits[i].chunk = best[i]
    OBVIOUS
  <2>1. hits[i] = Hit(best[i], Score(best[i]), Path(best[i])) /\ best[i] \in chunks
    BY <1>10
  <2>2. Score(best[i]) \in Int /\ Path(best[i]) \in Seq(Nat)
    BY <2>1, <1>6
  <2>3. best[i] \in {x \in Chunks : InScope(x)}
    BY <2>1, <1>4
  <2> HIDE DEF hits
  <2> QED
    BY <2>1, <2>2, <2>3 DEF Hit, HitSet
<1>13. hits \in Seq(HitSet) /\ Len(hits) = Len(best)
  <2>1. DOMAIN hits = 1..Len(best) /\ Len(best) \in Nat
    BY <1>10
  <2> QED
    BY <1>12, <2>1
<1> HIDE DEF hits
<1>14. Distinct(hits)
  BY <1>11, <1>12, <1>13 DEF Distinct
<1> QED
  BY <1>1, <1>9, <1>10, <1>13, <1>14 DEF Ranking

(***************************************************************************)
(* Trajectories                                                            *)
(***************************************************************************)
\* What a ranking is demanded for: in scope, and no chunk twice.
LEMMA RankingScorable ==
  ASSUME NEW hits, NEW limit, Ranking(hits, limit)
  PROVE  /\ \A c \in HitChunks(hits) : InScope(c)
         /\ Cardinality(HitChunks(hits)) = Len(hits)
<1> DEFINE f == [i \in 1..Len(hits) |-> hits[i].chunk]
<1>1. /\ Len(hits) \in Nat /\ DOMAIN hits = 1..Len(hits)
      /\ \A i \in 1..Len(hits) : hits[i] \in HitSet
  BY DEF Ranking
<1>2. \A c \in HitChunks(hits) : InScope(c)
  BY <1>1 DEF HitChunks, HitSet
<1>3. f \in Bijection(1..Len(hits), HitChunks(hits))
  BY <1>1 DEF Bijection, Injection, Surjection, IsInjective, HitChunks, Ranking, Distinct
<1>4. ExistsBijection(1..Len(hits), HitChunks(hits))
  <2> HIDE DEF f
  <2> QED
    BY <1>3 DEF ExistsBijection
<1> QED
  BY <1>1, <1>2, <1>4, FS_CountingElements

LEMMA RoundsRank ==
  ASSUME NEW arm, NEW r \in Rounds(arm)
  PROVE  Ranking(r.selected, TopK)
<1>1. PICK s \in Similarities, graph \in {Search(m) : m \in Mentions} \union {<<>>} :
        r = Round(Dense(s), graph)
  BY DEF Rounds
<1>2. Ranking(Dense(s), TopK)
  BY DenseRanks
<1>3. graph # <<>> => Ranking(graph, TopK)
  BY <1>1, SearchRanks
<1>4. r.selected = IF graph = <<>> THEN Dense(s) ELSE Fuse(Dense(s), graph)
  BY <1>1 DEF Round
<1> QED
  BY <1>2, <1>3, <1>4, FuseRanks

LEMMA MergeRanks ==
  ASSUME NEW first, NEW second, Ranking(first, TopK), Ranking(second, TopK)
  PROVE  Ranking(Merge(first, second), 2 * TopK)
<1>1. first \o second \in Seq(HitSet)
  BY DEF Ranking
<1>2. 2 * TopK \in Nat
  BY RetrievalAssumption
<1> QED
  BY <1>1, <1>2, UniqueRanks DEF Merge

\* Whatever an arm meets, its trajectory is one that the report takes.
LEMMA TrajectoryFits ==
  ASSUME NEW arm, NEW t \in Trajectories(arm)
  PROVE  WithinBudget(arm, t) /\ Scorable(t)
<1>1. \/ \E r \in Rounds(arm) : t.hits = r.selected /\ t.calls = 1
      \/ /\ arm # "dense_top5" /\ t.calls = 2
         /\ \E r, s \in Rounds(arm) : t.hits = Merge(r.selected, s.selected)
  BY DEF Trajectories, Trajectory
<1>2. CASE \E r \in Rounds(arm) : t.hits = r.selected /\ t.calls = 1
  <2>1. Ranking(t.hits, TopK) /\ t.calls = 1
    BY <1>2, RoundsRank
  <2>2. Len(t.hits) <= TopK /\ Len(t.hits) \in Nat /\ TopK \in Nat
    BY <2>1, RetrievalAssumption DEF Ranking
  <2> QED
    BY <2>1, <2>2, RankingScorable DEF WithinBudget, Scorable
<1>3. CASE /\ arm # "dense_top5" /\ t.calls = 2
           /\ \E r, s \in Rounds(arm) : t.hits = Merge(r.selected, s.selected)
  <2>1. Ranking(t.hits, 2 * TopK)
    BY <1>3, RoundsRank, MergeRanks
  <2>2. Len(t.hits) <= 2 * TopK
    BY <2>1 DEF Ranking
  <2> QED
    BY <1>3, <2>1, <2>2, RankingScorable DEF WithinBudget, Scorable
<1> QED
  BY <1>1, <1>2, <1>3

(***************************************************************************)
(* The order of the arms                                                   *)
(***************************************************************************)
\* The places up to the last stand for the questions and arms, one for one.
LEMMA ArmsTurn ==
  /\ RunCount \in Nat
  /\ \A n \in 1..RunCount : <<ArmAt(n).question, ArmAt(n).arm>> \in (1..QuestionCount) \X Range(Arms)
  /\ \A q \in 1..QuestionCount, arm \in Range(Arms) :
       \E n \in 1..RunCount : ArmAt(n).question = q /\ ArmAt(n).arm = arm
  /\ \A m, n \in 1..RunCount :
       ArmAt(m).question = ArmAt(n).question /\ ArmAt(m).arm = ArmAt(n).arm => m = n
<1> DEFINE index(n) == (n - 1) \div 3
           turn(n) == IF program = "formal" THEN index(n) ELSE 0
           place(n) == 1 + ((n - 1 + turn(n)) % 3)
<1>1. QuestionCount \in Nat /\ RunCount = 3 * QuestionCount /\ RunCount \in Nat
  BY LimitsAssumption DEF RunCount
<1>2. /\ \A n : ArmAt(n).question = index(n) + 1 /\ ArmAt(n).arm = Arms[place(n)]
      /\ Range(Arms) = {Arms[a] : a \in 1..3}
      /\ \A a, b \in 1..3 : Arms[a] = Arms[b] => a = b
  <2>1. \A n : ArmAt(n).question = index(n) + 1 /\ ArmAt(n).arm = Arms[place(n)]
    BY DEF ArmAt
  <2>2. DOMAIN Arms = 1..3
    BY DEF Arms
  <2>3. Arms[1] = "dense_top5" /\ Arms[2] = "dense_retry_5x2" /\ Arms[3] = "graph_dense_retry_5x2"
    BY DEF Arms
  <2> QED
    BY <2>1, <2>2, <2>3 DEF Range
<1>3. \A n \in 1..RunCount : index(n) + 1 \in 1..QuestionCount /\ place(n) \in 1..3
  BY <1>1
<1>4. ASSUME NEW q \in 1..QuestionCount, NEW a \in 1..3
      PROVE  \E n \in 1..RunCount : index(n) + 1 = q /\ place(n) = a
  <2> DEFINE shift == IF program = "formal" THEN q - 1 ELSE 0
             n == 3 * (q - 1) + ((a - 1 + 2 * shift) % 3) + 1
  <2>1. n \in 1..RunCount /\ index(n) = q - 1
    BY <1>1
  <2>2. place(n) = a
    BY <1>1, <2>1
  <2> QED
    BY <2>1, <2>2
<1>5. ASSUME NEW m \in 1..RunCount, NEW n \in 1..RunCount,
             index(m) + 1 = index(n) + 1, place(m) = place(n)
      PROVE  m = n
  BY <1>1, <1>5
<1> HIDE DEF index, place
<1>6. \A n \in 1..RunCount :
        <<ArmAt(n).question, ArmAt(n).arm>> \in (1..QuestionCount) \X Range(Arms)
  BY <1>2, <1>3
<1>7. \A q \in 1..QuestionCount, arm \in Range(Arms) :
        \E n \in 1..RunCount : ArmAt(n).question = q /\ ArmAt(n).arm = arm
  BY <1>2, <1>4
<1>8. ASSUME NEW m \in 1..RunCount, NEW n \in 1..RunCount,
             ArmAt(m).question = ArmAt(n).question, ArmAt(m).arm = ArmAt(n).arm
      PROVE  m = n
  <2>1. place(m) \in 1..3 /\ place(n) \in 1..3 /\ index(m) + 1 \in Int /\ index(n) + 1 \in Int
    BY <1>3
  <2>2. index(m) + 1 = index(n) + 1 /\ Arms[place(m)] = Arms[place(n)]
    BY <1>2, <1>8
  <2>3. place(m) = place(n)
    BY <1>2, <2>1, <2>2
  <2> QED
    BY <1>5, <2>2, <2>3
<1> QED
  BY <1>1, <1>6, <1>7, <1>8

\* Only the arms leave trajectories, each in its turn and fit for the report.
LEMMA ArmsStep ==
  ASSUME RunsInv, ArmsInv, NEW i \in Invocations, Invocation(i)
  PROVE  ArmsInv'
<1> DEFINE Come(j) ==
      \E done \in 0..RunCount :
        /\ records[j] = [n \in 1..done |-> RecordAt(n)]
        /\ pc[j] = "report" => done = RunCount
<1> SUFFICES ASSUME program \in ArmRuns PROVE \A j \in Invocations : Come(j)'
  BY StepAlone DEF Alone, RunsInv, ArmsInv
<1>1. RunsTypeOK /\ RunsTypeOK' /\ Alone(i) /\ LabelInv /\ LabelInv' /\ program' = program
  BY StepAlone, LabelStep DEF RunsInv, Alone
<1>2. RunCount' = RunCount /\ \A n : RecordAt(n)' = RecordAt(n)
  BY <1>1 DEF RunCount, RecordAt, ArmAt
<1>3. \A j \in Invocations : Come(j)
  BY DEF ArmsInv
<1>4. ASSUME NEW j \in Invocations \ {i} PROVE Come(j)'
  <2>1. records'[j] = records[j] /\ pc'[j] = pc[j]
    BY <1>1 DEF Alone
  <2> QED
    BY <1>2, <1>3, <2>1
<1>5. PICK done \in 0..RunCount :
        /\ records[i] = [n \in 1..done |-> RecordAt(n)]
        /\ pc[i] = "report" => done = RunCount
  BY <1>3
<1>6. program \notin Calibrations /\ program # "auto_graph"
  BY DEF ArmRuns, Calibrations
<1>11. RunCount \in Nat /\ done \in Nat /\ done <= RunCount
  BY ArmsTurn
<1> DEFINE sofar == [n \in 1..done |-> RecordAt(n)]
<1>14. records[i] = sofar
  BY <1>5, Zenon
<1>12. Len(records[i]) = done
  <2>1. Len(sofar) = done
    BY <1>11
  <2> HIDE DEF sofar
  <2> QED
    BY <1>14, <2>1
<1>13. ASSUME records'[i] = records[i], pc'[i] # "report" PROVE Come(i)'
  BY <1>2, <1>5, <1>13
<1>7. ASSUME RunArm(i) PROVE Come(i)'
  <2>1. CASE records' = records /\ pc'[i] # "report"
    BY <1>13, <2>1
  <2>2. CASE \E t \in ArmTrajectories[ArmAt(Len(records[i]) + 1).arm] :
               LET at == ArmAt(Len(records[i]) + 1)
               IN /\ records' = [records EXCEPT ![i] = Append(@,
                       [question |-> at.question, arm |-> at.arm,
                        whole |-> WithinBudget(at.arm, t) /\ Scorable(t)])]
                  /\ pc'[i] # "report"
    <3> DEFINE next == done + 1
    <3>1. Len(records[i]) = done /\ done < RunCount /\ next \in 0..RunCount /\ next \in 1..RunCount
      <4>1. Len(records[i]) < RunCount
        BY <1>7 DEF RunArm
      <4> QED
        BY <4>1, <1>11, <1>12
    <3>2. PICK t \in ArmTrajectories[ArmAt(next).arm] :
            /\ records' = [records EXCEPT ![i] = Append(@,
                 [question |-> ArmAt(next).question, arm |-> ArmAt(next).arm,
                  whole |-> WithinBudget(ArmAt(next).arm, t) /\ Scorable(t)])]
            /\ pc'[i] # "report"
      BY <2>2, <3>1
    <3>3. ArmAt(next).arm \in Range(Arms)
      BY <3>1, ArmsTurn
    <3>4. WithinBudget(ArmAt(next).arm, t) /\ Scorable(t)
      BY <3>2, <3>3, TrajectoryFits DEF ArmTrajectories
    <3>5. (WithinBudget(ArmAt(next).arm, t) /\ Scorable(t)) = TRUE
      BY <3>4
    <3>6. records' = [records EXCEPT ![i] = Append(@, RecordAt(next))]
      BY <3>2, <3>5 DEF RecordAt
    <3>7. records'[i] = Append(sofar, RecordAt(next))
      <4>1. records'[i] = Append(records[i], RecordAt(next))
        BY <3>6, <1>1 DEF RunsTypeOK
      <4> HIDE DEF sofar
      <4> QED
        BY <4>1, <1>14
    <3>8. Append(sofar, RecordAt(next)) = [n \in 1..next |-> RecordAt(n)]
      BY <1>11
    <3>9. records'[i] = [n \in 1..next |-> RecordAt(n)]
      BY <3>7, <3>8
    <3> QED
      BY <3>1, <3>2, <3>9, <1>2
  <2> QED
    BY <1>1, <1>7, <2>1, <2>2 DEF RunArm, GoTo, RunsTypeOK
<1>8. ASSUME ArmsDone(i) PROVE Come(i)'
  <2>1. records'[i] = records[i] /\ done = RunCount
    BY <1>8, <1>12 DEF ArmsDone, work
  <2> QED
    BY <1>2, <1>5, <1>11, <2>1
<1>9. ~ExtractChunk(i) /\ ~RankAndSelect(i)
  BY <1>1, <1>6 DEF ExtractChunk, RankAndSelect, LabelInv
<1>10. ASSUME ~RunArm(i), ~ArmsDone(i) PROVE Come(i)'
  <2>1. records' = records
    BY <1>9, <1>10 DEF Invocation, CheckPaths, DryRun, WritePlan, PlanRun, Authorize, ClaimDirectory,
       EmbedBatch, Embedded, WriteSummary, WriteCache, WriteReport, KeepPartial, WriteStatus,
       WriteOutput, Kill, work
  <2>2. pc'[i] # "report"
    BY <1>1, <1>9, <1>10 DEF Invocation, CheckPaths, DryRun, WritePlan, PlanRun, Authorize,
       ClaimDirectory, EmbedBatch, Embedded, WriteSummary, WriteCache, WriteReport, KeepPartial,
       WriteStatus, WriteOutput, Kill, GoTo, End, RunsTypeOK
  <2> QED
    BY <1>13, <2>1, <2>2
<1> QED
  BY <1>4, <1>7, <1>8, <1>10

(***************************************************************************)
(* Theorems                                                                *)
(***************************************************************************)
LEMMA RunsKept ==
  ASSUME RunsInv, UNCHANGED <<program, plan, files, pc, work, exit, disturbed>>
  PROVE  RunsInv'
<1> USE DEF files, work
<1>1. RunsTypeOK' /\ LabelInv'
  BY DEF RunsInv, RunsTypeOK, LabelInv, Claims
<1>2. PayInv'
  BY SamePlan DEF RunsInv, PayInv
<1>3. DiskInv' /\ WholeInv' /\ OverwriteInv'
  BY SamePlan DEF RunsInv, DiskInv, WholeInv, OverwriteInv
<1>4. ClaimInv'
  BY SamePlan DEF RunsInv, ClaimInv, OneTrajectories
<1>5. OutputInv' /\ SoloInv'
  BY SamePlan DEF RunsInv, OutputInv, SoloInv, Running, Payer
<1> QED
  BY <1>1, <1>2, <1>3, <1>4, <1>5 DEF RunsInv

LEMMA RunsStart ==
  ASSUME RunsInit
  PROVE  RunsInv /\ ExportInv
<1>1. /\ \A i \in Invocations : /\ pc[i] = "new" /\ attempts[i] = 0 /\ submitted[i] = 0
                                /\ exit[i] = "none" /\ records[i] = <<>>
      /\ \A a \in Artifacts : disk[a] = Free
  BY DEF RunsInit
<1>2. RunsTypeOK
  BY DEF RunsInit, RunsTypeOK, Labels
<1>3. LabelInv
  BY <1>1 DEF LabelInv
<1>4. PayInv
  <2>1. Texts(0) = 0 /\ Len(Sends) \in Nat /\ 0 * plan.bytes = 0
    BY <1>2, SendTexts, PlanTypes
  <2> QED
    BY <1>1, <2>1 DEF PayInv, Unpaid
<1>5. DiskInv
  BY <1>1, FreeAssumption DEF DiskInv
<1>6. ClaimInv
  <2>1. Free # Torn
    BY DEF Free, Torn
  <2> QED
    BY <1>1, <2>1, Names DEF ClaimInv, Claimed
<1>7. OverwriteInv /\ OutputInv /\ SoloInv
  BY <1>1 DEF OverwriteInv, OutputInv, SoloInv, Running, Payer, RunsInit
<1>8. WholeInv
  BY <1>1 DEF WholeInv
<1>9. ExportInv
  BY <1>1, Names, FreeAssumption DEF ExportInv, RunsInit
<1> QED
  BY <1>2, <1>3, <1>4, <1>5, <1>6, <1>7, <1>8, <1>9 DEF RunsInv

\* The inductive invariant of the R7 programs: which program has which steps, what
\* was counted is a part of what was admitted, and whose the artifacts are.
THEOREM RunsInvariance == RunsSpec => [](RunsInv /\ ExportInv)
<1>1. RunsInit => RunsInv /\ ExportInv
  BY RunsStart
<1>2. RunsInv /\ ExportInv /\ [RunsNext]_runVars => (RunsInv /\ ExportInv)'
  <2> SUFFICES ASSUME RunsInv, ExportInv, [RunsNext]_runVars PROVE RunsInv' /\ ExportInv'
    OBVIOUS
  <2>1. ASSUME NEW i \in Invocations, Invocation(i) PROVE RunsInv' /\ ExportInv'
    BY <2>1, StepAlone, LabelStep, PayStep, DiskStep, ClaimStep, OverwriteStep, OutputStep, SoloStep,
       WholeStep, ExportStep DEF RunsInv
  <2>2. CASE ExportGraph
    <3>1. RunsInv'
      BY <2>2, RunsKept DEF ExportGraph
    <3>2. /\ program' = program /\ disk' = disk /\ records' = records /\ pc' = pc /\ exit' = exit
          /\ plan' = plan /\ program = "auto_graph" /\ disk["summary"] \in Invocations
          /\ Len(records[disk["run_dir"]]) = plan.queries
          /\ exported' = <<ValidatedChunks(disk["run_dir"])>>
      BY <2>2 DEF ExportGraph, work, files
    <3>3. \A i : ValidatedChunks(i)' = ValidatedChunks(i)
      BY <3>2 DEF ValidatedChunks
    <3> QED
      BY <3>1, <3>2, <3>3 DEF ExportInv
  <2>3. CASE RunsDone \/ UNCHANGED runVars
    <3>1. UNCHANGED runVars
      BY <2>3 DEF RunsDone
    <3>2. RunsInv'
      BY <3>1, RunsKept DEF runVars
    <3>3. \A i : ValidatedChunks(i)' = ValidatedChunks(i)
      BY <3>1 DEF ValidatedChunks, runVars, work
    <3> QED
      BY <3>1, <3>2, <3>3 DEF ExportInv, runVars, work, files
  <2> QED
    BY <2>1, <2>2, <2>3 DEF RunsNext
<1> QED
  BY <1>1, <1>2, PTL DEF RunsSpec

LEMMA AtMostOne ==
  ASSUME NEW S, \A x, y \in S : x = y
  PROVE  Cardinality(S) <= 1
<1>1. CASE S = {}
  BY <1>1, FS_EmptySet
<1>2. CASE S # {}
  <2>1. PICK x \in S : TRUE
    BY <1>2
  <2>2. S = {x}
    BY <2>1
  <2> QED
    BY <2>2, FS_Singleton
<1> QED
  BY <1>1, <1>2

\* At most one invocation pays where a directory is claimed; elsewhere, and if none
\* was disturbed, at most one that does not raise after it.
LEMMA OnlyOnePays ==
  ASSUME RunsInv
  PROVE  /\ Claims => Cardinality({i \in Invocations : attempts[i] > 0}) <= 1
         /\ ~Claims /\ ~disturbed => Cardinality({i \in Invocations : Payer(i)}) <= 1
<1>1. ASSUME Claims PROVE Cardinality({i \in Invocations : attempts[i] > 0}) <= 1
  <2>1. \A i, j \in {k \in Invocations : attempts[k] > 0} : i = j
    BY <1>1 DEF RunsInv, ClaimInv
  <2> QED
    BY <2>1, AtMostOne
<1>2. ASSUME ~Claims, ~disturbed PROVE Cardinality({i \in Invocations : Payer(i)}) <= 1
  <2>1. \A i, j \in {k \in Invocations : Payer(k)} : i = j
    BY <1>2 DEF RunsInv, SoloInv
  <2> QED
    BY <2>1, AtMostOne
<1> QED
  BY <1>1, <1>2

\* No invocation exceeds what was approved and the meter admits every request of an
\* admitted plan.  A directory is paid for once, whatever fails; without one, and if
\* no invocations overlap and none is killed, only an invocation that raised after
\* it paid is followed by another that pays.
THEOREM PaymentsApproved == RunsSpec => []PaidWithinApproval
<1>1. RunsInv => PaidWithinApproval
  <2> SUFFICES ASSUME RunsInv PROVE PaidWithinApproval
    OBVIOUS
  <2>0. RunsTypeOK /\ PayInv
    BY DEF RunsInv
  <2>1. ASSUME NEW i \in Invocations
        PROVE  attempts[i] <= MaxRequests[program] /\ submitted[i] <= MaxTokens[program]
    <3>1. /\ attempts[i] \in Nat /\ submitted[i] = Texts(attempts[i]) * plan.bytes
          /\ attempts[i] <= Len(Sends) /\ (attempts[i] > 0 => Admitted)
      BY <2>0 DEF RunsTypeOK, PayInv
    <3>2. CASE attempts[i] = 0
      <4>1. submitted[i] = 0 * plan.bytes /\ 0 * plan.bytes = 0
        BY <2>0, <3>1, <3>2, SendTexts, PlanTypes
      <4> QED
        BY <2>0, <3>2, <4>1, PlanTypes
    <3>3. CASE attempts[i] > 0
      <4>1. /\ Len(Sends) <= MaxRequests[program]
            /\ (plan.documents + plan.queries) * plan.bytes <= MaxTokens[program]
        BY <2>0, <3>1, <3>3, AdmittedWithinLimits
      <4>2. Len(Sends) \in Nat /\ attempts[i] \in 0..Len(Sends)
        BY <2>0, <3>1, SendTexts
      <4> DEFINE texts == Texts(attempts[i])
                 all == plan.documents + plan.queries
      <4>3. texts \in Nat /\ texts <= all
        BY <2>0, <4>2, SendTexts
      <4>4. all \in Nat /\ plan.bytes \in Nat
        BY <2>0, PlanTypes
      <4> HIDE DEF texts, all
      <4>5. /\ texts * plan.bytes \in Nat /\ all * plan.bytes \in Nat
            /\ texts * plan.bytes <= all * plan.bytes
        BY <4>3, <4>4, TimesMonotonic, Zenon
      <4>6. submitted[i] = texts * plan.bytes /\ all * plan.bytes <= MaxTokens[program]
        BY <3>1, <4>1 DEF texts, all
      <4>7. submitted[i] <= MaxTokens[program]
        BY <2>0, <4>5, <4>6, PlanTypes
      <4>8. attempts[i] <= MaxRequests[program]
        BY <2>0, <4>1, <4>2, PlanTypes
      <4> QED
        BY <4>7, <4>8
    <3> QED
      BY <3>1, <3>2, <3>3
  <2>2. ASSUME NEW i \in Invocations, pc[i] = "pay", NextRequest(i) \in DOMAIN Sends
        PROVE  MeterAdmits(i)
    BY <2>0, <2>2, NextWithinLimits DEF PayInv
  <2>3. /\ Claims => Cardinality({i \in Invocations : attempts[i] > 0}) <= 1
        /\ ~Claims /\ ~disturbed => Cardinality({i \in Invocations : Payer(i)}) <= 1
    BY OnlyOnePays
  <2> QED
    BY <2>1, <2>2, <2>3 DEF PaidWithinApproval
<1> QED
  BY <1>1, RunsInvariance, PTL

\* Only the NEUQ calibration ever replaces a file.  If it does not, exit 0 means a
\* whole set of artifacts of one invocation, and a formal run that got to its status
\* has left its trajectories in one file.
THEOREM ArtifactsBelongTogether == RunsSpec => []ArtifactsAgree
<1>1. RunsInv => ArtifactsAgree
  <2> SUFFICES ASSUME RunsInv PROVE ArtifactsAgree
    OBVIOUS
  <2>1. disk["status"] # Free => OneTrajectories
    <3>1. CASE Claims
      BY <3>1 DEF RunsInv, ClaimInv
    <3>2. CASE ~Claims
      BY <3>2, Names DEF RunsInv, DiskInv, Written, Claims
    <3> QED
      BY <3>1, <3>2
  <2>2. WholeInv /\ OverwriteInv
    BY DEF RunsInv
  <2> QED
    BY <2>1, <2>2 DEF WholeInv, OverwriteInv, ArtifactsAgree
<1> QED
  BY <1>1, RunsInvariance, PTL

\* What is exported is every validated chunk of an extraction that got to its end,
\* and everything that was planned exactly if the extraction succeeded.
THEOREM ExportsComplete == RunsSpec => []ExportIsComplete
<1>1. RunsInv /\ ExportInv => ExportIsComplete
  <2> SUFFICES ASSUME RunsInv, ExportInv, NEW n \in DOMAIN exported
               PROVE  LET owner == disk["run_dir"]
                      IN /\ pc[owner] = "ended" /\ Len(records[owner]) = plan.queries
                         /\ exported[n] = ValidatedChunks(owner)
                         /\ exit[owner] = "ok" <=> exported[n] = 1..plan.queries
    BY DEF ExportIsComplete
  <2> DEFINE owner == disk["run_dir"]
             chunks == ValidatedChunks(owner)
  <2>1. exported # <<>> /\ program = "auto_graph"
    BY DEF ExportInv
  <2>2. /\ pc[owner] = "ended" /\ Len(records[owner]) = plan.queries
        /\ exit[owner] = "ok" <=> Cardinality(chunks) = plan.queries
        /\ exported = <<chunks>> /\ disk["summary"] \in Invocations
    BY <2>1 DEF ExportInv
  <2>3. exported[n] = chunks
    BY <2>2
  <2>4. owner \in Invocations /\ plan.queries \in Nat
    BY <2>1, <2>2, PlanTypes, Names, FreeAssumption DEF RunsInv, RunsTypeOK, ClaimInv, Claims
  <2>5. chunks \subseteq 1..plan.queries
    <3>1. records[owner] \in Seq({"validated", "invalid", "unanswered"})
      BY <2>1, <2>4 DEF ExportInv
    <3> QED
      BY <2>2, <3>1 DEF ValidatedChunks
  <2> HIDE DEF owner, chunks
  <2>6. IsFiniteSet(1..plan.queries) /\ Cardinality(1..plan.queries) = plan.queries
    <3> DEFINE q == plan.queries
    <3>1. q \in Nat /\ q \in Int /\ 1 \in Int
      BY <2>4
    <3> HIDE DEF q
    <3>2. IsFiniteSet(1..q) /\ Cardinality(1..q) = IF 1 > q THEN 0 ELSE q - 1 + 1
      BY <3>1, FS_Interval, Zenon
    <3>3. (IF 1 > q THEN 0 ELSE q - 1 + 1) = q
      BY <3>1
    <3> QED
      BY <3>2, <3>3 DEF q
  <2>7. Cardinality(chunks) = plan.queries <=> chunks = 1..plan.queries
    BY <2>5, <2>6, FS_Subset
  <2> QED
    BY <2>2, <2>3, <2>7 DEF owner, chunks
<1> QED
  BY <1>1, RunsInvariance, PTL


\* What a run of the arms has recorded are its questions and arms up to some place,
\* each fit for the report, and all of them when the report begins.
THEOREM ArmsInvariance == RunsSpec => []ArmsInv
<1>1. RunsInit => ArmsInv
  <2> SUFFICES ASSUME RunsInit, program \in ArmRuns, NEW i \in Invocations
               PROVE  \E done \in 0..RunCount :
                        /\ records[i] = [n \in 1..done |-> RecordAt(n)]
                        /\ pc[i] = "report" => done = RunCount
    BY DEF ArmsInv
  <2>1. records[i] = <<>> /\ pc[i] = "new"
    BY DEF RunsInit
  <2>2. 0 \in 0..RunCount
    BY ArmsTurn
  <2>3. <<>> = [n \in 1..0 |-> RecordAt(n)]
    OBVIOUS
  <2> QED
    BY <2>1, <2>2, <2>3
<1>2. RunsInv /\ ArmsInv /\ [RunsNext]_runVars => ArmsInv'
  <2> SUFFICES ASSUME RunsInv, ArmsInv, [RunsNext]_runVars PROVE ArmsInv'
    OBVIOUS
  <2>1. CASE \E i \in Invocations : Invocation(i)
    BY <2>1, ArmsStep
  <2>2. CASE UNCHANGED <<program, pc, records>>
    <3>1. RunCount' = RunCount /\ \A n : RecordAt(n)' = RecordAt(n)
      BY <2>2 DEF RunCount, RecordAt, ArmAt
    <3> QED
      BY <2>2, <3>1 DEF ArmsInv
  <2>3. ExportGraph \/ RunsDone \/ UNCHANGED runVars => UNCHANGED <<program, pc, records>>
    BY DEF ExportGraph, RunsDone, runVars, work
  <2> QED
    BY <2>1, <2>2, <2>3 DEF RunsNext
<1> QED
  BY <1>1, <1>2, RunsInvariance, PTL DEF RunsSpec

\* Whatever chunks, scores, graph and questions there are, what the arms return is
\* within the budget of the arm, in scope and free of repeats, and a run has it once
\* for every question and arm when the report is built: it is never refused.
THEOREM TrajectoriesAccepted == RunsSpec => []TrajectoriesFitReport
<1>1. RunsInv /\ ArmsInv => TrajectoriesFitReport
  <2> SUFFICES ASSUME RunsInv, ArmsInv, NEW i \in Invocations, pc[i] = "report"
               PROVE  Reportable(i)
    BY DEF TrajectoriesFitReport
  <2>1. program \in ArmRuns
    BY DEF RunsInv, LabelInv, ArmRuns
  <2>2. records[i] = [n \in 1..RunCount |-> RecordAt(n)] /\ RunCount \in Nat
    BY <2>1, ArmsTurn DEF ArmsInv
  <2> DEFINE record == [n \in 1..RunCount |-> RecordAt(n)]
             rows == {record[n] : n \in 1..RunCount}
  <2>3. \A n \in 1..RunCount : /\ record[n].question = ArmAt(n).question
                               /\ record[n].arm = ArmAt(n).arm /\ record[n].whole
    BY DEF RecordAt
  <2>4. Len(record) = RunCount /\ DOMAIN record = 1..RunCount
    BY <2>2
  <2> HIDE DEF record
  <2>5. {<<r.question, r.arm>> : r \in rows} = (1..QuestionCount) \X Range(Arms)
    <3>1. \A n \in 1..RunCount :
            <<record[n].question, record[n].arm>> \in (1..QuestionCount) \X Range(Arms)
      BY <2>3, ArmsTurn
    <3>2. ASSUME NEW q \in 1..QuestionCount, NEW arm \in Range(Arms)
          PROVE  \E r \in rows : <<r.question, r.arm>> = <<q, arm>>
      <4>1. PICK n \in 1..RunCount : ArmAt(n).question = q /\ ArmAt(n).arm = arm
        BY ArmsTurn
      <4> QED
        BY <4>1, <2>3
    <3> QED
      BY <3>1, <3>2
  <2>6. Cardinality(rows) = RunCount
    <3>1. \A m, n \in 1..RunCount : record[m] = record[n] => m = n
      BY <2>3, ArmsTurn
    <3>2. record \in Bijection(1..RunCount, rows)
      <4>1. record = [n \in 1..RunCount |-> record[n]]
        BY <2>4, <2>2 DEF record
      <4>2. record \in [1..RunCount -> rows]
        BY <4>1
      <4> QED
        BY <4>2, <3>1 DEF Bijection, Injection, Surjection, IsInjective
    <3>3. ExistsBijection(1..RunCount, rows)
      BY <3>2 DEF ExistsBijection
    <3> QED
      BY <3>3, <2>2, FS_CountingElements
  <2>7. \A r \in rows : r.whole
    BY <2>3
  <2>8. records[i] = record
    BY <2>2 DEF record
  <2> QED
    BY <2>4, <2>5, <2>6, <2>7, <2>8 DEF Reportable
<1> QED
  BY <1>1, RunsInvariance, ArmsInvariance, PTL
=============================================================================
