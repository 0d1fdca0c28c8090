------------------------------- MODULE R7Runs -------------------------------
(***************************************************************************)
(* The R7 programs that pay for provider calls: the formal run, the        *)
(* automatic graph extraction, the development smoke run and the two       *)
(* threshold calibrations (scripts/run_r7_*.py, evaluation/                *)
(* r7_calibration.py, evaluation/r7_neuq_calibration.py), and the export   *)
(* of an extracted graph (evaluation/experiments/r7_auto_graph.py).        *)
(*                                                                         *)
(* An operator may start a program several times with the same paths, also *)
(* while an earlier invocation is running or after one was killed.  What   *)
(* an earlier invocation leaves on the disk is all a later one knows.      *)
(***************************************************************************)
EXTENDS R7Retrieval, R7Calibration

CONSTANTS
  Invocations,  \* of one program, with the same path arguments
  BatchSize,    \* texts of an embedding request: 64
  MaxTexts,     \* texts the plan of a program may name, where it says so
  MaxRequests,  \* paid requests of a program
  MaxTokens,    \* its token_upper_bound
  QuestionCount \* questions of a run that runs the arms

Calibrations == {"calibration", "neuq_calibration"}
ArmRuns == {"formal", "smoke"}
Programs == Calibrations \union ArmRuns \union {"auto_graph"}
Metered == Programs \ {"auto_graph"}

CeilDiv(n, d) == (n + d - 1) \div d

\* The limits of the plans and of the meters are written down separately.
ASSUME LimitsAssumption ==
  /\ BatchSize \in Nat \ {0} /\ QuestionCount \in Nat
  /\ \A p \in Programs : MaxRequests[p] \in Nat /\ MaxTokens[p] \in Nat
  /\ \A p \in ArmRuns : /\ MaxTexts[p] \in Nat
                        /\ CeilDiv(MaxTexts[p], BatchSize) <= MaxRequests[p]

VARIABLES
  program,    \* which of the programs is run
  plan,       \* what it has to send: [documents, queries, bytes (of a text)]
  disk,       \* the invocation that wrote an artifact; Torn (a part of it), Free
  pc,
  attempts,   \* requests sent by an invocation: attempt_count
  submitted,  \* their bytes: submitted_token_upper_bound
  receipts,   \* the requests it has a receipt of
  records,    \* trajectories, records of extracted chunks, or the selection
  exit,       \* "ok" (0), "failed" (1), "raised" or "none"
  overwritten,\* auxiliary: an artifact that existed was replaced
  disturbed,  \* auxiliary: two invocations overlapped, or one was killed
  exported    \* the exported graphs, each the chunks in it: one at most

files == <<disk, overwritten>>
work == <<attempts, submitted, receipts, records>>
runVars == <<program, plan, files, pc, work, exit, disturbed, exported>>

Free == "free"
Torn == "torn"
ASSUME FreeAssumption == Free \notin Invocations /\ Torn \notin Invocations

Artifacts == {"run_dir", "plan", "cache", "trajectories", "partial", "report",
              "status", "output", "summary"}

\* A new directory, claimed by mkdir(exist_ok=False), or two new files.
Claims == program \in {"formal", "auto_graph"}
Guarded == IF Claims THEN {"run_dir"} ELSE {"output", "cache"}

(***************************************************************************)
(* What a plan sends                                                       *)
(***************************************************************************)
\* embed_documents: consecutive batches of one list of texts.
BatchesOf(n) ==
  [i \in 1..CeilDiv(n, BatchSize) |->
     IF i * BatchSize <= n THEN BatchSize ELSE n - (i - 1) * BatchSize]

\* The texts of each request in turn; the extraction sends one chunk at a time.
Sends == IF program = "auto_graph" THEN [i \in 1..plan.queries |-> 1]
         ELSE BatchesOf(plan.documents) \o BatchesOf(plan.queries)

UpperBound == (plan.documents + plan.queries) * plan.bytes

\* The limits a plan is checked against before anything is sent.
CalibrationAdmitted == Len(Sends) <= MaxRequests[program]
ArmRunAdmitted == plan.queries <= MaxTexts[program]
ExtractionAdmitted == plan.queries <= MaxRequests[program]

Admitted ==
  /\ UpperBound <= MaxTokens[program]
  /\ CASE program \in Calibrations -> CalibrationAdmitted
       [] program \in ArmRuns -> ArmRunAdmitted
       [] OTHER -> ExtractionAdmitted

\* Only the calibrations embed documents; only what has been planned is paid.
Plans == [documents : 0..(2 * BatchSize), queries : 0..(2 * BatchSize + 1), bytes : 1..2]

RunsInit ==
  /\ program \in Programs
  /\ plan \in {p \in Plans : program \in Calibrations \/ p.documents = 0}
  /\ disk = [a \in Artifacts |-> Free] /\ overwritten = FALSE
  /\ pc = [i \in Invocations |-> "new"]
  /\ attempts = [i \in Invocations |-> 0] /\ submitted = [i \in Invocations |-> 0]
  /\ receipts = [i \in Invocations |-> 0] /\ records = [i \in Invocations |-> <<>>]
  /\ exit = [i \in Invocations |-> "none"]
  /\ disturbed = FALSE /\ exported = <<>>

(***************************************************************************)
(* Steps of an invocation                                                  *)
(***************************************************************************)
Running(i) == pc[i] \notin {"new", "ended", "killed"}

GoTo(i, label) == pc' = [pc EXCEPT ![i] = label] /\ UNCHANGED exit
End(i, code) == pc' = [pc EXCEPT ![i] = "ended"] /\ exit' = [exit EXCEPT ![i] = code]

(***************************************************************************)
(* Files                                                                   *)
(***************************************************************************)
Write(i, as) ==
  /\ disk' = [a \in Artifacts |-> IF a \in as THEN i ELSE disk[a]]
  /\ overwritten' = (overwritten \/ \E a \in as : disk[a] # Free)

\* open("x") refuses a file that exists; only the NEUQ calibration writes over it.
Writable(a) == disk[a] = Free \/ program = "neuq_calibration"

\* A write that is refused or fails, before there is a file or in the middle of it.
\* A process killed while it writes leaves no more than that.
Fault(a) ==
  \/ UNCHANGED files
  \/ /\ Writable(a) /\ disk' = [disk EXCEPT ![a] = Torn]
     /\ overwritten' = (overwritten \/ disk[a] # Free)

(***************************************************************************)
(* Up to the first paid request                                            *)
(***************************************************************************)
Overlaps(i) == \E j \in Invocations \ {i} : Running(j)

\* "Refusing to overwrite": a check, made before the slow part.
CheckPaths(i) ==
  /\ pc[i] = "new"
  /\ IF \A a \in Guarded : disk[a] = Free THEN GoTo(i, "plan") ELSE End(i, "raised")
  /\ disturbed' = (disturbed \/ Overlaps(i))
  /\ UNCHANGED <<program, plan, files, work, exported>>

\* Without the flag that approves it the scripts show the plan and send nothing;
\* the calibrations do not look at their paths then.
DryRun(i) ==
  /\ pc[i] = IF program \in Calibrations THEN "new" ELSE "authorize"
  /\ Admitted /\ End(i, "ok")
  /\ UNCHANGED <<program, plan, files, work, disturbed, exported>>

\* The NEUQ calibration can also be started as a module, which writes the plan to
\* the path of the report, whatever is there.
WritePlan(i) ==
  /\ program = "neuq_calibration" /\ pc[i] = "new" /\ Admitted
  /\ \/ Write(i, {"output"}) /\ End(i, "ok")
     \/ Fault("output") /\ End(i, "raised")
  /\ disturbed' = (disturbed \/ Overlaps(i))
  /\ UNCHANGED <<program, plan, work, exported>>

\* Frozen inputs that changed, and a plan beyond the limits, are refused.
PlanRun(i) ==
  /\ pc[i] = "plan"
  /\ \/ End(i, "raised")
     \/ Admitted /\ GoTo(i, "authorize")
  /\ UNCHANGED <<program, plan, files, work, disturbed, exported>>

\* The authorization, the approval record or the key may be missing.
Authorize(i) ==
  /\ pc[i] = "authorize"
  /\ \/ \E code \in {"failed", "raised"} : End(i, code)
     \/ GoTo(i, IF Claims THEN "claim" ELSE "pay")
  /\ UNCHANGED <<program, plan, files, work, disturbed, exported>>

\* Mutation: a directory that exists is taken over.
ReuseDirectory(i) ==
  /\ pc[i] = "claim"
  /\ Write(i, {"run_dir", "plan"}) /\ GoTo(i, "pay")
  /\ UNCHANGED <<program, plan, work, disturbed, exported>>

\* mkdir fails for all but one; the plan is written before anything is paid, or
\* nothing is.
ClaimDirectory(i) ==
  /\ pc[i] = "claim"
  /\ \/ /\ disk["run_dir"] = Free
        /\ \/ Write(i, {"run_dir", "plan"}) /\ GoTo(i, "pay")
           \/ /\ \E rest \in {disk["plan"], Torn} :
                   disk' = [disk EXCEPT !["run_dir"] = i, !["plan"] = rest]
              /\ End(i, "raised") /\ UNCHANGED overwritten
     \/ End(i, "raised") /\ UNCHANGED files
  /\ UNCHANGED <<program, plan, work, disturbed, exported>>

(***************************************************************************)
(* Paid requests                                                           *)
(***************************************************************************)
NextRequest(i) == attempts[i] + 1
Prospective(i) == submitted[i] + Sends[NextRequest(i)] * plan.bytes

\* MeteredClient.create refuses before it counts.
MeterAdmits(i) ==
  /\ attempts[i] < MaxRequests[program]
  /\ Prospective(i) <= MaxTokens[program]

\* Counted before it is sent: a request that fails, or that the process does
\* not survive, has been made.
Count(i) ==
  /\ attempts' = [attempts EXCEPT ![i] = NextRequest(i)]
  /\ submitted' = [submitted EXCEPT ![i] = Prospective(i)]

\* The answer may be an error, one without usage (no receipt), or one with a
\* receipt that the provider refuses for its vectors.  Every error ends it, and
\* so does a text, a setting or the meter that refuses a request.
EmbedBatch(i) ==
  /\ pc[i] = "pay" /\ program \in Metered /\ NextRequest(i) \in DOMAIN Sends
  /\ \/ /\ MeterAdmits(i) /\ Count(i)
        /\ \/ \E n \in {0, 1} : /\ receipts' = [receipts EXCEPT ![i] = @ + n]
                                /\ GoTo(i, "failed")
           \/ receipts' = [receipts EXCEPT ![i] = @ + 1] /\ GoTo(i, "pay")
           \/ GoTo(i, "killed") /\ UNCHANGED receipts
     \/ GoTo(i, "failed") /\ UNCHANGED <<attempts, submitted, receipts>>
  /\ disturbed' = (disturbed \/ pc'[i] = "killed")
  /\ UNCHANGED <<program, plan, files, records, exported>>

Embedded(i) ==
  /\ pc[i] = "pay" /\ program \in Metered /\ NextRequest(i) \notin DOMAIN Sends
  /\ GoTo(i, IF program \in ArmRuns /\ plan.queries = 0 THEN "arms" ELSE "cache")
  /\ UNCHANGED <<program, plan, files, work, disturbed, exported>>

\* What validate_output looks at in an answer that has the schema: its state,
\* whether it lists prerequisites, where its quotation is, whether that has a
\* word for "none", and whether all relations are in their quotations.
Answers ==
  [state : {"listed", "explicit_none", "unknown", "conflicting"}, requires : BOOLEAN,
   quote : {"empty", "foreign", "verbatim"}, cue : BOOLEAN, supported : BOOLEAN]

ValidAnswer(a) ==
  /\ a.requires => a.state \in {"listed", "conflicting"}
  /\ a.state = "listed" => a.requires
  /\ a.quote # "foreign"
  /\ a.state \in {"explicit_none", "conflicting"} => a.quote = "verbatim"
  /\ a.state = "explicit_none" => a.cue
  /\ a.supported

\* chunk_NNN.json is written with its record, and an error of that ends the
\* program.  An answer that does not validate (or does not end, or has no schema)
\* is kept and the next chunk is sent; without an answer the loop ends.
ExtractChunk(i) ==
  /\ pc[i] = "pay" /\ program = "auto_graph" /\ NextRequest(i) \in DOMAIN Sends
  /\ Count(i)
  /\ \/ \E a \in Answers, whole \in BOOLEAN :
          /\ records' = [records EXCEPT ![i] =
               Append(@, IF whole /\ ValidAnswer(a) THEN "validated" ELSE "invalid")]
          /\ GoTo(i, "pay")
     \/ /\ records' = [records EXCEPT ![i] = Append(@, "unanswered")]
        /\ GoTo(i, "status")
     \/ /\ \/ End(i, "raised")
           \/ GoTo(i, "killed")
        /\ UNCHANGED records
  /\ disturbed' = (disturbed \/ pc'[i] = "killed")
  /\ UNCHANGED <<program, plan, files, receipts, exported>>

ValidatedChunks(i) == {n \in DOMAIN records[i] : records[i][n] = "validated"}

WriteSummary(i) ==
  /\ program = "auto_graph"
  /\ \/ pc[i] = "status"
     \/ pc[i] = "pay" /\ NextRequest(i) \notin DOMAIN Sends
  /\ \/ /\ Write(i, {"summary"})
        /\ End(i, IF Cardinality(ValidatedChunks(i)) = plan.queries THEN "ok" ELSE "failed")
     \/ Fault("summary") /\ End(i, "raised")
  /\ UNCHANGED <<program, plan, work, disturbed, exported>>

(***************************************************************************)
(* After the embeddings                                                    *)
(***************************************************************************)
\* query_cache.json, the rewrite cache or the vector cache.  The smoke run writes
\* it outside of any try.
WriteCache(i) ==
  /\ pc[i] = "cache"
  /\ \/ /\ Writable("cache") /\ Write(i, {"cache"})
        /\ GoTo(i, IF program \in ArmRuns THEN "arms" ELSE "rank")
     \/ /\ Fault("cache")
        /\ IF program = "smoke" THEN End(i, "raised") ELSE GoTo(i, "failed")
  /\ UNCHANGED <<program, plan, work, disturbed, exported>>

\* Ranking fails on a vector without a norm, the selection without questions of
\* both kinds; that no threshold is eligible is a result.
RankAndSelect(i) ==
  /\ pc[i] = "rank"
  /\ \/ \E rankings \in Rankings :
          /\ Selectable(rankings)
          /\ records' = [records EXCEPT ![i] = <<SelectThreshold(rankings)>>]
          /\ GoTo(i, "completed")
     \/ GoTo(i, "failed") /\ UNCHANGED records
  /\ UNCHANGED <<program, plan, files, attempts, submitted, receipts, disturbed, exported>>

\* The questions in order; the arm that goes first rotates in a formal run.
ArmAt(n) ==
  LET index == (n - 1) \div 3
      shift == IF program = "formal" THEN index ELSE 0
  IN [question |-> index + 1, arm |-> Arms[1 + ((n - 1 + shift) % 3)]]

RunCount == 3 * QuestionCount

\* pack_result keeps what is scored.  An arm that raises ends the run.
RunArm(i) ==
  /\ pc[i] = "arms" /\ Len(records[i]) < RunCount
  /\ LET at == ArmAt(Len(records[i]) + 1)
     IN \/ \E t \in ArmTrajectories[at.arm] :
             /\ records' = [records EXCEPT ![i] = Append(@,
                  [question |-> at.question, arm |-> at.arm,
                   whole |-> WithinBudget(at.arm, t) /\ Scorable(t)])]
             /\ GoTo(i, "arms")
        \/ GoTo(i, "failed") /\ UNCHANGED records
  /\ UNCHANGED <<program, plan, files, attempts, submitted, receipts, disturbed, exported>>

ArmsDone(i) ==
  /\ pc[i] = "arms" /\ Len(records[i]) = RunCount
  /\ \/ program = "smoke" /\ GoTo(i, "completed") /\ UNCHANGED files
     \/ program = "formal" /\ Write(i, {"trajectories"}) /\ GoTo(i, "report")
     \/ program = "formal" /\ Fault("trajectories") /\ GoTo(i, "failed")
  /\ UNCHANGED <<program, plan, work, disturbed, exported>>

\* build_report raises unless every arm has one trajectory of every question
\* and each is within the budget of its arm, in scope and free of repeats; the
\* gates of the protocol may lack a key.
Reportable(i) ==
  LET rows == {records[i][n] : n \in DOMAIN records[i]}
  IN /\ {<<r.question, r.arm>> : r \in rows} = (1..QuestionCount) \X Range(Arms)
     /\ Cardinality(rows) = Len(records[i])
     /\ \A r \in rows : r.whole

WriteReport(i) ==
  /\ pc[i] = "report"
  /\ \/ Reportable(i) /\ Write(i, {"report"}) /\ GoTo(i, "completed")
     \/ Fault("report") /\ GoTo(i, "failed")
  /\ UNCHANGED <<program, plan, work, disturbed, exported>>

\* Mutation: a run that failed always leaves its partial trajectories.
PartialAlways(i) ==
  /\ program = "formal" /\ pc[i] = "failed"
  /\ Write(i, {"partial"}) /\ GoTo(i, "kept")
  /\ UNCHANGED <<program, plan, work, disturbed, exported>>

\* partial_trajectories.json only if there is no file of trajectories.
KeepPartial(i) ==
  /\ program = "formal" /\ pc[i] = "failed"
  /\ \/ disk["trajectories"] # Free /\ GoTo(i, "kept") /\ UNCHANGED files
     \/ disk["trajectories"] = Free /\ Write(i, {"partial"}) /\ GoTo(i, "kept")
     \/ disk["trajectories"] = Free /\ Fault("partial") /\ End(i, "raised")
  /\ UNCHANGED <<program, plan, work, disturbed, exported>>

WriteStatus(i) ==
  /\ program = "formal" /\ pc[i] \in {"completed", "kept"}
  /\ \/ Write(i, {"status"}) /\ End(i, IF pc[i] = "completed" THEN "ok" ELSE "failed")
     \/ Fault("status") /\ End(i, "raised")
  /\ UNCHANGED <<program, plan, work, disturbed, exported>>

\* The other programs end with one report, whatever happened after the plan.  As a
\* module the NEUQ calibration exits with 0 also when it failed.
WriteOutput(i) ==
  /\ program \in Calibrations \union {"smoke"} /\ pc[i] \in {"completed", "failed"}
  /\ \/ /\ Writable("output") /\ Write(i, {"output"})
        /\ \/ End(i, IF pc[i] = "completed" THEN "ok" ELSE "failed")
           \/ program = "neuq_calibration" /\ End(i, "ok")
     \/ Fault("output") /\ End(i, "raised")
  /\ UNCHANGED <<program, plan, work, disturbed, exported>>

Kill(i) ==
  /\ Running(i)
  /\ GoTo(i, "killed") /\ disturbed' = TRUE
  /\ UNCHANGED <<program, plan, files, work, exported>>

(***************************************************************************)
(* Export of the extracted graph                                           *)
(***************************************************************************)
\* Mutation: any records of the directory are exported.
ExportAnything ==
  /\ program = "auto_graph" /\ exported = <<>> /\ disk["run_dir"] # Free
  /\ exported' = <<ValidatedChunks(disk["run_dir"])>>
  /\ UNCHANGED <<program, plan, files, pc, work, exit, disturbed>>

\* It needs a whole summary and as many chunk files as were planned; assemble
\* leaves the chunks out that did not validate.
ExportGraph ==
  /\ program = "auto_graph" /\ exported = <<>> /\ disk["summary"] \in Invocations
  /\ Len(records[disk["run_dir"]]) = plan.queries
  /\ exported' = <<ValidatedChunks(disk["run_dir"])>>
  /\ UNCHANGED <<program, plan, files, pc, work, exit, disturbed>>

Invocation(i) ==
  \/ CheckPaths(i) \/ DryRun(i) \/ WritePlan(i) \/ PlanRun(i)
  \/ Authorize(i) \/ ClaimDirectory(i)
  \/ EmbedBatch(i) \/ Embedded(i) \/ ExtractChunk(i) \/ WriteSummary(i)
  \/ WriteCache(i) \/ RankAndSelect(i) \/ RunArm(i) \/ ArmsDone(i)
  \/ WriteReport(i) \/ KeepPartial(i) \/ WriteStatus(i) \/ WriteOutput(i)
  \/ Kill(i)

RunsDone == (\A i \in Invocations : ~Running(i) /\ pc[i] # "new") /\ UNCHANGED runVars

RunsNext == (\E i \in Invocations : Invocation(i)) \/ ExportGraph \/ RunsDone

RunsSpec == RunsInit /\ [][RunsNext]_runVars

(***************************************************************************)
(* Invariants                                                              *)
(***************************************************************************)
Labels ==
  {"new", "plan", "authorize", "claim", "pay", "cache", "rank", "arms", "report",
   "completed", "failed", "kept", "status", "ended", "killed"}

RunsTypeOK ==
  /\ program \in Programs
  /\ plan \in Plans /\ (program \in Calibrations \/ plan.documents = 0)
  /\ disk \in [Artifacts -> Invocations \union {Free, Torn}] /\ overwritten \in BOOLEAN
  /\ pc \in [Invocations -> Labels]
  /\ attempts \in [Invocations -> Nat] /\ submitted \in [Invocations -> Nat]
  /\ receipts \in [Invocations -> Nat] /\ DOMAIN records = Invocations
  /\ exit \in [Invocations -> {"ok", "failed", "raised", "none"}]
  /\ disturbed \in BOOLEAN

\* Which program has which steps.
LabelInv ==
  \A i \in Invocations :
    /\ pc[i] = "claim" => Claims
    /\ pc[i] \in {"cache", "completed", "failed"} => program \in Metered
    /\ pc[i] = "rank" => program \in Calibrations
    /\ pc[i] = "arms" => program \in ArmRuns
    /\ pc[i] \in {"report", "kept"} => program = "formal"
    /\ pc[i] = "status" => program = "auto_graph"
    /\ exit[i] # "none" => pc[i] = "ended"

\* The texts in the first k batches of n, and in the first k requests.
TextsOf(n, k) == IF k * BatchSize <= n THEN k * BatchSize ELSE n
Texts(k) ==
  LET first == CeilDiv(plan.documents, BatchSize)
  IN CASE program = "auto_graph" -> k
       [] program # "auto_graph" /\ k <= first -> TextsOf(plan.documents, k)
       [] OTHER -> plan.documents + TextsOf(plan.queries, k - first)

Unpaid == {"new", "plan", "authorize", "claim"}

\* What is counted is a prefix of what was admitted.
PayInv ==
  \A i \in Invocations :
    /\ attempts[i] <= Len(Sends)
    /\ submitted[i] = Texts(attempts[i]) * plan.bytes
    /\ pc[i] \in {"authorize", "claim", "pay"} \/ attempts[i] > 0 => Admitted
    /\ pc[i] \in Unpaid => attempts[i] = 0

Written ==
  CASE program = "formal" ->
         {"run_dir", "plan", "cache", "trajectories", "partial", "report", "status"}
    [] program = "auto_graph" -> {"run_dir", "plan", "summary"}
    [] OTHER -> {"cache", "output"}

Early == Unpaid \union IF Claims THEN {} ELSE {"pay", "cache"}

DiskInv ==
  /\ \A a \in Artifacts \ Written : disk[a] = Free
  /\ \A i \in Invocations : pc[i] \in Early => \A a \in Artifacts : disk[a] # i

\* Behind a directory that is claimed only its owner pays and writes, and what it
\* has written follows from how far it is.
Claimed == {"pay", "cache", "arms", "report", "completed", "failed", "kept", "status"}

OneTrajectories ==
  /\ (disk["trajectories"] = Free) # (disk["partial"] = Free)
  /\ disk["partial"] # Torn

ClaimInv ==
  Claims =>
    /\ disk["run_dir"] # Torn
    /\ \A a \in Artifacts : /\ disk[a] \in {Free, Torn, disk["run_dir"]}
                            /\ disk[a] # Free => disk["run_dir"] # Free
    /\ disk["status"] # Free => OneTrajectories
    /\ \A i \in Invocations :
         /\ pc[i] \in Claimed \/ attempts[i] > 0 => disk["run_dir"] = i
         /\ pc[i] \in Claimed => /\ disk["plan"] = i
                                 /\ \A a \in {"status", "summary"} : disk[a] = Free
                                 /\ pc[i] # "kept" => disk["partial"] = Free
         /\ pc[i] \in {"pay", "cache", "arms"} => disk["trajectories"] = Free
         /\ pc[i] \in {"pay", "cache", "arms", "report"} => disk["report"] = Free
         /\ pc[i] \in {"report", "completed"} => disk["trajectories"] = i
         /\ pc[i] = "completed" => disk["report"] = i
         /\ pc[i] = "kept" => OneTrajectories

\* Only the NEUQ calibration replaces a file.
OverwriteInv == overwritten => program = "neuq_calibration"

OutputInv ==
  program = "calibration" =>
    \A i \in Invocations : pc[i] \in {"rank", "completed"} => disk["cache"] = i

\* Without a directory, and as long as no two invocations overlap and none is
\* killed: one that paid is running, has left an output, at which the next one
\* stops, or could not write it and said so.
Payer(i) == attempts[i] > 0 /\ exit[i] # "raised"

SoloInv ==
  ~Claims /\ ~disturbed =>
    \A i \in Invocations :
      /\ Running(i) => \A j \in Invocations \ {i} : ~Running(j) /\ ~Payer(j)
      /\ Payer(i) => Running(i) \/ disk["output"] # Free
      /\ Payer(i) => \A j \in Invocations : Payer(j) => i = j

WholeRun == CASE program = "formal" -> {"run_dir", "plan", "trajectories", "report", "status"}
              [] program = "auto_graph" -> {"run_dir", "plan", "summary"}
              [] program = "calibration" -> {"cache", "output"}
              [] OTHER -> {"output"}

WholeInv ==
  \A i \in Invocations :
    exit[i] = "ok" /\ (\E a \in Artifacts : disk[a] = i) /\ ~overwritten
      => (\A a \in WholeRun : disk[a] = i) /\ disk["partial"] = Free

RunsInv ==
  /\ RunsTypeOK /\ LabelInv /\ PayInv
  /\ DiskInv /\ ClaimInv /\ OverwriteInv /\ OutputInv /\ SoloInv /\ WholeInv

\* The records of an extraction, whose summary is written when it ends.
ExportInv ==
  IF program = "auto_graph"
  THEN
    LET owner == disk["run_dir"]
    IN /\ \A i \in Invocations : records[i] \in Seq({"validated", "invalid", "unanswered"})
       /\ disk["summary"] \in Invocations
            => /\ pc[owner] = "ended"
               /\ exit[owner] = "ok" <=> Cardinality(ValidatedChunks(owner)) = plan.queries
       /\ exported # <<>> => /\ disk["summary"] \in Invocations
                             /\ Len(records[owner]) = plan.queries
                             /\ exported = <<ValidatedChunks(owner)>>
  ELSE exported = <<>>

\* The record of a place in the order of the arms, and how far a run has come.
RecordAt(n) == [question |-> ArmAt(n).question, arm |-> ArmAt(n).arm, whole |-> TRUE]

ArmsInv ==
  program \in ArmRuns =>
    \A i \in Invocations :
      \E done \in 0..RunCount :
        /\ records[i] = [n \in 1..done |-> RecordAt(n)]
        /\ pc[i] = "report" => done = RunCount

(***************************************************************************)
(* Properties                                                              *)
(***************************************************************************)
\* No invocation sends more requests or bytes than its program was approved
\* for, failed and lost requests included; the limits of the plan and those of
\* the meter agree, so the meter never cuts an admitted plan short after part of
\* it was paid for.  Under one set of paths the programs that claim a directory pay
\* once, through races, kills and failing writes.  The others check first and
\* write last: they pay once if no two of them overlap, none is killed and the
\* one that paid could leave a file (an invocation that raised after it paid
\* may have left none, and the next one pays again).
PaidWithinApproval ==
  /\ \A i \in Invocations :
       /\ attempts[i] <= MaxRequests[program] /\ submitted[i] <= MaxTokens[program]
       /\ pc[i] = "pay" /\ program \in Metered /\ NextRequest(i) \in DOMAIN Sends
            => MeterAdmits(i)
  /\ Claims => Cardinality({i \in Invocations : attempts[i] > 0}) <= 1
  /\ ~Claims /\ ~disturbed => Cardinality({i \in Invocations : Payer(i)}) <= 1

\* Whatever the arms return, build_report takes it: after all the paid and
\* unrepeatable work the formal report is never refused for its trajectories.
TrajectoriesFitReport == \A i \in Invocations : pc[i] = "report" => Reportable(i)

\* No file that exists is ever replaced, through overlaps, kills and failing
\* writes, but by the NEUQ calibration.  Unless that happened, an invocation that
\* wrote anything and exits with 0 has left all artifacts of a whole run, each its
\* own and none cut short (of a NEUQ calibration only the report: as a module it
\* exits with 0 also after it failed or wrote a plan only); and a formal run that
\* got to its status has left exactly one file of trajectories, which is cut short
\* only if writing trajectories.json failed.
ArtifactsAgree ==
  /\ overwritten => program = "neuq_calibration"
  /\ \A i \in Invocations :
       exit[i] = "ok" /\ (\E a \in Artifacts : disk[a] = i) /\ ~overwritten
         => /\ \A a \in WholeRun : disk[a] = i
            /\ disk["partial"] = Free
  /\ disk["status"] # Free => OneTrajectories

\* A graph is exported only of a run that ended after its last planned chunk,
\* with exactly the chunks that validated: all of them if the run succeeded.
ExportIsComplete ==
  \A n \in DOMAIN exported :
    LET owner == disk["run_dir"]
    IN /\ pc[owner] = "ended" /\ Len(records[owner]) = plan.queries
       /\ exported[n] = ValidatedChunks(owner)
       /\ exit[owner] = "ok" <=> exported[n] = 1..plan.queries
=============================================================================
