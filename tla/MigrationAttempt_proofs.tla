----------------------- MODULE MigrationAttempt_proofs -----------------------
(***************************************************************************)
(* The attempt's safety properties, for any number of retries, time limit, *)
(* archive size, lost answers and changes of the target by others.         *)
(*                                                                         *)
(* The attempt goes through its calls in one order, so that the call under *)
(* way tells what cannot have happened yet; a call of an attempt that has  *)
(* not ended leaves no stray behind; and what a stray may still do was     *)
(* allowed when its call was made.                                         *)
(***************************************************************************)
EXTENDS MigrationAttempt, TLAPS

Over == {"report", "done"}

AttemptTypes ==
  /\ pc \in Tolerant \cup Fatal \cup Waits \cup Over
  /\ round \in {1, 2}
  /\ stray \in [step : Effectful \cup {"none"}, sent : BOOLEAN]
  /\ poll.interval \in Nat
  /\ exports \in Nat
  /\ imports \in Seq(Import)
  /\ own \in 0 .. Len(imports)
  /\ late \in Nat

\* Which round a call belongs to.
Rounds ==
  /\ pc \in {"validate", "size", "generate", "await_export", "export_status", "url"} => round = 1
  /\ pc \in {"download", "init", "part", "complete", "import"} => round = 2

\* The messages of an attempt that is under way.
Reports ==
  ExportStates \cup {"NOT_STARTED", "QUEUED", "IN_PROGRESS"} \cup
  {"initiated", "starting_process", "validating_source", "estimating_size", "repository_size",
   "checking_target", "target_exists", "target_raced", "target_deleted", "organization",
   "creating_source", "generating", "waiting_export", "uploading", "starting_import", "created",
   "waiting_import"}

OnItsWay(shown) ==
  /\ shown.status = "in_progress"
  /\ \/ shown.stage = "migration" /\ shown.progress \in 0 .. 99
     \/ shown.stage = "unknown" /\ shown.progress = 0

GivenUp(shown) == shown.status = "failed" /\ shown.stage = "error" /\ shown.progress \in 0 .. 99

Successful(shown) ==
  /\ shown.status = "succeeded"
  /\ shown.stage \in {"migration", "unknown"}
  /\ shown.progress = 100

\* The progress of the last stage that a state of the import stands for.
Reached(seen) ==
  CASE seen = "NOT_STARTED" -> IF useGHOS THEN 80 ELSE 75
    [] seen = "QUEUED" -> IF useGHOS THEN 84 ELSE 80
    [] seen = "IN_PROGRESS" -> IF useGHOS THEN 92 ELSE 90
    [] OTHER -> 100

\* Only an attempt that is over is neither in progress nor free of strays.
UnderWay == pc \notin Over => OnItsWay(status) /\ stray = NoStray

\* And an attempt that is over shows how it ended.
Outcome == pc \in Over => GivenUp(status) \/ Successful(status)

\* A stray's call is one that was abandoned.
StrayKnown == stray # NoStray => stray.step \in lostAt

\* What is deleted is deleted as asked, and before an import.
DeletionAsked ==
  /\ pc \in {"lookup", "delete"} => deleteIfExists
  /\ stray.step = "delete" => deleteIfExists /\ imports = <<>>

\* Exports and imports that were started on purpose.
ExportsCounted ==
  /\ round = 1 /\ pc \notin {"generate", "await_export", "export_status", "url"} \cup Over
       => exports = 0
  /\ pc = "generate" => exports = 0 \/ "generate" \in lostAt
  /\ exports > 1 => "generate" \in lostAt

ImportsCounted ==
  /\ pc \notin {"import", "await_import", "import_status"} \cup Over => imports = <<>>
  /\ pc = "import" => imports = <<>> \/ "import" \in lostAt
  /\ Len(imports) > 1 => "import" \in lostAt

\* The archive an import is started from.
ArchiveReady ==
  /\ pc \in {"await_export", "export_status"} => export \in ExportStates
  /\ pc = "url" \/ (round = 2 /\ pc \notin Over) => export = "exported"
  /\ pc = "complete" => cut \/ stored = Parts
  /\ pc = "import" /\ useGHOS => completed /\ (cut \/ stored = Parts)

\* The import the attempt monitors, and the repository imports make.
Monitored ==
  /\ pc \in {"await_import", "import_status"} => own # 0 /\ (imports[own].whole \/ cut)
  /\ \A i \in DOMAIN imports : imports[i].state = "SUCCEEDED" => target = "migrated"

\* The stray of an attempt that has ended has one request left at most.
LastRequest ==
  /\ pc = "done" => cancelled
  /\ late > 0 => pc = "done" /\ late = 1 /\ ~stray.sent

AttemptInv ==
  /\ AttemptTypes /\ Rounds /\ UnderWay /\ Outcome /\ StrayKnown /\ DeletionAsked
  /\ ExportsCounted /\ ImportsCounted /\ ArchiveReady /\ Monitored /\ LastRequest
  /\ SucceededIsReal /\ FailureIsFinal
-----------------------------------------------------------------------------
\* All that is needed of the unit of time.
LEMMA SecondNat == Second \in Nat /\ Second > 0
  BY SMT DEF Second

(* What a step makes of the status.                                        *)

LEMMA ReportParsed ==
  ASSUME NEW message \in Reports
  PROVE  /\ Parsed(message).stage \in
              {"init", "validation", "setup", "archive", "storage", "migration", "unknown"}
         /\ Parsed(message).stage = "unknown" => message = "target_raced"
         /\ Parsed(message).state \notin {"SUCCEEDED", "completed"}
  BY DEF Reports, Parsed, Written, At, ExportStates, ImportStates

LEMMA Orders ==
  /\ \A stage \in {"init", "validation", "setup", "archive", "storage"} :
       StageOrder[stage] < StageOrder["migration"] /\ StageOrder[stage] < StageOrder["unknown"]
  /\ StageOrder["migration"] = 5
  /\ StageOrder["error"] = 7
  /\ StageOrder["unknown"] = 8
  BY DEF StageOrder

LEMMA MigrationShare ==
  ASSUME NEW state, state \notin {"SUCCEEDED", "completed"}
  PROVE  StageProgress(At("migration", state)) \in 0 .. 80
<1>1. \A s \in DOMAIN StateShare["migration"] \ {"SUCCEEDED", "completed"} :
        StateShare["migration"][s] \in 0 .. 80
  BY DEF StateShare
<1>2. DefaultShare["migration"] = 50
  BY DEF DefaultShare
<1> QED
  BY <1>1, <1>2 DEF StageProgress, At

LEMMA MigrationProgress ==
  ASSUME NEW shown, NEW existing, NEW ghos, shown.stage = "migration"
  PROVE  ProgressOf(shown, existing, ghos) =
           IF ghos THEN 60 + (40 * StageProgress(shown)) \div 100
                   ELSE 50 + (50 * StageProgress(shown)) \div 100
<1>1. CASE ghos
  <2>1. /\ EarlierWeight(StageWeights(ghos), "migration") = 60
        /\ StageWeights(ghos)["migration"] = 40
        /\ "migration" \in DOMAIN StageWeights(ghos)
    BY <1>1 DEF EarlierWeight, StageWeights, StageOrder
  <2> QED
    BY <1>1, <2>1 DEF ProgressOf
<1>2. CASE ~ghos
  <2>1. /\ EarlierWeight(StageWeights(ghos), "migration") = 50
        /\ StageWeights(ghos)["migration"] = 50
        /\ "migration" \in DOMAIN StageWeights(ghos)
    BY <1>2 DEF EarlierWeight, StageWeights, StageOrder
  <2> QED
    BY <1>2, <2>1 DEF ProgressOf
<1> QED
  BY <1>1, <1>2

LEMMA NoProgress ==
  ASSUME NEW shown, NEW existing, NEW ghos
  PROVE  /\ shown.stage = "unknown" => ProgressOf(shown, existing, ghos) = 0
         /\ shown.stage = "error" => ProgressOf(shown, existing, ghos) = existing.progress
  BY DEF ProgressOf, StageWeights

\* A message leaves what is shown at the last stage.
LEMMA ReportShown ==
  ASSUME NEW shown, OnItsWay(shown), NEW message \in Reports
  PROVE  /\ Adjusted(message, shown).stage \in {"migration", "unknown"}
         /\ shown.stage = "unknown" => Adjusted(message, shown).stage = "unknown"
         /\ Adjusted(message, shown).state \notin {"SUCCEEDED", "completed"}
<1> DEFINE raw == Parsed(message)
<1>1. /\ raw.stage \in {"init", "validation", "setup", "archive", "storage", "migration", "unknown"}
      /\ raw.state \notin {"SUCCEEDED", "completed"}
  BY ReportParsed
<1>2. /\ \A stage \in {"init", "validation", "setup", "archive", "storage"} :
           StageOrder[stage] < StageOrder["migration"] /\ StageOrder[stage] < StageOrder["unknown"]
      /\ StageOrder["migration"] = 5 /\ StageOrder["unknown"] = 8
  BY Orders
<1> HIDE DEF raw
<1>3. CASE shown.stage = "migration"
  BY <1>1, <1>2, <1>3 DEF Adjusted, At, raw
<1>4. CASE shown.stage = "unknown"
  BY <1>1, <1>2, <1>4 DEF Adjusted, At, raw
<1> QED
  BY <1>3, <1>4 DEF OnItsWay

LEMMA Tells ==
  ASSUME NEW shown, OnItsWay(shown), NEW message \in Reports
  PROVE  /\ OnItsWay(Told(shown, message))
         /\ shown.stage = "unknown" => Told(shown, message).stage = "unknown"
<1> DEFINE now == Adjusted(message, shown)
<1>1. /\ now.stage \in {"migration", "unknown"}
      /\ shown.stage = "unknown" => now.stage = "unknown"
      /\ now.state \notin {"SUCCEEDED", "completed"}
  BY ReportShown
<1>2. /\ Told(shown, message).status = "in_progress"
      /\ Told(shown, message).stage = now.stage
      /\ Told(shown, message).progress = ProgressOf(now, shown, useGHOS)
  BY DEF Told, Updated
<1> HIDE DEF now
<1>3. CASE now.stage = "migration"
  <2>1. StageProgress(At("migration", now.state)) \in 0 .. 80
    BY <1>1, MigrationShare
  <2>2. StageProgress(now) \in 0 .. 80
    BY <1>3, <2>1 DEF StageProgress, At
  <2>3. ProgressOf(now, shown, useGHOS) \in 0 .. 99
    BY <1>3, <2>2, MigrationProgress
  <2> QED
    BY <1>1, <1>2, <1>3, <2>3 DEF OnItsWay
<1>4. CASE now.stage = "unknown"
  BY <1>2, <1>4, NoProgress DEF OnItsWay
<1> QED
  BY <1>1, <1>3, <1>4

LEMMA GivesUp ==
  ASSUME NEW shown, OnItsWay(shown) \/ GivenUp(shown)
  PROVE  /\ GivenUp(Updated(shown, "failed", "failure", useGHOS))
         /\ Updated(shown, "failed", "failure", useGHOS).progress = shown.progress
<1>1. Adjusted("failure", shown).stage = "error"
  <2>1. Parsed("failure") = At("error", "failed")
    BY DEF Parsed, Written, ExportStates, ImportStates
  <2>2. shown.stage \in {"migration", "unknown", "error"}
    BY DEF OnItsWay, GivenUp
  <2> QED
    BY <2>1, <2>2 DEF Adjusted, At
<1>2. /\ Updated(shown, "failed", "failure", useGHOS).status = "failed"
      /\ Updated(shown, "failed", "failure", useGHOS).stage = "error"
      /\ Updated(shown, "failed", "failure", useGHOS).progress = shown.progress
  BY <1>1, NoProgress DEF Updated
<1> QED
  BY <1>2 DEF OnItsWay, GivenUp

LEMMA Succeeds ==
  ASSUME NEW shown, OnItsWay(shown)
  PROVE  /\ Successful(Updated(Told(shown, "SUCCEEDED"), "succeeded", "completed", useGHOS))
         /\ shown.stage = "unknown" =>
              Updated(Told(shown, "SUCCEEDED"), "succeeded", "completed", useGHOS).stage = "unknown"
<1> DEFINE last == Told(shown, "SUCCEEDED")
           end == Updated(last, "succeeded", "completed", useGHOS)
<1>1. Parsed("SUCCEEDED").stage = "migration" /\ Parsed("completed").stage = "migration"
  BY DEF Parsed, Written, ExportStates, ImportStates, At
<1>2. shown.stage \in {"migration", "unknown"}
  BY DEF OnItsWay
<1>3. last.stage = shown.stage
  BY <1>1, <1>2, Orders DEF Told, Updated, Adjusted, At
<1> HIDE DEF last
<1>4. Adjusted("completed", last).stage = last.stage
  BY <1>1, <1>2, <1>3, Orders DEF Adjusted, At
<1>5. end.status = "succeeded" /\ end.stage = last.stage /\ end.progress = 100
  BY <1>4 DEF Updated
<1> QED
  BY <1>2, <1>3, <1>5 DEF Successful, last

LEMMA ImportShown ==
  ASSUME NEW shown, OnItsWay(shown), NEW seen \in {"NOT_STARTED", "QUEUED", "IN_PROGRESS"}
  PROVE  Told(shown, seen).progress = IF shown.stage = "unknown" THEN 0 ELSE Reached(seen)
<1>1. Parsed(seen) = At("migration", seen)
  BY DEF Parsed, ExportStates, ImportStates
<1>2. Told(shown, seen).progress = ProgressOf(Adjusted(seen, shown), shown, useGHOS)
  BY DEF Told, Updated
<1>3. CASE shown.stage = "unknown"
  <2>1. Adjusted(seen, shown).stage = "unknown"
    BY <1>1, <1>3, Orders DEF Adjusted, At
  <2> QED
    BY <1>2, <1>3, <2>1, NoProgress
<1>4. CASE shown.stage = "migration"
  <2>1. Adjusted(seen, shown) = At("migration", seen)
    BY <1>1, <1>4, Orders DEF Adjusted, At
  <2>2. StageProgress(At("migration", seen)) =
          CASE seen = "NOT_STARTED" -> 50 [] seen = "QUEUED" -> 60 [] OTHER -> 80
    BY DEF StageProgress, At, StateShare, DefaultShare
  <2>3. At("migration", seen).stage = "migration"
    BY DEF At
  <2>4. ProgressOf(At("migration", seen), shown, useGHOS) = Reached(seen)
    BY <2>2, <2>3, MigrationProgress DEF Reached
  <2> QED
    BY <1>2, <1>4, <2>1, <2>4
<1> QED
  BY <1>3, <1>4 DEF OnItsWay

LEMMA FirstShown == OnItsWay(Told(InitialStatus, "initiated"))
<1>1. Parsed("initiated") = At("migration", "starting")
  BY DEF Parsed, Written, ExportStates, ImportStates
<1>2. Adjusted("initiated", InitialStatus) = At("migration", "starting")
  BY <1>1, Orders DEF Adjusted, At, InitialStatus, StageOrder
<1>3. StageProgress(At("migration", "starting")) \in 0 .. 80
  BY MigrationShare
<1>4. ProgressOf(At("migration", "starting"), InitialStatus, useGHOS) \in 0 .. 99
  BY <1>3, MigrationProgress DEF At
<1> QED
  BY <1>2, <1>4 DEF Told, Updated, OnItsWay, At

LEMMA Goes ==
  ASSUME NEW step, NEW shown, OnItsWay(shown), Go(step, shown) \/ Await(step, shown)
  PROVE  pc' = step /\ OnItsWay(status')
  BY DEF Go, Await

LEMMA Fails ==
  ASSUME NEW shown, OnItsWay(shown), Fail(shown)
  PROVE  pc' = "report" /\ GivenUp(status')
  BY GivesUp DEF Fail

\* Whatever an attempt under way reports next.
LEMMA Reporting ==
  ASSUME AttemptInv, pc \notin Over
  PROVE  /\ OnItsWay(status)
         /\ \A message \in Reports : OnItsWay(Told(status, message))
  BY Tells DEF AttemptInv, UnderWay
-----------------------------------------------------------------------------
(* One step of each kind.                                                  *)

LEMMA InitInv == Init => AttemptInv
<1> SUFFICES ASSUME Init PROVE AttemptInv
  OBVIOUS
<1> USE DEF Init, CallsInit, FirstPoll, NoStray
<1>1. AttemptTypes
  BY SecondNat DEF AttemptTypes, Fatal, Effectful, FirstInterval
<1>0. OnItsWay(status)
  <2>1. OnItsWay(Told(InitialStatus, "initiated"))
    BY FirstShown
  <2> QED
    BY <2>1, Tells DEF Reports
<1>2. UnderWay /\ Outcome /\ SucceededIsReal /\ FailureIsFinal
  BY <1>0 DEF UnderWay, Outcome, OnItsWay, SucceededIsReal, FailureIsFinal, Over
<1>3. Rounds /\ StrayKnown /\ DeletionAsked /\ ExportsCounted /\ ArchiveReady /\ LastRequest
  BY DEF Rounds, StrayKnown, DeletionAsked, ExportsCounted, ArchiveReady, LastRequest
<1>4. ImportsCounted /\ Monitored
  BY DEF ImportsCounted, Monitored
<1> QED
  BY <1>1, <1>2, <1>3, <1>4 DEF AttemptInv

\* The next call or poll of an attempt; what depends on the call is left to the
\* action.
LEMMA AdvanceInv ==
  ASSUME AttemptInv, pc \notin Over, pc' \in Tolerant \cup Fatal \cup Waits, round' \in {1, 2},
         OnItsWay(status'), stray' = stray,
         lostAt \subseteq lostAt', late' = late,
         poll'.interval \in Nat,
         exports' \in Nat, imports' \in Seq(Import), own' \in 0 .. Len(imports'),
         Rounds', DeletionAsked', ExportsCounted', ImportsCounted', ArchiveReady', Monitored'
  PROVE  AttemptInv'
<1> pc' \notin Over
  BY DEF Tolerant, Fatal, Waits, Over
<1>1. AttemptTypes'
  BY DEF AttemptInv, AttemptTypes
<1>2. UnderWay' /\ Outcome' /\ StrayKnown' /\ SucceededIsReal' /\ FailureIsFinal'
  BY DEF AttemptInv, UnderWay, Outcome, OnItsWay, StrayKnown, SucceededIsReal, FailureIsFinal
<1>3. LastRequest'
  BY DEF AttemptInv, AttemptTypes, LastRequest, Over
<1> QED
  BY <1>1, <1>2, <1>3 DEF AttemptInv

\* The end with a failure.
LEMMA EndInv ==
  ASSUME AttemptInv, pc \notin Over, pc' = "report", GivenUp(status'),
         UNCHANGED <<useGHOS, deleteIfExists, round, poll, own, late>>,
         stray' \in [step : Effectful \cup {"none"}, sent : BOOLEAN],
         lostAt \subseteq lostAt', StrayKnown', DeletionAsked',
         exports' \in Nat, exports' > 1 => "generate" \in lostAt',
         imports' \in Seq(Import), own \in 0 .. Len(imports'),
         Len(imports') > 1 => "import" \in lostAt',
         \A i \in DOMAIN imports' : imports'[i].state = "SUCCEEDED" => target' = "migrated",
         FailureIsFinal'
  PROVE  AttemptInv'
<1>1. AttemptTypes'
  BY DEF AttemptInv, AttemptTypes, Over
<1>2. Rounds' /\ UnderWay' /\ Outcome' /\ SucceededIsReal'
  BY DEF Rounds, UnderWay, Outcome, GivenUp, SucceededIsReal, Over
<1>3. ExportsCounted' /\ ImportsCounted' /\ ArchiveReady'
  BY DEF ExportsCounted, ImportsCounted, ArchiveReady, Over
<1>4. Monitored' /\ LastRequest'
  BY DEF AttemptInv, AttemptTypes, Monitored, LastRequest, Over
<1> QED
  BY <1>1, <1>2, <1>3, <1>4 DEF AttemptInv

\* The end of an attempt that has not come to the import.
LEMMA EndEarlyInv ==
  ASSUME AttemptInv, pc \notin {"import", "await_import", "import_status"} \cup Over,
         pc' = "report", GivenUp(status'),
         UNCHANGED <<useGHOS, deleteIfExists, round, poll, own, late, target, exports, imports,
                     stray, lostAt>>
  PROVE  AttemptInv'
<1>1. imports = <<>> /\ stray = NoStray /\ pc \notin Over
  BY DEF AttemptInv, ImportsCounted, UnderWay, Over
<1>2. StrayKnown' /\ DeletionAsked' /\ FailureIsFinal'
  BY <1>1 DEF StrayKnown, DeletionAsked, FailureIsFinal, NoStray
<1> QED
  BY <1>1, <1>2, EndInv DEF AttemptInv, AttemptTypes, ExportsCounted, ImportsCounted, Monitored

\* A call that is let go without anything that could still take effect.
LEMMA LetGo ==
  ASSUME AttemptInv, pc \notin Over, NEW step \in {"size", "lookup"}, Abandoned(step)
  PROVE  UNCHANGED <<stray, cancelled, lostAt>>
  BY DEF AttemptInv, UnderWay, Abandoned, Effectful

LEMMA Clears ==
  ASSUME NEW shown, OnItsWay(shown), TargetCleared(shown)
  PROVE  pc' = "organization" /\ OnItsWay(status')
<1>1. OnItsWay(Told(shown, "organization"))
  BY Tells DEF Reports
<1> QED
  BY <1>1, Goes DEF TargetCleared

LEMMA ValidatedInv ==
  ASSUME AttemptInv, Validated
  PROVE  AttemptInv'
<1>0. /\ OnItsWay(status)
      /\ OnItsWay(Told(status, "estimating_size"))
  BY Reporting, Tells DEF Validated, Answered, Over, Reports
<1>1. /\ pc = "validate" /\ pc' = "size" /\ OnItsWay(status')
      /\ UNCHANGED <<stray, cancelled, lostAt, target, exports, imports, deleteIfExists, useGHOS,
                     poll, own, late>>
      /\ UNCHANGED <<round, export, stored, cut, completed>>
  BY <1>0, Goes DEF Validated, Answered, Returned, Unmoved, githubVars, options,
     uploadVars, environment
<1>2. /\ Rounds' /\ DeletionAsked' /\ ExportsCounted' /\ ImportsCounted'
      /\ ArchiveReady' /\ Monitored'
  BY <1>1 DEF AttemptInv, UnderWay, NoStray, Over, Rounds, DeletionAsked, ExportsCounted,
     ImportsCounted, ArchiveReady, Monitored
<1> QED
  BY <1>1, <1>2, AdvanceInv DEF AttemptInv, AttemptTypes, Over, Tolerant,
     Fatal, Waits

LEMMA SizedInv ==
  ASSUME AttemptInv, Sized
  PROVE  AttemptInv'
<1>0. /\ OnItsWay(status)
      /\ OnItsWay(Told(status, "repository_size"))
      /\ OnItsWay(Told(status, "checking_target"))
      /\ OnItsWay(Told(Told(status, "repository_size"), "checking_target"))
  BY Reporting, Tells DEF Sized, Answered, Refused, Over, Reports
<1>1. /\ pc = "size" /\ pc' = "check" /\ OnItsWay(status')
      /\ UNCHANGED <<stray, cancelled, lostAt, target, exports, imports, deleteIfExists, useGHOS,
                     poll, own, late>>
      /\ UNCHANGED <<round, export, stored, cut, completed>>
  BY <1>0, Goes, LetGo DEF Sized, Answered, Returned, Refused, Over, Unmoved, githubVars, options,
     uploadVars, environment
<1>2. /\ Rounds' /\ DeletionAsked' /\ ExportsCounted' /\ ImportsCounted'
      /\ ArchiveReady' /\ Monitored'
  BY <1>1 DEF AttemptInv, UnderWay, NoStray, Over, Rounds, DeletionAsked, ExportsCounted,
     ImportsCounted, ArchiveReady, Monitored
<1> QED
  BY <1>1, <1>2, AdvanceInv DEF AttemptInv, AttemptTypes, Over, Tolerant,
     Fatal, Waits

LEMMA CheckedInv ==
  ASSUME AttemptInv, Checked
  PROVE  AttemptInv'
<1>0. /\ OnItsWay(status)
      /\ OnItsWay(Told(status, "target_exists"))
      /\ OnItsWay(Told(status, "target_raced"))
  BY Reporting, Tells DEF Checked, Answered, Refused, Over, Reports
<1>1. /\ pc = "check"
      /\ UNCHANGED <<stray, cancelled, lostAt, target, exports, imports, deleteIfExists, useGHOS,
                     poll, own, late>>
      /\ UNCHANGED <<round, export, stored, cut, completed>>
      /\ \/ /\ (pc' = "lookup" /\ deleteIfExists) \/ pc' = "organization"
            /\ OnItsWay(status')
         \/ pc' = "report" /\ GivenUp(status')
  BY <1>0, Goes, Fails, Clears DEF Checked, Answered, Returned, Refused, TargetFound, Unmoved,
     githubVars, options, uploadVars, environment
<1>2. CASE pc' = "report" /\ GivenUp(status')
  BY <1>1, <1>2, EndEarlyInv DEF Over
<1>3. CASE /\ (pc' = "lookup" /\ deleteIfExists) \/ pc' = "organization"
           /\ OnItsWay(status')
  <2>1. /\ Rounds' /\ DeletionAsked' /\ ExportsCounted' /\ ImportsCounted'
        /\ ArchiveReady' /\ Monitored'
    BY <1>1, <1>3 DEF AttemptInv, UnderWay, NoStray, Over, Rounds, DeletionAsked, ExportsCounted,
       ImportsCounted, ArchiveReady, Monitored
  <2> QED
    BY <1>1, <1>3, <2>1, AdvanceInv DEF AttemptInv, AttemptTypes, Over,
       Tolerant, Fatal, Waits
<1> QED
  BY <1>1, <1>2, <1>3

LEMMA LookedUpInv ==
  ASSUME AttemptInv, LookedUp
  PROVE  AttemptInv'
<1>0. OnItsWay(status)
  BY Reporting, Tells DEF LookedUp, Answered, Refused, Over, Reports
<1>1. /\ pc = "lookup" /\ deleteIfExists
      /\ UNCHANGED <<stray, cancelled, lostAt, target, exports, imports, deleteIfExists, useGHOS,
                     poll, own, late>>
      /\ UNCHANGED <<round, export, stored, cut, completed>>
      /\ \/ (pc' = "delete" \/ pc' = "organization") /\ OnItsWay(status')
         \/ pc' = "report" /\ GivenUp(status')
  BY <1>0, Goes, Fails, Clears, LetGo DEF LookedUp, Answered, Returned, Refused, Over, AttemptInv,
     DeletionAsked, Unmoved, githubVars, options, uploadVars, environment
<1>2. CASE pc' = "report" /\ GivenUp(status')
  BY <1>1, <1>2, EndEarlyInv DEF Over
<1>3. CASE (pc' = "delete" \/ pc' = "organization") /\ OnItsWay(status')
  <2>1. /\ Rounds' /\ DeletionAsked' /\ ExportsCounted' /\ ImportsCounted'
        /\ ArchiveReady' /\ Monitored'
    BY <1>1, <1>3 DEF AttemptInv, UnderWay, NoStray, Over, Rounds, DeletionAsked, ExportsCounted,
       ImportsCounted, ArchiveReady, Monitored
  <2> QED
    BY <1>1, <1>3, <2>1, AdvanceInv DEF AttemptInv, AttemptTypes, Over,
       Tolerant, Fatal, Waits
<1> QED
  BY <1>1, <1>2, <1>3

LEMMA OrganizationFoundInv ==
  ASSUME AttemptInv, OrganizationFound
  PROVE  AttemptInv'
<1>0. /\ OnItsWay(status)
      /\ OnItsWay(Told(status, "creating_source"))
  BY Reporting, Tells DEF OrganizationFound, Answered, Over, Reports
<1>1. /\ pc = "organization" /\ pc' = "source" /\ OnItsWay(status')
      /\ UNCHANGED <<stray, cancelled, lostAt, target, exports, imports, deleteIfExists, useGHOS,
                     poll, own, late>>
      /\ UNCHANGED <<round, export, stored, cut, completed>>
  BY <1>0, Goes DEF OrganizationFound, Answered, Returned, Unmoved, githubVars, options, uploadVars,
     environment
<1>2. /\ Rounds' /\ DeletionAsked' /\ ExportsCounted' /\ ImportsCounted'
      /\ ArchiveReady' /\ Monitored'
  BY <1>1 DEF AttemptInv, UnderWay, NoStray, Over, Rounds, DeletionAsked, ExportsCounted,
     ImportsCounted, ArchiveReady, Monitored
<1> QED
  BY <1>1, <1>2, AdvanceInv DEF AttemptInv, AttemptTypes, Over, Tolerant,
     Fatal, Waits

LEMMA SourceCreatedInv ==
  ASSUME AttemptInv, SourceCreated
  PROVE  AttemptInv'
<1>0. /\ OnItsWay(status)
      /\ OnItsWay(Told(status, "generating"))
      /\ OnItsWay(Told(status, "uploading"))
      /\ OnItsWay(Told(status, "starting_import"))
  BY Reporting, Tells DEF SourceCreated, Answered, Over, Reports
<1>1. /\ pc = "source"
      /\ \/ round = 1 /\ pc' = "generate"
         \/ round = 2 /\ pc' = "download"
         \/ round = 2 /\ ~useGHOS /\ pc' = "import"
      /\ OnItsWay(status')
      /\ UNCHANGED <<stray, cancelled, lostAt, target, exports, imports, deleteIfExists, useGHOS,
                     poll, own, late>>
      /\ UNCHANGED <<round, export, stored, cut, completed>>
  BY <1>0, Goes DEF SourceCreated, Answered, Returned,
     AttemptInv, AttemptTypes, Unmoved, githubVars, options, uploadVars, environment
<1>2. /\ Rounds' /\ DeletionAsked' /\ ExportsCounted' /\ ImportsCounted'
      /\ ArchiveReady' /\ Monitored'
  BY <1>1 DEF AttemptInv, UnderWay, NoStray, Over, Rounds, DeletionAsked, ExportsCounted,
     ImportsCounted, ArchiveReady, Monitored, AttemptTypes
<1> QED
  BY <1>1, <1>2, AdvanceInv DEF AttemptInv, AttemptTypes, Over, Tolerant,
     Fatal, Waits

LEMMA LocatedArchiveInv ==
  ASSUME AttemptInv, LocatedArchive
  PROVE  AttemptInv'
<1>0. OnItsWay(status)
  BY Reporting, Tells DEF LocatedArchive, Answered, Over, Reports
<1>1. /\ pc = "url" /\ pc' = "check" /\ round' = 2 /\ OnItsWay(status')
      /\ UNCHANGED <<stray, cancelled, lostAt, target, exports, imports, deleteIfExists, useGHOS,
                     poll, own, late>>
      /\ UNCHANGED <<export, stored, cut, completed>>
  BY <1>0, Goes DEF LocatedArchive, Answered, Returned, Unmoved, githubVars, options, uploadVars,
     environment
<1>2. /\ Rounds' /\ DeletionAsked' /\ ExportsCounted' /\ ImportsCounted'
      /\ ArchiveReady' /\ Monitored'
  BY <1>1 DEF AttemptInv, UnderWay, NoStray, Over, Rounds, DeletionAsked, ExportsCounted,
     ImportsCounted, ArchiveReady, Monitored
<1> QED
  BY <1>1, <1>2, AdvanceInv DEF AttemptInv, AttemptTypes, Over, Tolerant,
     Fatal, Waits

LEMMA ExportSeenInv ==
  ASSUME AttemptInv, ExportSeen
  PROVE  AttemptInv'
<1>0. /\ OnItsWay(status)
      /\ OnItsWay(Told(status, export))
  BY Reporting, Tells DEF ExportSeen, Answered, Over, Reports, AttemptInv, ArchiveReady
<1>1. /\ pc = "export_status"
      /\ UNCHANGED <<stray, cancelled, lostAt, target, exports, imports, deleteIfExists, useGHOS,
                     poll, own, late>>
      /\ UNCHANGED <<round, export, stored, cut, completed>>
      /\ \/ /\ (pc' = "url" /\ export = "exported") \/ pc' = "await_export"
            /\ OnItsWay(status')
         \/ pc' = "report" /\ GivenUp(status')
  BY <1>0, Goes, Fails DEF ExportSeen, Answered, Returned, Unmoved, githubVars, options, uploadVars,
     environment
<1>2. CASE pc' = "report" /\ GivenUp(status')
  BY <1>1, <1>2, EndEarlyInv DEF Over
<1>3. CASE /\ (pc' = "url" /\ export = "exported") \/ pc' = "await_export"
           /\ OnItsWay(status')
  <2>1. /\ Rounds' /\ DeletionAsked' /\ ExportsCounted' /\ ImportsCounted'
        /\ ArchiveReady' /\ Monitored'
    BY <1>1, <1>3 DEF AttemptInv, UnderWay, NoStray, Over, Rounds, DeletionAsked, ExportsCounted,
       ImportsCounted, ArchiveReady, Monitored
  <2> QED
    BY <1>1, <1>3, <2>1, AdvanceInv DEF AttemptInv, AttemptTypes, Over,
       Tolerant, Fatal, Waits
<1> QED
  BY <1>1, <1>2, <1>3

LEMMA DownloadingInv ==
  ASSUME AttemptInv, Downloading
  PROVE  AttemptInv'
<1>0. OnItsWay(status)
  BY Reporting, Tells DEF Downloading, Answered, Over, Reports
<1>1. /\ pc = "download" /\ pc' = "init" /\ OnItsWay(status')
      /\ UNCHANGED <<stray, cancelled, lostAt, target, exports, imports, deleteIfExists, useGHOS,
                     poll, own, late>>
      /\ UNCHANGED <<round, export, stored, cut, completed>>
  BY <1>0, Goes DEF Downloading, Answered, Returned, Unmoved, githubVars, options, uploadVars,
     environment
<1>2. /\ Rounds' /\ DeletionAsked' /\ ExportsCounted' /\ ImportsCounted'
      /\ ArchiveReady' /\ Monitored'
  BY <1>1 DEF AttemptInv, UnderWay, NoStray, Over, Rounds, DeletionAsked, ExportsCounted,
     ImportsCounted, ArchiveReady, Monitored
<1> QED
  BY <1>1, <1>2, AdvanceInv DEF AttemptInv, AttemptTypes, Over, Tolerant,
     Fatal, Waits

LEMMA UploadInitializedInv ==
  ASSUME AttemptInv, UploadInitialized
  PROVE  AttemptInv'
<1>0. OnItsWay(status)
  BY Reporting, Tells DEF UploadInitialized, Answered, Over, Reports
<1>1. /\ pc = "init"
      /\ UNCHANGED <<stray, cancelled, lostAt, target, exports, imports, deleteIfExists, useGHOS,
                     poll, own, late>>
      /\ UNCHANGED <<round, export, stored, completed>>
      /\ \/ /\ pc' = "part" \/ (pc' = "complete" /\ cut')
            /\ OnItsWay(status')
         \/ pc' = "report" /\ GivenUp(status')
  BY <1>0, Goes, Fails DEF UploadInitialized, Answered, Returned, SendPart, Unmoved, githubVars,
     options, uploadVars, environment
<1>2. CASE pc' = "report" /\ GivenUp(status')
  BY <1>1, <1>2, EndEarlyInv DEF Over
<1>3. CASE (pc' = "part" \/ (pc' = "complete" /\ cut')) /\ OnItsWay(status')
  <2>1. /\ Rounds' /\ DeletionAsked' /\ ExportsCounted' /\ ImportsCounted'
        /\ ArchiveReady' /\ Monitored'
    BY <1>1, <1>3 DEF AttemptInv, UnderWay, NoStray, Over, Rounds, DeletionAsked, ExportsCounted,
       ImportsCounted, ArchiveReady, Monitored
  <2> QED
    BY <1>1, <1>3, <2>1, AdvanceInv DEF AttemptInv, AttemptTypes, Over,
       Tolerant, Fatal, Waits
<1> QED
  BY <1>1, <1>2, <1>3

LEMMA PartUploadedInv ==
  ASSUME AttemptInv, PartUploaded
  PROVE  AttemptInv'
<1>0. OnItsWay(status)
  BY Reporting, Tells DEF PartUploaded, Answered, Over, Reports
<1>1. /\ pc = "part"
      /\ UNCHANGED <<stray, cancelled, lostAt, target, exports, imports, deleteIfExists, useGHOS,
                     poll, own, late>>
      /\ UNCHANGED <<round, export, completed>>
      /\ \/ /\ pc' = "part" \/ (pc' = "complete" /\ (cut' \/ stored' = Parts))
            /\ OnItsWay(status')
         \/ pc' = "report" /\ GivenUp(status')
  BY <1>0, Goes, Fails DEF PartUploaded, Answered, Returned, SendPart, LastPart, Unmoved,
     githubVars, options, uploadVars, environment
<1>2. CASE pc' = "report" /\ GivenUp(status')
  BY <1>1, <1>2, EndEarlyInv DEF Over
<1>3. CASE /\ pc' = "part" \/ (pc' = "complete" /\ (cut' \/ stored' = Parts))
           /\ OnItsWay(status')
  <2>1. /\ Rounds' /\ DeletionAsked' /\ ExportsCounted' /\ ImportsCounted'
        /\ ArchiveReady' /\ Monitored'
    BY <1>1, <1>3 DEF AttemptInv, UnderWay, NoStray, Over, Rounds, DeletionAsked, ExportsCounted,
       ImportsCounted, ArchiveReady, Monitored
  <2> QED
    BY <1>1, <1>3, <2>1, AdvanceInv DEF AttemptInv, AttemptTypes, Over,
       Tolerant, Fatal, Waits
<1> QED
  BY <1>1, <1>2, <1>3

LEMMA UploadCompletedInv ==
  ASSUME AttemptInv, UploadCompleted
  PROVE  AttemptInv'
<1>0. /\ OnItsWay(status)
      /\ OnItsWay(Told(status, "starting_import"))
  BY Reporting, Tells DEF UploadCompleted, Answered, Over, Reports
<1>1. /\ pc = "complete" /\ pc' = "import" /\ completed' /\ OnItsWay(status')
      /\ UNCHANGED <<stray, cancelled, lostAt, target, exports, imports, deleteIfExists, useGHOS,
                     poll, own, late>>
      /\ UNCHANGED <<round, export, stored, cut>>
  BY <1>0, Goes DEF UploadCompleted, Answered, Returned, Unmoved, githubVars, options, uploadVars,
     environment
<1>2. /\ Rounds' /\ DeletionAsked' /\ ExportsCounted' /\ ImportsCounted'
      /\ ArchiveReady' /\ Monitored'
  BY <1>1 DEF AttemptInv, UnderWay, NoStray, Over, Rounds, DeletionAsked, ExportsCounted,
     ImportsCounted, ArchiveReady, Monitored
<1> QED
  BY <1>1, <1>2, AdvanceInv DEF AttemptInv, AttemptTypes, Over, Tolerant,
     Fatal, Waits

LEMMA PollExportInv ==
  ASSUME AttemptInv, PollExport
  PROVE  AttemptInv'
<1>0. OnItsWay(status)
  BY Reporting, Tells DEF PollExport, Over, Reports
<1>1. /\ pc = "await_export"
      /\ UNCHANGED <<stray, cancelled, lostAt, target, exports, imports, deleteIfExists, useGHOS,
                     poll, own, late, round, export, stored, cut, completed>>
      /\ \/ pc' = "export_status" /\ OnItsWay(status')
         \/ pc' = "report" /\ GivenUp(status')
  BY <1>0, Goes, Fails DEF PollExport, githubVars, options, uploadVars, environment
<1>2. CASE pc' = "report" /\ GivenUp(status')
  BY <1>1, <1>2, EndEarlyInv DEF Over
<1>3. CASE pc' = "export_status" /\ OnItsWay(status')
  <2>1. /\ Rounds' /\ DeletionAsked' /\ ExportsCounted' /\ ImportsCounted'
        /\ ArchiveReady' /\ Monitored'
    BY <1>1, <1>3 DEF AttemptInv, UnderWay, NoStray, Over, Rounds, DeletionAsked, ExportsCounted,
       ImportsCounted, ArchiveReady, Monitored
  <2> QED
    BY <1>1, <1>3, <2>1, AdvanceInv DEF AttemptInv, AttemptTypes, Over,
       Tolerant, Fatal, Waits
<1> QED
  BY <1>1, <1>2, <1>3

LEMMA DeletedInv ==
  ASSUME AttemptInv, Deleted
  PROVE  AttemptInv'
<1>0. /\ OnItsWay(status)
      /\ OnItsWay(Told(status, "target_deleted"))
  BY Reporting, Tells DEF Deleted, Answered, Over, Reports
<1>1. /\ pc = "delete" /\ pc' = "organization" /\ OnItsWay(status')
      /\ UNCHANGED <<stray, cancelled, lostAt, exports, imports, deleteIfExists, useGHOS, poll,
                     own, late, round, export, stored, cut, completed>>
  BY <1>0, Clears DEF Deleted, DeleteTarget, Answered, Returned, Unmoved, options, uploadVars,
     environment
<1>2. imports = <<>>
  BY <1>1 DEF AttemptInv, ImportsCounted, Over
<1>3. /\ Rounds' /\ DeletionAsked' /\ ExportsCounted' /\ ImportsCounted'
      /\ ArchiveReady' /\ Monitored'
  BY <1>1, <1>2 DEF AttemptInv, UnderWay, NoStray, Over, Rounds, DeletionAsked, ExportsCounted,
     ImportsCounted, ArchiveReady, Monitored
<1> QED
  BY <1>1, <1>3, AdvanceInv DEF AttemptInv, AttemptTypes, Over, Tolerant,
     Fatal, Waits

LEMMA GeneratedInv ==
  ASSUME AttemptInv, Generated
  PROVE  AttemptInv'
<1>0. /\ OnItsWay(status)
      /\ OnItsWay(Told(status, "waiting_export"))
  BY Reporting, Tells DEF Generated, Answered, Over, Reports
<1>1. /\ pc = "generate" /\ pc' = "await_export" /\ OnItsWay(status')
      /\ exports' = exports + 1 /\ export' = "pending"
      /\ UNCHANGED <<stray, cancelled, lostAt, target, imports, deleteIfExists, useGHOS, poll,
                     own, late, round, stored, cut, completed>>
  BY <1>0, Goes DEF Generated, StartExport, Answered, Returned, options, uploadVars, environment
<1>2. round = 1 /\ exports \in Nat
  BY <1>1 DEF AttemptInv, AttemptTypes, Rounds
<1>3. /\ Rounds' /\ DeletionAsked' /\ ImportsCounted' /\ ArchiveReady' /\ Monitored'
  BY <1>1, <1>2 DEF AttemptInv, UnderWay, NoStray, Over, Rounds, DeletionAsked,
     ImportsCounted, ArchiveReady, Monitored, ExportStates
<1>4. ExportsCounted'
  BY <1>1, <1>2 DEF AttemptInv, ExportsCounted, Over
<1> QED
  BY <1>1, <1>2, <1>3, <1>4, AdvanceInv DEF AttemptInv, AttemptTypes, Over,
     Tolerant, Fatal, Waits
-----------------------------------------------------------------------------
(* The import.                                                             *)

\* What starting an import adds.
LEMMA ImportAdded ==
  ASSUME AttemptInv, StartImport
  PROVE  /\ imports' \in Seq(Import) /\ Len(imports') = Len(imports) + 1
         /\ imports'[Len(imports')] = [state |-> "NOT_STARTED", whole |-> ArchiveWhole]
         /\ \A i \in DOMAIN imports : imports'[i] = imports[i]
         /\ UNCHANGED <<target, exports>>
<1>1. imports \in Seq(Import)
  BY DEF AttemptInv, AttemptTypes
<1>2. ArchiveWhole \in BOOLEAN
  BY DEF ArchiveWhole
<1>3. [state |-> "NOT_STARTED", whole |-> ArchiveWhole] \in Import
  BY <1>2 DEF Import, ImportStates
<1> QED
  BY <1>1, <1>3 DEF StartImport

LEMMA ImportStartedInv ==
  ASSUME AttemptInv, ImportStarted
  PROVE  AttemptInv'
<1>0. /\ OnItsWay(status)
      /\ OnItsWay(Told(status, "created"))
      /\ OnItsWay(Told(Told(status, "created"), "waiting_import"))
  BY Reporting, Tells DEF ImportStarted, Answered, Over, Reports
<1>1. /\ pc = "import" /\ pc' = "await_import" /\ OnItsWay(status')
      /\ own' = Len(imports') /\ poll'.interval = FirstInterval
      /\ UNCHANGED <<stray, cancelled, lostAt, deleteIfExists, useGHOS, late, round, export,
                     stored, cut, completed>>
  BY <1>0, Goes DEF ImportStarted, Answered, Returned, FirstPoll, options, uploadVars, environment
<1>2. /\ imports' \in Seq(Import) /\ Len(imports') = Len(imports) + 1
      /\ imports'[Len(imports')] = [state |-> "NOT_STARTED", whole |-> ArchiveWhole]
      /\ \A i \in DOMAIN imports : imports'[i] = imports[i]
      /\ UNCHANGED <<target, exports>>
  BY ImportAdded DEF ImportStarted
<1>3. imports \in Seq(Import) /\ stray = NoStray
  BY <1>1 DEF AttemptInv, AttemptTypes, UnderWay, Over
<1>4. Rounds' /\ DeletionAsked' /\ ExportsCounted' /\ ArchiveReady'
  BY <1>1, <1>2, <1>3 DEF AttemptInv, Over, Rounds, DeletionAsked, ExportsCounted, ArchiveReady,
     NoStray
<1>5. ImportsCounted'
  BY <1>1, <1>2, <1>3 DEF AttemptInv, ImportsCounted, Over
<1>6. Monitored'
  <2>1. ArchiveWhole \/ cut
    BY <1>1 DEF AttemptInv, ArchiveReady, ArchiveWhole, Rounds, Over
  <2>2. \A i \in DOMAIN imports' : imports'[i].state = "SUCCEEDED" => i \in DOMAIN imports
    BY <1>2, <1>3
  <2> QED
    BY <1>1, <1>2, <1>3, <2>1, <2>2 DEF AttemptInv, Monitored
<1>7. poll'.interval \in Nat
  BY <1>1, SecondNat DEF FirstInterval
<1> QED
  BY <1>1, <1>2, <1>3, <1>4, <1>5, <1>6, <1>7, AdvanceInv DEF AttemptInv, AttemptTypes, Over,
     Waits

LEMMA PollImportInv ==
  ASSUME AttemptInv, PollImport
  PROVE  AttemptInv'
<1>0. OnItsWay(status)
  BY Reporting, Tells DEF PollImport, Over, Reports
<1>1. /\ pc = "await_import"
      /\ UNCHANGED <<stray, cancelled, lostAt, target, exports, imports, deleteIfExists, useGHOS,
                     poll, own, late, round, export, stored, cut, completed>>
      /\ \/ pc' = "import_status" /\ OnItsWay(status')
         \/ pc' = "report" /\ GivenUp(status') /\ blind'
  BY <1>0, Goes, Fails DEF PollImport, githubVars, options, uploadVars, environment
<1>2. CASE pc' = "report" /\ GivenUp(status') /\ blind'
  <2>1. StrayKnown' /\ DeletionAsked' /\ FailureIsFinal'
    BY <1>1, <1>2 DEF AttemptInv, UnderWay, StrayKnown, DeletionAsked, FailureIsFinal, NoStray,
       Over
  <2> QED
    BY <1>1, <1>2, <2>1, EndInv DEF AttemptInv, AttemptTypes, ExportsCounted, ImportsCounted,
       Monitored, Over
<1>3. CASE pc' = "import_status" /\ OnItsWay(status')
  <2>1. /\ Rounds' /\ DeletionAsked' /\ ExportsCounted' /\ ImportsCounted'
        /\ ArchiveReady' /\ Monitored'
    BY <1>1, <1>3 DEF AttemptInv, UnderWay, NoStray, Over, Rounds, DeletionAsked, ExportsCounted,
       ImportsCounted, ArchiveReady, Monitored
  <2> QED
    BY <1>1, <1>3, <2>1, AdvanceInv DEF AttemptInv, AttemptTypes, Over,
       Tolerant, Fatal, Waits
<1> QED
  BY <1>1, <1>2, <1>3

\* An interval that grows by a quarter is again a number of microseconds.
LEMMA SlowerNat ==
  ASSUME NEW seen, poll.interval \in Nat
  PROVE  Slower(seen).interval \in Nat
<1>1. FirstInterval \in Nat
  BY SecondNat DEF FirstInterval
<1>2. (poll.interval * 5) \div 4 \in Nat
  BY SMT
<1> QED
  BY <1>1, <1>2 DEF Slower

\* The import that is monitored.
LEMMA OwnImport ==
  ASSUME AttemptInv, pc \in {"await_import", "import_status"}
  PROVE  /\ own \in 1 .. Len(imports)
         /\ imports[own] \in Import
         /\ imports[own].state \in ImportStates
<1>1. imports \in Seq(Import) /\ own \in 1 .. Len(imports)
  BY DEF AttemptInv, AttemptTypes, Monitored
<1>2. imports[own] \in Import
  BY <1>1
<1> QED
  BY <1>1, <1>2 DEF Import

LEMMA ImportSeenInv ==
  ASSUME AttemptInv, ImportSeen
  PROVE  AttemptInv'
<1> DEFINE seen == imports[own].state
<1>0. /\ OnItsWay(status)
      /\ seen \in {"NOT_STARTED", "QUEUED", "IN_PROGRESS"} => OnItsWay(Told(status, seen))
      /\ seen \in ImportStates
  <2>1. pc = "import_status"
    BY DEF ImportSeen, Answered
  <2> QED
    BY <2>1, OwnImport, Reporting DEF Reports, Over
<1>1. /\ pc = "import_status"
      /\ UNCHANGED <<stray, cancelled, lostAt, target, exports, imports, deleteIfExists, useGHOS,
                     own, late, round, export, stored, cut, completed, blind>>
      /\ \/ /\ seen = "SUCCEEDED" /\ poll' = poll
            /\ pc' = "report" /\ Successful(status')
         \/ /\ seen = "FAILED" /\ poll' = poll
            /\ pc' = "report" /\ GivenUp(status')
         \/ /\ pc' = "await_import" /\ OnItsWay(status')
            /\ poll' = poll \/ poll' = Slower(seen)
  <2>1. /\ pc = "import_status"
        /\ UNCHANGED <<stray, cancelled, lostAt, target, exports, imports, deleteIfExists, useGHOS,
                       own, late, round, export, stored, cut, completed, blind>>
    BY DEF ImportSeen, Answered, Returned, githubVars, options, uploadVars, environment
  <2>2. CASE seen = "SUCCEEDED"
    <3>1. pc' = "report" /\ poll' = poll
      BY <2>2 DEF ImportSeen, ImportFailed
    <3>2. Successful(status')
      BY <1>0, <2>2, Succeeds DEF ImportSeen, ImportFailed
    <3> QED
      BY <2>1, <2>2, <3>1, <3>2
  <2>3. CASE seen = "FAILED"
    <3>1. Fail(status) /\ poll' = poll
      BY <2>3 DEF ImportSeen, ImportFailed
    <3> QED
      BY <1>0, <2>1, <2>3, <3>1, Fails
  <2>4. CASE seen \in {"NOT_STARTED", "QUEUED", "IN_PROGRESS"}
    <3>1. Await("await_import", Told(status, seen)) /\ (poll' = poll \/ poll' = Slower(seen))
      BY <2>4 DEF ImportSeen, ImportFailed
    <3> QED
      BY <1>0, <2>1, <2>4, <3>1, Goes
  <2> QED
    BY <1>0, <2>2, <2>3, <2>4 DEF ImportStates
<1>2. own \in 1 .. Len(imports) /\ imports \in Seq(Import) /\ stray = NoStray
  BY <1>1 DEF AttemptInv, AttemptTypes, Monitored, UnderWay, Over
<1>3. CASE pc' = "report" /\ Successful(status') /\ seen = "SUCCEEDED" /\ poll' = poll
  <2>1. SucceededIsReal'
    BY <1>1, <1>2, <1>3 DEF AttemptInv, Monitored, SucceededIsReal, ImportIsReal
  <2>2. AttemptTypes' /\ StrayKnown' /\ DeletionAsked' /\ LastRequest'
    BY <1>1, <1>2, <1>3 DEF AttemptInv, AttemptTypes, StrayKnown,
       DeletionAsked, LastRequest, NoStray, Over
  <2>3. /\ Rounds' /\ UnderWay' /\ Outcome' /\ ExportsCounted' /\ ImportsCounted'
        /\ ArchiveReady' /\ Monitored'
    BY <1>1, <1>2, <1>3 DEF AttemptInv, Rounds, UnderWay, Outcome, ExportsCounted, ImportsCounted,
       ArchiveReady, Monitored, Over
  <2>4. FailureIsFinal'
    BY <1>3 DEF FailureIsFinal, Successful
  <2> QED
    BY <2>1, <2>2, <2>3, <2>4 DEF AttemptInv
<1>4. CASE pc' = "report" /\ GivenUp(status') /\ seen = "FAILED" /\ poll' = poll
  <2>1. "import" \in lostAt \/ \A i \in DOMAIN imports : i = own
    BY <1>2 DEF AttemptInv, ImportsCounted
  <2>2. StrayKnown' /\ DeletionAsked' /\ FailureIsFinal'
    BY <1>1, <1>2, <1>4, <2>1 DEF StrayKnown, DeletionAsked, FailureIsFinal, NoStray
  <2> QED
    BY <1>1, <1>2, <1>4, <2>2, EndInv DEF AttemptInv, AttemptTypes, ExportsCounted,
       ImportsCounted, Monitored, Over
<1>5. CASE /\ pc' = "await_import" /\ OnItsWay(status')
           /\ poll' = poll \/ poll' = Slower(seen)
  <2>1. poll'.interval \in Nat
    BY <1>5, SlowerNat DEF AttemptInv, AttemptTypes
  <2>2. /\ Rounds' /\ DeletionAsked' /\ ExportsCounted' /\ ImportsCounted'
        /\ ArchiveReady' /\ Monitored'
    BY <1>1, <1>2, <1>5 DEF AttemptInv, NoStray, Over, Rounds, DeletionAsked, ExportsCounted,
       ImportsCounted, ArchiveReady, Monitored
  <2> QED
    BY <1>1, <1>2, <1>5, <2>1, <2>2, AdvanceInv DEF AttemptInv, AttemptTypes, Over, Waits
<1> QED
  BY <1>1, <1>3, <1>4, <1>5
-----------------------------------------------------------------------------
(* Requests and calls that fail.                                           *)

\* The effects of a request, without an answer.
LEMMA EffectDone ==
  ASSUME AttemptInv, NEW step \in Effectful, Effect(step)
  PROVE  \/ /\ step = "delete" /\ target' = "none"
            /\ UNCHANGED <<exports, imports>>
         \/ /\ step = "generate" /\ exports' = exports + 1
            /\ UNCHANGED <<target, imports>>
         \/ /\ step = "import"
            /\ imports' \in Seq(Import) /\ Len(imports') = Len(imports) + 1
            /\ \A i \in DOMAIN imports : imports'[i] = imports[i]
            /\ \A i \in DOMAIN imports' \ DOMAIN imports : imports'[i].state = "NOT_STARTED"
            /\ UNCHANGED <<target, exports>>
<1>1. imports \in Seq(Import)
  BY DEF AttemptInv, AttemptTypes
<1>2. CASE step = "import" /\ StartImport
  BY <1>1, <1>2, ImportAdded
<1> QED
  BY <1>2 DEF Effect, DeleteTarget, StartExport, Effectful

LEMMA RequestFailsInv ==
  ASSUME AttemptInv, RequestFails
  PROVE  AttemptInv'
<1>1. /\ pc \in Tolerant \cup Fatal /\ pc \notin Over
      /\ status' = status /\ stray' = stray
      /\ UNCHANGED <<pc, deleteIfExists, useGHOS, poll, own, late, round, export, stored, cut,
                     completed>>
  BY DEF RequestFails, Transient, AnswerLost, Others, TryAgain, Tolerant, Fatal, Over, options,
     uploadVars, environment
<1>2. /\ OnItsWay(status) /\ stray = NoStray
      /\ imports \in Seq(Import) /\ exports \in Nat
  BY <1>1 DEF AttemptInv, AttemptTypes, UnderWay
<1>3. CASE UNCHANGED <<target, exports, imports, lostAt>>
  <2>1. /\ Rounds' /\ DeletionAsked' /\ ExportsCounted' /\ ImportsCounted'
        /\ ArchiveReady' /\ Monitored'
    BY <1>1, <1>2, <1>3 DEF AttemptInv, Rounds, DeletionAsked, ExportsCounted, ImportsCounted,
       ArchiveReady, Monitored, Over
  <2> QED
    BY <1>1, <1>2, <1>3, <2>1, AdvanceInv DEF AttemptInv, AttemptTypes
<1>4. CASE pc \in Effectful /\ Effect(pc) /\ lostAt' = lostAt \cup {pc}
  <2>1. \/ /\ pc = "delete" /\ target' = "none"
           /\ UNCHANGED <<exports, imports>>
        \/ /\ pc = "generate" /\ exports' = exports + 1
           /\ UNCHANGED <<target, imports>>
        \/ /\ pc = "import"
           /\ imports' \in Seq(Import) /\ Len(imports') = Len(imports) + 1
           /\ \A i \in DOMAIN imports : imports'[i] = imports[i]
           /\ \A i \in DOMAIN imports' \ DOMAIN imports : imports'[i].state = "NOT_STARTED"
           /\ UNCHANGED <<target, exports>>
    BY <1>4, EffectDone
  <2>2. Rounds' /\ DeletionAsked' /\ ArchiveReady'
    BY <1>1, <1>2, <2>1 DEF AttemptInv, Rounds, DeletionAsked, ArchiveReady, Over, NoStray
  <2>3. ExportsCounted'
    BY <1>1, <1>2, <1>4, <2>1 DEF AttemptInv, ExportsCounted, Over
  <2>4. ImportsCounted'
    BY <1>1, <1>2, <1>4, <2>1 DEF AttemptInv, ImportsCounted, Over
  <2>5. Monitored'
    BY <1>1, <1>2, <2>1 DEF AttemptInv, ImportsCounted, Monitored, Over
  <2>6. exports' \in Nat /\ imports' \in Seq(Import) /\ own' \in 0 .. Len(imports')
    BY <1>1, <1>2, <2>1 DEF AttemptInv, AttemptTypes
  <2> QED
    BY <1>1, <1>2, <1>4, <2>2, <2>3, <2>4, <2>5, <2>6, AdvanceInv
       DEF AttemptInv, AttemptTypes
<1> QED
  BY <1>3, <1>4 DEF RequestFails, Transient, AnswerLost, Effect, Effectful, githubVars

LEMMA CallFailsInv ==
  ASSUME AttemptInv, CallFails
  PROVE  AttemptInv'
<1>0. OnItsWay(status)
  BY Reporting, Tells DEF CallFails, Fatal, Over, Reports
<1>1. /\ pc \in Fatal /\ pc \notin Over
      /\ pc' = "report" /\ GivenUp(status')
      /\ pc = "import_status" => blind'
      /\ UNCHANGED <<deleteIfExists, useGHOS, poll, own, late, round>>
  BY <1>0, Fails DEF CallFails, Fatal, Over, options, environment
<1>2. /\ stray = NoStray /\ imports \in Seq(Import) /\ exports \in Nat
      /\ stray \in [step : Effectful \cup {"none"}, sent : BOOLEAN]
      /\ own \in 0 .. Len(imports)
  BY <1>1 DEF AttemptInv, AttemptTypes, UnderWay
<1>3. CASE UNCHANGED <<target, exports, imports, stray, lostAt>>
  <2>1. imports = <<>> \/ "import" \in lostAt \/ blind'
    BY <1>1 DEF AttemptInv, ImportsCounted, Fatal
  <2>2. StrayKnown' /\ DeletionAsked' /\ FailureIsFinal'
    BY <1>1, <1>2, <1>3, <2>1 DEF StrayKnown, DeletionAsked, FailureIsFinal, NoStray
  <2> QED
    BY <1>1, <1>2, <1>3, <2>2, EndInv DEF AttemptInv, ExportsCounted, ImportsCounted, Monitored
<1>4. CASE pc \in Effectful /\ Effect(pc) /\ lostAt' = lostAt \cup {pc} /\ stray' = stray
  <2>1. \/ /\ pc = "delete" /\ target' = "none"
           /\ UNCHANGED <<exports, imports>>
        \/ /\ pc = "generate" /\ exports' = exports + 1
           /\ UNCHANGED <<target, imports>>
        \/ /\ pc = "import"
           /\ imports' \in Seq(Import) /\ Len(imports') = Len(imports) + 1
           /\ \A i \in DOMAIN imports : imports'[i] = imports[i]
           /\ \A i \in DOMAIN imports' \ DOMAIN imports : imports'[i].state = "NOT_STARTED"
           /\ UNCHANGED <<target, exports>>
    BY <1>4, EffectDone
  <2>2. pc # "import" => imports = <<>>
    BY <1>1, <1>4 DEF AttemptInv, ImportsCounted, Effectful, Over
  <2>3. StrayKnown' /\ DeletionAsked' /\ FailureIsFinal'
    BY <1>1, <1>2, <1>4, <2>1, <2>2 DEF StrayKnown, DeletionAsked, FailureIsFinal, NoStray
  <2>4. /\ exports' \in Nat /\ (exports' > 1 => "generate" \in lostAt')
        /\ imports' \in Seq(Import) /\ own \in 0 .. Len(imports')
        /\ Len(imports') > 1 => "import" \in lostAt'
    BY <1>2, <1>4, <2>1 DEF AttemptInv, ExportsCounted, ImportsCounted
  <2>5. \A i \in DOMAIN imports' : imports'[i].state = "SUCCEEDED" => target' = "migrated"
    BY <1>2, <2>1, <2>2 DEF AttemptInv, Monitored
  <2>6. /\ stray' \in [step : Effectful \cup {"none"}, sent : BOOLEAN]
        /\ lostAt \subseteq lostAt'
    BY <1>2, <1>4
  <2> QED
    BY <1>1, <1>4, <2>3, <2>4, <2>5, <2>6, EndInv
<1>5. CASE Abandoned(pc) /\ UNCHANGED <<target, exports, imports>>
  <2>1. /\ stray' = NoStray \/ (pc \in Effectful /\ stray' \in [step : {pc}, sent : BOOLEAN])
        /\ lostAt' = lostAt \cup ({pc} \cap Effectful)
    BY <1>5 DEF Abandoned
  <2>2. imports = <<>> \/ "import" \in lostAt' \/ blind'
    BY <1>1, <2>1 DEF AttemptInv, ImportsCounted, Fatal
  <2>3. StrayKnown' /\ DeletionAsked'
    BY <1>1, <1>2, <1>5, <2>1 DEF AttemptInv, StrayKnown, DeletionAsked, ImportsCounted, NoStray,
       Over
  <2>4. FailureIsFinal'
    BY <1>5, <2>2 DEF FailureIsFinal
  <2>5. stray' \in [step : Effectful \cup {"none"}, sent : BOOLEAN]
    BY <1>2, <2>1
  <2> QED
    BY <1>1, <1>2, <1>5, <2>1, <2>3, <2>4, <2>5, EndInv DEF AttemptInv, ExportsCounted,
       ImportsCounted, Monitored
<1> QED
  BY <1>3, <1>4, <1>5 DEF CallFails, Refused, Returned, ReturnedBlind, Effect, Effectful,
     githubVars
-----------------------------------------------------------------------------
(* The end, and what goes on outside.                                      *)

LEMMA ReturnInv ==
  ASSUME AttemptInv, Return
  PROVE  AttemptInv'
<1>0. /\ GivenUp(status) \/ Successful(status)
      /\ GivenUp(status) => GivenUp(Updated(status, "failed", "failure", useGHOS))
      /\ Successful(status) => status.status # "failed"
  BY GivesUp DEF Return, AttemptInv, Outcome, Successful, Over
<1>1. /\ pc = "report" /\ pc' = "done" /\ cancelled'
      /\ status'.status = status.status
      /\ GivenUp(status') \/ Successful(status')
      /\ UNCHANGED <<stray, lostAt, target, exports, imports, deleteIfExists, useGHOS, poll, own,
                     late, round, export, stored, cut, completed, blind>>
  BY <1>0 DEF Return, GivenUp, githubVars, options, uploadVars, environment
<1>2. AttemptTypes' /\ StrayKnown' /\ DeletionAsked' /\ LastRequest'
  BY <1>1 DEF AttemptInv, AttemptTypes, StrayKnown, DeletionAsked, LastRequest, Over
<1>3. /\ Rounds' /\ UnderWay' /\ Outcome' /\ ExportsCounted' /\ ImportsCounted'
      /\ ArchiveReady' /\ Monitored'
  BY <1>1 DEF AttemptInv, Rounds, UnderWay, Outcome, ExportsCounted, ImportsCounted, ArchiveReady,
     Monitored, Over
<1>4. SucceededIsReal' /\ FailureIsFinal'
  BY <1>1 DEF AttemptInv, SucceededIsReal, ImportIsReal, FailureIsFinal
<1> QED
  BY <1>1, <1>2, <1>3, <1>4 DEF AttemptInv

\* A stray after a request of it was sent, or came back.
LEMMA StrayAfter ==
  ASSUME NEW before \in [step : Effectful \cup {"none"}, sent : BOOLEAN], NEW s \in BOOLEAN
  PROVE  /\ [before EXCEPT !.sent = s] \in [step : Effectful \cup {"none"}, sent : BOOLEAN]
         /\ [before EXCEPT !.sent = s].step = before.step
         /\ [before EXCEPT !.sent = s].sent = s
  OBVIOUS

\* An effect of a stray: it was allowed when its call was abandoned.
LEMMA StrayActsInv ==
  ASSUME AttemptInv, StrayActs
  PROVE  AttemptInv'
<1> DEFINE step == stray.step
<1> stray \in [step : Effectful \cup {"none"}, sent : BOOLEAN]
  BY DEF AttemptInv, AttemptTypes
<1>0. /\ stray' \in [step : Effectful \cup {"none"}, sent : BOOLEAN]
      /\ stray' = NoStray \/ stray'.step = step
      /\ ~stray'.sent
  <2>1. stray' \in {NoStray, [stray EXCEPT !.sent = FALSE]}
    BY DEF StrayActs, StrayRequestDone
  <2>2. CASE stray' = NoStray
    BY <2>2 DEF NoStray
  <2>3. CASE stray' = [stray EXCEPT !.sent = FALSE]
    BY <2>3, StrayAfter
  <2> QED
    BY <2>1, <2>2, <2>3
<1>1. /\ stray.sent /\ stray # NoStray
      /\ late' = IF pc = "done" THEN late + 1 ELSE late
      /\ UNCHANGED <<lostAt, cancelled, pc, round, status, poll, own, useGHOS, deleteIfExists,
                     export, stored, cut, completed, blind>>
  <2>1. stray.sent
    BY DEF StrayActs, StrayRequestDone
  <2>2. stray # NoStray
    BY <2>1 DEF NoStray
  <2> QED
    BY <2>1, <2>2 DEF StrayActs, StrayRequestDone, Undisturbed, options, uploadVars
<1>2. /\ pc \in Over /\ step \in lostAt /\ late = 0
      /\ imports \in Seq(Import) /\ exports \in Nat
      /\ own \in 0 .. Len(imports)
      /\ step = "delete" => deleteIfExists /\ imports = <<>>
  BY <1>1 DEF AttemptInv, AttemptTypes, UnderWay, StrayKnown, DeletionAsked, LastRequest
<1>3. step \in Effectful
  BY <1>1 DEF AttemptInv, AttemptTypes, StrayActs, Effect, Effectful
<1>4. \/ /\ step = "delete" /\ target' = "none"
         /\ UNCHANGED <<exports, imports>>
      \/ /\ step = "generate" /\ exports' = exports + 1
         /\ UNCHANGED <<target, imports>>
      \/ /\ step = "import"
         /\ imports' \in Seq(Import) /\ Len(imports') = Len(imports) + 1
         /\ \A i \in DOMAIN imports : imports'[i] = imports[i]
         /\ \A i \in DOMAIN imports' \ DOMAIN imports : imports'[i].state = "NOT_STARTED"
         /\ UNCHANGED <<target, exports>>
  BY <1>3, EffectDone DEF StrayActs
<1>5. late' \in Nat /\ (late' > 0 => pc = "done" /\ late' = 1)
  BY <1>1, <1>2
<1>6. AttemptTypes' /\ Rounds' /\ UnderWay' /\ Outcome'
  BY <1>0, <1>1, <1>2, <1>4, <1>5 DEF AttemptInv, AttemptTypes, Rounds, UnderWay, Outcome
<1>7. StrayKnown' /\ DeletionAsked' /\ LastRequest' /\ ArchiveReady'
  BY <1>0, <1>1, <1>2, <1>4, <1>5 DEF AttemptInv, StrayKnown, DeletionAsked, LastRequest,
     ArchiveReady, NoStray, Over
<1>8. ExportsCounted' /\ ImportsCounted'
  BY <1>1, <1>2, <1>4 DEF AttemptInv, ExportsCounted, ImportsCounted, Over
<1>9. Monitored' /\ SucceededIsReal' /\ FailureIsFinal'
  BY <1>1, <1>2, <1>4 DEF AttemptInv, Monitored, SucceededIsReal, ImportIsReal, FailureIsFinal,
     Over
<1> QED
  BY <1>6, <1>7, <1>8, <1>9 DEF AttemptInv

LEMMA StrayGoesOnInv ==
  ASSUME AttemptInv, StrayGoesOn
  PROVE  AttemptInv'
<1> stray \in [step : Effectful \cup {"none"}, sent : BOOLEAN]
  BY DEF AttemptInv, AttemptTypes
<1>1. /\ stray # NoStray
      /\ UNCHANGED <<lostAt, cancelled, pc, round, status, poll, own, useGHOS, deleteIfExists,
                     export, stored, cut, completed, blind, target, exports, imports, late>>
  BY DEF StrayGoesOn, StraySends, StrayRequestFails, StrayWaits, Undisturbed, options, uploadVars,
     githubVars, environment
<1>2. /\ stray' \in [step : Effectful \cup {"none"}, sent : BOOLEAN]
      /\ stray' = NoStray \/ stray'.step = stray.step
      /\ ~stray'.sent \/ ~cancelled
  <2>1. \/ stray' = NoStray
        \/ stray' = [stray EXCEPT !.sent = FALSE]
        \/ stray' = [stray EXCEPT !.sent = TRUE] /\ ~cancelled
    BY DEF StrayGoesOn, StraySends, StrayRequestFails
  <2>2. CASE stray' = NoStray
    BY <2>2 DEF NoStray
  <2>3. CASE stray' = [stray EXCEPT !.sent = FALSE]
    BY <2>3, StrayAfter
  <2>4. CASE stray' = [stray EXCEPT !.sent = TRUE] /\ ~cancelled
    BY <2>4, StrayAfter
  <2> QED
    BY <2>1, <2>2, <2>3, <2>4
<1>3. AttemptTypes' /\ Rounds' /\ UnderWay' /\ StrayKnown' /\ DeletionAsked'
  BY <1>1, <1>2 DEF AttemptInv, AttemptTypes, Rounds, UnderWay, StrayKnown, DeletionAsked, NoStray
<1>4. LastRequest' /\ Outcome'
  BY <1>1, <1>2 DEF AttemptInv, LastRequest, Outcome
<1>5. /\ ExportsCounted' /\ ImportsCounted' /\ ArchiveReady' /\ Monitored'
      /\ SucceededIsReal' /\ FailureIsFinal'
  BY <1>1 DEF AttemptInv, ExportsCounted, ImportsCounted, ArchiveReady, Monitored,
     SucceededIsReal, ImportIsReal, FailureIsFinal
<1> QED
  BY <1>3, <1>4, <1>5 DEF AttemptInv

\* Steps that change at most whether the context is done.
LEMMA UntouchedInv ==
  ASSUME AttemptInv, cancelled => cancelled',
         UNCHANGED <<stray, lostAt, options, pc, round, status, poll, githubVars, export,
                     uploadVars, own, blind, late>>
  PROVE  AttemptInv'
<1> USE DEF options, githubVars, uploadVars
<1>1. AttemptTypes' /\ Rounds' /\ UnderWay' /\ StrayKnown' /\ DeletionAsked' /\ LastRequest'
  BY DEF AttemptInv, AttemptTypes, Rounds, UnderWay, StrayKnown, DeletionAsked, LastRequest
<1>2. /\ ExportsCounted' /\ ImportsCounted' /\ ArchiveReady' /\ Monitored'
      /\ Outcome' /\ SucceededIsReal' /\ FailureIsFinal'
  BY DEF AttemptInv, Outcome, ExportsCounted, ImportsCounted, ArchiveReady, Monitored,
     SucceededIsReal, ImportIsReal, FailureIsFinal
<1> QED
  BY <1>1, <1>2 DEF AttemptInv

\* What others do at GitHub: the export moves, an import moves, the target
\* repository is made or removed, but never the one that an import made.
LEMMA OutsideInv ==
  ASSUME AttemptInv, UNCHANGED callVars, Undisturbed, UNCHANGED <<exports, late>>,
         export = "exported" => export' = "exported",
         export \in ExportStates => export' \in ExportStates,
         target = "migrated" => target' = "migrated",
         imports' \in Seq(Import), Len(imports') = Len(imports),
         \A i \in DOMAIN imports :
           /\ imports'[i].whole = imports[i].whole
           /\ imports[i].state \in {"SUCCEEDED", "FAILED"} => imports'[i] = imports[i]
           /\ imports'[i].state = "SUCCEEDED" /\ imports[i].state # "SUCCEEDED"
                => target' = "migrated"
  PROVE  AttemptInv'
<1> USE DEF callVars, Undisturbed, options, uploadVars
<1>1. imports \in Seq(Import) /\ own \in 0 .. Len(imports)
  BY DEF AttemptInv, AttemptTypes
<1>2. imports = <<>> => imports' = <<>>
  BY <1>1
<1>3. AttemptTypes' /\ Rounds' /\ UnderWay' /\ StrayKnown' /\ LastRequest'
  BY <1>1 DEF AttemptInv, AttemptTypes, Rounds, UnderWay, StrayKnown, LastRequest
<1>4. DeletionAsked' /\ ExportsCounted' /\ ImportsCounted'
  BY <1>2 DEF AttemptInv, DeletionAsked, ExportsCounted, ImportsCounted
<1>5. ArchiveReady' /\ Monitored'
  BY <1>1 DEF AttemptInv, ArchiveReady, Monitored
<1>6. Outcome' /\ SucceededIsReal' /\ FailureIsFinal'
  BY <1>1 DEF AttemptInv, Outcome, SucceededIsReal, ImportIsReal, FailureIsFinal
<1> QED
  BY <1>3, <1>4, <1>5, <1>6 DEF AttemptInv

\* An import in another state.
LEMMA MovedImport ==
  ASSUME NEW before \in Import, NEW s \in ImportStates
  PROVE  /\ [before EXCEPT !.state = s] \in Import
         /\ [before EXCEPT !.state = s].whole = before.whole
         /\ [before EXCEPT !.state = s].state = s
  BY DEF Import

LEMMA ImportMovesInv ==
  ASSUME AttemptInv, NEW i, ImportMoves(i)
  PROVE  AttemptInv'
<1>1. imports \in Seq(Import) /\ i \in 1 .. Len(imports)
  BY DEF AttemptInv, AttemptTypes, ImportMoves
<1>2. PICK s \in ImportStates :
        /\ imports' = [imports EXCEPT ![i].state = s]
        /\ imports[i].state \notin {"SUCCEEDED", "FAILED"}
        /\ s = "SUCCEEDED" => target' = "migrated"
        /\ target' # target => target = "none"
  <2>1. PICK s \in {"QUEUED", "IN_PROGRESS", "FAILED", "SUCCEEDED"} :
          /\ imports' = [imports EXCEPT ![i].state = s]
          /\ imports[i].state \in {"NOT_STARTED", "QUEUED", "IN_PROGRESS"}
          /\ s = "SUCCEEDED" => target' = "migrated"
          /\ target' # target => target = "none"
    <3>1. CASE /\ imports[i].state = "NOT_STARTED"
               /\ imports' = [imports EXCEPT ![i].state = "QUEUED"] /\ UNCHANGED target
      BY <3>1
    <3>2. CASE /\ imports[i].state = "QUEUED"
               /\ imports' = [imports EXCEPT ![i].state = "IN_PROGRESS"] /\ UNCHANGED target
      BY <3>2
    <3>3. CASE /\ imports[i].state = "IN_PROGRESS"
               /\ imports' = [imports EXCEPT ![i].state = "FAILED"] /\ UNCHANGED target
      BY <3>3
    <3>4. CASE /\ imports[i].state = "IN_PROGRESS" /\ target = "none"
               /\ imports' = [imports EXCEPT ![i].state = "SUCCEEDED"] /\ target' = "migrated"
      BY <3>4
    <3> QED
      BY <3>1, <3>2, <3>3, <3>4, Zenon DEF ImportMoves
  <2> QED
    BY <2>1 DEF ImportStates
<1> DEFINE moved == [imports[i] EXCEPT !.state = s]
<1>3. moved \in Import /\ moved.whole = imports[i].whole /\ moved.state = s
  <2>1. imports[i] \in Import
    BY <1>1
  <2> QED
    BY <2>1, MovedImport
<1>4. /\ imports' \in Seq(Import) /\ Len(imports') = Len(imports)
      /\ \A j \in DOMAIN imports : imports'[j] = IF j = i THEN moved ELSE imports[j]
  <2>1. imports' = [imports EXCEPT ![i] = moved]
    BY <1>2
  <2> HIDE DEF moved
  <2> QED
    BY <1>1, <1>3, <2>1
<1>5. \A j \in DOMAIN imports :
        /\ imports'[j].whole = imports[j].whole
        /\ imports[j].state \in {"SUCCEEDED", "FAILED"} => imports'[j] = imports[j]
        /\ imports'[j].state = "SUCCEEDED" /\ imports[j].state # "SUCCEEDED"
             => target' = "migrated"
  <2> HIDE DEF moved
  <2> QED
    BY <1>2, <1>3, <1>4
<1>6. UNCHANGED callVars /\ Undisturbed /\ UNCHANGED <<exports, late, export>>
  BY DEF ImportMoves, environment
<1>7. target = "migrated" => target' = "migrated"
  BY <1>2
<1> QED
  BY <1>4, <1>5, <1>6, <1>7, OutsideInv
-----------------------------------------------------------------------------
(* Every step.                                                             *)

LEMMA AttemptStepInv ==
  ASSUME AttemptInv, AttemptStep
  PROVE  AttemptInv'
  BY RequestFailsInv, CallFailsInv, ValidatedInv, SizedInv, CheckedInv, LookedUpInv, DeletedInv,
     OrganizationFoundInv, SourceCreatedInv, GeneratedInv, PollExportInv, ExportSeenInv,
     LocatedArchiveInv, DownloadingInv, UploadInitializedInv, PartUploadedInv,
     UploadCompletedInv, ImportStartedInv, PollImportInv, ImportSeenInv, ReturnInv
     DEF AttemptStep

LEMMA NextInv == AttemptInv /\ [Next]_vars => AttemptInv'
<1> SUFFICES ASSUME AttemptInv, [Next]_vars PROVE AttemptInv'
  OBVIOUS
<1>1. CASE AttemptStep
  BY <1>1, AttemptStepInv
<1>2. CASE StrayActs
  BY <1>2, StrayActsInv
<1>3. CASE StrayGoesOn
  BY <1>3, StrayGoesOnInv
<1>4. CASE CancelAttempt
  BY <1>4, UntouchedInv DEF CancelAttempt, Cancel, Undisturbed, environment
<1>5. CASE OtherChanges
  BY <1>5, OutsideInv DEF OtherChanges, AttemptInv, AttemptTypes
<1>6. CASE ExportMoves
  BY <1>6, OutsideInv DEF ExportMoves, ExportStates, AttemptInv, AttemptTypes, githubVars,
     environment
<1>7. CASE \E i \in 1 .. MaxLost + 1 : ImportMoves(i)
  BY <1>7, ImportMovesInv
<1>8. CASE UNCHANGED vars
  BY <1>8, UntouchedInv DEF vars, callVars, environment
<1> QED
  BY <1>1, <1>2, <1>3, <1>4, <1>5, <1>6, <1>7, <1>8 DEF Next
-----------------------------------------------------------------------------
(* What holds of every attempt.                                            *)

\* The attempt's call, its status, what it has started at GitHub and what its
\* strays may still do always agree, in performMigration and in all that it
\* calls.
THEOREM AttemptConsistent == Spec => []AttemptInv
  BY InitInv, NextInv, PTL DEF Spec

\* Failure is reported only when nothing of the attempt can still succeed, but
\* for an unanswered start of the import, a cancelled context and a failed poll
\* (repository.go:601).
THEOREM FailureReported == Spec => []FailureIsFinal
<1>1. AttemptInv => FailureIsFinal
  BY DEF AttemptInv
<1> QED
  BY <1>1, AttemptConsistent, PTL

\* A second export or import of one attempt is the work of a call whose answer
\* was lost, or that was abandoned (retry.go:199).
THEOREM SecondOnlyByRetry == Spec => []StartedOnce
<1>1. AttemptInv => StartedOnce
  BY DEF AttemptInv, ExportsCounted, ImportsCounted, StartedOnce
<1> QED
  BY <1>1, AttemptConsistent, PTL

\* At most one request of an attempt takes effect after the attempt has ended
\* (retry.go:251).
THEOREM LateOnce == Spec => []AtMostOneAfterEnd
<1>1. AttemptInv => AtMostOneAfterEnd
  BY DEF AttemptInv, AttemptTypes, LastRequest, AtMostOneAfterEnd
<1> QED
  BY <1>1, AttemptConsistent, PTL

\* The changes that others make are counted.
LEMMA ChangesCounted == Spec => [](changes \in Nat)
<1>1. Init => changes \in Nat
  BY DEF Init
<1>2. changes \in Nat /\ [Next]_vars => (changes \in Nat)'
  <2> SUFFICES ASSUME changes \in Nat, [Next]_vars PROVE changes' \in Nat
    OBVIOUS
  <2>1. CASE AttemptStep
    BY <2>1 DEF AttemptStep, RequestFails, Others, CallFails, Unmoved, Validated, Sized, Checked,
       LookedUp, Deleted, OrganizationFound, SourceCreated, Generated, PollExport, ExportSeen,
       LocatedArchive, Downloading, UploadInitialized, PartUploaded, UploadCompleted,
       ImportStarted, PollImport, ImportSeen, Return, environment
  <2>2. CASE OtherChanges
    BY <2>2 DEF OtherChanges
  <2>3. CASE StrayActs \/ StrayGoesOn \/ CancelAttempt \/ ExportMoves \/ UNCHANGED vars
    BY <2>3 DEF StrayActs, StrayGoesOn, CancelAttempt, ExportMoves, vars, environment
  <2>4. CASE \E i \in 1 .. MaxLost + 1 : ImportMoves(i)
    BY <2>4 DEF ImportMoves, environment
  <2> QED
    BY <2>1, <2>2, <2>3, <2>4 DEF Next
<1> QED
  BY <1>1, <1>2, PTL DEF Spec

\* A step that removes the repository, and is not somebody else's, is the
\* deletion of a request that asks for it, before any import.
LEMMA RemovalAsked ==
  ASSUME AttemptInv, changes \in Nat, [Next]_vars,
         target # "none", target' = "none", changes' = changes
  PROVE  deleteIfExists /\ imports = <<>> /\ pc \in {"delete", "report", "done"}
<1>1. CASE RequestFails \/ CallFails
  <2>1. pc = "delete"
    BY <1>1 DEF RequestFails, CallFails, Effect, StartExport, StartImport, githubVars
  <2> QED
    BY <2>1 DEF AttemptInv, DeletionAsked, ImportsCounted, Over
<1>2. CASE Deleted
  BY <1>2 DEF Deleted, Answered, AttemptInv, DeletionAsked, ImportsCounted, Over
<1>3. CASE StrayActs
  <2>1. stray.step = "delete" /\ stray # NoStray
    BY <1>3 DEF StrayActs, StrayRequestDone, Effect, StartExport, StartImport, NoStray
  <2> QED
    BY <2>1 DEF AttemptInv, DeletionAsked, UnderWay, Over
<1>4. CASE OtherChanges
  <2>1. changes' # changes
    BY <1>4 DEF OtherChanges
  <2> QED
    BY <1>4, <2>1 DEF OtherChanges
<1>5. CASE \E i \in 1 .. MaxLost + 1 : ImportMoves(i)
  BY <1>5 DEF ImportMoves
<1>6. CASE AttemptStep /\ ~RequestFails /\ ~CallFails /\ ~Deleted
  BY <1>6 DEF AttemptStep, Validated, Sized, Checked, LookedUp, OrganizationFound,
     SourceCreated, Generated, StartExport, PollExport, ExportSeen, LocatedArchive, Downloading,
     UploadInitialized, PartUploaded, UploadCompleted, ImportStarted, StartImport, PollImport,
     ImportSeen, Return, githubVars
<1>7. CASE StrayGoesOn \/ CancelAttempt \/ ExportMoves \/ UNCHANGED vars
  BY <1>7 DEF StrayGoesOn, CancelAttempt, ExportMoves, githubVars, vars
<1> QED
  BY <1>1, <1>2, <1>3, <1>4, <1>5, <1>6, <1>7 DEF Next

\* The attempt removes a repository from the target organisation only if the
\* request says so and it has imported nothing yet, however late a deletion
\* comes and whatever others do there (repository.go:149, :399).
THEOREM DeletionAskedFor == Spec => DeletedOnlyWhenAsked
<1>1. AttemptInv /\ changes \in Nat /\ [Next]_vars =>
        [target # "none" /\ target' = "none" /\ changes' = changes =>
           deleteIfExists /\ imports = <<>> /\ pc \in {"delete", "report", "done"}]_vars
  BY RemovalAsked
<1> QED
  BY <1>1, AttemptConsistent, ChangesCounted, PTL DEF Spec, DeletedOnlyWhenAsked

\* Success is reported, and full progress shown, only for the import that the
\* attempt itself started (monitorMigration, repository.go:612; the progress is
\* set in status.go:367).
THEOREM SuccessReported == Spec => []SuccessIsReal
<1>1. AttemptInv => SuccessIsReal
  <2>1. AttemptInv => (status.progress = 100 => status.status = "succeeded")
    BY DEF AttemptInv, UnderWay, Outcome, OnItsWay, GivenUp, Successful
  <2> QED
    BY <2>1 DEF AttemptInv, SuccessIsReal, SucceededIsReal
<1> QED
  BY <1>1, AttemptConsistent, PTL
-----------------------------------------------------------------------------
(* What is shown, from one step to the next.                               *)

\* A status under way that comes after another.
Follows(next, shown) ==
  /\ OnItsWay(shown) /\ OnItsWay(next)
  /\ shown.stage = "unknown" => next.stage = "unknown"

\* What can become of the status in one step.
StatusMoves ==
  \/ status' = status
  \/ Follows(status', status)
  \/ GivenUp(status')
  \/ /\ OnItsWay(status) /\ Successful(status')
     /\ status.stage = "unknown" => status'.stage = "unknown"

LEMMA FollowsReport ==
  ASSUME NEW shown, NEW next, Follows(next, shown), NEW message \in Reports
  PROVE  Follows(Told(next, message), shown)
  BY Tells DEF Follows

\* As Goes and Fails, with the status before.
LEMMA Moves ==
  ASSUME NEW shown, Follows(shown, status)
  PROVE  /\ \A step : Go(step, shown) \/ Await(step, shown) => StatusMoves
         /\ Fail(shown) => StatusMoves
         /\ TargetCleared(shown) => StatusMoves
<1>1. Follows(Told(shown, "organization"), status)
  BY FollowsReport DEF Reports
<1>2. GivenUp(Updated(shown, "failed", "failure", useGHOS))
  BY GivesUp DEF Follows
<1> QED
  BY <1>1, <1>2 DEF Go, Await, Fail, TargetCleared, StatusMoves

LEMMA StatusStep ==
  ASSUME AttemptInv, AttemptStep
  PROVE  StatusMoves
<1>1. pc \notin Over => /\ Follows(status, status)
                        /\ \A message \in Reports : Follows(Told(status, message), status)
  BY Tells DEF AttemptInv, UnderWay, Follows
<1>2. CASE RequestFails \/ Return
  BY <1>2, GivesUp DEF RequestFails, Others, Return, StatusMoves, AttemptInv, Outcome, Over,
     GivenUp, Successful
<1>3. CASE Validated \/ Sized
  <2>1. pc \notin Over
    BY <1>3 DEF Validated, Sized, Answered, Refused, Over
  <2>2. Follows(Told(Told(status, "repository_size"), "checking_target"), status)
    BY <1>1, <2>1, FollowsReport DEF Reports
  <2> QED
    BY <1>1, <1>3, <2>1, <2>2, Moves DEF Validated, Sized, Reports
<1>4. CASE Checked \/ LookedUp \/ Deleted
  <2>1. pc \notin Over
    BY <1>4 DEF Checked, LookedUp, Deleted, Answered, Refused, Over
  <2> QED
    BY <1>1, <1>4, <2>1, Moves DEF Checked, TargetFound, LookedUp, Deleted, Reports
<1>5. CASE OrganizationFound \/ SourceCreated \/ Generated \/ LocatedArchive
  <2>1. pc \notin Over
    BY <1>5 DEF OrganizationFound, SourceCreated, Generated, LocatedArchive, Answered, Over
  <2> QED
    BY <1>1, <1>5, <2>1, Moves DEF OrganizationFound, SourceCreated, Generated, LocatedArchive,
       Reports
<1>6. CASE PollExport \/ PollImport \/ CallFails
  <2>1. pc \notin Over
    BY <1>6 DEF PollExport, PollImport, CallFails, Fatal, Over
  <2> QED
    BY <1>1, <1>6, <2>1, Moves DEF PollExport, PollImport, CallFails
<1>7. CASE ExportSeen
  <2>1. pc \notin Over /\ export \in Reports
    BY <1>7 DEF ExportSeen, Answered, AttemptInv, ArchiveReady, Reports, Over
  <2> QED
    BY <1>1, <1>7, <2>1, Moves DEF ExportSeen
<1>8. CASE Downloading \/ UploadInitialized \/ PartUploaded \/ UploadCompleted
  <2>1. pc \notin Over
    BY <1>8 DEF Downloading, UploadInitialized, PartUploaded, UploadCompleted, Answered, Over
  <2> QED
    BY <1>1, <1>8, <2>1, Moves DEF Downloading, UploadInitialized, PartUploaded, SendPart,
       UploadCompleted, Reports
<1>9. CASE ImportStarted
  <2>1. pc \notin Over
    BY <1>9 DEF ImportStarted, Answered, Over
  <2>2. Follows(Told(Told(status, "created"), "waiting_import"), status)
    BY <1>1, <2>1, FollowsReport DEF Reports
  <2> QED
    BY <1>9, <2>2, Moves DEF ImportStarted
<1>10. CASE ImportSeen
  <2> DEFINE seen == imports[own].state
  <2>1. pc \notin Over /\ seen \in ImportStates
    BY <1>10, OwnImport DEF ImportSeen, Answered, Over
  <2>2. CASE seen = "SUCCEEDED"
    <3>1. status' = Updated(Told(status, "SUCCEEDED"), "succeeded", "completed", useGHOS)
      BY <1>10, <2>2 DEF ImportSeen, ImportFailed
    <3> QED
      BY <1>1, <2>1, <3>1, Succeeds DEF Follows, StatusMoves
  <2>3. CASE seen = "FAILED"
    <3>1. Fail(status)
      BY <1>10, <2>3 DEF ImportSeen, ImportFailed
    <3> QED
      BY <1>1, <2>1, <3>1, Moves
  <2>4. CASE seen \in {"NOT_STARTED", "QUEUED", "IN_PROGRESS"}
    <3>1. Await("await_import", Told(status, seen))
      BY <1>10, <2>4 DEF ImportSeen, ImportFailed
    <3> QED
      BY <1>1, <2>1, <2>4, <3>1, Moves DEF Reports
  <2> QED
    BY <2>1, <2>2, <2>3, <2>4 DEF ImportStates
<1> QED
  BY <1>2, <1>3, <1>4, <1>5, <1>6, <1>7, <1>8, <1>9, <1>10 DEF AttemptStep

\* What is shown of the attempt's own import is not ahead of it.
ProgressInv ==
  /\ own # 0 => pc \in {"await_import", "import_status"} \cup Over
  /\ own # 0 /\ pc \notin Over => status.progress <= Reached(imports[own].state)

LEMMA InitProgress == Init => ProgressInv
  BY DEF Init, ProgressInv

\* When the import has been created.
LEMMA CreatedShown ==
  ASSUME NEW shown, OnItsWay(shown)
  PROVE  Told(shown, "waiting_import").progress <= Reached("NOT_STARTED")
<1>1. Parsed("waiting_import") = At("migration", "waiting")
  BY DEF Parsed, Written, ExportStates, ImportStates
<1>2. /\ Told(shown, "waiting_import").progress
           = ProgressOf(Adjusted("waiting_import", shown), shown, useGHOS)
      /\ Reached("NOT_STARTED") = IF useGHOS THEN 80 ELSE 75
  BY DEF Told, Updated, Reached
<1>3. CASE shown.stage = "unknown"
  <2>1. Adjusted("waiting_import", shown).stage = "unknown"
    BY <1>1, <1>3, Orders DEF Adjusted, At
  <2> QED
    BY <1>2, <2>1, NoProgress
<1>4. CASE shown.stage = "migration"
  <2>1. Adjusted("waiting_import", shown) = At("migration", "waiting")
    BY <1>1, <1>4, Orders DEF Adjusted, At
  <2>2. StageProgress(At("migration", "waiting")) = 50
    BY DEF StageProgress, At, StateShare
  <2> QED
    BY <1>2, <2>1, <2>2, MigrationProgress DEF At
<1> QED
  BY <1>3, <1>4 DEF OnItsWay

\* A step of an attempt that monitors no import yet.
LEMMA OwnAfter ==
  ASSUME AttemptInv, ProgressInv, AttemptStep, own = 0, ~ImportStarted
  PROVE  own' = 0
  BY DEF AttemptStep, RequestFails, Others, CallFails, Unmoved, Validated, Sized, Checked,
     LookedUp, Deleted, OrganizationFound, SourceCreated, Generated, PollExport, ExportSeen,
     LocatedArchive, Downloading, UploadInitialized, PartUploaded, UploadCompleted, PollImport,
     ImportSeen, Return

\* The steps of an attempt that monitors its import.
LEMMA Monitoring ==
  ASSUME AttemptInv, ProgressInv, AttemptStep, own # 0
  PROVE  RequestFails \/ CallFails \/ PollImport \/ ImportSeen \/ Return
  BY DEF ProgressInv, AttemptStep, Validated, Sized, Checked, LookedUp, Deleted,
     OrganizationFound, SourceCreated, Generated, PollExport, ExportSeen, LocatedArchive,
     Downloading, UploadInitialized, PartUploaded, UploadCompleted, ImportStarted, Answered,
     Refused, Over

LEMMA ProgressOver == ASSUME pc' \in Over PROVE ProgressInv'
  BY DEF ProgressInv

LEMMA ProgressNumber == ASSUME AttemptInv PROVE status.progress \in 0 .. 100
  BY DEF AttemptInv, UnderWay, Outcome, OnItsWay, GivenUp, Successful

\* They never take progress back.
LEMMA ProgressKept ==
  ASSUME AttemptInv, ProgressInv, AttemptStep, own # 0
  PROVE  /\ status'.progress >= status.progress
         /\ ProgressInv'
<1>0. /\ useGHOS' = useGHOS /\ own' = own /\ own \in 0 .. Len(imports)
      /\ pc \in {"await_import", "import_status"} \cup Over
      /\ pc \notin Over => OnItsWay(status) /\ status.progress <= Reached(imports[own].state)
  BY Monitoring DEF RequestFails, Others, CallFails, PollImport, ImportSeen, Return, options,
     AttemptInv, AttemptTypes, UnderWay, ProgressInv
<1>1. CASE RequestFails
  <2>1. pc = "import_status" /\ UNCHANGED <<pc, status>>
    BY <1>0, <1>1 DEF RequestFails, Others, Tolerant, Fatal, Over
  <2>2. imports' = imports
    BY <1>1, <2>1 DEF RequestFails, Effect, githubVars
  <2>3. Reached(imports[own].state)' = Reached(imports[own].state)
    BY <1>0, <2>2 DEF Reached
  <2>4. status'.progress >= status.progress
    BY <2>1, ProgressNumber
  <2> QED
    BY <1>0, <2>1, <2>2, <2>3, <2>4 DEF ProgressInv
<1>2. CASE CallFails \/ PollImport
  <2>1. pc \notin Over
    BY <1>2 DEF CallFails, PollImport, Fatal, Over
  <2>2. CASE Fail(status)
    <3>1. pc' \in Over /\ status'.progress = status.progress
      BY <1>0, <2>1, <2>2, GivesUp DEF Fail, Over
    <3> QED
      BY <3>1, ProgressOver, ProgressNumber
  <2>3. CASE PollImport /\ Go("import_status", status)
    <3>1. pc' = "import_status" /\ UNCHANGED <<status, imports>>
      BY <2>3 DEF PollImport, Go, githubVars
    <3>2. Reached(imports[own].state)' = Reached(imports[own].state)
      BY <1>0, <3>1 DEF Reached
    <3>3. status'.progress >= status.progress
      BY <3>1, ProgressNumber
    <3> QED
      BY <1>0, <2>1, <3>1, <3>2, <3>3 DEF ProgressInv
  <2> QED
    BY <1>2, <2>2, <2>3 DEF CallFails, PollImport
<1>3. CASE ImportSeen
  <2> DEFINE seen == imports[own].state
  <2>1. pc \notin Over /\ seen \in ImportStates /\ imports' = imports
    BY <1>3, OwnImport DEF ImportSeen, Answered, Over, githubVars
  <2>2. CASE seen = "SUCCEEDED"
    <3>1. /\ pc' = "report"
          /\ status' = Updated(Told(status, "SUCCEEDED"), "succeeded", "completed", useGHOS)
      BY <1>3, <2>2 DEF ImportSeen, ImportFailed
    <3>2. Successful(status')
      BY <1>0, <2>1, <3>1, Succeeds
    <3> QED
      BY <3>1, <3>2, ProgressOver, ProgressNumber DEF Successful, Over
  <2>3. CASE seen = "FAILED"
    <3>1. Fail(status)
      BY <1>3, <2>3 DEF ImportSeen, ImportFailed
    <3>2. pc' \in Over /\ status'.progress = status.progress
      BY <1>0, <2>1, <3>1, GivesUp DEF Fail, Over
    <3> QED
      BY <3>2, ProgressOver, ProgressNumber
  <2>4. CASE seen \in {"NOT_STARTED", "QUEUED", "IN_PROGRESS"}
    <3>1. pc' = "await_import" /\ status' = Told(status, seen)
      BY <1>3, <2>4 DEF ImportSeen, ImportFailed, Await
    <3>2. status'.progress = IF status.stage = "unknown" THEN 0 ELSE Reached(seen)
      BY <1>0, <2>1, <2>4, <3>1, ImportShown
    <3>3. Reached(seen) \in 0 .. 100 /\ Reached(seen)' = Reached(seen)
      BY <1>0, <2>1 DEF Reached
    <3>4. Reached(imports[own].state)' = Reached(seen)
      BY <1>0, <2>1, <3>3
    <3>5. status'.progress <= Reached(seen) /\ status'.progress >= status.progress
      <4>1. status.progress <= Reached(seen) /\ status.progress \in 0 .. 100
        BY <1>0, <2>1, ProgressNumber
      <4>2. status.stage = "unknown" => status.progress = 0
        BY <1>0, <2>1 DEF OnItsWay
      <4> HIDE DEF seen
      <4> QED
        BY <3>2, <3>3, <4>1, <4>2
    <3> QED
      BY <1>0, <3>1, <3>4, <3>5 DEF ProgressInv
  <2> QED
    BY <2>1, <2>2, <2>3, <2>4 DEF ImportStates
<1>4. CASE Return
  <2>1. pc = "report" /\ pc' = "done"
    BY <1>4 DEF Return
  <2>2. status' = status \/ (GivenUp(status) /\ status'.progress = status.progress)
    BY <1>4, <2>1, GivesUp DEF Return, AttemptInv, Outcome, Successful, Over
  <2> QED
    BY <2>1, <2>2, ProgressOver, ProgressNumber DEF Over
<1> QED
  BY <1>1, <1>2, <1>3, <1>4, Monitoring

LEMMA ImportStartedProgress ==
  ASSUME AttemptInv, ImportStarted
  PROVE  ProgressInv'
<1>1. /\ OnItsWay(Told(status, "created")) /\ useGHOS' = useGHOS
      /\ own' = Len(imports') /\ pc' = "await_import"
      /\ status' = Told(Told(status, "created"), "waiting_import")
  BY Reporting DEF ImportStarted, Answered, Await, options, Reports, Over
<1>2. imports'[own'].state = "NOT_STARTED"
  BY <1>1, ImportAdded DEF ImportStarted
<1>3. status'.progress <= Reached("NOT_STARTED")
  BY <1>1, CreatedShown
<1>4. Reached(imports[own].state)' = Reached("NOT_STARTED")
  BY <1>1, <1>2 DEF Reached
<1> QED
  BY <1>1, <1>3, <1>4 DEF ProgressInv

LEMMA ReachedGrows ==
  /\ \A seen : Reached(seen) \in 0 .. 100
  /\ Reached("NOT_STARTED") <= Reached("QUEUED")
  /\ Reached("QUEUED") <= Reached("IN_PROGRESS")
  /\ \A seen \in {"SUCCEEDED", "FAILED"} : Reached(seen) = 100
  BY DEF Reached

\* An import that gets on is further than before.
LEMMA ImportMovesProgress ==
  ASSUME AttemptInv, ProgressInv, NEW i, ImportMoves(i)
  PROVE  ProgressInv'
<1>1. UNCHANGED <<pc, status, own, useGHOS>>
  BY DEF ImportMoves, Undisturbed, options
<1> SUFFICES ASSUME own # 0, pc \notin Over
             PROVE  status.progress <= Reached(imports[own].state)'
  BY <1>1 DEF ProgressInv
<1>2. status.progress <= Reached(imports[own].state) /\ status.progress \in 0 .. 100
  BY ProgressNumber DEF ProgressInv
<1>3. own \in 1 .. Len(imports) /\ imports \in Seq(Import)
  BY DEF AttemptInv, AttemptTypes
<1>4. CASE imports'[own].state = imports[own].state
  <2>1. Reached(imports[own].state)' = Reached(imports[own].state)
    BY <1>1, <1>4 DEF Reached
  <2> QED
    BY <1>2, <2>1
<1>5. CASE imports[own].state = "NOT_STARTED" /\ imports'[own].state = "QUEUED"
  <2>1. Reached(imports[own].state)' = Reached("QUEUED")
    BY <1>1, <1>5 DEF Reached
  <2> QED
    BY <1>2, <1>5, <2>1, ReachedGrows
<1>6. CASE imports[own].state = "QUEUED" /\ imports'[own].state = "IN_PROGRESS"
  <2>1. Reached(imports[own].state)' = Reached("IN_PROGRESS")
    BY <1>1, <1>6 DEF Reached
  <2> QED
    BY <1>2, <1>6, <2>1, ReachedGrows
<1>7. CASE imports'[own].state \in {"SUCCEEDED", "FAILED"}
  <2>1. Reached(imports[own].state)' = 100
    BY <1>1, <1>7 DEF Reached
  <2> QED
    BY <1>2, <2>1
<1> QED
  <2>1. PICK s \in {"QUEUED", "IN_PROGRESS", "FAILED", "SUCCEEDED"} :
          /\ imports' = [imports EXCEPT ![i].state = s]
          /\ s = "QUEUED" => imports[i].state = "NOT_STARTED"
          /\ s = "IN_PROGRESS" => imports[i].state = "QUEUED"
    BY Zenon DEF ImportMoves
  <2>2. i # own => imports'[own] = imports[own]
    BY <1>3, <2>1
  <2>3. i = own => imports'[own].state = s
    BY <1>3, <2>1 DEF Import
  <2> QED
    BY <1>4, <1>5, <1>6, <1>7, <2>1, <2>2, <2>3

LEMMA NextProgress == AttemptInv /\ ProgressInv /\ [Next]_vars => ProgressInv'
<1> SUFFICES ASSUME AttemptInv, ProgressInv, [Next]_vars PROVE ProgressInv'
  OBVIOUS
<1>1. CASE AttemptStep /\ own # 0
  BY <1>1, ProgressKept
<1>2. CASE AttemptStep /\ own = 0
  BY <1>2, OwnAfter, ImportStartedProgress DEF ProgressInv
<1>3. CASE StrayActs
  <2>1. pc \in Over
    BY <1>3 DEF AttemptInv, UnderWay, StrayActs, StrayRequestDone, NoStray
  <2> QED
    BY <1>3, <2>1, ProgressOver DEF StrayActs, Undisturbed
<1>4. CASE StrayGoesOn \/ CancelAttempt \/ OtherChanges \/ ExportMoves \/ UNCHANGED vars
  <2>1. UNCHANGED <<pc, status, own, useGHOS, imports>>
    BY <1>4 DEF StrayGoesOn, CancelAttempt, OtherChanges, ExportMoves, vars, Undisturbed, options,
       githubVars
  <2>2. Reached(imports[own].state)' = Reached(imports[own].state)
    BY <2>1 DEF Reached
  <2> QED
    BY <2>1, <2>2 DEF ProgressInv
<1>5. CASE \E i \in 1 .. MaxLost + 1 : ImportMoves(i)
  BY <1>5, ImportMovesProgress
<1> QED
  BY <1>1, <1>2, <1>3, <1>4, <1>5 DEF Next

LEMMA ProgressConsistent == Spec => []ProgressInv
  BY InitProgress, NextProgress, AttemptConsistent, PTL DEF Spec

\* What users see does not fall back: the stage shown never returns to an
\* earlier one but for a failure, and from the creation of the import on the
\* progress only rises (status.go:164).
THEOREM NeverFallsBack == Spec => ShownForward
<1>1. ASSUME AttemptInv, ProgressInv, [Next]_vars
      PROVE  /\ \/ StageOrder[status'.stage] >= StageOrder[status.stage]
                \/ status'.stage = "error"
             /\ own # 0 => status'.progress >= status.progress
  <2>1. CASE AttemptStep
    <3> SUFFICES StageOrder[status'.stage] >= StageOrder[status.stage] \/ status'.stage = "error"
      BY <1>1, <2>1, ProgressKept
    <3>1. \/ status.stage = "migration" /\ StageOrder[status.stage] = 5
          \/ status.stage = "error" /\ StageOrder[status.stage] = 7
          \/ status.stage = "unknown" /\ StageOrder[status.stage] = 8
      BY <1>1, Orders DEF AttemptInv, UnderWay, Outcome, OnItsWay, GivenUp, Successful
    <3>2. CASE status' = status
      BY <3>1, <3>2
    <3>3. CASE GivenUp(status')
      BY <3>3 DEF GivenUp
    <3>4. CASE /\ OnItsWay(status) /\ (OnItsWay(status') \/ Successful(status'))
               /\ status.stage = "unknown" => status'.stage = "unknown"
      <4>1. status.stage \in {"migration", "unknown"} /\ status'.stage \in {"migration", "unknown"}
        BY <3>4 DEF OnItsWay, Successful
      <4> QED
        BY <3>4, <4>1, Orders
    <3> QED
      BY <1>1, <2>1, <3>2, <3>3, <3>4, StatusStep DEF StatusMoves, Follows
  <2>2. CASE UNCHANGED status
    <3>1. StageOrder[status.stage] \in Nat
      BY <1>1, Orders DEF AttemptInv, UnderWay, Outcome, OnItsWay, GivenUp, Successful
    <3> QED
      BY <1>1, <2>2, <3>1, ProgressNumber
  <2> QED
    BY <1>1, <2>1, <2>2 DEF Next, StrayActs, StrayGoesOn, CancelAttempt, OtherChanges,
       ExportMoves, ImportMoves, Undisturbed, vars
<1> QED
  BY <1>1, AttemptConsistent, ProgressConsistent, PTL DEF Spec, ShownForward
-----------------------------------------------------------------------------
(* Types.                                                                  *)

\* How much of the archive can have been stored when a call is under way.
UploadInv ==
  /\ pc \notin {"part", "complete", "import", "await_import", "import_status"} \cup Over
       => stored = 0 /\ ~cut
  /\ pc = "part" /\ ~cut => stored < Parts

TypeInv == TypeOK /\ UploadInv

LEMMA StatusTyped ==
  ASSUME AttemptInv
  PROVE  /\ status.status \in {"in_progress", "succeeded", "failed"}
         /\ status.stage \in DOMAIN StageOrder
         /\ status.progress \in 0 .. 100
<1>1. {"migration", "error", "unknown"} \subseteq DOMAIN StageOrder
  BY DEF StageOrder
<1> QED
  BY <1>1 DEF AttemptInv, UnderWay, Outcome, OnItsWay, GivenUp, Successful

LEMMA InitTypes == Init => TypeInv
<1> SUFFICES ASSUME Init PROVE TypeInv
  OBVIOUS
<1> USE CallsAssumption, AttemptAssumption DEF Init
<1>0. /\ 0 \in 0 .. MaxRetries /\ 0 \in 0 .. MaxLost /\ 0 \in 0 .. MaxChanges
      /\ 0 \in 0 .. Parts
  OBVIOUS
<1>1. CallsTypeOK
  <2>1. call \in [tries : 0 .. MaxRetries, live : BOOLEAN]
    BY <1>0 DEF CallsInit
  <2>2. stray \in [step : Effectful \cup {"none"}, sent : BOOLEAN]
    BY InitInv DEF AttemptInv, AttemptTypes
  <2> QED
    BY <1>0, <2>1, <2>2 DEF CallsInit, CallsTypeOK
<1>2. AttemptTypeOK
  <2>1. /\ status.status \in {"in_progress", "succeeded", "failed"}
        /\ status.stage \in DOMAIN StageOrder
        /\ status.progress \in 0 .. 100
    BY InitInv, StatusTyped
  <2>2. /\ pc \in Tolerant \cup Fatal \cup Waits \cup {"report", "done"}
        /\ poll.interval \in Nat /\ imports \in Seq(Import) /\ own \in 0 .. Len(imports)
    BY InitInv DEF AttemptInv, AttemptTypes, Over
  <2>3. poll.same \in 0 .. 4 /\ poll.last \in ImportStates \cup {"none"}
    BY DEF FirstPoll
  <2> QED
    BY <1>0, <2>1, <2>2, <2>3 DEF AttemptTypeOK
<1> QED
  BY <1>1, <1>2 DEF TypeInv, TypeOK, UploadInv

\* What a step makes of the call under way.
LEMMA CallAfter ==
  ASSUME AttemptStep
  PROVE  call' \in {call, FreshCall, NoCall} \/ TryAgain
<1>1. CASE RequestFails
  BY <1>1 DEF RequestFails, Transient, AnswerLost
<1>2. CASE CallFails \/ PollExport \/ PollImport \/ ExportSeen
  BY <1>2 DEF CallFails, PollExport, PollImport, ExportSeen, Go, Await, Fail
<1>3. CASE Validated \/ Sized \/ Checked \/ LookedUp \/ Deleted
  BY <1>3 DEF Validated, Sized, Checked, TargetFound, LookedUp, Deleted, TargetCleared, Go, Fail
<1>4. CASE OrganizationFound \/ SourceCreated \/ Generated \/ LocatedArchive
  BY <1>4 DEF OrganizationFound, SourceCreated, Generated, LocatedArchive, Go, Await
<1>5. CASE Downloading \/ UploadInitialized \/ PartUploaded \/ UploadCompleted \/ ImportStarted
  BY <1>5 DEF Downloading, UploadInitialized, PartUploaded, SendPart, UploadCompleted,
     ImportStarted, Go, Await, Fail
<1>6. CASE ImportSeen
  BY <1>6 DEF ImportSeen, Await, Fail
<1>7. CASE Return
  BY <1>7 DEF Return
<1> QED
  BY <1>1, <1>2, <1>3, <1>4, <1>5, <1>6, <1>7 DEF AttemptStep

\* And of the context and the answers lost.
LEMMA LostAfter ==
  ASSUME AttemptInv, AttemptStep
  PROVE  /\ cancelled' = cancelled \/ cancelled' = TRUE
         /\ lost' = lost \/ (lost < MaxLost /\ lost' = lost + 1)
         /\ lostAt' = lostAt \/ \E step \in Effectful : lostAt' = lostAt \cup {step}
<1>1. CASE RequestFails
  <2>1. AnswerLost(pc) /\ Effect(pc) => pc \in Effectful
    BY DEF Effect, Effectful
  <2> QED
    BY <1>1, <2>1 DEF RequestFails, Transient, AnswerLost
<1>2. CASE CallFails
  <2>1. Effect(pc) => pc \in Effectful
    BY DEF Effect, Effectful
  <2>2. lostAt \cup ({pc} \cap Effectful) = lostAt \/ pc \in Effectful
    OBVIOUS
  <2>3. pc \in Effectful => lostAt \cup ({pc} \cap Effectful) = lostAt \cup {pc}
    OBVIOUS
  <2> QED
    BY <1>2, <2>1, <2>2, <2>3 DEF CallFails, Refused, Returned, ReturnedBlind, Abandoned
<1>3. CASE Sized \/ LookedUp
  <2>1. pc \notin Over
    BY <1>3 DEF Sized, LookedUp, Answered, Refused, Over
  <2>2. Returned => UNCHANGED <<cancelled, lost, lostAt>>
    BY DEF Returned
  <2>3. \A step \in {"size", "lookup"} : Abandoned(step) => UNCHANGED <<cancelled, lost, lostAt>>
    BY <2>1, LetGo DEF Abandoned
  <2> QED
    BY <1>3, <2>2, <2>3 DEF Sized, LookedUp, Answered, Refused
<1>4. CASE /\ ~RequestFails /\ ~CallFails /\ ~Sized /\ ~LookedUp
  BY <1>4 DEF AttemptStep, Validated, Checked, Deleted, OrganizationFound, SourceCreated,
     Generated, PollExport, ExportSeen, LocatedArchive, Downloading, UploadInitialized,
     PartUploaded, UploadCompleted, ImportStarted, PollImport, ImportSeen, Return, Answered,
     Refused, Returned
<1> QED
  BY <1>1, <1>2, <1>3, <1>4

LEMMA CallsTyped ==
  ASSUME AttemptInv, AttemptInv', CallsTypeOK, [Next]_vars
  PROVE  CallsTypeOK'
<1> USE CallsAssumption
<1>0. stray' \in [step : Effectful \cup {"none"}, sent : BOOLEAN]
  BY DEF AttemptInv, AttemptTypes
<1>a. lost' = lost \/ (lost < MaxLost /\ lost' = lost + 1) => lost' \in 0 .. MaxLost
  BY DEF CallsTypeOK
<1>b. cancelled' = cancelled \/ cancelled' = TRUE => cancelled' \in BOOLEAN
  BY Zenon DEF CallsTypeOK
<1>1. CASE AttemptStep
  <2>1. call' \in [tries : 0 .. MaxRetries, live : BOOLEAN]
    <3>1. FreshCall \in [tries : 0 .. MaxRetries, live : BOOLEAN]
      BY DEF FreshCall, CallsTypeOK
    <3>2. NoCall \in [tries : 0 .. MaxRetries, live : BOOLEAN]
      BY DEF NoCall
    <3>3. TryAgain => call' \in [tries : 0 .. MaxRetries, live : BOOLEAN]
      BY DEF TryAgain, Retries, CallsTypeOK
    <3> QED
      BY <1>1, <3>1, <3>2, <3>3, CallAfter DEF CallsTypeOK
  <2>2. cancelled' \in BOOLEAN /\ lost' \in 0 .. MaxLost /\ lostAt' \subseteq Effectful
    <3>1. \A step \in Effectful : lostAt' = lostAt \cup {step} => lostAt' \subseteq Effectful
      BY DEF CallsTypeOK
    <3> QED
      BY <1>1, <1>a, <1>b, <3>1, LostAfter DEF CallsTypeOK
  <2> QED
    BY <1>0, <2>1, <2>2 DEF CallsTypeOK
<1>2. CASE StrayActs \/ StrayGoesOn \/ CancelAttempt
  <2>1. /\ UNCHANGED <<call, lostAt>>
        /\ cancelled' = cancelled \/ cancelled' = TRUE
        /\ lost' = lost \/ (lost < MaxLost /\ lost' = lost + 1)
    BY <1>2 DEF StrayActs, StrayRequestDone, StrayGoesOn, StraySends, StrayRequestFails,
       CancelAttempt, Cancel
  <2>2. call' \in [tries : 0 .. MaxRetries, live : BOOLEAN] /\ lostAt' \subseteq Effectful
    BY <2>1 DEF CallsTypeOK
  <2> QED
    BY <1>0, <1>a, <1>b, <2>1, <2>2, Zenon DEF CallsTypeOK
<1>3. CASE \/ OtherChanges \/ ExportMoves \/ UNCHANGED vars
           \/ \E i \in 1 .. MaxLost + 1 : ImportMoves(i)
  <2>1. UNCHANGED callVars
    BY <1>3 DEF OtherChanges, ExportMoves, ImportMoves, vars
  <2> QED
    BY <2>1 DEF CallsTypeOK, callVars
<1> QED
  BY <1>1, <1>2, <1>3 DEF Next

\* What the steps of the attempt itself make of GitHub's export, of the poll and
\* of what the attempt knows.
LEMMA OthersAfter ==
  ASSUME AttemptStep
  PROVE  /\ UNCHANGED <<options, changes>>
         /\ export' \in {export, "pending"}
         /\ \/ poll' \in {poll, FirstPoll}
            \/ pc = "import_status" /\ poll' = Slower(imports[own].state)
         /\ blind' \in {blind, TRUE} \/ blind' = (blind \/ cancelled \/ pc = "import_status")
<1> USE DEF options, environment
<1>1. CASE ~ImportSeen
  BY <1>1 DEF AttemptStep, RequestFails, Others, CallFails, Unmoved, Validated, Sized, Checked,
     LookedUp, Deleted, OrganizationFound, SourceCreated, Generated, PollExport, ExportSeen,
     LocatedArchive, Downloading, UploadInitialized, PartUploaded, UploadCompleted,
     ImportStarted, PollImport, Return
<1>2. CASE ImportSeen
  BY <1>2 DEF ImportSeen, ImportFailed, Answered
<1> QED
  BY <1>1, <1>2

LEMMA TargetAfter ==
  ASSUME AttemptInv, AttemptStep
  PROVE  target' \in {target, "none"}
<1>1. Effect(pc) => target' \in {target, "none"}
  BY DEF Effect, DeleteTarget, StartExport, StartImport
<1> QED
  BY <1>1 DEF AttemptStep, RequestFails, Others, CallFails, Unmoved, Validated, Sized, Checked,
     LookedUp, Deleted, DeleteTarget, OrganizationFound, SourceCreated, Generated, StartExport,
     PollExport, ExportSeen, LocatedArchive, Downloading, UploadInitialized, PartUploaded,
     UploadCompleted, ImportStarted, StartImport, PollImport, ImportSeen, Return, githubVars

LEMMA PollTyped ==
  ASSUME AttemptInv, TypeInv, AttemptStep
  PROVE  poll'.same \in 0 .. 4 /\ poll'.last \in ImportStates \cup {"none"}
<1>1. poll.same \in 0 .. 4 /\ poll.last \in ImportStates \cup {"none"}
  BY DEF TypeInv, TypeOK, AttemptTypeOK
<1>2. CASE poll' = poll
  BY <1>1, <1>2
<1>3. CASE poll' = FirstPoll
  BY <1>3 DEF FirstPoll
<1>4. CASE pc = "import_status" /\ poll' = Slower(imports[own].state)
  <2>1. imports[own].state \in ImportStates
    BY <1>4, OwnImport
  <2>2. CASE imports[own].state = poll.last
    BY <1>1, <1>4, <2>2 DEF Slower
  <2>3. CASE imports[own].state # poll.last
    BY <1>4, <2>1, <2>3 DEF Slower
  <2> QED
    BY <2>2, <2>3
<1> QED
  BY <1>2, <1>3, <1>4, OthersAfter

LEMMA UploadTyped ==
  ASSUME AttemptInv, TypeInv, AttemptStep
  PROVE  /\ stored' \in 0 .. Parts /\ cut' \in BOOLEAN /\ completed' \in BOOLEAN
         /\ UploadInv'
<1> USE AttemptAssumption
<1>0. /\ stored \in 0 .. Parts /\ cut \in BOOLEAN /\ completed \in BOOLEAN
      /\ UploadInv
  BY DEF TypeInv, TypeOK, AttemptTypeOK
<1>1. CASE RequestFails \/ Return
  BY <1>0, <1>1 DEF RequestFails, Others, Return, uploadVars, UploadInv, Over
<1>2. CASE CallFails \/ PollExport \/ PollImport \/ ExportSeen
  BY <1>0, <1>2 DEF CallFails, PollExport, PollImport, ExportSeen, Unmoved, Answered, Go, Await,
     Fail, uploadVars, UploadInv, Over
<1>3. CASE Validated \/ Sized \/ Checked \/ LookedUp \/ Deleted
  BY <1>0, <1>3 DEF Validated, Sized, Checked, TargetFound, LookedUp, Deleted, TargetCleared,
     Unmoved, Answered, Refused, Go, Fail, uploadVars, UploadInv, Over
<1>4. CASE OrganizationFound \/ SourceCreated \/ Generated \/ LocatedArchive
  BY <1>0, <1>4 DEF OrganizationFound, SourceCreated, Generated, LocatedArchive, Unmoved, Answered,
     Go, Await, uploadVars, UploadInv, Over
<1>5. CASE Downloading \/ UploadCompleted \/ ImportStarted \/ ImportSeen
  <2>1. /\ UNCHANGED <<stored, cut>> /\ completed' \in {completed, TRUE}
        /\ Downloading => pc = "download" /\ pc' = "init"
        /\ ~Downloading => pc' \in {"import", "await_import"} \cup Over
    BY <1>5 DEF Downloading, UploadCompleted, ImportStarted, ImportSeen, ImportFailed, Unmoved,
       Answered, Go, Await, Fail, uploadVars, Over
  <2> QED
    BY <1>0, <2>1 DEF UploadInv, Over
<1>6. CASE UploadInitialized
  <2>1. /\ pc = "init" /\ UNCHANGED <<stored, completed>>
        /\ cut' = cut \/ cut' = TRUE
        /\ pc' \in {"part", "complete", "report"}
    BY <1>6 DEF UploadInitialized, SendPart, Answered, Go, Fail
  <2>2. stored = 0
    BY <1>0, <2>1 DEF UploadInv, Over
  <2>3. cut' \in BOOLEAN
    BY <1>0, <2>1, Zenon
  <2> QED
    BY <1>0, <2>1, <2>2, <2>3 DEF UploadInv, Over
<1>7. CASE PartUploaded
  <2>1. /\ pc = "part" /\ stored' = IF cut THEN stored ELSE stored + 1
        /\ completed' = completed
        /\ cut' = cut \/ cut' = TRUE
        /\ pc' \in {"part", "complete", "report"}
        /\ pc' = "part" => cut' \/ stored' # Parts
    BY <1>7 DEF PartUploaded, SendPart, LastPart, Answered, Go, Fail
  <2>2. ~cut => stored < Parts
    BY <1>0, <2>1 DEF UploadInv
  <2>3. stored' \in 0 .. Parts
    BY <1>0, <2>1, <2>2
  <2>4. cut' \in BOOLEAN
    BY <1>0, <2>1, Zenon
  <2> QED
    BY <1>0, <2>1, <2>3, <2>4 DEF UploadInv, Over
<1> QED
  BY <1>1, <1>2, <1>3, <1>4, <1>5, <1>6, <1>7 DEF AttemptStep

LEMMA NextTypes ==
  ASSUME AttemptInv, AttemptInv', TypeInv, [Next]_vars
  PROVE  TypeInv'
<1>1. CallsTypeOK'
  BY CallsTyped DEF TypeInv, TypeOK
<1>2. /\ status'.status \in {"in_progress", "succeeded", "failed"}
      /\ status'.stage \in DOMAIN StageOrder
      /\ status'.progress \in 0 .. 100
  <2>1. {"migration", "error", "unknown"} \subseteq DOMAIN StageOrder
    BY DEF StageOrder
  <2> QED
    BY <2>1 DEF AttemptInv, UnderWay, Outcome, OnItsWay, GivenUp, Successful
<1>3. /\ pc' \in Tolerant \cup Fatal \cup Waits \cup {"report", "done"}
      /\ round' \in {1, 2} /\ poll'.interval \in Nat /\ exports' \in Nat
      /\ imports' \in Seq(Import) /\ own' \in 0 .. Len(imports') /\ late' \in Nat
  BY DEF AttemptInv, AttemptTypes, Over
<1>4. CASE AttemptStep
  <2>1. /\ useGHOS' \in BOOLEAN /\ deleteIfExists' \in BOOLEAN
        /\ changes' \in 0 .. MaxChanges
        /\ export' \in ExportStates \cup {"none"}
        /\ target' \in {"none", "other", "migrated"}
    BY <1>4, OthersAfter, TargetAfter DEF TypeInv, TypeOK, AttemptTypeOK, options, ExportStates
  <2>2. blind' \in BOOLEAN
    <3>1. blind \in BOOLEAN
      BY DEF TypeInv, TypeOK, AttemptTypeOK
    <3> QED
      BY <1>4, <3>1, OthersAfter
  <2> QED
    BY <1>1, <1>2, <1>3, <1>4, <2>1, <2>2, PollTyped, UploadTyped
       DEF TypeInv, TypeOK, AttemptTypeOK
<1>5. CASE /\ UNCHANGED <<options, pc, poll, uploadVars, blind>>
           /\ changes' \in 0 .. MaxChanges
           /\ export' \in ExportStates \cup {"none"}
           /\ target' \in {"none", "other", "migrated"}
  BY <1>1, <1>2, <1>3, <1>5 DEF TypeInv, TypeOK, AttemptTypeOK, UploadInv, options, uploadVars
<1>6. CASE ~AttemptStep
  <2>1. /\ UNCHANGED <<options, pc, poll, uploadVars, blind>>
    BY <1>6 DEF Next, StrayActs, StrayGoesOn, CancelAttempt, OtherChanges, ExportMoves,
       ImportMoves, Undisturbed, vars
  <2>2. /\ changes' = changes \/ (changes < MaxChanges /\ changes' = changes + 1)
        /\ export' \in {export, "exporting", "exported", "failed"}
        /\ target' \in {target, "none", "other", "migrated"}
    <3>1. CASE StrayActs \/ StrayGoesOn \/ CancelAttempt
      BY <3>1 DEF StrayActs, Effect, DeleteTarget, StartExport, StartImport, StrayGoesOn,
         CancelAttempt, githubVars, environment
    <3>2. CASE OtherChanges \/ ExportMoves \/ UNCHANGED vars
      BY <3>2 DEF OtherChanges, ExportMoves, githubVars, environment, vars
    <3>3. CASE \E i \in 1 .. MaxLost + 1 : ImportMoves(i)
      BY <3>3 DEF ImportMoves, environment
    <3> QED
      BY <1>6, <3>1, <3>2, <3>3 DEF Next
  <2>3. changes' \in 0 .. MaxChanges
    BY <2>2, AttemptAssumption DEF TypeInv, TypeOK, AttemptTypeOK
  <2>4. /\ export' \in ExportStates \cup {"none"}
        /\ target' \in {"none", "other", "migrated"}
    BY <2>2 DEF TypeInv, TypeOK, AttemptTypeOK, ExportStates
  <2> QED
    BY <1>5, <2>1, <2>3, <2>4
<1> QED
  BY <1>4, <1>6

\* Every variable keeps its type, and no more of the archive is stored than
\* there is (UploadArchiveToGHOS, api_archive.go:314).
THEOREM TypesCorrect == Spec => []TypeOK
<1>1. TypeInv => TypeOK
  BY DEF TypeInv
<1>2. AttemptInv /\ AttemptInv' /\ TypeInv /\ [Next]_vars => TypeInv'
  BY NextTypes
<1> QED
  BY <1>1, <1>2, InitTypes, AttemptConsistent, PTL DEF Spec
=============================================================================
