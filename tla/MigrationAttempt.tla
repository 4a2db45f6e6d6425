-------------------------- MODULE MigrationAttempt --------------------------
(***************************************************************************)
(* One attempt to migrate one repository: performMigration (internal/      *)
(* migrator/migrator.go) with migrateRepository and what it calls          *)
(* (repository.go), over the GitHub client (internal/github) and the       *)
(* status that users see (StatusProgress).  Both modes run it; only in     *)
(* direct mode is its context cancelled from outside.                      *)
(*                                                                         *)
(* Somebody else may create or remove the target repository meanwhile, and *)
(* GitHub exports and imports in its own time: those actions are external. *)
(*                                                                         *)
(* pc names the call to GitHub that is under way, or the wait between two  *)
(* polls.  The preparation and the start of the import make four calls     *)
(* both, told apart by round.                                              *)
(***************************************************************************)
EXTENDS StatusProgress, GitHubCalls

CONSTANTS
  Parts,          \* chunks of the archive in a GHOS upload
  MaxChanges      \* bound: times somebody else creates or removes the target

ASSUME AttemptAssumption == Parts \in Nat \ {0} /\ MaxChanges \in Nat

\* Calls that do not end the attempt when they fail.
Tolerant == {"size", "check", "lookup"}

\* Those that do.
Fatal == {"validate", "delete", "organization", "source", "generate", "export_status",
          "url", "download", "init", "part", "complete", "import", "import_status"}

Waits == {"await_export", "await_import"}

\* Calls whose last try may be answered in time: the one without a breaker, and
\* the direct HTTP requests, whose waits a Retry-After of the answer shortens.
Unhurried == {"check", "download", "init", "part", "complete"}

\* Microseconds; the code counts in nanoseconds.
Second == 1000000
FirstInterval == 15 * Second
LongInterval == 120 * Second

VARIABLES
  useGHOS, deleteIfExists,   \* the options of the request
  pc, round,
  status,        \* the migration's entry in m.migrations
  poll,          \* pollInterval, consecutiveNoChanges (to 4), lastState
  target,        \* the repository in the target organisation: whose it is
  changes,       \* times somebody else created or removed it
  exports,       \* exports started at the source (external)
  export,        \* the state of the one the attempt waits for (external)
  stored, cut, completed,  \* the upload: whole parts stored, whether the download
                             \* broke off, whether it was completed
  imports,       \* imports started at the target (external)
  own,           \* the one the attempt monitors, 0 for none
  blind,         \* it gave up without knowing what became of it (history)
  late           \* effects of strays after the attempt ended (history)

options == <<useGHOS, deleteIfExists>>
uploadVars == <<stored, cut, completed>>
githubVars == <<target, exports, imports>>
environment == <<changes, late>>
vars == <<callVars, options, pc, round, status, poll, githubVars, export, uploadVars,
          own, blind, environment>>

Import == [state : ImportStates, whole : BOOLEAN]

AttemptTypeOK ==
  /\ useGHOS \in BOOLEAN /\ deleteIfExists \in BOOLEAN
  /\ pc \in Tolerant \cup Fatal \cup Waits \cup {"report", "done"}
  /\ round \in {1, 2}
  /\ status.status \in {"in_progress", "succeeded", "failed"}
  /\ status.stage \in DOMAIN StageOrder
  /\ status.progress \in 0 .. 100
  /\ poll.interval \in Nat
  /\ poll.same \in 0 .. 4
  /\ poll.last \in ImportStates \cup {"none"}
  /\ target \in {"none", "other", "migrated"}
  /\ changes \in 0 .. MaxChanges
  /\ exports \in Nat
  /\ export \in ExportStates \cup {"none"}
  /\ stored \in 0 .. Parts
  /\ cut \in BOOLEAN /\ completed \in BOOLEAN
  /\ imports \in Seq(Import)
  /\ own \in 0 .. Len(imports)
  /\ blind \in BOOLEAN
  /\ late \in Nat

TypeOK == CallsTypeOK /\ AttemptTypeOK

\* What is shown after a message that leaves the migration in progress.
Told(existing, message) == Updated(existing, "in_progress", message, useGHOS)

FirstPoll == [interval |-> FirstInterval, same |-> 0, last |-> "none"]

Init ==
  /\ CallsInit
  /\ useGHOS \in BOOLEAN
  /\ deleteIfExists \in BOOLEAN
  /\ pc = "validate"
  /\ round = 1
  /\ status = Told(Told(Told(Told(InitialStatus,
                "initiated"), "initiated"), "starting_process"), "validating_source")
  /\ poll = FirstPoll
  /\ target \in {"none", "other"}
  /\ changes = 0
  /\ exports = 0
  /\ export = "none"
  /\ stored = 0
  /\ cut = FALSE
  /\ completed = FALSE
  /\ imports = <<>>
  /\ own = 0
  /\ blind = FALSE
  /\ late = 0
-----------------------------------------------------------------------------
(* Going on.                                                               *)

\* The next call is made.
Go(step, shown) ==
  /\ pc' = step
  /\ call' = FreshCall
  /\ status' = shown

\* The attempt waits before it polls.
Await(step, shown) ==
  /\ pc' = step
  /\ call' = NoCall
  /\ status' = shown

\* The attempt returns with the failure it wrote.
Fail(shown) ==
  /\ pc' = "report"
  /\ call' = NoCall
  /\ status' = Updated(shown, "failed", "failure", useGHOS)

\* A call is answered; abandoned calls and those of a context that is done
\* are not.
Answered(step) ==
  /\ pc = step
  /\ ~cancelled
  /\ step \in Unhurried \/ InTime
  /\ Returned

\* A call returns an error and nothing was done.
Refused(step) ==
  /\ pc = step
  /\ cancelled \/ step \in Unhurried \/ InTime
  /\ Returned

\* What a request that takes effect does at GitHub.
DeleteTarget == target # "none" /\ target' = "none" /\ UNCHANGED <<exports, imports>>

StartExport == exports' = exports + 1 /\ UNCHANGED <<target, imports>>

\* Whether the archive handed to the import is all of the export.
ArchiveWhole == IF useGHOS THEN completed /\ stored = Parts ELSE export = "exported"

StartImport ==
  /\ imports' = Append(imports, [state |-> "NOT_STARTED", whole |-> ArchiveWhole])
  /\ UNCHANGED <<target, exports>>

Effect(step) ==
  \/ step = "delete" /\ DeleteTarget
  \/ step = "generate" /\ StartExport
  \/ step = "import" /\ StartImport
-----------------------------------------------------------------------------
(* Requests that do not end their call, and calls that fail.               *)

Others == <<options, pc, round, status, poll, export, uploadVars, own, blind, environment>>

RequestFails ==
  /\ pc \in Tolerant \cup Fatal
  /\ pc \in Unhurried \/ InTime
  /\ \/ Transient /\ UNCHANGED githubVars
     \/ AnswerLost(pc) /\ Effect(pc)
  /\ UNCHANGED Others

\* Every call but those of Tolerant writes the failure and ends the attempt.
CallFails ==
  /\ pc \in Fatal
  /\ \/ Refused(pc) /\ UNCHANGED githubVars
     \/ ReturnedBlind(pc) /\ Effect(pc)
     \/ Abandoned(pc) /\ UNCHANGED githubVars
  /\ Fail(status)
  /\ blind' = (blind \/ cancelled \/ pc = "import_status")
  /\ UNCHANGED <<options, round, poll, export, uploadVars, own, environment>>
-----------------------------------------------------------------------------
(* prepareForMigration, and the first half of startMigration.              *)

Unmoved == UNCHANGED <<options, poll, export, uploadVars, own, blind, environment>>

Validated ==
  /\ Answered("validate")
  /\ Go("size", Told(status, "estimating_size"))
  /\ UNCHANGED <<round, githubVars>> /\ Unmoved

\* The size is not needed: its failure is logged.
Sized ==
  /\ \/ Answered("size") /\ Go("check", Told(Told(status, "repository_size"), "checking_target"))
     \/ Refused("size") /\ Go("check", Told(status, "checking_target"))
     \/ pc = "size" /\ Abandoned("size") /\ Go("check", Told(status, "checking_target"))
  /\ UNCHANGED <<round, githubVars>> /\ Unmoved

\* The organisation's ID is asked for once the target repository is out of
\* the way; only the preparation says so.
TargetCleared(shown) ==
  Go("organization", IF round = 1 THEN Told(shown, "organization") ELSE shown)

\* Faulty variant: the second check deletes whatever the request says.
TargetFoundRacing ==
  \/ /\ call.tries > 0 \/ ~(deleteIfExists \/ round = 2)
     /\ Fail(status)
  \/ /\ call.tries = 0 /\ (deleteIfExists \/ round = 2)
     /\ Go("lookup", Told(status, IF round = 1 THEN "target_exists" ELSE "target_raced"))

\* The error of an earlier try sticks, so that a repository found on a retry
\* is an error.
TargetFound ==
  \/ /\ call.tries > 0 \/ ~deleteIfExists
     /\ Fail(status)
  \/ /\ call.tries = 0 /\ deleteIfExists
     /\ Go("lookup", Told(status, IF round = 1 THEN "target_exists" ELSE "target_raced"))

\* CheckCloudRepositoryExists answers "no" when it cannot tell.
Checked ==
  /\ \/ Answered("check") /\ target # "none" /\ TargetFound
     \/ Answered("check") /\ target = "none" /\ TargetCleared(status)
     \/ Refused("check") /\ TargetCleared(status)
  /\ UNCHANGED <<round, githubVars>> /\ Unmoved

\* DeleteCloudRepositoryIfExists looks again, and does not delete when it
\* cannot tell.  An abandoned look may have left its answer all the same.
LookedUp ==
  /\ \/ Answered("lookup") /\ target # "none" /\ Go("delete", status)
     \/ Answered("lookup") /\ target = "none" /\ TargetCleared(status)
     \/ Refused("lookup") /\ TargetCleared(status)
     \/ pc = "lookup" /\ Abandoned("lookup") /\ (TargetCleared(status) \/ Fail(status))
  /\ UNCHANGED <<round, githubVars>> /\ Unmoved

Deleted ==
  /\ Answered("delete")
  /\ DeleteTarget
  /\ TargetCleared(Told(status, "target_deleted"))
  /\ UNCHANGED round /\ Unmoved

OrganizationFound ==
  /\ Answered("organization")
  /\ Go("source", IF round = 1 THEN Told(status, "creating_source") ELSE status)
  /\ UNCHANGED <<round, githubVars>> /\ Unmoved

\* CreateMigrationSource: a second source is created in the second round.
SourceCreated ==
  /\ Answered("source")
  /\ IF round = 1 THEN Go("generate", Told(status, "generating"))
     ELSE IF useGHOS THEN Go("download", Told(status, "uploading"))
     ELSE Go("import", Told(status, "starting_import"))
  /\ UNCHANGED <<round, githubVars>> /\ Unmoved
-----------------------------------------------------------------------------
(* processArchive.                                                         *)

Generated ==
  /\ Answered("generate")
  /\ StartExport
  /\ export' = "pending"
  /\ Await("await_export", Told(status, "waiting_export"))
  /\ UNCHANGED <<options, round, poll, uploadVars, own, blind, environment>>

PollExport ==
  /\ pc = "await_export"
  /\ \/ Go("export_status", status) /\ UNCHANGED blind
     \/ cancelled /\ Fail(status) /\ blind' = TRUE
  /\ UNCHANGED <<stray, cancelled, lost, lostAt, options, round, poll, githubVars, export,
                 uploadVars, own, environment>>

ExportSeen ==
  /\ Answered("export_status")
  /\ CASE export = "exported" -> Go("url", Told(status, export))
       [] export = "failed" -> Fail(Told(status, export))
       [] OTHER -> Await("await_export", Told(status, export))
  /\ UNCHANGED <<round, githubVars>> /\ Unmoved

\* Faulty variant: the second round of checks is taken for the first.
LocatedArchiveRound1 ==
  /\ Answered("url")
  /\ Go("check", status)
  /\ round' = 1
  /\ UNCHANGED githubVars /\ Unmoved

\* startMigration begins: the target is checked again.
LocatedArchive ==
  /\ Answered("url")
  /\ Go("check", status)
  /\ round' = 2
  /\ UNCHANGED githubVars /\ Unmoved
-----------------------------------------------------------------------------
(* UploadArchiveToGHOS.                                                    *)

\* A chunk is read from the download and sent.  io.ReadFull reports a download
\* that broke off as the end of the data: the upload is then completed, after
\* what had come of the chunk.
SendPart ==
  \/ Go("part", status) /\ UNCHANGED cut
  \/ (Go("part", status) \/ Go("complete", status)) /\ cut' = TRUE
  \/ Fail(status) /\ UNCHANGED cut    \* any other read error

\* Faulty variant: the last chunk is never sent.
LastPartEarly(parts) == parts >= Parts - 1

\* Faulty variant: one chunk more than there are.
LastPartLate(parts) == parts > Parts

\* numParts chunks have been sent.
LastPart(parts) == parts = Parts

Downloading ==
  /\ Answered("download")
  /\ Go("init", status)
  /\ UNCHANGED <<round, githubVars>> /\ Unmoved

UploadInitialized ==
  /\ Answered("init")
  /\ SendPart
  /\ UNCHANGED <<options, round, poll, githubVars, export, stored, completed, own, blind,
                 environment>>

PartUploaded ==
  /\ Answered("part")
  /\ stored' = IF cut THEN stored ELSE stored + 1
  /\ \/ (cut \/ LastPart(stored')) /\ Go("complete", status) /\ UNCHANGED cut
     \/ ~(cut \/ LastPart(stored')) /\ SendPart
  /\ UNCHANGED <<options, round, poll, githubVars, export, completed, own, blind, environment>>

UploadCompleted ==
  /\ Answered("complete")
  /\ completed' = TRUE
  /\ Go("import", Told(status, "starting_import"))
  /\ UNCHANGED <<options, round, poll, githubVars, export, stored, cut, own, blind, environment>>
-----------------------------------------------------------------------------
(* The import and monitorMigration.                                        *)

ImportStarted ==
  /\ Answered("import")
  /\ StartImport
  /\ own' = Len(imports')
  /\ poll' = FirstPoll
  /\ Await("await_import", Told(Told(status, "created"), "waiting_import"))
  /\ UNCHANGED <<options, round, export, uploadVars, blind, environment>>

PollImport ==
  /\ pc = "await_import"
  /\ \/ Go("import_status", status) /\ UNCHANGED blind
     \/ cancelled /\ Fail(status) /\ blind' = TRUE
  /\ UNCHANGED <<stray, cancelled, lost, lostAt, options, round, poll, githubVars, export,
                 uploadVars, own, environment>>

\* Adaptive polling: from the fourth poll without a change on, a quarter more
\* each time, until the interval has reached two minutes.
Slower(seen) ==
  IF seen = poll.last
  THEN [poll EXCEPT !.same = IF @ = 4 THEN 4 ELSE @ + 1,
                    !.interval = IF poll.same >= 3 /\ @ < LongInterval
                                 THEN (@ * 5) \div 4 ELSE @]
  ELSE [interval |-> FirstInterval, same |-> 0, last |-> seen]

\* Faulty variant: a state the code does not know is taken for a failure.
ImportFailedUnknown(seen) == seen \in {"FAILED", "NOT_STARTED"}

\* Faulty variant: a failed import is polled on.
ImportFailedNever(seen) == FALSE

\* GetMigrationStatus returns an error for it.
ImportFailed(seen) == seen = "FAILED"

\* A state that the code does not know leaves the interval as it is.
ImportSeen ==
  /\ Answered("import_status")
  /\ LET seen == imports[own].state IN
     CASE seen = "SUCCEEDED" ->
            /\ pc' = "report"
            /\ call' = NoCall
            /\ status' = Updated(Told(status, seen),
                                 "succeeded", "completed", useGHOS)
            /\ UNCHANGED poll
       [] ImportFailed(seen) -> Fail(status) /\ UNCHANGED poll
       [] seen = "NOT_STARTED" -> Await("await_import", Told(status, seen)) /\ UNCHANGED poll
       [] OTHER -> Await("await_import", Told(status, seen)) /\ poll' = Slower(seen)
  /\ UNCHANGED <<options, round, githubVars, export, uploadVars, own, blind, environment>>

\* performMigration writes a failure again and cancels the context.
Return ==
  /\ pc = "report"
  /\ pc' = "done"
  /\ cancelled' = TRUE
  /\ status' = IF status.status = "failed"
               THEN Updated(status, "failed", "failure", useGHOS) ELSE status
  /\ UNCHANGED <<call, stray, lost, lostAt, options, round, poll, githubVars, export,
                 uploadVars, own, blind, environment>>
-----------------------------------------------------------------------------
(* What goes on outside the attempt.                                       *)

Undisturbed == UNCHANGED <<options, pc, round, status, poll, uploadVars, own, blind>>

\* A request of an abandoned call takes effect.
StrayActs ==
  /\ StrayRequestDone
  /\ Effect(stray.step)
  /\ late' = IF pc = "done" THEN late + 1 ELSE late
  /\ UNCHANGED <<export, changes>> /\ Undisturbed

StrayGoesOn ==
  /\ StraySends \/ StrayRequestFails
  /\ UNCHANGED <<githubVars, export, environment>> /\ Undisturbed

CancelAttempt ==
  /\ pc # "done"
  /\ Cancel
  /\ UNCHANGED <<githubVars, export, environment>> /\ Undisturbed

\* External: somebody else creates the target repository, or removes theirs.
OtherChanges ==
  /\ changes < MaxChanges
  /\ \/ target = "none" /\ target' = "other"
     \/ target = "other" /\ target' = "none"
  /\ changes' = changes + 1
  /\ UNCHANGED <<callVars, exports, imports, export, late>> /\ Undisturbed

\* External: the export gets on.
ExportMoves ==
  /\ \/ export = "pending" /\ export' = "exporting"
     \/ export = "exporting" /\ export' \in {"exported", "failed"}
  /\ UNCHANGED <<callVars, githubVars, environment>> /\ Undisturbed

\* External: an import gets on.  It creates the repository when it succeeds.
ImportMoves(i) ==
  /\ i \in DOMAIN imports
  /\ \/ /\ imports[i].state = "NOT_STARTED"
        /\ imports' = [imports EXCEPT ![i].state = "QUEUED"] /\ UNCHANGED target
     \/ /\ imports[i].state = "QUEUED"
        /\ imports' = [imports EXCEPT ![i].state = "IN_PROGRESS"] /\ UNCHANGED target
     \/ /\ imports[i].state = "IN_PROGRESS"
        /\ imports' = [imports EXCEPT ![i].state = "FAILED"] /\ UNCHANGED target
     \/ /\ imports[i].state = "IN_PROGRESS"
        /\ target = "none"
        /\ imports' = [imports EXCEPT ![i].state = "SUCCEEDED"] /\ target' = "migrated"
  /\ UNCHANGED <<callVars, exports, export, environment>> /\ Undisturbed
-----------------------------------------------------------------------------
AttemptStep ==
  \/ RequestFails \/ CallFails
  \/ Validated \/ Sized \/ Checked \/ LookedUp \/ Deleted \/ OrganizationFound
  \/ SourceCreated \/ Generated \/ PollExport \/ ExportSeen \/ LocatedArchive
  \/ Downloading \/ UploadInitialized \/ PartUploaded \/ UploadCompleted
  \/ ImportStarted \/ PollImport \/ ImportSeen \/ Return

Next ==
  \/ AttemptStep
  \/ StrayActs \/ StrayGoesOn
  \/ CancelAttempt
  \/ OtherChanges
  \/ ExportMoves
  \/ \E i \in 1 .. MaxLost + 1 : ImportMoves(i)

Spec == Init /\ [][Next]_vars

\* The attempt's goroutine runs and its calls end, and GitHub settles what it
\* was asked for.
FairSpec ==
  /\ Spec
  /\ WF_vars(AttemptStep)
  /\ WF_vars(ExportMoves)
  /\ \A i \in 1 .. MaxLost + 1 : WF_vars(ImportMoves(i))
-----------------------------------------------------------------------------
(* Properties.                                                             *)

Ended == pc = "done"

\* What users see does not fall back: the stage shown never returns to an
\* earlier one, except that a failure shows as such from anywhere, and from
\* the creation of the import on the progress only rises.  Messages of every
\* step go through adjustStageAndStateForContext (status.go:164) and are
\* written twice at the ends.
ShownForward ==
  [][/\ \/ StageOrder[status'.stage] >= StageOrder[status.stage]
        \/ status'.stage = "error"
     /\ own # 0 => status'.progress >= status.progress]_vars

\* The import that the attempt started has succeeded, from the whole archive.
ImportIsReal ==
  /\ own # 0
  /\ imports[own].state = "SUCCEEDED"
  /\ imports[own].whole \/ cut
  /\ target = "migrated"

\* The half of the next property that is about the overall status.
SucceededIsReal == status.status = "succeeded" => ImportIsReal

\* Success is reported, and full progress shown, only when the import that the
\* attempt itself started has succeeded, from all of the archive: none that an
\* earlier try of the same call started, and nobody else's repository, will do
\* (repository.go:612).  The exception is a download that broke off unnoticed
\* (api_archive.go:310).
SuccessIsReal ==
  /\ SucceededIsReal
  /\ status.progress = 100 => ImportIsReal

\* Failure is reported only when nothing of the attempt can still succeed: no
\* import of it has, or may yet.  The exceptions are an import whose start was
\* not answered, a context that was cancelled and a poll that failed, after
\* which the code does not look again (repository.go:601).
FailureIsFinal ==
  status.status = "failed" =>
    \/ blind
    \/ "import" \in lostAt
    \/ \A i \in DOMAIN imports : imports[i].state = "FAILED"

\* The attempt removes a repository from the target organisation only if the
\* request says so and it has imported nothing yet, although the target is
\* looked up three times and may change in between, and a deletion may be
\* repeated or come late (repository.go:149, :399).
DeletedOnlyWhenAsked ==
  [][target # "none" /\ target' = "none" /\ changes' = changes =>
       deleteIfExists /\ imports = <<>> /\ pc \in {"delete", "report", "done"}]_vars

\* Once the attempt has ended, at most one more request of it takes effect, the
\* one that was out: the loop of an abandoned call ends with the context
\* (retry.go:251).
AtMostOneAfterEnd == late <= 1

\* A second export or import of one attempt is the work of a call whose answer
\* was lost, or that was abandoned: neither the polls nor the second round of
\* checks start one (retry.go:199).
StartedOnce ==
  /\ Len(imports) > 1 => "import" \in lostAt
  /\ exports > 1 => "generate" \in lostAt

\* Every attempt ends, whatever fails, is lost or is cancelled, if GitHub
\* settles the export and the import (repository.go:278, :580).
AttemptEnds == <>Ended
=============================================================================
