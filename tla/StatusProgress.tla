--------------------------- MODULE StatusProgress ---------------------------
(***************************************************************************)
(* internal/migrator/status.go and progress.go: how the message of a       *)
(* status update becomes the stage, state and progress that users see.     *)
(*                                                                         *)
(* The code matches substrings of the message; here a message is the name  *)
(* of the text one step of performMigration writes, or of a status that    *)
(* GitHub answered, and Parsed says which branch its text takes.  The      *)
(* texts of archive jobs and of the enqueuing requests are left out: a     *)
(* migration's own update is always one of these.                          *)
(***************************************************************************)
EXTENDS Integers, Sequences

\* The stages by their order; "init", the first, is 0.
StageOrder ==
  [init |-> 0, validation |-> 1, setup |-> 2, archive |-> 3, storage |-> 4,
   migration |-> 5, queue |-> 6, error |-> 7, unknown |-> 8]

ExportStates == {"pending", "exporting", "exported", "failed"}
ImportStates == {"NOT_STARTED", "QUEUED", "IN_PROGRESS", "SUCCEEDED", "FAILED"}

At(stage, state) == [stage |-> stage, state |-> state]

\* The texts that the steps write themselves.
Written ==
  [initiated          |-> At("migration", "starting"),
   starting_process   |-> At("init", "starting"),
   validating_source  |-> At("validation", "checking_source"),
   estimating_size    |-> At("validation", "estimating_size"),
   repository_size    |-> At("validation", "size_estimated"),
   checking_target    |-> At("validation", "checking_target"),
   target_exists      |-> At("validation", "target_exists"),
   target_raced       |-> At("unknown", "unknown"),    \* "(race condition detected)"
   target_deleted     |-> At("validation", "target_cleaned"),
   organization       |-> At("validation", "checking_target"),
   creating_source    |-> At("setup", "creating_source"),
   generating         |-> At("archive", "generating"),
   waiting_export     |-> At("archive", "waiting"),
   uploading          |-> At("storage", "uploading"),
   starting_import    |-> At("migration", "starting"),
   created            |-> At("migration", "created"),
   waiting_import     |-> At("migration", "waiting"),
   completed          |-> At("migration", "completed"),
   failure            |-> At("error", "failed")]

\* The two messages that quote a status are parsed to that status.
Parsed(message) ==
  IF message \in ExportStates THEN At("archive", message)
  ELSE IF message \in ImportStates THEN At("migration", message)
  ELSE Written[message]

\* The validation messages that adjustStageAndStateForContext knows by text.
PreMigrationChecks == {"checking_target", "target_exists", "target_deleted"}
-----------------------------------------------------------------------------
\* Faulty variant: a message of an earlier stage takes the migration back.
AdjustedNever(message, existing) == Parsed(message)

\* The stage and state to show for a message, given what is shown.  The rules
\* for texts that only archive jobs and enqueuing requests write are left out.
Adjusted(message, existing) ==
  LET raw == Parsed(message) IN
  CASE existing.stage = "migration" /\ raw.stage = "validation"
         -> At("migration", IF message \in PreMigrationChecks
                            THEN "pre_migration_validation" ELSE "validating")
    [] existing.stage = "migration" /\ raw.stage = "storage"
         -> At("migration", "uploading_to_ghos")
    [] OTHER
         -> IF StageOrder[raw.stage] < StageOrder[existing.stage] /\ raw.stage # "error"
            THEN At(existing.stage, raw.state)
            ELSE raw
-----------------------------------------------------------------------------
(* Progress in percent.                                                    *)

StageWeights(useGHOS) ==
  IF useGHOS
  THEN [validation |-> 10, setup |-> 10, archive |-> 25, storage |-> 15, migration |-> 40]
  ELSE [validation |-> 10, setup |-> 10, archive |-> 30, storage |-> 0, migration |-> 50]

\* The share of its stage that a state stands for, where it has one of its own.
StateShare ==
  [validation |-> [checking_source |-> 25, estimating_size |-> 50, size_estimated |-> 60,
                   checking_target |-> 75, target_exists |-> 85, target_cleaned |-> 95],
   setup |-> [creating_source |-> 50],
   archive |-> [preparing |-> 5, generating |-> 10, waiting |-> 30, exporting |-> 50,
                exported |-> 80, retrieving_url |-> 90, ready |-> 100],
   storage |-> [uploading |-> 50, completed |-> 100],
   migration |-> [starting |-> 10, pre_migration_validation |-> 15, validating |-> 18,
                  preparing_archive |-> 20, uploading_to_ghos |-> 25,
                  ghos_upload_complete |-> 35, created |-> 40, waiting |-> 50, QUEUED |-> 60,
                  PENDING |-> 65, IN_PROGRESS |-> 80, SUCCEEDED |-> 100, completed |-> 100]]

\* The share of every other state of the stage.
DefaultShare ==
  [validation |-> 50, setup |-> 25, archive |-> 40, storage |-> 25, migration |-> 50]

StageProgress(shown) ==
  LET shares == StateShare[shown.stage] IN
  IF shown.state \in DOMAIN shares THEN shares[shown.state] ELSE DefaultShare[shown.stage]

\* Stages before the current one count in full whether they were run or not.
EarlierWeight(weights, stage) ==
  LET counted(earlier) ==
        IF StageOrder[earlier] < StageOrder[stage] THEN weights[earlier] ELSE 0
  IN  counted("validation") + counted("setup") + counted("archive") + counted("storage")
        + counted("migration")

\* "error" and "queue" keep the progress, "init" and "unknown" start from none.
ProgressOf(shown, existing, useGHOS) ==
  LET weights == StageWeights(useGHOS) IN
  IF shown.stage \in DOMAIN weights
  THEN EarlierWeight(weights, shown.stage)
         + (weights[shown.stage] * StageProgress(shown)) \div 100
  ELSE IF shown.stage \in {"error", "queue"} THEN existing.progress ELSE 0

\* updateStatusInternal on an existing status: success is full progress in
\* every stage.
Updated(existing, overall, message, useGHOS) ==
  LET shown == Adjusted(message, existing) IN
  [status |-> overall, stage |-> shown.stage, state |-> shown.state,
   progress |-> IF overall = "succeeded" THEN 100
                ELSE ProgressOf(shown, existing, useGHOS)]

\* What StartMigration's new status shows.
InitialStatus == [status |-> "in_progress", stage |-> "init", state |-> "starting", progress |-> 0]
=============================================================================
