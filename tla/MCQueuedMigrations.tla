------------------------- MODULE MCQueuedMigrations -------------------------
(* QueuedMigrations on a small instance.                                   *)
EXTENDS QueuedMigrations, TLC

CONSTANTS r1, r2, c1, c2

MCRepositories == {r1, r2}
MCCallers == {c1, c2}
MCRetriers == {c2}

MCRequests == {<<r1>>, <<r2>>}
=============================================================================
