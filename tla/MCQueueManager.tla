--------------------------- MODULE MCQueueManager ---------------------------
(* QueueManager on a small instance: safety and refinement with            *)
(* MCQueueManager.cfg, liveness with MCQueueManagerProgress.cfg.           *)
EXTENDS QueueManager, TLC

CONSTANTS r1, r2, r3

\* Three repositories for two places in the queue: it can be full.
MCRepositories == {r1, r2, r3}
MCTwoRepositories == {r1, r2}

\* Sound for the safety properties, the refinement among them; not used with
\* the liveness properties.
Symmetry == Permutations(MCRepositories)
=============================================================================
