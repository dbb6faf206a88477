------------------------------- MODULE MCCron -------------------------------
(* A recurring task and one that runs once; the web host and a CLI.       *)
EXTENDS Cron, TLC

CONSTANTS daily, once, v, w, x, host, cli

WorkerSymmetry == Permutations(Workers)
=============================================================================
