---------------------------- MODULE MCDeployment ----------------------------
(***************************************************************************)
(* Two releases of four files for TLC.  The first release ships files 1 to *)
(* 3, the second 1, 3 and 4: an update writes, deletes and adds a file.    *)
(***************************************************************************)
EXTENDS Deployment

CONSTANTS c1, c2

MCFiles == 1..4
MCBundle == <<<<c1, c1, c1, Absent>>, <<c2, Absent, c2, c2>>>>
=============================================================================
