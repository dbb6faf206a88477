---------------------------- MODULE Installation ----------------------------
(***************************************************************************)
(* What the deployer promises of an installation directory: a release is   *)
(* installed in one step or not at all.  What it will write and delete is  *)
(* planned ahead of that step; users edit files at any time, and what the  *)
(* plan covers is installed over an edit made after it.                    *)
(* Deployment shows that src/deploy/core keeps this promise through        *)
(* failures, interrupts and crashes.                                       *)
(***************************************************************************)
EXTENDS ReleaseFiles

VARIABLES tree, plan

vars == <<tree, plan>>

Init == tree = EmptyTree /\ plan = NoCommand

Plan(r, overwrite) ==
    /\ plan = NoCommand
    /\ Installable(tree, r, overwrite)
    /\ plan' = [release |-> r, overwrite |-> overwrite,
                changes |-> Changes(tree, r)]
    /\ UNCHANGED tree

Install ==
    /\ plan # NoCommand
    /\ tree' = Installed(tree, plan.release, plan.changes)
    /\ plan' = NoCommand

Abandon ==
    /\ plan' = NoCommand
    /\ UNCHANGED tree

Edit(n) ==
    /\ tree' = [tree EXCEPT ![n] = Local]
    /\ UNCHANGED plan

Next ==
    \/ \E r \in Releases, overwrite \in BOOLEAN : Plan(r, overwrite)
    \/ Install \/ Abandon
    \/ \E n \in Files \ {VersionFile} : Edit(n)

Spec == Init /\ [][Next]_vars
=============================================================================
