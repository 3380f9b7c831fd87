----------------------------- MODULE MCUpdates -----------------------------
\* An installation is a git clone, updated twice with two answered requests, or
\* a directory of files, updated twice from packages with two edits by hand.
EXTENDS GitUpdate, PatchUpdate

VARIABLE kept    \* how the installation is kept: "clone" or "files"

MCInit ==
    /\ Init /\ PatchInit /\ kept \in {"clone", "files"}
    /\ kept = "files" => ~reqChanged

MCNext ==
    /\ UNCHANGED kept
    /\ \/ kept = "clone" /\ Next /\ UNCHANGED patch
       \/ kept = "files" /\ PatchNext /\ UNCHANGED vars

MCFairSpec ==
    MCInit /\ [][MCNext]_<<vars, patch, kept>> /\ WF_vars(Update) /\ WF_vars(Respawn)
=============================================================================
