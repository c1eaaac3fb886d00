----------------------------- MODULE MCBackend -----------------------------
(***************************************************************************)
(* The backend's own components for the model checker.  They share no      *)
(* state, so they are checked side by side in one run: a scene is chosen   *)
(* at the start and only its component moves.                              *)
(***************************************************************************)
EXTENDS JobLedger, NovelCommands, VideoTask, SchemaUpgrade, TLC

CONSTANTS j1, j2, j3, w1, w2, c1, c2, c3, v1, v2, v3

VARIABLE scene

\* Three jobs of two works: a job of each work at once, and a second job of the
\* same work after the first one ended.
MCJobIds == {j1, j2, j3}
MCWorks == {w1, w2}

\* Three calls: a command, its repeat, and one under another key.
MCCalls == {c1, c2, c3}

\* Three versions of a file: one that fits, one larger than the limit, and one
\* without a validator.
MCVersions == {v1, v2, v3}
MCSize == [v \in MCVersions |-> CASE v = v1 -> 3 [] v = v2 -> 4 [] v = v3 -> 2]
MCTag == [v \in MCVersions |-> IF v = v3 THEN none ELSE v]

\* Jobs, works and calls are interchangeable; only safety is checked.
MCSymmetry ==
  Permutations(MCJobIds) \cup Permutations(MCWorks) \cup Permutations(MCCalls)

---------------------------------------------------------------------------
Scenes == {"jobs", "commands", "video", "upgrade"}

\* A component that may start in several ways starts in one of them where the
\* scene is not its own.
MCInit ==
  /\ scene \in Scenes
  /\ Init /\ CommandsInit /\ TaskInit /\ UpgradeInit
  /\ scene = "commands" \/ \A work0 \in db.works : work0.status = "active"
  /\ scene = "video" \/ served = v1

MCNext ==
  \/ /\ scene = "jobs" /\ Next
     /\ UNCHANGED <<scene, commandVars, videoTaskVars, upgradeVars>>
  \/ /\ scene = "commands" /\ CommandsNext
     /\ UNCHANGED <<scene, vars, videoTaskVars, upgradeVars>>
  \/ /\ scene = "video" /\ TaskNext
     /\ UNCHANGED <<scene, vars, commandVars, upgradeVars>>
  \/ /\ scene = "upgrade" /\ UpgradeNext
     /\ UNCHANGED <<scene, vars, commandVars, videoTaskVars>>

MCVars == <<scene, vars, commandVars, videoTaskVars, upgradeVars>>

MCSpec == MCInit /\ [][MCNext]_MCVars
=============================================================================
