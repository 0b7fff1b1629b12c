--------------------------- MODULE MCPublicationTasks ---------------------------
(* PathIndexPublication in two scenarios of different sizes. *)
EXTENDS MCPathIndexPublication

VARIABLE scenario

\* Three modifies while the label may change once; or two modifies of content that
\* may be on-demand, while the label and the storage profile change.
Scenarios ==
    { [profiles |-> FALSE, changes |-> 1, versions |-> 1 .. 3, units |-> JarUnits],
      [profiles |-> TRUE,  changes |-> 3, versions |-> 1 .. 2, units |-> RemoteUnits] }

ScenarioInit == Init /\ scenario \in Scenarios

Modifies ==
    \E v \in scenario.versions, units \in SUBSET scenario.units : StartModify(v, units)

Within == UNCHANGED scenario

ScenarioNext ==
    \/ Within /\ changes < scenario.changes /\ SetLabel
    \/ Within /\ changes < scenario.changes /\ scenario.profiles /\ SetProfile
    \/ Within /\ Modifies
    \/ Within /\ \E v \in Version : StartBuild(v)
    \/ Within /\ \E v \in Version : DeleteVersion(v)
    \/ Within /\ StartCompact
    \/ Within /\ Finalize
    \/ Within /\ Update
    \/ Within /\ Retry
    \/ Within /\ CompleteModify
    \/ Within /\ Build
    \/ Within /\ Compact
    \/ Within /\ SaveInfo
    \/ Within /\ TaskError
    \/ Within /\ Crash

ScenarioSpec == ScenarioInit /\ [][ScenarioNext]_<<vars, scenario>>

=============================================================================
