---------------------------- MODULE MCPathIndexStore ----------------------------
(***************************************************************************)
(* PathIndexStore in two scenarios.  In a race all writers work on two     *)
(* versions at once, with crashes and lost or hidden answers.  In a chain  *)
(* one writer at a time makes a version after the latest one or after a    *)
(* checkpoint of it, as a repository's tasks do, so that merged runs merge *)
(* again.                                                                  *)
(***************************************************************************)
EXTENDS PathIndexStore, TLC

CONSTANTS v1, v2, v3, v4, v5

VARIABLE scenario

\* Either may be the first version of a chain, so that they are interchangeable.
Raced == {v1, v2}
Versions == {v1, v2, v3, v4, v5}

Used == {v \in Version : versions[v] # NoManifest}

NextVersion ==
    LET n == Cardinality(Used)
    IN  CASE n < 2 -> Raced \ Used
          [] n \in 2 .. 4 -> {<<v3, v4, v5>>[n - 1]}
          [] n = 5 -> {}

Latest == {m \in Readable : \A n \in Readable : n.parent # m.version}

Racing == scenario = "race" /\ UNCHANGED scenario

RaceCompacts == Racing /\ checkpoints = {}

Chaining(w) ==
    /\ scenario = "chain" /\ UNCHANGED scenario
    /\ \A other \in Writer \ {w} : job[other].pc = "idle"

Working == UNCHANGED scenario

ScenarioInit == Init /\ scenario \in {"race", "chain"}

ScenarioNext ==
    \E w \in Writer :
        \/ Racing /\ \E v \in Raced, content \in Content : StartCreate(w, v, content)
        \/ Racing /\ \E v \in Raced, previous \in Readable :
                        \E entries \in Content, removed \in SUBSET Key :
                            /\ Len(previous.segments) < 2
                            /\ StartUpdate(w, v, previous, entries, removed)
        \/ RaceCompacts /\ \E m \in Readable : StartRebase(w, m)
        \/ RaceCompacts /\ \E m \in Readable : StartCompact(w, m)
        \/ Racing /\ InspectMissing(w, TRUE)
        \/ Racing /\ PutExists(w)
        \/ Racing /\ PutRetry(w)
        \/ Racing /\ PutLostResponse(w)
        \/ Racing /\ Stop(w)
        \/ Chaining(w) /\ Used = {}
             /\ \E v \in Raced, content \in Content : StartCreate(w, v, content)
        \/ Chaining(w) /\ \E v \in NextVersion, previous \in Latest :
                        \E entries \in Content, removed \in SUBSET Key :
                            StartUpdate(w, v, previous, entries, removed)
        \/ Chaining(w) /\ \E m \in Latest : StartRebase(w, m)
        \/ Chaining(w) /\ \E m \in Latest : StartCompact(w, m)
        \/ Working /\ CompactPush(w)
        \/ Working /\ CompactMerge(w)
        \/ Working /\ CompactDone(w)
        \/ Working /\ Inspect(w)
        \/ Working /\ InspectMissing(w, FALSE)
        \/ Working /\ Put(w)

ScenarioSpec == ScenarioInit /\ [][ScenarioNext]_<<vars, scenario>>

Symmetry == Permutations(Raced) \cup Permutations(Writer)

=============================================================================
