------------------------------ MODULE DeployProofs ------------------------------
(***************************************************************************)
(* Three safety properties of the deploy API, for any number of            *)
(* repositories, requests, paths, contents and deploys.                    *)
(*                                                                         *)
(* A request carries what it has found out from one statement to the next, *)
(* so the invariants say, for each stage, what still holds of it although  *)
(* others have used the same rows meanwhile.                               *)
(***************************************************************************)
EXTENDS Deploy, TLAPS

\* Stages of the task, after it knows its pages and its content, after the
\* ContentArtifact, and after the content unit.
Paging   == {"insert", "complete"}
Drafting == {"ensure", "describe", "lookup"} \cup Paging
Saved    == {"package", "details", "dispatch", "add"} \cup Drafting
Later    == {"artifact"} \cup Saved
Stages   == {"idle", "content"} \cup Later

Page == ({"/"} \cup File) \X SUBSET File

RequestType ==
    [pc : Stages, repository : Repository \cup {None}, path : File \cup {None},
     bytes : Bytes \cup {None}, number : 0 .. MaxDeploys, unit : Unit \cup {None},
     package : 0 .. MaxDeploys \cup {None}, saved : SUBSET Pom,
     remove : SUBSET Unit, units : SUBSET Unit,
     found : SUBSET Page, missing : SUBSET Page]

\* What a request knows at its stage.
Knows(q) ==
    /\ q.pc # "idle" => q.repository \in Repository /\ q.path \in File /\ q.bytes \in Bytes
                           /\ q.number \in 1 .. MaxDeploys
    /\ q.pc \in Later => q.unit \in Unit
    /\ q.pc \in {"package", "details"} => q.path \in Pom
    /\ q.pc \in {"details", "describe"} => q.package \in 0 .. MaxDeploys
    /\ q.pc \in {"content", "artifact", "package", "dispatch", "add", "ensure"}
          => q.package = None
    /\ q.pc \in Later /\ q.pc # "details" /\ q.package # None => q.unit.path \notin Metadata

TypeInv ==
    /\ requests \in [Request -> RequestType]
    /\ \A r \in Request : Knows(requests[r])
    /\ Rows \subseteq Unit /\ contents \in [Rows -> Bytes \cup {NoBytes}]
    /\ packages \in [Pom -> Package \cup {NoPackage}]
    /\ pages \subseteq Page
    /\ latest \in [Repository -> SUBSET Unit]
    /\ described \in [Repository -> SUBSET Pom]
    /\ listed \in [Repository -> SUBSET Page]
    /\ deploys \in 0 .. MaxDeploys

\* What versions and drafts use has its row: the orphan cleanup spares it.
UsedExist ==
    /\ \A repo \in Repository : latest[repo] \subseteq Rows
    /\ \A r \in Request : Drafted(r) => requests[r].units \subseteq Rows

Unique(units) == \A u, w \in units : u.path = w.path => u = w

UniqueInv ==
    /\ \A repo \in Repository : Unique(latest[repo])
    /\ \A r \in Request : Drafted(r) => Unique(requests[r].units)

\* The same for packages, also of what running requests have made or saved.
PackagesExist ==
    /\ \A repo \in Repository : \A p \in described[repo] : packages[p] # NoPackage
    /\ \A r \in Request :
          /\ requests[r].pc # "idle" => \A p \in requests[r].saved : packages[p] # NoPackage
          /\ requests[r].pc \in Paging => \A p \in Attached(requests[r]) : packages[p] # NoPackage

\* The request is about to save what it reads from a POM of the release.
Reads(q, p) ==
    \/ q.pc = "details" /\ q.path = p
    \/ q.pc = "describe" /\ PomOf[q.unit.path] = p

\* Only the request that made a release's package reads a POM for it, and before
\* that the package has no details.
DetailsInv ==
    \A r \in Request : \A p \in Pom \ Snapshot : Reads(requests[r], p) =>
        /\ p \in requests[r].saved /\ packages[p] # NoPackage /\ packages[p].details = NoBytes
        /\ \A s \in Request \ {r} : ~Reads(requests[s], p)

Served(u) == u \in Rows /\ contents[u] # NoBytes

WholeRequest(q) ==
    /\ q.pc \in Later => q.unit \in Rows
    /\ q.pc \in Saved => contents[q.unit] # NoBytes
    /\ q.pc \in Drafting => \A u \in q.units : Served(u)
    /\ q.pc \in Paging => /\ q.found \cup q.missing = PagesOf(q.units)
                          /\ q.found \subseteq pages
    /\ q.pc = "complete" => q.missing \subseteq q.found

\* The same of a request q after a step.
WholeAfter(q) ==
    /\ q.pc \in Later => q.unit \in Rows'
    /\ q.pc \in Saved => contents'[q.unit] # NoBytes
    /\ q.pc \in Drafting => \A u \in q.units : u \in Rows' /\ contents'[u] # NoBytes
    /\ q.pc \in Paging => /\ q.found \cup q.missing = PagesOf(q.units)
                          /\ q.found \subseteq pages'
    /\ q.pc = "complete" => q.missing \subseteq q.found

WholeInv ==
    "cleanup" \notin env =>
        /\ \A r \in Request : WholeRequest(requests[r])
        /\ \A repo \in Repository :
              /\ \A u \in latest[repo] : Served(u)
              /\ latest[repo] # {} => listed[repo] = PagesOf(latest[repo])

DeployInv ==
    TypeInv /\ UsedExist /\ PackagesExist /\ UniqueInv /\ DetailsInv /\ WholeInv

-----------------------------------------------------------------------------
(* Types.                                                                   *)

\* A request that is over, or has not begun.
LEMMA IdleType ==
  /\ Idle \in RequestType /\ Knows(Idle) /\ Idle.pc = "idle"
  /\ Idle.package = None /\ Idle.saved = {}
  BY DeployAssumption DEF Idle, RequestType, Knows, Stages, Later, Saved, Drafting, Paging

LEMMA NextNumber == TypeInv /\ deploys < MaxDeploys => deploys + 1 \in 1 .. MaxDeploys
  BY DeployAssumption DEF TypeInv

\* A request that has begun.
LEMMA BegunType ==
  ASSUME NEW q \in RequestType, NEW repo \in Repository, NEW path \in File,
         NEW bytes \in Bytes, NEW number \in 1 .. MaxDeploys, q.package = None, NEW n,
         n = [q EXCEPT !.pc = "content", !.repository = repo, !.path = path,
                       !.bytes = bytes, !.number = number]
  PROVE  n \in RequestType /\ Knows(n) /\ n.pc = "content"
<1>1. number \in 0 .. MaxDeploys
  BY DeployAssumption
<1>2. n \in RequestType
  BY <1>1 DEF RequestType, Stages
<1>3. /\ n.pc = "content" /\ n.repository = repo /\ n.path = path
      /\ n.bytes = bytes /\ n.number = number /\ n.package = None
  BY DEF RequestType
<1>4. Knows(n)
  BY <1>3 DEF Knows, Later, Saved, Drafting, Paging
<1> QED BY <1>2, <1>3, <1>4

\* The pages of units in a repository.
LEMMA PagesType == ASSUME NEW units \in SUBSET Unit PROVE PagesOf(units) \subseteq Page
  BY DEF PagesOf, Page, Unit

\* One request changes, the others stay.
LEMMA Moved ==
  ASSUME requests \in [Request -> RequestType], NEW r \in Request, NEW q, Advance(r, q)
  PROVE  /\ requests' = [requests EXCEPT ![r] = q]
         /\ requests'[r] = q
         /\ \A s \in Request \ {r} : requests'[s] = requests[s]
         /\ q \in RequestType => requests' \in [Request -> RequestType]
  BY DEF Advance

LEMMA TypeMoved ==
  ASSUME TypeInv, NEW r \in Request, NEW q \in RequestType, Knows(q), Advance(r, q)
  PROVE  requests' \in [Request -> RequestType] /\ \A s \in Request : Knows(requests'[s])
  BY Moved DEF TypeInv

LEMMA TypeInit == Init => TypeInv
<1> SUFFICES ASSUME Init PROVE TypeInv
  OBVIOUS
<1>1. requests \in [Request -> RequestType] /\ \A r \in Request : Knows(requests[r])
  BY IdleType DEF Init
<1>2. DOMAIN contents = {} /\ contents \in [{} -> Bytes \cup {NoBytes}]
  BY DEF Init
<1> QED BY <1>1, <1>2, DeployAssumption DEF Init, TypeInv, Rows

\* The orphan cleanup deletes rows, and none that a version or a draft uses.
LEMMA CleanupKeeps ==
  ASSUME TypeInv, UsedExist, Cleanup
  PROVE  \E kept \in SUBSET Rows :
            /\ contents' = [u \in kept |-> contents[u]]
            /\ \A repo \in Repository : latest[repo] \subseteq kept
            /\ \A r \in Request : Drafted(r) => requests[r].units \subseteq kept
<1> DEFINE used == UNION ({latest[repo] : repo \in Repository} \cup {q.units : q \in Drafts})
           made == {u \in Rows : \E q \in Running : q.number = u.by}
<1>1. used \subseteq Rows
  BY DEF UsedExist, Drafts
<1>2. \A repo \in Repository : latest[repo] \subseteq used
  OBVIOUS
<1>3. \A r \in Request : Drafted(r) => requests[r].units \subseteq used
  BY DEF Drafts
<1>4. contents' = [u \in used \cup made |-> contents[u]]
  BY DEF Cleanup
<1> HIDE DEF used, made
<1>5. made \subseteq Rows
  BY DEF made
<1> QED BY <1>1, <1>2, <1>3, <1>4, <1>5

\* What a running request has made, saved or added, and what versions have.
LEMMA CleanupSpares ==
  ASSUME Cleanup, NEW p \in Pom,
         \/ \E repo \in Repository : p \in described[repo]
         \/ \E r \in Request : requests[r].pc # "idle" /\ p \in requests[r].saved
         \/ \E r \in Request : requests[r].pc \in Paging /\ p \in Attached(requests[r])
  PROVE  packages'[p] = packages[p]
<1>1. ASSUME NEW r \in Request, requests[r].pc \in Paging
      PROVE  requests[r] \in {q \in Drafts : q.pc \in {"insert", "complete"}}
  BY <1>1 DEF Drafts, Drafted, Paging
<1>2. ASSUME NEW r \in Request, requests[r].pc # "idle" PROVE requests[r] \in Running
  BY <1>2 DEF Running
<1>3. p \in SparedPackages
  BY <1>1, <1>2 DEF SparedPackages
<1> QED BY <1>3 DEF Cleanup

LEMMA CleanupPackages ==
  ASSUME Cleanup, NEW p \in Pom PROVE packages'[p] \in {packages[p], NoPackage}
  BY DEF Cleanup

\* The row of a release with a package is the one that get_or_create finds.
LEMMA EnsuredType ==
  ASSUME TypeInv, NEW p \in Pom, NEW number \in 0 .. MaxDeploys
  PROVE  /\ Ensured(p, number) \in Package /\ Ensured(p, number) # NoPackage
         /\ packages[p] # NoPackage => Ensured(p, number) = packages[p]
         /\ packages[p] = NoPackage => Ensured(p, number).details = NoBytes
  BY DeployAssumption DEF Ensured, TypeInv, Package

LEMMA PomBytesType ==
  ASSUME TypeInv, NEW p, NEW units PROVE PomBytes(p, units) \subseteq Bytes
  BY DEF TypeInv, PomBytes

LEMMA TypeNext == TypeInv /\ UsedExist /\ [Next]_vars => TypeInv'
<1> SUFFICES ASSUME TypeInv, UsedExist, [Next]_vars PROVE TypeInv'
  OBVIOUS
<1> USE DeployAssumption
<1>1. ASSUME NEW r \in Request, NEW repo \in Repository, NEW path \in File,
             NEW bytes \in Bytes, Begin(r, repo, path, bytes)
      PROVE  TypeInv'
  <2> DEFINE q == [Idle EXCEPT !.pc = "content", !.repository = repo, !.path = path,
                               !.bytes = bytes, !.number = deploys + 1]
  <2>1. deploys + 1 \in 1 .. MaxDeploys
    BY <1>1 DEF Begin, TypeInv
  <2>2. q \in RequestType /\ Knows(q)
    BY <2>1, IdleType, BegunType
  <2>3. Advance(r, q)
    BY <1>1 DEF Begin
  <2> QED BY <1>1, <2>1, <2>2, <2>3, TypeMoved DEF Begin, TypeInv, Rows
<1>2. ASSUME NEW r \in Request, SaveContent(r) PROVE TypeInv'
  <2> DEFINE q == requests[r]
             found == Existing(q.path, q.bytes)
             new == [path |-> q.path, by |-> q.number,
                     digest |-> IF q.path \in Metadata THEN q.bytes ELSE NoBytes]
  <2>1. q \in RequestType /\ Knows(q) /\ q.pc = "content"
    BY <1>2 DEF SaveContent, Stage, TypeInv
  <2>2. new \in Unit
    BY <2>1 DEF Unit, Knows
  <2>3. ASSUME NEW unit \in Unit PROVE
           [q EXCEPT !.pc = "artifact", !.unit = unit] \in RequestType
             /\ Knows([q EXCEPT !.pc = "artifact", !.unit = unit])
    BY <2>1, <2>3 DEF RequestType, Knows, Stages, Later, Saved, Drafting, Paging
  <2>4. CASE Conflicts(q.path, q.bytes) = {}
    <3>1. Advance(r, [q EXCEPT !.pc = "artifact", !.unit = new])
             /\ contents' = [u \in Rows \cup {new} |->
                                IF u \in Rows THEN contents[u] ELSE NoBytes]
      BY <1>2, <2>4 DEF SaveContent
    <3>2. Rows' \subseteq Unit /\ contents' \in [Rows' -> Bytes \cup {NoBytes}]
      BY <3>1, <2>2 DEF Rows, TypeInv
    <3> QED BY <1>2, <3>1, <3>2, <2>2, <2>3, TypeMoved DEF SaveContent, TypeInv
  <2>5. CASE Conflicts(q.path, q.bytes) # {}
    <3>1. Conflicts(q.path, q.bytes) \subseteq found /\ found \subseteq Unit
      BY DEF Conflicts, Existing, TypeInv
    <3>2. (CHOOSE u \in found : TRUE) \in Unit
      BY <3>1, <2>5
    <3>3. \E n \in RequestType : Knows(n) /\ Advance(r, n)
      BY <1>2, <2>5, <2>3, <3>2, IdleType DEF SaveContent
    <3> QED BY <1>2, <2>5, <3>3, TypeMoved DEF SaveContent, TypeInv, Rows
  <2> QED BY <2>4, <2>5
<1>3. ASSUME NEW r \in Request, SaveArtifact(r) PROVE TypeInv'
  <2> DEFINE q == requests[r]
             n == [q EXCEPT !.pc = IF q.path \in Pom THEN "package" ELSE "dispatch",
                            !.remove = Replaced(q)]
  <2>1. q \in RequestType /\ Knows(q) /\ q.pc = "artifact"
    BY <1>3 DEF SaveArtifact, Stage, TypeInv
  <2>2. Replaced(q) \subseteq Unit
    BY <2>1 DEF Replaced, Knows, TypeInv, Later
  <2>3. n \in RequestType /\ Knows(n)
    <3> DEFINE pc == IF q.path \in Pom THEN "package" ELSE "dispatch"
               gone == Replaced(q)
    <3>1. pc \in {"package", "dispatch"} /\ (pc = "package" => q.path \in Pom)
      OBVIOUS
    <3>2. gone \subseteq Unit
      BY <2>2
    <3>3. n = [q EXCEPT !.pc = pc, !.remove = gone]
      OBVIOUS
    <3> HIDE DEF pc, gone, n
    <3>4. n \in RequestType
      BY <2>1, <3>1, <3>2, <3>3 DEF RequestType, Stages, Later, Saved
    <3>5. /\ n.pc = pc /\ n.path = q.path /\ n.repository = q.repository
          /\ n.bytes = q.bytes /\ n.number = q.number /\ n.unit = q.unit
          /\ n.package = q.package
      BY <2>1, <3>3 DEF RequestType
    <3>6. /\ q.repository \in Repository /\ q.path \in File /\ q.bytes \in Bytes
          /\ q.number \in 1 .. MaxDeploys /\ q.unit \in Unit /\ q.package = None
      BY <2>1 DEF Knows, Later
    <3>7. Knows(n)
      BY <3>1, <3>5, <3>6 DEF Knows
    <3> QED BY <3>4, <3>7
  <2>4. Stored(q) \in Bytes \cup {NoBytes} \/ q.unit \notin Rows
    BY <2>1 DEF Stored, Knows, TypeInv
  <2>5. Rows' = Rows /\ contents' \in [Rows -> Bytes \cup {NoBytes}]
    BY <1>3, <2>4 DEF SaveArtifact, TypeInv, Rows
  <2>6. \E m \in RequestType : Knows(m) /\ Advance(r, m)
    BY <1>3, <2>3, IdleType DEF SaveArtifact
  <2> QED BY <1>3, <2>5, <2>6, TypeMoved DEF SaveArtifact, TypeInv
<1>4. ASSUME NEW r \in Request, EnsurePackage(r) PROVE TypeInv'
  <2> DEFINE q == requests[r]
             row == Ensured(q.path, q.number)
             made == IF packages[q.path] = NoPackage THEN {q.path} ELSE {}
             n == [q EXCEPT !.pc = "details", !.package = row.by, !.saved = made]
             m == [q EXCEPT !.pc = "dispatch"]
  <2>1. q \in RequestType /\ Knows(q) /\ q.pc = "package"
    BY <1>4 DEF EnsurePackage, Stage, TypeInv
  <2>2. q.path \in Pom /\ q.number \in 0 .. MaxDeploys
    BY <2>1 DEF Knows, RequestType
  <2>3. row \in Package /\ row.by \in 0 .. MaxDeploys
    BY <2>2, EnsuredType DEF Package
  <2>4. /\ m \in RequestType /\ m.pc = "dispatch" /\ m.path = q.path
        /\ m.repository = q.repository /\ m.bytes = q.bytes
        /\ m.number = q.number /\ m.unit = q.unit /\ m.package = q.package
    BY <2>1 DEF RequestType, Stages, Later, Saved
  <2>5. made \in SUBSET Pom
    BY <2>2
  <2> HIDE DEF row, made
  <2>6. /\ n \in RequestType /\ n.pc = "details" /\ n.path = q.path
        /\ n.repository = q.repository /\ n.bytes = q.bytes
        /\ n.number = q.number /\ n.unit = q.unit /\ n.package = row.by
    BY <2>1, <2>3, <2>5 DEF RequestType, Stages, Later, Saved
  <2> HIDE DEF n, m
  <2>7. Knows(n)
    BY <2>1, <2>2, <2>3, <2>6 DEF Knows, Later, Saved
  <2>8. Knows(m)
    BY <2>1, <2>4 DEF Knows, Later, Saved
  <2>9. \E k \in RequestType : Knows(k) /\ Advance(r, k)
    <3>1. Advance(r, n) \/ Advance(r, m)
      BY <1>4 DEF EnsurePackage, n, m, row, made
    <3> QED BY <3>1, <2>4, <2>6, <2>7, <2>8
  <2>10. packages' = [packages EXCEPT ![q.path] = row]
    BY <1>4 DEF EnsurePackage, row
  <2>11. packages' \in [Pom -> Package \cup {NoPackage}]
    BY <2>2, <2>3, <2>10 DEF TypeInv
  <2> QED BY <1>4, <2>9, <2>11, TypeMoved DEF EnsurePackage, TypeInv, Rows
<1>5. ASSUME NEW r \in Request, SaveDetails(r) PROVE TypeInv'
  <2> DEFINE q == requests[r]
             n == [q EXCEPT !.pc = "dispatch", !.package = None, !.saved = {q.path}]
             row == [by |-> q.package, details |-> q.bytes]
  <2>1. q \in RequestType /\ Knows(q) /\ q.pc = "details"
    BY <1>5 DEF SaveDetails, Stage, TypeInv
  <2>2. q.path \in Pom /\ row \in Package
    BY <2>1 DEF Knows, Package
  <2>3. /\ n \in RequestType /\ n.pc = "dispatch" /\ n.path = q.path
        /\ n.repository = q.repository /\ n.bytes = q.bytes
        /\ n.number = q.number /\ n.unit = q.unit /\ n.package = None
    BY <2>1, <2>2 DEF RequestType, Stages, Later, Saved
  <2> HIDE DEF n, row
  <2>4. Knows(n)
    BY <2>1, <2>3 DEF Knows, Later, Saved
  <2>5. packages' = [packages EXCEPT ![q.path] = row] \/ packages' = packages
    BY <1>5 DEF SaveDetails, row
  <2>6. packages' \in [Pom -> Package \cup {NoPackage}]
    BY <2>2, <2>5 DEF TypeInv
  <2>7. Advance(r, n) \/ Advance(r, Idle)
    BY <1>5 DEF SaveDetails, n
  <2>8. \E k \in RequestType : Knows(k) /\ Advance(r, k)
    BY <2>3, <2>4, <2>7, IdleType
  <2> QED BY <1>5, <2>6, <2>8, TypeMoved DEF SaveDetails, TypeInv, Rows
<1>6. ASSUME NEW r \in Request, Dispatch(r) PROVE TypeInv'
  <2> DEFINE q == requests[r]
             n == [q EXCEPT !.pc = "add"]
  <2>1. q \in RequestType /\ Knows(q) /\ q.pc = "dispatch"
    BY <1>6 DEF Dispatch, Stage, TypeInv
  <2>2. n \in RequestType /\ Knows(n)
    BY <2>1 DEF RequestType, Knows, Stages, Later, Saved, Drafting, Paging
  <2>3. \E m \in RequestType : Knows(m) /\ Advance(r, m)
    BY <1>6, <2>2, IdleType DEF Dispatch
  <2> QED BY <1>6, <2>3, TypeMoved DEF Dispatch, TypeInv, Rows
<1>7. ASSUME NEW r \in Request, AddContent(r) PROVE TypeInv'
  <2> DEFINE q == requests[r]
             n == [q EXCEPT !.pc = "ensure", !.units = Merged(q)]
  <2>1. q \in RequestType /\ Knows(q) /\ q.pc = "add"
    BY <1>7 DEF AddContent, Stage, TypeInv
  <2>2. Merged(q) \subseteq Unit
    BY <2>1 DEF Merged, Knows, TypeInv
  <2>3. n \in RequestType /\ Knows(n)
    BY <2>1, <2>2 DEF RequestType, Knows, Stages, Later, Saved, Drafting, Paging
  <2> QED BY <1>7, <2>3, TypeMoved DEF AddContent, TypeInv, Rows
<1>8. ASSUME NEW r \in Request, EnsureInVersion(r) PROVE TypeInv'
  <2> DEFINE q == requests[r]
             p == PomOf[q.unit.path]
             row == Ensured(p, q.number)
             made == IF packages[p] = NoPackage THEN q.saved \cup {p} ELSE q.saved
             by == IF packages[p] = NoPackage THEN None ELSE packages[p].by
             n == [q EXCEPT !.pc = "describe", !.package = row.by, !.saved = made]
             m == [q EXCEPT !.pc = "lookup", !.package = by]
             k == [q EXCEPT !.pc = "lookup"]
  <2>1. q \in RequestType /\ Knows(q) /\ q.pc = "ensure"
    BY <1>8 DEF EnsureInVersion, Stage, TypeInv
  <2>2. q.unit \in Unit /\ q.number \in 0 .. MaxDeploys /\ q.saved \subseteq Pom
    BY <2>1 DEF Knows, RequestType, Later, Saved, Drafting
  <2>3. CASE ~Affected(q)
    <3>1. k \in RequestType /\ Knows(k)
      BY <2>1 DEF RequestType, Knows, Stages, Later, Saved, Drafting, Paging
    <3>2. Advance(r, k) /\ packages' = packages
      BY <1>8, <2>3 DEF EnsureInVersion
    <3> QED BY <1>8, <3>1, <3>2, TypeMoved DEF EnsureInVersion, TypeInv, Rows
  <2>4. CASE Affected(q)
    <3>1. q.unit.path \notin Metadata /\ p \in Pom
      BY <2>2, <2>4 DEF Affected, Unit
    <3>2. row \in Package /\ row.by \in 0 .. MaxDeploys
      BY <2>2, <3>1, EnsuredType DEF Package
    <3>3. made \subseteq Pom
      BY <2>2, <3>1
    <3>4. by \in 0 .. MaxDeploys \cup {None}
      BY <3>1 DEF TypeInv, Package
    <3> HIDE DEF row, made, by
    <3>5. /\ n \in RequestType /\ n.pc = "describe" /\ n.path = q.path
          /\ n.repository = q.repository /\ n.bytes = q.bytes
          /\ n.number = q.number /\ n.unit = q.unit /\ n.package = row.by
      BY <2>1, <3>2, <3>3 DEF RequestType, Stages, Later, Saved, Drafting
    <3>6. /\ m \in RequestType /\ m.pc = "lookup" /\ m.path = q.path
          /\ m.repository = q.repository /\ m.bytes = q.bytes
          /\ m.number = q.number /\ m.unit = q.unit /\ m.package = by
      BY <2>1, <3>4 DEF RequestType, Stages, Later, Saved, Drafting
    <3>7. packages' = [packages EXCEPT ![p] = row] \/ packages' = packages
      BY <1>8 DEF EnsureInVersion, row
    <3>8. Advance(r, n) \/ Advance(r, m)
      BY <1>8, <2>4 DEF EnsureInVersion, row, made, by
    <3> HIDE DEF n, m
    <3>9. Knows(n)
      BY <2>1, <2>2, <3>1, <3>2, <3>5 DEF Knows, Later, Saved, Drafting
    <3>10. Knows(m)
      BY <2>1, <2>2, <3>1, <3>6 DEF Knows, Later, Saved, Drafting
    <3>11. packages' \in [Pom -> Package \cup {NoPackage}]
      BY <3>1, <3>2, <3>7 DEF TypeInv
    <3>12. \E j \in RequestType : Knows(j) /\ Advance(r, j)
      BY <3>5, <3>6, <3>8, <3>9, <3>10
    <3> QED BY <1>8, <3>11, <3>12, TypeMoved DEF EnsureInVersion, TypeInv, Rows
  <2> QED BY <2>3, <2>4
<1>9. ASSUME NEW r \in Request, DescribeInVersion(r) PROVE TypeInv'
  <2> DEFINE q == requests[r]
             p == PomOf[q.unit.path]
             n == [q EXCEPT !.pc = "lookup", !.saved = q.saved \cup {p}]
  <2>1. q \in RequestType /\ Knows(q) /\ q.pc = "describe"
    BY <1>9 DEF DescribeInVersion, Stage, TypeInv
  <2>2. q.package \in 0 .. MaxDeploys /\ q.unit \in Unit /\ q.unit.path \notin Metadata
    BY <2>1 DEF Knows, Later, Saved, Drafting
  <2>3. p \in Pom /\ q.saved \cup {p} \subseteq Pom
    BY <2>1, <2>2 DEF Unit, RequestType
  <2>4. /\ n \in RequestType /\ n.pc = "lookup" /\ n.path = q.path
        /\ n.repository = q.repository /\ n.bytes = q.bytes
        /\ n.number = q.number /\ n.unit = q.unit /\ n.package = q.package
    BY <2>1, <2>3 DEF RequestType, Stages, Later, Saved, Drafting
  <2>5. Advance(r, n) \/ Advance(r, Idle)
    BY <1>9 DEF DescribeInVersion
  <2> HIDE DEF n
  <2>6. Knows(n)
    BY <2>1, <2>2, <2>4 DEF Knows, Later, Saved, Drafting
  <2>7. packages' \in [Pom -> Package \cup {NoPackage}]
    <3>1. \/ packages' = packages
          \/ \E bytes \in PomBytes(p, q.units) :
                packages' = [packages EXCEPT ![p] = [by |-> q.package, details |-> bytes]]
      BY <1>9 DEF DescribeInVersion
    <3>2. \A bytes \in PomBytes(p, q.units) : [by |-> q.package, details |-> bytes] \in Package
      BY <2>2, PomBytesType DEF Package
    <3>3. ASSUME NEW row \in Package, packages' = [packages EXCEPT ![p] = row]
          PROVE  packages' \in [Pom -> Package \cup {NoPackage}]
      BY <2>3, <3>3 DEF TypeInv
    <3> QED BY <3>1, <3>2, <3>3 DEF TypeInv
  <2>8. \E k \in RequestType : Knows(k) /\ Advance(r, k)
    BY <2>4, <2>5, <2>6, IdleType
  <2> QED BY <1>9, <2>7, <2>8, TypeMoved DEF DescribeInVersion, TypeInv, Rows
<1>10. ASSUME NEW r \in Request, LookUpPages(r) PROVE TypeInv'
  <2> DEFINE q == requests[r]
             wanted == PagesOf(q.units)
             by == IF q.package # None /\ Holds(q, PomOf[q.unit.path]) THEN q.package ELSE None
             n == [q EXCEPT !.pc = "insert", !.package = by,
                            !.found = wanted \cap pages, !.missing = wanted \ pages]
  <2>1. q \in RequestType /\ Knows(q) /\ q.pc = "lookup"
    BY <1>10 DEF LookUpPages, Stage, TypeInv
  <2>2. q.units \subseteq Unit /\ by \in {q.package, None}
    BY <2>1 DEF RequestType
  <2>3. wanted \subseteq Page
    BY <2>2, PagesType
  <2>4. Advance(r, n)
    BY <1>10 DEF LookUpPages
  <2> HIDE DEF by, wanted
  <2>5. /\ n \in RequestType /\ n.pc = "insert" /\ n.path = q.path
        /\ n.repository = q.repository /\ n.bytes = q.bytes
        /\ n.number = q.number /\ n.unit = q.unit /\ n.package = by
    BY <2>1, <2>2, <2>3 DEF RequestType, Stages, Later, Saved, Drafting, Paging
  <2> HIDE DEF n
  <2>6. Knows(n)
    BY <2>1, <2>2, <2>5 DEF Knows, Later, Saved, Drafting, Paging
  <2> QED BY <1>10, <2>4, <2>5, <2>6, TypeMoved DEF LookUpPages, TypeInv, Rows
<1>11. ASSUME NEW r \in Request, InsertPages(r) PROVE TypeInv'
  <2> DEFINE q == requests[r]
             n == [q EXCEPT !.pc = "complete", !.found = q.found \cup q.missing]
  <2>1. q \in RequestType /\ Knows(q) /\ q.pc = "insert"
    BY <1>11 DEF InsertPages, Stage, TypeInv
  <2>2. n \in RequestType /\ Knows(n)
    BY <2>1 DEF RequestType, Knows, Stages, Later, Saved, Drafting, Paging
  <2>3. pages' \subseteq Page
    BY <1>11, <2>1 DEF InsertPages, TypeInv, RequestType
  <2> QED BY <1>11, <2>2, <2>3, TypeMoved DEF InsertPages, TypeInv, Rows
<1>12. ASSUME NEW r \in Request, Complete(r) PROVE TypeInv'
  <2>1. requests[r] \in RequestType /\ Knows(requests[r]) /\ requests[r].pc = "complete"
    BY <1>12 DEF Complete, Stage, TypeInv
  <2>2. Attached(requests[r]) \subseteq Pom
    BY <2>1 DEF Attached, Knows, Later, Saved, Drafting, Paging, Unit
  <2>3. latest' \in [Repository -> SUBSET Unit] /\ listed' \in [Repository -> SUBSET Page]
    BY <1>12, <2>1 DEF Complete, TypeInv, RequestType, Knows
  <2>4. described' \in [Repository -> SUBSET Pom]
    BY <1>12, <2>1, <2>2 DEF Complete, TypeInv, Knows
  <2> QED BY <1>12, <2>3, <2>4, IdleType, TypeMoved DEF Complete, TypeInv, Rows
<1>13. ASSUME NEW r \in Request, Crash(r) PROVE TypeInv'
  BY <1>13, IdleType, TypeMoved DEF Crash, TypeInv, Rows
<1>14. ASSUME NEW repo \in Repository, NEW unit \in latest[repo], Remove(repo, unit)
       PROVE  TypeInv'
  <2> DEFINE units == latest[repo] \ {unit}
             p == PomOf[unit.path]
  <2>1. units \in SUBSET Unit /\ unit \in Unit
    BY DEF TypeInv
  <2>2. PagesOf(units) \subseteq Page
    BY <2>1, PagesType
  <2>3. /\ packages' \in [Pom -> Package \cup {NoPackage}]
        /\ described' \in [Repository -> SUBSET Pom]
    <3>1. CASE unit.path \in Metadata
      BY <1>14, <3>1 DEF Remove, TypeInv
    <3>2. CASE unit.path \notin Metadata
      <4>1. p \in Pom
        BY <2>1, <3>2 DEF Unit
      <4>2. \/ packages' = packages
            \/ \E bytes \in PomBytes(p, units) :
                  packages' = [packages EXCEPT ![p] =
                                  [by |-> Ensured(p, 0).by, details |-> bytes]]
        BY <1>14, <3>2 DEF Remove
      <4>3. \A bytes \in PomBytes(p, units) :
                  [by |-> Ensured(p, 0).by, details |-> bytes] \in Package
        BY <4>1, EnsuredType, PomBytesType DEF Package
      <4>4. \E poms \in {described[repo] \ {p}, described[repo] \cup {p}, described[repo]} :
                  described' = [described EXCEPT ![repo] = poms]
        BY <1>14, <3>2 DEF Remove
      <4>5. ASSUME NEW row \in Package, packages' = [packages EXCEPT ![p] = row]
            PROVE  packages' \in [Pom -> Package \cup {NoPackage}]
        BY <4>1, <4>5 DEF TypeInv
      <4>6. packages' \in [Pom -> Package \cup {NoPackage}]
        BY <4>2, <4>3, <4>5 DEF TypeInv
      <4>7. described' \in [Repository -> SUBSET Pom]
        BY <4>1, <4>4 DEF TypeInv
      <4> QED BY <4>6, <4>7
    <3> QED BY <3>1, <3>2
  <2> QED BY <1>14, <2>1, <2>2, <2>3 DEF Remove, TypeInv, Rows
<1>15. CASE Cleanup
  <2> DEFINE inserted == UNION {q.missing : q \in {q \in Drafts : q.pc = "complete"}}
  <2>1. PICK kept \in SUBSET Rows : contents' = [u \in kept |-> contents[u]]
    BY <1>15, CleanupKeeps
  <2>2. Rows' \subseteq Unit /\ contents' \in [Rows' -> Bytes \cup {NoBytes}]
    BY <2>1 DEF Rows, TypeInv
  <2>3. inserted \subseteq Page
    BY DEF TypeInv, RequestType, Drafts
  <2>4. UNION {listed[repo] : repo \in Repository} \subseteq Page
    BY DEF TypeInv
  <2>5. pages' \subseteq Page
    BY <1>15, <2>3, <2>4 DEF Cleanup
  <2>6. packages' \in [Pom -> Package \cup {NoPackage}]
    BY <1>15 DEF Cleanup, TypeInv
  <2> QED BY <1>15, <2>2, <2>5, <2>6 DEF Cleanup, TypeInv
<1>16. CASE UNCHANGED vars
  BY <1>16 DEF vars, TypeInv, Rows
<1> QED BY <1>1, <1>2, <1>3, <1>4, <1>5, <1>6, <1>7, <1>8, <1>9, <1>10, <1>11, <1>12, <1>13,
           <1>14, <1>15, <1>16 DEF Next, Create, Task

-----------------------------------------------------------------------------
(* What steps do to the rows that others see.                               *)

\* A request that is stopped or has not got to its task does not touch versions.
LEMMA EarlyStep ==
  ASSUME TypeInv, NEW r \in Request,
         \/ \E repo \in Repository, path \in File, bytes \in Bytes : Begin(r, repo, path, bytes)
         \/ Create(r) \/ Crash(r)
  PROVE  /\ \E q : Advance(r, q) /\ q.pc \notin Drafting
         /\ latest' = latest /\ listed' = listed /\ Rows \subseteq Rows'
<1> USE DEF Drafting, Paging
<1>1. ASSUME NEW repo \in Repository, NEW path \in File, NEW bytes \in Bytes,
             Begin(r, repo, path, bytes)
      PROVE  /\ \E q : Advance(r, q) /\ q.pc \notin Drafting
             /\ latest' = latest /\ listed' = listed /\ Rows \subseteq Rows'
  <2>1. deploys + 1 \in 1 .. MaxDeploys
    BY <1>1, NextNumber DEF Begin
  <2> DEFINE q == [Idle EXCEPT !.pc = "content", !.repository = repo, !.path = path,
                               !.bytes = bytes, !.number = deploys + 1]
  <2>2. q.pc = "content"
    BY DEF Idle
  <2>3. Advance(r, q) /\ latest' = latest /\ listed' = listed /\ contents' = contents
    BY <1>1 DEF Begin
  <2> HIDE DEF q
  <2> QED BY <2>2, <2>3 DEF Rows
<1> DEFINE p == requests[r]
<1>2. p \in RequestType
  BY DEF TypeInv
<1>3. ASSUME NEW pc \in {"artifact", "package", "details", "dispatch", "add"}
      PROVE  /\ [p EXCEPT !.pc = pc].pc \notin Drafting
             /\ \A unit : [p EXCEPT !.pc = pc, !.unit = unit].pc \notin Drafting
             /\ \A units : [p EXCEPT !.pc = pc, !.remove = units].pc \notin Drafting
             /\ \A by, saved :
                  [p EXCEPT !.pc = pc, !.package = by, !.saved = saved].pc \notin Drafting
  BY <1>2 DEF RequestType
<1>4. Idle.pc \notin Drafting
  BY IdleType
<1>5. CASE SaveContent(r)
  BY <1>5, <1>3, <1>4 DEF SaveContent, Rows
<1>6. CASE SaveArtifact(r)
  BY <1>6, <1>3, <1>4 DEF SaveArtifact, Rows
<1>7. CASE EnsurePackage(r)
  BY <1>7, <1>3 DEF EnsurePackage, Rows
<1>8. CASE SaveDetails(r)
  BY <1>8, <1>3, <1>4 DEF SaveDetails, Rows
<1>9. CASE Dispatch(r)
  BY <1>9, <1>3, <1>4 DEF Dispatch, Rows
<1>10. CASE Crash(r)
  BY <1>10, <1>4 DEF Crash, Rows
<1> QED BY <1>1, <1>5, <1>6, <1>7, <1>8, <1>9, <1>10 DEF Create

\* A task that looks for packages and pages keeps the content that it has drafted.
LEMMA DraftStep ==
  ASSUME TypeInv, NEW r \in Request,
         EnsureInVersion(r) \/ DescribeInVersion(r) \/ LookUpPages(r) \/ InsertPages(r)
  PROVE  /\ \E q : Advance(r, q) /\ (q.pc \in Drafting => q.units = requests[r].units)
         /\ requests[r].pc \in Drafting
         /\ latest' = latest /\ listed' = listed /\ contents' = contents
<1> DEFINE p == requests[r]
<1>1. p \in RequestType
  BY DEF TypeInv
<1>3. Idle.pc \notin Drafting
  BY IdleType DEF Drafting, Paging
<1>4. p.pc \in Drafting
  BY DEF EnsureInVersion, DescribeInVersion, LookUpPages, InsertPages, Stage, Drafting, Paging
<1>5. latest' = latest /\ listed' = listed /\ contents' = contents
  BY DEF EnsureInVersion, DescribeInVersion, LookUpPages, InsertPages
<1> DEFINE to == PomOf[p.unit.path]
<1>6. CASE EnsureInVersion(r)
  <2> DEFINE saved == IF packages[to] = NoPackage THEN p.saved \cup {to} ELSE p.saved
             by == IF packages[to] = NoPackage THEN None ELSE packages[to].by
             k == [p EXCEPT !.pc = "lookup"]
             m == [p EXCEPT !.pc = "lookup", !.package = by]
             n == [p EXCEPT !.pc = "describe", !.package = Ensured(to, p.number).by,
                            !.saved = saved]
  <2>1. Advance(r, k) \/ Advance(r, m) \/ Advance(r, n)
    BY <1>6 DEF EnsureInVersion
  <2>2. k.units = p.units /\ m.units = p.units /\ n.units = p.units
    BY <1>1 DEF RequestType
  <2> HIDE DEF k, m, n
  <2> QED BY <1>4, <1>5, <2>1, <2>2
<1>7. CASE DescribeInVersion(r)
  <2> DEFINE n == [p EXCEPT !.pc = "lookup", !.saved = p.saved \cup {to}]
  <2>1. Advance(r, Idle) \/ Advance(r, n)
    BY <1>7 DEF DescribeInVersion
  <2>2. n.units = p.units
    BY <1>1 DEF RequestType
  <2> HIDE DEF n
  <2> QED BY <1>3, <1>4, <1>5, <2>1, <2>2
<1>8. CASE LookUpPages(r)
  <2> DEFINE by == IF p.package # None /\ Holds(p, to) THEN p.package ELSE None
             n == [p EXCEPT !.pc = "insert", !.package = by,
                            !.found = PagesOf(p.units) \cap pages,
                            !.missing = PagesOf(p.units) \ pages]
  <2>1. Advance(r, n)
    BY <1>8 DEF LookUpPages
  <2>2. n.units = p.units
    BY <1>1 DEF RequestType
  <2> HIDE DEF n
  <2> QED BY <1>4, <1>5, <2>1, <2>2
<1>9. CASE InsertPages(r)
  <2> DEFINE n == [p EXCEPT !.pc = "complete", !.found = p.found \cup p.missing]
  <2>1. Advance(r, n)
    BY <1>9 DEF InsertPages
  <2>2. n.units = p.units
    BY <1>1 DEF RequestType
  <2> HIDE DEF n
  <2> QED BY <1>4, <1>5, <2>1, <2>2
<1> QED BY <1>6, <1>7, <1>8, <1>9

\* Nothing is taken away or changed, except by the orphan cleanup.
LEMMA RowsGrow ==
  ASSUME TypeInv, Next, ~Cleanup
  PROVE  /\ env' = env
         /\ Rows \subseteq Rows'
         /\ \A u \in Rows : contents[u] # NoBytes => contents'[u] = contents[u]
         /\ pages \subseteq pages'
<1>1. ASSUME NEW r \in Request, SaveContent(r)
      PROVE  /\ env' = env /\ Rows \subseteq Rows' /\ pages' = pages
             /\ \A u \in Rows : contents[u] # NoBytes => contents'[u] = contents[u]
  <2> DEFINE q == requests[r]
             new == [path |-> q.path, by |-> q.number,
                     digest |-> IF q.path \in Metadata THEN q.bytes ELSE NoBytes]
  <2>1. \/ UNCHANGED contents
        \/ contents' = [u \in Rows \cup {new} |->
                                IF u \in Rows THEN contents[u] ELSE NoBytes]
    BY <1>1 DEF SaveContent
  <2> QED BY <1>1, <2>1 DEF SaveContent, Rows
<1>2. ASSUME NEW r \in Request, SaveArtifact(r)
      PROVE  /\ env' = env /\ Rows \subseteq Rows' /\ pages' = pages
             /\ \A u \in Rows : contents[u] # NoBytes => contents'[u] = contents[u]
  BY <1>2 DEF SaveArtifact, Stored, Rows, TypeInv
<1>3. ASSUME NEW r \in Request, InsertPages(r)
      PROVE  env' = env /\ contents' = contents /\ pages \subseteq pages'
  BY <1>3 DEF InsertPages
<1>4. ASSUME NEW repo \in Repository, NEW unit \in latest[repo], Remove(repo, unit)
      PROVE  env' = env /\ contents' = contents /\ pages \subseteq pages'
  BY <1>4 DEF Remove
<1>5. ASSUME NEW r \in Request,
             \/ \E repo \in Repository, path \in File, bytes \in Bytes :
                    Begin(r, repo, path, bytes)
             \/ EnsurePackage(r) \/ SaveDetails(r) \/ Dispatch(r) \/ AddContent(r)
             \/ EnsureInVersion(r) \/ DescribeInVersion(r)
             \/ LookUpPages(r) \/ Complete(r) \/ Crash(r)
      PROVE  env' = env /\ contents' = contents /\ pages' = pages
  BY <1>5 DEF Begin, EnsurePackage, SaveDetails, Dispatch, AddContent, EnsureInVersion,
               DescribeInVersion, LookUpPages, Complete, Crash
<1>6. \/ \E r \in Request : SaveContent(r)
      \/ \E r \in Request : SaveArtifact(r)
      \/ \E r \in Request : InsertPages(r)
      \/ \E repo \in Repository : \E unit \in latest[repo] : Remove(repo, unit)
      \/ \E r \in Request :
            \/ \E repo \in Repository, path \in File, bytes \in Bytes :
                    Begin(r, repo, path, bytes)
            \/ EnsurePackage(r) \/ SaveDetails(r) \/ Dispatch(r) \/ AddContent(r)
            \/ EnsureInVersion(r) \/ DescribeInVersion(r)
            \/ LookUpPages(r) \/ Complete(r) \/ Crash(r)
  BY Zenon DEF Next, Create, Task
<1> QED BY <1>1, <1>2, <1>3, <1>4, <1>5, <1>6 DEF Rows

-----------------------------------------------------------------------------
(* What versions use exists.                                                *)

LEMMA UsedMoved ==
  ASSUME TypeInv, UsedExist, NEW r \in Request, NEW q, Advance(r, q),
         q.pc \in Drafting => q.units \subseteq Rows',
         Rows \subseteq Rows',
         \A repo \in Repository : latest'[repo] \subseteq Rows'
  PROVE  UsedExist'
<1>1. ASSUME NEW s \in Request, Drafted(s)'
      PROVE  requests'[s].units \subseteq Rows'
  <2>1. CASE s = r
    BY <1>1, <2>1, Moved DEF TypeInv, Drafted, Drafting, Paging
  <2>2. CASE s # r
    BY <1>1, <2>2, Moved DEF TypeInv, Drafted, UsedExist
  <2> QED BY <2>1, <2>2
<1> QED BY <1>1 DEF UsedExist

LEMMA UsedNext == TypeInv /\ UsedExist /\ [Next]_vars => UsedExist'
<1> SUFFICES ASSUME TypeInv, UsedExist, [Next]_vars PROVE UsedExist'
  OBVIOUS
<1>1. ASSUME NEW r \in Request,
             \/ \E repo \in Repository, path \in File, bytes \in Bytes :
                    Begin(r, repo, path, bytes)
             \/ Create(r) \/ Crash(r)
      PROVE  UsedExist'
  <2>1. PICK q : Advance(r, q) /\ q.pc \notin Drafting
    BY <1>1, EarlyStep
  <2>2. latest' = latest /\ Rows \subseteq Rows'
    BY <1>1, EarlyStep
  <2> QED BY <2>1, <2>2, UsedMoved DEF UsedExist
<1>2. ASSUME NEW r \in Request, AddContent(r) PROVE UsedExist'
  <2> DEFINE q == requests[r]
             n == [q EXCEPT !.pc = "ensure", !.units = Merged(q)]
  <2>1. q \in RequestType /\ Knows(q) /\ q.pc = "add"
    BY <1>2 DEF AddContent, Stage, TypeInv
  <2>2. Merged(q) \subseteq Rows
    BY <2>1 DEF Merged, Knows, UsedExist, Later, Saved
  <2>3. Advance(r, n) /\ latest' = latest /\ Rows' = Rows
    BY <1>2 DEF AddContent, Rows
  <2>4. n.units = Merged(q)
    BY <2>1 DEF RequestType
  <2> HIDE DEF n
  <2> QED BY <2>2, <2>3, <2>4, UsedMoved DEF UsedExist
<1>3. ASSUME NEW r \in Request,
             EnsureInVersion(r) \/ DescribeInVersion(r) \/ LookUpPages(r) \/ InsertPages(r)
      PROVE  UsedExist'
  <2>1. PICK q : Advance(r, q) /\ (q.pc \in Drafting => q.units = requests[r].units)
    BY <1>3, DraftStep
  <2>2. requests[r].pc \in Drafting /\ latest' = latest /\ Rows' = Rows
    BY <1>3, DraftStep DEF Rows
  <2>3. requests[r].units \subseteq Rows
    BY <2>2 DEF UsedExist, Drafted, Drafting, Paging
  <2> QED BY <2>1, <2>2, <2>3, UsedMoved DEF UsedExist
<1>4. ASSUME NEW r \in Request, Complete(r) PROVE UsedExist'
  <2> DEFINE q == requests[r]
  <2>1. q.units \subseteq Rows /\ Rows' = Rows
    BY <1>4 DEF Complete, Stage, UsedExist, Drafted, Rows
  <2>2. latest' = [latest EXCEPT ![q.repository] = q.units] /\ Advance(r, Idle)
    BY <1>4 DEF Complete
  <2>3. \A repo \in Repository : latest'[repo] \subseteq Rows'
    BY <2>1, <2>2 DEF UsedExist, TypeInv
  <2> QED BY <2>1, <2>2, <2>3, IdleType, UsedMoved DEF Drafting, Paging
<1>5. ASSUME NEW repo \in Repository, NEW unit \in latest[repo], Remove(repo, unit)
      PROVE  UsedExist'
  BY <1>5 DEF Remove, UsedExist, TypeInv, Rows, Drafted
<1>6. CASE Cleanup
  <2>1. PICK kept \in SUBSET Rows :
            /\ contents' = [u \in kept |-> contents[u]]
            /\ \A repo \in Repository : latest[repo] \subseteq kept
            /\ \A r \in Request : Drafted(r) => requests[r].units \subseteq kept
    BY <1>6, CleanupKeeps
  <2>2. Rows' = kept /\ latest' = latest /\ requests' = requests
    BY <1>6, <2>1 DEF Cleanup, Rows
  <2> QED BY <2>1, <2>2 DEF UsedExist, Drafted
<1>7. CASE UNCHANGED vars
  BY <1>7 DEF vars, UsedExist, Rows, Drafted
<1> QED BY <1>1, <1>2, <1>3, <1>4, <1>5, <1>6, <1>7 DEF Next, Task

-----------------------------------------------------------------------------
(* A path has one unit.                                                     *)

LEMMA UniqueMoved ==
  ASSUME TypeInv, UniqueInv, NEW r \in Request, NEW q, Advance(r, q),
         q.pc \in Drafting => Unique(q.units),
         \A repo \in Repository : Unique(latest'[repo])
  PROVE  UniqueInv'
<1>1. ASSUME NEW s \in Request, Drafted(s)'
      PROVE  Unique(requests'[s].units)
  <2>1. CASE s = r
    BY <1>1, <2>1, Moved DEF TypeInv, Drafted, Drafting, Paging
  <2>2. CASE s # r
    BY <1>1, <2>2, Moved DEF TypeInv, Drafted, UniqueInv
  <2> QED BY <2>1, <2>2
<1> QED BY <1>1 DEF UniqueInv, Unique

LEMMA UniqueNext == TypeInv /\ UniqueInv /\ [Next]_vars => UniqueInv'
<1> SUFFICES ASSUME TypeInv, UniqueInv, [Next]_vars PROVE UniqueInv'
  OBVIOUS
<1>1. ASSUME NEW r \in Request,
             \/ \E repo \in Repository, path \in File, bytes \in Bytes :
                    Begin(r, repo, path, bytes)
             \/ Create(r) \/ Crash(r)
      PROVE  UniqueInv'
  <2>1. PICK q : Advance(r, q) /\ q.pc \notin Drafting
    BY <1>1, EarlyStep
  <2>2. latest' = latest
    BY <1>1, EarlyStep
  <2> QED BY <2>1, <2>2, UniqueMoved DEF UniqueInv
<1>2. ASSUME NEW r \in Request, AddContent(r) PROVE UniqueInv'
  <2> DEFINE q == requests[r]
             n == [q EXCEPT !.pc = "ensure", !.units = Merged(q)]
  <2>1. q \in RequestType /\ Knows(q) /\ q.pc = "add"
    BY <1>2 DEF AddContent, Stage, TypeInv
  <2>2. Unique(latest[q.repository])
    BY <2>1 DEF Knows, UniqueInv
  <2>3. Unique(Merged(q))
    BY <2>2 DEF Merged, Unique
  <2>4. Advance(r, n) /\ latest' = latest
    BY <1>2 DEF AddContent
  <2>5. n.units = Merged(q)
    BY <2>1 DEF RequestType
  <2> HIDE DEF n
  <2> QED BY <2>3, <2>4, <2>5, UniqueMoved DEF UniqueInv
<1>3. ASSUME NEW r \in Request,
             EnsureInVersion(r) \/ DescribeInVersion(r) \/ LookUpPages(r) \/ InsertPages(r)
      PROVE  UniqueInv'
  <2>1. PICK q : Advance(r, q) /\ (q.pc \in Drafting => q.units = requests[r].units)
    BY <1>3, DraftStep
  <2>2. requests[r].pc \in Drafting /\ latest' = latest
    BY <1>3, DraftStep
  <2>3. Unique(requests[r].units)
    BY <2>2 DEF UniqueInv, Drafted, Drafting, Paging
  <2> QED BY <2>1, <2>2, <2>3, UniqueMoved DEF UniqueInv
<1>4. ASSUME NEW r \in Request, Complete(r) PROVE UniqueInv'
  <2> DEFINE q == requests[r]
  <2>1. Unique(q.units)
    BY <1>4 DEF Complete, Stage, UniqueInv, Drafted
  <2>2. latest' = [latest EXCEPT ![q.repository] = q.units] /\ Advance(r, Idle)
    BY <1>4 DEF Complete
  <2>3. \A repo \in Repository : Unique(latest'[repo])
    BY <2>1, <2>2 DEF UniqueInv, TypeInv
  <2> QED BY <2>2, <2>3, IdleType, UniqueMoved DEF Drafting, Paging
<1>5. ASSUME NEW repo \in Repository, NEW unit \in latest[repo], Remove(repo, unit)
      PROVE  UniqueInv'
  BY <1>5 DEF Remove, UniqueInv, Unique, TypeInv, Drafted
<1>6. CASE Cleanup \/ UNCHANGED vars
  BY <1>6 DEF Cleanup, vars, UniqueInv, Unique, Drafted
<1> QED BY <1>1, <1>2, <1>3, <1>4, <1>5, <1>6 DEF Next, Task

-----------------------------------------------------------------------------
(* What happens to packages.                                                *)

\* A step keeps the package of p, and what was read of a release's POM.
PackageKept(p) ==
    packages[p] # NoPackage =>
        /\ packages'[p] # NoPackage /\ packages'[p].by = packages[p].by
        /\ p \notin Snapshot /\ packages[p].details # NoBytes => packages'[p] = packages[p]

LEMMA KeptEnsured ==
  ASSUME TypeInv, NEW p \in Pom, NEW number \in 0 .. MaxDeploys,
         packages' = [packages EXCEPT ![p] = Ensured(p, number)]
  PROVE  \A other \in Pom : PackageKept(other)
  BY EnsuredType DEF PackageKept, TypeInv

LEMMA KeptSaved ==
  ASSUME TypeInv, NEW p \in Pom, NEW row \in Package,
         packages' = [packages EXCEPT ![p] = row],
         packages[p] # NoPackage =>
            row.by = packages[p].by /\ (p \in Snapshot \/ packages[p].details = NoBytes)
  PROVE  \A other \in Pom : PackageKept(other)
<1>1. row # NoPackage
  BY DeployAssumption
<1> QED BY <1>1 DEF PackageKept, TypeInv

\* The steps that write packages.
Writes ==
    \/ \E r \in Request :
          EnsurePackage(r) \/ SaveDetails(r) \/ EnsureInVersion(r) \/ DescribeInVersion(r)
    \/ \E repo \in Repository : \E unit \in latest[repo] : Remove(repo, unit)

LEMMA PackageSteps == [Next]_vars => Writes \/ packages' = packages \/ Cleanup
  BY DEF Next, Create, Task, Begin, SaveContent, SaveArtifact, Dispatch, AddContent,
         LookUpPages, InsertPages, Complete, Crash, vars, Writes

\* Only the orphan cleanup takes packages away.
LEMMA PackagesStay ==
  ASSUME TypeInv, DetailsInv, Writes
  PROVE  \A p \in Pom : PackageKept(p)
<1>1. ASSUME NEW r \in Request, EnsurePackage(r) PROVE \A p \in Pom : PackageKept(p)
  <2>1. requests[r].path \in Pom /\ requests[r].number \in 0 .. MaxDeploys
    BY <1>1 DEF EnsurePackage, Stage, TypeInv, Knows, RequestType
  <2> QED BY <1>1, <2>1, KeptEnsured DEF EnsurePackage
<1>2. ASSUME NEW r \in Request, SaveDetails(r) PROVE \A p \in Pom : PackageKept(p)
  <2> DEFINE q == requests[r]
             row == [by |-> q.package, details |-> q.bytes]
  <2>1. Knows(q) /\ q.pc = "details"
    BY <1>2 DEF SaveDetails, Stage, TypeInv
  <2>2. q.path \in Pom /\ row \in Package
    BY <2>1 DEF Knows, Package
  <2>3. q.path \in Snapshot \/ packages[q.path].details = NoBytes
    BY <2>1, <2>2 DEF DetailsInv, Reads
  <2>4. CASE packages' = packages
    BY <2>4 DEF PackageKept
  <2>5. CASE packages' # packages
    <3>1. /\ packages' = [packages EXCEPT ![q.path] = row]
          /\ packages[q.path] # NoPackage => packages[q.path].by = row.by
      BY <1>2, <2>5 DEF SaveDetails, Holds
    <3> HIDE DEF row
    <3> QED BY <2>2, <2>3, <3>1, KeptSaved
  <2> QED BY <2>4, <2>5
<1>3. ASSUME NEW r \in Request, EnsureInVersion(r) PROVE \A p \in Pom : PackageKept(p)
  <2> DEFINE q == requests[r]
  <2>1. CASE packages' = packages
    BY <2>1 DEF PackageKept
  <2>2. CASE packages' # packages
    <3>1. /\ Affected(q)
          /\ packages' = [packages EXCEPT ![PomOf[q.unit.path]] =
                                Ensured(PomOf[q.unit.path], q.number)]
      BY <1>3, <2>2 DEF EnsureInVersion
    <3>2. q.unit \in Unit /\ q.number \in 0 .. MaxDeploys
      BY <1>3 DEF EnsureInVersion, Stage, TypeInv, Knows, RequestType, Later, Saved, Drafting
    <3>3. PomOf[q.unit.path] \in Pom
      BY <3>1, <3>2, DeployAssumption DEF Affected, Unit
    <3> QED BY <3>1, <3>2, <3>3, KeptEnsured
  <2> QED BY <2>1, <2>2
<1>4. ASSUME NEW r \in Request, DescribeInVersion(r) PROVE \A p \in Pom : PackageKept(p)
  <2> DEFINE q == requests[r]
             to == PomOf[q.unit.path]
  <2>1. Knows(q) /\ q.pc = "describe"
    BY <1>4 DEF DescribeInVersion, Stage, TypeInv
  <2>2. q.package \in 0 .. MaxDeploys /\ to \in Pom
    BY <2>1, DeployAssumption DEF Knows, Later, Saved, Drafting, Unit
  <2>3. to \in Snapshot \/ packages[to].details = NoBytes
    BY <2>1, <2>2 DEF DetailsInv, Reads
  <2>4. CASE packages' = packages
    BY <2>4 DEF PackageKept
  <2>5. CASE packages' # packages
    <3>1. PICK bytes \in PomBytes(to, q.units) :
                packages' = [packages EXCEPT ![to] = [by |-> q.package, details |-> bytes]]
      BY <1>4, <2>5 DEF DescribeInVersion
    <3>2. packages[to] # NoPackage => packages[to].by = q.package
      BY <1>4, <2>5 DEF DescribeInVersion, Holds
    <3> DEFINE row == [by |-> q.package, details |-> bytes]
    <3>3. row \in Package /\ row.by = q.package
      BY <2>2, PomBytesType DEF Package
    <3>4. packages' = [packages EXCEPT ![to] = row]
      BY <3>1
    <3> HIDE DEF row, to
    <3> QED BY <2>2, <2>3, <3>2, <3>3, <3>4, KeptSaved
  <2> QED BY <2>4, <2>5
<1>5. ASSUME NEW repo \in Repository, NEW unit \in latest[repo], Remove(repo, unit)
      PROVE  \A p \in Pom : PackageKept(p)
  <2> DEFINE to == PomOf[unit.path]
             units == latest[repo] \ {unit}
  <2>1. CASE packages' = packages
    BY <2>1 DEF PackageKept
  <2>2. CASE packages' # packages
    <3>1. unit.path \notin Metadata /\ MustRead(to)
      BY <1>5, <2>2 DEF Remove
    <3>2. PICK bytes \in PomBytes(to, units) :
            packages' = [packages EXCEPT ![to] = [by |-> Ensured(to, 0).by, details |-> bytes]]
      BY <1>5, <2>2 DEF Remove
    <3>3. to \in Pom
      BY <3>1, DeployAssumption DEF TypeInv, Unit
    <3> DEFINE row == [by |-> Ensured(to, 0).by, details |-> bytes]
    <3>4. row \in Package /\ row.by = Ensured(to, 0).by
      BY <3>3, EnsuredType, PomBytesType, DeployAssumption DEF Package
    <3>5. packages[to] # NoPackage => row.by = packages[to].by
      BY <3>3, <3>4, EnsuredType, DeployAssumption
    <3>6. packages[to] # NoPackage => to \in Snapshot
      BY <3>1 DEF MustRead
    <3>7. packages' = [packages EXCEPT ![to] = row]
      BY <3>2
    <3> HIDE DEF row, to
    <3> QED BY <3>3, <3>4, <3>5, <3>6, <3>7, KeptSaved
  <2> QED BY <2>1, <2>2
<1> QED BY <1>1, <1>2, <1>3, <1>4, <1>5 DEF Writes

\* A request has saved what it had saved before, or what is there after the step.
LEMMA PackagesMoved ==
  ASSUME TypeInv, DetailsInv, PackagesExist, Writes,
         NEW r \in Request, NEW q, Advance(r, q), q.pc \notin Paging,
         q.pc # "idle" => \A p \in q.saved :
            packages'[p] # NoPackage \/ (requests[r].pc # "idle" /\ p \in requests[r].saved),
         \A repo \in Repository : described'[repo] \subseteq Pom
            /\ \A p \in described'[repo] : packages[p] # NoPackage
  PROVE  PackagesExist'
<1>1. \A p \in Pom : packages[p] # NoPackage => packages'[p] # NoPackage
  BY PackagesStay DEF PackageKept
<1>2. \A s \in Request : /\ requests[s].saved \subseteq Pom
                         /\ requests[s].pc \in Paging => Attached(requests[s]) \subseteq Pom
  <2>1. ASSUME NEW p \in RequestType, Knows(p), p.pc \in Paging PROVE Attached(p) \subseteq Pom
    BY <2>1, DeployAssumption DEF Attached, Knows, Later, Saved, Drafting, Paging, Unit
  <2> QED BY <2>1 DEF TypeInv, RequestType
<1>3. requests'[r] = q /\ \A s \in Request \ {r} : requests'[s] = requests[s]
  BY Moved DEF TypeInv
<1>4. ASSUME NEW s \in Request
      PROVE  /\ requests'[s].pc # "idle" => \A p \in requests'[s].saved : packages'[p] # NoPackage
             /\ requests'[s].pc \in Paging =>
                    \A p \in Attached(requests'[s]) : packages'[p] # NoPackage
  <2>1. CASE s = r
    BY <1>1, <1>2, <1>3, <2>1 DEF PackagesExist
  <2>2. CASE s # r
    BY <1>1, <1>2, <1>3, <2>2 DEF PackagesExist
  <2> QED BY <2>1, <2>2
<1>5. \A repo \in Repository : \A p \in described'[repo] : packages'[p] # NoPackage
  BY <1>1
<1> QED BY <1>4, <1>5 DEF PackagesExist, Attached

\* Steps of a request that have nothing to do with packages.
LEMMA QuietStep ==
  ASSUME TypeInv, NEW r \in Request,
         \/ SaveContent(r) \/ SaveArtifact(r) \/ Dispatch(r) \/ AddContent(r)
         \/ LookUpPages(r) \/ InsertPages(r) \/ Complete(r) \/ Crash(r)
  PROVE  \E q : /\ Advance(r, q) /\ q.pc \notin {"details", "describe"}
                /\ q.pc = "idle" \/ q.saved = requests[r].saved
                /\ q.pc \in Paging => Stage(r, "lookup") \/ Stage(r, "insert")
<1> DEFINE p == requests[r]
<1>1. p \in RequestType
  BY DEF TypeInv
<1>2. CASE Advance(r, Idle)
  BY <1>2, IdleType DEF Paging
<1>3. CASE SaveContent(r) /\ ~Advance(r, Idle)
  <2>1. PICK unit : Advance(r, [p EXCEPT !.pc = "artifact", !.unit = unit])
    BY <1>3 DEF SaveContent
  <2> DEFINE n == [p EXCEPT !.pc = "artifact", !.unit = unit]
  <2>2. n.pc = "artifact" /\ n.saved = p.saved
    BY <1>1 DEF RequestType
  <2>3. Advance(r, n)
    BY <2>1
  <2> HIDE DEF n
  <2> QED BY <2>2, <2>3 DEF Paging
<1>4. CASE SaveArtifact(r) /\ ~Advance(r, Idle)
  <2> DEFINE pc == IF p.path \in Pom THEN "package" ELSE "dispatch"
             n == [p EXCEPT !.pc = pc, !.remove = Replaced(p)]
  <2>1. Advance(r, n)
    BY <1>4 DEF SaveArtifact
  <2>2. n.pc = pc /\ n.saved = p.saved
    BY <1>1 DEF RequestType
  <2> HIDE DEF n
  <2> QED BY <2>1, <2>2 DEF Paging
<1>5. CASE Dispatch(r) /\ ~Advance(r, Idle)
  <2> DEFINE n == [p EXCEPT !.pc = "add"]
  <2>1. Advance(r, n)
    BY <1>5 DEF Dispatch
  <2>2. n.pc = "add" /\ n.saved = p.saved
    BY <1>1 DEF RequestType
  <2> HIDE DEF n
  <2> QED BY <2>1, <2>2 DEF Paging
<1>6. CASE AddContent(r)
  <2> DEFINE n == [p EXCEPT !.pc = "ensure", !.units = Merged(p)]
  <2>1. Advance(r, n)
    BY <1>6 DEF AddContent
  <2>2. n.pc = "ensure" /\ n.saved = p.saved
    BY <1>1 DEF RequestType
  <2> HIDE DEF n
  <2> QED BY <2>1, <2>2 DEF Paging
<1>7. CASE LookUpPages(r)
  <2> DEFINE by == IF p.package # None /\ Holds(p, PomOf[p.unit.path]) THEN p.package ELSE None
             n == [p EXCEPT !.pc = "insert", !.package = by,
                            !.found = PagesOf(p.units) \cap pages,
                            !.missing = PagesOf(p.units) \ pages]
  <2>1. Advance(r, n)
    BY <1>7 DEF LookUpPages
  <2>2. n.pc = "insert" /\ n.saved = p.saved
    BY <1>1 DEF RequestType
  <2> HIDE DEF n
  <2> QED BY <1>7, <2>1, <2>2 DEF LookUpPages
<1>8. CASE InsertPages(r)
  <2> DEFINE n == [p EXCEPT !.pc = "complete", !.found = p.found \cup p.missing]
  <2>1. Advance(r, n)
    BY <1>8 DEF InsertPages
  <2>2. n.pc = "complete" /\ n.saved = p.saved
    BY <1>1 DEF RequestType
  <2> HIDE DEF n
  <2> QED BY <1>8, <2>1, <2>2 DEF InsertPages
<1> QED BY <1>2, <1>3, <1>4, <1>5, <1>6, <1>7, <1>8 DEF Complete, Crash

\* A step of a request that saves no package, and leaves those of versions alone.
LEMMA PackagesSame ==
  ASSUME TypeInv, PackagesExist, NEW r \in Request, NEW q, Advance(r, q),
         packages' = packages, described' = described,
         q.pc # "idle" =>
            q.saved = {} \/ (requests[r].pc # "idle" /\ q.saved = requests[r].saved),
         q.pc \in Paging => \A p \in Attached(q) : packages[p] # NoPackage
  PROVE  PackagesExist'
<1>1. requests'[r] = q /\ \A s \in Request \ {r} : requests'[s] = requests[s]
  BY Moved DEF TypeInv
<1>2. ASSUME NEW s \in Request
      PROVE  /\ requests'[s].pc # "idle" => \A p \in requests'[s].saved : packages'[p] # NoPackage
             /\ requests'[s].pc \in Paging =>
                    \A p \in Attached(requests'[s]) : packages'[p] # NoPackage
  BY <1>1 DEF PackagesExist
<1>3. \A repo \in Repository : \A p \in described'[repo] : packages'[p] # NoPackage
  BY DEF PackagesExist
<1> QED BY <1>2, <1>3 DEF PackagesExist, Attached

LEMMA PackagesNext ==
  TypeInv /\ DetailsInv /\ PackagesExist /\ [Next]_vars => PackagesExist'
<1> SUFFICES ASSUME TypeInv, DetailsInv, PackagesExist, [Next]_vars PROVE PackagesExist'
  OBVIOUS
<1> USE DEF Paging
<1>0. \A repo \in Repository :
          described[repo] \subseteq Pom /\ \A p \in described[repo] : packages[p] # NoPackage
  BY DEF TypeInv, PackagesExist
<1>1. ASSUME NEW r \in Request, NEW repo \in Repository, NEW path \in File,
             NEW bytes \in Bytes, Begin(r, repo, path, bytes)
      PROVE  PackagesExist'
  <2> DEFINE n == [Idle EXCEPT !.pc = "content", !.repository = repo, !.path = path,
                               !.bytes = bytes, !.number = deploys + 1]
  <2>1. n.pc = "content" /\ n.saved = {}
    BY DEF Idle
  <2>2. Advance(r, n) /\ packages' = packages /\ described' = described
    BY <1>1 DEF Begin
  <2> HIDE DEF n
  <2> QED BY <2>1, <2>2, PackagesSame
<1>2. ASSUME NEW r \in Request,
             SaveContent(r) \/ SaveArtifact(r) \/ Dispatch(r) \/ AddContent(r)
      PROVE  PackagesExist'
  <2>1. PICK q : /\ Advance(r, q) /\ q.pc \notin Paging
                 /\ q.pc = "idle" \/ q.saved = requests[r].saved
    BY <1>2, QuietStep DEF SaveContent, SaveArtifact, Dispatch, AddContent, Stage
  <2>2. requests[r].pc # "idle" /\ packages' = packages /\ described' = described
    BY <1>2 DEF SaveContent, SaveArtifact, Dispatch, AddContent, Stage
  <2> QED BY <2>1, <2>2, PackagesSame
<1>3. ASSUME NEW r \in Request, EnsurePackage(r) \/ SaveDetails(r) PROVE PackagesExist'
  <2> DEFINE p == requests[r]
  <2>1. p \in RequestType /\ Knows(p) /\ p.pc \in {"package", "details"}
    BY <1>3 DEF EnsurePackage, SaveDetails, Stage, TypeInv
  <2>2. p.path \in Pom /\ p.number \in 0 .. MaxDeploys
    BY <2>1 DEF Knows, RequestType
  <2>3. Writes /\ described' = described
    BY <1>3 DEF Writes, EnsurePackage, SaveDetails
  <2>4. CASE EnsurePackage(r)
    <3> DEFINE row == Ensured(p.path, p.number)
               made == IF packages[p.path] = NoPackage THEN {p.path} ELSE {}
               n == [p EXCEPT !.pc = "details", !.package = row.by, !.saved = made]
               m == [p EXCEPT !.pc = "dispatch"]
    <3>1. packages' = [packages EXCEPT ![p.path] = row] /\ row # NoPackage
      BY <2>2, <2>4, EnsuredType DEF EnsurePackage
    <3>2. packages'[p.path] # NoPackage
      BY <2>2, <3>1 DEF TypeInv
    <3>3. Advance(r, n) \/ Advance(r, m)
      BY <2>4 DEF EnsurePackage
    <3>4. m.pc = "dispatch" /\ m.saved = p.saved /\ n.pc = "details" /\ n.saved = made
      BY <2>1 DEF RequestType
    <3>5. \A s \in made : s = p.path
      OBVIOUS
    <3> HIDE DEF n, m, made
    <3>6. \E q : /\ Advance(r, q) /\ q.pc \notin Paging
                /\ \A s \in q.saved : s = p.path \/ s \in p.saved
      BY <3>3, <3>4, <3>5
    <3> QED BY <1>0, <2>1, <2>3, <3>2, <3>6, PackagesMoved
  <2>5. CASE SaveDetails(r)
    <3> DEFINE row == [by |-> p.package, details |-> p.bytes]
               n == [p EXCEPT !.pc = "dispatch", !.package = None, !.saved = {p.path}]
    <3>1. row \in Package
      BY <2>1, <2>5 DEF Knows, SaveDetails, Stage, Package
    <3>2. row # NoPackage
      BY <3>1, DeployAssumption
    <3>3. n.pc = "dispatch" /\ n.saved = {p.path}
      BY <2>1 DEF RequestType
    <3>4. \/ Advance(r, Idle)
          \/ Advance(r, n) /\ packages' = [packages EXCEPT ![p.path] = row]
      BY <2>5 DEF SaveDetails
    <3> HIDE DEF n, row
    <3>5. CASE Advance(r, Idle)
      BY <1>0, <2>3, <3>5, IdleType, PackagesMoved
    <3>6. CASE Advance(r, n) /\ packages' = [packages EXCEPT ![p.path] = row]
      <4>1. packages'[p.path] # NoPackage
        BY <2>2, <3>2, <3>6 DEF TypeInv
      <4> QED BY <1>0, <2>3, <3>3, <3>6, <4>1, PackagesMoved
    <3> QED BY <3>4, <3>5, <3>6
  <2> QED BY <1>3, <2>4, <2>5
<1>4. ASSUME NEW r \in Request, EnsureInVersion(r) \/ DescribeInVersion(r)
      PROVE  PackagesExist'
  <2> DEFINE p == requests[r]
             to == PomOf[p.unit.path]
  <2>1. p \in RequestType /\ Knows(p) /\ p.pc \in {"ensure", "describe"}
    BY <1>4 DEF EnsureInVersion, DescribeInVersion, Stage, TypeInv
  <2>2. p.unit \in Unit /\ p.number \in 0 .. MaxDeploys
    BY <2>1 DEF Knows, RequestType, Later, Saved, Drafting
  <2>3. Writes /\ described' = described
    BY <1>4 DEF Writes, EnsureInVersion, DescribeInVersion
  <2>4. CASE EnsureInVersion(r)
    <3> DEFINE row == Ensured(to, p.number)
               made == IF packages[to] = NoPackage THEN p.saved \cup {to} ELSE p.saved
               by == IF packages[to] = NoPackage THEN None ELSE packages[to].by
               k == [p EXCEPT !.pc = "lookup"]
               m == [p EXCEPT !.pc = "lookup", !.package = by]
               n == [p EXCEPT !.pc = "describe", !.package = row.by, !.saved = made]
    <3>1. \/ Advance(r, k) \/ Advance(r, m)
          \/ Advance(r, n) /\ Affected(p) /\ packages' = [packages EXCEPT ![to] = row]
      BY <2>4 DEF EnsureInVersion
    <3>2. /\ k.pc = "lookup" /\ k.saved = p.saved /\ m.pc = "lookup" /\ m.saved = p.saved
          /\ n.pc = "describe" /\ n.saved = made
      BY <2>1 DEF RequestType
    <3>3. \A s \in made : s = to \/ s \in p.saved
      OBVIOUS
    <3> HIDE DEF k, m, n, made, by
    <3>4. CASE Advance(r, n) /\ Affected(p) /\ packages' = [packages EXCEPT ![to] = row]
      <4>1. to \in Pom
        BY <2>2, <3>4, DeployAssumption DEF Affected, Unit
      <4>2. row # NoPackage
        BY <2>2, <4>1, EnsuredType
      <4>3. packages'[to] # NoPackage
        BY <3>4, <4>1, <4>2 DEF TypeInv
      <4> QED BY <1>0, <2>1, <2>3, <3>2, <3>3, <3>4, <4>3, PackagesMoved
    <3>5. CASE Advance(r, k) \/ Advance(r, m)
      BY <1>0, <2>1, <2>3, <3>2, <3>5, PackagesMoved
    <3> QED BY <3>1, <3>4, <3>5
  <2>5. CASE DescribeInVersion(r)
    <3> DEFINE n == [p EXCEPT !.pc = "lookup", !.saved = p.saved \cup {to}]
    <3>1. n.pc = "lookup" /\ n.saved = p.saved \cup {to}
      BY <2>1 DEF RequestType
    <3>2. \/ Advance(r, Idle)
          \/ /\ Advance(r, n)
             /\ \E bytes \in PomBytes(to, p.units) :
                  packages' = [packages EXCEPT ![to] = [by |-> p.package, details |-> bytes]]
      BY <2>5 DEF DescribeInVersion
    <3>3. p.package \in 0 .. MaxDeploys /\ to \in Pom
      BY <2>1, <2>2, <2>5, DeployAssumption DEF DescribeInVersion, Stage, Knows, Later, Saved, Drafting, Unit
    <3>4. \A bytes \in PomBytes(to, p.units) : [by |-> p.package, details |-> bytes] # NoPackage
      <4>1. \A bytes \in PomBytes(to, p.units) : [by |-> p.package, details |-> bytes] \in Package
        BY <3>3, PomBytesType DEF Package
      <4> QED BY <4>1, DeployAssumption
    <3> HIDE DEF n, to
    <3>5. CASE Advance(r, Idle)
      BY <1>0, <2>3, <3>5, IdleType, PackagesMoved
    <3>6. CASE Advance(r, n) /\ ~Advance(r, Idle)
      <4>1. packages'[to] # NoPackage
        BY <3>2, <3>3, <3>4, <3>6 DEF TypeInv
      <4> QED BY <1>0, <2>1, <2>3, <3>1, <3>6, <4>1, PackagesMoved
    <3> QED BY <3>2, <3>5, <3>6
  <2> QED BY <1>4, <2>4, <2>5
<1>5. ASSUME NEW r \in Request, LookUpPages(r) PROVE PackagesExist'
  <2> DEFINE p == requests[r]
             wanted == PagesOf(p.units)
             by == IF p.package # None /\ Holds(p, PomOf[p.unit.path]) THEN p.package ELSE None
             n == [p EXCEPT !.pc = "insert", !.package = by,
                            !.found = wanted \cap pages, !.missing = wanted \ pages]
  <2>1. p \in RequestType /\ p.pc = "lookup"
    BY <1>5 DEF LookUpPages, Stage, TypeInv
  <2>2. Advance(r, n) /\ packages' = packages /\ described' = described
    BY <1>5 DEF LookUpPages
  <2>3. n.pc = "insert" /\ n.saved = p.saved /\ n.package = by /\ n.unit = p.unit
    BY <2>1 DEF RequestType
  <2>4. by # None => packages[PomOf[p.unit.path]] # NoPackage
    BY DEF Holds
  <2> HIDE DEF n, by, p
  <2>5. \A s \in Attached(n) : packages[s] # NoPackage
    BY <2>3, <2>4 DEF Attached
  <2> QED BY <2>1, <2>2, <2>3, <2>5, PackagesSame DEF p
<1>6. ASSUME NEW r \in Request, InsertPages(r) PROVE PackagesExist'
  <2> DEFINE p == requests[r]
             n == [p EXCEPT !.pc = "complete", !.found = p.found \cup p.missing]
  <2>1. p \in RequestType /\ p.pc = "insert"
    BY <1>6 DEF InsertPages, Stage, TypeInv
  <2>2. Advance(r, n) /\ packages' = packages /\ described' = described
    BY <1>6 DEF InsertPages
  <2>3. n.pc = "complete" /\ n.saved = p.saved /\ n.package = p.package /\ n.unit = p.unit
    BY <2>1 DEF RequestType
  <2>4. \A s \in Attached(p) : packages[s] # NoPackage
    BY <2>1 DEF PackagesExist
  <2> HIDE DEF n
  <2>5. \A s \in Attached(n) : packages[s] # NoPackage
    BY <2>3, <2>4 DEF Attached
  <2> QED BY <2>1, <2>2, <2>3, <2>5, PackagesSame
<1>7. ASSUME NEW r \in Request, Complete(r) PROVE PackagesExist'
  <2> DEFINE p == requests[r]
  <2>1. p.pc = "complete" /\ p.repository \in Repository
    BY <1>7 DEF Complete, Stage, TypeInv, Knows
  <2>2. \A s \in Attached(p) : packages[s] # NoPackage
    BY <2>1 DEF PackagesExist
  <2>3. /\ described' = [described EXCEPT ![p.repository] = described[p.repository] \cup Attached(p)]
        /\ packages' = packages /\ Advance(r, Idle)
    BY <1>7 DEF Complete
  <2>4. \A repo \in Repository : \A s \in described'[repo] : packages'[s] # NoPackage
    BY <1>0, <2>1, <2>2, <2>3 DEF TypeInv
  <2>5. requests'[r] = Idle /\ \A s \in Request \ {r} : requests'[s] = requests[s]
    BY <2>3, Moved DEF TypeInv
  <2>6. ASSUME NEW s \in Request
        PROVE  /\ requests'[s].pc # "idle" => \A q \in requests'[s].saved : packages'[q] # NoPackage
               /\ requests'[s].pc \in Paging =>
                      \A q \in Attached(requests'[s]) : packages'[q] # NoPackage
    BY <2>3, <2>5, IdleType DEF PackagesExist
  <2> QED BY <2>4, <2>6 DEF PackagesExist, Attached
<1>8. ASSUME NEW repo \in Repository, NEW unit \in latest[repo], Remove(repo, unit)
      PROVE  PackagesExist'
  <2> DEFINE to == PomOf[unit.path]
  <2>1. \A p \in Pom : packages[p] # NoPackage => packages'[p] # NoPackage
    <3>1. Writes
      BY <1>8 DEF Writes
    <3> QED BY <3>1, PackagesStay DEF PackageKept
  <2>2. requests' = requests
    BY <1>8 DEF Remove
  <2>3. ASSUME NEW other \in Repository, NEW p \in described'[other]
        PROVE  packages'[p] # NoPackage
    <3>1. \/ p \in described[other]
          \/ p = to /\ packages'[to] # NoPackage
      <4>1. CASE unit.path \in Metadata
        BY <1>8, <2>3, <4>1 DEF Remove
      <4>2. CASE unit.path \notin Metadata
        <5>1. \/ \E poms \in {described[repo] \ {to}, described[repo]} :
                    described' = [described EXCEPT ![repo] = poms]
              \/ /\ described' = [described EXCEPT ![repo] = described[repo] \cup {to}]
                 /\ packages'[to] # NoPackage
          BY <1>8, <4>2 DEF Remove
        <5> QED BY <2>3, <5>1 DEF TypeInv
      <4> QED BY <4>1, <4>2
    <3> QED BY <1>0, <2>1, <3>1
  <2>4. ASSUME NEW s \in Request
        PROVE  /\ requests'[s].pc # "idle" => \A p \in requests'[s].saved : packages'[p] # NoPackage
               /\ requests'[s].pc \in Paging =>
                      \A p \in Attached(requests'[s]) : packages'[p] # NoPackage
    <3>1. requests[s].saved \subseteq Pom
             /\ (requests[s].pc \in Paging => Attached(requests[s]) \subseteq Pom)
      BY DeployAssumption
         DEF TypeInv, RequestType, Attached, Knows, Later, Saved, Drafting, Unit
    <3> QED BY <2>1, <2>2, <3>1 DEF PackagesExist
  <2> QED BY <2>3, <2>4 DEF PackagesExist, Attached
<1>9. CASE Cleanup
  <2>1. requests' = requests /\ described' = described
    BY <1>9 DEF Cleanup
  <2>2. \A s \in Request : requests[s].saved \subseteq Pom
             /\ (requests[s].pc \in Paging => Attached(requests[s]) \subseteq Pom)
    BY DeployAssumption
       DEF TypeInv, RequestType, Attached, Knows, Later, Saved, Drafting, Unit
  <2>3. \A repo \in Repository : \A p \in described[repo] : packages'[p] # NoPackage
    BY <1>0, <1>9, CleanupSpares
  <2>4. ASSUME NEW s \in Request
        PROVE  /\ requests[s].pc # "idle" => \A p \in requests[s].saved : packages'[p] # NoPackage
               /\ requests[s].pc \in Paging =>
                      \A p \in Attached(requests[s]) : packages'[p] # NoPackage
    BY <1>9, <2>2, CleanupSpares DEF PackagesExist
  <2> QED BY <2>1, <2>3, <2>4 DEF PackagesExist, Attached
<1>10. ASSUME NEW r \in Request, Crash(r) PROVE PackagesExist'
  BY <1>10, IdleType, PackagesSame DEF Crash
<1>11. CASE UNCHANGED vars
  BY <1>11 DEF vars, PackagesExist, Attached
<1> QED BY <1>1, <1>2, <1>3, <1>4, <1>5, <1>6, <1>7, <1>8, <1>9, <1>10, <1>11 DEF Next, Create, Task

-----------------------------------------------------------------------------
(* Who reads a release's POM.                                               *)

\* A request changes, and leaves the packages alone for which others read a POM.
LEMMA DetailsMoved ==
  ASSUME TypeInv, DetailsInv, NEW r \in Request, NEW q, Advance(r, q),
         \A p \in Pom \ Snapshot : Reads(q, p) =>
            /\ p \in q.saved /\ packages'[p] # NoPackage /\ packages'[p].details = NoBytes
            /\ \A s \in Request \ {r} : ~Reads(requests[s], p),
         \A p \in Pom \ Snapshot : \A s \in Request \ {r} :
            Reads(requests[s], p) => packages'[p] = packages[p]
  PROVE  DetailsInv'
<1>1. requests'[r] = q /\ \A s \in Request \ {r} : requests'[s] = requests[s]
  BY Moved DEF TypeInv
<1>2. ASSUME NEW s \in Request, NEW p \in Pom \ Snapshot, Reads(requests'[s], p)
      PROVE  /\ p \in requests'[s].saved
             /\ packages'[p] # NoPackage /\ packages'[p].details = NoBytes
             /\ \A t \in Request \ {s} : ~Reads(requests'[t], p)
  <2>1. CASE s = r
    BY <1>1, <1>2, <2>1
  <2>2. CASE s # r
    <3>1. requests'[s] = requests[s] /\ Reads(requests[s], p)
      BY <1>1, <1>2, <2>2
    <3>2. /\ p \in requests[s].saved
          /\ packages[p] # NoPackage /\ packages[p].details = NoBytes
          /\ \A t \in Request \ {s} : ~Reads(requests[t], p)
      BY <3>1 DEF DetailsInv
    <3>3. packages'[p] = packages[p] /\ ~Reads(q, p)
      BY <2>2, <3>1
    <3>4. ASSUME NEW t \in Request \ {s} PROVE ~Reads(requests'[t], p)
      BY <1>1, <3>2, <3>3
    <3> QED BY <3>1, <3>2, <3>3, <3>4
  <2> QED BY <2>1, <2>2
<1> QED BY <1>2 DEF DetailsInv, Reads

\* The request does not read, and packages stay as they are.
LEMMA DetailsSame ==
  ASSUME TypeInv, DetailsInv, NEW r \in Request, NEW q, Advance(r, q),
         q.pc \notin {"details", "describe"}, packages' = packages
  PROVE  DetailsInv'
  BY DetailsMoved DEF Reads

\* Only one request at a time reads a POM for a release's package.
LEMMA DetailsNext == TypeInv /\ DetailsInv /\ [Next]_vars => DetailsInv'
<1> SUFFICES ASSUME TypeInv, DetailsInv, [Next]_vars PROVE DetailsInv'
  OBVIOUS
<1>1. ASSUME NEW r \in Request, EnsurePackage(r) PROVE DetailsInv'
  <2> DEFINE p == requests[r]
             row == Ensured(p.path, p.number)
             made == IF packages[p.path] = NoPackage THEN {p.path} ELSE {}
             n == [p EXCEPT !.pc = "details", !.package = row.by, !.saved = made]
             m == [p EXCEPT !.pc = "dispatch"]
  <2>1. p \in RequestType /\ Knows(p) /\ p.pc = "package"
    BY <1>1 DEF EnsurePackage, Stage, TypeInv
  <2>2. p.path \in Pom /\ p.number \in 0 .. MaxDeploys
    BY <2>1 DEF Knows, RequestType
  <2>3. packages' = [packages EXCEPT ![p.path] = row]
    BY <1>1 DEF EnsurePackage
  <2>4. \/ Advance(r, n) /\ MustRead(p.path)
        \/ Advance(r, m)
    BY <1>1 DEF EnsurePackage
  <2>5. n.pc = "details" /\ n.path = p.path /\ n.saved = made /\ m.pc = "dispatch"
    BY <2>1 DEF RequestType
  <2>6. /\ row # NoPackage
        /\ packages[p.path] = NoPackage => row.details = NoBytes
        /\ packages[p.path] # NoPackage => row = packages[p.path]
    BY <2>2, EnsuredType
  <2>7. packages[p.path] = NoPackage => made = {p.path}
    OBVIOUS
  <2> HIDE DEF n, m, row, made
  <2>8. ASSUME NEW s \in Request \ {r}, NEW q \in Pom \ Snapshot, Reads(requests[s], q)
        PROVE  packages'[q] = packages[q] /\ packages[q] # NoPackage
    <3>1. packages[q] # NoPackage
      BY <2>8 DEF DetailsInv
    <3> QED BY <2>2, <2>3, <2>6, <3>1 DEF TypeInv
  <2>9. CASE Advance(r, n) /\ MustRead(p.path)
    <3>1. ASSUME NEW q \in Pom \ Snapshot, Reads(n, q)
          PROVE  /\ q \in n.saved /\ packages'[q] # NoPackage /\ packages'[q].details = NoBytes
                 /\ \A s \in Request \ {r} : ~Reads(requests[s], q)
      <4>1. q = p.path
        BY <2>5, <3>1 DEF Reads
      <4>2. packages[q] = NoPackage
        BY <2>9, <4>1 DEF MustRead
      <4>3. packages'[q] = row
        BY <2>2, <2>3, <4>1 DEF TypeInv
      <4> QED BY <2>5, <2>6, <2>7, <2>8, <4>1, <4>2, <4>3
    <3> QED BY <2>8, <2>9, <3>1, DetailsMoved
  <2>10. CASE Advance(r, m)
    <3>1. \A q : ~Reads(m, q)
      BY <2>5 DEF Reads
    <3> QED BY <2>8, <2>10, <3>1, DetailsMoved
  <2> QED BY <2>4, <2>9, <2>10
<1>2. ASSUME NEW r \in Request, SaveDetails(r) PROVE DetailsInv'
  <2> DEFINE p == requests[r]
             n == [p EXCEPT !.pc = "dispatch", !.package = None, !.saved = {p.path}]
  <2>1. p \in RequestType /\ Knows(p) /\ p.pc = "details"
    BY <1>2 DEF SaveDetails, Stage, TypeInv
  <2>2. n.pc = "dispatch"
    BY <2>1 DEF RequestType
  <2>3. Advance(r, n) \/ Advance(r, Idle)
    BY <1>2 DEF SaveDetails
  <2>4. \A q \in Pom : q # p.path => packages'[q] = packages[q]
    BY <1>2 DEF SaveDetails, TypeInv
  <2>5. ASSUME NEW s \in Request \ {r}, NEW q \in Pom \ Snapshot, Reads(requests[s], q)
        PROVE  packages'[q] = packages[q]
    <3>1. ~Reads(p, q)
      BY <2>5 DEF DetailsInv
    <3>2. q # p.path
      BY <2>1, <3>1 DEF Reads
    <3> QED BY <2>4, <3>2
  <2> HIDE DEF n
  <2>6. \A q : ~Reads(n, q) /\ ~Reads(Idle, q)
    BY <2>2, IdleType DEF Reads
  <2> QED BY <2>3, <2>5, <2>6, DetailsMoved
<1>3. ASSUME NEW r \in Request, EnsureInVersion(r) PROVE DetailsInv'
  <2> DEFINE p == requests[r]
             to == PomOf[p.unit.path]
             row == Ensured(to, p.number)
             made == IF packages[to] = NoPackage THEN p.saved \cup {to} ELSE p.saved
             by == IF packages[to] = NoPackage THEN None ELSE packages[to].by
             k == [p EXCEPT !.pc = "lookup"]
             m == [p EXCEPT !.pc = "lookup", !.package = by]
             n == [p EXCEPT !.pc = "describe", !.package = row.by, !.saved = made]
  <2>1. p \in RequestType /\ Knows(p) /\ p.pc = "ensure"
    BY <1>3 DEF EnsureInVersion, Stage, TypeInv
  <2>2. /\ k.pc = "lookup" /\ m.pc = "lookup"
        /\ n.pc = "describe" /\ n.unit = p.unit /\ n.saved = made
    BY <2>1 DEF RequestType
  <2>3. \/ (Advance(r, k) \/ Advance(r, m)) /\ packages' = packages
        \/ /\ Advance(r, n) /\ Affected(p) /\ MustRead(to)
           /\ packages' = [packages EXCEPT ![to] = row]
    BY <1>3 DEF EnsureInVersion
  <2>4. packages[to] = NoPackage => to \in made
    OBVIOUS
  <2> HIDE DEF k, m, n, made, by
  <2>5. CASE (Advance(r, k) \/ Advance(r, m)) /\ packages' = packages
    BY <2>2, <2>5, DetailsSame
  <2>6. CASE /\ Advance(r, n) /\ Affected(p) /\ MustRead(to)
             /\ packages' = [packages EXCEPT ![to] = row]
    <3>1. p.unit \in Unit /\ p.number \in 0 .. MaxDeploys
      BY <2>1 DEF Knows, RequestType, Later, Saved, Drafting
    <3>2. to \in Pom
      BY <2>6, <3>1, DeployAssumption DEF Affected, Unit
    <3>3. /\ row # NoPackage
          /\ packages[to] = NoPackage => row.details = NoBytes
          /\ packages[to] # NoPackage => row = packages[to]
      BY <3>1, <3>2, EnsuredType
    <3> HIDE DEF row
    <3>4. ASSUME NEW s \in Request \ {r}, NEW q \in Pom \ Snapshot, Reads(requests[s], q)
          PROVE  packages'[q] = packages[q] /\ packages[q] # NoPackage
      <4>1. packages[q] # NoPackage
        BY <3>4 DEF DetailsInv
      <4> QED BY <2>6, <3>2, <3>3, <4>1 DEF TypeInv
    <3>5. ASSUME NEW q \in Pom \ Snapshot, Reads(n, q)
          PROVE  /\ q \in n.saved /\ packages'[q] # NoPackage /\ packages'[q].details = NoBytes
                 /\ \A s \in Request \ {r} : ~Reads(requests[s], q)
      <4>1. q = to
        BY <2>2, <3>5 DEF Reads
      <4>2. packages[q] = NoPackage
        BY <2>6, <4>1 DEF MustRead
      <4>3. packages'[q] = row
        BY <2>6, <3>2, <4>1 DEF TypeInv
      <4> QED BY <2>2, <2>4, <3>3, <3>4, <4>1, <4>2, <4>3
    <3> QED BY <2>6, <3>4, <3>5, DetailsMoved
  <2> QED BY <2>3, <2>5, <2>6
<1>4. ASSUME NEW r \in Request, DescribeInVersion(r) PROVE DetailsInv'
  <2> DEFINE p == requests[r]
             to == PomOf[p.unit.path]
             n == [p EXCEPT !.pc = "lookup", !.saved = p.saved \cup {to}]
  <2>1. p \in RequestType /\ Knows(p) /\ p.pc = "describe"
    BY <1>4 DEF DescribeInVersion, Stage, TypeInv
  <2>2. n.pc = "lookup"
    BY <2>1 DEF RequestType
  <2>3. Advance(r, n) \/ Advance(r, Idle)
    BY <1>4 DEF DescribeInVersion
  <2>4. \A q \in Pom : q # to => packages'[q] = packages[q]
    BY <1>4 DEF DescribeInVersion, TypeInv
  <2>5. ASSUME NEW s \in Request \ {r}, NEW q \in Pom \ Snapshot, Reads(requests[s], q)
        PROVE  packages'[q] = packages[q]
    <3>1. ~Reads(p, q)
      BY <2>5 DEF DetailsInv
    <3>2. q # to
      BY <2>1, <3>1 DEF Reads
    <3> QED BY <2>4, <3>2
  <2> HIDE DEF n
  <2>6. \A q : ~Reads(n, q) /\ ~Reads(Idle, q)
    BY <2>2, IdleType DEF Reads
  <2> QED BY <2>3, <2>5, <2>6, DetailsMoved
<1>5. ASSUME NEW r \in Request, NEW repo \in Repository, NEW path \in File,
             NEW bytes \in Bytes, Begin(r, repo, path, bytes)
      PROVE  DetailsInv'
  <2> DEFINE n == [Idle EXCEPT !.pc = "content", !.repository = repo, !.path = path,
                               !.bytes = bytes, !.number = deploys + 1]
  <2>1. n.pc = "content"
    BY DEF Idle
  <2>2. Advance(r, n) /\ packages' = packages
    BY <1>5 DEF Begin
  <2> HIDE DEF n
  <2> QED BY <2>1, <2>2, DetailsSame
<1>6. ASSUME NEW r \in Request,
             \/ SaveContent(r) \/ SaveArtifact(r) \/ Dispatch(r) \/ AddContent(r)
             \/ LookUpPages(r) \/ InsertPages(r) \/ Complete(r) \/ Crash(r)
      PROVE  DetailsInv'
  <2>1. PICK q : Advance(r, q) /\ q.pc \notin {"details", "describe"}
    BY <1>6, QuietStep
  <2>2. packages' = packages
    BY <1>6 DEF SaveContent, SaveArtifact, Dispatch, AddContent, LookUpPages, InsertPages,
                Complete, Crash
  <2> QED BY <2>1, <2>2, DetailsSame
<1>7. ASSUME NEW repo \in Repository, NEW unit \in latest[repo], Remove(repo, unit)
      PROVE  DetailsInv'
  <2>1. requests' = requests
    BY <1>7 DEF Remove
  <2>2. \A p \in Pom \ Snapshot : packages[p] # NoPackage => packages'[p] = packages[p]
    BY <1>7 DEF Remove, MustRead, TypeInv
  <2> QED BY <2>1, <2>2 DEF DetailsInv, Reads
<1>8. CASE Cleanup
  <2>1. requests' = requests
    BY <1>8 DEF Cleanup
  <2>2. ASSUME NEW r \in Request, NEW p \in Pom \ Snapshot, Reads(requests[r], p)
        PROVE  packages'[p] = packages[p]
    <3>1. p \in requests[r].saved /\ requests[r].pc # "idle"
      BY <2>2 DEF DetailsInv, Reads
    <3> QED BY <1>8, <3>1, CleanupSpares
  <2> QED BY <2>1, <2>2 DEF DetailsInv, Reads
<1>9. CASE UNCHANGED vars
  BY <1>9 DEF vars, DetailsInv, Reads
<1> QED BY <1>1, <1>2, <1>3, <1>4, <1>5, <1>6, <1>7, <1>8, <1>9 DEF Next, Create, Task

-----------------------------------------------------------------------------
(* Versions are whole.                                                      *)

LEMMA StoredIsFile ==
  ASSUME NEW q, q.bytes \in Bytes PROVE Stored(q) # NoBytes
  BY DeployAssumption DEF Stored

\* Without the orphan cleanup a step has to show only what it says of its own
\* request and of the version it makes.
LEMMA WholeMoved ==
  ASSUME TypeInv, WholeInv, Next, "cleanup" \notin env,
         NEW r \in Request, NEW q, Advance(r, q), WholeAfter(q),
         \A repo \in Repository :
            \/ latest'[repo] = latest[repo] /\ listed'[repo] = listed[repo]
            \/ /\ \A u \in latest'[repo] : Served(u)
               /\ listed'[repo] = PagesOf(latest'[repo])
  PROVE  WholeInv'
<1>1. ~Cleanup
  BY DEF Cleanup
<1>2. Rows \subseteq Rows' /\ pages \subseteq pages'
  BY <1>1, RowsGrow
<1>3. \A u \in Rows : contents[u] # NoBytes => contents'[u] = contents[u]
  BY <1>1, RowsGrow
<1>4. \A u : Served(u) => u \in Rows' /\ contents'[u] # NoBytes
  BY <1>2, <1>3 DEF Served
<1>5. ASSUME NEW s \in Request \ {r} PROVE WholeRequest(requests[s])'
  <2> DEFINE p == requests[s]
  <2>1. requests'[s] = p
    BY Moved DEF TypeInv
  <2>2. WholeRequest(p)
    BY DEF WholeInv
  <2> HIDE DEF p
  <2>3. p.pc \in Later => p.unit \in Rows'
    BY <1>2, <2>2 DEF WholeRequest
  <2>4. p.pc \in Saved => contents'[p.unit] # NoBytes
    BY <1>3, <2>2 DEF WholeRequest, Later
  <2>5. /\ p.pc \in Drafting => \A u \in p.units : u \in Rows' /\ contents'[u] # NoBytes
        /\ p.pc \in Paging => /\ p.found \cup p.missing = PagesOf(p.units)
                              /\ p.found \subseteq pages'
    BY <1>2, <1>4, <2>2 DEF WholeRequest
  <2>6. p.pc = "complete" => p.missing \subseteq p.found
    BY <2>2 DEF WholeRequest
  <2> QED BY <2>1, <2>3, <2>4, <2>5, <2>6 DEF WholeRequest, Served
<1>6. requests'[r] = q
  BY Moved DEF TypeInv
<1>7. ASSUME NEW s \in Request PROVE WholeRequest(requests[s])'
  BY <1>5, <1>6 DEF WholeRequest, WholeAfter, Served
<1>8. ASSUME NEW repo \in Repository
      PROVE  /\ \A u \in latest'[repo] : u \in Rows' /\ contents'[u] # NoBytes
             /\ latest'[repo] # {} => listed'[repo] = PagesOf(latest'[repo])
  BY <1>4 DEF WholeInv
<1> QED BY <1>7, <1>8 DEF WholeInv, Served

\* The request is over, or has just begun.
LEMMA WholeEarly ==
  ASSUME NEW q, q.pc \notin Later PROVE WholeAfter(q)
  BY DEF WholeAfter, Saved, Later, Drafting, Paging

LEMMA WholeNext == TypeInv /\ WholeInv /\ [Next]_vars => WholeInv'
<1> SUFFICES ASSUME TypeInv, WholeInv, Next, "cleanup" \notin env PROVE WholeInv'
  <2>1. CASE UNCHANGED vars
    BY <2>1 DEF vars, WholeInv, WholeRequest, Served, Rows
  <2>2. CASE Cleanup
    BY <2>2 DEF Cleanup, WholeInv
  <2>3. ASSUME TypeInv, Next, ~Cleanup PROVE env' = env
    BY <2>3, RowsGrow
  <2> QED BY <2>1, <2>2, <2>3 DEF WholeInv
<1>0. Idle.pc \notin Later
  BY IdleType DEF Later, Saved, Drafting, Paging
<1>1. ASSUME NEW r \in Request, NEW repo \in Repository, NEW path \in File,
             NEW bytes \in Bytes, Begin(r, repo, path, bytes)
      PROVE  WholeInv'
  <2> DEFINE n == [Idle EXCEPT !.pc = "content", !.repository = repo, !.path = path,
                               !.bytes = bytes, !.number = deploys + 1]
  <2>1. n.pc = "content"
    BY DEF Idle
  <2>2. Advance(r, n) /\ latest' = latest /\ listed' = listed
    BY <1>1 DEF Begin
  <2> HIDE DEF n
  <2>3. n.pc \notin Later
    BY <2>1 DEF Later, Saved, Drafting, Paging
  <2> QED BY <2>2, <2>3, WholeEarly, WholeMoved
<1>2. ASSUME NEW r \in Request, SaveContent(r) PROVE WholeInv'
  <2> DEFINE q == requests[r]
             found == Existing(q.path, q.bytes)
             new == [path |-> q.path, by |-> q.number,
                     digest |-> IF q.path \in Metadata THEN q.bytes ELSE NoBytes]
  <2>1. q \in RequestType
    BY DEF TypeInv
  <2>2. ASSUME NEW unit \in Unit, unit \in Rows'
        PROVE  WholeAfter([q EXCEPT !.pc = "artifact", !.unit = unit])
    <3> DEFINE n == [q EXCEPT !.pc = "artifact", !.unit = unit]
    <3>1. n.pc = "artifact" /\ n.unit = unit
      BY <2>1 DEF RequestType
    <3> HIDE DEF n
    <3>2. WholeAfter(n)
      BY <2>2, <3>1 DEF WholeAfter, Saved, Drafting, Paging
    <3> QED BY <3>2 DEF n
  <2>3. \E n : Advance(r, n) /\ WholeAfter(n)
    <3>1. CASE Conflicts(q.path, q.bytes) = {}
      <4>1. /\ Advance(r, [q EXCEPT !.pc = "artifact", !.unit = new])
            /\ contents' = [u \in Rows \cup {new} |->
                                IF u \in Rows THEN contents[u] ELSE NoBytes]
        BY <1>2, <3>1 DEF SaveContent
      <4>2. new \in Rows' /\ new \in Unit
        <5>1. Knows(q) /\ q.pc = "content"
          BY <1>2 DEF SaveContent, Stage, TypeInv
        <5> QED BY <4>1, <5>1 DEF Rows, Knows, Unit
      <4> QED BY <4>1, <4>2, <2>2
    <3>2. CASE Conflicts(q.path, q.bytes) # {}
      <4>1. found # {} /\ found \subseteq Rows
        BY <3>2 DEF Conflicts, Existing
      <4>2. (CHOOSE u \in found : TRUE) \in Rows
        BY <4>1
      <4>3. Rows' = Rows /\ Rows \subseteq Unit
        BY <1>2, <3>2 DEF SaveContent, Rows, TypeInv
      <4>4. \/ Advance(r, Idle)
            \/ Advance(r, [q EXCEPT !.pc = "artifact", !.unit = CHOOSE u \in found : TRUE])
        BY <1>2, <3>2 DEF SaveContent
      <4> QED BY <4>2, <4>3, <4>4, <2>2, <1>0, WholeEarly
    <3> QED BY <3>1, <3>2
  <2> QED BY <1>2, <2>3, WholeMoved DEF SaveContent
<1>3. ASSUME NEW r \in Request, SaveArtifact(r) PROVE WholeInv'
  <2> DEFINE q == requests[r]
             pc == IF q.path \in Pom THEN "package" ELSE "dispatch"
             n == [q EXCEPT !.pc = pc, !.remove = Replaced(q)]
  <2>1. q \in RequestType /\ Knows(q) /\ q.pc = "artifact"
    BY <1>3 DEF SaveArtifact, Stage, TypeInv
  <2>2. q.unit \in Rows
    BY <2>1 DEF WholeInv, WholeRequest, Later
  <2>3. Advance(r, n) /\ contents' = [contents EXCEPT ![q.unit] = Stored(q)]
    BY <1>3, <2>2 DEF SaveArtifact
  <2>4. q.unit \in Rows' /\ contents'[q.unit] # NoBytes
    BY <2>1, <2>2, <2>3, StoredIsFile DEF Rows, Knows, TypeInv
  <2>5. n.pc = pc /\ n.unit = q.unit
    BY <2>1 DEF RequestType
  <2> HIDE DEF n
  <2>6. WholeAfter(n)
    BY <2>4, <2>5 DEF WholeAfter, Drafting, Paging
  <2> QED BY <1>3, <2>3, <2>6, WholeMoved DEF SaveArtifact
<1>4. ASSUME NEW r \in Request, EnsurePackage(r) \/ SaveDetails(r) \/ Dispatch(r)
      PROVE  WholeInv'
  <2> DEFINE q == requests[r]
  <2>1. q \in RequestType /\ q.pc \in Saved
    BY <1>4 DEF EnsurePackage, SaveDetails, Dispatch, Stage, TypeInv, Saved
  <2>2. q.unit \in Rows /\ contents[q.unit] # NoBytes
    BY <2>1 DEF WholeInv, WholeRequest, Later
  <2>3. contents' = contents /\ latest' = latest /\ listed' = listed
    BY <1>4 DEF EnsurePackage, SaveDetails, Dispatch
  <2>4. \E n : Advance(r, n) /\ (n.pc = "idle" \/
                  (n.pc \in {"details", "dispatch", "add"} /\ n.unit = q.unit))
    <3>1. CASE Advance(r, Idle)
      BY <3>1, IdleType
    <3>2. CASE EnsurePackage(r)
      <4> DEFINE row == Ensured(q.path, q.number)
                 made == IF packages[q.path] = NoPackage THEN {q.path} ELSE {}
                 n == [q EXCEPT !.pc = "details", !.package = row.by, !.saved = made]
                 m == [q EXCEPT !.pc = "dispatch"]
      <4>1. Advance(r, n) \/ Advance(r, m)
        BY <3>2 DEF EnsurePackage
      <4>2. n.pc = "details" /\ n.unit = q.unit /\ m.pc = "dispatch" /\ m.unit = q.unit
        BY <2>1 DEF RequestType
      <4> HIDE DEF n, m
      <4> QED BY <4>1, <4>2
    <3>3. CASE SaveDetails(r) /\ ~Advance(r, Idle)
      <4> DEFINE n == [q EXCEPT !.pc = "dispatch", !.package = None, !.saved = {q.path}]
      <4>1. Advance(r, n)
        BY <3>3 DEF SaveDetails
      <4>2. n.pc = "dispatch" /\ n.unit = q.unit
        BY <2>1 DEF RequestType
      <4> HIDE DEF n
      <4> QED BY <4>1, <4>2
    <3>4. CASE Dispatch(r) /\ ~Advance(r, Idle)
      <4> DEFINE n == [q EXCEPT !.pc = "add"]
      <4>1. Advance(r, n)
        BY <3>4 DEF Dispatch
      <4>2. n.pc = "add" /\ n.unit = q.unit
        BY <2>1 DEF RequestType
      <4> HIDE DEF n
      <4> QED BY <4>1, <4>2
    <3> QED BY <1>4, <3>1, <3>2, <3>3, <3>4
  <2>5. PICK n : /\ Advance(r, n)
                 /\ n.pc = "idle" \/ (n.pc \in {"details", "dispatch", "add"} /\ n.unit = q.unit)
    BY <2>4
  <2>6. WholeAfter(n)
    BY <2>2, <2>3, <2>5 DEF WholeAfter, Saved, Later, Drafting, Paging, Rows
  <2> QED BY <2>3, <2>5, <2>6, WholeMoved
<1>5. ASSUME NEW r \in Request, AddContent(r) PROVE WholeInv'
  <2> DEFINE q == requests[r]
             n == [q EXCEPT !.pc = "ensure", !.units = Merged(q)]
  <2>1. q \in RequestType /\ Knows(q) /\ q.pc = "add"
    BY <1>5 DEF AddContent, Stage, TypeInv
  <2>2. q.repository \in Repository /\ q.unit \in Rows /\ contents[q.unit] # NoBytes
    BY <2>1 DEF WholeInv, WholeRequest, Later, Saved, Knows
  <2>3. \A u \in Merged(q) : Served(u)
    BY <2>2 DEF Merged, WholeInv, Served
  <2>4. Advance(r, n) /\ UNCHANGED <<contents, pages, latest, listed>>
    BY <1>5 DEF AddContent
  <2>5. n.pc = "ensure" /\ n.unit = q.unit /\ n.units = Merged(q)
    BY <2>1 DEF RequestType
  <2> HIDE DEF n
  <2>6. WholeAfter(n)
    BY <2>2, <2>3, <2>4, <2>5 DEF WholeAfter, Served, Rows, Paging
  <2> QED BY <2>4, <2>6, WholeMoved
<1>6. ASSUME NEW r \in Request, EnsureInVersion(r) \/ DescribeInVersion(r)
      PROVE  WholeInv'
  <2> DEFINE q == requests[r]
             to == PomOf[q.unit.path]
  <2>1. q \in RequestType /\ q.pc \in {"ensure", "describe"}
    BY <1>6 DEF EnsureInVersion, DescribeInVersion, Stage, TypeInv
  <2>2. q.unit \in Rows /\ contents[q.unit] # NoBytes /\ \A u \in q.units : Served(u)
    BY <2>1 DEF WholeInv, WholeRequest, Later, Saved, Drafting
  <2>3. contents' = contents /\ latest' = latest /\ listed' = listed
    BY <1>6 DEF EnsureInVersion, DescribeInVersion
  <2>4. \E n : Advance(r, n) /\ (n.pc = "idle" \/
               (n.pc \in {"describe", "lookup"} /\ n.unit = q.unit /\ n.units = q.units))
    <3>1. CASE Advance(r, Idle)
      BY <3>1, IdleType
    <3>2. CASE EnsureInVersion(r)
      <4> DEFINE made == IF packages[to] = NoPackage THEN q.saved \cup {to} ELSE q.saved
                 by == IF packages[to] = NoPackage THEN None ELSE packages[to].by
                 k == [q EXCEPT !.pc = "lookup"]
                 m == [q EXCEPT !.pc = "lookup", !.package = by]
                 n == [q EXCEPT !.pc = "describe", !.package = Ensured(to, q.number).by,
                                !.saved = made]
      <4>1. Advance(r, k) \/ Advance(r, m) \/ Advance(r, n)
        BY <3>2 DEF EnsureInVersion
      <4>2. /\ k.pc = "lookup" /\ k.unit = q.unit /\ k.units = q.units
            /\ m.pc = "lookup" /\ m.unit = q.unit /\ m.units = q.units
            /\ n.pc = "describe" /\ n.unit = q.unit /\ n.units = q.units
        BY <2>1 DEF RequestType
      <4> HIDE DEF k, m, n
      <4> QED BY <4>1, <4>2
    <3>3. CASE DescribeInVersion(r) /\ ~Advance(r, Idle)
      <4> DEFINE n == [q EXCEPT !.pc = "lookup", !.saved = q.saved \cup {to}]
      <4>1. Advance(r, n)
        BY <3>3 DEF DescribeInVersion
      <4>2. n.pc = "lookup" /\ n.unit = q.unit /\ n.units = q.units
        BY <2>1 DEF RequestType
      <4> HIDE DEF n
      <4> QED BY <4>1, <4>2
    <3> QED BY <1>6, <3>1, <3>2, <3>3
  <2>5. PICK n : /\ Advance(r, n)
                 /\ n.pc = "idle" \/ (n.pc \in {"describe", "lookup"} /\ n.unit = q.unit
                                         /\ n.units = q.units)
    BY <2>4
  <2>6. WholeAfter(n)
    BY <2>2, <2>3, <2>5 DEF WholeAfter, Served, Saved, Later, Drafting, Paging, Rows
  <2> QED BY <2>3, <2>5, <2>6, WholeMoved
<1>7. ASSUME NEW r \in Request, LookUpPages(r) PROVE WholeInv'
  <2> DEFINE q == requests[r]
             wanted == PagesOf(q.units)
             by == IF q.package # None /\ Holds(q, PomOf[q.unit.path]) THEN q.package ELSE None
             n == [q EXCEPT !.pc = "insert", !.package = by,
                            !.found = wanted \cap pages, !.missing = wanted \ pages]
  <2>1. q \in RequestType /\ q.pc = "lookup"
    BY <1>7 DEF LookUpPages, Stage, TypeInv
  <2>2. q.unit \in Rows /\ contents[q.unit] # NoBytes /\ \A u \in q.units : Served(u)
    BY <2>1 DEF WholeInv, WholeRequest, Later, Saved, Drafting
  <2>3. Advance(r, n) /\ UNCHANGED <<contents, pages, latest, listed>>
    BY <1>7 DEF LookUpPages
  <2>4. /\ n.pc = "insert" /\ n.unit = q.unit /\ n.units = q.units
        /\ n.found = wanted \cap pages /\ n.missing = wanted \ pages
    BY <2>1 DEF RequestType
  <2> HIDE DEF n
  <2>5. n.found \cup n.missing = PagesOf(n.units) /\ n.found \subseteq pages
    BY <2>4
  <2>6. WholeAfter(n)
    BY <2>2, <2>3, <2>4, <2>5 DEF WholeAfter, Served, Rows
  <2> QED BY <2>3, <2>6, WholeMoved
<1>8. ASSUME NEW r \in Request, InsertPages(r) PROVE WholeInv'
  <2> DEFINE q == requests[r]
             n == [q EXCEPT !.pc = "complete", !.found = q.found \cup q.missing]
  <2>1. q \in RequestType /\ q.pc = "insert"
    BY <1>8 DEF InsertPages, Stage, TypeInv
  <2>2. /\ q.unit \in Rows /\ contents[q.unit] # NoBytes
        /\ \A u \in q.units : Served(u)
        /\ q.found \cup q.missing = PagesOf(q.units) /\ q.found \subseteq pages
    BY <2>1 DEF WholeInv, WholeRequest, Later, Saved, Drafting, Paging
  <2>3. Advance(r, n) /\ pages' = pages \cup q.missing /\ UNCHANGED <<contents, latest, listed>>
    BY <1>8 DEF InsertPages
  <2>4. /\ n.pc = "complete" /\ n.unit = q.unit /\ n.units = q.units
        /\ n.found = q.found \cup q.missing /\ n.missing = q.missing
    BY <2>1 DEF RequestType
  <2> HIDE DEF n
  <2>5. /\ n.found \cup n.missing = PagesOf(n.units)
        /\ n.found \subseteq pages' /\ n.missing \subseteq n.found
    BY <2>2, <2>3, <2>4
  <2>6. WholeAfter(n)
    BY <2>2, <2>3, <2>4, <2>5 DEF WholeAfter, Served, Rows
  <2> QED BY <2>3, <2>6, WholeMoved
<1>9. ASSUME NEW r \in Request, Complete(r) PROVE WholeInv'
  <2> DEFINE q == requests[r]
  <2>1. q.pc = "complete" /\ WholeRequest(q)
    BY <1>9 DEF Complete, Stage, WholeInv
  <2>2. q.found = PagesOf(q.units) /\ q.found \subseteq pages /\ \A u \in q.units : Served(u)
    BY <2>1 DEF WholeRequest, Drafting, Paging
  <2>3. /\ latest' = [latest EXCEPT ![q.repository] = q.units]
        /\ listed' = [listed EXCEPT ![q.repository] = q.found \cap pages]
        /\ Advance(r, Idle)
    BY <1>9 DEF Complete
  <2>4. q.found \cap pages = PagesOf(q.units)
    BY <2>2
  <2>5. \A repo \in Repository :
            \/ latest'[repo] = latest[repo] /\ listed'[repo] = listed[repo]
            \/ /\ \A u \in latest'[repo] : Served(u)
               /\ listed'[repo] = PagesOf(latest'[repo])
    BY <2>2, <2>3, <2>4 DEF TypeInv
  <2> QED BY <2>3, <2>5, <1>0, WholeEarly, WholeMoved
<1>10. ASSUME NEW r \in Request, Crash(r) PROVE WholeInv'
  BY <1>10, <1>0, WholeEarly, WholeMoved DEF Crash
<1>11. ASSUME NEW repo \in Repository, NEW unit \in latest[repo], Remove(repo, unit)
      PROVE  WholeInv'
  <2>1. /\ latest' = [latest EXCEPT ![repo] = latest[repo] \ {unit}]
        /\ listed' = [listed EXCEPT ![repo] = PagesOf(latest[repo] \ {unit})]
        /\ UNCHANGED <<env, contents, requests>> /\ pages \subseteq pages'
    BY <1>11 DEF Remove
  <2>2. \A s \in Request : WholeRequest(requests[s])'
    BY <2>1 DEF WholeInv, WholeRequest, Served, Rows
  <2>3. ASSUME NEW other \in Repository
        PROVE  /\ \A u \in latest'[other] : Served(u)
               /\ latest'[other] # {} => listed'[other] = PagesOf(latest'[other])
    BY <2>1 DEF WholeInv, TypeInv
  <2> QED BY <2>1, <2>2, <2>3 DEF WholeInv, Served, Rows
<1>12. CASE Cleanup
  BY <1>12 DEF Cleanup
<1> QED BY <1>1, <1>2, <1>3, <1>4, <1>5, <1>6, <1>7, <1>8, <1>9, <1>10, <1>11, <1>12
        DEF Next, Create, Task

-----------------------------------------------------------------------------
(* The theorems.                                                            *)

LEMMA DeployInit == Init => DeployInv
<1> SUFFICES ASSUME Init PROVE DeployInv
  OBVIOUS
<1>1. \A r \in Request : requests[r] = Idle
  BY DEF Init
<1>2. \A r \in Request : requests[r].pc = "idle"
  BY <1>1, IdleType
<1>3. UsedExist
  BY <1>2 DEF Init, UsedExist, Drafted
<1>4. UniqueInv
  BY <1>2 DEF Init, UniqueInv, Unique, Drafted
<1>5. DetailsInv /\ PackagesExist
  BY <1>2 DEF Init, DetailsInv, Reads, PackagesExist, Paging
<1>6. WholeInv
  BY <1>2 DEF Init, WholeInv, WholeRequest, Later, Saved, Drafting, Paging
<1> QED BY <1>3, <1>4, <1>5, <1>6, TypeInit DEF DeployInv

LEMMA DeployAlways == Spec => []DeployInv
<1>1. DeployInv /\ [Next]_vars => DeployInv'
  BY TypeNext, UsedNext, PackagesNext, UniqueNext, DetailsNext, WholeNext DEF DeployInv
<1> QED BY <1>1, DeployInit, PTL DEF Spec

\* A repository version never has two units of one path, whatever it held when
\* the request decided what to remove: remove_duplicates runs on the version the
\* task makes.
THEOREM DeployKeepsPathsUnique == Spec => []OneUnitPerPath
<1>1. DeployInv => OneUnitPerPath
  BY DEF DeployInv, UniqueInv, Unique, OneUnitPerPath
<1> QED BY <1>1, DeployAlways, PTL

\* Unless the orphan cleanup runs meanwhile, every unit of a version has its file
\* and every directory its page, after crashes between the statements of a deploy
\* and with tasks that insert the same page.
THEOREM DeployedVersionsAreWhole == Spec => []VersionsAreWhole
<1>1. DeployInv => VersionsAreWhole
  BY DEF DeployInv, WholeInv, Served, VersionsAreWhole
<1> QED BY <1>1, DeployAlways, PTL

\* No request, task, crash or cleanup changes the file of a unit in a version or
\* what was read of a release's POM.
THEOREM DeployedReleasesAreFixed == Spec => ReleasesAreFixed
<1> DEFINE FilesKept ==
               \A repo \in Repository : \A u \in latest[repo] \cap Rows :
                  contents[u] # NoBytes => u \in DOMAIN contents' /\ contents'[u] = contents[u]
           PackagesKept ==
               \A repo \in Repository : \A p \in described[repo] :
                  packages'[p] # NoPackage /\ packages'[p].by = packages[p].by
           DetailsKept ==
               \A p \in Pom \ Snapshot : packages[p] # NoPackage /\ packages[p].details # NoBytes
                  => packages'[p] \in {packages[p], NoPackage}
<1>1. ASSUME DeployInv, Next PROVE FilesKept
  <2>1. CASE Cleanup
    <3>1. PICK kept \in SUBSET Rows :
              /\ contents' = [u \in kept |-> contents[u]]
              /\ \A repo \in Repository : latest[repo] \subseteq kept
      BY <1>1, <2>1, CleanupKeeps DEF DeployInv
    <3> QED BY <3>1
  <2>2. CASE ~Cleanup
    BY <1>1, <2>2, RowsGrow DEF DeployInv, Rows
  <2> QED BY <2>1, <2>2
<1>2. ASSUME DeployInv, Next PROVE PackagesKept /\ DetailsKept
  <2>1. \A repo \in Repository : described[repo] \subseteq Pom
             /\ \A p \in described[repo] : packages[p] # NoPackage
    BY <1>2 DEF DeployInv, TypeInv, PackagesExist
  <2>2. CASE Writes
    BY <1>2, <2>1, <2>2, PackagesStay DEF DeployInv, PackageKept
  <2>3. CASE packages' = packages
    BY <2>1, <2>3
  <2>4. CASE Cleanup
    BY <2>1, <2>4, CleanupSpares, CleanupPackages
  <2> QED BY <1>2, <2>2, <2>3, <2>4, PackageSteps
<1>3. DeployInv /\ [Next]_vars =>
         [ /\ \A repo \in Repository :
              /\ \A u \in latest[repo] \cap Rows :
                    contents[u] # NoBytes => u \in DOMAIN contents' /\ contents'[u] = contents[u]
              /\ \A p \in described[repo] :
                    packages'[p] # NoPackage /\ packages'[p].by = packages[p].by
           /\ \A p \in Pom \ Snapshot : packages[p] # NoPackage /\ packages[p].details # NoBytes
                    => packages'[p] \in {packages[p], NoPackage} ]_vars
  BY <1>1, <1>2
<1> QED BY <1>3, DeployAlways, PTL DEF Spec, ReleasesAreFixed

=============================================================================
