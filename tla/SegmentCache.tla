------------------------------ MODULE SegmentCache ------------------------------
(***************************************************************************)
(* The segment cache of one pod: openers in several processes pin the      *)
(* segments of a view one after the other under shared file locks,         *)
(* download what is missing under an exclusive lock and the pod-wide fill  *)
(* lock, and make room by evicting segments that nobody has locked.        *)
(*                                                                         *)
(* An opener is one CachedIndexView: a loader thread while it is opened, a *)
(* mapped view afterwards.  File locks belong to open file descriptions,   *)
(* so which process an opener runs in does not matter.  Locks are not a    *)
(* variable: who holds them follows from where each opener is.             *)
(***************************************************************************)
EXTENDS Integers, Sequences, FiniteSets, SequencesExt

CONSTANTS
    Segment,  \* digests, ordered as numbers
    Size,     \* byte_size of each segment
    Budget,   \* max_cache_bytes
    Opener,
    Views     \* segments of the manifests to open, sorted by digest

ASSUME CacheAssumption ==
    /\ Segment \subseteq Nat /\ IsFiniteSet(Segment)
    /\ Size \in [Segment -> Nat \ {0}]
    /\ Budget \in Nat
    /\ Views \subseteq Seq(Segment) /\ <<>> \notin Views
    /\ \A refs \in Views : \A i, j \in 1 .. Len(refs) : i <= j => refs[i] <= refs[j]

VARIABLES
    disk,     \* segments in the cache directory
    recency,  \* place of each segment, the least recently used first: st_mtime_ns
    partial,  \* segments whose download-*.tmp file is in downloads/
    todo,     \* _make_room, under the fill lock: candidates not yet looked at, with their places
    opener    \* what each opener is doing

vars == <<disk, recency, partial, todo, opener>>

Closed == [pc   |-> "closed",
           refs |-> <<>>,   \* the view's segments
           next |-> 1]      \* the one to pin; those before it are pinned

Opening == {"shared", "exclusive", "recheck", "fill", "room", "get"}

Target(o) == opener[o].refs[opener[o].next]

Pins(o) == {opener[o].refs[i] : i \in 1 .. opener[o].next - 1}

\* Between obtaining the exclusive key lock and releasing it.
Exclusive(o) ==
    IF opener[o].pc \in {"recheck", "fill", "room", "get"} THEN {Target(o)} ELSE {}

HoldsFill(o) == opener[o].pc \in {"room", "get"}

SharedFree(s) == \A o \in Opener : s \notin Exclusive(o)

ExclusiveFree(s) == \A o \in Opener : s \notin Pins(o) /\ s \notin Exclusive(o)

FillFree == \A o \in Opener : ~HoldsFill(o)

\* Space in use, byte by byte.
BytesOf(s) == {<<s, i>> : i \in 1 .. Size[s]}

AllBytes(segments) == UNION {BytesOf(s) : s \in segments}

Used(segments) == Cardinality(AllBytes(segments))

Fits(s) == Used(disk) + Size[s] <= Budget

Goto(o, pc) == opener' = [opener EXCEPT ![o].pc = pc]

\* An exception or a close: mappings close first, then all locks are released.
Release(o) == opener' = [opener EXCEPT ![o] = Closed]

Touched(s) ==
    [r \in Segment |->
        IF r = s THEN Cardinality(Segment) - 1
        ELSE IF recency[r] > recency[s] THEN recency[r] - 1 ELSE recency[r]]

\* The listing of _make_room keeps the places it has found.
Listed(segments) == [s \in segments |-> recency[s]]

Oldest == CHOOSE s \in DOMAIN todo : \A r \in DOMAIN todo : todo[s] <= todo[r]

Rest == [s \in DOMAIN todo \ {Oldest} |-> todo[s]]

-----------------------------------------------------------------------------
(* CachedIndexView and _pin.                                                *)

\* A view beyond the budget is refused before anything is locked.
Open(o, refs) ==
    /\ opener[o].pc = "closed"
    /\ Used(ToSet(refs)) <= Budget
    /\ opener' = [opener EXCEPT ![o] = [Closed EXCEPT !.pc = "shared", !.refs = refs]]
    /\ UNCHANGED <<disk, recency, partial, todo>>

\* Mutant: the view is complete one segment later.
Pin_OffByOne(o) ==
    /\ opener[o].pc = "shared"
    /\ SharedFree(Target(o))
    /\ Target(o) \in disk
    /\ recency' = Touched(Target(o))
    /\ opener' = [opener EXCEPT ![o].next = @ + 1,
                                ![o].pc = IF opener[o].next > Len(opener[o].refs)
                                          THEN "open" ELSE "shared"]
    /\ UNCHANGED <<disk, partial, todo>>

\* The shared lock is held and the file exists: keep the lock, update the mtime.
\* After the last segment the files are mapped.
Pin(o) ==
    /\ opener[o].pc = "shared"
    /\ SharedFree(Target(o))
    /\ Target(o) \in disk
    /\ recency' = Touched(Target(o))
    /\ opener' = [opener EXCEPT ![o].next = @ + 1,
                                ![o].pc = IF opener[o].next = Len(opener[o].refs)
                                          THEN "open" ELSE "shared"]
    /\ UNCHANGED <<disk, partial, todo>>

\* The shared lock is held and the file is missing: release it, ask for the other.
Missing(o) ==
    /\ opener[o].pc = "shared"
    /\ SharedFree(Target(o))
    /\ Target(o) \notin disk
    /\ Goto(o, "exclusive")
    /\ UNCHANGED <<disk, recency, partial, todo>>

\* The exclusive key lock is obtained.
Lock(o) ==
    /\ opener[o].pc = "exclusive"
    /\ ExclusiveFree(Target(o))
    /\ Goto(o, "recheck")
    /\ UNCHANGED <<disk, recency, partial, todo>>

\* Mutant: whoever gets the exclusive lock downloads.
Recheck_Skipped(o) ==
    /\ opener[o].pc = "recheck"
    /\ Goto(o, "fill")
    /\ UNCHANGED <<disk, recency, partial, todo>>

\* Somebody else may have downloaded the segment meanwhile.
Recheck(o) ==
    /\ opener[o].pc = "recheck"
    /\ Goto(o, IF Target(o) \in disk THEN "shared" ELSE "fill")
    /\ UNCHANGED <<disk, recency, partial, todo>>

\* Mutant: only the wait for the fill lock is bounded.
TimeOut_FillOnly(o) ==
    /\ opener[o].pc = "fill" /\ ~FillFree
    /\ Release(o)
    /\ UNCHANGED <<disk, recency, partial, todo>>

\* A lock is still taken when lock_timeout has passed.
TimeOut(o) ==
    /\ \/ opener[o].pc = "shared" /\ ~SharedFree(Target(o))
       \/ opener[o].pc = "exclusive" /\ ~ExclusiveFree(Target(o))
       \/ opener[o].pc = "fill" /\ ~FillFree
    /\ Release(o)
    /\ UNCHANGED <<disk, recency, partial, todo>>

-----------------------------------------------------------------------------
(* _download and _make_room.                                                *)

\* Mutant: what a killed downloader left behind stays.
StartFill_KeepsPartial(o) ==
    /\ opener[o].pc = "fill"
    /\ FillFree
    /\ todo' = Listed(disk)
    /\ Goto(o, "room")
    /\ UNCHANGED <<disk, recency, partial>>

\* The fill lock is held: remove abandoned downloads, list the cached segments.
StartFill(o) ==
    /\ opener[o].pc = "fill"
    /\ FillFree
    /\ partial' = {}
    /\ todo' = Listed(disk)
    /\ Goto(o, "room")
    /\ UNCHANGED <<disk, recency>>

\* Mutant: eviction does not ask for the key lock.
Evict_IgnoresLocks(o) ==
    /\ opener[o].pc = "room" /\ ~Fits(Target(o)) /\ DOMAIN todo # {}
    /\ todo' = Rest
    /\ disk' = disk \ {Oldest}
    /\ UNCHANGED <<recency, partial, opener>>

\* One candidate: evicted, or skipped when its lock cannot be had at once.
Evict(o) ==
    /\ opener[o].pc = "room" /\ ~Fits(Target(o)) /\ DOMAIN todo # {}
    /\ todo' = Rest
    /\ disk' = IF ExclusiveFree(Oldest)
               THEN disk \ {Oldest} ELSE disk
    /\ UNCHANGED <<recency, partial, opener>>

\* Enough room: the download begins.
StartGet(o) ==
    /\ opener[o].pc = "room" /\ Fits(Target(o))
    /\ Goto(o, "get")
    /\ todo' = Listed({})
    /\ partial' = partial \cup {Target(o)}
    /\ UNCHANGED <<disk, recency>>

\* No candidate is left; what could not be evicted was in use when it was tried.
CacheFull(o) ==
    /\ opener[o].pc = "room" /\ ~Fits(Target(o)) /\ DOMAIN todo = {}
    /\ Release(o)
    /\ UNCHANGED <<disk, recency, partial, todo>>

\* The verified file is renamed into the cache; both locks are released.
Install(o) ==
    /\ opener[o].pc = "get"
    /\ disk' = disk \cup {Target(o)}
    /\ recency' = Touched(Target(o))
    /\ partial' = partial \ {Target(o)}
    /\ Goto(o, "shared")
    /\ UNCHANGED todo

\* S3 fails, or the bytes do not pass their checks.
GetError(o) ==
    /\ opener[o].pc = "get"
    /\ partial' = partial \ {Target(o)}
    /\ Release(o)
    /\ UNCHANGED <<disk, recency, todo>>

\* The view is no longer used.
Close(o) ==
    /\ opener[o].pc = "open"
    /\ Release(o)
    /\ UNCHANGED <<disk, recency, partial, todo>>

\* The process is killed: its locks go, its download stays.
Kill(o) ==
    /\ opener[o].pc \in Opening
    /\ todo' = IF opener[o].pc = "room" THEN Listed({}) ELSE todo
    /\ Release(o)
    /\ UNCHANGED <<disk, recency, partial>>

-----------------------------------------------------------------------------

Init ==
    /\ disk = {}
    /\ recency = [s \in Segment |-> Cardinality({r \in Segment : r < s})]
    /\ partial = {}
    /\ todo = Listed({})
    /\ opener = [o \in Opener |-> Closed]

Step(o) ==
    \/ Pin(o) \/ Missing(o) \/ Lock(o) \/ Recheck(o) \/ TimeOut(o)
    \/ StartFill(o) \/ Evict(o) \/ StartGet(o) \/ CacheFull(o)
    \/ Install(o) \/ GetError(o)

Next ==
    \E o \in Opener :
        \/ \E refs \in Views : Open(o, refs)
        \/ Step(o)
        \/ Close(o) \/ Kill(o)

Spec == Init /\ [][Next]_vars

\* Threads run, and S3 answers within its timeouts.  The window between the
\* exclusive and the shared lock is passed without waiting, so an eviction does
\* not win it for ever: strong fairness of Pin.
FairSpec == Spec /\ \A o \in Opener : WF_vars(Step(o)) /\ SF_vars(Pin(o))

-----------------------------------------------------------------------------
(* Properties.                                                              *)

TypeOK ==
    /\ disk \subseteq Segment /\ partial \subseteq Segment
    /\ recency \in [Segment -> 0 .. Cardinality(Segment) - 1] /\ IsInjective(recency)
    /\ todo \in [DOMAIN todo -> Nat] /\ IsInjective(todo) /\ DOMAIN todo \subseteq Segment
    /\ \A o \in Opener :
          /\ opener[o].pc \in Opening \cup {"closed", "open"}
          /\ opener[o].refs \in Views \cup {<<>>}
          /\ opener[o].next \in 1 .. Len(opener[o].refs) + 1
          /\ opener[o].pc \in Opening => opener[o].next <= Len(opener[o].refs)

\* A segment that a view has pinned, mapped or about to be, is never evicted.
PinnedSegmentsStay ==
    \A o \in Opener : Pins(o) \subseteq disk

\* Cached segments and downloads, abandoned ones included, stay in the budget.
BudgetIsKept == Used(disk) + Used(partial) <= Budget

\* path-index-s3.md: downloads are once per pod per resident segment.  What is
\* being downloaded is not on disk, and nobody else downloads it.
DownloadsAreNeeded ==
    \A o \in Opener : opener[o].pc \in {"fill", "room", "get"} =>
        /\ Target(o) \notin disk
        /\ \A p \in Opener \ {o} :
               opener[p].pc \in {"fill", "room", "get"} => Target(p) # Target(o)

\* An attempt to open a view ends, opened or refused: no circular wait, no wait
\* for a view that stays open, no endless contest of evictions.
AttemptsEnd ==
    \A o \in Opener : opener[o].pc \in Opening ~> opener[o].pc \notin Opening

\* path-index-s3.md: waiting workers reuse the completed file.  Nobody gives up
\* waiting for the lock to download a segment that is already in the cache.
WaitersReuseTheFile ==
    [][ \A o \in Opener :
          opener[o].pc = "exclusive" /\ TimeOut(o) => Target(o) \notin disk ]_vars

=============================================================================
