--------------------------- MODULE BloomFilterProofs ---------------------------
(***************************************************************************)
(* The Bloom filter of a repository, for any set of paths, any labels and  *)
(* any number of tasks, in every environment of a sound use (SoundUse).    *)
(*                                                                         *)
(* What carries the properties is where the filter may be usable, that is  *)
(* config # Unset: it is withdrawn before it is touched, so while it is    *)
(* usable it holds what it must (Held): the content of the latest version, *)
(* and from the moment a modify puts it into use the content of the        *)
(* version that modify is about to complete.  That BF.MADD refuses nothing *)
(* is an invariant of its own: in a repository that only grows the filter  *)
(* holds exactly those paths, and the check against the capacity counts    *)
(* them; where paths leave, the capacity exceeds all paths there are.      *)
(* Deleting the latest version is harmless where nothing was ever removed: *)
(* the versions before held less (OlderInv).                               *)
(***************************************************************************)
EXTENDS BloomFilter, FiniteSetTheorems, SequenceTheorems, TLAPS

\* Stages of the filter step of a repository with a label, and all stages.
Filtering == {"check", "add", "build", "ready", "save"}
Stages == Filtering \cup {"stopped", "delete", "finish"}

WriterType ==
    [pc : Stages, modify : BOOLEAN, draft : SUBSET Path, new : SUBSET Path,
     label : Nat, capacity : Nat]

VersionType == [content : SUBSET Path, added : SUBSET Path]

ReaderType ==
    [pc : {"idle", "config", "exists", "filtered"}, path : SUBSET Path,
     live : SUBSET Path, label : Nat]

TypeInv ==
    /\ env \in Environments
    /\ content \in SUBSET Path /\ added \in SUBSET Path /\ older \in Seq(VersionType)
    /\ label \in Nat /\ config \in Nat
    /\ filter \in Filter \cup {NoFilter}
    /\ steps \in 0 .. MaxSteps
    /\ writer \in [Writer -> WriterType]
    /\ \A w \in Writer : writer[w].pc \in Filtering => writer[w].label # Unset
    /\ reader \in ReaderType

\* Paths that are in no version may stay in the filter.
Loose == May("remove") \/ May("abort") \/ May("delete")

Task == writer["task"]

\* The process in the API never works on the filter; the task knows the content it
\* started from, and its label is the repository's while it updates the filter.
TaskInv ==
    /\ writer["api"] = Stopped
    /\ Task.pc # "stopped" =>
          IF Task.modify
          THEN /\ Task.new = Task.draft \ content
               /\ content \subseteq Task.draft \/ May("remove")
          ELSE Task.draft = content /\ Task.new = added
    /\ Task.pc \in Filtering => Task.label = label /\ label # Unset /\ Task.capacity # Unset
    /\ Task.pc \in {"check", "add"} => Task.capacity = Task.label
    /\ Task.pc \in {"add", "build"} => Cardinality(Task.draft) < Task.capacity
    /\ Task.pc = "delete" => label = Unset /\ May("unlabel") /\ ~Task.modify
    /\ Task.pc = "finish" => Task.modify

\* So a rebuild that adds the last version's paths adds nothing else.
AddedInv == added \subseteq content

\* Versions grow where one may be deleted.
OlderInv ==
    /\ older # <<>> => May("delete")
    /\ \A i \in 1 .. Len(older) :
          older[i].added \subseteq older[i].content /\ older[i].content \subseteq content
    /\ \A i, k \in 1 .. Len(older) : i <= k => older[k].content \subseteq older[i].content

\* Where paths may stay, no label is ever full.
RoomInv ==
    Loose => /\ label # Unset => Cardinality(Path) < label
             /\ Task.pc \in Filtering => Cardinality(Path) < Task.capacity

\* The filter is withdrawn while it is updated, and without a label.
WithdrawnInv ==
    Task.pc \in {"add", "build", "ready"} \/ (label = Unset /\ Task.pc # "delete") =>
        config = Unset

\* The paths a usable filter is there for.
Held == IF Task.pc \in {"ready", "save", "finish"} THEN Task.draft ELSE content

\* The filter in Redis has that capacity, holds those paths, and has room.
Holds(paths, capacity) ==
    /\ filter # NoFilter
    /\ filter.capacity = capacity
    /\ paths \subseteq filter.items
    /\ Cardinality(filter.items) < capacity
    /\ ~Loose => filter.items = paths

FilterInv ==
    /\ config # Unset => Holds(Held, config)
    /\ Task.pc \in {"add", "ready"} => Holds(Held, Task.capacity)

\* A request that has seen its label's configuration finds what was live when it
\* began: filters only grow or are replaced by larger ones.
ReaderInv ==
    ~May("remove") /\ ~May("delete") /\ ~May("unlabel") /\ reader.pc # "idle" =>
        /\ \E p \in Path : reader.path = {p}
        /\ reader.live \subseteq content /\ reader.label # Unset
        /\ reader.pc = "exists" => filter # NoFilter /\ reader.live \subseteq filter.items
        /\ reader.pc = "filtered" => reader.path \cap reader.live = {}

UseInv == TaskInv /\ AddedInv /\ RoomInv /\ WithdrawnInv /\ FilterInv /\ ReaderInv

BloomInv == TypeInv /\ SoundUse(env) /\ OlderInv /\ UseInv
-----------------------------------------------------------------------------
(* Capacities and insertions.                                               *)

\* Sets of paths are finite, and no larger than the set of all paths.
LEMMA PathSets ==
  \A s \in SUBSET Path :
      IsFiniteSet(s) /\ Cardinality(s) \in Nat /\ Cardinality(s) <= Cardinality(Path)
  BY BloomAssumption, FS_Subset, FS_CardinalityType

LEMMA MorePathsCountMore ==
  ASSUME NEW s \in SUBSET Path, NEW t \in SUBSET s
  PROVE  Cardinality(t) <= Cardinality(s)
  BY PathSets, FS_Subset

\* A filter that has been grown has room for the content.
LEMMA GrownGrows == \A n \in Nat : Grown(n) \in Nat /\ (n # 0 => n < Grown(n))
  BY DEF Grown

LEMMA SizedFits ==
  ASSUME NEW j \in WriterType
  PROVE  /\ Sized(j) \in Nat
         /\ j.capacity # Unset => Sized(j) # Unset /\ Cardinality(j.draft) < Sized(j)
         /\ Cardinality(j.draft) < j.capacity => Sized(j) = j.capacity
<1> DEFINE n == Cardinality(j.draft)
<1>1. n \in Nat /\ j.capacity \in Nat
  BY PathSets DEF WriterType
<1>2. Sized(j) = IF n >= j.capacity THEN Grown(n) ELSE j.capacity
  BY DEF Sized
<1>3. Grown(n) \in Nat /\ (n # 0 => n < Grown(n))
  BY <1>1, GrownGrows
<1> HIDE DEF n
<1> QED BY <1>1, <1>2, <1>3 DEF Unset, n

\* BF.MADD only adds.
LEMMA InsertedGrows ==
  ASSUME NEW f \in Filter, NEW paths \in SUBSET Path, NEW g \in Inserted(f, paths)
  PROVE  g \in Filter /\ f.items \subseteq g.items
<1>1. PICK s \in SUBSET (paths \ f.items) : g = [f EXCEPT !.items = @ \cup s]
  BY DEF Inserted
<1> QED BY <1>1 DEF Filter

\* With room for all of them, BF.MADD adds all paths.
LEMMA InsertedAll ==
  ASSUME NEW f \in Filter, NEW paths \in SUBSET Path, NEW g \in Inserted(f, paths),
         Cardinality(f.items \cup paths) <= f.capacity
  PROVE  g.items = f.items \cup paths /\ g.capacity = f.capacity
<1> DEFINE fresh == paths \ f.items
           n == Cardinality(f.items)
           m == Cardinality(fresh)
           room == IF f.capacity > n THEN f.capacity - n ELSE 0
<1>1. f.items \in SUBSET Path /\ f.capacity \in Nat /\ fresh \in SUBSET Path
  BY DEF Filter
<1>2. n \in Nat /\ m \in Nat /\ IsFiniteSet(f.items) /\ IsFiniteSet(fresh)
  BY <1>1, PathSets
<1>3. Cardinality(f.items \cup fresh) = n + m
  <2>1. f.items \cap fresh = {}
    OBVIOUS
  <2>2. Cardinality(f.items \cap fresh) = 0
    BY <2>1, FS_EmptySet
  <2>3. Cardinality(f.items \cup fresh) = n + m - Cardinality(f.items \cap fresh)
    BY <1>2, FS_Union
  <2> HIDE DEF n, m
  <2> QED BY <1>2, <2>2, <2>3
<1>4. f.items \cup fresh = f.items \cup paths
  OBVIOUS
<1>5. m <= room
  <2>1. n + m <= f.capacity
    BY <1>3, <1>4
  <2> HIDE DEF n, m
  <2> QED BY <1>1, <1>2, <2>1
<1>6. PICK s \in SUBSET fresh :
         Cardinality(s) = m /\ g = [f EXCEPT !.items = f.items \cup s]
  <2>1. PICK s \in {t \in SUBSET fresh :
                       Cardinality(t) = IF m <= room THEN m ELSE room} :
           g = [f EXCEPT !.items = f.items \cup s]
    BY DEF Inserted
  <2> QED BY <1>5, <2>1
<1>7. s = fresh
  BY <1>2, <1>6, FS_Subset
<1> HIDE DEF fresh
<1> QED BY <1>4, <1>6, <1>7 DEF Filter

-----------------------------------------------------------------------------
(* Types.                                                                   *)

\* What a writer starts with.
IsLoaded(j, pc, draft, new, capacity) ==
    /\ j \in WriterType
    /\ j.pc = pc /\ j.draft = draft /\ j.new = new
    /\ j.label = capacity /\ j.capacity = capacity

LEMMA LoadedType ==
  ASSUME NEW pc \in Stages, NEW draft \in SUBSET Path, NEW new \in SUBSET Path,
         NEW capacity \in Nat, NEW j,
         \/ j = Loaded(pc, TRUE, draft, new, capacity)
         \/ j = Loaded(pc, FALSE, draft, new, capacity)
  PROVE  IsLoaded(j, pc, draft, new, capacity)
<1>1. CASE j = Loaded(pc, TRUE, draft, new, capacity)
  BY <1>1, Zenon DEF Loaded, WriterType, IsLoaded
<1>2. CASE j = Loaded(pc, FALSE, draft, new, capacity)
  BY <1>2, Zenon DEF Loaded, WriterType, IsLoaded
<1> QED BY <1>1, <1>2

LEMMA LoadedModifies ==
  \A pc, draft, new, capacity :
      /\ Loaded(pc, TRUE, draft, new, capacity).modify
      /\ ~Loaded(pc, FALSE, draft, new, capacity).modify
  BY Zenon DEF Loaded

LEMMA StoppedType == Stopped \in WriterType /\ Stopped.pc = "stopped"
<1>1. "stopped" \in Stages /\ {} \in SUBSET Path /\ Unset \in Nat
  BY DEF Stages, Unset
<1>2. Stopped = Loaded("stopped", FALSE, {}, {}, Unset)
  BY DEF Stopped
<1>3. IsLoaded(Stopped, "stopped", {}, {}, Unset)
  BY <1>1, <1>2, LoadedType, Zenon
<1> QED BY <1>3 DEF IsLoaded

\* One writer changes, the other stays.
LEMMA Moved ==
  ASSUME writer \in [Writer -> WriterType], NEW w \in Writer, NEW j,
         writer' = [writer EXCEPT ![w] = j]
  PROVE  /\ writer'[w] = j
         /\ \A v \in Writer \ {w} : writer'[v] = writer[v]
         /\ j \in WriterType => writer' \in [Writer -> WriterType]
  OBVIOUS

\* What else a writer knows is what it knew.
Same(k, j) ==
    /\ k.modify = j.modify /\ k.draft = j.draft /\ k.new = j.new
    /\ k.label = j.label /\ k.capacity = j.capacity

LEMMA GotoMoves ==
  ASSUME TypeInv, NEW w \in Writer, NEW pc \in Stages, Goto(w, pc)
  PROVE  /\ writer' \in [Writer -> WriterType]
         /\ writer'[w].pc = pc /\ Same(writer'[w], writer[w])
         /\ \A v \in Writer \ {w} : writer'[v] = writer[v]
<1> DEFINE j == [writer[w] EXCEPT !.pc = pc]
<1>1. writer[w] \in WriterType /\ writer \in [Writer -> WriterType]
  BY DEF TypeInv
<1>2. j \in WriterType
  BY <1>1 DEF WriterType
<1>3. j.pc = pc /\ Same(j, writer[w])
  BY <1>1 DEF WriterType, Same
<1>4. writer' = [writer EXCEPT ![w] = j]
  BY DEF Goto
<1> HIDE DEF j
<1> QED BY <1>1, <1>2, <1>3, <1>4, Moved

\* Leaving the filter step.
LEMMA LeaveMoves ==
  ASSUME TypeInv, NEW w \in Writer, Leave(w)
  PROVE  /\ writer' \in [Writer -> WriterType]
         /\ \A v \in Writer \ {w} : writer'[v] = writer[v]
         /\ IF writer[w].modify
            THEN writer'[w].pc = "finish" /\ Same(writer'[w], writer[w])
            ELSE writer'[w] = Stopped
<1>1. CASE writer[w].modify
  <2>1. Goto(w, "finish")
    BY <1>1 DEF Leave
  <2> QED BY <1>1, <2>1, GotoMoves DEF Stages
<1>2. CASE ~writer[w].modify
  <2>1. writer' = [writer EXCEPT ![w] = Stopped]
    BY <1>2 DEF Leave
  <2> QED BY <1>2, <2>1, StoppedType, Moved DEF TypeInv
<1> QED BY <1>1, <1>2

\* A writer starts.
LEMMA StartMoves ==
  ASSUME TypeInv, NEW w \in Writer, NEW j \in WriterType, Start(w, j)
  PROVE  /\ writer[w].pc = "stopped"
         /\ writer' \in [Writer -> WriterType] /\ writer'[w] = j
         /\ \A v \in Writer \ {w} : writer'[v] = writer[v]
         /\ steps' \in 0 .. MaxSteps
<1>1. /\ writer' = [writer EXCEPT ![w] = j] /\ writer \in [Writer -> WriterType]
      /\ writer[w].pc = "stopped"
  BY DEF Start, TypeInv
<1>2. steps' \in 0 .. MaxSteps
  BY BloomAssumption DEF TypeInv, Start
<1> QED BY <1>1, <1>2, Moved

\* Labels are capacities.
LEMMA LabelType == TypeInv => env.labels \cup {Unset} \subseteq Nat
  BY BloomAssumption DEF TypeInv, Unset

LEMMA TypeInit == Init => TypeInv
<1> SUFFICES ASSUME Init PROVE TypeInv
  OBVIOUS
<1>1. writer \in [Writer -> WriterType] /\ \A w \in Writer : writer[w].pc \notin Filtering
  BY StoppedType DEF Init, Filtering
<1>2. reader \in ReaderType
  BY DEF Init, NoRequest, ReaderType, Unset
<1> QED BY <1>1, <1>2, BloomAssumption DEF Init, TypeInv, Unset

\* The writers after a step, when the rest is well formed.
LEMMA WriterKeeps ==
  ASSUME TypeInv, NEW w \in Writer, writer' \in [Writer -> WriterType],
         \A v \in Writer \ {w} : writer'[v] = writer[v],
         writer'[w].pc \in Filtering => writer'[w].label # Unset
  PROVE  \A v \in Writer : writer'[v].pc \in Filtering => writer'[v].label # Unset
  BY DEF TypeInv

LEMMA TypeUpdate ==
  ASSUME TypeInv, NEW w \in Writer, Update(w) \/ RedisError(w) \/ PartialAdd(w) \/ Crash(w)
  PROVE  TypeInv'
<1>1. /\ writer \in [Writer -> WriterType] /\ writer[w] \in WriterType
      /\ writer[w].pc \in Filtering => writer[w].label # Unset
      /\ Unset \in Nat
  BY DEF TypeInv, Unset
<1>2. ASSUME Leave(w)
      PROVE  /\ writer' \in [Writer -> WriterType]
             /\ \A v \in Writer : writer'[v].pc \in Filtering => writer'[v].label # Unset
  <2>1. writer'[w].pc \notin Filtering
    BY <1>2, LeaveMoves, StoppedType DEF Filtering
  <2> QED BY <1>2, <2>1, LeaveMoves, WriterKeeps
<1>3. ASSUME NEW pc \in Filtering, Goto(w, pc), writer[w].pc \in Filtering
      PROVE  /\ writer' \in [Writer -> WriterType]
             /\ \A v \in Writer : writer'[v].pc \in Filtering => writer'[v].label # Unset
  <2>1. pc \in Stages
    BY DEF Stages
  <2>2. writer'[w].label # Unset
    BY <1>1, <1>3, <2>1, GotoMoves DEF Same
  <2> QED BY <1>3, <2>1, <2>2, GotoMoves, WriterKeeps
<1>4. CASE Delete(w)
  BY <1>1, <1>2, <1>4 DEF Delete, database, TypeInv
<1>5. CASE Check(w)
  <2>1. CASE Matches(writer[w]) /\ Cardinality(writer[w].draft) < writer[w].capacity
    <3>1. Goto(w, "add")
      BY <1>5, <2>1 DEF Check
    <3> QED BY <1>1, <1>3, <1>5, <3>1 DEF Check, database, TypeInv, Filtering
  <2>2. CASE ~(Matches(writer[w]) /\ Cardinality(writer[w].draft) < writer[w].capacity)
    <3> DEFINE j == [writer[w] EXCEPT !.pc = "build", !.capacity = Sized(writer[w])]
    <3>1. writer' = [writer EXCEPT ![w] = j]
      BY <1>5, <2>2 DEF Check
    <3>2. j \in WriterType /\ j.label = writer[w].label
      BY <1>1, SizedFits DEF WriterType, Stages, Filtering
    <3> HIDE DEF j
    <3>3. /\ writer' \in [Writer -> WriterType] /\ writer'[w] = j
          /\ \A v \in Writer \ {w} : writer'[v] = writer[v]
      BY <1>1, <3>1, <3>2, Moved
    <3>4. j.label # Unset
      BY <1>1, <1>5, <3>2 DEF Check, Filtering
    <3>5. \A v \in Writer : writer'[v].pc \in Filtering => writer'[v].label # Unset
      BY <3>3, <3>4, WriterKeeps
    <3> QED BY <1>1, <1>5, <3>3, <3>5 DEF Check, database, TypeInv
  <2> QED BY <2>1, <2>2
<1>6. CASE Add(w)
  <2>1. filter' \in Filter
    <3>1. writer[w].new \in SUBSET Path
      BY <1>1 DEF WriterType
    <3>2. CASE filter = NoFilter
      BY <1>6, <3>1, <3>2 DEF Add, Filter
    <3>3. CASE filter # NoFilter
      BY <1>6, <3>1, <3>3, InsertedGrows DEF Add, TypeInv
    <3> QED BY <3>2, <3>3
  <2> QED BY <1>3, <1>6, <2>1 DEF Add, database, TypeInv, Filtering
<1>7. CASE Build(w)
  <2>1. filter' \in Filter
    BY <1>1, <1>7 DEF Build, WriterType, Filter
  <2> QED BY <1>3, <1>7, <2>1 DEF Build, database, TypeInv, Filtering
<1>8. CASE Ready(w)
  <2>1. config' \in Nat
    BY <1>1, <1>8 DEF Ready, WriterType
  <2>2. CASE Leave(w)
    BY <1>2, <1>8, <2>1, <2>2 DEF Ready, database, TypeInv
  <2>3. CASE Goto(w, "save")
    BY <1>3, <1>8, <2>1, <2>3 DEF Ready, database, TypeInv, Filtering
  <2> QED BY <1>8, <2>2, <2>3 DEF Ready
<1>9. CASE SaveLabel(w)
  <2>1. label' \in Nat
    BY <1>1, <1>9 DEF SaveLabel, WriterType
  <2> QED BY <1>2, <1>9, <2>1 DEF SaveLabel, redis, TypeInv
<1>10. CASE RedisError(w)
  BY <1>2, <1>10 DEF RedisError, database, redis, TypeInv
<1>11. CASE PartialAdd(w)
  <2>1. PICK paths \in SUBSET writer[w].new : filter' \in Inserted(filter, paths)
    BY <1>11 DEF PartialAdd
  <2>2. filter' \in Filter
    BY <1>1, <1>11, <2>1, InsertedGrows DEF PartialAdd, TypeInv, WriterType
  <2> QED BY <1>2, <1>11, <2>2 DEF PartialAdd, database, TypeInv
<1>12. CASE Crash(w)
  <2>1. /\ writer' \in [Writer -> WriterType] /\ writer'[w] = Stopped
        /\ \A v \in Writer \ {w} : writer'[v] = writer[v]
    BY <1>1, <1>12, StoppedType, Moved DEF Crash
  <2>2. writer'[w].pc \notin Filtering
    BY <2>1, StoppedType DEF Filtering
  <2> QED BY <1>12, <2>1, <2>2, WriterKeeps DEF Crash, database, redis, TypeInv
<1> QED BY <1>4, <1>5, <1>6, <1>7, <1>8, <1>9, <1>10, <1>11, <1>12 DEF Update

\* A version goes before the ones that were there.
LEMMA OlderPushed ==
  ASSUME NEW s \in Seq(VersionType), NEW v \in VersionType, NEW t, t = <<v>> \o s
  PROVE  /\ t \in Seq(VersionType) /\ Len(t) = Len(s) + 1
         /\ \A i \in 1 .. Len(t) : t[i] = IF i = 1 THEN v ELSE s[i - 1]
<1>1. <<v>> \in Seq(VersionType) /\ Len(<<v>>) = 1 /\ <<v>>[1] = v
  OBVIOUS
<1>2. /\ t \in Seq(VersionType) /\ Len(t) = 1 + Len(s)
      /\ \A i \in 1 .. 1 + Len(s) : t[i] = IF i <= 1 THEN <<v>>[i] ELSE s[i - 1]
  BY <1>1, ConcatProperties
<1>3. Len(s) \in Nat
  BY LenProperties
<1> QED BY <1>1, <1>2, <1>3

LEMMA TypeNext == TypeInv /\ [Next]_vars => TypeInv'
<1> SUFFICES ASSUME TypeInv, [Next]_vars PROVE TypeInv'
  OBVIOUS
<1>1. Unset \in Nat /\ NoRequest \in ReaderType
  BY DEF Unset, NoRequest, ReaderType
<1>2. ASSUME NEW draft \in SUBSET Path, NEW skip \in BOOLEAN, StartModify(draft, skip)
      PROVE  TypeInv'
  <2> DEFINE pc == IF skip \/ label = Unset THEN "finish" ELSE "check"
             j == Loaded(pc, TRUE, draft, draft \ content, label)
  <2>1. pc \in Stages /\ label \in Nat /\ draft \ content \in SUBSET Path
    BY DEF Stages, Filtering, TypeInv
  <2>2. j = Loaded(pc, TRUE, draft, draft \ content, label)
    OBVIOUS
  <2>3. Start("task", j)
    BY <1>2 DEF StartModify
  <2> HIDE DEF j
  <2>4. IsLoaded(j, pc, draft, draft \ content, label)
    BY <2>1, <2>2, LoadedType, Zenon
  <2>5. j.pc \in Filtering => j.label # Unset
    BY <2>4 DEF Filtering, IsLoaded
  <2>6. /\ writer' \in [Writer -> WriterType] /\ steps' \in 0 .. MaxSteps
        /\ \A v \in Writer : writer'[v].pc \in Filtering => writer'[v].label # Unset
    BY <2>3, <2>4, <2>5, StartMoves, WriterKeeps DEF Writer, IsLoaded
  <2> QED BY <1>2, <2>6 DEF StartModify, database, redis, TypeInv
<1>3. ASSUME NEW w \in Writer, NEW new \in env.labels \cup {Unset}, ChangeLabel(w, new)
      PROVE  TypeInv'
  <2> DEFINE pc == IF new = Unset THEN "delete" ELSE "check"
             j == Loaded(pc, FALSE, content, added, new)
  <2>1. pc \in Stages /\ new \in Nat /\ content \in SUBSET Path /\ added \in SUBSET Path
    BY LabelType DEF Stages, Filtering, TypeInv
  <2>2. j = Loaded(pc, FALSE, content, added, new)
    OBVIOUS
  <2>3. Start(w, j)
    BY <1>3 DEF ChangeLabel
  <2> HIDE DEF j
  <2>4. IsLoaded(j, pc, content, added, new)
    BY <2>1, <2>2, LoadedType, Zenon
  <2>5. j.pc \in Filtering => j.label # Unset
    BY <2>4 DEF Filtering, IsLoaded
  <2>6. /\ writer' \in [Writer -> WriterType] /\ steps' \in 0 .. MaxSteps
        /\ \A v \in Writer : writer'[v].pc \in Filtering => writer'[v].label # Unset
    BY <2>3, <2>4, <2>5, StartMoves, WriterKeeps DEF IsLoaded
  <2> QED BY <1>3, <2>1, <2>6 DEF ChangeLabel, redis, TypeInv
<1>4. ASSUME writer' = [writer EXCEPT !["task"] = Stopped]
      PROVE  /\ writer' \in [Writer -> WriterType]
             /\ \A v \in Writer : writer'[v].pc \in Filtering => writer'[v].label # Unset
  <2>1. /\ writer' \in [Writer -> WriterType] /\ writer'["task"] = Stopped
        /\ \A v \in Writer \ {"task"} : writer'[v] = writer[v]
    BY <1>4, StoppedType, Moved DEF TypeInv, Writer
  <2> QED BY <2>1, StoppedType, WriterKeeps DEF Filtering, Writer
<1>5. CASE Complete
  <2>1. content' \in SUBSET Path /\ added' \in SUBSET Path
    BY <1>5 DEF Complete, TypeInv, WriterType, Writer
  <2>2. older' \in Seq(VersionType)
    <3> DEFINE v == [content |-> content, added |-> added]
    <3>1. v \in VersionType
      BY DEF TypeInv, VersionType
    <3>2. older' = older \/ older' = <<v>> \o older
      BY <1>5 DEF Complete
    <3>3. older \in Seq(VersionType)
      BY DEF TypeInv
    <3> HIDE DEF v
    <3>4. CASE older' = older
      BY <3>3, <3>4
    <3>5. CASE older' = <<v>> \o older
      BY <3>1, <3>3, <3>5, OlderPushed
    <3> QED BY <3>2, <3>4, <3>5
  <2> QED BY <1>4, <1>5, <2>1, <2>2 DEF Complete, redis, TypeInv
<1>13. CASE DeleteLatest
  <2>1. older \in Seq(VersionType) /\ older # <<>>
    BY <1>13 DEF DeleteLatest, TypeInv
  <2>2. Head(older) \in VersionType /\ older' \in Seq(VersionType)
    BY <1>13, <2>1, HeadTailProperties DEF DeleteLatest
  <2>3. content' \in SUBSET Path /\ added' \in SUBSET Path
    BY <1>13, <2>2 DEF DeleteLatest, VersionType
  <2>4. steps' \in 0 .. MaxSteps
    BY <1>13, BloomAssumption DEF DeleteLatest, TypeInv
  <2> QED BY <1>13, <2>2, <2>3, <2>4 DEF DeleteLatest, redis, TypeInv
<1>6. CASE AbortModify
  BY <1>4, <1>6 DEF AbortModify, database, redis, TypeInv
<1>7. ASSUME UNCHANGED <<writer, steps>>, UNCHANGED database, UNCHANGED redis,
             reader' \in ReaderType
      PROVE  TypeInv'
  BY <1>7 DEF database, redis, TypeInv
<1>8. ASSUME NEW p \in Path, Request(p) PROVE TypeInv'
  <2>1. reader' \in ReaderType
    BY <1>8 DEF Request, ReaderType, TypeInv
  <2> QED BY <1>7, <1>8, <2>1 DEF Request
<1>9. CASE ReadConfig
  <2>1. reader' \in ReaderType
    BY <1>1, <1>9 DEF ReadConfig, ReaderType, TypeInv
  <2> QED BY <1>7, <1>9, <2>1 DEF ReadConfig
<1>10. CASE ReadFilter
  <2>1. reader' \in ReaderType
    BY <1>1, <1>10 DEF ReadFilter, ReaderType, TypeInv
  <2> QED BY <1>7, <1>10, <2>1 DEF ReadFilter
<1>11. CASE EndRequest
  BY <1>1, <1>7, <1>11 DEF EndRequest
<1>12. CASE UNCHANGED vars
  BY <1>12 DEF vars, TypeInv
<1> QED BY <1>2, <1>3, <1>5, <1>6, <1>8, <1>9, <1>10, <1>11, <1>12, <1>13,
       TypeUpdate DEF Next

\* Types, stages and the reader's stages, for every way of use.
THEOREM BloomTypes == Spec => []TypeOK
<1>1. TypeInv => TypeOK
  BY DEF TypeInv, TypeOK, WriterType, ReaderType, Stages, Filtering
<1> QED BY <1>1, TypeInit, TypeNext, PTL DEF Spec

-----------------------------------------------------------------------------
(* The filter under a sound use.                                            *)

LEMMA UseInit == Init => UseInv
<1> SUFFICES ASSUME Init PROVE UseInv
  OBVIOUS
<1>1. writer["api"] = Stopped /\ Task = Stopped /\ Task.pc = "stopped"
  BY StoppedType DEF Init, Writer, Task
<1>2. reader.pc = "idle"
  BY DEF Init, NoRequest
<1>3. TaskInv
  BY <1>1 DEF TaskInv, Filtering
<1>4. AddedInv /\ RoomInv /\ WithdrawnInv /\ ReaderInv
  BY <1>1, <1>2 DEF Init, AddedInv, RoomInv, WithdrawnInv, ReaderInv, Filtering
<1>5. FilterInv
  BY <1>1 DEF Init, FilterInv
<1> QED BY <1>3, <1>4, <1>5 DEF UseInv

LEMMA OlderInit == Init => OlderInv
  BY DEF Init, OlderInv

LEMMA TaskType == TypeInv => Task \in WriterType
  BY DEF TypeInv, Task, Writer

\* Nobody but the task updates the filter.
LEMMA OnlyTask ==
  ASSUME TypeInv, SoundUse(env), UseInv, NEW w \in Writer,
         \/ Update(w) \/ RedisError(w) \/ PartialAdd(w) \/ Crash(w)
         \/ \E new \in env.labels \cup {Unset} : ChangeLabel(w, new)
  PROVE  w = "task"
<1>1. writer["api"].pc = "stopped"
  BY StoppedType DEF UseInv, TaskInv
<1>2. ~May("race") /\ ~May("fault")
  BY DEF SoundUse, May
<1> QED BY <1>1, <1>2 DEF Writer, Update, Delete, Check, Add, Build, Ready, SaveLabel,
          RedisError, PartialAdd, Crash, ChangeLabel

\* A request goes on while content and filter do.
LEMMA ReaderKeeps ==
  ASSUME ReaderInv, UNCHANGED <<env, reader>>,
         ~May("remove") => content \subseteq content',
         ~May("remove") /\ ~May("delete") /\ ~May("unlabel") /\ reader.pc = "exists" /\ filter # NoFilter
             /\ reader.live \subseteq content /\ reader.live \subseteq filter.items =>
                 filter' # NoFilter /\ reader.live \subseteq filter'.items
  PROVE  ReaderInv'
  BY DEF ReaderInv, May

\* Where the task stands after Goto.
LEMMA TaskGoes ==
  ASSUME TypeInv, NEW pc \in Stages, Goto("task", pc)
  PROVE  /\ writer'["api"] = writer["api"]
         /\ Task'.pc = pc /\ Same(Task', Task)
  BY GotoMoves DEF Writer, Task

LEMMA TaskLeaves ==
  ASSUME TypeInv, Leave("task")
  PROVE  /\ writer'["api"] = writer["api"]
         /\ \/ Task.modify /\ Task'.pc = "finish" /\ Same(Task', Task)
            \/ ~Task.modify /\ Task'.pc = "stopped"
  BY LeaveMoves, StoppedType DEF Writer, Task

LEMMA UseStartModify ==
  ASSUME TypeInv, SoundUse(env), UseInv, NEW draft \in SUBSET Path, NEW skip \in BOOLEAN,
         StartModify(draft, skip)
  PROVE  UseInv'
<1> DEFINE pc == IF skip \/ label = Unset THEN "finish" ELSE "check"
           j == Loaded(pc, TRUE, draft, draft \ content, label)
<1>1. /\ pc \in Stages /\ label \in Nat /\ draft \ content \in SUBSET Path
      /\ "task" \in Writer /\ "api" \in Writer
  BY DEF Stages, Filtering, TypeInv, Writer
<1>2. j = Loaded(pc, TRUE, draft, draft \ content, label) /\ j.modify
  BY LoadedModifies
<1>3. Start("task", j)
  BY DEF StartModify
<1>4. pc = IF label = Unset THEN "finish" ELSE "check"
  BY DEF StartModify, SoundUse, May
<1> HIDE DEF j
<1>5. IsLoaded(j, pc, draft, draft \ content, label)
  BY <1>1, <1>2, LoadedType, Zenon
<1> HIDE DEF pc
<1>6. Task.pc = "stopped" /\ Task' = j /\ writer'["api"] = writer["api"]
  BY <1>1, <1>3, <1>5, StartMoves DEF IsLoaded, Task
<1>7. UNCHANGED <<env, content, added, label, filter, config, reader>>
  BY DEF StartModify, database, redis
<1>8. content \subseteq draft \/ May("remove")
  BY DEF StartModify
<1>9. TaskInv'
  BY <1>2, <1>4, <1>5, <1>6, <1>7, <1>8 DEF UseInv, TaskInv, IsLoaded, Filtering, May
<1>10. AddedInv' /\ RoomInv' /\ WithdrawnInv'
  BY <1>4, <1>5, <1>6, <1>7
     DEF UseInv, AddedInv, RoomInv, WithdrawnInv, IsLoaded, Filtering, Loose, May
<1>11. FilterInv'
  BY <1>4, <1>5, <1>6, <1>7
     DEF UseInv, FilterInv, WithdrawnInv, Holds, Held, IsLoaded, Loose, May
<1>12. ReaderInv'
  BY <1>7, ReaderKeeps DEF UseInv
<1> QED BY <1>9, <1>10, <1>11, <1>12 DEF UseInv

LEMMA UseChangeLabel ==
  ASSUME TypeInv, SoundUse(env), UseInv, NEW new \in env.labels \cup {Unset},
         ChangeLabel("task", new)
  PROVE  UseInv'
<1> DEFINE pc == IF new = Unset THEN "delete" ELSE "check"
           j == Loaded(pc, FALSE, content, added, new)
<1>1. /\ pc \in Stages /\ new \in Nat
      /\ content \in SUBSET Path /\ added \in SUBSET Path
      /\ "task" \in Writer /\ "api" \in Writer
  BY LabelType DEF Stages, Filtering, TypeInv, Writer
<1>2. j = Loaded(pc, FALSE, content, added, new) /\ ~j.modify
  BY LoadedModifies
<1>3. Start("task", j)
  BY DEF ChangeLabel
<1> HIDE DEF j
<1>4. IsLoaded(j, pc, content, added, new)
  BY <1>1, <1>2, LoadedType, Zenon
<1>5. pc = IF new = Unset THEN "delete" ELSE "check"
  OBVIOUS
<1> HIDE DEF pc
<1>6. Task.pc = "stopped" /\ Task' = j /\ writer'["api"] = writer["api"]
  BY <1>1, <1>3, <1>4, StartMoves DEF IsLoaded, Task
<1>7. UNCHANGED <<env, content, added, filter, config, reader>> /\ label' = new
  BY DEF ChangeLabel, redis
<1>8. new = Unset => May("unlabel")
  BY DEF ChangeLabel
<1>9. TaskInv'
  BY <1>2, <1>4, <1>5, <1>6, <1>7, <1>8 DEF UseInv, TaskInv, IsLoaded, Filtering, May
<1>10. AddedInv' /\ WithdrawnInv'
  BY <1>4, <1>5, <1>6, <1>7 DEF UseInv, AddedInv, WithdrawnInv, IsLoaded
<1>11. RoomInv'
  <2>1. Loose /\ new # Unset => Cardinality(Path) < new
    BY DEF Loose, May, SoundUse
  <2> QED BY <1>4, <1>5, <1>6, <1>7, <2>1 DEF RoomInv, IsLoaded, Loose, May, Filtering
<1>12. FilterInv'
  BY <1>4, <1>5, <1>6, <1>7 DEF UseInv, FilterInv, Holds, Held, IsLoaded, Loose, May
<1>13. ReaderInv'
  BY <1>7, ReaderKeeps DEF UseInv
<1> QED BY <1>9, <1>10, <1>11, <1>12, <1>13 DEF UseInv

LEMMA UseDelete ==
  ASSUME TypeInv, UseInv, Delete("task")
  PROVE  UseInv'
<1>1. /\ Task.pc = "delete" /\ config' = Unset
      /\ UNCHANGED <<env, content, added, label, reader>>
  BY DEF Delete, Task, database
<1>2. ~Task.modify /\ May("unlabel") /\ label = Unset
  BY <1>1 DEF UseInv, TaskInv
<1>3. Task'.pc = "stopped" /\ writer'["api"] = writer["api"]
  BY <1>2, TaskLeaves DEF Delete
<1>4. TaskInv' /\ AddedInv' /\ RoomInv' /\ WithdrawnInv' /\ FilterInv' /\ ReaderInv'
  BY <1>1, <1>2, <1>3 DEF UseInv, TaskInv, AddedInv, RoomInv, WithdrawnInv, FilterInv,
                          ReaderInv, Filtering, Loose, May
<1> QED BY <1>4 DEF UseInv

LEMMA UseComplete ==
  ASSUME TypeInv, UseInv, Complete
  PROVE  UseInv'
<1>1. /\ Task.pc = "finish" /\ content' = Task.draft
      /\ added' = IF Task.draft = content THEN added ELSE Task.new
      /\ writer' = [writer EXCEPT !["task"] = Stopped]
      /\ UNCHANGED <<env, label, filter, config, reader>>
  BY DEF Complete, Task, redis
<1>2. Task' = Stopped /\ writer'["api"] = writer["api"]
  BY <1>1 DEF TypeInv, Task, Writer
<1>3. /\ Task.new = Task.draft \ content
      /\ content \subseteq Task.draft \/ May("remove")
  BY <1>1 DEF UseInv, TaskInv
<1>4. TaskInv' /\ AddedInv' /\ RoomInv' /\ WithdrawnInv'
  BY <1>1, <1>2, <1>3, StoppedType
     DEF UseInv, TaskInv, AddedInv, RoomInv, WithdrawnInv, Filtering, Loose, May
<1>5. FilterInv'
  BY <1>1, <1>2, StoppedType DEF UseInv, FilterInv, Holds, Held, Loose, May
<1>6. ReaderInv'
  BY <1>1, <1>3, ReaderKeeps DEF UseInv
<1> QED BY <1>4, <1>5, <1>6 DEF UseInv

\* A version that is dropped leaves at most more paths in the filter.
LEMMA UseAbortModify ==
  ASSUME TypeInv, SoundUse(env), UseInv, AbortModify
  PROVE  UseInv'
<1>1. /\ Task.pc = "finish" /\ May("abort")
      /\ writer' = [writer EXCEPT !["task"] = Stopped]
      /\ UNCHANGED <<env, content, added, label, filter, config, reader>>
  BY DEF AbortModify, Task, redis, database
<1>2. Task' = Stopped /\ writer'["api"] = writer["api"]
  BY <1>1 DEF TypeInv, Task, Writer
<1>3. content \subseteq Task.draft
  BY <1>1 DEF UseInv, TaskInv, SoundUse, May
<1>4. TaskInv' /\ AddedInv' /\ RoomInv' /\ WithdrawnInv'
  BY <1>1, <1>2, <1>3, StoppedType
     DEF UseInv, TaskInv, AddedInv, RoomInv, WithdrawnInv, Filtering, Loose, May
<1>5. FilterInv'
  BY <1>1, <1>2, <1>3, StoppedType DEF UseInv, FilterInv, Holds, Held, Loose, May
<1>6. ReaderInv'
  BY <1>1, ReaderKeeps DEF UseInv
<1> QED BY <1>4, <1>5, <1>6 DEF UseInv

\* What is the latest version now held no more.
LEMMA UseDeleteLatest ==
  ASSUME TypeInv, OlderInv, UseInv, DeleteLatest
  PROVE  UseInv'
<1>1. /\ May("delete") /\ Task.pc = "stopped"
      /\ content' = Head(older).content /\ added' = Head(older).added
      /\ UNCHANGED <<env, label, filter, config, writer, reader>>
  BY DEF DeleteLatest, Task, redis
<1>2. older \in Seq(VersionType) /\ older # <<>>
  BY DEF DeleteLatest, TypeInv
<1>3. Len(older) \in Nat /\ Len(older) # 0 /\ Head(older) = older[1]
  BY <1>2, HeadTailProperties, EmptySeq, LenProperties
<1>4. content' \subseteq content /\ added' \subseteq content'
  BY <1>1, <1>3 DEF OlderInv
<1>5. TaskInv' /\ AddedInv' /\ RoomInv' /\ WithdrawnInv'
  BY <1>1, <1>4 DEF UseInv, TaskInv, AddedInv, RoomInv, WithdrawnInv, Task, Filtering, Loose, May
<1>6. FilterInv'
  BY <1>1, <1>4 DEF UseInv, FilterInv, Holds, Held, Task, Loose, May
<1>7. ReaderInv'
  BY <1>1 DEF ReaderInv, May
<1> QED BY <1>5, <1>6, <1>7 DEF UseInv

LEMMA OlderComplete ==
  ASSUME TypeInv, SoundUse(env), OlderInv, UseInv, Complete
  PROVE  OlderInv'
<1>1. /\ Task.pc = "finish" /\ content' = Task.draft /\ env' = env
      /\ content \subseteq Task.draft \/ May("remove")
  BY DEF Complete, Task, UseInv, TaskInv
<1>2. CASE older' = older
  <2>1. older # <<>> => content \subseteq content'
    BY <1>1 DEF OlderInv, SoundUse, May
  <2>2. Len(older) \in Nat /\ (older = <<>> => Len(older) = 0)
    BY EmptySeq, LenProperties DEF TypeInv
  <2> QED BY <1>1, <1>2, <2>1, <2>2 DEF OlderInv, May
<1>3. CASE older' # older
  <2> DEFINE v == [content |-> content, added |-> added]
  <2>1. older' = <<v>> \o older /\ May("delete")
    BY <1>3 DEF Complete
  <2>2. /\ v \in VersionType /\ v.content = content /\ v.added \subseteq content
        /\ content \subseteq content'
    BY <1>1, <2>1 DEF VersionType, TypeInv, UseInv, AddedInv, SoundUse, May
  <2> HIDE DEF v
  <2>3. /\ Len(older') = Len(older) + 1 /\ Len(older) \in Nat
        /\ \A i \in 1 .. Len(older') : older'[i] = IF i = 1 THEN v ELSE older[i - 1]
    BY <2>1, <2>2, OlderPushed, LenProperties DEF TypeInv
  <2>4. \A i \in 1 .. Len(older) :
            older[i].added \subseteq older[i].content /\ older[i].content \subseteq content
    BY DEF OlderInv
  <2>5. ASSUME NEW i \in 1 .. Len(older')
        PROVE  older'[i].added \subseteq older'[i].content /\ older'[i].content \subseteq content'
    <3>1. CASE i = 1
      BY <2>2, <2>3, <3>1
    <3>2. CASE i # 1
      <4>1. i - 1 \in 1 .. Len(older) /\ older'[i] = older[i - 1]
        BY <2>3, <3>2
      <4> QED BY <2>2, <2>4, <4>1
    <3> QED BY <3>1, <3>2
  <2>6. ASSUME NEW i \in 1 .. Len(older'), NEW k \in 1 .. Len(older'), i <= k
        PROVE  older'[k].content \subseteq older'[i].content
    <3>1. CASE k = 1
      <4>1. i = k
        BY <2>3, <2>6, <3>1
      <4> QED BY <4>1
    <3>2. CASE k # 1 /\ i = 1
      <4>1. k - 1 \in 1 .. Len(older) /\ older'[k] = older[k - 1] /\ older'[i] = v
        BY <2>3, <3>2
      <4> QED BY <2>2, <2>4, <4>1
    <3>3. CASE k # 1 /\ i # 1
      <4>1. /\ k - 1 \in 1 .. Len(older) /\ older'[k] = older[k - 1]
            /\ i - 1 \in 1 .. Len(older) /\ older'[i] = older[i - 1] /\ i - 1 <= k - 1
        BY <2>3, <2>6, <3>3
      <4> QED BY <4>1 DEF OlderInv
    <3> QED BY <3>1, <3>2, <3>3
  <2> QED BY <1>1, <2>1, <2>5, <2>6 DEF OlderInv, May
<1> QED BY <1>2, <1>3

LEMMA OlderDeleteLatest ==
  ASSUME TypeInv, OlderInv, DeleteLatest
  PROVE  OlderInv'
<1>1. /\ content' = Head(older).content /\ older' = Tail(older) /\ env' = env
      /\ older \in Seq(VersionType) /\ older # <<>> /\ May("delete")
  BY DEF DeleteLatest, TypeInv
<1>2. /\ Len(older) \in Nat /\ Len(older) # 0 /\ Head(older) = older[1]
      /\ Len(older') = Len(older) - 1
      /\ \A i \in 1 .. Len(older') : older'[i] = older[i + 1]
  BY <1>1, HeadTailProperties, EmptySeq, LenProperties
<1>3. \A i \in 1 .. Len(older') : i + 1 \in 1 .. Len(older) /\ 1 <= i + 1
  BY <1>2
<1>4. 1 \in 1 .. Len(older)
  BY <1>2
<1>5. ASSUME NEW i \in 1 .. Len(older')
      PROVE  older'[i].added \subseteq older'[i].content /\ older'[i].content \subseteq content'
  BY <1>1, <1>2, <1>3, <1>4 DEF OlderInv
<1>6. ASSUME NEW i \in 1 .. Len(older'), NEW k \in 1 .. Len(older'), i <= k
      PROVE  older'[k].content \subseteq older'[i].content
  <2>1. i + 1 <= k + 1
    BY <1>6
  <2> QED BY <1>2, <1>3, <2>1 DEF OlderInv
<1> QED BY <1>1, <1>5, <1>6 DEF OlderInv, May

LEMMA UseCheck ==
  ASSUME TypeInv, SoundUse(env), UseInv, Check("task")
  PROVE  UseInv'
<1>1. /\ Task.pc = "check" /\ config' = Unset
      /\ UNCHANGED <<env, content, added, label, filter, reader>>
  BY DEF Check, Task, database
<1>2. /\ Task.label = label /\ label # Unset /\ Task.capacity = label
      /\ Loose => Cardinality(Path) < Task.capacity
  BY <1>1 DEF UseInv, TaskInv, RoomInv, Filtering
<1>3. Task \in WriterType
  BY TaskType
<1>4. ReaderInv'
  BY <1>1, ReaderKeeps DEF UseInv
<1>5. CASE Matches(Task) /\ Cardinality(Task.draft) < Task.capacity
  <2>1. Goto("task", "add")
    BY <1>5 DEF Check, Task
  <2>2. Task'.pc = "add" /\ Same(Task', Task) /\ writer'["api"] = writer["api"]
    BY <2>1, TaskGoes DEF Stages, Filtering
  <2>3. Holds(content, Task.capacity)
    BY <1>1, <1>2, <1>5 DEF UseInv, FilterInv, Held, Matches
  <2>4. FilterInv'
    BY <1>1, <2>2, <2>3 DEF FilterInv, Holds, Held, Same, Loose, May
  <2>5. TaskInv'
    BY <1>1, <1>2, <1>5, <2>2 DEF UseInv, TaskInv, Same, Filtering, May
  <2>6. AddedInv' /\ RoomInv' /\ WithdrawnInv'
    BY <1>1, <1>2, <2>2 DEF UseInv, AddedInv, RoomInv, WithdrawnInv, Same, Filtering, Loose, May
  <2> QED BY <1>4, <2>4, <2>5, <2>6 DEF UseInv
<1>6. CASE ~(Matches(Task) /\ Cardinality(Task.draft) < Task.capacity)
  <2> DEFINE j == [Task EXCEPT !.pc = "build", !.capacity = Sized(Task)]
  <2>1. writer' = [writer EXCEPT !["task"] = j]
    BY <1>6 DEF Check, Task
  <2>2. Task' = j /\ writer'["api"] = writer["api"]
    BY <2>1 DEF TypeInv, Task, Writer
  <2>3. /\ Sized(Task) \in Nat /\ Sized(Task) # Unset
        /\ Cardinality(Task.draft) < Sized(Task)
        /\ Cardinality(Task.draft) < Task.capacity => Sized(Task) = Task.capacity
    BY <1>2, <1>3, SizedFits
  <2>4. /\ j.pc = "build" /\ j.capacity = Sized(Task) /\ j.modify = Task.modify
        /\ j.draft = Task.draft /\ j.new = Task.new /\ j.label = Task.label
    BY <1>3, Zenon DEF WriterType
  <2> HIDE DEF j
  <2>5. Loose => Cardinality(Path) < Sized(Task)
    <3>1. Cardinality(Task.draft) <= Cardinality(Path) /\ Cardinality(Task.draft) \in Nat
          /\ Cardinality(Path) \in Nat /\ Task.capacity \in Nat
      BY <1>3, PathSets DEF WriterType
    <3> QED BY <1>2, <2>3, <3>1
  <2>6. TaskInv'
    BY <1>1, <1>2, <2>2, <2>3, <2>4 DEF UseInv, TaskInv, Filtering, May
  <2>7. AddedInv' /\ RoomInv' /\ WithdrawnInv' /\ FilterInv'
    BY <1>1, <2>2, <2>4, <2>5
       DEF UseInv, AddedInv, RoomInv, WithdrawnInv, FilterInv, Filtering, Loose, May
  <2> QED BY <1>4, <2>6, <2>7 DEF UseInv
<1> QED BY <1>5, <1>6

\* The filter in hand has room for what is added: one path more than the content,
\* or, where it holds paths that are gone, all paths there are.
LEMMA UseAdd ==
  ASSUME TypeInv, UseInv, Add("task")
  PROVE  UseInv'
<1>1. /\ Task.pc = "add" /\ Goto("task", "ready")
      /\ IF filter = NoFilter
         THEN filter' = [items |-> Task.new, capacity |-> 100]
         ELSE filter' \in Inserted(filter, Task.new)
      /\ UNCHANGED <<env, content, added, label, config, reader>>
  BY DEF Add, Task, database
<1>2. Task'.pc = "ready" /\ Same(Task', Task) /\ writer'["api"] = writer["api"]
  BY <1>1, TaskGoes DEF Stages, Filtering
<1>3. Task \in WriterType
  BY TaskType
<1>4. Holds(content, Task.capacity) /\ config = Unset
  BY <1>1 DEF UseInv, FilterInv, WithdrawnInv, Held
<1>5. /\ filter \in Filter /\ filter' \in Inserted(filter, Task.new)
      /\ Task.new \in SUBSET Path
  BY <1>1, <1>3, <1>4 DEF Holds, TypeInv, WriterType
<1>6. /\ Task.draft \subseteq content \cup Task.new
      /\ ~Loose => Task.draft = content \cup Task.new
  BY <1>1 DEF UseInv, TaskInv, AddedInv, Loose
<1>7. Cardinality(filter.items \cup Task.new) < Task.capacity
  <2>1. filter.items \cup Task.new \in SUBSET Path /\ Task.capacity \in Nat
    BY <1>3, <1>5 DEF Filter, WriterType
  <2>2. CASE Loose
    <3>1. Cardinality(Path) < Task.capacity
      BY <1>1, <2>2 DEF UseInv, RoomInv, Filtering
    <3>2. /\ Cardinality(filter.items \cup Task.new) \in Nat
          /\ Cardinality(filter.items \cup Task.new) <= Cardinality(Path)
      BY <2>1, PathSets
    <3>3. Cardinality(Path) \in Nat
      BY PathSets
    <3> QED BY <2>1, <3>1, <3>2, <3>3
  <2>3. CASE ~Loose
    <3>1. filter.items \cup Task.new = Task.draft
      BY <1>4, <1>6, <2>3 DEF Holds
    <3> QED BY <1>1, <3>1 DEF UseInv, TaskInv
  <2> QED BY <2>2, <2>3
<1>8. /\ filter' # NoFilter
      /\ filter'.items = filter.items \cup Task.new /\ filter'.capacity = Task.capacity
  <2>1. filter.capacity = Task.capacity
    BY <1>4 DEF Holds
  <2>2. Cardinality(filter.items \cup Task.new) <= filter.capacity
    <3>1. filter.items \cup Task.new \in SUBSET Path /\ Task.capacity \in Nat
      BY <1>3, <1>5 DEF Filter, WriterType
    <3>2. Cardinality(filter.items \cup Task.new) \in Nat
      BY <3>1, PathSets
    <3> QED BY <1>7, <2>1, <3>1, <3>2
  <2>3. filter' \in Filter
    BY <1>5, InsertedGrows
  <2>4. filter'.items = filter.items \cup Task.new /\ filter'.capacity = filter.capacity
    BY <1>5, <2>2, InsertedAll
  <2> QED BY <2>1, <2>3, <2>4, BloomAssumption
<1>9. FilterInv'
  <2>1. /\ Task.draft \subseteq filter'.items
        /\ ~Loose => filter'.items = Task.draft
        /\ Cardinality(filter'.items) < Task.capacity
    BY <1>4, <1>6, <1>7, <1>8 DEF Holds
  <2> QED BY <1>1, <1>2, <1>4, <1>8, <2>1 DEF FilterInv, Holds, Held, Same, Loose, May
<1>10. TaskInv'
  BY <1>1, <1>2 DEF UseInv, TaskInv, Same, Filtering, May
<1>11. AddedInv' /\ RoomInv' /\ WithdrawnInv'
  BY <1>1, <1>2, <1>4
     DEF UseInv, AddedInv, RoomInv, WithdrawnInv, Same, Filtering, Loose, May
<1>12. ReaderInv'
  BY <1>1, <1>8, ReaderKeeps DEF UseInv
<1> QED BY <1>9, <1>10, <1>11, <1>12 DEF UseInv

LEMMA UseBuild ==
  ASSUME TypeInv, UseInv, Build("task")
  PROVE  UseInv'
<1>1. /\ Task.pc = "build" /\ Goto("task", "ready")
      /\ filter' = [items |-> Task.draft, capacity |-> Task.capacity]
      /\ UNCHANGED <<env, content, added, label, config, reader>>
  BY DEF Build, Task, database
<1>2. Task'.pc = "ready" /\ Same(Task', Task) /\ writer'["api"] = writer["api"]
  BY <1>1, TaskGoes DEF Stages, Filtering
<1>3. filter' \in Filter /\ filter'.items = Task.draft /\ filter'.capacity = Task.capacity
  BY <1>1, TaskType DEF Filter, WriterType
<1>4. /\ config = Unset /\ Cardinality(Task.draft) < Task.capacity
      /\ content \subseteq Task.draft \/ May("remove")
  BY <1>1 DEF UseInv, WithdrawnInv, TaskInv
<1>5. filter' # NoFilter
  BY <1>3, BloomAssumption
<1>6. FilterInv'
  BY <1>1, <1>2, <1>3, <1>4, <1>5 DEF FilterInv, Holds, Held, Same
<1>7. TaskInv'
  BY <1>1, <1>2 DEF UseInv, TaskInv, Same, Filtering, May
<1>8. AddedInv' /\ RoomInv' /\ WithdrawnInv'
  BY <1>1, <1>2, <1>4
     DEF UseInv, AddedInv, RoomInv, WithdrawnInv, Same, Filtering, Loose, May
<1>9. ReaderInv'
  BY <1>1, <1>3, <1>4, <1>5, ReaderKeeps DEF UseInv
<1> QED BY <1>6, <1>7, <1>8, <1>9 DEF UseInv

LEMMA UseReady ==
  ASSUME TypeInv, UseInv, Ready("task")
  PROVE  UseInv'
<1>1. /\ Task.pc = "ready" /\ config' = Task.capacity
      /\ Leave("task") \/ Goto("task", "save")
      /\ UNCHANGED <<env, content, added, label, filter, reader>>
  BY DEF Ready, Task, database
<1>2. /\ writer'["api"] = writer["api"]
      /\ \/ Task'.pc = "save" /\ Same(Task', Task)
         \/ Task.modify /\ Task'.pc = "finish" /\ Same(Task', Task)
         \/ ~Task.modify /\ Task'.pc = "stopped"
  BY <1>1, TaskGoes, TaskLeaves DEF Stages, Filtering
<1>3. Holds(Task.draft, Task.capacity) /\ (~Task.modify => Task.draft = content)
  BY <1>1 DEF UseInv, FilterInv, Held, TaskInv
<1>4. label # Unset /\ Task.label = label /\ Task.capacity # Unset
  BY <1>1 DEF UseInv, TaskInv, Filtering
<1>5. FilterInv'
  BY <1>1, <1>2, <1>3 DEF FilterInv, Holds, Held, Same, Loose, May
<1>6. TaskInv'
  BY <1>1, <1>2, <1>4 DEF UseInv, TaskInv, Same, Filtering, May
<1>7. AddedInv' /\ RoomInv' /\ WithdrawnInv'
  BY <1>1, <1>2, <1>4
     DEF UseInv, AddedInv, RoomInv, WithdrawnInv, Same, Filtering, Loose, May
<1>8. ReaderInv'
  BY <1>1, ReaderKeeps DEF UseInv
<1> QED BY <1>5, <1>6, <1>7, <1>8 DEF UseInv

LEMMA UseSaveLabel ==
  ASSUME TypeInv, UseInv, SaveLabel("task")
  PROVE  UseInv'
<1>1. /\ Task.pc = "save" /\ label' = Task.capacity /\ Leave("task")
      /\ UNCHANGED <<env, content, added, filter, config, reader>>
  BY DEF SaveLabel, Task, redis
<1>2. /\ writer'["api"] = writer["api"]
      /\ \/ Task.modify /\ Task'.pc = "finish" /\ Same(Task', Task)
         \/ ~Task.modify /\ Task'.pc = "stopped"
  BY <1>1, TaskLeaves
<1>3. Task.capacity # Unset /\ (~Task.modify => Task.draft = content)
  BY <1>1 DEF UseInv, TaskInv, Filtering
<1>4. FilterInv'
  BY <1>1, <1>2, <1>3 DEF UseInv, FilterInv, Holds, Held, Same, Loose, May
<1>5. TaskInv'
  BY <1>1, <1>2 DEF UseInv, TaskInv, Same, Filtering, May
<1>6. AddedInv' /\ RoomInv' /\ WithdrawnInv'
  BY <1>1, <1>2, <1>3
     DEF UseInv, AddedInv, RoomInv, WithdrawnInv, Same, Filtering, Loose, May
<1>7. ReaderInv'
  BY <1>1, ReaderKeeps DEF UseInv
<1> QED BY <1>4, <1>5, <1>6, <1>7 DEF UseInv

\* A filter step that ends early has withdrawn the filter, or has not begun.
LEMMA UseStops ==
  ASSUME TypeInv, SoundUse(env), UseInv,
         RedisError("task") \/ PartialAdd("task") \/ Crash("task")
  PROVE  UseInv'
<1>1. /\ UNCHANGED <<env, content, added, label, config, reader>>
      /\ \/ Task.pc \in {"add", "build", "ready"} /\ config = Unset
         \/ Task.pc \in {"check", "save"} /\ UNCHANGED filter /\ (Task.pc = "save" => ~Task.modify)
                /\ Crash("task")
  BY DEF UseInv, WithdrawnInv, SoundUse, May, RedisError, PartialAdd, Crash, Task,
         database, redis
<1>2. /\ writer'["api"] = writer["api"]
      /\ \/ Task.modify /\ Task'.pc = "finish" /\ Same(Task', Task) /\ ~Crash("task")
         \/ Task'.pc = "stopped"
  <2>1. CASE Crash("task")
    <3>1. writer' = [writer EXCEPT !["task"] = Stopped]
      BY <2>1 DEF Crash
    <3> QED BY <3>1, StoppedType DEF TypeInv, Task, Writer
  <2>2. CASE ~Crash("task")
    <3>1. Leave("task")
      BY <2>2 DEF RedisError, PartialAdd
    <3> QED BY <2>2, <3>1, TaskLeaves
  <2> QED BY <2>1, <2>2
<1>3. Task.pc = "save" => Task.draft = content
  BY <1>1 DEF UseInv, TaskInv
<1>4. filter # NoFilter => filter' # NoFilter /\ filter.items \subseteq filter'.items
  <2>1. CASE PartialAdd("task")
    <3>1. PICK paths \in SUBSET Task.new : filter' \in Inserted(filter, paths)
      BY <2>1 DEF PartialAdd, Task
    <3>2. filter \in Filter /\ paths \in SUBSET Path
      BY <2>1, TaskType DEF PartialAdd, TypeInv, WriterType
    <3>3. filter' \in Filter /\ filter.items \subseteq filter'.items
      BY <3>1, <3>2, InsertedGrows
    <3> QED BY <3>3, BloomAssumption
  <2>2. CASE ~PartialAdd("task")
    <3>1. UNCHANGED filter
      BY <2>2 DEF RedisError, Crash, redis
    <3> QED BY <3>1
  <2> QED BY <2>1, <2>2
<1>5. TaskInv' /\ AddedInv' /\ RoomInv' /\ WithdrawnInv'
  BY <1>1, <1>2
     DEF UseInv, TaskInv, AddedInv, RoomInv, WithdrawnInv, Same, Filtering, Loose, May
<1>6. FilterInv'
  BY <1>1, <1>2, <1>3 DEF UseInv, FilterInv, Holds, Held, Loose, May
<1>7. ReaderInv'
  BY <1>1, <1>4, ReaderKeeps DEF UseInv
<1> QED BY <1>5, <1>6, <1>7 DEF UseInv

\* A request: what it read is compared with what the filter holds now.
LEMMA UseRequest ==
  ASSUME TypeInv, UseInv,
         (\E p \in Path : Request(p)) \/ ReadConfig \/ ReadFilter \/ EndRequest
  PROVE  UseInv'
<1>1. UNCHANGED <<env, content, added, label, filter, config, writer>>
  BY DEF Request, ReadConfig, ReadFilter, EndRequest, database, redis
<1>2. TaskInv' /\ AddedInv' /\ RoomInv' /\ WithdrawnInv' /\ FilterInv'
  BY <1>1 DEF UseInv, TaskInv, AddedInv, RoomInv, WithdrawnInv, FilterInv, Holds, Held,
              Task, Loose, May
<1>3. NoRequest.pc = "idle"
  BY DEF NoRequest
<1>4. ASSUME NEW p \in Path, Request(p) PROVE ReaderInv'
  <2>1. /\ reader'.pc = "config" /\ reader'.path = {p} /\ reader'.live = content
        /\ reader'.label = label /\ label # Unset
    BY <1>4 DEF Request
  <2> QED BY <1>1, <2>1 DEF ReaderInv
<1>5. ASSUME ReadConfig PROVE ReaderInv'
  <2>1. CASE config = reader.label
    <3>1. /\ reader.pc = "config" /\ reader'.pc = "exists"
          /\ reader'.path = reader.path /\ reader'.live = reader.live
          /\ reader'.label = reader.label
      BY <1>5, <2>1 DEF ReadConfig, TypeInv, ReaderType
    <3>2. config # Unset => filter # NoFilter /\ Held \subseteq filter.items
      BY DEF UseInv, FilterInv, Holds
    <3>3. ~May("remove") => content \subseteq Held
      BY DEF UseInv, TaskInv, Held
    <3> QED BY <1>1, <2>1, <3>1, <3>2, <3>3 DEF UseInv, ReaderInv, May
  <2>2. CASE config # reader.label
    BY <1>3, <1>5, <2>2 DEF ReadConfig, ReaderInv
  <2> QED BY <2>1, <2>2
<1>6. ASSUME ReadFilter PROVE ReaderInv'
  <2>1. CASE filter # NoFilter /\ reader.path \subseteq filter.items
    BY <1>3, <1>6, <2>1 DEF ReadFilter, ReaderInv
  <2>2. CASE ~(filter # NoFilter /\ reader.path \subseteq filter.items)
    <3>1. /\ reader.pc = "exists" /\ reader'.pc = "filtered"
          /\ reader'.path = reader.path /\ reader'.live = reader.live
          /\ reader'.label = reader.label
      BY <1>6, <2>2 DEF ReadFilter, TypeInv, ReaderType
    <3> QED BY <1>1, <2>2, <3>1 DEF UseInv, ReaderInv, May
  <2> QED BY <2>1, <2>2
<1>7. ASSUME EndRequest PROVE ReaderInv'
  BY <1>3, <1>7 DEF EndRequest, ReaderInv
<1> QED BY <1>2, <1>4, <1>5, <1>6, <1>7 DEF UseInv

LEMMA BloomNext == BloomInv /\ [Next]_vars => BloomInv'
<1> SUFFICES ASSUME BloomInv, [Next]_vars PROVE BloomInv'
  OBVIOUS
<1>1. TypeInv /\ SoundUse(env) /\ OlderInv /\ UseInv
  BY DEF BloomInv
<1>2. TypeInv'
  BY <1>1, TypeNext
<1>3. env' = env
  BY DEF Next, StartModify, Complete, AbortModify, DeleteLatest, ChangeLabel, Update, Delete, Check, Add,
         Build, Ready, SaveLabel, RedisError, PartialAdd, Crash, Request, ReadConfig,
         ReadFilter, EndRequest, vars, database
<1>4. UseInv'
  <2>1. ASSUME NEW w \in Writer, Update(w) PROVE UseInv'
    <3>1. w = "task"
      BY <1>1, <2>1, OnlyTask
    <3> QED BY <1>1, <2>1, <3>1, UseDelete, UseCheck, UseAdd, UseBuild, UseReady,
               UseSaveLabel DEF Update
  <2>2. ASSUME NEW w \in Writer, RedisError(w) \/ PartialAdd(w) \/ Crash(w) PROVE UseInv'
    <3>1. w = "task"
      BY <1>1, <2>2, OnlyTask
    <3> QED BY <1>1, <2>2, <3>1, UseStops
  <2>3. ASSUME NEW w \in Writer, NEW new \in env.labels \cup {Unset}, ChangeLabel(w, new)
        PROVE  UseInv'
    <3>1. w = "task"
      BY <1>1, <2>3, OnlyTask
    <3> QED BY <1>1, <2>3, <3>1, UseChangeLabel
  <2>4. CASE UNCHANGED vars
    BY <1>1, <2>4 DEF vars, UseInv, TaskInv, AddedInv, RoomInv, WithdrawnInv, FilterInv,
                      ReaderInv, Holds, Held, Task, Loose, May
  <2> QED BY <1>1, <2>1, <2>2, <2>3, <2>4, UseStartModify, UseComplete, UseAbortModify,
             UseDeleteLatest, UseRequest DEF Next
<1>5. OlderInv'
  <2>1. CASE Complete
    BY <1>1, <2>1, OlderComplete
  <2>2. CASE DeleteLatest
    BY <1>1, <2>2, OlderDeleteLatest
  <2>3. CASE ~Complete /\ ~DeleteLatest
    <3>1. UNCHANGED <<content, older>>
      BY <2>3 DEF Next, StartModify, AbortModify, ChangeLabel, Update, Delete, Check, Add,
           Build, Ready, SaveLabel, RedisError, PartialAdd, Crash, Request, ReadConfig,
           ReadFilter, EndRequest, vars, database
    <3> QED BY <1>1, <1>3, <3>1 DEF OlderInv, May
  <2> QED BY <2>1, <2>2, <2>3
<1> QED BY <1>1, <1>2, <1>3, <1>4, <1>5 DEF BloomInv

\* Under a sound use the filter is withdrawn, or it holds the latest version and has room.
THEOREM BloomInvariant == SoundUse(env) /\ Spec => []BloomInv
<1>1. SoundUse(env) /\ Init => BloomInv
  BY TypeInit, UseInit, OlderInit DEF BloomInv
<1> QED BY <1>1, BloomNext, PTL DEF Spec

-----------------------------------------------------------------------------
(* The properties.                                                          *)

\* No request is answered with a filtered 404 for a path that was in the latest
\* version when it began, although it reads the two keys one after the other.
THEOREM RequestsMissNothing == SoundUse(env) /\ Spec => []NoFalseMiss
<1>1. BloomInv => NoFalseMiss
  BY DEF BloomInv, UseInv, ReaderInv, NoFalseMiss, May
<1> QED BY <1>1, BloomInvariant, PTL

\* What hides no path: a filter in use that holds the content.
Safe == Task.pc \in {"save", "finish"} => content \subseteq Task.draft

ContentFound == \A p \in content : ~Hidden(p)

LEMMA NothingHidden == BloomInv /\ Safe => ContentFound
  BY DEF BloomInv, UseInv, FilterInv, WithdrawnInv, Holds, Held, Hidden, Safe, ContentFound

LEMMA NothingHiddenNext == BloomInv' /\ Safe' => \A p \in content' : ~Hidden(p)'
<1>1. BloomInv' /\ Safe' => ContentFound'
  BY NothingHidden, PTL
<1> QED BY <1>1 DEF ContentFound

\* While nobody works on the repository, a usable filter holds every path.
THEOREM IdleFiltersCoverContent == SoundUse(env) /\ Spec => []FilterCoversContent
<1>1. BloomInv => FilterCoversContent
  BY NothingHidden DEF FilterCoversContent, Task, Writer, Safe, ContentFound
<1> QED BY <1>1, BloomInvariant, PTL

\* A filter in use is never filled up, so BF.MADD has refused nothing.
THEOREM FiltersHaveRoom == SoundUse(env) /\ Spec => []FilterHasRoom
<1>1. BloomInv => FilterHasRoom
  BY DEF BloomInv, UseInv, FilterInv, Holds, FilterHasRoom
<1> QED BY <1>1, BloomInvariant, PTL

\* The task's stage after a step that ends a modify.
LEMMA TaskStops ==
  ASSUME TypeInv, writer' = [writer EXCEPT !["task"] = Stopped]
  PROVE  Task'.pc = "stopped"
  BY StoppedType DEF TypeInv, Task, Writer

\* The step that completes a version leaves none of its paths hidden.
THEOREM CompletedVersionsAreFound == SoundUse(env) /\ Spec => EachVersionAddsItsPaths
<1>1. BloomInv /\ BloomInv' /\ [Next]_vars => [Complete => \A p \in added' : ~Hidden(p)']_vars
  <2> SUFFICES ASSUME BloomInv, BloomInv', Complete PROVE \A p \in added' : ~Hidden(p)'
    OBVIOUS
  <2>1. Task'.pc = "stopped"
    BY TaskStops DEF BloomInv, Complete
  <2>2. \A p \in content' : ~Hidden(p)'
    BY <2>1, NothingHiddenNext DEF Safe
  <2>3. added' \subseteq content'
    BY DEF BloomInv, UseInv, AddedInv
  <2> QED BY <2>2, <2>3
<1> QED BY <1>1, BloomInvariant, PTL DEF Spec, EachVersionAddsItsPaths

=============================================================================
