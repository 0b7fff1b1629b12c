------------------------------ MODULE BloomFilter ------------------------------
(***************************************************************************)
(* The Bloom filter of one repository: Redis holds the filter and, under a *)
(* second key, the configuration it was built with.  The filter step of a  *)
(* modify task updates it before the new version is complete, a change of  *)
(* the label rebuilds it from the latest version, and a content request    *)
(* trusts it whenever the stored configuration equals the repository's     *)
(* label.  False positives are harmless and left out: a filter is the set  *)
(* of paths it holds.                                                      *)
(*                                                                         *)
(* An environment says how a repository is used: the capacities written    *)
(* into its label, and the events that happen besides ordinary modifies    *)
(* that only add content:                                                  *)
(*   "remove"   a new version removes paths                                *)
(*   "abort"    a modify fails after its filter step                       *)
(*   "skip"     a repair or pull-through task, which has no filter step    *)
(*   "fault"    Redis refuses a command before the filter is withdrawn, or *)
(*              the process dies before a removed label's keys are deleted *)
(*   "race"     a label is set outside the repository's reservation        *)
(*   "unlabel"  the label is removed                                       *)
(*   "delete"   the latest version is deleted, which no hook tells the     *)
(*              filter                                                     *)
(***************************************************************************)
EXTENDS Integers, FiniteSets, Sequences

CONSTANTS
    Path,          \* artifact paths
    Environments,  \* the ways of use to check, see above
    NoFilter,      \* Redis has no filter key
    MaxSteps       \* bound of the model: tasks and label changes

Filter == [items : SUBSET Path, capacity : Nat]

ASSUME BloomAssumption ==
    /\ IsFiniteSet(Path)
    /\ Environments \subseteq
          [labels : SUBSET (Nat \ {0}),
           events : SUBSET {"remove", "abort", "skip", "fault", "race", "unlabel", "delete"}]
    /\ NoFilter \notin Filter
    /\ MaxSteps \in Nat

Unset == 0  \* no label, or no configuration key

Writer == {"task", "api"}

VARIABLES
    env,      \* the environment of this behaviour
    content,  \* paths of the latest complete version
    added,    \* paths that version added
    older,    \* both of the versions before, the latest first, while one may be deleted
    label,    \* the label's capacity in the database
    filter,   \* the filter key in Redis
    config,   \* the configuration key in Redis
    writer,   \* processes that update the filter
    reader,   \* one content request
    steps     \* writers started so far

database == <<env, content, added, older, label>>
redis == <<filter, config>>
vars == <<env, content, added, older, label, filter, config, writer, reader, steps>>

May(event) == event \in env.events

\* The ways of use the filter is made for: every task runs its filter step under
\* the reservation and Redis accepts a withdrawal.  Paths that a removal, an aborted
\* modify or a deleted version leaves in the filter need a capacity beyond all paths.
\* Removals do not meet the other two: a filter rebuilt without the removed paths
\* stays when the modify fails, or when the version before is the latest one again.
SoundUse(use) ==
    /\ use.events \cap {"skip", "fault", "race"} = {}
    /\ "remove" \in use.events => use.events \cap {"abort", "delete"} = {}
    /\ use.events \cap {"remove", "abort", "delete"} # {} =>
          \A capacity \in use.labels : Cardinality(Path) < capacity

\* A writer that has loaded a repository with this label.
Loaded(pc, modify, draft, new, capacity) ==
    [pc       |-> pc,
     modify   |-> modify,     \* finishes a version, or only a label change
     draft    |-> draft,      \* the version's content
     new      |-> new,        \* what it added
     label    |-> capacity,   \* the label as this process loaded it
     capacity |-> capacity]   \* est_num_items

Stopped == Loaded("stopped", FALSE, {}, {}, Unset)

\* grown_bloom_filter_capacity: half as much again, rounded up.
Grown(count) == (count * 3 + 1) \div 2

Start(w, state) ==
    /\ writer[w].pc = "stopped"
    /\ steps < MaxSteps
    /\ steps' = steps + 1
    /\ writer' = [writer EXCEPT ![w] = state]

Goto(w, pc) == writer' = [writer EXCEPT ![w].pc = pc]

\* The filter step is over; only a modify has more to do.
Leave(w) ==
    IF writer[w].modify THEN Goto(w, "finish") ELSE writer' = [writer EXCEPT ![w] = Stopped]

-----------------------------------------------------------------------------
(* Tasks and label changes.                                                 *)

\* Mutant: the filter step does not return early without a label.
StartModify_Unlabelled(draft, skip) ==
    /\ skip => May("skip")
    /\ content \subseteq draft \/ May("remove")
    /\ Start("task", Loaded(IF skip THEN "finish" ELSE "check",
                            TRUE, draft, draft \ content, label))
    /\ UNCHANGED <<reader>> /\ UNCHANGED database /\ UNCHANGED redis

\* A new version: finalize_new_version reaches its filter step, or skips it.
StartModify(draft, skip) ==
    /\ skip => May("skip")
    /\ content \subseteq draft \/ May("remove")
    /\ Start("task", Loaded(IF skip \/ label = Unset THEN "finish" ELSE "check",
                            TRUE, draft, draft \ content, label))
    /\ UNCHANGED <<reader>> /\ UNCHANGED database /\ UNCHANGED redis

\* update_bloom_filter: the hook on a changed label.  The update endpoint runs it
\* in a task under the reservation, set_label in the API process.
ChangeLabel(w, new) ==
    /\ w = "task" \/ May("race")
    /\ new # label
    /\ new = Unset => May("unlabel")
    /\ label' = new
    /\ Start(w, Loaded(IF new = Unset THEN "delete" ELSE "check",
                       FALSE, content, added, new))
    /\ UNCHANGED <<env, content, added, older, reader>> /\ UNCHANGED redis

\* Mutant: the keys of a removed label stay.
Delete_Keeps(w) ==
    /\ writer[w].pc = "delete"
    /\ Leave(w)
    /\ UNCHANGED <<reader, steps>> /\ UNCHANGED database /\ UNCHANGED redis

\* delete_bloom_filter, one DEL of both keys.
Delete(w) ==
    /\ writer[w].pc = "delete"
    /\ filter' = NoFilter
    /\ config' = Unset
    /\ Leave(w)
    /\ UNCHANGED <<reader, steps>> /\ UNCHANGED database

\* The version becomes the latest complete one; core deletes one without changes.
Complete ==
    LET j == writer["task"]
    IN  /\ j.pc = "finish"
        /\ content' = j.draft
        /\ added' = IF j.draft = content THEN added ELSE j.new
        /\ older' = IF j.draft = content \/ ~May("delete") THEN older
                    ELSE <<[content |-> content, added |-> added]>> \o older
        /\ writer' = [writer EXCEPT !["task"] = Stopped]
        /\ UNCHANGED <<env, label, reader, steps>> /\ UNCHANGED redis

\* The path index cannot be published, or the database refuses the save.
AbortModify ==
    /\ May("abort")
    /\ writer["task"].pc = "finish"
    /\ writer' = [writer EXCEPT !["task"] = Stopped]
    /\ UNCHANGED <<reader, steps>> /\ UNCHANGED database /\ UNCHANGED redis

\* A task deletes the latest version; the one before is the latest again.
DeleteLatest ==
    /\ May("delete") /\ older # <<>>
    /\ writer["task"].pc = "stopped"
    /\ steps < MaxSteps
    /\ steps' = steps + 1
    /\ content' = Head(older).content
    /\ added' = Head(older).added
    /\ older' = Tail(older)
    /\ UNCHANGED <<env, label, writer, reader>> /\ UNCHANGED redis

-----------------------------------------------------------------------------
(* _generate_bloom_filter.                                                  *)

\* redis_bloom_filter_matches_config, its two reads taken together.
Matches(j) == config = j.capacity /\ filter # NoFilter

\* Mutant: a full filter is grown only beyond its capacity.
Sized_OffByOne(j) ==
    IF Cardinality(j.draft) > j.capacity THEN Grown(Cardinality(j.draft)) ELSE j.capacity

\* The capacity to build with: the configured one unless the content fills it.
Sized(j) ==
    IF Cardinality(j.draft) >= j.capacity THEN Grown(Cardinality(j.draft)) ELSE j.capacity

\* Mutant: an existing filter is extended without being withdrawn first.
Check_KeepsReady(w) ==
    LET j == writer[w]
    IN  /\ j.pc = "check"
        /\ IF Matches(j) /\ Cardinality(j.draft) < j.capacity
           THEN Goto(w, "add")
           ELSE writer' = [writer EXCEPT ![w].pc = "build", ![w].capacity = Sized(j)]
        /\ UNCHANGED <<reader, steps>> /\ UNCHANGED database /\ UNCHANGED redis

\* Look at Redis, withdraw the filter, and choose between adding and building.
Check(w) ==
    LET j == writer[w]
    IN  /\ j.pc = "check"
        /\ config' = Unset
        /\ IF Matches(j) /\ Cardinality(j.draft) < j.capacity
           THEN Goto(w, "add")
           ELSE writer' = [writer EXCEPT ![w].pc = "build", ![w].capacity = Sized(j)]
        /\ UNCHANGED <<filter, reader, steps>> /\ UNCHANGED database

\* BF.MADD into a non-scaling filter: a full one refuses items without an error
\* that the caller would see.
Inserted(f, paths) ==
    LET fresh == paths \ f.items
        room == IF f.capacity > Cardinality(f.items)
                THEN f.capacity - Cardinality(f.items) ELSE 0
    IN  {[f EXCEPT !.items = @ \cup s] :
            s \in {t \in SUBSET fresh :
                      Cardinality(t) = IF Cardinality(fresh) <= room
                                       THEN Cardinality(fresh) ELSE room}}

\* add_paths_to_bloom_filter with the paths this version added.
Add(w) ==
    /\ writer[w].pc = "add"
    /\ IF filter = NoFilter
       THEN filter' = [items |-> writer[w].new, capacity |-> 100]  \* BF.MADD creates one
       ELSE filter' \in Inserted(filter, writer[w].new)
    /\ Goto(w, "ready")
    /\ UNCHANGED <<config, reader, steps>> /\ UNCHANGED database

\* Mutant: a rebuild inserts the added paths only.
Build_AddedOnly(w) ==
    /\ writer[w].pc = "build"
    /\ filter' = [items |-> writer[w].new, capacity |-> writer[w].capacity]
    /\ Goto(w, "ready")
    /\ UNCHANGED <<config, reader, steps>> /\ UNCHANGED database

\* replace_bloom_filter up to RENAME and PERSIST: the temporary key is private.
Build(w) ==
    /\ writer[w].pc = "build"
    /\ filter' = [items |-> writer[w].draft, capacity |-> writer[w].capacity]
    /\ Goto(w, "ready")
    /\ UNCHANGED <<config, reader, steps>> /\ UNCHANGED database

\* SET of the configuration key; lookups may use the filter again.
Ready(w) ==
    /\ writer[w].pc = "ready"
    /\ config' = writer[w].capacity
    /\ IF writer[w].capacity = writer[w].label THEN Leave(w) ELSE Goto(w, "save")
    /\ UNCHANGED <<filter, reader, steps>> /\ UNCHANGED database

\* A grown capacity is written back into the label.
SaveLabel(w) ==
    /\ writer[w].pc = "save"
    /\ label' = writer[w].capacity
    /\ Leave(w)
    /\ UNCHANGED <<env, content, added, older, reader, steps>> /\ UNCHANGED redis

\* A RedisError is logged, and the task goes on without its filter step.
RedisError(w) ==
    /\ \/ writer[w].pc \in {"add", "build", "ready"}
       \/ writer[w].pc \in {"check", "delete"} /\ May("fault")
    /\ Leave(w)
    /\ UNCHANGED <<reader, steps>> /\ UNCHANGED database /\ UNCHANGED redis

\* Only some of the batches were added before Redis failed.
PartialAdd(w) ==
    /\ writer[w].pc = "add"
    /\ filter # NoFilter
    /\ \E paths \in SUBSET writer[w].new : filter' \in Inserted(filter, paths)
    /\ Leave(w)
    /\ UNCHANGED <<config, reader, steps>> /\ UNCHANGED database

\* The process is killed in its filter step; core drops the draft of a task.
Crash(w) ==
    /\ \/ writer[w].pc \in {"check", "add", "build", "ready"}
       \/ writer[w].pc = "save" /\ ~writer[w].modify
       \/ writer[w].pc = "delete" /\ May("fault")
    /\ writer' = [writer EXCEPT ![w] = Stopped]
    /\ UNCHANGED <<reader, steps>> /\ UNCHANGED database /\ UNCHANGED redis

-----------------------------------------------------------------------------
(* content_handler: a request to a distribution of the latest version.      *)

NoRequest == [pc |-> "idle", path |-> {}, live |-> {}, label |-> Unset]

\* The distribution, its repository and the latest version are loaded.
Request(p) ==
    /\ reader.pc = "idle"
    /\ label # Unset
    /\ reader' = [pc |-> "config", path |-> {p}, live |-> content, label |-> label]
    /\ UNCHANGED <<writer, steps>> /\ UNCHANGED database /\ UNCHANGED redis

\* GET of the configuration: another one, or an error, ends the check.
ReadConfig ==
    /\ reader.pc = "config"
    /\ reader' = IF config = reader.label
                 THEN [reader EXCEPT !.pc = "exists"] ELSE NoRequest
    /\ UNCHANGED <<writer, steps>> /\ UNCHANGED database /\ UNCHANGED redis

\* BF.MEXISTS answers no for every path of a missing key.
ReadFilter ==
    /\ reader.pc = "exists"
    /\ reader' = IF filter # NoFilter /\ reader.path \subseteq filter.items
                 THEN NoRequest ELSE [reader EXCEPT !.pc = "filtered"]
    /\ UNCHANGED <<writer, steps>> /\ UNCHANGED database /\ UNCHANGED redis

\* The 404 is sent, or the request falls back to the database after an error.
EndRequest ==
    /\ reader.pc # "idle"
    /\ reader' = NoRequest
    /\ UNCHANGED <<writer, steps>> /\ UNCHANGED database /\ UNCHANGED redis

Init ==
    /\ env \in Environments
    /\ content = {} /\ added = {} /\ older = <<>>
    /\ label = Unset
    /\ filter = NoFilter /\ config = Unset
    /\ writer = [w \in Writer |-> Stopped]
    /\ reader = NoRequest
    /\ steps = 0

Update(w) ==
    Delete(w) \/ Check(w) \/ Add(w) \/ Build(w) \/ Ready(w) \/ SaveLabel(w)

Next ==
    \/ \E draft \in SUBSET Path, skip \in BOOLEAN : StartModify(draft, skip)
    \/ Complete \/ AbortModify \/ DeleteLatest
    \/ \E w \in Writer :
          \/ \E new \in env.labels \cup {Unset} : ChangeLabel(w, new)
          \/ Update(w) \/ RedisError(w) \/ PartialAdd(w) \/ Crash(w)
    \/ \E p \in Path : Request(p)
    \/ ReadConfig \/ ReadFilter \/ EndRequest

Spec == Init /\ [][Next]_vars

-----------------------------------------------------------------------------
(* Properties.                                                              *)

TypeOK ==
    /\ env \in Environments
    /\ content \subseteq Path /\ added \subseteq Path
    /\ label \in Nat /\ config \in Nat
    /\ filter \in Filter \cup {NoFilter}
    /\ steps \in 0 .. MaxSteps
    /\ \A w \in Writer :
          /\ writer[w].pc \in {"stopped", "check", "delete", "add", "build",
                               "ready", "save", "finish"}
          /\ writer[w].draft \subseteq Path
          /\ writer[w].label \in Nat /\ writer[w].capacity \in Nat
          /\ writer[w].pc \in {"check", "add", "build", "ready", "save"} =>
                 writer[w].label # Unset
    /\ reader.pc \in {"idle", "config", "exists", "filtered"}

\* A request that reads Redis now is told that the path is missing.
Hidden(p) ==
    /\ label # Unset
    /\ config = label
    /\ filter = NoFilter \/ p \notin filter.items

\* No request is answered with a filtered 404 for a path that was in the latest
\* version when the request began, whatever the two keys went through while the
\* request read one after the other.  It takes a repository that keeps its label
\* and its content: a path that is gone is missed as soon as the filter is rebuilt,
\* and the deletion of both keys between the two reads looks like an empty filter.
NoFalseMiss ==
    reader.pc = "filtered" /\ env.events \cap {"remove", "delete", "unlabel"} = {} =>
        reader.path \cap reader.live = {}

\* While nobody works on the repository, a usable filter holds every path of the
\* latest version: an update that stopped half-way has withdrawn the filter, and
\* where nothing was removed it also holds what an earlier version had.
FilterCoversContent ==
    (\A w \in Writer : writer[w].pc = "stopped") => \A p \in content : ~Hidden(p)

\* A filter in use is never beyond its size: growth comes before the last place
\* is taken, so BF.MADD has never silently refused a path.
FilterHasRoom ==
    config # Unset /\ filter # NoFilter => Cardinality(filter.items) < filter.capacity

\* test_bloom_filter.py: each repository version adds its new paths to the
\* existing filter.
EachVersionAddsItsPaths ==
    [][ Complete => \A p \in added' : ~Hidden(p)' ]_vars

=============================================================================
