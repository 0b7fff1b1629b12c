---------------------------- MODULE PathIndexFormat ----------------------------
(***************************************************************************)
(* The pure part of the path-index engine: immutable segments of           *)
(* operations on path hashes, the references and manifests that name them, *)
(* and what a chain of segments answers to a lookup.                       *)
(*                                                                         *)
(* A segment file is modelled by its operations, one per key.  Sorting,    *)
(* record packing and byte offsets are left out: write_base and            *)
(* write_delta only accept strictly increasing keys, so a segment is a     *)
(* function of the key.  The SHA-256 digest that names a file stands for   *)
(* the file's contents, so two files have one digest exactly when they     *)
(* hold the same operations.                                               *)
(***************************************************************************)
EXTENDS Integers, Sequences

CONSTANTS
    Key,       \* 16-byte path hashes
    Entry,     \* what a lookup serves: artifact digest, size, timestamp
    NoEntry,   \* a lookup miss: Python's None
    Deleted,   \* the operation of an explicit deletion
    Absent,    \* a key the segment says nothing about
    Version,   \* canonical UUIDs of repository versions
    NoVersion  \* a missing parent or start

ASSUME FormatAssumption ==
    /\ NoEntry \notin Entry
    /\ Deleted \notin Entry
    /\ Absent \notin Entry \cup {Deleted}
    /\ NoVersion \notin Version

Operation == Entry \cup {Deleted, Absent}

Operations == [Key -> Operation]

Content == [Key -> Entry \cup {NoEntry}]

\* The payload a digest identifies.
Segment == [kind : {"base", "delta"}, ops : Operations]

Reference == [kind  : {"base", "delta"},
              ops   : Operations,
              start : Version \cup {NoVersion},
              end   : Version,
              level : Nat]

Digest(reference) == [kind |-> reference.kind, ops |-> reference.ops]

Manifest == [version  : Version,
             parent   : Version \cup {NoVersion},
             segments : Seq(Reference)]

-----------------------------------------------------------------------------
(* Manifest.__post_init__: a base, then a contiguous, acyclic chain of      *)
(* deltas that ends at the manifest's own version.                          *)

Contiguous(refs) ==
    \A i \in 2 .. Len(refs) :
        /\ refs[i].kind = "delta"
        /\ refs[i].start = refs[i - 1].end
        /\ \A j \in 1 .. i - 1 : refs[j].end # refs[i].end

ManifestValid(m) ==
    LET refs == m.segments
        last == refs[Len(refs)]
    IN  /\ m.parent # m.version
        /\ Len(refs) >= 1
        /\ refs[1].kind = "base"
        /\ Contiguous(refs)
        /\ last.end = m.version
        /\ Len(refs) > 1 =>
               /\ m.parent # NoVersion
               /\ last.level = 0 => last.start = m.parent

-----------------------------------------------------------------------------
(* The newest segment that mentions a key decides, a deletion included.     *)

Mentions(refs, k) == {i \in 1 .. Len(refs) : refs[i].ops[k] # Absent}

NewestOperation(refs, k) ==
    IF Mentions(refs, k) = {}
    THEN Absent
    ELSE LET newest == CHOOSE i \in Mentions(refs, k) :
                           \A j \in Mentions(refs, k) : j <= i
         IN  refs[newest].ops[k]

\* merge_operations: one stream of operations from several segments.
MergedOperations(refs) == [k \in Key |-> NewestOperation(refs, k)]

Served(op) == IF op \in {Deleted, Absent} THEN NoEntry ELSE op

\* IndexView.lookup for every key.
View(refs) == [k \in Key |-> Served(NewestOperation(refs, k))]

-----------------------------------------------------------------------------
(* The three ways a segment is written.                                     *)

BaseReference(version, content) ==
    [kind  |-> "base",
     ops   |-> [k \in Key |-> IF content[k] = NoEntry THEN Absent ELSE content[k]],
     start |-> NoVersion,
     end   |-> version,
     level |-> 0]

\* Mutant: the last of the grouped operations wins, a deletion over its upsert.
DeltaReference_DeletionWins(version, previous, entries, removed) ==
    [kind  |-> "delta",
     ops   |-> [k \in Key |-> IF k \in removed THEN Deleted
                              ELSE IF entries[k] # NoEntry THEN entries[k] ELSE Absent],
     start |-> previous,
     end   |-> version,
     level |-> 0]

\* changed_operations: an upsert wins over a deletion of the same key.
DeltaReference(version, previous, entries, removed) ==
    [kind  |-> "delta",
     ops   |-> [k \in Key |-> IF entries[k] # NoEntry THEN entries[k]
                              ELSE IF k \in removed THEN Deleted ELSE Absent],
     start |-> previous,
     end   |-> version,
     level |-> 0]

\* Mutant: deletions are dropped while runs are merged, as in a full rewrite.
MergedReference_DropsDeletions(older, newer) ==
    [kind  |-> "delta",
     ops   |-> [k \in Key |->
                  LET op == MergedOperations(<<older, newer>>)[k]
                  IN  IF op = Deleted THEN Absent ELSE op],
     start |-> older.start,
     end   |-> newer.end,
     level |-> newer.level + 1]

\* A compacted run keeps its deletions: older segments still lie below it.
MergedReference(older, newer) ==
    [kind  |-> "delta",
     ops   |-> MergedOperations(<<older, newer>>),
     start |-> older.start,
     end   |-> newer.end,
     level |-> newer.level + 1]

-----------------------------------------------------------------------------
(* compact(): the references placed so far are a stack; its two newest runs *)
(* merge while their levels are equal.  The base never takes part.          *)

EqualLevels(stack) ==
    /\ Len(stack) >= 3
    /\ stack[Len(stack)].level = stack[Len(stack) - 1].level

TopMerged(stack) == MergedReference(stack[Len(stack) - 1], stack[Len(stack)])

MergeTop(stack) == Append(SubSeq(stack, 1, Len(stack) - 2), TopMerged(stack))

\* One step of the two loops: merge the two newest runs, or place the next one.
PlaceNext(c) ==
    IF EqualLevels(c.placed)
    THEN [placed |-> MergeTop(c.placed), rest |-> c.rest]
    ELSE IF c.rest # <<>>
    THEN [placed |-> Append(c.placed, Head(c.rest)), rest |-> Tail(c.rest)]
    ELSE c

Placing(refs) ==
    LET run[n \in Nat] ==
            IF n = 0 THEN [placed |-> <<Head(refs)>>, rest |-> Tail(refs)]
            ELSE PlaceNext(run[n - 1])
    IN  run

\* Each step places one run or makes one of two: there are fewer than 2 * Len(refs).
Compacted(m) ==
    [m EXCEPT !.segments = Placing(m.segments)[2 * Len(m.segments)].placed]

=============================================================================
