---------------------------- MODULE VersionedIndex ----------------------------
(***************************************************************************)
(* What the path index promises: each published version has one content,   *)
(* decided by the call that published it and never changed afterwards.     *)
(* Segments, compaction, checkpoints, retries and S3 do not appear here.   *)
(***************************************************************************)
EXTENDS Integers

CONSTANTS
    Key, Entry, NoEntry, Version, NoVersion,
    Writer,       \* processes that call the engine
    Unpublished,  \* the content of a version no manifest names
    NoCall        \* a writer that is not publishing a version

VARIABLES
    content,  \* what a lookup in each version answers
    call      \* the create or update each writer has in progress

vars == <<content, call>>

\* A create has no previous version; an update changes the previous content.
Call == [version  : Version,
         previous : Version \cup {NoVersion},
         entries  : [Key -> Entry \cup {NoEntry}],
         removed  : SUBSET Key]

\* Entries are upserts; they win over removed keys.
Result(c) ==
    [k \in Key |->
        IF c.entries[k] # NoEntry THEN c.entries[k]
        ELSE IF c.previous = NoVersion \/ k \in c.removed THEN NoEntry
        ELSE content[c.previous][k]]

Init ==
    /\ content = [v \in Version |-> Unpublished]
    /\ call = [w \in Writer |-> NoCall]

\* The arguments are read from the next state, so that nothing is enumerated.
Begin(w) ==
    LET c == call'[w]
    IN  /\ call[w] = NoCall
        /\ c \in Call
        /\ c.previous # c.version
        /\ c.previous # NoVersion => content[c.previous] # Unpublished
        /\ call' = [call EXCEPT ![w] = c]
        /\ UNCHANGED content

\* The write becomes visible at one moment, whether or not the caller learns it.
Commit(w) ==
    /\ call[w] # NoCall
    /\ content[call[w].version] = Unpublished
    /\ content' = [content EXCEPT ![call[w].version] = Result(call[w])]
    /\ call' \in {call, [call EXCEPT ![w] = NoCall]}

End(w) ==
    /\ call[w] # NoCall
    /\ call' = [call EXCEPT ![w] = NoCall]
    /\ UNCHANGED content

Next ==
    \E w \in Writer :
        \/ Begin(w)
        \/ Commit(w)
        \/ End(w)

Spec == Init /\ [][Next]_vars

=============================================================================
