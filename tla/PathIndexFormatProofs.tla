------------------------- MODULE PathIndexFormatProofs -------------------------
(***************************************************************************)
(* Facts about the pure part of the path-index engine, for every set of    *)
(* keys, entries and versions: the types of what is written, what a chain  *)
(* answers when it is extended, and that merging and rebasing a chain      *)
(* leave its answers alone.                                                *)
(***************************************************************************)
EXTENDS PathIndexFormat, WellFoundedInduction, TLAPS

-----------------------------------------------------------------------------
(* The newest segment that mentions a key exists.                           *)

Below == {p \in Nat \X Nat : p[1] < p[2]}

\* The order of the natural numbers is well founded, written as a set of pairs.
LEMMA BelowWellFounded == IsWellFoundedOn(Below, Nat)
  BY NatLessThanWellFounded, Zenon DEF OpToRel, Below

\* A non-empty set of positions has a last one: what merge_operations and
\* lookup rely on when they take the newest operation.
LEMMA LastExists ==
  ASSUME NEW n \in Nat, NEW S \in SUBSET (1 .. n), S # {}
  PROVE  \E i \in S : \A j \in S : j <= i
<1> DEFINE T == {n - i : i \in S}
<1>1. \A i \in S : i \in 1 .. n /\ n - i \in Nat
  OBVIOUS
<1>2. T \subseteq Nat /\ T # {}
  BY <1>1
<1>3. PICK x \in T : \A y \in T : ~(<<y, x>> \in Below)
  <2> HIDE DEF T
  <2> QED BY <1>2, BelowWellFounded, WFMin, Zenon
<1>4. PICK i \in S : x = n - i
  OBVIOUS
<1>5. ASSUME NEW j \in S PROVE j <= i
  <2>1. n - j \in T /\ n - j \in Nat /\ x \in Nat
    BY <1>1, <1>4
  <2>2. ~(n - j < x)
    BY <1>3, <2>1 DEF Below
  <2> QED BY <2>2, <1>4, <1>1
<1> QED BY <1>5

\* The operation a chain decides for a key: the last mention, if there is one.
LEMMA NewestMention ==
  ASSUME NEW refs \in Seq(Reference), NEW k \in Key, Mentions(refs, k) # {}
  PROVE  \E i \in Mentions(refs, k) :
            /\ \A j \in Mentions(refs, k) : j <= i
            /\ NewestOperation(refs, k) = refs[i].ops[k]
<1>1. Len(refs) \in Nat
  OBVIOUS
<1>2. Mentions(refs, k) \in SUBSET (1 .. Len(refs))
  BY DEF Mentions
<1>3. \E i \in Mentions(refs, k) : \A j \in Mentions(refs, k) : j <= i
  BY <1>1, <1>2, LastExists, Zenon
<1> QED BY <1>3 DEF NewestOperation

\* A chain's last mention determines its answer.
LEMMA NewestIs ==
  ASSUME NEW refs \in Seq(Reference), NEW k \in Key,
         NEW i \in Mentions(refs, k), \A j \in Mentions(refs, k) : j <= i
  PROVE  NewestOperation(refs, k) = refs[i].ops[k]
<1>1. PICK n \in Mentions(refs, k) :
         /\ \A j \in Mentions(refs, k) : j <= n
         /\ NewestOperation(refs, k) = refs[n].ops[k]
  BY NewestMention
<1>2. i \in Nat /\ n \in Nat /\ i <= n /\ n <= i
  BY <1>1 DEF Mentions
<1> QED BY <1>1, <1>2

-----------------------------------------------------------------------------
(* Types.                                                                   *)

\* A file's digest and a reference's operations have the modelled types.
LEMMA DigestType ==
  ASSUME NEW r \in Reference
  PROVE  /\ Digest(r) \in Segment
         /\ r.ops \in Operations
  BY DEF Digest, Segment, Reference

\* Every operation a chain decides is an operation.
LEMMA NewestType ==
  ASSUME NEW refs \in Seq(Reference), NEW k \in Key
  PROVE  NewestOperation(refs, k) \in Operation
<1>1. CASE Mentions(refs, k) = {}
  BY <1>1 DEF NewestOperation, Operation
<1>2. CASE Mentions(refs, k) # {}
  <2>1. PICK i \in Mentions(refs, k) : NewestOperation(refs, k) = refs[i].ops[k]
    BY <1>2, NewestMention
  <2>2. refs[i] \in Reference
    BY DEF Mentions
  <2> QED BY <2>1, <2>2, DigestType DEF Operations
<1> QED BY <1>1, <1>2

\* A view maps every key to an entry or a miss.
LEMMA ViewType ==
  ASSUME NEW refs \in Seq(Reference)
  PROVE  View(refs) \in Content
<1>1. ASSUME NEW k \in Key
      PROVE  Served(NewestOperation(refs, k)) \in Entry \cup {NoEntry}
  BY NewestType DEF Served, Operation
<1> QED BY <1>1 DEF View, Content

\* write_base produces a base reference.
LEMMA BaseReferenceType ==
  ASSUME NEW v \in Version, NEW content \in Content
  PROVE  BaseReference(v, content) \in Reference
<1>1. [k \in Key |-> IF content[k] = NoEntry THEN Absent ELSE content[k]] \in Operations
  BY DEF Content, Operations, Operation
<1> QED BY <1>1 DEF BaseReference, Reference

\* write_delta produces a delta reference.
LEMMA DeltaReferenceType ==
  ASSUME NEW v \in Version, NEW p \in Version \cup {NoVersion},
         NEW entries \in Content, NEW removed \in SUBSET Key
  PROVE  DeltaReference(v, p, entries, removed) \in Reference
<1>1. [k \in Key |-> IF entries[k] # NoEntry THEN entries[k]
                     ELSE IF k \in removed THEN Deleted ELSE Absent] \in Operations
  BY DEF Content, Operations, Operation
<1> QED BY <1>1 DEF DeltaReference, Reference

\* Two merged runs are a run again.
LEMMA MergedReferenceType ==
  ASSUME NEW a \in Reference, NEW b \in Reference
  PROVE  MergedReference(a, b) \in Reference
<1>1. <<a, b>> \in Seq(Reference)
  OBVIOUS
<1>2. MergedOperations(<<a, b>>) \in Operations
  BY <1>1, NewestType DEF MergedOperations, Operations
<1>3. /\ a.start \in Version \cup {NoVersion}
      /\ b.end \in Version
      /\ b.level + 1 \in Nat
  BY DEF Reference
<1> QED BY <1>2, <1>3 DEF MergedReference, Reference

-----------------------------------------------------------------------------
(* What a chain answers.                                                    *)

\* A chain without a mention of a key says nothing, any other says something.
LEMMA NewestAbsent ==
  ASSUME NEW refs \in Seq(Reference), NEW k \in Key
  PROVE  NewestOperation(refs, k) = Absent <=> Mentions(refs, k) = {}
<1>1. ASSUME Mentions(refs, k) # {} PROVE NewestOperation(refs, k) # Absent
  BY <1>1, NewestMention DEF Mentions
<1> QED BY <1>1 DEF NewestOperation

\* Segments put on top of a chain decide the keys they mention and no others.
LEMMA NewestConcat ==
  ASSUME NEW lower \in Seq(Reference), NEW upper \in Seq(Reference), NEW k \in Key
  PROVE  NewestOperation(lower \o upper, k) =
            IF NewestOperation(upper, k) = Absent
            THEN NewestOperation(lower, k) ELSE NewestOperation(upper, k)
<1> DEFINE both == lower \o upper
           n == Len(lower)
<1>1. /\ both \in Seq(Reference)
      /\ n \in Nat /\ Len(upper) \in Nat /\ Len(both) = n + Len(upper)
      /\ \A i \in 1 .. n : both[i] = lower[i]
      /\ \A i \in 1 .. Len(upper) : both[n + i] = upper[i]
  OBVIOUS
<1> HIDE DEF both, n
<1>2. /\ \A i \in Mentions(lower, k) : i \in Mentions(both, k) /\ i <= n
      /\ \A i \in Mentions(both, k) : i <= n => i \in Mentions(lower, k)
  BY <1>1 DEF Mentions, n
<1>3. /\ \A i \in Mentions(upper, k) : n + i \in Mentions(both, k)
      /\ \A i \in Mentions(both, k) : i > n => i - n \in Mentions(upper, k)
  <2>1. ASSUME NEW i \in Mentions(upper, k) PROVE n + i \in Mentions(both, k)
    BY <1>1 DEF Mentions
  <2>2. ASSUME NEW i \in Mentions(both, k), i > n PROVE i - n \in Mentions(upper, k)
    <3>1. i - n \in 1 .. Len(upper) /\ n + (i - n) = i
      BY <1>1, <2>2 DEF Mentions
    <3> QED BY <1>1, <3>1 DEF Mentions
  <2> QED BY <2>1, <2>2
<1>4. CASE Mentions(upper, k) = {}
  <2>1. Mentions(both, k) = Mentions(lower, k)
    <3>1. ASSUME NEW i \in Mentions(both, k) PROVE i <= n
      <4>1. ~(i > n)
        BY <1>3, <1>4
      <4>2. i \in Int
        BY DEF Mentions
      <4> QED BY <1>1, <4>1, <4>2
    <3> QED BY <1>2, <3>1
  <2>2. NewestOperation(both, k) = NewestOperation(lower, k)
    <3>1. CASE Mentions(lower, k) = {}
      BY <2>1, <3>1 DEF NewestOperation
    <3>2. CASE Mentions(lower, k) # {}
      <4>1. PICK i \in Mentions(lower, k) :
               /\ \A j \in Mentions(lower, k) : j <= i
               /\ NewestOperation(lower, k) = lower[i].ops[k]
        BY <3>2, NewestMention
      <4>2. NewestOperation(both, k) = both[i].ops[k]
        BY <1>1, <2>1, <4>1, NewestIs
      <4> QED BY <1>1, <4>1, <4>2 DEF Mentions, n
    <3> QED BY <3>1, <3>2
  <2> QED BY <1>4, <2>2, NewestAbsent DEF both
<1>5. CASE Mentions(upper, k) # {}
  <2>1. PICK i \in Mentions(upper, k) :
           /\ \A j \in Mentions(upper, k) : j <= i
           /\ NewestOperation(upper, k) = upper[i].ops[k]
    BY <1>5, NewestMention
  <2>2. n + i \in Mentions(both, k) /\ \A j \in Mentions(both, k) : j <= n + i
    <3>1. i \in Nat /\ i >= 1
      BY DEF Mentions
    <3>2. ASSUME NEW j \in Mentions(both, k) PROVE j <= n + i
      <4>1. j \in Nat
        BY DEF Mentions
      <4>2. CASE j > n
        <5>1. j - n <= i
          BY <1>3, <2>1, <4>2
        <5> QED BY <1>1, <3>1, <4>1, <5>1
      <4> QED BY <1>1, <3>1, <4>1, <4>2
    <3> QED BY <1>3, <3>2
  <2>3. NewestOperation(both, k) = both[n + i].ops[k]
    BY <1>1, <2>2, NewestIs
  <2>4. both[n + i] = upper[i]
    BY <1>1 DEF Mentions
  <2> QED BY <1>5, <2>1, <2>3, <2>4, NewestAbsent DEF both
<1> QED BY <1>4, <1>5

\* A chain of one segment answers with that segment's operations.
LEMMA NewestSingle ==
  ASSUME NEW r \in Reference, NEW k \in Key
  PROVE  NewestOperation(<<r>>, k) = r.ops[k]
<1>1. <<r>> \in Seq(Reference) /\ Len(<<r>>) = 1 /\ <<r>>[1] = r
  OBVIOUS
<1>2. CASE r.ops[k] = Absent
  <2>1. Mentions(<<r>>, k) = {}
    BY <1>1, <1>2 DEF Mentions
  <2> QED BY <1>2, <2>1 DEF NewestOperation
<1>3. CASE r.ops[k] # Absent
  <2>1. Mentions(<<r>>, k) = {1}
    BY <1>1, <1>3 DEF Mentions
  <2>2. 1 \in Mentions(<<r>>, k) /\ \A j \in Mentions(<<r>>, k) : j <= 1
    BY <2>1
  <2> QED BY <1>1, <2>2, NewestIs
<1> QED BY <1>2, <1>3

-----------------------------------------------------------------------------
(* What the three kinds of segments do to a chain's answers.                *)

\* A base answers with the entries it was written from.
THEOREM BaseView ==
  ASSUME NEW v \in Version, NEW content \in Content
  PROVE  View(<<BaseReference(v, content)>>) = content
<1> DEFINE r == BaseReference(v, content)
<1>1. r \in Reference
  BY BaseReferenceType
<1>2. ASSUME NEW k \in Key PROVE Served(NewestOperation(<<r>>, k)) = content[k]
  <2>1. NewestOperation(<<r>>, k) = r.ops[k]
    BY <1>1, NewestSingle
  <2>2. r.ops[k] = IF content[k] = NoEntry THEN Absent ELSE content[k]
    BY DEF BaseReference
  <2>3. content[k] \in Entry \cup {NoEntry}
    BY DEF Content
  <2> QED BY <2>1, <2>2, <2>3, FormatAssumption DEF Served
<1>3. content = [k \in Key |-> content[k]]
  BY DEF Content
<1> HIDE DEF r
<1> QED BY <1>2, <1>3, Zenon DEF View, r

\* Rebasing a chain, one base of all its live entries, keeps every answer.
THEOREM RebaseView ==
  ASSUME NEW v \in Version, NEW refs \in Seq(Reference)
  PROVE  View(<<BaseReference(v, View(refs))>>) = View(refs)
  BY BaseView, ViewType

\* A delta gives its upserts, removes what it deletes unless it also upserts it,
\* and leaves every other key to the chain below.
THEOREM DeltaView ==
  ASSUME NEW v \in Version, NEW p \in Version \cup {NoVersion},
         NEW entries \in Content, NEW removed \in SUBSET Key,
         NEW refs \in Seq(Reference)
  PROVE  View(Append(refs, DeltaReference(v, p, entries, removed))) =
            [k \in Key |-> IF entries[k] # NoEntry THEN entries[k]
                           ELSE IF k \in removed THEN NoEntry ELSE View(refs)[k]]
<1> DEFINE r == DeltaReference(v, p, entries, removed)
<1>1. r \in Reference
  BY DeltaReferenceType
<1> HIDE DEF r
<1>2. Append(refs, r) = refs \o <<r>> /\ <<r>> \in Seq(Reference)
  BY <1>1
<1>3. ASSUME NEW k \in Key
      PROVE  Served(NewestOperation(Append(refs, r), k)) =
                IF entries[k] # NoEntry THEN entries[k]
                ELSE IF k \in removed THEN NoEntry ELSE View(refs)[k]
  <2>1. NewestOperation(Append(refs, r), k) =
           IF r.ops[k] = Absent THEN NewestOperation(refs, k) ELSE r.ops[k]
    <3>1. NewestOperation(<<r>>, k) = r.ops[k]
      BY <1>1, NewestSingle
    <3>2. NewestOperation(refs \o <<r>>, k) =
             IF NewestOperation(<<r>>, k) = Absent
             THEN NewestOperation(refs, k) ELSE NewestOperation(<<r>>, k)
      BY <1>2, NewestConcat, Zenon
    <3> QED BY <1>2, <3>1, <3>2, Zenon
  <2>2. r.ops[k] = IF entries[k] # NoEntry THEN entries[k]
                   ELSE IF k \in removed THEN Deleted ELSE Absent
    BY DEF DeltaReference, r
  <2>3. entries[k] \in Entry \cup {NoEntry}
    BY DEF Content
  <2>4. View(refs)[k] = Served(NewestOperation(refs, k))
    BY DEF View
  <2> QED BY <2>1, <2>2, <2>3, <2>4, FormatAssumption DEF Served
<1> QED BY <1>3, Zenon DEF View, r

\* Two chains that decide alike still do so under the same newer segments.
LEMMA SameBelow ==
  ASSUME NEW a \in Seq(Reference), NEW b \in Seq(Reference), NEW upper \in Seq(Reference),
         \A k \in Key : NewestOperation(a, k) = NewestOperation(b, k)
  PROVE  \A k \in Key : NewestOperation(a \o upper, k) = NewestOperation(b \o upper, k)
<1>1. ASSUME NEW k \in Key, NEW refs \in Seq(Reference)
      PROVE  NewestOperation(refs \o upper, k) =
                IF NewestOperation(upper, k) = Absent
                THEN NewestOperation(refs, k) ELSE NewestOperation(upper, k)
  BY NewestConcat, Zenon
<1> QED BY <1>1, Zenon

\* A stack with equal top levels is its lower part and its two newest runs, and
\* merging them leaves the lower part and one run in their place.
LEMMA MergeTopShape ==
  ASSUME NEW stack \in Seq(Reference), EqualLevels(stack)
  PROVE  LET n     == Len(stack)
             lower == SubSeq(stack, 1, n - 2)
         IN  /\ n \in Nat /\ n >= 3
             /\ stack[n - 1] \in Reference /\ stack[n] \in Reference
             /\ TopMerged(stack) \in Reference
             /\ lower \in Seq(Reference) /\ Len(lower) = n - 2
             /\ \A i \in 1 .. n - 2 : lower[i] = stack[i]
             /\ stack = lower \o <<stack[n - 1], stack[n]>>
             /\ MergeTop(stack) = lower \o <<TopMerged(stack)>>
             /\ MergeTop(stack) \in Seq(Reference)
<1> DEFINE n     == Len(stack)
           lower == SubSeq(stack, 1, n - 2)
<1>1. n \in Nat /\ n >= 3
  BY DEF EqualLevels
<1>2. stack[n - 1] \in Reference /\ stack[n] \in Reference
  BY <1>1
<1>3. TopMerged(stack) \in Reference
  BY <1>2, MergedReferenceType DEF TopMerged
<1>4. /\ lower \in Seq(Reference) /\ Len(lower) = n - 2
      /\ \A i \in 1 .. n - 2 : lower[i] = stack[i]
  BY <1>1
<1>5. stack = lower \o <<stack[n - 1], stack[n]>>
  BY <1>1, <1>2, <1>4
<1>6. MergeTop(stack) = lower \o <<TopMerged(stack)>>
  BY <1>3, <1>4 DEF MergeTop
<1>7. MergeTop(stack) \in Seq(Reference)
  BY <1>3, <1>4 DEF MergeTop
<1> QED BY <1>1, <1>2, <1>3, <1>4, <1>5, <1>6, <1>7

\* Merging the two newest runs of a chain decides every key as before.
LEMMA MergeTopNewest ==
  ASSUME NEW stack \in Seq(Reference), EqualLevels(stack), NEW k \in Key
  PROVE  NewestOperation(MergeTop(stack), k) = NewestOperation(stack, k)
<1> DEFINE n     == Len(stack)
           lower == SubSeq(stack, 1, n - 2)
           pair  == <<stack[n - 1], stack[n]>>
           top   == TopMerged(stack)
<1>1. /\ stack[n - 1] \in Reference /\ stack[n] \in Reference
      /\ top \in Reference
      /\ lower \in Seq(Reference)
      /\ stack = lower \o pair
      /\ MergeTop(stack) = lower \o <<top>>
  BY MergeTopShape
<1>2. NewestOperation(<<top>>, k) = top.ops[k]
  BY <1>1, NewestSingle
<1>3. top.ops[k] = NewestOperation(pair, k)
  BY DEF TopMerged, MergedReference, MergedOperations
<1> HIDE DEF lower, top
<1>4. <<top>> \in Seq(Reference)
  BY <1>1
<1>5. pair \in Seq(Reference)
  BY <1>1
<1> HIDE DEF pair
<1>6. ASSUME NEW upper \in Seq(Reference)
      PROVE  NewestOperation(lower \o upper, k) =
                IF NewestOperation(upper, k) = Absent
                THEN NewestOperation(lower, k) ELSE NewestOperation(upper, k)
  BY <1>1, NewestConcat, Zenon
<1>7. NewestOperation(lower \o <<top>>, k) = NewestOperation(lower \o pair, k)
  BY <1>2, <1>3, <1>4, <1>5, <1>6, Zenon
<1> QED BY <1>1, <1>7, Zenon

\* One step of a compaction never changes what a lookup returns.
THEOREM MergeTopView ==
  ASSUME NEW stack \in Seq(Reference), EqualLevels(stack)
  PROVE  View(MergeTop(stack)) = View(stack)
  BY MergeTopNewest DEF View

-----------------------------------------------------------------------------
(* compact() repeats PlaceNext.  Its run is a recursive function, which      *)
(* exists and is what its equations say; what each step keeps, the run keeps. *)

\* Induction on the steps of a run.
LEMMA StepInduction ==
  ASSUME NEW P, 0 \in P, \A n \in Nat : n \in P => n + 1 \in P
  PROVE  Nat \subseteq P
<1> DEFINE T == Nat \ P
<1> SUFFICES ASSUME T # {} PROVE FALSE
  BY Zenon
<1>1. T \subseteq Nat
  OBVIOUS
<1>2. PICK x \in T : \A y \in T : ~(<<y, x>> \in Below)
  <2> HIDE DEF T
  <2> QED BY <1>1, BelowWellFounded, WFMin, Zenon
<1>3. x \in Nat /\ x # 0
  BY <1>2
<1>4. x - 1 \in Nat /\ (x - 1) + 1 = x /\ x - 1 < x
  BY <1>3
<1>5. x - 1 \in P
  BY <1>2, <1>3, <1>4 DEF Below
<1> QED BY <1>2, <1>4, <1>5

\* The first n steps from x.
StepsTo(S, x, step, n, f) ==
    /\ f \in [0 .. n -> S]
    /\ f[0] = x
    /\ \A i \in 0 .. n - 1 : f[i + 1] = step[f[i]]

\* Two runs of n steps agree.
LEMMA StepsAgree ==
  ASSUME NEW S, NEW x \in S, NEW step \in [S -> S], NEW n \in Nat, NEW m \in Nat,
         NEW f, NEW g, StepsTo(S, x, step, n, f), StepsTo(S, x, step, m, g)
  PROVE  \A i \in 0 .. n : i <= m => f[i] = g[i]
<1> DEFINE P == {i \in Nat : i <= n /\ i <= m => f[i] = g[i]}
<1>1. 0 \in P
  BY DEF StepsTo
<1>2. ASSUME NEW i \in Nat, i \in P PROVE i + 1 \in P
  <2> SUFFICES ASSUME i + 1 <= n, i + 1 <= m PROVE f[i + 1] = g[i + 1]
    OBVIOUS
  <2>1. f[i] = g[i]
    BY <1>2
  <2>2. i \in 0 .. n - 1 /\ i \in 0 .. m - 1
    OBVIOUS
  <2> QED BY <2>1, <2>2 DEF StepsTo
<1> HIDE DEF P
<1>3. Nat \subseteq P
  BY <1>1, <1>2, StepInduction, Zenon
<1> QED BY <1>3 DEF P

\* There is a run of every length.
LEMMA StepsExist ==
  ASSUME NEW S, NEW x \in S, NEW step \in [S -> S]
  PROVE  \A n \in Nat : \E f : StepsTo(S, x, step, n, f)
<1> DEFINE P == {n \in Nat : \E f : StepsTo(S, x, step, n, f)}
<1>1. 0 \in P
  <2> DEFINE f == [i \in 0 .. 0 |-> x]
  <2>1. StepsTo(S, x, step, 0, f)
    BY DEF StepsTo
  <2> HIDE DEF f
  <2> QED BY <2>1
<1>2. ASSUME NEW n \in Nat, n \in P PROVE n + 1 \in P
  <2>1. PICK f : StepsTo(S, x, step, n, f)
    BY <1>2
  <2> DEFINE g == [i \in 0 .. n + 1 |-> IF i = n + 1 THEN step[f[n]] ELSE f[i]]
  <2>2. f[n] \in S /\ step[f[n]] \in S
    BY <2>1 DEF StepsTo
  <2>3. g \in [0 .. n + 1 -> S]
    BY <2>1, <2>2 DEF StepsTo
  <2>4. g[0] = x
    BY <2>1 DEF StepsTo
  <2>5. ASSUME NEW i \in 0 .. (n + 1) - 1 PROVE g[i + 1] = step[g[i]]
    <3>1. CASE i = n
      BY <3>1
    <3>2. CASE i # n
      <4>1. i \in 0 .. n - 1 /\ i + 1 \in 0 .. n + 1 /\ i + 1 # n + 1 /\ i # n + 1
            /\ i \in 0 .. n + 1
        BY <3>2
      <4>2. f[i + 1] = step[f[i]]
        BY <2>1, <4>1 DEF StepsTo
      <4> QED BY <4>1, <4>2
    <3> QED BY <3>1, <3>2
  <2> HIDE DEF g
  <2>6. StepsTo(S, x, step, n + 1, g)
    BY <2>3, <2>4, <2>5 DEF StepsTo
  <2> QED BY <2>6
<1> HIDE DEF P
<1>3. Nat \subseteq P
  BY <1>1, <1>2, StepInduction, Zenon
<1> QED BY <1>3 DEF P

\* All steps from x.
StepsFrom(S, x, step, f) ==
    /\ f \in [Nat -> S]
    /\ f[0] = x
    /\ \A n \in Nat : f[n + 1] = step[f[n]]

\* And so there is one function of the steps of a run.
LEMMA RunExists ==
  ASSUME NEW S, NEW x \in S, NEW step \in [S -> S]
  PROVE  \E f : StepsFrom(S, x, step, f)
<1> DEFINE h(n) == CHOOSE f : StepsTo(S, x, step, n, f)
           F == [n \in Nat |-> h(n)[n]]
<1>1. \A n \in Nat : StepsTo(S, x, step, n, h(n))
  BY StepsExist, Zenon
<1> HIDE DEF h
<1>2. F \in [Nat -> S]
  <2> SUFFICES ASSUME NEW n \in Nat PROVE h(n)[n] \in S
    OBVIOUS
  <2>1. StepsTo(S, x, step, n, h(n))
    BY <1>1, Zenon
  <2> QED BY <2>1 DEF StepsTo
<1>3. F[0] = x
  <2>1. StepsTo(S, x, step, 0, h(0))
    BY <1>1
  <2> QED BY <2>1 DEF StepsTo
<1>4. ASSUME NEW n \in Nat PROVE F[n + 1] = step[F[n]]
  <2>1. n + 1 \in Nat /\ n \in 0 .. n + 1 /\ n <= n /\ n \in 0 .. (n + 1) - 1 /\ n \in 0 .. n
    OBVIOUS
  <2>2. StepsTo(S, x, step, n, h(n)) /\ StepsTo(S, x, step, n + 1, h(n + 1))
    BY <1>1, <2>1, Zenon
  <2>3. h(n + 1)[n + 1] = step[h(n + 1)[n]]
    BY <2>1, <2>2 DEF StepsTo
  <2>4. \A i \in 0 .. n + 1 : i <= n => h(n + 1)[i] = h(n)[i]
    BY <2>1, <2>2, StepsAgree
  <2> QED BY <2>1, <2>3, <2>4
<1> HIDE DEF F
<1>5. StepsFrom(S, x, step, F)
  BY <1>2, <1>3, <1>4 DEF StepsFrom
<1> QED BY <1>5, Zenon

\* What compact() has placed and what is left: the base stays where it is.
Compaction == {c \in [placed : Seq(Reference), rest : Seq(Reference)] : Len(c.placed) >= 1}

\* A step of compact() does not leave these states.
LEMMA PlaceNextType ==
  ASSUME NEW c \in Compaction
  PROVE  PlaceNext(c) \in Compaction
<1>1. c.placed \in Seq(Reference) /\ c.rest \in Seq(Reference) /\ Len(c.placed) >= 1
  BY DEF Compaction
<1>2. CASE EqualLevels(c.placed)
  <2>1. /\ MergeTop(c.placed) = SubSeq(c.placed, 1, Len(c.placed) - 2) \o <<TopMerged(c.placed)>>
        /\ MergeTop(c.placed) \in Seq(Reference)
    BY <1>1, <1>2, MergeTopShape, Zenon
  <2>2. Len(MergeTop(c.placed)) >= 1
    <3>1. Len(c.placed) >= 3 /\ TopMerged(c.placed) \in Reference
      BY <1>1, <1>2, MergeTopShape
    <3>2. MergeTop(c.placed) = Append(SubSeq(c.placed, 1, Len(c.placed) - 2), TopMerged(c.placed))
      BY DEF MergeTop
    <3>3. SubSeq(c.placed, 1, Len(c.placed) - 2) \in Seq(Reference)
      BY <1>1, <1>2, MergeTopShape, Zenon
    <3> HIDE DEF MergeTop
    <3> QED BY <3>1, <3>2, <3>3
  <2> QED BY <1>1, <1>2, <2>1, <2>2 DEF PlaceNext, Compaction
<1>3. CASE ~EqualLevels(c.placed) /\ c.rest # <<>>
  <2>1. Head(c.rest) \in Reference /\ Tail(c.rest) \in Seq(Reference)
    BY <1>1, <1>3
  <2>2. /\ Append(c.placed, Head(c.rest)) \in Seq(Reference)
        /\ Len(Append(c.placed, Head(c.rest))) >= 1
    BY <1>1, <2>1
  <2> QED BY <1>3, <2>1, <2>2 DEF PlaceNext, Compaction
<1>4. CASE ~EqualLevels(c.placed) /\ c.rest = <<>>
  BY <1>4 DEF PlaceNext
<1> QED BY <1>2, <1>3, <1>4

\* The run of compact(): where it starts and what each step does.
LEMMA PlacingSteps ==
  ASSUME NEW refs \in Seq(Reference), Len(refs) >= 1
  PROVE  /\ Placing(refs) \in [Nat -> Compaction]
         /\ Placing(refs)[0] = [placed |-> <<Head(refs)>>, rest |-> Tail(refs)]
         /\ \A n \in Nat : Placing(refs)[n + 1] = PlaceNext(Placing(refs)[n])
<1> DEFINE x == [placed |-> <<Head(refs)>>, rest |-> Tail(refs)]
           step == [c \in Compaction |-> PlaceNext(c)]
           Run(f) == f = [n \in Nat |-> IF n = 0 THEN x ELSE PlaceNext(f[n - 1])]
<1>1. x \in Compaction
  <2>1. Head(refs) \in Reference /\ Tail(refs) \in Seq(Reference)
    OBVIOUS
  <2>2. <<Head(refs)>> \in Seq(Reference) /\ Len(<<Head(refs)>>) = 1
    BY <2>1
  <2>3. x \in [placed : Seq(Reference), rest : Seq(Reference)]
    BY <2>1, <2>2
  <2>4. Len(x.placed) >= 1
    BY <2>2
  <2> HIDE DEF x
  <2> QED BY <2>3, <2>4 DEF Compaction
<1>2. step \in [Compaction -> Compaction]
  BY PlaceNextType
<1>3. \E f : StepsFrom(Compaction, x, step, f)
  <2> HIDE DEF x, step, Run
  <2> QED BY <1>1, <1>2, RunExists, Zenon
<1>f. PICK f : StepsFrom(Compaction, x, step, f)
  BY <1>3, Zenon
<1>4. Run(f)
  <2> HIDE DEF x
  <2>2. /\ f \in [Nat -> Compaction] /\ f[0] = x
        /\ \A n \in Nat : f[n + 1] = step[f[n]]
    BY <1>f DEF StepsFrom
  <2>1. ASSUME NEW n \in Nat
        PROVE  f[n] = IF n = 0 THEN x ELSE PlaceNext(f[n - 1])
    <3>1. CASE n = 0
      BY <2>2, <3>1
    <3>2. CASE n # 0
      <4>1. n - 1 \in Nat /\ (n - 1) + 1 = n
        BY <3>2
      <4>2. f[(n - 1) + 1] = step[f[n - 1]]
        BY <2>2, <4>1
      <4>3. f[n - 1] \in Compaction
        BY <2>2, <4>1
      <4> QED BY <3>2, <4>1, <4>2, <4>3
    <3> QED BY <3>1, <3>2
  <2> QED BY <2>1, <2>2
<1>5. Placing(refs) = CHOOSE g : Run(g)
  BY Zenon DEF Placing
<1>6. Run(CHOOSE g : Run(g))
  <2> HIDE DEF Run
  <2> QED BY <1>4, Zenon
<1>7. Run(Placing(refs))
  BY <1>5, <1>6, Zenon
<1> DEFINE g == Placing(refs)
<1> HIDE DEF g
<1>8. g = [n \in Nat |-> IF n = 0 THEN x ELSE PlaceNext(g[n - 1])]
  BY <1>7, Zenon DEF g
<1>9. g[0] = x
  <2> HIDE DEF x
  <2> QED BY <1>8
<1>10. ASSUME NEW n \in Nat PROVE g[n + 1] = PlaceNext(g[n])
  <2>1. n + 1 \in Nat /\ n + 1 # 0 /\ (n + 1) - 1 = n
    OBVIOUS
  <2>2. g[n + 1] = PlaceNext(g[(n + 1) - 1])
    <3> HIDE DEF x
    <3> QED BY <1>8, <2>1
  <2> QED BY <2>1, <2>2
<1>11. g \in [Nat -> Compaction]
  <2> DEFINE P == {n \in Nat : g[n] \in Compaction}
  <2>1. 0 \in P
    BY <1>1, <1>9, Zenon
  <2>2. ASSUME NEW n \in Nat, n \in P PROVE n + 1 \in P
    <3>1. g[n] \in Compaction /\ n + 1 \in Nat
      BY <2>2
    <3> QED BY <3>1, <1>10, PlaceNextType
  <2>3. Nat \subseteq P
    <3> HIDE DEF P
    <3> QED BY <2>1, <2>2, StepInduction, Zenon
  <2>4. \A n \in Nat : g[n] \in Compaction
    BY <2>3
  <2>5. DOMAIN g = Nat /\ g = [n \in DOMAIN g |-> g[n]]
    BY <1>8, Zenon
  <2> QED BY <2>4, <2>5, Zenon
<1> QED BY <1>9, <1>10, <1>11, Zenon DEF g

\* Everything placed and left, as one chain.
Chain(c) == c.placed \o c.rest

\* b is a with two neighbouring deltas merged.
OneMerged(a, b) ==
    \E i \in 2 .. Len(a) - 1 :
        /\ Len(b) = Len(a) - 1
        /\ \A j \in 1 .. i - 1 : b[j] = a[j]
        /\ b[i] = MergedReference(a[i], a[i + 1])
        /\ \A j \in i + 1 .. Len(b) : b[j] = a[j + 1]

\* Merging two neighbours of a valid manifest leaves a valid manifest, whose runs
\* end where runs ended before: the level of a merged run is not 0, so its start
\* is not compared with the parent.
LEMMA OneMergedValid ==
  ASSUME NEW m \in Manifest, NEW w \in Manifest,
         w.version = m.version, w.parent = m.parent,
         OneMerged(m.segments, w.segments), ManifestValid(m)
  PROVE  /\ ManifestValid(w)
         /\ \A i \in 1 .. Len(w.segments) : \E j \in 1 .. Len(m.segments) :
                w.segments[i].end = m.segments[j].end
<1> DEFINE a == m.segments
           b == w.segments
<1>1. a \in Seq(Reference) /\ b \in Seq(Reference)
  BY DEF Manifest
<1>2. PICK i \in 2 .. Len(a) - 1 :
        /\ Len(b) = Len(a) - 1
        /\ \A j \in 1 .. i - 1 : b[j] = a[j]
        /\ b[i] = MergedReference(a[i], a[i + 1])
        /\ \A j \in i + 1 .. Len(b) : b[j] = a[j + 1]
  BY Zenon DEF OneMerged
<1>3. /\ b[i].kind = "delta" /\ b[i].start = a[i].start /\ b[i].end = a[i + 1].end
      /\ b[i].level = a[i + 1].level + 1
  <2>1. b[i] = MergedReference(a[i], a[i + 1])
    BY <1>2, Zenon
  <2> HIDE DEF a, b
  <2> QED BY <2>1 DEF MergedReference
<1>4. /\ m.parent # m.version
      /\ Len(a) >= 1 /\ a[1].kind = "base"
      /\ \A n \in 2 .. Len(a) :
            /\ a[n].kind = "delta"
            /\ a[n].start = a[n - 1].end
            /\ \A j \in 1 .. n - 1 : a[j].end # a[n].end
      /\ a[Len(a)].end = m.version
      /\ Len(a) > 1 => /\ m.parent # NoVersion
                       /\ a[Len(a)].level = 0 => a[Len(a)].start = m.parent
  BY DEF ManifestValid, Contiguous
<1>5. Len(a) \in Nat /\ Len(b) \in Nat /\ i \in Nat /\ 2 <= i /\ i + 1 <= Len(a)
  BY <1>1, <1>2
<1>6. a[i + 1].level \in Nat
  <2>1. a[i + 1] \in Reference
    BY <1>1, <1>5
  <2> QED BY <2>1 DEF Reference
<1> HIDE DEF a, b
\* Where a position of b comes from.
<1> DEFINE from(j) == IF j < i THEN j ELSE j + 1
<1>7. ASSUME NEW j \in 1 .. Len(b)
      PROVE  /\ from(j) \in 1 .. Len(a)
             /\ b[j].end = a[from(j)].end
             /\ j # i => b[j] = a[from(j)]
  <2>1. CASE j < i
    BY <2>1, <1>2, <1>5
  <2>2. CASE j = i
    BY <2>2, <1>2, <1>3, <1>5
  <2>3. CASE j > i
    BY <2>3, <1>2, <1>5
  <2> QED BY <2>1, <2>2, <2>3, <1>5
<1>8. ASSUME NEW n \in 2 .. Len(b)
      PROVE  /\ b[n].kind = "delta"
             /\ b[n].start = b[n - 1].end
             /\ \A j \in 1 .. n - 1 : b[j].end # b[n].end
  <2>1. /\ n \in 1 .. Len(b) /\ n - 1 \in 1 .. Len(b) /\ from(n) \in 2 .. Len(a)
        /\ \A j \in 1 .. n - 1 : from(j) \in 1 .. from(n) - 1 /\ j \in 1 .. Len(b)
    BY <1>2, <1>5
  <2>2. b[n].kind = "delta"
    <3>1. CASE n = i
      BY <3>1, <1>3
    <3>2. CASE n # i
      BY <3>2, <2>1, <1>4, <1>7
    <3> QED BY <3>1, <3>2
  <2>3. b[n].start = b[n - 1].end
    <3>1. CASE n = i
      <4>1. from(n - 1) = i - 1 /\ i \in 2 .. Len(a)
        BY <3>1, <1>5
      <4> QED BY <3>1, <4>1, <2>1, <1>3, <1>4, <1>7
    <3>2. CASE n # i
      <4>1. from(n - 1) = from(n) - 1 \/ (n = i + 1 /\ from(n) = i + 2 /\ from(n - 1) = i + 1)
        BY <3>2, <1>5
      <4>2. b[n].start = a[from(n)].start /\ a[from(n)].start = a[from(n) - 1].end
        BY <3>2, <2>1, <1>4, <1>7
      <4>3. b[n - 1].end = a[from(n - 1)].end
        BY <2>1, <1>7
      <4> HIDE DEF from
      <4> QED BY <4>1, <4>2, <4>3, <1>5
    <3> QED BY <3>1, <3>2
  <2>4. ASSUME NEW j \in 1 .. n - 1 PROVE b[j].end # b[n].end
    <3>1. b[j].end = a[from(j)].end /\ b[n].end = a[from(n)].end
      BY <2>1, <1>7
    <3>2. from(j) \in 1 .. from(n) - 1
      BY <2>1
    <3>3. from(n) \in 1 .. Len(a)
      BY <2>1, <1>7
    <3> HIDE DEF from
    <3>4. a[from(j)].end # a[from(n)].end
      BY <3>2, <3>3, <1>4
    <3> QED BY <3>1, <3>4
  <2> QED BY <2>2, <2>3, <2>4
<1>9. b[1] = a[1]
  BY <1>2, <1>5
<1>10. /\ b[Len(b)].end = a[Len(a)].end
       /\ b[Len(b)].level = 0 => b[Len(b)] = a[Len(a)]
  <2>1. Len(b) \in 1 .. Len(b) /\ from(Len(b)) = Len(a)
    BY <1>2, <1>5
  <2>2. Len(b) = i => b[Len(b)].level # 0
    BY <1>3, <1>6
  <2> HIDE DEF from
  <2> QED BY <2>1, <2>2, <1>7
<1>11. ManifestValid(w)
  <2>1. Contiguous(b)
    BY <1>8, Zenon DEF Contiguous
  <2>2. Len(b) >= 1 /\ b[1].kind = "base" /\ b[Len(b)].end = w.version /\ w.parent # w.version
    BY <1>2, <1>4, <1>5, <1>9, <1>10
  <2>3. Len(b) > 1 => /\ w.parent # NoVersion
                      /\ b[Len(b)].level = 0 => b[Len(b)].start = w.parent
    BY <1>2, <1>4, <1>5, <1>10
  <2> QED BY <2>1, <2>2, <2>3 DEF ManifestValid, b
<1>12. \A n \in 1 .. Len(b) : \E j \in 1 .. Len(a) : b[n].end = a[j].end
  <2> HIDE DEF from
  <2> QED BY <1>7
<1> QED BY <1>11, <1>12 DEF a, b

\* Sequences put together, element by element.
LEMMA ConcatElements ==
  ASSUME NEW a \in Seq(Reference), NEW b \in Seq(Reference)
  PROVE  /\ a \o b \in Seq(Reference)
         /\ Len(a \o b) = Len(a) + Len(b)
         /\ Len(a) \in Nat /\ Len(b) \in Nat
         /\ \A i \in 1 .. Len(a) : (a \o b)[i] = a[i]
         /\ \A i \in Len(a) + 1 .. Len(a) + Len(b) : (a \o b)[i] = b[i - Len(a)]
  OBVIOUS

\* Merging the top of what is placed merges two neighbours of the whole chain.
LEMMA MergeTopIsOneMerged ==
  ASSUME NEW placed \in Seq(Reference), NEW rest \in Seq(Reference), EqualLevels(placed)
  PROVE  OneMerged(placed \o rest, MergeTop(placed) \o rest)
<1> DEFINE n == Len(placed)
           top == MergeTop(placed)
           a == placed \o rest
           b == top \o rest
           lower == SubSeq(placed, 1, n - 2)
<1>1. /\ n \in Nat /\ n >= 3 /\ TopMerged(placed) \in Reference
      /\ lower \in Seq(Reference) /\ Len(lower) = n - 2
      /\ \A i \in 1 .. n - 2 : lower[i] = placed[i]
      /\ top = Append(lower, TopMerged(placed)) /\ top \in Seq(Reference)
  BY MergeTopShape DEF MergeTop
<1>2. /\ Len(top) = n - 1
      /\ \A j \in 1 .. n - 2 : top[j] = placed[j]
      /\ top[n - 1] = TopMerged(placed)
  <2> HIDE DEF top, lower
  <2> QED BY <1>1
<1>3. TopMerged(placed) = MergedReference(placed[n - 1], placed[n])
  BY DEF TopMerged
<1>4. /\ a \in Seq(Reference) /\ Len(a) = n + Len(rest) /\ Len(rest) \in Nat
      /\ \A i \in 1 .. n : a[i] = placed[i]
      /\ \A i \in n + 1 .. n + Len(rest) : a[i] = rest[i - n]
  BY ConcatElements, Zenon
<1>5. /\ Len(b) = Len(top) + Len(rest)
      /\ \A i \in 1 .. Len(top) : b[i] = top[i]
      /\ \A i \in Len(top) + 1 .. Len(top) + Len(rest) : b[i] = rest[i - Len(top)]
  BY <1>1, ConcatElements, Zenon
<1> HIDE DEF n, top, a, b
<1>6. Len(b) = Len(a) - 1 /\ n - 1 \in 2 .. Len(a) - 1
  BY <1>1, <1>2, <1>4, <1>5
<1>7. \A j \in 1 .. (n - 1) - 1 : b[j] = a[j]
  BY <1>1, <1>2, <1>4, <1>5
<1>8. b[n - 1] = MergedReference(a[n - 1], a[(n - 1) + 1])
  <2>1. b[n - 1] = TopMerged(placed) /\ a[n - 1] = placed[n - 1] /\ (n - 1) + 1 = n
        /\ a[n] = placed[n]
    BY <1>1, <1>2, <1>4, <1>5
  <2> QED BY <1>3, <2>1
<1>9. \A j \in (n - 1) + 1 .. Len(b) : b[j] = a[j + 1]
  <2> SUFFICES ASSUME NEW j \in n .. n - 1 + Len(rest) PROVE b[j] = a[j + 1]
    BY <1>1, <1>2, <1>4, <1>5
  <2>1. b[j] = rest[j - (n - 1)] /\ a[j + 1] = rest[(j + 1) - n]
    BY <1>1, <1>2, <1>4, <1>5
  <2>2. j - (n - 1) = (j + 1) - n
    BY <1>1
  <2> QED BY <2>1, <2>2, Zenon
<1>10. OneMerged(a, b)
  BY <1>6, <1>7, <1>8, <1>9, Zenon DEF OneMerged
<1> QED BY <1>10 DEF a, b, top

\* Placing the next run leaves the chain as it is.
LEMMA PushKeepsChain ==
  ASSUME NEW placed \in Seq(Reference), NEW rest \in Seq(Reference), rest # <<>>
  PROVE  /\ Append(placed, Head(rest)) \o Tail(rest) = placed \o rest
         /\ Len(Tail(rest)) = Len(rest) - 1
         /\ Len(Append(placed, Head(rest))) = Len(placed) + 1
<1> DEFINE p == Append(placed, Head(rest))
           t == Tail(rest)
           a == p \o t
           b == placed \o rest
<1>1. /\ Head(rest) \in Reference /\ t \in Seq(Reference) /\ Head(rest) = rest[1]
      /\ Len(t) = Len(rest) - 1 /\ Len(rest) \in Nat /\ Len(rest) >= 1
      /\ \A i \in 1 .. Len(rest) - 1 : t[i] = rest[i + 1]
  OBVIOUS
<1>2. /\ p \in Seq(Reference) /\ Len(p) = Len(placed) + 1 /\ Len(placed) \in Nat
      /\ \A i \in 1 .. Len(placed) : p[i] = placed[i]
      /\ p[Len(placed) + 1] = rest[1]
  <2>1. \A r \in Reference : /\ Append(placed, r) \in Seq(Reference)
                             /\ Len(Append(placed, r)) = Len(placed) + 1
                             /\ \A i \in 1 .. Len(placed) : Append(placed, r)[i] = placed[i]
                             /\ Append(placed, r)[Len(placed) + 1] = r
    OBVIOUS
  <2>2. Len(placed) \in Nat
    OBVIOUS
  <2> QED BY <1>1, <2>1, <2>2, Zenon
<1> HIDE DEF p, t
<1>3. /\ a \in Seq(Reference) /\ Len(a) = Len(p) + Len(t)
      /\ \A i \in 1 .. Len(p) : a[i] = p[i]
      /\ \A i \in Len(p) + 1 .. Len(p) + Len(t) : a[i] = t[i - Len(p)]
  BY <1>1, <1>2, ConcatElements, Zenon
<1>4. /\ b \in Seq(Reference) /\ Len(b) = Len(placed) + Len(rest)
      /\ \A i \in 1 .. Len(placed) : b[i] = placed[i]
      /\ \A i \in Len(placed) + 1 .. Len(placed) + Len(rest) : b[i] = rest[i - Len(placed)]
  BY ConcatElements, Zenon
<1> HIDE DEF a, b
<1>5. Len(a) = Len(b) /\ Len(a) = Len(placed) + Len(rest)
  BY <1>1, <1>2, <1>3, <1>4
<1>6. ASSUME NEW i \in 1 .. Len(a) PROVE a[i] = b[i]
  <2>1. CASE i <= Len(placed)
    BY <2>1, <1>1, <1>2, <1>3, <1>4
  <2>2. CASE i = Len(placed) + 1
    <3>1. a[i] = rest[1]
      BY <2>2, <1>1, <1>2, <1>3
    <3>2. i - Len(placed) = 1 /\ i \in Len(placed) + 1 .. Len(placed) + Len(rest)
      BY <2>2, <1>1, <1>2, <1>5
    <3>3. b[i] = rest[i - Len(placed)]
      BY <3>2, <1>4
    <3> QED BY <3>1, <3>2, <3>3
  <2>3. CASE i > Len(placed) + 1
    <3>1. a[i] = t[i - Len(p)] /\ i - Len(p) \in 1 .. Len(rest) - 1
      BY <2>3, <1>1, <1>2, <1>3
    <3>2. t[i - Len(p)] = rest[i - Len(p) + 1]
      BY <3>1, <1>1
    <3>3. b[i] = rest[i - Len(placed)]
      BY <2>3, <1>1, <1>2, <1>3, <1>4
    <3>4. i - Len(p) + 1 = i - Len(placed)
      BY <1>2, <1>5
    <3> QED BY <3>1, <3>2, <3>3, <3>4, Zenon
  <2> QED BY <2>1, <2>2, <2>3, <1>2
<1>7. a = b
  BY <1>3, <1>4, <1>5, <1>6
<1> QED BY <1>1, <1>2, <1>7 DEF a, b, p, t

\* What every step of compact() keeps of a manifest's segments.
SameChain(m, refs) ==
    /\ refs \in Seq(Reference)
    /\ View(refs) = View(m.segments)
    /\ Len(refs) <= Len(m.segments)
    /\ \A i \in 1 .. Len(refs) : \E j \in 1 .. Len(m.segments) :
           refs[i].end = m.segments[j].end
    /\ ManifestValid(m) => ManifestValid([m EXCEPT !.segments = refs])

LEMMA SameChainMerged ==
  ASSUME NEW m \in Manifest, NEW a \in Seq(Reference), NEW b \in Seq(Reference),
         SameChain(m, a), OneMerged(a, b), View(b) = View(a), Len(b) <= Len(a)
  PROVE  SameChain(m, b)
<1> DEFINE ma == [m EXCEPT !.segments = a]
           mb == [m EXCEPT !.segments = b]
<1>1. /\ ma \in Manifest /\ ma.segments = a /\ ma.version = m.version /\ ma.parent = m.parent
      /\ mb \in Manifest /\ mb.segments = b /\ mb.version = m.version /\ mb.parent = m.parent
  BY DEF Manifest
<1>2. m.segments \in Seq(Reference)
  BY DEF Manifest
<1> HIDE DEF ma, mb
<1>3. ManifestValid(ma) => ManifestValid(mb)
  <2>1. OneMerged(ma.segments, mb.segments) /\ mb.version = ma.version /\ mb.parent = ma.parent
    BY <1>1, Zenon
  <2> QED BY <1>1, <2>1, OneMergedValid, Zenon
<1>4. ManifestValid(m) => ManifestValid(mb)
  BY <1>3 DEF SameChain, ma
<1>5. \A i \in 1 .. Len(b) : \E j \in 1 .. Len(a) : b[i].end = a[j].end
  <2>1. PICK i \in 2 .. Len(a) - 1 :
          /\ Len(b) = Len(a) - 1
          /\ \A j \in 1 .. i - 1 : b[j] = a[j]
          /\ b[i] = MergedReference(a[i], a[i + 1])
          /\ \A j \in i + 1 .. Len(b) : b[j] = a[j + 1]
    BY Zenon DEF OneMerged
  <2>2. b[i].end = a[i + 1].end
    <3>1. b[i] = MergedReference(a[i], a[i + 1])
      BY <2>1, Zenon
    <3> QED BY <3>1 DEF MergedReference
  <2>3. Len(a) \in Nat /\ Len(b) \in Nat
    OBVIOUS
  <2>4. SUFFICES ASSUME NEW n \in 1 .. Len(b) PROVE \E j \in 1 .. Len(a) : b[n].end = a[j].end
    OBVIOUS
  <2>5. CASE n < i
    BY <2>1, <2>3, <2>5
  <2>6. CASE n = i
    BY <2>1, <2>2, <2>3, <2>6
  <2>7. CASE n > i
    BY <2>1, <2>3, <2>7
  <2> QED BY <2>1, <2>5, <2>6, <2>7
<1>6. \A i \in 1 .. Len(b) : \E j \in 1 .. Len(m.segments) : b[i].end = m.segments[j].end
  BY <1>5 DEF SameChain
<1>7. Len(b) <= Len(m.segments)
  <2>1. Len(b) \in Nat /\ Len(a) \in Nat /\ Len(m.segments) \in Nat
    BY <1>2
  <2> QED BY <2>1 DEF SameChain
<1> QED BY <1>4, <1>6, <1>7 DEF SameChain, mb

LEMMA PlaceNextKeeps ==
  ASSUME NEW m \in Manifest, NEW c \in Compaction, SameChain(m, Chain(c))
  PROVE  SameChain(m, Chain(PlaceNext(c)))
<1>1. c.placed \in Seq(Reference) /\ c.rest \in Seq(Reference)
  BY DEF Compaction
<1>2. CASE EqualLevels(c.placed)
  <2> DEFINE top == MergeTop(c.placed)
             a == c.placed \o c.rest
             b == top \o c.rest
  <2>1. top \in Seq(Reference)
    BY <1>1, <1>2, MergeTopShape, Zenon
  <2>2. \A k \in Key : NewestOperation(top, k) = NewestOperation(c.placed, k)
    BY <1>1, <1>2, MergeTopNewest, Zenon
  <2>3. OneMerged(a, b)
    BY <1>1, <1>2, MergeTopIsOneMerged, Zenon
  <2> HIDE DEF top
  <2>4. \A k \in Key : NewestOperation(b, k) = NewestOperation(a, k)
    BY <1>1, <2>1, <2>2, SameBelow, Zenon
  <2>5. a \in Seq(Reference) /\ b \in Seq(Reference)
    BY <1>1, <2>1, ConcatElements, Zenon
  <2> HIDE DEF a, b
  <2>6. View(b) = View(a)
    BY <2>4 DEF View
  <2>7. Len(b) <= Len(a)
    <3>1. Len(b) = Len(a) - 1
      BY <2>3, Zenon DEF OneMerged
    <3>2. Len(a) \in Nat
      BY <2>5
    <3> QED BY <3>1, <3>2
  <2>8. SameChain(m, a)
    BY Zenon DEF Chain, a
  <2>9. SameChain(m, b)
    BY <2>3, <2>5, <2>6, <2>7, <2>8, SameChainMerged, Zenon
  <2>10. Chain(PlaceNext(c)) = b
    BY <1>2 DEF Chain, PlaceNext, b, top
  <2> QED BY <2>9, <2>10, Zenon
<1>3. CASE ~EqualLevels(c.placed) /\ c.rest # <<>>
  <2>1. PlaceNext(c) = [placed |-> Append(c.placed, Head(c.rest)), rest |-> Tail(c.rest)]
    BY <1>3, Zenon DEF PlaceNext
  <2>2. Chain(PlaceNext(c)) = Append(c.placed, Head(c.rest)) \o Tail(c.rest)
    <3>1. PlaceNext(c).placed = Append(c.placed, Head(c.rest)) /\ PlaceNext(c).rest = Tail(c.rest)
      BY <2>1
    <3> QED BY <3>1, Zenon DEF Chain
  <2>3. Append(c.placed, Head(c.rest)) \o Tail(c.rest) = Chain(c)
    BY <1>1, <1>3, PushKeepsChain, Zenon DEF Chain
  <2> QED BY <2>2, <2>3, Zenon
<1>4. CASE ~EqualLevels(c.placed) /\ c.rest = <<>>
  <2>1. PlaceNext(c) = c
    BY <1>4, Zenon DEF PlaceNext
  <2> QED BY <2>1, Zenon
<1> QED BY <1>2, <1>3, <1>4, Zenon

\* Nothing left to place and nothing to merge.
CompactionEnded(c) == c.rest = <<>> /\ ~EqualLevels(c.placed)

\* What is left of the steps: each one takes something off.
Left(c) == Len(c.rest) + Len(c.rest) + Len(c.placed)

InTime(c, n, limit) == CompactionEnded(c) \/ Left(c) + n <= limit

LEMMA PlaceNextEnds ==
  ASSUME NEW c \in Compaction, NEW n \in Nat, NEW limit \in Nat, InTime(c, n, limit)
  PROVE  InTime(PlaceNext(c), n + 1, limit)
<1> DEFINE d == PlaceNext(c)
<1>1. /\ c.placed \in Seq(Reference) /\ c.rest \in Seq(Reference)
      /\ Len(c.placed) \in Nat /\ Len(c.rest) \in Nat
  BY DEF Compaction
<1>a. \A r, p, x, y \in Nat : r + r + p + n <= limit /\ x + 1 = r /\ y = p + 1
                                 => x + x + y + (n + 1) <= limit
  OBVIOUS
<1>b. \A r, p, y \in Nat : r + r + p + n <= limit /\ y + 1 = p
                                 => r + r + y + (n + 1) <= limit
  OBVIOUS
<1>c. \A s \in Seq(Reference) : Len(s) \in Nat
  OBVIOUS
<1>d. d \in Compaction
  BY PlaceNextType
<1>e. d.placed \in Seq(Reference) /\ d.rest \in Seq(Reference)
  <2> HIDE DEF d
  <2> QED BY <1>d DEF Compaction
<1>2. CASE EqualLevels(c.placed)
  <2>1. d.placed = MergeTop(c.placed) /\ d.rest = c.rest
    BY <1>2 DEF PlaceNext
  <2>2. /\ MergeTop(c.placed) = Append(SubSeq(c.placed, 1, Len(c.placed) - 2), TopMerged(c.placed))
        /\ SubSeq(c.placed, 1, Len(c.placed) - 2) \in Seq(Reference)
        /\ Len(SubSeq(c.placed, 1, Len(c.placed) - 2)) = Len(c.placed) - 2
        /\ TopMerged(c.placed) \in Reference
    BY <1>1, <1>2, MergeTopShape, Zenon DEF MergeTop
  <2>3. \A s \in Seq(Reference), r \in Reference : Len(Append(s, r)) = Len(s) + 1
    OBVIOUS
  <2>4. Len(d.placed) = (Len(c.placed) - 2) + 1
    BY <2>1, <2>2, <2>3, Zenon
  <2> HIDE DEF d
  <2>5. \A p \in Nat : ((p - 2) + 1) + 1 = p
    OBVIOUS
  <2>6. Len(d.placed) + 1 = Len(c.placed)
    BY <1>1, <2>4, <2>5, Zenon
  <2>7. Left(c) + n <= limit
    BY <1>2, Zenon DEF InTime, CompactionEnded
  <2>8. Left(d) + (n + 1) <= limit
    BY <1>1, <1>b, <1>c, <1>e, <2>1, <2>6, <2>7, Zenon DEF Left
  <2> QED BY <2>8, Zenon DEF InTime, d
<1>3. CASE ~EqualLevels(c.placed) /\ c.rest # <<>>
  <2>1. d.placed = Append(c.placed, Head(c.rest)) /\ d.rest = Tail(c.rest)
    BY <1>3 DEF PlaceNext
  <2>2. Len(d.placed) = Len(c.placed) + 1 /\ Len(d.rest) = Len(c.rest) - 1
    BY <1>1, <1>3, <2>1, PushKeepsChain, Zenon
  <2> HIDE DEF d
  <2>3. \A r \in Nat : (r - 1) + 1 = r
    OBVIOUS
  <2>4. Len(d.rest) + 1 = Len(c.rest)
    BY <1>1, <2>2, <2>3, Zenon
  <2>5. Left(c) + n <= limit
    BY <1>3, Zenon DEF InTime, CompactionEnded
  <2>6. Left(d) + (n + 1) <= limit
    BY <1>1, <1>a, <1>c, <1>e, <2>2, <2>4, <2>5, Zenon DEF Left
  <2> QED BY <2>6, Zenon DEF InTime, d
<1>4. CASE ~EqualLevels(c.placed) /\ c.rest = <<>>
  <2>1. d = c
    BY <1>4, Zenon DEF PlaceNext
  <2> QED BY <1>4, <2>1, Zenon DEF CompactionEnded, InTime
<1> QED BY <1>2, <1>3, <1>4, Zenon

\* compact() without rebase leaves an equivalent manifest of the same version and
\* parent: the same answers, no longer, and as valid, whatever runs it merges.
THEOREM CompactedIsEquivalent ==
  ASSUME NEW m \in Manifest, m.segments # <<>>
  PROVE  /\ Compacted(m) \in Manifest
         /\ Compacted(m).version = m.version /\ Compacted(m).parent = m.parent
         /\ SameChain(m, Compacted(m).segments)
         /\ ManifestValid(m) => ManifestValid(Compacted(m))
<1> DEFINE refs == m.segments
           run == Placing(refs)
           limit == Len(refs) + Len(refs)
<1>1. refs \in Seq(Reference)
  BY DEF Manifest
<1> HIDE DEF refs
<1>2. /\ Head(refs) \in Reference /\ Tail(refs) \in Seq(Reference)
      /\ Len(Tail(refs)) = Len(refs) - 1 /\ Len(refs) \in Nat /\ limit \in Nat
      /\ Len(refs) >= 1
  BY <1>1 DEF refs
<1>3. /\ run \in [Nat -> Compaction]
      /\ run[0] = [placed |-> <<Head(refs)>>, rest |-> Tail(refs)]
      /\ \A n \in Nat : run[n + 1] = PlaceNext(run[n])
  BY <1>1, <1>2, PlacingSteps, Zenon DEF refs
<1> DEFINE Keeps(n) ==
      /\ SameChain(m, Chain(run[n]))
      /\ InTime(run[n], n, limit)
    P == {n \in Nat : Keeps(n)}
<1> HIDE DEF run
<1>4. 0 \in P
  <2>1. Chain(run[0]) = refs
    <3>1. <<Head(refs)>> \o Tail(refs) = refs
      BY <1>1, <1>2
    <3>2. run[0].placed = <<Head(refs)>> /\ run[0].rest = Tail(refs)
      BY <1>3
    <3> QED BY <3>1, <3>2, Zenon DEF Chain
  <2>2. SameChain(m, refs)
    <3>1. [m EXCEPT !.segments = refs] = m
      BY DEF Manifest, refs
    <3> QED BY <1>1, <1>2, <3>1 DEF SameChain, refs
  <2>3. InTime(run[0], 0, limit)
    <3>1. run[0].placed = <<Head(refs)>> /\ run[0].rest = Tail(refs)
      BY <1>3
    <3>2. Len(<<Head(refs)>>) = 1
      OBVIOUS
    <3>3. Len(run[0].placed) = 1 /\ Len(run[0].rest) = Len(refs) - 1
      BY <1>2, <3>1, <3>2, Zenon
    <3>4. \A r \in Nat : (r - 1) + (r - 1) + 1 + 0 <= r + r
      OBVIOUS
    <3> QED BY <1>2, <3>3, <3>4, Zenon DEF InTime, Left
  <2> QED BY <2>1, <2>2, <2>3, Zenon
<1>5. ASSUME NEW n \in Nat, n \in P PROVE n + 1 \in P
  <2>1. run[n] \in Compaction /\ run[n + 1] = PlaceNext(run[n]) /\ limit \in Nat /\ n + 1 \in Nat
    <3>1. run[n] \in Compaction
      BY <1>3
    <3>2. n + 1 \in Nat
      OBVIOUS
    <3> QED BY <1>2, <1>3, <3>1, <3>2, Zenon
  <2>2. Keeps(n)
    BY <1>5
  <2> HIDE DEF limit
  <2>3. SameChain(m, Chain(run[n + 1]))
    BY <2>1, <2>2, PlaceNextKeeps, Zenon
  <2>4. InTime(run[n + 1], n + 1, limit)
    BY <2>1, <2>2, PlaceNextEnds, Zenon
  <2> QED BY <2>1, <2>3, <2>4
<1>6. Nat \subseteq P
  <2> HIDE DEF P
  <2> QED BY <1>4, <1>5, StepInduction, Zenon
<1> DEFINE c == run[limit]
<1>7. limit \in Nat /\ c \in Compaction
  BY <1>3, <1>2
<1>8. Keeps(limit)
  <2> HIDE DEF Keeps
  <2> QED BY <1>6, <1>7
<1> HIDE DEF limit
<1>9. c.placed \in Seq(Reference) /\ Len(c.placed) >= 1 /\ c.rest \in Seq(Reference)
  <2> HIDE DEF c
  <2> QED BY <1>7 DEF Compaction
<1>10. CompactionEnded(c)
  <2>1. Len(c.rest) \in Nat /\ Len(c.placed) \in Nat
    BY <1>9
  <2>2. \A r, p, l \in Nat : p >= 1 => ~(r + r + p + l <= l)
    OBVIOUS
  <2>3. ~(Left(c) + limit <= limit)
    BY <1>7, <1>9, <2>1, <2>2, Zenon DEF Left
  <2> QED BY <1>8, <2>3, Zenon DEF InTime
<1>11. Chain(c) = c.placed
  <2>1. \A s \in Seq(Reference) : s \o <<>> = s
    OBVIOUS
  <2> QED BY <1>9, <1>10, <2>1, Zenon DEF Chain, CompactionEnded
<1>12. SameChain(m, c.placed)
  BY <1>8, <1>11, Zenon
<1>13. Compacted(m) = [m EXCEPT !.segments = c.placed]
  <2>1. limit = 2 * Len(refs)
    <3>1. \A n \in Nat : n + n = 2 * n
      OBVIOUS
    <3> QED BY <1>2, <3>1 DEF limit
  <2> QED BY <2>1, Zenon DEF Compacted, c, run, refs
<1> HIDE DEF c
<1>14. /\ Compacted(m) \in Manifest
       /\ Compacted(m).version = m.version /\ Compacted(m).parent = m.parent
       /\ Compacted(m).segments = c.placed
  BY <1>9, <1>13 DEF Manifest
<1> QED BY <1>12, <1>13, <1>14, Zenon DEF SameChain

=============================================================================
