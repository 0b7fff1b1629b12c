------------------------------ MODULE ReadsProofs ------------------------------
(***************************************************************************)
(* Proofs about what clients read: the rows of the catalog, the answers of *)
(* the content app, and the segment cache that index views are mapped from.*)
(*                                                                         *)
(* The catalog is read from rows that later versions change.  RowsInv says *)
(* that every row is a whole stay of its unit in the versions up to the    *)
(* one in progress, and that there is a row for every stay.  From it come  *)
(* the queries; that a list of a version has one order; and that a row of  *)
(* the index has its releases in one, since sort keys compare as an order  *)
(* does.  Of a client in the middle of a list CrawlInv says what it has    *)
(* seen: by cursor each row up to its position once that stays, and no     *)
(* other; by limit and offset the list of the version up to the position.  *)
(*                                                                         *)
(* Of the content app, HandlerInv says what versions hold (pages only      *)
(* above files, entries not newer than the clock), that an entry that is   *)
(* not newer in a later version has the same bytes, which a request with a *)
(* date relies on, and that a dated copy is an entry of the version it     *)
(* came from.  Where paths are only added, the Bloom filter holds those of *)
(* the latest version and of a modify that is past its filter step.        *)
(*                                                                         *)
(* In the segment cache pins and downloads rest on the exclusion of the    *)
(* key locks, which the model does not state: a segment that an opener     *)
(* holds exclusively is pinned by nobody and held exclusively by nobody    *)
(* else (CacheInv).  The budget needs the exclusion of the fill lock, that *)
(* its holder removes what a killed downloader left before it makes room,  *)
(* and that what arrives was not there, so that its size counts once       *)
(* (BudgetInv).                                                            *)
(***************************************************************************)
EXTENDS Catalog, ContentHandler, SegmentCache, SequenceTheorems, FiniteSetTheorems,
        WellFoundedInduction, TLAPS

-----------------------------------------------------------------------------
(* Rows of the catalog.                                                     *)

\* The version in progress counts as one.
Made == IF draft = <<>> THEN Number ELSE Number + 1

ContentOf(k) == IF k <= Number THEN Content(k) ELSE draft[1]

TimeOf(k) == IF k <= Number THEN history[k].at ELSE clock

Row == [unit : Package, added : Nat \ {0}, removed : Nat \cup {Present}, at : Nat]

RecordsInv ==
    /\ history \in Seq([content : SUBSET Package, at : Nat]) /\ clock \in Nat
    /\ draft = <<>> \/ (draft # <<>> /\ draft[1] \in SUBSET Package)
    /\ rows \subseteq Row

\* A row tells of a whole stay of its unit: from the version that added it to the last
\* one before it was removed, and not one more.
IsStay(row) ==
    /\ row.added <= Made /\ row.at = TimeOf(row.added)
    /\ row.unit \notin ContentOf(row.added - 1)
    /\ row.removed # Present =>
          row.added < row.removed /\ row.removed <= Made /\ row.unit \notin ContentOf(row.removed)
    /\ \A k \in 1 .. Made : InVersionBounds(row, k) => row.unit \in ContentOf(k)

StaysInv == \A row \in rows : IsStay(row)

\* What a version holds has a row that says so.
CoverInv ==
    \A k \in 0 .. Made : \A u \in ContentOf(k) :
        \E row \in rows : row.unit = u /\ InVersionBounds(row, k)

RowsInv == RecordsInv /\ StaysInv /\ CoverInv

-----------------------------------------------------------------------------

LEMMA NumberIsNat == ASSUME RecordsInv PROVE Number \in Nat /\ Made \in Nat /\ Number <= Made
BY DEF RecordsInv, Number, Made

LEMMA DraftStep ==
    ASSUME RowsInv, NEW units \in Uploads, Draft(units) PROVE RowsInv'
<1> DEFINE new == Number + 1
           kept == {row \in rows : row.removed # Present \/ row.unit \in units}
           gone == {[row EXCEPT !.removed = new] : row \in rows \ kept}
           Fresh(u) == [unit |-> u, added |-> new, removed |-> Present, at |-> clock']
           fresh == {Fresh(u) : u \in units \ Content(Number)}
<1>1. /\ draft = <<>> /\ draft' = <<units>> /\ clock' = clock + 1
      /\ rows' = kept \cup gone \cup fresh /\ history' = history
  BY DEF Draft
<1>2. /\ units \in SUBSET Package /\ clock' \in Nat /\ new \in Nat /\ Number \in Nat
      /\ Made = Number /\ Number' = Number /\ Made' = new
  BY <1>1, NumberIsNat, CatalogAssumption DEF RowsInv, RecordsInv, Made, Number
<1>3. /\ \A k \in 0 .. Number : ContentOf(k)' = ContentOf(k)
      /\ \A k \in 1 .. Number : TimeOf(k)' = TimeOf(k)
      /\ ContentOf(new)' = units /\ TimeOf(new)' = clock' /\ ContentOf(Number) = Content(Number)
  BY <1>1, <1>2 DEF ContentOf, TimeOf, Content, Number
<1>4. \A row \in rows : row \in Row /\ IsStay(row)
  BY DEF RowsInv, RecordsInv, StaysInv
<1>5. ASSUME NEW row \in rows \ kept
      PROVE  LET r == [row EXCEPT !.removed = new]
             IN  /\ r \in Row /\ r.unit = row.unit /\ r.added = row.added /\ r.at = row.at
                 /\ r.removed = new /\ row.removed = Present /\ row.unit \notin units
  BY <1>2, <1>4 DEF Row, Present
<1>6. \A u \in units : /\ Fresh(u) \in Row /\ Fresh(u).unit = u /\ Fresh(u).added = new
                       /\ Fresh(u).removed = Present /\ Fresh(u).at = clock'
  BY <1>2 DEF Row, Present
<1> HIDE DEF Fresh
<1>7. RecordsInv'
  <2>1. rows' \subseteq Row
    BY <1>1, <1>4, <1>5, <1>6
  <2> QED
    BY <1>1, <1>2, <2>1 DEF RowsInv, RecordsInv
<1>8. StaysInv'
  <2> SUFFICES ASSUME NEW r \in rows' PROVE IsStay(r)'
    BY DEF StaysInv
  <2>1. CASE r \in kept
    <3>1. r \in Row /\ IsStay(r) /\ (r.removed # Present \/ r.unit \in units)
      BY <1>4, <2>1
    <3>2. r.added \in Nat \ {0} /\ r.removed \in Nat \cup {Present}
      BY <3>1 DEF Row
    <3>3. \A k \in 1 .. new : InVersionBounds(r, k) => r.unit \in ContentOf(k)'
      BY <1>2, <1>3, <3>1, <3>2 DEF IsStay, InVersionBounds, Present
    <3> QED
      BY <1>2, <1>3, <3>1, <3>2, <3>3 DEF IsStay, InVersionBounds
  <2>2. CASE r \in gone
    <3>1. PICK row \in rows \ kept : r = [row EXCEPT !.removed = new]
      BY <2>2
    <3>2. /\ r.unit = row.unit /\ r.added = row.added /\ r.at = row.at
          /\ r.removed = new /\ row.removed = Present /\ row.unit \notin units
      BY <1>5, <3>1
    <3>3. IsStay(row) /\ row.added \in Nat \ {0}
      BY <1>4 DEF Row
    <3>4. \A k \in 1 .. new : InVersionBounds(r, k) => r.unit \in ContentOf(k)'
      BY <1>2, <1>3, <3>2, <3>3 DEF IsStay, InVersionBounds, Present
    <3> QED
      BY <1>2, <1>3, <3>2, <3>3, <3>4 DEF IsStay, InVersionBounds
  <2>3. CASE r \in fresh
    <3>1. PICK u \in units \ Content(Number) : r = Fresh(u)
      BY <2>3
    <3>2. r.unit = u /\ r.added = new /\ r.removed = Present /\ r.at = clock'
      BY <1>6, <3>1
    <3> QED
      BY <1>2, <1>3, <3>1, <3>2 DEF IsStay, InVersionBounds, Present
  <2> QED
    BY <1>1, <2>1, <2>2, <2>3
<1>9. CoverInv'
  <2> SUFFICES ASSUME NEW k \in 0 .. new, NEW u \in ContentOf(k)'
               PROVE  \E row \in rows' : row.unit = u /\ InVersionBounds(row, k)
    BY <1>2 DEF CoverInv, InVersionBounds
  <2>1. CASE k \in 0 .. Number
    <3>1. PICK row \in rows : row.unit = u /\ InVersionBounds(row, k)
      BY <1>2, <1>3, <2>1 DEF RowsInv, CoverInv
    <3>2. CASE row \in kept
      BY <1>1, <3>1, <3>2
    <3>3. CASE row \notin kept
      <4> DEFINE r == [row EXCEPT !.removed = new]
      <4>1. r \in rows'
        BY <1>1, <3>3
      <4>2. r.unit = row.unit /\ r.added = row.added /\ r.removed = new
        BY <1>5, <3>3
      <4>3. InVersionBounds(r, k)
        BY <1>2, <2>1, <3>1, <4>2 DEF InVersionBounds
      <4> QED
        BY <3>1, <4>1, <4>2, <4>3
    <3> QED
      BY <3>2, <3>3
  <2>2. CASE k = new
    <3>1. u \in units
      BY <1>1, <1>2, <2>2 DEF ContentOf
    <3>2. CASE u \in Content(Number)
      <4>1. PICK row \in rows : row.unit = u /\ InVersionBounds(row, Number)
        BY <1>2, <1>3, <3>2 DEF RowsInv, CoverInv
      <4>2. row.removed = Present /\ row.added \in Nat /\ row.added <= Number
        BY <1>2, <1>4, <4>1 DEF IsStay, InVersionBounds, Row
      <4>3. row \in kept
        BY <3>1, <4>1
      <4> QED
        BY <1>1, <1>2, <2>2, <4>1, <4>2, <4>3 DEF InVersionBounds
    <3>3. CASE u \notin Content(Number)
      <4>1. Fresh(u) \in rows'
        BY <1>1, <3>1, <3>3
      <4> QED
        BY <1>2, <1>6, <2>2, <3>1, <4>1 DEF InVersionBounds
    <3> QED
      BY <3>2, <3>3
  <2> QED
    BY <1>2, <2>1, <2>2
<1> QED
  BY <1>7, <1>8, <1>9 DEF RowsInv

LEMMA CompleteStep == ASSUME RowsInv, Complete PROVE RowsInv'
<1>1. /\ draft # <<>> /\ draft' = <<>> /\ rows' = rows /\ clock' = clock
      /\ history' = Append(history, [content |-> draft[1], at |-> clock])
  BY DEF Complete
<1>2. /\ draft[1] \in SUBSET Package /\ clock \in Nat /\ Number \in Nat
      /\ history \in Seq([content : SUBSET Package, at : Nat])
  BY <1>1, NumberIsNat DEF RowsInv, RecordsInv
<1>3. /\ Number' = Number + 1 /\ Made = Number + 1 /\ Made' = Number + 1
      /\ \A k \in 1 .. Number : history'[k] = history[k]
      /\ history'[Number + 1] = [content |-> draft[1], at |-> clock]
  BY <1>1, <1>2 DEF Made, Number
<1>4. /\ \A k \in 0 .. Made : ContentOf(k)' = ContentOf(k)
      /\ \A k \in 1 .. Made : TimeOf(k)' = TimeOf(k)
  <2>1. ASSUME NEW k \in 0 .. Number
        PROVE  ContentOf(k)' = ContentOf(k) /\ (k # 0 => TimeOf(k)' = TimeOf(k))
    <3>1. k <= Number /\ k <= Number' /\ (k # 0 => history'[k] = history[k])
      BY <1>2, <1>3, <2>1
    <3> QED
      BY <3>1 DEF ContentOf, TimeOf, Content
  <2>2. ASSUME NEW k \in 0 .. Made, k = Number + 1
        PROVE  ContentOf(k)' = ContentOf(k) /\ TimeOf(k)' = TimeOf(k)
    <3>1. k \in Nat \ {0} /\ ~(k <= Number) /\ k <= Number' /\ history'[k].content = draft[1]
          /\ history'[k].at = clock
      BY <1>2, <1>3, <2>2
    <3> QED
      BY <3>1 DEF ContentOf, TimeOf, Content
  <2> QED
    BY <1>2, <1>3, <2>1, <2>2
<1>5. RecordsInv'
  BY <1>1, <1>2 DEF RowsInv, RecordsInv
<1>6. StaysInv'
  <2> SUFFICES ASSUME NEW r \in rows PROVE IsStay(r)'
    BY <1>1 DEF StaysInv
  <2>1. IsStay(r) /\ r.added \in Nat \ {0} /\ r.removed \in Nat \cup {Present}
    BY DEF RowsInv, StaysInv, RecordsInv, Row
  <2> QED
    BY <1>2, <1>3, <1>4, <2>1 DEF IsStay, InVersionBounds, Present
<1>7. CoverInv'
  <2> SUFFICES ASSUME NEW k \in 0 .. Made, NEW u \in ContentOf(k)
               PROVE  \E row \in rows : row.unit = u /\ InVersionBounds(row, k)
    BY <1>1, <1>3, <1>4 DEF CoverInv, InVersionBounds
  <2> QED
    BY DEF RowsInv, CoverInv
<1> QED
  BY <1>5, <1>6, <1>7 DEF RowsInv

LEMMA AbortStep == ASSUME RowsInv, Abort PROVE RowsInv'
<1> DEFINE new == Number + 1
           back(row) == [row EXCEPT !.removed = IF @ = new THEN Present ELSE @]
<1>1. /\ draft # <<>> /\ draft' = <<>> /\ UNCHANGED <<history, clock>>
      /\ rows' = {back(row) : row \in {r \in rows : r.added # new}}
  BY DEF Abort
<1>2. Number \in Nat /\ Number' = Number /\ Made = new /\ Made' = Number
  BY <1>1, NumberIsNat DEF RowsInv, Made, Number
<1>3. /\ \A k \in 0 .. Number : ContentOf(k)' = ContentOf(k)
      /\ \A k \in 1 .. Number : TimeOf(k)' = TimeOf(k)
  BY <1>1, <1>2 DEF ContentOf, TimeOf, Content, Number
<1>4. ASSUME NEW row \in rows
      PROVE  /\ row \in Row /\ IsStay(row)
             /\ row.added \in Nat \ {0} /\ row.removed \in Nat \cup {Present}
             /\ back(row) \in Row
             /\ back(row).unit = row.unit /\ back(row).added = row.added /\ back(row).at = row.at
             /\ back(row).removed = IF row.removed = new THEN Present ELSE row.removed
  BY <1>2 DEF RowsInv, RecordsInv, StaysInv, Row, Present
<1> HIDE DEF back
<1>5. RecordsInv'
  <2>1. rows' \subseteq Row
    BY <1>1, <1>4
  <2> QED
    BY <1>1, <2>1 DEF RowsInv, RecordsInv
<1>6. StaysInv'
  <2> SUFFICES ASSUME NEW r \in rows' PROVE IsStay(r)'
    BY DEF StaysInv
  <2>1. PICK row \in rows :
          /\ r.unit = row.unit /\ r.added = row.added /\ r.at = row.at
          /\ r.removed = IF row.removed = new THEN Present ELSE row.removed
          /\ row.added \in Nat \ {0} /\ row.removed \in Nat \cup {Present} /\ IsStay(row)
          /\ row.added # new
    BY <1>1, <1>4
  <2>2. r.added <= Number /\ r.at = TimeOf(r.added)'
    BY <1>2, <1>3, <2>1 DEF IsStay
  <2>3. r.unit \notin ContentOf(r.added - 1)'
    BY <1>2, <1>3, <2>1, <2>2 DEF IsStay
  <2>4. r.removed # Present =>
          r.added < r.removed /\ r.removed <= Number /\ r.unit \notin ContentOf(r.removed)'
    BY <1>2, <1>3, <2>1 DEF IsStay, Present
  <2>5. ASSUME NEW k \in 1 .. Number, InVersionBounds(r, k) PROVE r.unit \in ContentOf(k)'
    <3>1. InVersionBounds(row, k)
      BY <1>2, <2>1, <2>5 DEF InVersionBounds, Present
    <3> QED
      BY <1>2, <1>3, <2>1, <3>1 DEF IsStay
  <2> QED
    BY <1>2, <2>2, <2>3, <2>4, <2>5 DEF IsStay, InVersionBounds
<1>7. CoverInv'
  <2> SUFFICES ASSUME NEW k \in 0 .. Number, NEW u \in ContentOf(k)'
               PROVE  \E row \in rows' : row.unit = u /\ InVersionBounds(row, k)
    BY <1>2 DEF CoverInv, InVersionBounds
  <2>1. PICK row \in rows : row.unit = u /\ InVersionBounds(row, k)
    BY <1>2, <1>3 DEF RowsInv, CoverInv
  <2>2. row.added # new
    BY <1>2, <1>4, <2>1 DEF InVersionBounds
  <2>3. back(row) \in rows'
    BY <1>1, <2>2
  <2> QED
    BY <1>2, <1>4, <2>1, <2>3 DEF InVersionBounds
<1> QED
  BY <1>5, <1>6, <1>7 DEF RowsInv

\* Reading a list changes no row.
LEMMA FrameStep == ASSUME RowsInv, UNCHANGED <<rows, history, draft, clock>> PROVE RowsInv'
<1>1. /\ Number' = Number /\ Made' = Made
      /\ \A k : ContentOf(k)' = ContentOf(k) /\ TimeOf(k)' = TimeOf(k)
  BY DEF Number, Made, ContentOf, TimeOf, Content
<1> QED
  BY <1>1 DEF RowsInv, RecordsInv, StaysInv, IsStay, CoverInv, InVersionBounds

\* The invariant of the rows holds in every reachable state.
THEOREM RowsInvariant == CatalogSpec => []RowsInv
<1>1. CatalogInit => RowsInv
  <2> SUFFICES ASSUME CatalogInit PROVE RowsInv
    OBVIOUS
  <2>1. rows = {} /\ history = <<>> /\ draft = <<>> /\ clock = 0
    BY DEF CatalogInit
  <2>2. Number = 0 /\ Made = 0 /\ ContentOf(0) = {}
    BY <2>1 DEF Number, Made, ContentOf, Content
  <2> QED
    BY <2>1, <2>2 DEF RowsInv, RecordsInv, StaysInv, CoverInv
<1>2. RowsInv /\ [CatalogNext]_catalogVars => RowsInv'
  <2> SUFFICES ASSUME RowsInv, [CatalogNext]_catalogVars PROVE RowsInv'
    OBVIOUS
  <2>1. CASE \E units \in Uploads : Draft(units)
    BY <2>1, DraftStep
  <2>2. CASE Complete
    BY <2>2, CompleteStep
  <2>3. CASE Abort
    BY <2>3, AbortStep
  <2>4. CASE \E c \in Crawls, pinned \in (1 .. MaxDrafts) \cup {Latest} : Begin(c, pinned)
    BY <2>4, FrameStep DEF Begin
  <2>5. CASE ByCursor
    BY <2>5, FrameStep DEF ByCursor, NextPage
  <2>6. CASE ByOffset
    BY <2>6, FrameStep DEF ByOffset, NextPage
  <2>7. CASE UNCHANGED catalogVars
    BY <2>7, FrameStep DEF catalogVars
  <2> QED
    BY <2>1, <2>2, <2>3, <2>4, <2>5, <2>6, <2>7 DEF CatalogNext
<1> QED
  BY <1>1, <1>2, PTL DEF CatalogSpec

-----------------------------------------------------------------------------
(* What the queries return.                                                 *)

LEMMA MaxIsUnique ==
    ASSUME NEW S \in SUBSET Int, NEW x \in S, \A y \in S : y <= x PROVE Max(S) = x
<1>1. \E m \in S : \A y \in S : m >= y
  OBVIOUS
<1>2. Max(S) \in S /\ \A y \in S : Max(S) >= y
  BY <1>1, Zenon DEF Max
<1>3. Max(S) \in Int /\ Max(S) >= x /\ Max(S) <= x
  BY <1>2
<1> QED
  BY <1>3

LEMMA MinOfOne == \A x \in Int : Min({x}) = x
BY DEF Min

\* A row in the bounds of a version began when its unit entered that version.
LEMMA RowsTellTimes ==
    ASSUME RowsInv, NEW n \in 1 .. Number, NEW row \in MembershipsInVersion(n)
    PROVE  row.unit \in Content(n) /\ row.at = Entered(row.unit, n) /\ row.at \in Nat
<1> DEFINE entries == {k \in 1 .. n : row.unit \in Content(k) /\ row.unit \notin Content(k - 1)}
<1>1. /\ row \in rows /\ InVersionBounds(row, n)
      /\ Number \in Nat /\ Made \in Nat /\ Number <= Made
  BY NumberIsNat DEF MembershipsInVersion, RowsInv
<1>2. /\ IsStay(row) /\ row.added \in Nat \ {0} /\ row.removed \in Nat \cup {Present}
      /\ row.at \in Nat
  BY <1>1 DEF RowsInv, RecordsInv, StaysInv, Row
<1>3. \A k \in 0 .. Number : ContentOf(k) = Content(k)
  BY <1>1 DEF ContentOf
<1>4. row.added <= n /\ (row.removed = Present \/ row.removed > n)
  BY <1>1 DEF InVersionBounds
<1>5. \A k \in row.added .. n : row.unit \in Content(k)
  BY <1>1, <1>2, <1>3, <1>4 DEF IsStay, InVersionBounds
<1>6. row.unit \notin Content(row.added - 1)
  BY <1>1, <1>2, <1>3, <1>4 DEF IsStay
<1>7. row.added \in entries
  BY <1>1, <1>2, <1>4, <1>5, <1>6
<1>8. \A k \in entries : k <= row.added
  <2> SUFFICES ASSUME NEW k \in entries, k > row.added PROVE FALSE
    BY <1>2
  <2>1. k - 1 \in row.added .. n
    BY <1>2
  <2> QED
    BY <1>5, <2>1
<1>9. Max(entries) = row.added
  <2>1. entries \in SUBSET Int
    OBVIOUS
  <2> HIDE DEF entries
  <2> QED
    BY <1>7, <1>8, <2>1, MaxIsUnique
<1>10. row.at = history[row.added].at
  BY <1>1, <1>2, <1>4 DEF IsStay, TimeOf
<1>11. row.unit \in Content(n)
  BY <1>1, <1>2, <1>4, <1>5
<1> QED
  BY <1>2, <1>9, <1>10, <1>11 DEF Entered

LEMMA ContentHasRows ==
    ASSUME RowsInv, NEW n \in 1 .. Number, NEW u \in Content(n)
    PROVE  \E row \in MembershipsInVersion(n) : row.unit = u
<1>1. n \in 0 .. Made /\ u \in ContentOf(n)
  BY NumberIsNat DEF RowsInv, ContentOf
<1> QED
  BY <1>1 DEF RowsInv, CoverInv, MembershipsInVersion

LEMMA RowsTellMembership == ASSUME RowsInv PROVE MembershipIsExact
<1> SUFFICES ASSUME NEW n \in 1 .. Number
             PROVE  /\ PackagesInVersion(n) = Content(n)
                    /\ \A u \in Content(n) :
                          /\ CreatedAt(u, n) = Entered(u, n)
                          /\ LastUpdated(Ga(u), n) =
                                Max({Entered(w, n) : w \in OfGa(Content(n), Ga(u))})
  BY DEF MembershipIsExact
<1>1. PackagesInVersion(n) = Content(n)
  BY RowsTellTimes, ContentHasRows DEF PackagesInVersion
<1>2. ASSUME NEW u \in Content(n) PROVE CreatedAt(u, n) = Entered(u, n)
  <2>1. PICK row \in MembershipsInVersion(n) : row.unit = u
    BY <1>2, ContentHasRows
  <2>2. {r.at : r \in {m \in MembershipsInVersion(n) : m.unit = u}} = {Entered(u, n)}
    BY <2>1, RowsTellTimes
  <2>3. Entered(u, n) \in Int
    BY <2>1, RowsTellTimes
  <2> QED
    BY <2>2, <2>3, MinOfOne DEF CreatedAt
<1>3. ASSUME NEW u \in Content(n)
      PROVE  LastUpdated(Ga(u), n) = Max({Entered(w, n) : w \in OfGa(Content(n), Ga(u))})
  <2> DEFINE times == {r.at : r \in {m \in MembershipsInVersion(n) : Ga(m.unit) = Ga(u)}}
             entries == {Entered(w, n) : w \in OfGa(Content(n), Ga(u))}
  <2>1. ASSUME NEW r \in MembershipsInVersion(n), Ga(r.unit) = Ga(u) PROVE r.at \in entries
    BY <2>1, RowsTellTimes DEF OfGa
  <2>2. ASSUME NEW w \in Content(n), Ga(w) = Ga(u) PROVE Entered(w, n) \in times
    <3>1. PICK r \in MembershipsInVersion(n) : r.unit = w
      BY <2>2, ContentHasRows
    <3>2. r.at = Entered(w, n)
      BY <3>1, RowsTellTimes
    <3> QED
      BY <2>2, <3>1, <3>2
  <2>3. times = entries
    BY <2>1, <2>2 DEF OfGa
  <2> QED
    BY <2>3 DEF LastUpdated
<1> QED
  BY <1>1, <1>2, <1>3

\* What the rows say of a complete version is its content, and the times at which its
\* packages came in, for any series of versions, finished or not.
THEOREM MembershipIsAlwaysExact == CatalogSpec => []MembershipIsExact
<1>1. RowsInv => MembershipIsExact
  BY RowsTellMembership
<1> QED
  BY <1>1, RowsInvariant, PTL

-----------------------------------------------------------------------------
(* Orders of finite sets.                                                   *)

\* Induction on numbers, from the well-founded order of the library.
Lower == {p \in Nat \X Nat : p[1] < p[2]}

LEMMA LowerWellFounded == IsWellFoundedOn(Lower, Nat)
  BY NatLessThanWellFounded, Zenon DEF OpToRel, Lower

\* A set of numbers that is not empty has a least one.
LEMMA LeastNumber ==
    ASSUME NEW T \in SUBSET Nat, T # {} PROVE \E x \in T : \A y \in T : x <= y
<1>1. PICK x \in T : \A y \in T : ~(<<y, x>> \in Lower)
  BY LowerWellFounded, WFMin, Zenon
<1>2. \A y \in T : ~(y < x)
  BY <1>1 DEF Lower
<1> QED BY <1>2

LEMMA CountInduction ==
    ASSUME NEW P, 0 \in P, \A n \in Nat : n \in P => n + 1 \in P PROVE Nat \subseteq P
<1> DEFINE T == Nat \ P
<1> SUFFICES ASSUME T # {} PROVE FALSE
  BY Zenon
<1>1. T \subseteq Nat
  OBVIOUS
<1>2. PICK x \in T : \A y \in T : x <= y
  <2> HIDE DEF T
  <2> QED BY <1>1, LeastNumber
<1>3. x \in Nat /\ x # 0
  BY <1>2
<1>4. x - 1 \in Nat /\ (x - 1) + 1 = x /\ x - 1 < x
  BY <1>3
<1>5. x - 1 \in P
  BY <1>2, <1>3, <1>4
<1> QED BY <1>2, <1>4, <1>5

LEMMA MinIsLeast ==
    ASSUME NEW S \in SUBSET Nat, S # {} PROVE Min(S) \in S /\ \A y \in S : Min(S) <= y
<1>1. \E m \in S : \A y \in S : m <= y
  BY LeastNumber
<1> QED BY <1>1, Zenon DEF Min

\* An order is given by what comes after each element.
IsStrict(after, S) ==
    /\ \A a \in S : a \notin after[a]
    /\ \A a, b, c \in S : b \in after[a] /\ c \in after[b] => c \in after[a]

\* Of two elements one always comes before the other.
Separates(after, S) == \A a, b \in S : a # b => b \in after[a] \/ a \in after[b]

InOrderOf(after, s) == \A i, j \in DOMAIN s : i < j => s[i] \notin after[s[j]]

IsLast(after, S, z) == \A y \in S : y \notin after[z]

\* An order of a finite set has each of its elements in one place.
LEMMA OrderPlaces ==
    ASSUME NEW S, IsFiniteSet(S), NEW s \in SetToSeqs(S)
    PROVE  /\ s \in Seq(S) /\ Len(s) = Cardinality(S) /\ DOMAIN s = 1 .. Len(s)
           /\ \A i, j \in DOMAIN s : s[i] = s[j] => i = j
           /\ \A x \in S : \E i \in DOMAIN s : s[i] = x
<1> DEFINE n == Cardinality(S)
<1>1. n \in Nat
  BY FS_CardinalityType
<1>2. s \in [1 .. n -> S] /\ \A i, j \in 1 .. n : i # j => s[i] # s[j]
  BY DEF SetToSeqs
<1>3. IsFiniteSet(1 .. n) /\ Cardinality(1 .. n) = n
  BY <1>1, FS_Interval
<1> HIDE DEF n
<1>4. s \in Injection(1 .. n, S)
  BY <1>2, Zenon DEF Injection, IsInjective
<1>5. s \in Surjection(1 .. n, S)
  BY <1>3, <1>4, FS_Injection DEF n
<1>6. \A x \in S : \E i \in 1 .. n : s[i] = x
  BY <1>5 DEF Surjection
<1>7. s \in Seq(S) /\ Len(s) = n /\ DOMAIN s = 1 .. n
  BY <1>1, <1>2
<1> QED BY <1>2, <1>6, <1>7 DEF n

\* Elements of which one always comes before the other have no other order.
LEMMA OrderIsUnique ==
    ASSUME NEW S, IsFiniteSet(S), NEW after, NEW s \in SetToSeqs(S), NEW t \in SetToSeqs(S),
           Separates(after, S), InOrderOf(after, s), InOrderOf(after, t)
    PROVE  s = t
<1> DEFINE n == Cardinality(S)
           T == {i \in 1 .. n : s[i] # t[i]}
<1>1. n \in Nat
  BY FS_CardinalityType
<1>2. /\ s \in [1 .. n -> S] /\ t \in [1 .. n -> S]
      /\ DOMAIN s = 1 .. n /\ DOMAIN t = 1 .. n
  BY DEF SetToSeqs
<1> SUFFICES ASSUME s # t PROVE FALSE
  OBVIOUS
<1>3. T # {}
  <2>1. \E i \in 1 .. n : s[i] # t[i]
    <3> DEFINE D == 1 .. n
    <3>1. s \in [D -> S]
      BY <1>2
    <3>2. t \in [D -> S]
      BY <1>2
    <3> SUFFICES ASSUME \A i \in D : s[i] = t[i] PROVE FALSE
      BY Zenon
    <3> HIDE DEF n, T, D
    <3>3. s = t
      BY <3>1, <3>2
    <3> QED BY <3>3
  <2> QED BY <2>1
<1>4. PICK i \in T : \A y \in T : i <= y
  <2>1. T \in SUBSET Nat
    BY <1>1
  <2> HIDE DEF T
  <2> QED BY <1>3, <2>1, LeastNumber
<1>5. i \in 1 .. n /\ s[i] # t[i] /\ \A j \in 1 .. n : j < i => s[j] = t[j]
  BY <1>1, <1>4
<1>6. s[i] \in S /\ t[i] \in S
  BY <1>2, <1>5
<1>7. PICK j \in 1 .. n : s[j] = t[i]
  BY <1>2, <1>6, OrderPlaces
<1>8. PICK k \in 1 .. n : t[k] = s[i]
  BY <1>2, <1>6, OrderPlaces
<1>9. /\ \A x, y \in 1 .. n : s[x] = s[y] => x = y
      /\ \A x, y \in 1 .. n : t[x] = t[y] => x = y
  BY DEF SetToSeqs
<1> HIDE DEF n, T
<1>10. j > i
  <2>1. j # i
    BY <1>5, <1>7
  <2>2. CASE j < i
    <3>1. t[j] = t[i]
      BY <1>5, <1>7, <2>2
    <3> QED BY <1>5, <2>2, <3>1, <1>9
  <2> QED BY <1>1, <1>5, <2>1, <2>2
<1>11. k > i
  <2>1. k # i
    BY <1>5, <1>8
  <2>2. CASE k < i
    <3>1. s[k] = s[i]
      BY <1>5, <1>8, <2>2
    <3> QED BY <1>5, <2>2, <3>1, <1>9
  <2> QED BY <1>1, <1>5, <2>1, <2>2
<1>12. s[i] \notin after[t[i]] /\ t[i] \notin after[s[i]]
  BY <1>2, <1>5, <1>7, <1>8, <1>10, <1>11 DEF InOrderOf
<1> QED BY <1>5, <1>6, <1>12 DEF Separates

\* Of a relation without cycles some element of a finite set has nothing after it.
LEMMA LastElement ==
    ASSUME NEW U, NEW after,
           IsStrict(after, U),
           NEW S \in SUBSET U, IsFiniteSet(S), S # {}
    PROVE  \E z \in S : IsLast(after, S, z)
<1> DEFINE Tops(T) == \E z \in T : IsLast(after, T, z)
           Good(n) == \A T \in SUBSET U : IsFiniteSet(T) /\ Cardinality(T) = n + 1 => Tops(T)
           P == {n \in Nat : Good(n)}
<1>1. Good(0)
  <2> SUFFICES ASSUME NEW T \in SUBSET U, IsFiniteSet(T), Cardinality(T) = 0 + 1 PROVE Tops(T)
    OBVIOUS
  <2>1. PICK x : T = {x}
    <3>1. Cardinality(T) = 1
      OBVIOUS
    <3> QED BY <3>1, FS_Singleton, Zenon
  <2> QED BY <2>1 DEF IsLast, IsStrict
<1>2. ASSUME NEW n \in Nat, Good(n) PROVE Good(n + 1)
  <2> SUFFICES ASSUME NEW T \in SUBSET U, IsFiniteSet(T), Cardinality(T) = (n + 1) + 1 PROVE Tops(T)
    OBVIOUS
  <2>1. PICK x \in T : TRUE
    BY FS_EmptySet
  <2>2. IsFiniteSet(T \ {x}) /\ Cardinality(T \ {x}) = n + 1 /\ T \ {x} \in SUBSET U
    <3>1. IsFiniteSet(T \ {x}) /\ Cardinality(T \ {x}) = Cardinality(T) - 1
      BY <2>1, FS_RemoveElement
    <3> QED BY <3>1
  <2>3. PICK z \in T \ {x} : IsLast(after, T \ {x}, z)
    BY <1>2, <2>2
  <2>4. CASE x \notin after[z]
    BY <2>3, <2>4 DEF IsLast
  <2>5. CASE x \in after[z]
    <3>1. IsLast(after, T, x)
      BY <2>1, <2>3, <2>5 DEF IsLast, IsStrict
    <3> QED BY <3>1
  <2> QED BY <2>4, <2>5
<1> HIDE DEF Good
<1>3. Nat \subseteq P
  <2>1. 0 \in P /\ \A n \in Nat : n \in P => n + 1 \in P
    BY <1>1, <1>2
  <2> HIDE DEF P
  <2> QED BY <2>1, CountInduction
<1>4. Cardinality(S) \in Nat /\ Cardinality(S) # 0
  BY FS_CardinalityType, FS_EmptySet
<1>5. Cardinality(S) - 1 \in Nat /\ (Cardinality(S) - 1) + 1 = Cardinality(S)
  BY <1>4
<1>6. Good(Cardinality(S) - 1)
  BY <1>3, <1>5
<1> QED BY <1>5, <1>6 DEF Good

\* A finite set has an order for such a relation.
LEMMA OrderExists ==
    ASSUME NEW U, NEW after,
           IsStrict(after, U),
           NEW S \in SUBSET U, IsFiniteSet(S)
    PROVE  \E s \in SetToSeqs(S) : InOrderOf(after, s)
<1> DEFINE Good(n) == \A T \in SUBSET U : IsFiniteSet(T) /\ Cardinality(T) = n =>
                                           \E s \in SetToSeqs(T) : InOrderOf(after, s)
           P == {n \in Nat : Good(n)}
<1>1. Good(0)
  <2> SUFFICES ASSUME NEW T \in SUBSET U, IsFiniteSet(T), Cardinality(T) = 0
               PROVE  \E s \in SetToSeqs(T) : InOrderOf(after, s)
    OBVIOUS
  <2>1. <<>> \in [1 .. 0 -> T]
    OBVIOUS
  <2>2. <<>> \in SetToSeqs(T)
    BY <2>1 DEF SetToSeqs
  <2> QED BY <2>2 DEF InOrderOf
<1>2. ASSUME NEW n \in Nat, Good(n) PROVE Good(n + 1)
  <2> SUFFICES ASSUME NEW T \in SUBSET U, IsFiniteSet(T), Cardinality(T) = n + 1
               PROVE  \E s \in SetToSeqs(T) : InOrderOf(after, s)
    OBVIOUS
  <2>1. T # {}
    BY FS_EmptySet
  <2>2. PICK z \in T : IsLast(after, T, z)
    BY <2>1, LastElement
  <2>3. IsFiniteSet(T \ {z}) /\ Cardinality(T \ {z}) = n /\ T \ {z} \in SUBSET U
    <3>1. IsFiniteSet(T \ {z}) /\ Cardinality(T \ {z}) = Cardinality(T) - 1
      BY <2>2, FS_RemoveElement
    <3> QED BY <3>1
  <2>4. PICK s \in SetToSeqs(T \ {z}) : InOrderOf(after, s)
    BY <1>2, <2>3
  <2>5. /\ s \in [1 .. n -> T \ {z}] /\ DOMAIN s = 1 .. n
        /\ \A i, j \in 1 .. n : i # j => s[i] # s[j]
    BY <2>3 DEF SetToSeqs
  <2> DEFINE t == [i \in 1 .. n + 1 |-> IF i = n + 1 THEN z ELSE s[i]]
  <2>6. t \in [1 .. n + 1 -> T] /\ DOMAIN t = 1 .. n + 1
    BY <2>5
  <2>7. t[n + 1] = z /\ \A i \in 1 .. n : t[i] = s[i] /\ t[i] \in T \ {z}
    BY <2>5
  <2>8. \A i \in 1 .. n + 1 : i \in 1 .. n \/ i = n + 1
    OBVIOUS
  <2> HIDE DEF t
  <2>9. \A i, j \in 1 .. n + 1 : i # j => t[i] # t[j]
    BY <2>5, <2>7, <2>8
  <2>10. t \in SetToSeqs(T)
    BY <2>6, <2>9 DEF SetToSeqs
  <2>11. ASSUME NEW i \in 1 .. n + 1, NEW j \in 1 .. n + 1, i < j PROVE t[i] \notin after[t[j]]
    <3>1. i \in 1 .. n
      BY <2>11
    <3>2. CASE j = n + 1
      BY <2>2, <2>7, <3>1, <3>2 DEF IsLast
    <3>3. CASE j \in 1 .. n
      BY <2>4, <2>5, <2>7, <2>11, <3>1, <3>3 DEF InOrderOf
    <3> QED BY <2>8, <3>2, <3>3
  <2> QED BY <2>6, <2>10, <2>11 DEF InOrderOf
<1> HIDE DEF Good
<1>3. Nat \subseteq P
  <2>1. 0 \in P /\ \A n \in Nat : n \in P => n + 1 \in P
    BY <1>1, <1>2
  <2> HIDE DEF P
  <2> QED BY <2>1, CountInduction
<1>4. Good(Cardinality(S))
  BY <1>3, FS_CardinalityType
<1> QED BY <1>4 DEF Good

Greater == [a \in Nat |-> {b \in Nat : a < b}]

LEMMA GreaterIsStrict == IsStrict(Greater, Nat)
BY DEF Greater, IsStrict

-----------------------------------------------------------------------------
(* The order of a list separates its rows.                                  *)

FlatNames == {"group_id", "artifact_id", "version"}

TermType == [name : Field, desc : BOOLEAN]

\* Every order of a list ends in both names of a package.
IsComplete(terms) ==
    /\ terms \in Seq(TermType)
    /\ \E i \in DOMAIN terms : terms[i].name = "group_id"
    /\ \E i \in DOMAIN terms : terms[i].name = "artifact_id"

LEMMA TermTypes ==
    ASSUME NEW name \in Field, NEW desc \in BOOLEAN PROVE Term(name, desc) \in TermType
BY DEF Term, TermType

LEMMA FirstTerms == ASSUME NEW terms \in Seq(TermType) PROVE FirstOfEach(terms) \in Seq(TermType)
<1> DEFINE first  == {i \in DOMAIN terms : \A j \in 1 .. i - 1 : terms[j].name # terms[i].name}
           places == CHOOSE s \in Orders(first, <) : TRUE
<1>1. first \in SUBSET Nat /\ first \subseteq DOMAIN terms /\ IsFiniteSet(first)
  <2>1. Len(terms) \in Nat /\ DOMAIN terms = 1 .. Len(terms)
    OBVIOUS
  <2>2. IsFiniteSet(1 .. Len(terms))
    BY <2>1, FS_Interval
  <2>3. first \in SUBSET (1 .. Len(terms))
    BY <2>1
  <2>4. 1 .. Len(terms) \in SUBSET Nat
    BY <2>1
  <2> HIDE DEF first
  <2>5. IsFiniteSet(first)
    BY <2>2, <2>3, FS_Subset
  <2> QED BY <2>1, <2>3, <2>4, <2>5
<1> HIDE DEF first
<1>2. \E s \in SetToSeqs(first) : InOrderOf(Greater, s)
  BY <1>1, GreaterIsStrict, OrderExists
<1>3. \E s \in SetToSeqs(first) : \A i, j \in DOMAIN s : i < j => ~(s[j] < s[i])
  <2>1. PICK s \in SetToSeqs(first) : InOrderOf(Greater, s)
    BY <1>2
  <2>2. \A i \in DOMAIN s : s[i] \in Nat
    BY <1>1 DEF SetToSeqs
  <2> QED BY <2>1, <2>2 DEF Greater, InOrderOf
<1>4. places \in SetToSeqs(first)
  BY <1>3 DEF Orders
<1>5. places \in Seq(first)
  BY <1>1, <1>4, OrderPlaces
<1>6. FirstOfEach(terms) = [k \in DOMAIN places |-> terms[places[k]]]
  BY DEF FirstOfEach, first
<1> HIDE DEF places
<1>7. DOMAIN places = 1 .. Len(places) /\ Len(places) \in Nat
  BY <1>5
<1>8. \A k \in DOMAIN places : terms[places[k]] \in TermType
  <2>1. \A k \in DOMAIN places : places[k] \in DOMAIN terms
    <3>1. \A k \in DOMAIN places : places[k] \in first
      BY <1>5
    <3> QED BY <1>1, <3>1
  <2>2. \A i \in DOMAIN terms : terms[i] \in TermType
    OBVIOUS
  <2> QED BY <2>1, <2>2
<1> QED BY <1>6, <1>7, <1>8

LEMMA TermsWithArtifact ==
    ASSUME NEW terms \in Seq(TermType) PROVE WithArtifact(terms) \in Seq(TermType)
<1>1. CASE "group_id" \notin Names(terms) \/ "artifact_id" \in Names(terms)
  BY <1>1 DEF WithArtifact
<1>2. CASE "group_id" \in Names(terms) /\ "artifact_id" \notin Names(terms)
  <2> DEFINE i == CHOOSE i \in DOMAIN terms : terms[i].name = "group_id"
             new == Term("artifact_id", terms[i].desc)
  <2>1. i \in DOMAIN terms
    BY <1>2 DEF Names
  <2>2. terms[i] \in TermType
    BY <2>1
  <2>3. new \in TermType
    BY <2>2, TermTypes DEF TermType, Field
  <2>4. WithArtifact(terms) = SubSeq(terms, 1, i) \o <<new>> \o SubSeq(terms, i + 1, Len(terms))
    <3>1. WithArtifact(terms) = InsertAt(terms, i + 1, new)
      BY <1>2 DEF WithArtifact
    <3>2. (i + 1) - 1 = i
      BY <2>1
    <3> HIDE DEF i, new
    <3> QED BY <3>1, <3>2 DEF InsertAt
  <2> HIDE DEF i, new
  <2>5. /\ SubSeq(terms, 1, i) \in Seq(TermType) /\ <<new>> \in Seq(TermType)
        /\ SubSeq(terms, i + 1, Len(terms)) \in Seq(TermType)
    BY <2>1, <2>3
  <2> QED BY <2>4, <2>5
<1> QED BY <1>1, <1>2

LEMMA CompleteTerms ==
    ASSUME NEW terms \in Seq(TermType) PROVE IsComplete(NormalizeOrdering(terms))
<1> DEFINE t == WithArtifact(FirstOfEach(terms))
           missing(name) == IF name \in Names(t) THEN <<>> ELSE <<Term(name, FALSE)>>
           g == missing("group_id")
           a == missing("artifact_id")
<1>1. t \in Seq(TermType)
  BY FirstTerms, TermsWithArtifact
<1>2. NormalizeOrdering(terms) = t \o g \o a
  BY DEF NormalizeOrdering
<1> HIDE DEF t
<1>3. g \in Seq(TermType) /\ a \in Seq(TermType)
  <2>1. Term("group_id", FALSE) \in TermType /\ Term("artifact_id", FALSE) \in TermType
    BY TermTypes DEF Field
  <2>2. <<>> \in Seq(TermType) /\ \A x \in TermType : <<x>> \in Seq(TermType)
    OBVIOUS
  <2>3. g \in {<<>>, <<Term("group_id", FALSE)>>} /\ a \in {<<>>, <<Term("artifact_id", FALSE)>>}
    OBVIOUS
  <2> HIDE DEF g, a
  <2> QED BY <2>1, <2>2, <2>3
<1>4. \/ \E i \in DOMAIN t : t[i].name = "group_id"
      \/ Len(g) = 1 /\ g[1].name = "group_id"
  BY DEF Names, Term
<1>5. \/ \E i \in DOMAIN t : t[i].name = "artifact_id"
      \/ Len(a) = 1 /\ a[1].name = "artifact_id"
  BY DEF Names, Term
<1> HIDE DEF g, a
<1> DEFINE all == t \o g \o a
<1>6. all \in Seq(TermType) /\ Len(all) = Len(t) + Len(g) + Len(a)
  BY <1>1, <1>3
<1>7. /\ \A i \in 1 .. Len(t) : all[i] = t[i]
      /\ \A i \in 1 .. Len(g) : all[Len(t) + i] = g[i]
      /\ \A i \in 1 .. Len(a) : all[Len(t) + Len(g) + i] = a[i]
  BY <1>1, <1>3
<1>8. Len(t) \in Nat /\ Len(g) \in Nat /\ Len(a) \in Nat /\ DOMAIN t = 1 .. Len(t)
  BY <1>1, <1>3
<1> HIDE DEF all
<1>9. \E i \in DOMAIN all : all[i].name = "group_id"
  <2>1. CASE \E i \in DOMAIN t : t[i].name = "group_id"
    BY <1>6, <1>7, <1>8, <2>1
  <2>2. CASE Len(g) = 1 /\ g[1].name = "group_id"
    <3>1. Len(t) + 1 \in DOMAIN all /\ all[Len(t) + 1] = g[1]
      BY <1>6, <1>7, <1>8, <2>2
    <3> QED BY <2>2, <3>1
  <2> QED BY <1>4, <2>1, <2>2
<1>10. \E i \in DOMAIN all : all[i].name = "artifact_id"
  <2>1. CASE \E i \in DOMAIN t : t[i].name = "artifact_id"
    BY <1>6, <1>7, <1>8, <2>1
  <2>2. CASE Len(a) = 1 /\ a[1].name = "artifact_id"
    <3>1. Len(t) + Len(g) + 1 \in DOMAIN all /\ all[Len(t) + Len(g) + 1] = a[1]
      BY <1>6, <1>7, <1>8, <2>2
    <3> QED BY <2>2, <3>1
  <2> QED BY <1>5, <2>1, <2>2
<1>11. NormalizeOrdering(terms) = all
  BY <1>2 DEF all
<1> QED BY <1>6, <1>9, <1>10, <1>11 DEF IsComplete

-----------------------------------------------------------------------------
(* A list of a version as a function of its content and of the times at    *)
(* which its packages came in.                                              *)

\* Units behind a row.
UnitsIn(c, row, units) == {u \in units : row = IF c.list = "flat" THEN u ELSE Ga(u)}

RowsIn(c, units) ==
    IF c.list = "flat" THEN units ELSE {Ga(u) : u \in {w \in units : Matches(Ga(w), c.search)}}

KeyIn(c, row, units) == Min(UnitsIn(c, row, units))

GaOf(c, row) == IF c.list = "flat" THEN Ga(row) ELSE row

ValueIn(c, row, name, times) ==
    CASE name = "group_id"     -> GaOf(c, row).group
      [] name = "artifact_id"  -> GaOf(c, row).artifact
      [] name = "last_updated" -> times[GaOf(c, row)]
      [] name = "version"      -> Place[row]

BeforeIn(c, a, b, times) ==
    LET terms == RowTerms(c)
        at(row, i) == ValueIn(c, row, terms[i].name, times)
    IN  \E i \in DOMAIN terms :
            /\ \A j \in 1 .. i - 1 : at(a, j) = at(b, j)
            /\ IF terms[i].desc THEN at(a, i) > at(b, i) ELSE at(a, i) < at(b, i)

IsList(c, all, units, times) ==
    /\ all \in SetToSeqs(RowsIn(c, units))
    /\ \A i, j \in DOMAIN all : i < j => ~BeforeIn(c, all[j], all[i], times)

Gas(units) == {Ga(u) : u \in units}

\* Parameters that a client may send, and what it may see.
IsRequest(c) == c.list \in {"flat", "packages"} /\ c.ordering \in Orderings \cup {<<>>}

Seeable == Package \cup Gas(Package)

LEMMA GasAreNumbers ==
    ASSUME NEW u \in Package
    PROVE  /\ Ga(u).group = Group[u] /\ Ga(u).artifact = Artifact[u]
           /\ Group[u] \in Nat /\ Artifact[u] \in Nat /\ Place[u] \in Nat /\ Created[u] \in Nat
BY CatalogAssumption DEF Ga

LEMMA GasDiffer ==
    ASSUME NEW u, NEW w, Ga(u) # Ga(w) PROVE Group[u] # Group[w] \/ Artifact[u] # Artifact[w]
BY DEF Ga

LEMMA ListedRows ==
    ASSUME NEW c, NEW units \in SUBSET Package, IsFiniteSet(units), NEW row \in RowsIn(c, units)
    PROVE  /\ row \in Seeable /\ GaOf(c, row) \in Gas(units)
           /\ UnitsIn(c, row, units) # {} /\ UnitsIn(c, row, units) \subseteq units
           /\ \A u \in UnitsIn(c, row, units) : GaOf(c, row) = Ga(u)
           /\ c.list = "flat" => row \in units
<1>1. CASE c.list = "flat"
  BY <1>1 DEF RowsIn, UnitsIn, GaOf, Gas, Seeable
<1>2. CASE c.list # "flat"
  <2>1. PICK u \in units : row = Ga(u)
    BY <1>2 DEF RowsIn
  <2> QED BY <1>2, <2>1 DEF UnitsIn, GaOf, Gas, Seeable
<1> QED BY <1>1, <1>2

LEMMA ListedFinite ==
    ASSUME NEW c, NEW units \in SUBSET Package, IsFiniteSet(units)
    PROVE  IsFiniteSet(RowsIn(c, units))
<1>1. CASE c.list = "flat"
  BY <1>1 DEF RowsIn
<1>2. CASE c.list # "flat"
  <2> DEFINE matching == {w \in units : Matches(Ga(w), c.search)}
             f == [u \in matching |-> Ga(u)]
  <2>1. IsFiniteSet(matching)
    BY FS_Subset
  <2>2. f \in Surjection(matching, RowsIn(c, units))
    BY <1>2 DEF Surjection, RowsIn
  <2> HIDE DEF matching, f
  <2> QED BY <2>1, <2>2, FS_Surjection
<1> QED BY <1>1, <1>2

\* The terms of a list are complete, and those of a flat list tell versions apart.
LEMMA TermsOfList ==
    ASSUME NEW c, IsRequest(c)
    PROVE  LET terms == RowTerms(c) IN
           /\ Len(terms) \in Nat /\ DOMAIN terms = 1 .. Len(terms)
           /\ \A i \in DOMAIN terms :
                 terms[i].name \in IF c.list = "flat" THEN FlatNames ELSE Field
           /\ \E i \in DOMAIN terms : terms[i].name = "group_id"
           /\ \E i \in DOMAIN terms : terms[i].name = "artifact_id"
           /\ c.list = "flat" => \E i \in DOMAIN terms : terms[i].name = "version"
<1>1. CASE c.list = "flat"
  <2> DEFINE terms == <<Term("group_id", FALSE), Term("artifact_id", FALSE),
                        Term("version", FALSE)>>
  <2>1. RowTerms(c) = terms
    BY <1>1 DEF RowTerms
  <2>2. Len(terms) = 3 /\ DOMAIN terms = 1 .. 3
    OBVIOUS
  <2>3. terms[1].name = "group_id" /\ terms[2].name = "artifact_id" /\ terms[3].name = "version"
    BY DEF Term
  <2> HIDE DEF terms
  <2>4. \A i \in 1 .. 3 : i = 1 \/ i = 2 \/ i = 3
    OBVIOUS
  <2> QED BY <1>1, <2>1, <2>2, <2>3, <2>4 DEF FlatNames
<1>2. CASE c.list # "flat"
  <2>1. c.ordering \in Seq(TermType)
    <3>1. \A terms \in Orderings : terms \in Seq(TermType)
      BY CatalogAssumption, Zenon DEF TermType
    <3>2. <<>> \in Seq(TermType)
      OBVIOUS
    <3> QED BY <3>1, <3>2 DEF IsRequest
  <2>2. RowTerms(c) = NormalizeOrdering(c.ordering)
    BY <1>2 DEF RowTerms
  <2>3. IsComplete(RowTerms(c))
    BY <2>1, <2>2, CompleteTerms
  <2> HIDE DEF RowTerms
  <2> DEFINE terms == RowTerms(c)
  <2>4. terms \in Seq(TermType)
    BY <2>3 DEF IsComplete
  <2>5. \A i \in DOMAIN terms : terms[i].name \in Field
    <3>1. \A i \in DOMAIN terms : terms[i] \in TermType
      BY <2>4
    <3>2. \A x \in TermType : x.name \in Field
      BY DEF TermType
    <3> QED BY <3>1, <3>2
  <2> QED BY <1>2, <2>3, <2>4, <2>5 DEF IsComplete
<1> QED BY <1>1, <1>2

\* The value of a row that a term compares is a number.
LEMMA ValueIsNumber ==
    ASSUME NEW c, NEW units \in SUBSET Package, IsFiniteSet(units), NEW row \in RowsIn(c, units),
           NEW times, \A ga \in Gas(units) : times[ga] \in Nat,
           NEW name \in IF c.list = "flat" THEN FlatNames ELSE Field
    PROVE  ValueIn(c, row, name, times) \in Nat
<1>1. PICK u \in units : GaOf(c, row) = Ga(u)
  BY ListedRows
<1>2. /\ GaOf(c, row).group \in Nat /\ GaOf(c, row).artifact \in Nat
      /\ times[GaOf(c, row)] \in Nat
  BY <1>1, GasAreNumbers, ListedRows
<1>3. c.list = "flat" => Place[row] \in Nat
  BY ListedRows, GasAreNumbers
<1> HIDE DEF GaOf
<1> QED BY <1>2, <1>3 DEF ValueIn, Field, FlatNames

\* Of two rows one comes before the other.
LEMMA OneComesFirst ==
    ASSUME NEW c, IsRequest(c), NEW units \in SUBSET Package, IsFiniteSet(units),
           NEW times, \A ga \in Gas(units) : times[ga] \in Nat,
           NEW a \in RowsIn(c, units), NEW b \in RowsIn(c, units), a # b
    PROVE  BeforeIn(c, a, b, times) \/ BeforeIn(c, b, a, times)
<1> DEFINE terms == RowTerms(c)
           at(row, i) == ValueIn(c, row, terms[i].name, times)
           T == {i \in DOMAIN terms : at(a, i) # at(b, i)}
<1>1. /\ Len(terms) \in Nat /\ DOMAIN terms = 1 .. Len(terms)
      /\ \A i \in DOMAIN terms : at(a, i) \in Nat /\ at(b, i) \in Nat
  <2>1. /\ Len(terms) \in Nat /\ DOMAIN terms = 1 .. Len(terms)
        /\ \A i \in DOMAIN terms :
              terms[i].name \in IF c.list = "flat" THEN FlatNames ELSE Field
    BY TermsOfList
  <2> HIDE DEF terms
  <2>2. \A i \in DOMAIN terms : at(a, i) \in Nat /\ at(b, i) \in Nat
    BY <2>1, ValueIsNumber
  <2> QED BY <2>1, <2>2
<1>2. T # {}
  <2>1. PICK g \in DOMAIN terms, f \in DOMAIN terms :
               terms[g].name = "group_id" /\ terms[f].name = "artifact_id"
    BY TermsOfList
  <2>2. /\ at(a, g) = GaOf(c, a).group /\ at(b, g) = GaOf(c, b).group
        /\ at(a, f) = GaOf(c, a).artifact /\ at(b, f) = GaOf(c, b).artifact
    <3> HIDE DEF terms
    <3> QED BY <2>1 DEF ValueIn
  <2>3. CASE c.list # "flat"
    <3>1. PICK u \in units, w \in units : a = Ga(u) /\ b = Ga(w)
      BY <2>3 DEF RowsIn
    <3>2. GaOf(c, a) = Ga(u) /\ GaOf(c, b) = Ga(w)
      BY <2>3, <3>1 DEF GaOf
    <3>3. Group[u] # Group[w] \/ Artifact[u] # Artifact[w]
      BY <3>1, GasDiffer
    <3>4. at(a, g) # at(b, g) \/ at(a, f) # at(b, f)
      BY <2>2, <3>2, <3>3, GasAreNumbers
    <3> HIDE DEF at, terms
    <3> QED BY <3>4
  <2>4. CASE c.list = "flat"
    <3>1. a \in units /\ b \in units /\ a \in Package /\ b \in Package
      BY <2>4, ListedRows
    <3>2. GaOf(c, a) = Ga(a) /\ GaOf(c, b) = Ga(b)
      BY <2>4 DEF GaOf
    <3>3. PICK v \in DOMAIN terms : terms[v].name = "version"
      BY <2>4, TermsOfList
    <3>4. at(a, v) = Place[a] /\ at(b, v) = Place[b]
      <4> HIDE DEF terms
      <4> QED BY <3>3 DEF ValueIn
    <3>5. Group[a] # Group[b] \/ Artifact[a] # Artifact[b] \/ Place[a] # Place[b]
      <4> SUFFICES ASSUME Group[a] = Group[b], Artifact[a] = Artifact[b], Place[a] = Place[b]
                   PROVE  FALSE
        OBVIOUS
      <4>1. Version[a] = Version[b]
        BY <3>1, CatalogAssumption
      <4>2. <<Group[a], Artifact[a], Version[a]>> = <<Group[b], Artifact[b], Version[b]>>
        BY <4>1
      <4>3. a = b
        BY <3>1, <4>2, CatalogAssumption
      <4> QED BY <4>3
    <3>6. at(a, g) # at(b, g) \/ at(a, f) # at(b, f) \/ at(a, v) # at(b, v)
      BY <2>2, <3>1, <3>2, <3>4, <3>5, GasAreNumbers
    <3> HIDE DEF at, terms
    <3> QED BY <3>6
  <2> QED BY <2>3, <2>4
<1>3. T \in SUBSET Nat
  <2> HIDE DEF at, terms
  <2> QED BY <1>1
<1>4. PICK i \in T : \A y \in T : i <= y
  <2> HIDE DEF T
  <2> QED BY <1>2, <1>3, LeastNumber
<1>5. /\ i \in DOMAIN terms /\ at(a, i) # at(b, i)
      /\ \A j \in 1 .. i - 1 : at(a, j) = at(b, j)
  <2> HIDE DEF at, terms
  <2> QED BY <1>1, <1>4
<1>6. at(a, i) < at(b, i) \/ at(b, i) < at(a, i)
  <2> HIDE DEF at, terms
  <2> QED BY <1>1, <1>5
<1> HIDE DEF T
<1>7. BeforeIn(c, a, b, times) <=>
        \E k \in DOMAIN terms :
            /\ \A j \in 1 .. k - 1 : at(a, j) = at(b, j)
            /\ IF terms[k].desc THEN at(a, k) > at(b, k) ELSE at(a, k) < at(b, k)
  BY DEF BeforeIn
<1>8. BeforeIn(c, b, a, times) <=>
        \E k \in DOMAIN terms :
            /\ \A j \in 1 .. k - 1 : at(b, j) = at(a, j)
            /\ IF terms[k].desc THEN at(b, k) > at(a, k) ELSE at(b, k) < at(a, k)
  BY DEF BeforeIn
<1> HIDE DEF at, terms
<1> QED BY <1>1, <1>5, <1>6, <1>7, <1>8

\* A list of a version has one order.
LEMMA ListIsUnique ==
    ASSUME NEW c, IsRequest(c), NEW units \in SUBSET Package, IsFiniteSet(units),
           NEW times, \A ga \in Gas(units) : times[ga] \in Nat,
           NEW s, IsList(c, s, units, times), NEW t, IsList(c, t, units, times)
    PROVE  s = t
<1> DEFINE S == RowsIn(c, units)
           after == [a \in S |-> {b \in S : BeforeIn(c, a, b, times)}]
<1>1. IsFiniteSet(S) /\ s \in SetToSeqs(S) /\ t \in SetToSeqs(S)
  BY ListedFinite DEF IsList
<1>2. \A a, b \in S : a # b => BeforeIn(c, a, b, times) \/ BeforeIn(c, b, a, times)
  BY OneComesFirst
<1> HIDE DEF S
<1>3. Separates(after, S)
  BY <1>2 DEF Separates
<1>4. /\ \A i \in DOMAIN s : s[i] \in S
      /\ \A i \in DOMAIN t : t[i] \in S
  BY <1>1 DEF SetToSeqs
<1>5. InOrderOf(after, s) /\ InOrderOf(after, t)
  BY <1>4 DEF IsList, InOrderOf
<1> HIDE DEF after
<1> QED BY <1>1, <1>3, <1>5, OrderIsUnique

-----------------------------------------------------------------------------
(* What the queries of a list return from the rows.                         *)

LEMMA MaxIsGreatest ==
    ASSUME NEW S \in SUBSET Nat, IsFiniteSet(S), S # {}
    PROVE  Max(S) \in S /\ \A y \in S : y <= Max(S)
<1>1. PICK z \in S : IsLast(Greater, S, z)
  BY GreaterIsStrict, LastElement
<1>2. \A y \in S : y <= z
  <2>1. \A y \in S : y \in Nat
    OBVIOUS
  <2>2. \A y \in Nat : z < y => y \in Greater[z]
    BY <2>1 DEF Greater
  <2> QED BY <1>1, <2>1, <2>2 DEF IsLast
<1>3. Max(S) = z
  BY <1>2, MaxIsUnique
<1> QED BY <1>2, <1>3

\* A modify writes a row for a unit of its upload.
LEMMA FiniteStep == ASSUME IsFiniteSet(rows), [CatalogNext]_catalogVars PROVE IsFiniteSet(rows')
<1>1. ASSUME NEW units \in Uploads, Draft(units) PROVE IsFiniteSet(rows')
  <2> DEFINE new == Number + 1
             kept == {row \in rows : row.removed # Present \/ row.unit \in units}
             rest == rows \ kept
             gone == {[row EXCEPT !.removed = new] : row \in rest}
             added == units \ Content(Number)
             fresh == {[unit |-> u, added |-> new, removed |-> Present, at |-> clock'] : u \in added}
             f == [row \in rest |-> [row EXCEPT !.removed = new]]
             g == [u \in added |-> [unit |-> u, added |-> new, removed |-> Present, at |-> clock']]
  <2>1. rows' = kept \cup gone \cup fresh
    BY <1>1 DEF Draft
  <2>2. IsFiniteSet(kept) /\ IsFiniteSet(rest)
    BY FS_Subset
  <2>3. IsFiniteSet(units)
    BY CatalogAssumption
  <2>4. IsFiniteSet(added)
    BY <2>3, FS_Subset
  <2>5. f \in Surjection(rest, gone)
    <3> HIDE DEF rest
    <3> QED BY DEF Surjection
  <2>6. g \in Surjection(added, fresh)
    <3> HIDE DEF added, new
    <3> QED BY DEF Surjection
  <2> HIDE DEF kept, rest, gone, added, fresh, f, g
  <2>7. IsFiniteSet(gone)
    BY <2>2, <2>5, FS_Surjection
  <2>8. IsFiniteSet(fresh)
    BY <2>4, <2>6, FS_Surjection
  <2>9. IsFiniteSet(kept \cup gone)
    BY <2>2, <2>7, FS_Union
  <2>10. IsFiniteSet((kept \cup gone) \cup fresh)
    BY <2>8, <2>9, FS_Union
  <2> QED BY <2>1, <2>10
<1>2. ASSUME Abort PROVE IsFiniteSet(rows')
  <2> DEFINE stay == {r \in rows : r.added # Number + 1}
             Back(row) == [row EXCEPT !.removed = IF @ = Number + 1 THEN Present ELSE @]
             back == {Back(row) : row \in stay}
             f == [row \in stay |-> Back(row)]
  <2>1. rows' = back
    BY <1>2 DEF Abort
  <2>2. IsFiniteSet(stay)
    BY FS_Subset
  <2> HIDE DEF Back
  <2>3. f \in Surjection(stay, back)
    <3> HIDE DEF stay
    <3> QED BY DEF Surjection
  <2> HIDE DEF stay, back, f
  <2> QED BY <2>1, <2>2, <2>3, FS_Surjection
<1>3. ASSUME rows' = rows PROVE IsFiniteSet(rows')
  BY <1>3
<1> QED
  BY <1>1, <1>2, <1>3
     DEF CatalogNext, Complete, Begin, ByCursor, ByOffset, NextPage, catalogVars

LEMMA RowsAreFinite == CatalogSpec => []IsFiniteSet(rows)
<1>1. CatalogInit => IsFiniteSet(rows)
  BY FS_EmptySet DEF CatalogInit
<1>2. IsFiniteSet(rows) /\ [CatalogNext]_catalogVars => IsFiniteSet(rows)'
  BY FiniteStep
<1> QED
  BY <1>1, <1>2, PTL DEF CatalogSpec

\* When the packages of a version came in, by group and artifact.
Times(n) ==
    [ga \in Gas(Content(n)) |-> Max({Entered(w, n) : w \in OfGa(Content(n), ga)})]

\* The units of a version, from its rows.
LEMMA VersionUnits ==
    ASSUME RowsInv, IsFiniteSet(rows), NEW n \in 0 .. Number
    PROVE  /\ PackagesInVersion(n) = Content(n) /\ Content(n) \in SUBSET Package
           /\ IsFiniteSet(Content(n))
<1>1. Number \in Nat /\ \A row \in rows : row.added \in Nat \ {0} /\ row.unit \in Package
  BY NumberIsNat DEF RowsInv, RecordsInv, Row
<1>2. PackagesInVersion(n) = Content(n)
  <2>1. CASE n = 0
    BY <1>1, <2>1 DEF PackagesInVersion, MembershipsInVersion, InVersionBounds, Content
  <2>2. CASE n \in 1 .. Number
    BY <2>2, RowsTellMembership DEF MembershipIsExact
  <2> QED BY <1>1, <2>1, <2>2
<1>3. PackagesInVersion(n) \in SUBSET Package
  BY <1>1 DEF PackagesInVersion, MembershipsInVersion
<1> DEFINE some == MembershipsInVersion(n)
           f == [row \in some |-> row.unit]
<1>4. IsFiniteSet(some)
  BY FS_Subset DEF MembershipsInVersion
<1>5. f \in Surjection(some, PackagesInVersion(n))
  <2> HIDE DEF MembershipsInVersion
  <2> QED BY DEF Surjection, PackagesInVersion
<1>6. IsFiniteSet(PackagesInVersion(n))
  <2> HIDE DEF some, f
  <2> QED BY <1>4, <1>5, FS_Surjection
<1> QED BY <1>2, <1>3, <1>6

LEMMA VersionTimes ==
    ASSUME RowsInv, IsFiniteSet(rows), NEW n \in 0 .. Number, NEW ga \in Gas(Content(n))
    PROVE  LastUpdated(ga, n) = Times(n)[ga] /\ Times(n)[ga] \in Nat
<1>1. PICK u \in Content(n) : ga = Ga(u)
  BY DEF Gas
<1>2. n \in 1 .. Number
  BY <1>1, NumberIsNat DEF Content, RowsInv
<1> DEFINE units == OfGa(Content(n), ga)
           entries == {Entered(w, n) : w \in units}
           f == [w \in units |-> Entered(w, n)]
<1>3. LastUpdated(ga, n) = Max(entries) /\ Times(n)[ga] = Max(entries)
  BY <1>1, <1>2, RowsTellMembership DEF MembershipIsExact, Times
<1>4. u \in units /\ units \subseteq Content(n)
  BY <1>1 DEF OfGa
<1>5. IsFiniteSet(Content(n))
  BY VersionUnits
<1>6. IsFiniteSet(units)
  <2> HIDE DEF units
  <2> QED BY <1>4, <1>5, FS_Subset
<1>7. \A w \in Content(n) : Entered(w, n) \in Nat
  <2> SUFFICES ASSUME NEW w \in Content(n) PROVE Entered(w, n) \in Nat
    OBVIOUS
  <2>1. PICK row \in MembershipsInVersion(n) : row.unit = w
    BY <1>2, ContentHasRows
  <2> QED BY <1>2, <2>1, RowsTellTimes
<1> HIDE DEF units
<1>8. entries \in SUBSET Nat /\ entries # {}
  BY <1>4, <1>7
<1>9. f \in Surjection(units, entries)
  BY DEF Surjection
<1> HIDE DEF entries, f
<1>10. IsFiniteSet(entries)
  BY <1>6, <1>9, FS_Surjection
<1>11. Max(entries) \in Nat
  BY <1>8, <1>10, MaxIsGreatest
<1> QED BY <1>3, <1>11

\* What the queries of a list return, from the content of the version.
LEMMA QueriesOfList ==
    ASSUME RowsInv, IsFiniteSet(rows), NEW n \in 0 .. Number, NEW c
    PROVE  /\ Rows(c, n) = RowsIn(c, Content(n))
           /\ \A row \in Rows(c, n) : CursorKey(c, row, n) = KeyIn(c, row, Content(n))
           /\ IsRequest(c) => \A s \in Ordered(c, n) : IsList(c, s, Content(n), Times(n))
<1>1. PackagesInVersion(n) = Content(n) /\ Content(n) \in SUBSET Package /\ IsFiniteSet(Content(n))
  BY VersionUnits
<1>2. Rows(c, n) = RowsIn(c, Content(n))
  BY <1>1 DEF Rows, RowsIn, Selected
<1>3. ASSUME NEW row \in Rows(c, n) PROVE CursorKey(c, row, n) = KeyIn(c, row, Content(n))
  <2>1. CASE c.list = "flat"
    <3>1. row \in Content(n) /\ row \in Nat
      BY <1>1, <1>2, <2>1, CatalogAssumption DEF RowsIn
    <3>2. UnitsIn(c, row, Content(n)) = {row}
      BY <2>1, <3>1 DEF UnitsIn
    <3>3. Min({row}) = row
      BY <3>1, MinOfOne
    <3> QED BY <2>1, <3>2, <3>3 DEF CursorKey, KeyIn
  <2>2. CASE c.list # "flat"
    <3>1. PICK w \in Content(n) : row = Ga(w) /\ Matches(Ga(w), c.search)
      BY <1>2, <1>3, <2>2 DEF RowsIn
    <3>2. OfGa(Selected(n, c.search), row) = UnitsIn(c, row, Content(n))
      BY <1>1, <2>2, <3>1 DEF OfGa, Selected, UnitsIn
    <3> QED BY <2>2, <3>2 DEF CursorKey, KeyIn
  <2> QED BY <2>1, <2>2
<1>4. ASSUME NEW a \in Rows(c, n), NEW b \in Rows(c, n), IsRequest(c), BeforeIn(c, a, b, Times(n))
      PROVE  Before(c, a, b, n)
  <2>1. GaOf(c, a) \in Gas(Content(n)) /\ GaOf(c, b) \in Gas(Content(n))
    BY <1>1, <1>2, ListedRows
  <2>2. /\ LastUpdated(GaOf(c, a), n) = Times(n)[GaOf(c, a)]
        /\ LastUpdated(GaOf(c, b), n) = Times(n)[GaOf(c, b)]
    BY <2>1, VersionTimes
  <2>3. \A name : ValueIn(c, a, name, Times(n)) = Value(c, a, name, n)
    BY <2>2 DEF ValueIn, Value, GaOf
  <2>4. \A name : ValueIn(c, b, name, Times(n)) = Value(c, b, name, n)
    BY <2>2 DEF ValueIn, Value, GaOf
  <2> QED BY <1>4, <2>3, <2>4 DEF Before, BeforeIn
<1>5. ASSUME IsRequest(c), NEW s \in Ordered(c, n) PROVE IsList(c, s, Content(n), Times(n))
  <2>1. s \in SetToSeqs(Rows(c, n)) /\ \A i, j \in DOMAIN s : i < j => ~Before(c, s[j], s[i], n)
    BY DEF Ordered, Orders
  <2>2. \A i \in DOMAIN s : s[i] \in Rows(c, n)
    BY <2>1 DEF SetToSeqs
  <2> QED BY <1>2, <1>4, <1>5, <2>1, <2>2 DEF IsList
<1> QED BY <1>2, <1>3, <1>5

-----------------------------------------------------------------------------
(* Pages.                                                                   *)

\* A client has seen a row in one place, or nowhere.
Once(seq, row) ==
    \E i \in DOMAIN seq : seq[i] = row /\ \A j \in DOMAIN seq : seq[j] = row => j = i

Absent(seq, row) == \A i \in DOMAIN seq : seq[i] # row

\* The first rows of a list.
UpTo(all, k) == SubSeq(all, 1, IF k <= Len(all) THEN k ELSE Len(all))

LEMMA AppendedRows ==
    ASSUME NEW X, NEW s \in Seq(X), NEW t \in Seq(X)
    PROVE  /\ s \o t \in Seq(X) /\ Len(s \o t) = Len(s) + Len(t)
           /\ DOMAIN (s \o t) = 1 .. Len(s) + Len(t)
           /\ \A i \in 1 .. Len(s) : (s \o t)[i] = s[i]
           /\ \A i \in 1 .. Len(t) : (s \o t)[Len(s) + i] = t[i]
           /\ \A k \in 1 .. Len(s) + Len(t) :
                 k \in 1 .. Len(s) \/ \E i \in 1 .. Len(t) : k = Len(s) + i
<1>1. ASSUME NEW k \in 1 .. Len(s) + Len(t), k \notin 1 .. Len(s)
      PROVE  \E i \in 1 .. Len(t) : k = Len(s) + i
  <2>1. k - Len(s) \in 1 .. Len(t) /\ k = Len(s) + (k - Len(s))
    BY <1>1
  <2> QED BY <2>1
<1>2. s \o t \in Seq(X) /\ Len(s \o t) = Len(s) + Len(t)
  OBVIOUS
<1>3. DOMAIN (s \o t) = 1 .. Len(s) + Len(t)
  OBVIOUS
<1>4. \A i \in 1 .. Len(s) : (s \o t)[i] = s[i]
  OBVIOUS
<1>5. \A i \in 1 .. Len(t) : (s \o t)[Len(s) + i] = t[i]
  OBVIOUS
<1> QED BY <1>1, <1>2, <1>3, <1>4, <1>5, Zenon

LEMMA OnceKept ==
    ASSUME NEW X, NEW s \in Seq(X), NEW t \in Seq(X), NEW row, Once(s, row), Absent(t, row)
    PROVE  Once(s \o t, row)
<1>1. PICK i \in 1 .. Len(s) : s[i] = row /\ \A j \in 1 .. Len(s) : s[j] = row => j = i
  BY DEF Once
<1>2. \A j \in 1 .. Len(t) : t[j] # row
  BY DEF Absent
<1> DEFINE st == s \o t
<1>3. /\ DOMAIN st = 1 .. Len(s) + Len(t)
      /\ \A k \in 1 .. Len(s) : st[k] = s[k]
      /\ \A k \in 1 .. Len(t) : st[Len(s) + k] = t[k]
      /\ \A k \in 1 .. Len(s) + Len(t) : k \in 1 .. Len(s) \/ \E m \in 1 .. Len(t) : k = Len(s) + m
  BY AppendedRows
<1>4. Len(s) \in Nat /\ Len(t) \in Nat
  OBVIOUS
<1> HIDE DEF st
<1>5. i \in DOMAIN st
  BY <1>1, <1>3, <1>4
<1>6. st[i] = row
  BY <1>1, <1>3
<1>7. ASSUME NEW k \in 1 .. Len(s) + Len(t), st[k] = row PROVE k = i
  <2>1. CASE k \in 1 .. Len(s)
    BY <1>1, <1>3, <1>7, <2>1
  <2>2. CASE k \notin 1 .. Len(s)
    <3>1. PICK m \in 1 .. Len(t) : k = Len(s) + m
      BY <1>3, <2>2
    <3> QED BY <1>2, <1>3, <1>7, <3>1
  <2> QED BY <2>1, <2>2
<1> QED BY <1>3, <1>5, <1>6, <1>7 DEF Once, st

LEMMA OnceAdded ==
    ASSUME NEW X, NEW s \in Seq(X), NEW t \in Seq(X), NEW row, Absent(s, row), Once(t, row)
    PROVE  Once(s \o t, row)
<1>1. PICK i \in 1 .. Len(t) : t[i] = row /\ \A j \in 1 .. Len(t) : t[j] = row => j = i
  BY DEF Once
<1>2. \A j \in 1 .. Len(s) : s[j] # row
  BY DEF Absent
<1> DEFINE st == s \o t
<1>3. /\ DOMAIN st = 1 .. Len(s) + Len(t)
      /\ \A k \in 1 .. Len(s) : st[k] = s[k]
      /\ \A k \in 1 .. Len(t) : st[Len(s) + k] = t[k]
      /\ \A k \in 1 .. Len(s) + Len(t) : k \in 1 .. Len(s) \/ \E m \in 1 .. Len(t) : k = Len(s) + m
  BY AppendedRows
<1>4. Len(s) \in Nat /\ Len(t) \in Nat
  OBVIOUS
<1> HIDE DEF st
<1>5. Len(s) + i \in DOMAIN st
  BY <1>1, <1>3, <1>4
<1>6. st[Len(s) + i] = row
  BY <1>1, <1>3
<1>7. ASSUME NEW k \in 1 .. Len(s) + Len(t), st[k] = row PROVE k = Len(s) + i
  <2>1. k \notin 1 .. Len(s)
    BY <1>2, <1>3, <1>7
  <2>2. PICK m \in 1 .. Len(t) : k = Len(s) + m
    BY <1>3, <2>1
  <2>3. t[m] = row
    BY <1>3, <1>7, <2>2
  <2> QED BY <1>1, <2>2, <2>3
<1> QED BY <1>3, <1>5, <1>6, <1>7 DEF Once, st

LEMMA AbsentKept ==
    ASSUME NEW X, NEW s \in Seq(X), NEW t \in Seq(X), NEW row, Absent(s, row), Absent(t, row)
    PROVE  Absent(s \o t, row)
<1>1. /\ \A j \in 1 .. Len(s) : s[j] # row
      /\ \A j \in 1 .. Len(t) : t[j] # row
  BY DEF Absent
<1> DEFINE st == s \o t
<1>2. /\ DOMAIN st = 1 .. Len(s) + Len(t)
      /\ \A k \in 1 .. Len(s) : st[k] = s[k]
      /\ \A k \in 1 .. Len(t) : st[Len(s) + k] = t[k]
      /\ \A k \in 1 .. Len(s) + Len(t) : k \in 1 .. Len(s) \/ \E m \in 1 .. Len(t) : k = Len(s) + m
  BY AppendedRows
<1> HIDE DEF st
<1>3. \A k \in 1 .. Len(s) + Len(t) : st[k] # row
  BY <1>1, <1>2
<1> QED BY <1>2, <1>3 DEF Absent, st

LEMMA MinOfTwo == ASSUME NEW a \in Nat, NEW b \in Nat PROVE Min({a, b}) = IF a <= b THEN a ELSE b
<1>1. Min({a, b}) \in {a, b} /\ Min({a, b}) <= a /\ Min({a, b}) <= b
  BY MinIsLeast
<1> QED BY <1>1

\* A page is the part of its list that follows a position.
LEMMA SliceRows ==
    ASSUME NEW X, NEW all \in Seq(X), NEW from \in Nat
    PROVE  /\ Slice(all, from) \in Seq(X)
           /\ Len(Slice(all, from)) = IF from + PageSize <= Len(all) THEN PageSize
                                      ELSE IF from <= Len(all) THEN Len(all) - from ELSE 0
           /\ \A i \in 1 .. Len(Slice(all, from)) : Slice(all, from)[i] = all[from + i]
<1> DEFINE m == IF from + PageSize <= Len(all) THEN from + PageSize ELSE Len(all)
<1>1. PageSize \in Nat \ {0} /\ Len(all) \in Nat
  BY CatalogAssumption
<1>2. Min({from + PageSize, Len(all)}) = m
  BY <1>1, MinOfTwo
<1>3. Slice(all, from) = SubSeq(all, from + 1, m)
  BY <1>2 DEF Slice
<1>4. m \in Nat /\ m <= Len(all)
  BY <1>1
<1>5. SubSeq(all, from + 1, m) \in Seq(X)
  <2> HIDE DEF m
  <2> QED BY <1>1, <1>4, SubSeqProperties
<1>6. Len(SubSeq(all, from + 1, m)) = IF from + 1 <= m THEN m - from ELSE 0
  <2> HIDE DEF m
  <2> QED BY <1>1, <1>4
<1>7. \A i \in 1 .. Len(SubSeq(all, from + 1, m)) : SubSeq(all, from + 1, m)[i] = all[from + i]
  <2> HIDE DEF m
  <2> QED BY <1>1, <1>4, <1>6
<1>8. Len(Slice(all, from)) = IF from + PageSize <= Len(all) THEN PageSize
                                      ELSE IF from <= Len(all) THEN Len(all) - from ELSE 0
  BY <1>1, <1>3, <1>6
<1> HIDE DEF m
<1> QED BY <1>3, <1>5, <1>7, <1>8

\* By limit and offset one page after the other is the list.
LEMMA OffsetPage ==
    ASSUME NEW X, NEW all \in Seq(X), NEW from \in Nat
    PROVE  UpTo(all, from) \o Slice(all, from) = UpTo(all, from + PageSize)
<1> DEFINE p == Slice(all, from)
           k == IF from <= Len(all) THEN from ELSE Len(all)
           m == IF from + PageSize <= Len(all) THEN from + PageSize ELSE Len(all)
<1>1. PageSize \in Nat \ {0} /\ Len(all) \in Nat
  BY CatalogAssumption
<1>2. k \in Nat /\ m \in Nat /\ k <= m /\ m <= Len(all)
  BY <1>1
<1>3. UpTo(all, from) = SubSeq(all, 1, k) /\ UpTo(all, from + PageSize) = SubSeq(all, 1, m)
  BY DEF UpTo
<1>4. p \in Seq(X) /\ Len(p) = m - k /\ \A i \in 1 .. Len(p) : p[i] = all[k + i]
  <2> DEFINE rest == IF from + PageSize <= Len(all) THEN PageSize
                     ELSE IF from <= Len(all) THEN Len(all) - from ELSE 0
  <2>1. p \in Seq(X) /\ Len(p) = m - k
    <3>1. p \in Seq(X) /\ Len(p) = rest
      BY SliceRows, Zenon
    <3>2. \A a, b \in Nat, q \in Nat \ {0} :
             (IF a + q <= b THEN q ELSE IF a <= b THEN b - a ELSE 0)
               = (IF a + q <= b THEN a + q ELSE b) - (IF a <= b THEN a ELSE b)
      OBVIOUS
    <3>3. rest = m - k
      BY <1>1, <3>2, Zenon
    <3> QED BY <3>1, <3>3
  <2> HIDE DEF rest
  <2>2. Len(p) # 0 => k = from
    BY <1>1, <2>1
  <2>3. \A i \in 1 .. Len(p) : p[i] = all[from + i]
    BY SliceRows
  <2> HIDE DEF p, k, m
  <2> QED BY <1>2, <2>1, <2>2, <2>3
<1> HIDE DEF k, m, p
<1> DEFINE s == SubSeq(all, 1, k)
           t == SubSeq(all, 1, m)
<1>5. /\ s \in Seq(X) /\ Len(s) = k /\ \A i \in 1 .. k : s[i] = all[i]
      /\ t \in Seq(X) /\ Len(t) = m /\ \A i \in 1 .. m : t[i] = all[i]
  BY <1>1, <1>2
<1> HIDE DEF s, t
<1> DEFINE u == s \o p
<1>6. /\ u \in Seq(X) /\ Len(u) = m
      /\ \A i \in 1 .. k : u[i] = s[i]
      /\ \A i \in 1 .. Len(p) : u[k + i] = p[i]
  <2>1. /\ u \in Seq(X) /\ Len(u) = Len(s) + Len(p)
        /\ \A i \in 1 .. Len(s) : u[i] = s[i]
        /\ \A i \in 1 .. Len(p) : u[Len(s) + i] = p[i]
    <3>1. s \in Seq(X) /\ p \in Seq(X)
      BY <1>4, <1>5
    <3> QED BY <3>1, AppendedRows
  <2> HIDE DEF u
  <2>2. Len(s) + Len(p) = m
    BY <1>2, <1>4, <1>5
  <2> QED BY <1>5, <2>1, <2>2
<1> HIDE DEF u
<1>7. \A i \in 1 .. m : u[i] = t[i]
  <2> SUFFICES ASSUME NEW i \in 1 .. m PROVE u[i] = t[i]
    OBVIOUS
  <2>1. CASE i <= k
    BY <1>2, <1>5, <1>6, <2>1
  <2>2. CASE i > k
    <3>1. i - k \in 1 .. Len(p) /\ k + (i - k) = i
      BY <1>2, <1>4, <2>2
    <3>2. u[i] = p[i - k] /\ p[i - k] = all[i]
      BY <1>4, <1>6, <3>1
    <3> QED BY <1>5, <3>2
  <2> QED BY <1>2, <2>1, <2>2
<1>8. u = t
  BY <1>5, <1>6, <1>7
<1> QED BY <1>3, <1>8 DEF u, s, t, p

\* Keys tell rows apart, and a query sorts by them.
AreKeys(key, S) == \A a, b \in S : key[a] = key[b] => a = b

InOrder(key, ahead) == \A i, j \in DOMAIN ahead : i < j => ~(key[ahead[j]] < key[ahead[i]])

\* A page by cursor has the rows up to its last key.
LEMMA CursorPage ==
    ASSUME NEW S, IsFiniteSet(S), NEW key \in [S -> Nat], AreKeys(key, S),
           NEW ahead \in SetToSeqs(S), InOrder(key, ahead)
    PROVE  LET page == Slice(ahead, 0) IN
           /\ page \in Seq(S)
           /\ page = <<>> => S = {} /\ Len(ahead) <= PageSize
           /\ page # <<>> => Last(page) \in S
           /\ \A row \in S : IF Len(ahead) <= PageSize \/ key[row] <= key[Last(page)]
                             THEN Once(page, row) ELSE Absent(page, row)
<1> DEFINE page == Slice(ahead, 0)
<1>1. /\ ahead \in Seq(S) /\ DOMAIN ahead = 1 .. Len(ahead) /\ Len(ahead) \in Nat
      /\ \A i, j \in DOMAIN ahead : ahead[i] = ahead[j] => i = j
      /\ \A x \in S : \E i \in DOMAIN ahead : ahead[i] = x
      /\ \A i \in DOMAIN ahead : ahead[i] \in S
  BY OrderPlaces
<1>2. PageSize \in Nat \ {0}
  BY CatalogAssumption
<1>3. /\ page \in Seq(S)
      /\ Len(page) = IF PageSize <= Len(ahead) THEN PageSize ELSE Len(ahead)
      /\ \A i \in 1 .. Len(page) : page[i] = ahead[i]
  <2>1. /\ page \in Seq(S)
        /\ Len(page) = IF 0 + PageSize <= Len(ahead) THEN PageSize
                                      ELSE IF 0 <= Len(ahead) THEN Len(ahead) - 0 ELSE 0
        /\ \A i \in 1 .. Len(page) : page[i] = ahead[0 + i]
    <3>1. 0 \in Nat /\ ahead \in Seq(S)
      BY <1>1
    <3> QED BY <3>1, SliceRows
  <2> HIDE DEF page
  <2> QED BY <1>1, <1>2, <2>1
<1> HIDE DEF page
<1> DEFINE p == Len(page)
<1>4. p \in Nat /\ p <= Len(ahead) /\ DOMAIN page = 1 .. p
  BY <1>1, <1>2, <1>3
<1>5. page = <<>> => S = {} /\ Len(ahead) <= PageSize
  <2> SUFFICES ASSUME page = <<>> PROVE S = {} /\ Len(ahead) <= PageSize
    OBVIOUS
  <2>1. p = 0
    OBVIOUS
  <2>2. Len(ahead) = 0
    BY <1>1, <1>2, <1>3, <2>1
  <2> QED BY <1>1, <1>2, <2>2
<1>6. page # <<>> => p > 0 /\ Last(page) = ahead[p]
  <2> SUFFICES ASSUME page # <<>> PROVE p > 0 /\ Last(page) = ahead[p]
    OBVIOUS
  <2>1. p # 0
    BY <1>3
  <2> QED BY <1>3, <1>4, <2>1 DEF Last
<1>7. ASSUME NEW row \in S
      PROVE  IF Len(ahead) <= PageSize \/ key[row] <= key[Last(page)]
             THEN Once(page, row) ELSE Absent(page, row)
  <2>1. page # <<>>
    BY <1>5
  <2>2. PICK i \in 1 .. Len(ahead) : ahead[i] = row
    BY <1>1
  <2>3. p \in 1 .. Len(ahead) /\ Last(page) = ahead[p]
    BY <1>1, <1>4, <1>6, <2>1
  <2>4. CASE i <= p
    <3>1. Once(page, row)
      <4>1. page[i] = row /\ \A j \in 1 .. p : page[j] = row => j = i
        BY <1>1, <1>3, <1>4, <2>2, <2>4
      <4>2. i \in 1 .. p
        BY <1>4, <2>4
      <4> QED BY <1>4, <4>1, <4>2 DEF Once
    <3>2. key[row] <= key[Last(page)]
      <4>1. i = p \/ ~(key[ahead[p]] < key[ahead[i]])
        <5> HIDE DEF p
        <5>1. i \in DOMAIN ahead /\ p \in DOMAIN ahead
          BY <1>1, <2>3
        <5>2. p \in Nat /\ i \in Nat
          BY <1>1, <1>4
        <5>3. i = p \/ i < p
          BY <2>4, <5>2
        <5>4. \A x, y \in DOMAIN ahead : x < y => ~(key[ahead[y]] < key[ahead[x]])
          BY Zenon DEF InOrder
        <5> QED BY <5>1, <5>3, <5>4, Zenon
      <4>2. key[ahead[p]] \in Nat /\ key[ahead[i]] \in Nat
        BY <1>1, <2>3
      <4> QED BY <2>2, <2>3, <4>1, <4>2
    <3> QED BY <3>1, <3>2
  <2>5. CASE i > p
    <3>1. Absent(page, row)
      <4>1. ASSUME NEW j \in 1 .. p, page[j] = row PROVE FALSE
        <5>1. j \in DOMAIN ahead /\ i \in DOMAIN ahead /\ j # i
          BY <1>1, <1>4, <2>5
        <5>2. ahead[j] = ahead[i]
          BY <1>3, <2>2, <4>1
        <5> QED BY <1>1, <5>1, <5>2
      <4> QED BY <1>4, <4>1 DEF Absent
    <3>2. ~(Len(ahead) <= PageSize)
      BY <1>1, <1>2, <1>3, <2>2, <2>5
    <3>3. ~(key[row] <= key[Last(page)])
      <4>1. ~(key[ahead[i]] < key[ahead[p]])
        BY <1>1, <1>4, <2>3, <2>5 DEF InOrder
      <4>2. ahead[i] # ahead[p]
        BY <1>1, <1>4, <2>3, <2>5
      <4>3. key[ahead[i]] # key[ahead[p]]
        BY <1>1, <2>3, <4>2 DEF AreKeys
      <4>4. key[ahead[p]] \in Nat /\ key[ahead[i]] \in Nat
        BY <1>1, <2>3
      <4> QED BY <2>2, <2>3, <4>1, <4>3, <4>4
    <3> QED BY <3>1, <3>2, <3>3
  <2> QED BY <1>4, <2>4, <2>5
<1>8. page # <<>> => Last(page) \in S
  BY <1>1, <1>4, <1>6
<1> QED BY <1>3, <1>5, <1>7, <1>8 DEF page

-----------------------------------------------------------------------------
(* The client that follows the pages.                                       *)

IsCrawl(c) ==
    /\ c = [pc |-> c.pc, pinned |-> c.pinned, from |-> c.from, position |-> c.position,
            seen |-> c.seen, list |-> c.list, cursor |-> c.cursor, ordering |-> c.ordering,
            search |-> c.search]
    /\ IsRequest(c) /\ c.pc \in {"paging", "done"}
    /\ c.pinned \in (1 .. Number) \cup {Latest} /\ c.from \in 0 .. Number
    /\ c.position \in Nat /\ c.seen \in Seq(Seeable)

\* What a row stands for is the same in every version that the client may read.
Stays(c, row) ==
    \A n, m \in ReadVersions(c) : UnitsIn(c, row, Content(n)) = UnitsIn(c, row, Content(m))

\* The client is past a row.
Passed(c, row) == c.pc = "done" \/ KeyIn(c, row, Content(Requested(c))) <= c.position

\* By cursor the rows up to the position have been seen, if nobody changed them.
CursorInv(c) ==
    \A row \in RowsIn(c, Content(Requested(c))) :
        Stays(c, row) => IF Passed(c, row) THEN Once(c.seen, row) ELSE Absent(c.seen, row)

\* By limit and offset the list has been seen up to the position, if it is of one version.
OffsetInv(c) ==
    c.pinned # Latest \/ c.from = Number =>
        \/ c.pc = "paging" /\ c.position = 0 /\ c.seen = <<>>
        \/ \E all : /\ IsList(c, all, Content(Requested(c)), Times(Requested(c)))
                    /\ c.seen = UpTo(all, c.position)
                    /\ c.pc = "done" <=> Len(all) <= c.position

CrawlInv ==
    \/ crawl.pc = "idle"
    \/ IsCrawl(crawl) /\ IF crawl.cursor THEN CursorInv(crawl) ELSE OffsetInv(crawl)

LEMMA RequestedVersion ==
    ASSUME Number \in Nat, NEW c, IsCrawl(c)
    PROVE  /\ Requested(c) \in 0 .. Number /\ Requested(c) \in ReadVersions(c)
           /\ ReadVersions(c) \subseteq 0 .. Number
BY DEF IsCrawl, Requested, ReadVersions, Latest

Holds(c) == IsCrawl(c) /\ IF c.cursor THEN CursorInv(c) ELSE OffsetInv(c)

\* What holds of the client's next state, of the same versions.
LEMMA CrawlMoves ==
    ASSUME UNCHANGED history, NEW c, c = crawl', Holds(c) PROVE CrawlInv'
<1>1. Number' = Number /\ \A n : Content(n)' = Content(n)
  BY DEF Number, Content
<1>2. \A n : Times(n)' = Times(n)
  BY <1>1 DEF Times, Entered
<1>3. Requested(crawl)' = Requested(c) /\ ReadVersions(crawl)' = ReadVersions(c)
  BY <1>1 DEF Requested, ReadVersions
<1>4. \A row : Stays(crawl, row)' <=> Stays(c, row)
  BY <1>1, <1>3 DEF Stays
<1>5. IsCrawl(crawl)' <=> IsCrawl(c)
  BY <1>1 DEF IsCrawl
<1>6. \A row : Passed(crawl, row)' <=> Passed(c, row)
  BY <1>1, <1>3 DEF Passed
<1>7. CursorInv(c) => CursorInv(crawl)'
  BY <1>1, <1>3, <1>4, <1>6 DEF CursorInv
<1>8. OffsetInv(c) => OffsetInv(crawl)'
  BY <1>1, <1>2, <1>3 DEF OffsetInv
<1> QED BY <1>5, <1>7, <1>8 DEF CrawlInv, Holds

LEMMA CrawlFrame == ASSUME CrawlInv, UNCHANGED <<history, crawl>> PROVE CrawlInv'
<1>1. PICK c : c = crawl /\ c = crawl'
  OBVIOUS
<1>2. CASE c.pc = "idle"
  BY <1>1, <1>2 DEF CrawlInv
<1>3. CASE c.pc # "idle"
  <2>1. Holds(c)
    BY <1>1, <1>3 DEF CrawlInv, Holds
  <2> QED BY <1>1, <2>1, CrawlMoves
<1> QED BY <1>2, <1>3

LEMMA EntryExists ==
    ASSUME NEW n \in Nat, NEW w \in Content(n)
    PROVE  Max({k \in 1 .. n : w \in Content(k) /\ w \notin Content(k - 1)}) \in 1 .. n
<1> DEFINE entries == {k \in 1 .. n : w \in Content(k) /\ w \notin Content(k - 1)}
           T == {k \in 1 .. n : \A j \in k .. n : w \in Content(j)}
<1>1. w \notin Content(0)
  BY DEF Content
<1>2. n \in T
  BY <1>1
<1>3. T \in SUBSET Nat /\ T # {}
  BY <1>2
<1>4. PICK x \in T : \A y \in T : x <= y
  <2> HIDE DEF T
  <2> QED BY <1>3, LeastNumber
<1>5. x \in 1 .. n /\ \A j \in x .. n : w \in Content(j)
  BY <1>4
<1>6. x - 1 \notin T
  BY <1>4, <1>5
<1>7. w \notin Content(x - 1)
  <2>1. CASE x = 1
    BY <1>1, <2>1
  <2>2. CASE x # 1
    <3>1. x - 1 \in 1 .. n /\ \A j \in x - 1 .. n : j = x - 1 \/ j \in x .. n
      BY <1>5, <2>2
    <3> QED BY <1>5, <1>6, <3>1
  <2> QED BY <2>1, <2>2
<1>8. x \in entries /\ entries \in SUBSET (1 .. n)
  BY <1>5, <1>7
<1>9. entries \in SUBSET Nat /\ IsFiniteSet(entries)
  <2>1. IsFiniteSet(1 .. n)
    BY FS_Interval
  <2> HIDE DEF entries
  <2>2. IsFiniteSet(entries)
    BY <1>8, <2>1, FS_Subset
  <2> QED BY <1>8, <2>2
<1>10. Max(entries) \in entries
  <2> HIDE DEF entries
  <2> QED BY <1>8, <1>9, MaxIsGreatest
<1> QED BY <1>8, <1>10

\* A new version leaves what earlier ones hold, and when it came in.
LEMMA EarlierVersions ==
    ASSUME RowsInv, Complete
    PROVE  /\ Number \in Nat /\ Number' = Number + 1 /\ crawl' = crawl
           /\ \A n \in 0 .. Number : Content(n)' = Content(n) /\ Times(n)' = Times(n)
<1>1. /\ Number \in Nat /\ crawl' = crawl
      /\ history' = Append(history, [content |-> draft[1], at |-> clock])
  BY NumberIsNat DEF Complete, RowsInv
<1>2. Number' = Number + 1 /\ \A k \in 1 .. Number : history'[k] = history[k]
  <2> DEFINE X == [content : SUBSET Package, at : Nat]
             new == [content |-> draft[1], at |-> clock]
  <2>1. history \in Seq(X) /\ history' = Append(history, new)
    BY <1>1 DEF RowsInv, RecordsInv
  <2> HIDE DEF X, new
  <2> QED BY <2>1 DEF Number
<1>3. \A k \in 0 .. Number : Content(k)' = Content(k)
  <2>1. \A k \in 0 .. Number : k = 0 \/ k \in 1 .. Number
    BY <1>1
  <2> QED BY <1>2, <2>1 DEF Content
<1>4. ASSUME NEW n \in 0 .. Number PROVE Times(n)' = Times(n)
  <2>1. ASSUME NEW w \in Content(n) PROVE Entered(w, n)' = Entered(w, n)
    <3> DEFINE entries == {k \in 1 .. n : w \in Content(k) /\ w \notin Content(k - 1)}
    <3>1. Max(entries) \in 1 .. n
      BY <1>1, <2>1, EntryExists
    <3>2. entries' = entries
      <4>1. \A k \in 1 .. n : Content(k)' = Content(k) /\ Content(k - 1)' = Content(k - 1)
        BY <1>1, <1>3
      <4> QED BY <4>1
    <3>3. /\ Entered(w, n) = history[Max(entries)].at
          /\ Entered(w, n)' = history'[Max(entries')].at
      BY DEF Entered
    <3> DEFINE m == Max(entries)
    <3>4. Entered(w, n)' = history'[m].at
      BY <3>2, <3>3
    <3> HIDE DEF m, entries
    <3>5. m \in 1 .. Number
      BY <1>1, <3>1 DEF m
    <3>6. history'[m] = history[m]
      BY <1>2, <3>5
    <3>7. Entered(w, n) = history[m].at
      BY <3>3 DEF m
    <3> QED BY <3>4, <3>6, <3>7
  <2> DEFINE entered(ga) == {Entered(w, n) : w \in OfGa(Content(n), ga)}
  <2>2. Content(n)' = Content(n)
    BY <1>3
  <2>3. ASSUME NEW ga PROVE entered(ga)' = entered(ga)
    <3>1. OfGa(Content(n), ga)' = OfGa(Content(n), ga)
      BY <2>2 DEF OfGa
    <3>2. \A w \in OfGa(Content(n), ga) : Entered(w, n)' = Entered(w, n)
      BY <2>1 DEF OfGa
    <3> QED BY <3>1, <3>2
  <2>4. \A ga : Max(entered(ga))' = Max(entered(ga))
    BY <2>3
  <2>5. Gas(Content(n))' = Gas(Content(n))
    BY <2>2
  <2>6. /\ Times(n) = [ga \in Gas(Content(n)) |-> Max(entered(ga))]
        /\ Times(n)' = [ga \in Gas(Content(n))' |-> Max(entered(ga))']
    BY DEF Times
  <2> HIDE DEF entered
  <2> QED BY <2>4, <2>5, <2>6
<1> QED BY <1>1, <1>2, <1>3, <1>4
\* A row of packages that stay is in the list of every version.
LEMMA ListedKept ==
    ASSUME NEW c, NEW units, NEW others, NEW row \in RowsIn(c, units),
           UnitsIn(c, row, units) = UnitsIn(c, row, others)
    PROVE  row \in RowsIn(c, others)
<1>1. CASE c.list = "flat"
  BY <1>1 DEF RowsIn, UnitsIn
<1>2. CASE c.list # "flat"
  <2>1. PICK u \in units : row = Ga(u) /\ Matches(Ga(u), c.search)
    BY <1>2 DEF RowsIn
  <2>2. u \in UnitsIn(c, row, units)
    BY <1>2, <2>1 DEF UnitsIn
  <2>3. u \in others
    BY <2>2 DEF UnitsIn
  <2> QED BY <1>2, <2>1, <2>3 DEF RowsIn
<1> QED BY <1>1, <1>2

\* A version that completes meanwhile is one more to stay in.
LEMMA CrawlComplete == ASSUME RowsInv, CrawlInv, Complete PROVE CrawlInv'
<1>1. PICK c : c = crawl /\ c = crawl'
  BY EarlierVersions
<1>2. CASE c.pc = "idle"
  BY <1>1, <1>2 DEF CrawlInv
<1>3. CASE c.pc # "idle"
  <2>1. PICK N : N = Number
    OBVIOUS
  <2>2. /\ N \in Nat /\ Number' = N + 1
        /\ \A n \in 0 .. N : Content(n)' = Content(n) /\ Times(n)' = Times(n)
    BY <2>1, EarlierVersions
  <2>3. IsCrawl(c) /\ IF c.cursor THEN CursorInv(c) ELSE OffsetInv(c)
    BY <1>1, <1>3 DEF CrawlInv
  <2>4. c.pinned \in (1 .. N) \cup {Latest} /\ c.from \in 0 .. N
    BY <2>1, <2>3 DEF IsCrawl
  <2>5. IsCrawl(crawl)'
    <3>1. /\ c.pinned \in (1 .. N + 1) \cup {Latest} /\ c.from \in 0 .. N + 1
      BY <2>2, <2>4
    <3> QED BY <1>1, <2>2, <2>3, <3>1 DEF IsCrawl
  <2>6. /\ Requested(c) = IF c.pinned = Latest THEN N ELSE c.pinned
        /\ Requested(crawl)' = IF c.pinned = Latest THEN N + 1 ELSE c.pinned
        /\ ReadVersions(c) = IF c.pinned = Latest THEN c.from .. N ELSE {c.pinned}
        /\ ReadVersions(crawl)' = IF c.pinned = Latest THEN c.from .. N + 1 ELSE {c.pinned}
    BY <1>1, <2>1, <2>2 DEF Requested, ReadVersions
  <2>7. ASSUME CursorInv(c) PROVE CursorInv(crawl)'
    <3> DEFINE n == IF c.pinned = Latest THEN N ELSE c.pinned
               m == IF c.pinned = Latest THEN N + 1 ELSE c.pinned
               later == Content(m)'
    <3> SUFFICES ASSUME NEW row \in RowsIn(c, later), Stays(crawl, row)'
                 PROVE  IF Passed(crawl, row)' THEN Once(c.seen, row) ELSE Absent(c.seen, row)
      BY <1>1, <2>6 DEF CursorInv
    <3>1. /\ n \in 0 .. N /\ n \in ReadVersions(c) /\ ReadVersions(c) \subseteq 0 .. N
          /\ ReadVersions(c) \subseteq ReadVersions(crawl)' /\ m \in ReadVersions(crawl)'
      BY <2>2, <2>4, <2>6 DEF Latest
    <3> HIDE DEF n, m
    <3>2. \A i, j \in ReadVersions(crawl)' :
             UnitsIn(c, row, Content(i)') = UnitsIn(c, row, Content(j)')
      BY <1>1 DEF Stays
    <3>3. UnitsIn(c, row, later) = UnitsIn(c, row, Content(n))
      <4>1. UnitsIn(c, row, Content(m)') = UnitsIn(c, row, Content(n)')
        BY <3>1, <3>2
      <4> QED BY <2>2, <3>1, <4>1
    <3>4. Stays(c, row)
      <4>1. \A i \in ReadVersions(c) : Content(i)' = Content(i) /\ i \in ReadVersions(crawl)'
        BY <2>2, <3>1
      <4> QED BY <3>2, <4>1 DEF Stays
    <3> HIDE DEF later
    <3>5. row \in RowsIn(c, Content(n))
      BY <3>3, ListedKept
    <3>6. Passed(crawl, row)' <=> Passed(c, row)
      <4>1. Passed(crawl, row)' <=> c.pc = "done" \/ KeyIn(c, row, later) <= c.position
        BY <1>1, <2>6 DEF Passed, later, m
      <4>2. KeyIn(c, row, later) = KeyIn(c, row, Content(n))
        BY <3>3 DEF KeyIn
      <4> QED BY <2>6, <4>1, <4>2 DEF Passed, n
    <3>7. IF Passed(c, row) THEN Once(c.seen, row) ELSE Absent(c.seen, row)
      BY <2>6, <2>7, <3>4, <3>5 DEF CursorInv, n
    <3> QED BY <3>6, <3>7
  <2>8. ASSUME OffsetInv(c) PROVE OffsetInv(crawl)'
    <3>1. CASE c.pinned = Latest
      <4>1. c.from # Number'
        BY <2>2, <2>4
      <4> QED BY <1>1, <3>1, <4>1 DEF OffsetInv
    <3>2. CASE c.pinned # Latest
      <4> DEFINE n == c.pinned
      <4>1. n \in 0 .. N /\ Requested(c) = n /\ Requested(crawl)' = n
        BY <2>2, <2>4, <2>6, <3>2
      <4>2. Content(n)' = Content(n) /\ Times(n)' = Times(n)
        BY <2>2, <4>1
      <4>3. Content(Requested(crawl))' = Content(n) /\ Times(Requested(crawl))' = Times(n)
        BY <4>1, <4>2
      <4> HIDE DEF n
      <4> QED BY <1>1, <2>8, <3>2, <4>1, <4>3 DEF OffsetInv
    <3> QED BY <3>1, <3>2
  <2> QED BY <1>1, <2>3, <2>5, <2>7, <2>8 DEF CrawlInv
<1> QED BY <1>2, <1>3

LEMMA KeysOfRows ==
    ASSUME NEW c, NEW units \in SUBSET Package, IsFiniteSet(units), NEW row \in RowsIn(c, units)
    PROVE  /\ KeyIn(c, row, units) \in UnitsIn(c, row, units) /\ KeyIn(c, row, units) \in Nat \ {0}
<1>1. UnitsIn(c, row, units) # {} /\ UnitsIn(c, row, units) \subseteq units
  BY ListedRows
<1>2. units \subseteq Nat \ {0}
  BY CatalogAssumption
<1>3. UnitsIn(c, row, units) \in SUBSET Nat
  BY <1>1, <1>2
<1>4. KeyIn(c, row, units) \in UnitsIn(c, row, units)
  BY <1>1, <1>3, MinIsLeast DEF KeyIn
<1> QED BY <1>1, <1>2, <1>4

LEMMA KeysDiffer ==
    ASSUME NEW c, NEW units \in SUBSET Package, IsFiniteSet(units),
           NEW a \in RowsIn(c, units), NEW b \in RowsIn(c, units),
           KeyIn(c, a, units) = KeyIn(c, b, units)
    PROVE  a = b
<1>1. KeyIn(c, a, units) \in UnitsIn(c, a, units) /\ KeyIn(c, a, units) \in UnitsIn(c, b, units)
  BY KeysOfRows
<1> QED BY <1>1 DEF UnitsIn

LEMMA CrawlBegin ==
    ASSUME RowsInv, IsFiniteSet(rows),
           NEW parameters \in Crawls, NEW pinned, Begin(parameters, pinned)
    PROVE  CrawlInv'
<1>1. PICK c : c = crawl'
  OBVIOUS
<1>2. /\ c = [pc |-> "paging", pinned |-> pinned, from |-> Number, position |-> 0,
              seen |-> <<>>, list |-> parameters.list, cursor |-> parameters.cursor,
              ordering |-> parameters.ordering, search |-> parameters.search]
      /\ pinned \in (1 .. Number) \cup {Latest} /\ history' = history
  BY <1>1 DEF Begin
<1>3. /\ c.pc = "paging" /\ c.pinned = pinned /\ c.from = Number /\ c.position = 0
      /\ c.seen = <<>> /\ c.list = parameters.list /\ c.ordering = parameters.ordering
      /\ c.cursor = parameters.cursor /\ c.search = parameters.search
  BY <1>2
<1>4. c = [pc |-> c.pc, pinned |-> c.pinned, from |-> c.from, position |-> c.position,
            seen |-> c.seen, list |-> c.list, cursor |-> c.cursor, ordering |-> c.ordering,
            search |-> c.search]
  BY <1>2
<1>5. parameters.list \in {"flat", "packages"} /\ parameters.ordering \in Orderings \cup {<<>>}
  BY DEF Crawls
<1>6. Number \in Nat
  BY NumberIsNat DEF RowsInv
<1>7. IsCrawl(c)
  BY <1>2, <1>3, <1>4, <1>5, <1>6 DEF IsCrawl, IsRequest
<1>8. CursorInv(c)
  <2> SUFFICES ASSUME NEW row \in RowsIn(c, Content(Requested(c)))
               PROVE  IF Passed(c, row) THEN Once(c.seen, row) ELSE Absent(c.seen, row)
    BY DEF CursorInv
  <2>1. Requested(c) \in 0 .. Number
    BY <1>6, <1>7, RequestedVersion
  <2>2. Content(Requested(c)) \in SUBSET Package /\ IsFiniteSet(Content(Requested(c)))
    BY <2>1, VersionUnits
  <2>3. KeyIn(c, row, Content(Requested(c))) \in Nat \ {0}
    BY <2>2, KeysOfRows
  <2>4. ~Passed(c, row)
    BY <1>3, <2>3 DEF Passed
  <2>5. Absent(c.seen, row)
    BY <1>3 DEF Absent
  <2> QED BY <2>4, <2>5
<1>9. OffsetInv(c)
  BY <1>3 DEF OffsetInv
<1> QED BY <1>1, <1>2, <1>7, <1>8, <1>9, CrawlMoves DEF Holds

LEMMA CrawlByCursor ==
    ASSUME RowsInv, IsFiniteSet(rows), CrawlInv, ByCursor PROVE CrawlInv'
<1>1. PICK c : c = crawl
  OBVIOUS
<1>2. PICK d : d = crawl'
  OBVIOUS
<1>3. Holds(c) /\ c.pc = "paging" /\ c.cursor /\ CursorInv(c) /\ IsCrawl(c)
  BY <1>1 DEF ByCursor, CrawlInv, Holds
<1>4. PICK n : n = Requested(c)
  OBVIOUS
<1>5. n \in 0 .. Number /\ Number \in Nat
  BY <1>3, <1>4, RequestedVersion, NumberIsNat DEF RowsInv
<1>6. PICK units : units = Content(n)
  OBVIOUS
<1>7. units \in SUBSET Package /\ IsFiniteSet(units)
  BY <1>5, <1>6, VersionUnits
<1>8. /\ Rows(c, n) = RowsIn(c, units)
      /\ \A row \in RowsIn(c, units) : CursorKey(c, row, n) = KeyIn(c, row, units)
  BY <1>5, <1>6, QueriesOfList
<1> DEFINE S == {row \in RowsIn(c, units) : KeyIn(c, row, units) > c.position}
           key == [row \in S |-> KeyIn(c, row, units)]
<1>9. Following(c, n) = S
  BY <1>8 DEF Following
<1>10. PICK ahead \in SetToSeqs(S) :
          /\ \A i, j \in DOMAIN ahead :
                 i < j => ~(CursorKey(c, ahead[j], n) < CursorKey(c, ahead[i], n))
          /\ LET page == Slice(ahead, 0)
             IN  NextPage(page, IF page = <<>> THEN 0 ELSE CursorKey(c, Last(page), n),
                          Len(ahead) <= PageSize)
  BY <1>1, <1>4, <1>9 DEF ByCursor, Orders
<1>11. IsFiniteSet(S)
  <2>1. IsFiniteSet(RowsIn(c, units))
    BY <1>7, ListedFinite
  <2> QED BY <2>1, FS_Subset
<1>12. key \in [S -> Nat] /\ AreKeys(key, S)
  BY <1>7, KeysOfRows, KeysDiffer DEF AreKeys
<1>13. InOrder(key, ahead)
  <2>1. \A i \in DOMAIN ahead : ahead[i] \in S
    BY DEF SetToSeqs
  <2>2. \A row \in S : key[row] = CursorKey(c, row, n)
    BY <1>8
  <2> HIDE DEF S, key
  <2> QED BY <1>10, <2>1, <2>2 DEF InOrder
<1> DEFINE page == Slice(ahead, 0)
           last == Len(ahead) <= PageSize
           position == IF page = <<>> THEN 0 ELSE CursorKey(c, Last(page), n)
<1>14. /\ page \in Seq(S)
       /\ page = <<>> => S = {} /\ last
       /\ page # <<>> => Last(page) \in S
       /\ \A row \in S : IF last \/ key[row] <= key[Last(page)]
                         THEN Once(page, row) ELSE Absent(page, row)
  <2> HIDE DEF S, key
  <2> QED BY <1>11, <1>12, <1>13, CursorPage
<1>15. /\ d = [c EXCEPT !.seen = @ \o page, !.position = position,
                         !.pc = IF last THEN "done" ELSE "paging"]
       /\ history' = history
  BY <1>1, <1>2, <1>10 DEF NextPage
<1> HIDE DEF page, last, position
<1>16. /\ d = [pc |-> IF last THEN "done" ELSE "paging", pinned |-> c.pinned, from |-> c.from,
               position |-> position, seen |-> c.seen \o page, list |-> c.list,
               cursor |-> c.cursor, ordering |-> c.ordering, search |-> c.search]
  BY <1>3, <1>15 DEF IsCrawl
<1>17. /\ d.pc = (IF last THEN "done" ELSE "paging") /\ d.pinned = c.pinned /\ d.from = c.from
       /\ d.position = position /\ d.seen = c.seen \o page /\ d.list = c.list
       /\ d.cursor = c.cursor /\ d.ordering = c.ordering /\ d.search = c.search
  BY <1>16
<1>18. page # <<>> => position = key[Last(page)] /\ position > c.position /\ position \in Nat
  BY <1>8, <1>12, <1>14, <1>3 DEF position, IsCrawl
<1>19. position \in Nat
  BY <1>18 DEF position
<1>20. c.seen \in Seq(Seeable) /\ page \in Seq(Seeable)
  <2>1. S \subseteq Seeable
    BY <1>7, ListedRows
  <2> HIDE DEF S
  <2> QED BY <1>3, <1>14, <2>1 DEF IsCrawl
<1>21. d.seen \in Seq(Seeable)
  BY <1>17, <1>20, AppendedRows
<1>22. IsCrawl(d)
  <2>1. d = [pc |-> d.pc, pinned |-> d.pinned, from |-> d.from, position |-> d.position,
            seen |-> d.seen, list |-> d.list, cursor |-> d.cursor, ordering |-> d.ordering,
            search |-> d.search]
    BY <1>16
  <2>2. d.pc \in {"paging", "done"}
    BY <1>17
  <2> QED BY <1>3, <1>17, <1>19, <1>21, <2>1, <2>2 DEF IsCrawl, IsRequest
<1>23. CursorInv(d)
  <2>1. /\ Requested(d) = n /\ RowsIn(d, units) = RowsIn(c, units)
        /\ \A row : Stays(d, row) <=> Stays(c, row)
        /\ \A row : KeyIn(d, row, units) = KeyIn(c, row, units)
    BY <1>4, <1>17 DEF Requested, RowsIn, Stays, ReadVersions, KeyIn, UnitsIn
  <2> SUFFICES ASSUME NEW row \in RowsIn(c, units), Stays(c, row)
               PROVE  IF Passed(d, row) THEN Once(d.seen, row) ELSE Absent(d.seen, row)
    BY <1>6, <2>1 DEF CursorInv
  <2>2. Passed(d, row) <=> last \/ KeyIn(c, row, units) <= position
    BY <1>6, <1>17, <2>1 DEF Passed
  <2>3. IF KeyIn(c, row, units) <= c.position THEN Once(c.seen, row) ELSE Absent(c.seen, row)
    BY <1>3, <1>4, <1>6 DEF CursorInv, Passed
  <2>4. KeyIn(c, row, units) \in Nat /\ c.position \in Nat
    BY <1>3, <1>7, KeysOfRows DEF IsCrawl
  <2>5. CASE KeyIn(c, row, units) <= c.position
    <3>1. row \notin S
      BY <2>4, <2>5
    <3>2. Absent(page, row)
      <4> HIDE DEF S
      <4> QED BY <1>14, <3>1 DEF Absent
    <3>3. Once(d.seen, row)
      BY <1>17, <1>20, <2>3, <2>5, <3>2, OnceKept
    <3>4. Passed(d, row)
      <4>1. CASE page = <<>>
        BY <1>14, <2>2, <4>1
      <4>2. CASE page # <<>>
        BY <1>18, <2>2, <2>4, <2>5, <4>2
      <4> QED BY <4>1, <4>2
    <3> QED BY <3>3, <3>4
  <2>6. CASE ~(KeyIn(c, row, units) <= c.position)
    <3>1. row \in S /\ key[row] = KeyIn(c, row, units)
      BY <2>4, <2>6
    <3>2. Absent(c.seen, row)
      BY <2>3, <2>6
    <3>3. page # <<>>
      BY <1>14, <3>1
    <3>4. Passed(d, row) <=> last \/ key[row] <= key[Last(page)]
      BY <1>18, <2>2, <3>1, <3>3
    <3>5. IF Passed(d, row) THEN Once(page, row) ELSE Absent(page, row)
      <4> HIDE DEF S, key
      <4> QED BY <1>14, <3>1, <3>4
    <3> QED BY <1>17, <1>20, <3>2, <3>5, OnceAdded, AbsentKept
  <2> QED BY <2>5, <2>6
<1> QED BY <1>2, <1>3, <1>15, <1>17, <1>22, <1>23, CrawlMoves DEF Holds

LEMMA CrawlByOffset ==
    ASSUME RowsInv, IsFiniteSet(rows), CrawlInv, ByOffset PROVE CrawlInv'
<1>1. PICK c : c = crawl
  OBVIOUS
<1>2. PICK d : d = crawl'
  OBVIOUS
<1>3. /\ c.pc = "paging" /\ ~c.cursor /\ OffsetInv(c) /\ IsCrawl(c) /\ IsRequest(c)
      /\ c.position \in Nat
  BY <1>1 DEF ByOffset, CrawlInv, IsCrawl
<1>4. PICK n : n = Requested(c)
  OBVIOUS
<1>5. n \in 0 .. Number /\ Number \in Nat
  BY <1>3, <1>4, RequestedVersion, NumberIsNat DEF RowsInv
<1>6. PICK units : units = Content(n)
  OBVIOUS
<1>7. units \in SUBSET Package /\ IsFiniteSet(units)
  BY <1>5, <1>6, VersionUnits
<1>8. PICK times : times = Times(n)
  OBVIOUS
<1>9. \A ga \in Gas(units) : times[ga] \in Nat
  BY <1>5, <1>6, <1>8, VersionTimes
<1>10. PICK all \in Ordered(c, n) :
          NextPage(Slice(all, c.position), c.position + PageSize, Len(all) <= c.position + PageSize)
  BY <1>1, <1>4 DEF ByOffset
<1>11. IsList(c, all, units, times)
  BY <1>3, <1>5, <1>6, <1>8, QueriesOfList
<1>12. all \in Seq(Seeable) /\ Len(all) \in Nat
  <2> DEFINE S == RowsIn(c, units)
  <2>1. IsFiniteSet(S)
    BY <1>7, ListedFinite
  <2>2. S \subseteq Seeable
    BY <1>7, ListedRows
  <2>3. all \in SetToSeqs(S)
    BY <1>11 DEF IsList
  <2> HIDE DEF S
  <2>4. all \in Seq(S)
    BY <2>1, <2>3, OrderPlaces
  <2> QED BY <2>2, <2>4
<1> DEFINE page == Slice(all, c.position)
           last == Len(all) <= c.position + PageSize
<1>13. /\ d = [c EXCEPT !.seen = @ \o page, !.position = c.position + PageSize,
                         !.pc = IF last THEN "done" ELSE "paging"]
       /\ history' = history
  BY <1>1, <1>2, <1>10 DEF NextPage
<1>14. page \in Seq(Seeable) /\ PageSize \in Nat
  BY <1>3, <1>12, SliceRows, CatalogAssumption
<1>15. c.pinned # Latest \/ c.from = Number => c.seen = UpTo(all, c.position)
  <2> SUFFICES ASSUME c.pinned # Latest \/ c.from = Number PROVE c.seen = UpTo(all, c.position)
    OBVIOUS
  <2>1. CASE c.position = 0 /\ c.seen = <<>>
    BY <1>12, <2>1 DEF UpTo
  <2>2. CASE \E other : IsList(c, other, units, times) /\ c.seen = UpTo(other, c.position)
    <3>1. PICK other : IsList(c, other, units, times) /\ c.seen = UpTo(other, c.position)
      BY <2>2
    <3>2. other = all
      BY <1>3, <1>7, <1>9, <1>11, <3>1, ListIsUnique
    <3> QED BY <3>1, <3>2
  <2> QED BY <1>3, <1>4, <1>6, <1>8, <2>1, <2>2 DEF OffsetInv
<1>16. UpTo(all, c.position) \o page = UpTo(all, c.position + PageSize)
  BY <1>3, <1>12, OffsetPage
<1> HIDE DEF page, last
<1>17. d = [pc |-> IF last THEN "done" ELSE "paging", pinned |-> c.pinned, from |-> c.from,
            position |-> c.position + PageSize, seen |-> c.seen \o page, list |-> c.list,
            cursor |-> c.cursor, ordering |-> c.ordering, search |-> c.search]
  BY <1>3, <1>13 DEF IsCrawl
<1>18. /\ d.pc = (IF last THEN "done" ELSE "paging") /\ d.pinned = c.pinned /\ d.from = c.from
       /\ d.position = c.position + PageSize /\ d.seen = c.seen \o page /\ d.list = c.list
       /\ d.cursor = c.cursor /\ d.ordering = c.ordering /\ d.search = c.search
  BY <1>17
<1>19. IsCrawl(d)
  <2>1. d = [pc |-> d.pc, pinned |-> d.pinned, from |-> d.from, position |-> d.position,
            seen |-> d.seen, list |-> d.list, cursor |-> d.cursor, ordering |-> d.ordering,
            search |-> d.search]
    BY <1>17
  <2>2. d.pc \in {"paging", "done"}
    BY <1>18
  <2>3. d.seen \in Seq(Seeable)
    <3>1. c.seen \in Seq(Seeable)
      BY <1>3 DEF IsCrawl
    <3> QED BY <1>14, <1>18, <3>1, AppendedRows
  <2>4. d.position \in Nat
    BY <1>3, <1>14, <1>18
  <2> QED BY <1>3, <1>18, <2>1, <2>2, <2>3, <2>4 DEF IsCrawl, IsRequest
<1>20. OffsetInv(d)
  <2> SUFFICES ASSUME d.pinned # Latest \/ d.from = Number
               PROVE  /\ IsList(d, all, Content(Requested(d)), Times(Requested(d)))
                      /\ d.seen = UpTo(all, d.position)
                      /\ d.pc = "done" <=> Len(all) <= d.position
    BY DEF OffsetInv
  <2>1. Requested(d) = n
    BY <1>4, <1>18 DEF Requested
  <2>2. IsList(d, all, units, times)
    <3>1. RowsIn(d, units) = RowsIn(c, units)
      BY <1>18 DEF RowsIn
    <3>2. RowTerms(d) = RowTerms(c)
      BY <1>18 DEF RowTerms
    <3>3. \A row, name : ValueIn(d, row, name, times) = ValueIn(c, row, name, times)
      BY <1>18 DEF ValueIn, GaOf
    <3>4. \A a, b : BeforeIn(d, a, b, times) <=> BeforeIn(c, a, b, times)
      BY <3>2, <3>3 DEF BeforeIn
    <3> QED BY <1>11, <3>1, <3>4 DEF IsList
  <2>3. d.seen = UpTo(all, d.position)
    BY <1>15, <1>16, <1>18
  <2>4. d.pc = "done" <=> Len(all) <= d.position
    BY <1>18 DEF last
  <2> QED BY <1>6, <1>8, <2>1, <2>2, <2>3, <2>4
<1> QED BY <1>2, <1>3, <1>13, <1>18, <1>19, <1>20, CrawlMoves DEF Holds

LEMMA CrawlNext ==
    ASSUME RowsInv, IsFiniteSet(rows), CrawlInv, [CatalogNext]_catalogVars PROVE CrawlInv'
<1>1. CASE \E units \in Uploads : Draft(units)
  BY <1>1, CrawlFrame DEF Draft
<1>2. CASE Complete
  BY <1>2, CrawlComplete
<1>3. CASE Abort
  BY <1>3, CrawlFrame DEF Abort
<1>4. CASE \E c \in Crawls, pinned \in (1 .. MaxDrafts) \cup {Latest} : Begin(c, pinned)
  BY <1>4, CrawlBegin
<1>5. CASE ByCursor
  BY <1>5, CrawlByCursor
<1>6. CASE ByOffset
  BY <1>6, CrawlByOffset
<1>7. CASE UNCHANGED catalogVars
  BY <1>7, CrawlFrame DEF catalogVars
<1> QED
  BY <1>1, <1>2, <1>3, <1>4, <1>5, <1>6, <1>7 DEF CatalogNext

\* What has been seen once is counted once.
LEMMA OnceCounts ==
    ASSUME NEW seq, NEW row, Once(seq, row)
    PROVE  Cardinality({i \in DOMAIN seq : seq[i] = row}) = 1
<1>1. PICK i \in DOMAIN seq : seq[i] = row /\ \A j \in DOMAIN seq : seq[j] = row => j = i
  BY DEF Once
<1>2. {j \in DOMAIN seq : seq[j] = row} = {i}
  BY <1>1
<1> QED BY <1>2, FS_Singleton

\* For any packages, page size, searches and orderings, and any versions that come and
\* go while a client follows the pages of a list, it sees every row once that stays
\* as it was.
THEOREM CrawlsAlwaysMissNothing == CatalogSpec => []CrawlsMissNothing
<1>1. CatalogInit => CrawlInv
  BY DEF CatalogInit, CrawlInv
<1>2. RowsInv /\ IsFiniteSet(rows) /\ CrawlInv /\ [CatalogNext]_catalogVars => CrawlInv'
  BY CrawlNext
<1>3. RowsInv /\ IsFiniteSet(rows) /\ CrawlInv => CrawlsMissNothing
  <2> SUFFICES ASSUME RowsInv, IsFiniteSet(rows), CrawlInv, crawl.pc = "done",
                      NEW row \in Rows(crawl, Requested(crawl)), StaysAsItWas(crawl, row)
               PROVE  Cardinality({i \in DOMAIN crawl.seen : crawl.seen[i] = row}) = 1
    BY DEF CrawlsMissNothing
  <2>1. PICK c : c = crawl
    OBVIOUS
  <2>2. IsCrawl(c) /\ IF c.cursor THEN CursorInv(c) ELSE OffsetInv(c)
    BY <2>1 DEF CrawlInv
  <2>3. PICK n : n = Requested(c)
    OBVIOUS
  <2>4. /\ n \in 0 .. Number /\ Number \in Nat /\ n \in ReadVersions(c)
        /\ ReadVersions(c) \subseteq 0 .. Number
    BY <2>2, <2>3, RequestedVersion, NumberIsNat DEF RowsInv
  <2>5. row \in RowsIn(c, Content(n))
    BY <2>1, <2>3, <2>4, QueriesOfList
  <2>6. Once(c.seen, row)
    <3>1. CASE c.cursor
      <4>1. Stays(c, row)
        BY <2>1, <3>1 DEF StaysAsItWas, Stays, UnitsOf, UnitsIn
      <4> QED BY <2>1, <2>2, <2>3, <2>5, <3>1, <4>1 DEF CursorInv, Passed
    <3>2. CASE ~c.cursor
      <4>1. \A v, w \in ReadVersions(c) : v = w
        BY <2>1, <3>2 DEF StaysAsItWas
      <4>2. c.pinned # Latest \/ c.from = Number
        BY <2>2, <2>4, <4>1 DEF ReadVersions, IsCrawl
      <4>3. PICK all : /\ IsList(c, all, Content(n), Times(n))
                       /\ c.seen = UpTo(all, c.position) /\ Len(all) <= c.position
        BY <2>1, <2>2, <2>3, <3>2, <4>2 DEF OffsetInv
      <4> DEFINE S == RowsIn(c, Content(n))
      <4>4. IsFiniteSet(S)
        BY <2>4, VersionUnits, ListedFinite
      <4>5. all \in SetToSeqs(S)
        BY <4>3 DEF IsList
      <4>6. row \in S
        BY <2>5
      <4> HIDE DEF S
      <4>7. /\ all \in Seq(S) /\ DOMAIN all = 1 .. Len(all)
            /\ \A i, j \in DOMAIN all : all[i] = all[j] => i = j
            /\ \A x \in S : \E i \in DOMAIN all : all[i] = x
        BY <4>4, <4>5, OrderPlaces
      <4>8. c.seen = all
        <5>1. c.seen = SubSeq(all, 1, Len(all))
          <6>1. Len(all) \in Nat /\ c.position \in Nat
            BY <2>2, <4>7 DEF IsCrawl
          <6> QED BY <4>3, <6>1 DEF UpTo
        <5> QED BY <4>7, <5>1
      <4> QED BY <4>6, <4>7, <4>8 DEF Once
    <3> QED BY <3>1, <3>2
  <2> QED BY <2>1, <2>6, OnceCounts
<1> QED
  BY <1>1, <1>2, <1>3, RowsInvariant, RowsAreFinite, PTL DEF CatalogSpec

-----------------------------------------------------------------------------
(* Sort keys of versions.                                                   *)

\* The function that FlattenSeq builds exists, and gives sequences.
Flattens(f, m, ss) ==
    f = [i \in 1 .. m |-> IF i = 1 THEN ss[i] ELSE f[i - 1] \o ss[i]]

LEMMA FlattenExists ==
    ASSUME NEW X, NEW ss \in Seq(Seq(X)), NEW m \in Nat, m <= Len(ss)
    PROVE  \E f \in [1 .. m -> Seq(X)] : Flattens(f, m, ss)
<1> DEFINE Good(k) == k <= Len(ss) => \E f \in [1 .. k -> Seq(X)] : Flattens(f, k, ss)
           P == {k \in Nat : Good(k)}
<1>1. Good(0)
  <2>1. <<>> \in [1 .. 0 -> Seq(X)] /\ Flattens(<<>>, 0, ss)
    BY DEF Flattens
  <2> QED BY <2>1
<1>2. ASSUME NEW k \in Nat, Good(k) PROVE Good(k + 1)
  <2> SUFFICES ASSUME k + 1 <= Len(ss)
               PROVE  \E f \in [1 .. k + 1 -> Seq(X)] : Flattens(f, k + 1, ss)
    OBVIOUS
  <2>1. PICK f \in [1 .. k -> Seq(X)] : Flattens(f, k, ss)
    BY <1>2
  <2>2. \A i \in 1 .. k + 1 : ss[i] \in Seq(X)
    OBVIOUS
  <2>3. \A i \in 1 .. k : f[i] \in Seq(X) /\ f[i] = IF i = 1 THEN ss[i] ELSE f[i - 1] \o ss[i]
    <3>1. f = [i \in 1 .. k |-> IF i = 1 THEN ss[i] ELSE f[i - 1] \o ss[i]]
      BY <2>1, Zenon DEF Flattens
    <3> QED BY <3>1
  <2> DEFINE more == IF k = 0 THEN ss[1] ELSE f[k] \o ss[k + 1]
             g == [i \in 1 .. k + 1 |-> IF i = k + 1 THEN more ELSE f[i]]
  <2>4. more \in Seq(X)
    BY <2>2, <2>3
  <2> HIDE DEF more
  <2>5. g \in [1 .. k + 1 -> Seq(X)]
    BY <2>3, <2>4
  <2>6. \A i \in 1 .. k : g[i] = f[i]
    OBVIOUS
  <2>7. g[k + 1] = more
    OBVIOUS
  <2> HIDE DEF g
  <2>8. \A i \in 1 .. k + 1 : g[i] = IF i = 1 THEN ss[i] ELSE g[i - 1] \o ss[i]
    <3> SUFFICES ASSUME NEW i \in 1 .. k + 1 PROVE g[i] = IF i = 1 THEN ss[i] ELSE g[i - 1] \o ss[i]
      OBVIOUS
    <3>1. CASE i = k + 1
      <4>1. CASE k = 0
        BY <2>7, <3>1, <4>1 DEF more
      <4>2. CASE k # 0
        <5>1. g[i - 1] = f[k] /\ i # 1
          BY <2>6, <3>1, <4>2
        <5> QED BY <2>7, <3>1, <4>2, <5>1 DEF more
      <4> QED BY <4>1, <4>2
    <3>2. CASE i \in 1 .. k
      <4>1. i # 1 => g[i - 1] = f[i - 1]
        BY <2>6, <3>2
      <4>2. g[i] = f[i]
        BY <2>6, <3>2
      <4> QED BY <2>3, <3>2, <4>1, <4>2
    <3> QED BY <3>1, <3>2
  <2>9. Flattens(g, k + 1, ss)
    <3>1. g = [i \in 1 .. k + 1 |-> g[i]]
      BY <2>5
    <3>2. g = [i \in 1 .. k + 1 |-> IF i = 1 THEN ss[i] ELSE g[i - 1] \o ss[i]]
      BY <2>8, <3>1
    <3> QED BY <3>2, Zenon DEF Flattens
  <2> QED BY <2>5, <2>9
<1>3. Nat \subseteq P
  <2>1. 0 \in P /\ \A k \in Nat : k \in P => k + 1 \in P
    BY <1>1, <1>2
  <2> HIDE DEF P
  <2> QED BY <2>1, CountInduction
<1>4. Good(m)
  BY <1>3
<1> QED BY <1>4

LEMMA FlattenType ==
    ASSUME NEW X, NEW ss \in Seq(Seq(X)) PROVE FlattenSeq(ss) \in Seq(X)
<1>1. CASE Len(ss) = 0
  <2>1. ss = <<>>
    BY <1>1
  <2> QED BY <1>1, <2>1 DEF FlattenSeq
<1>2. CASE Len(ss) # 0
  <2> DEFINE m == Len(ss)
             f == CHOOSE f : f = [i \in 1 .. m |-> IF i = 1 THEN ss[i] ELSE f[i - 1] \o ss[i]]
  <2>1. FlattenSeq(ss) = f[m]
    BY <1>2, Zenon DEF FlattenSeq
  <2>2. m \in Nat /\ m >= 1 /\ \A i \in 1 .. m : ss[i] \in Seq(X)
    BY <1>2
  <2>3. \E g : g = [i \in 1 .. m |-> IF i = 1 THEN ss[i] ELSE g[i - 1] \o ss[i]]
    <3>1. m <= Len(ss)
      BY <2>2
    <3>2. \E g : Flattens(g, m, ss)
      BY <2>2, <3>1, FlattenExists
    <3> QED BY <3>2, Zenon DEF Flattens
  <2>4. f = [i \in 1 .. m |-> IF i = 1 THEN ss[i] ELSE f[i - 1] \o ss[i]]
    BY <2>3, Zenon
  <2> HIDE DEF f, m
  <2>5. \A i \in 1 .. m : f[i] = IF i = 1 THEN ss[i] ELSE f[i - 1] \o ss[i]
    BY <2>4
  <2> DEFINE Good(k) == k + 1 \in 1 .. m => f[k + 1] \in Seq(X)
             P == {k \in Nat : Good(k)}
  <2>6. Good(0)
    BY <2>2, <2>5
  <2>7. ASSUME NEW k \in Nat, Good(k) PROVE Good(k + 1)
    <3> SUFFICES ASSUME (k + 1) + 1 \in 1 .. m PROVE f[(k + 1) + 1] \in Seq(X)
      OBVIOUS
    <3>1. k + 1 \in 1 .. m /\ (k + 1) + 1 # 1 /\ ((k + 1) + 1) - 1 = k + 1
      BY <2>2
    <3>2. f[k + 1] \in Seq(X)
      BY <2>7, <3>1
    <3>3. f[(k + 1) + 1] = f[k + 1] \o ss[(k + 1) + 1]
      BY <2>5, <3>1
    <3>4. ss[(k + 1) + 1] \in Seq(X)
      BY <2>2
    <3> QED BY <3>2, <3>3, <3>4
  <2>8. Nat \subseteq P
    <3>1. 0 \in P /\ \A k \in Nat : k \in P => k + 1 \in P
      BY <2>6, <2>7
    <3> HIDE DEF P
    <3> QED BY <3>1, CountInduction
  <2>9. m - 1 \in Nat /\ (m - 1) + 1 = m
    BY <2>2
  <2>10. Good(m - 1)
    BY <2>8, <2>9
  <2>11. f[m] \in Seq(X)
    BY <2>2, <2>9, <2>10
  <2> QED BY <2>1, <2>11
<1> QED BY <1>1, <1>2

LEMMA JoinedType ==
    ASSUME NEW X, NEW ss \in Seq(Seq(X)), NEW separator \in X PROVE Joined(ss, separator) \in Seq(X)
<1> DEFINE tt == [i \in DOMAIN ss |-> IF i = 1 THEN ss[i] ELSE <<separator>> \o ss[i]]
<1>1. \A i \in DOMAIN ss : ss[i] \in Seq(X) /\ <<separator>> \o ss[i] \in Seq(X)
  OBVIOUS
<1>2. Len(ss) \in Nat /\ DOMAIN ss = 1 .. Len(ss)
  OBVIOUS
<1>3. \A i \in DOMAIN ss : (IF i = 1 THEN ss[i] ELSE <<separator>> \o ss[i]) \in Seq(X)
  BY <1>1
<1>4. tt \in Seq(Seq(X))
  BY <1>2, <1>3
<1> HIDE DEF tt
<1>5. FlattenSeq(tt) \in Seq(X)
  BY <1>4, FlattenType
<1> QED BY <1>5 DEF Joined, tt

LEMMA BaseType == ASSUME NEW v \in Seq(Seq(Part)) PROVE BaseVersion(v) \in Seq(Seq(Part))
<1>1. CASE HasBuildSuffix(v)
  <2>1. Len(v) \in Nat /\ Len(v) > 1
    BY <1>1 DEF HasBuildSuffix
  <2>2. SubSeq(v, 1, Len(v) - 1) \in Seq(Seq(Part))
    BY <2>1
  <2> QED BY <1>1, <2>2 DEF BaseVersion, Front
<1>2. CASE ~HasBuildSuffix(v)
  BY <1>2 DEF BaseVersion
<1> QED BY <1>1, <1>2

LEMMA KeyType == ASSUME NEW v \in Seq(Seq(Part)) PROVE VersionSortKey(v) \in Seq(Part)
<1> DEFINE parts(i) == [j \in DOMAIN v[i] |-> <<v[i][j]>>]
           segments == [i \in DOMAIN v |-> Joined(parts(i), Dash)]
<1>1. Dash \in Part /\ Dot \in Part
  BY CatalogAssumption
<1>2. ASSUME NEW i \in DOMAIN v PROVE Joined(parts(i), Dash) \in Seq(Part)
  <2>1. v[i] \in Seq(Part)
    OBVIOUS
  <2>2. parts(i) \in Seq(Seq(Part))
    <3>1. Len(v[i]) \in Nat /\ DOMAIN v[i] = 1 .. Len(v[i])
      BY <2>1
    <3>2. \A j \in DOMAIN v[i] : <<v[i][j]>> \in Seq(Part)
      BY <2>1
    <3> QED BY <3>1, <3>2
  <2> HIDE DEF parts
  <2> QED BY <1>1, <2>2, JoinedType
<1>3. segments \in Seq(Seq(Part))
  <2>1. Len(v) \in Nat /\ DOMAIN v = 1 .. Len(v)
    OBVIOUS
  <2> HIDE DEF parts
  <2> QED BY <1>2, <2>1
<1>4. VersionSortKey(v) = Joined(segments, Dot)
  BY DEF VersionSortKey
<1> HIDE DEF segments
<1> QED BY <1>1, <1>3, <1>4, JoinedType

LessPart(p, q) == p[1] < q[1] \/ (p[1] = q[1] /\ p[2] < q[2])

\* Two keys agree before a place, where the first is smaller or ends.
SmallerAt(a, b, k) ==
    /\ \A j \in 1 .. k - 1 : j <= Len(a) /\ j <= Len(b) /\ a[j] = b[j]
    /\ \/ k = Len(a) + 1 /\ k <= Len(b)
       \/ k <= Len(a) /\ k <= Len(b) /\ LessPart(a[k], b[k])

LEMMA PartsAreOrdered ==
    /\ \A p \in Part : ~LessPart(p, p)
    /\ \A p, q, r \in Part : LessPart(p, q) /\ LessPart(q, r) => LessPart(p, r)
<1>1. \A p \in Part : p[1] \in Nat /\ p[2] \in Nat
  BY DEF Part
<1> QED BY <1>1 DEF LessPart

LEMMA SameKey ==
    ASSUME NEW a \in Seq(Part), NEW b \in Seq(Part), NEW k \in Nat,
           Len(a) = k, Len(b) = k, \A j \in 1 .. k : a[j] = b[j]
    PROVE  a = b
<1>1. a \in [1 .. k -> Part] /\ b \in [1 .. k -> Part]
  OBVIOUS
<1> QED BY <1>1

LEMMA SmallerSomewhere ==
    ASSUME NEW a \in Seq(Part), NEW b \in Seq(Part)
    PROVE  Smaller(a, b) <=> \E k \in Nat \ {0} : SmallerAt(a, b, k)
<1>1. Len(a) \in Nat /\ Len(b) \in Nat /\ DOMAIN a = 1 .. Len(a) /\ DOMAIN b = 1 .. Len(b)
  OBVIOUS
<1>2. ASSUME IsStrictPrefix(a, b) PROVE \E k \in Nat \ {0} : SmallerAt(a, b, k)
  <2>1. Len(a) <= Len(b) /\ SubSeq(a, 1, Len(a)) = SubSeq(b, 1, Len(a)) /\ a # b
    BY <1>2 DEF IsStrictPrefix, IsPrefix
  <2>2. \A j \in 1 .. Len(a) : a[j] = b[j]
    <3>1. \A j \in 1 .. Len(a) : SubSeq(a, 1, Len(a))[j] = a[j]
      BY <1>1
    <3>2. \A j \in 1 .. Len(a) : SubSeq(b, 1, Len(a))[j] = b[j]
      BY <1>1, <2>1
    <3> QED BY <2>1, <3>1, <3>2
  <2>3. Len(a) # Len(b)
    BY <1>1, <2>1, <2>2, SameKey
  <2>4. \A j \in 1 .. (Len(a) + 1) - 1 : j <= Len(a) /\ j <= Len(b) /\ a[j] = b[j]
    <3>1. (Len(a) + 1) - 1 = Len(a)
      BY <1>1
    <3>2. Len(a) <= Len(b)
      BY <2>1
    <3>3. \A j \in 1 .. Len(a) : j <= Len(a) /\ j <= Len(b)
      BY <1>1, <3>2
    <3> QED BY <2>2, <3>1, <3>3
  <2>5. Len(a) + 1 <= Len(b)
    <3>1. Len(a) <= Len(b)
      BY <2>1
    <3>2. Len(a) \in Nat /\ Len(b) \in Nat
      OBVIOUS
    <3> QED BY <2>3, <3>1, <3>2
  <2>6. SmallerAt(a, b, Len(a) + 1)
    BY <2>4, <2>5 DEF SmallerAt
  <2> QED BY <1>1, <2>6
<1>3. ASSUME NEW i \in DOMAIN a \cap DOMAIN b, \A j \in 1 .. i - 1 : a[j] = b[j],
             LessPart(a[i], b[i])
      PROVE  \E k \in Nat \ {0} : SmallerAt(a, b, k)
  <2>1. SmallerAt(a, b, i)
    BY <1>1, <1>3 DEF SmallerAt
  <2> QED BY <1>1, <2>1
<1>4. ASSUME NEW k \in Nat \ {0}, SmallerAt(a, b, k), k = Len(a) + 1, k <= Len(b)
      PROVE  IsStrictPrefix(a, b)
  <2>1. Len(a) <= Len(b) /\ a # b
    BY <1>1, <1>4
  <2>2. \A j \in 1 .. Len(a) : a[j] = b[j]
    BY <1>1, <1>4 DEF SmallerAt
  <2>3. SubSeq(a, 1, Len(a)) = SubSeq(b, 1, Len(a))
    <3> DEFINE s == SubSeq(a, 1, Len(a))
               t == SubSeq(b, 1, Len(a))
    <3>1. s \in Seq(Part) /\ Len(s) = Len(a)
      BY <1>1
    <3>2. \A j \in 1 .. Len(a) : s[j] = a[j]
      BY <1>1
    <3>3. Len(a) <= Len(b)
      BY <2>1
    <3>4. t \in Seq(Part)
      BY <1>1, <3>3
    <3>5. Len(t) = Len(a)
      BY <1>1, <3>3
    <3>6. \A j \in 1 .. Len(a) : t[j] = b[j]
      BY <1>1, <3>3
    <3> HIDE DEF s, t
    <3>7. \A j \in 1 .. Len(a) : s[j] = t[j]
      BY <2>2, <3>2, <3>6
    <3>8. s = t
      BY <1>1, <3>1, <3>4, <3>5, <3>7, SameKey
    <3> QED BY <3>8 DEF s, t
  <2> QED BY <2>1, <2>3 DEF IsStrictPrefix, IsPrefix
<1>5. ASSUME NEW k \in Nat \ {0}, SmallerAt(a, b, k), k <= Len(a), k <= Len(b), LessPart(a[k], b[k])
      PROVE  \E i \in DOMAIN a \cap DOMAIN b :
                (\A j \in 1 .. i - 1 : a[j] = b[j]) /\ LessPart(a[i], b[i])
  BY <1>1, <1>5 DEF SmallerAt
<1>6. Smaller(a, b) <=> \/ IsStrictPrefix(a, b)
                        \/ \E i \in DOMAIN a \cap DOMAIN b :
                             (\A j \in 1 .. i - 1 : a[j] = b[j]) /\ LessPart(a[i], b[i])
  BY DEF Smaller, LessPart
<1>7. ASSUME Smaller(a, b) PROVE \E k \in Nat \ {0} : SmallerAt(a, b, k)
  BY <1>2, <1>3, <1>6, <1>7
<1>8. ASSUME NEW k \in Nat \ {0}, SmallerAt(a, b, k) PROVE Smaller(a, b)
  <2>1. \/ k = Len(a) + 1 /\ k <= Len(b)
        \/ k <= Len(a) /\ k <= Len(b) /\ LessPart(a[k], b[k])
    BY <1>8 DEF SmallerAt
  <2> QED BY <1>4, <1>5, <1>6, <1>8, <2>1
<1> QED BY <1>7, <1>8

\* Keys compare as an order does.
LEMMA KeysAreOrdered ==
    ASSUME NEW a \in Seq(Part), NEW b \in Seq(Part), NEW c \in Seq(Part)
    PROVE  ~Smaller(a, a) /\ (Smaller(a, b) /\ Smaller(b, c) => Smaller(a, c))
<1>1. /\ Len(a) \in Nat /\ Len(b) \in Nat /\ Len(c) \in Nat
      /\ \A i \in 1 .. Len(a) : a[i] \in Part
      /\ \A i \in 1 .. Len(b) : b[i] \in Part
      /\ \A i \in 1 .. Len(c) : c[i] \in Part
  OBVIOUS
<1>2. ~Smaller(a, a)
  <2> SUFFICES ASSUME NEW k \in Nat \ {0}, SmallerAt(a, a, k) PROVE FALSE
    BY SmallerSomewhere
  <2>1. k <= Len(a) /\ LessPart(a[k], a[k])
    BY <1>1 DEF SmallerAt
  <2>2. a[k] \in Part
    BY <1>1, <2>1
  <2> QED BY <2>1, <2>2, PartsAreOrdered
<1>3. ASSUME Smaller(a, b), Smaller(b, c) PROVE Smaller(a, c)
  <2>1. PICK k \in Nat \ {0} : SmallerAt(a, b, k)
    BY <1>3, SmallerSomewhere
  <2>2. PICK m \in Nat \ {0} : SmallerAt(b, c, m)
    BY <1>3, SmallerSomewhere
  <2>3. CASE k < m
    <3>1. k <= Len(b) /\ k <= Len(c) /\ b[k] = c[k]
      BY <2>2, <2>3 DEF SmallerAt
    <3>2. \A j \in 1 .. k - 1 : j <= Len(a) /\ j <= Len(c) /\ a[j] = c[j]
      BY <2>1, <2>2, <2>3 DEF SmallerAt
    <3>3. SmallerAt(a, c, k)
      BY <2>1, <3>1, <3>2 DEF SmallerAt
    <3> QED BY <3>3, SmallerSomewhere
  <2>4. CASE m < k
    <3>1. m <= Len(a) /\ m <= Len(b) /\ a[m] = b[m]
      BY <2>1, <2>4 DEF SmallerAt
    <3>2. \A j \in 1 .. m - 1 : j <= Len(a) /\ j <= Len(c) /\ a[j] = c[j]
      BY <2>1, <2>2, <2>4 DEF SmallerAt
    <3>3. m <= Len(c) /\ LessPart(b[m], c[m])
      BY <1>1, <2>2, <3>1 DEF SmallerAt
    <3>4. SmallerAt(a, c, m)
      BY <3>1, <3>2, <3>3 DEF SmallerAt
    <3> QED BY <3>4, SmallerSomewhere
  <2>5. CASE k = m
    <3>1. \A j \in 1 .. k - 1 : j <= Len(a) /\ j <= Len(c) /\ a[j] = c[j]
      BY <2>1, <2>2, <2>5 DEF SmallerAt
    <3>2. k <= Len(b) /\ k <= Len(c) /\ LessPart(b[k], c[k])
      BY <1>1, <2>1, <2>2, <2>5 DEF SmallerAt
    <3>3. CASE k = Len(a) + 1
      <4>1. SmallerAt(a, c, k)
        BY <3>1, <3>2, <3>3 DEF SmallerAt
      <4> QED BY <4>1, SmallerSomewhere
    <3>4. CASE k <= Len(a) /\ LessPart(a[k], b[k])
      <4>1. a[k] \in Part /\ b[k] \in Part /\ c[k] \in Part
        BY <1>1, <3>2, <3>4
      <4>2. LessPart(a[k], c[k])
        BY <3>2, <3>4, <4>1, PartsAreOrdered
      <4>3. SmallerAt(a, c, k)
        BY <3>1, <3>2, <3>4, <4>2 DEF SmallerAt
      <4> QED BY <4>3, SmallerSomewhere
    <3> QED BY <2>1, <3>3, <3>4 DEF SmallerAt
  <2> QED BY <2>3, <2>4, <2>5
<1> QED BY <1>2, <1>3

-----------------------------------------------------------------------------
(* Rows of the package index.                                               *)

\* The relation that sorts releases, and the sequence that IndexRow takes.
Base(u) == BaseVersion(Version[u])

NewerThan == [u \in Package |-> {w \in Package : NewerBase(u, w)}]

Releases(ga, n) == CHOOSE s \in Orders(Newest(OfGa(PackagesInVersion(n), ga)), NewerBase) : TRUE

LEMMA NewerIsStrict == IsStrict(NewerThan, Package)
<1>1. ASSUME NEW u \in Package PROVE VersionSortKey(Base(u)) \in Seq(Part)
  <2>1. Version[u] \in Seq(Seq(Part))
    BY CatalogAssumption
  <2> QED BY <2>1, BaseType, KeyType DEF Base
<1>2. \A u, w \in Package :
         w \in NewerThan[u] <=> Smaller(VersionSortKey(Base(w)), VersionSortKey(Base(u)))
  BY DEF NewerThan, NewerBase, Base
<1>3. ASSUME NEW u \in Package PROVE u \notin NewerThan[u]
  BY <1>1, <1>2, KeysAreOrdered
<1>4. ASSUME NEW u \in Package, NEW v \in Package, NEW w \in Package,
             v \in NewerThan[u], w \in NewerThan[v]
      PROVE  w \in NewerThan[u]
  <2> DEFINE key(x) == VersionSortKey(Base(x))
  <2>1. key(u) \in Seq(Part) /\ key(v) \in Seq(Part) /\ key(w) \in Seq(Part)
    BY <1>1
  <2>2. Smaller(key(w), key(v)) /\ Smaller(key(v), key(u))
    BY <1>2, <1>4
  <2>3. Smaller(key(w), key(u))
    <3> HIDE DEF key
    <3> QED BY <2>1, <2>2, KeysAreOrdered
  <2> QED BY <1>2, <2>3
<1> QED BY <1>3, <1>4, Zenon DEF IsStrict

NewestOf(u, units) ==
    CHOOSE w \in Rebuilds(u, units) : \A x \in Rebuilds(u, units) : Created[x] <= Created[w]

LEMMA NewestExists ==
    ASSUME NEW units \in SUBSET Package, IsFiniteSet(units), NEW w \in units
    PROVE  /\ NewestOf(w, units) \in Rebuilds(w, units)
           /\ \A x \in Rebuilds(w, units) : Created[x] <= Created[NewestOf(w, units)]
<1> DEFINE same == Rebuilds(w, units)
           made == {Created[u] : u \in same}
           f == [u \in same |-> Created[u]]
<1>1. same \in SUBSET units /\ w \in same
  BY DEF Rebuilds
<1>2. IsFiniteSet(same)
  <2> HIDE DEF same
  <2> QED BY <1>1, FS_Subset
<1> HIDE DEF same
<1>3. made \in SUBSET Nat /\ made # {}
  <2>1. \A u \in Package : Created[u] \in Nat
    BY GasAreNumbers
  <2> QED BY <1>1, <2>1
<1>4. f \in Surjection(same, made)
  BY DEF Surjection
<1>5. IsFiniteSet(made)
  <2> HIDE DEF made, f
  <2> QED BY <1>2, <1>4, FS_Surjection
<1>6. Max(made) \in made /\ \A y \in made : y <= Max(made)
  <2> HIDE DEF made
  <2> QED BY <1>3, <1>5, MaxIsGreatest
<1>7. PICK z \in same : Created[z] = Max(made)
  BY <1>6
<1>8. \A u \in same : Created[u] <= Created[z]
  BY <1>6, <1>7
<1>9. \E y \in Rebuilds(w, units) : \A x \in Rebuilds(w, units) : Created[x] <= Created[y]
  BY <1>8 DEF same
<1> QED BY <1>9, Zenon DEF NewestOf

\* The releases of a package are one rebuild for each base version, a newest one.
LEMMA NewestOfBase ==
    ASSUME NEW units \in SUBSET Package, IsFiniteSet(units), NEW ga, \A u \in units : Ga(u) = ga
    PROVE  /\ Newest(units) \in SUBSET units
           /\ \A w \in units : \E z \in Newest(units) : Base(z) = Base(w)
           /\ \A z \in Newest(units), w \in units : Base(w) = Base(z) => Created[w] <= Created[z]
           /\ \A y, z \in Newest(units) : Base(y) = Base(z) => y = z
<1>1. Newest(units) = {NewestOf(u, units) : u \in units}
  BY DEF Newest, NewestOf
<1>2. \A u \in units : Rebuilds(u, units) = {w \in units : Base(w) = Base(u)}
  BY DEF Rebuilds, Base
<1>3. \A u \in units :
         /\ NewestOf(u, units) \in units /\ Base(NewestOf(u, units)) = Base(u)
         /\ \A w \in units : Base(w) = Base(u) => Created[w] <= Created[NewestOf(u, units)]
  <2> SUFFICES ASSUME NEW u \in units
               PROVE  /\ NewestOf(u, units) \in units /\ Base(NewestOf(u, units)) = Base(u)
                      /\ \A w \in units :
                            Base(w) = Base(u) => Created[w] <= Created[NewestOf(u, units)]
    OBVIOUS
  <2>1. /\ NewestOf(u, units) \in Rebuilds(u, units)
        /\ \A x \in Rebuilds(u, units) : Created[x] <= Created[NewestOf(u, units)]
    BY NewestExists
  <2> QED BY <1>2, <2>1
<1>4. ASSUME NEW u \in units, NEW v \in units, Base(u) = Base(v)
      PROVE  NewestOf(u, units) = NewestOf(v, units)
  <2>1. Rebuilds(u, units) = Rebuilds(v, units)
    BY <1>2, <1>4
  <2> QED BY <2>1 DEF NewestOf
<1>5. Newest(units) \in SUBSET units
  BY <1>1, <1>3
<1>6. \A w \in units : \E z \in Newest(units) : Base(z) = Base(w)
  BY <1>1, <1>3
<1>7. \A z \in Newest(units), w \in units : Base(w) = Base(z) => Created[w] <= Created[z]
  BY <1>1, <1>3
<1>8. ASSUME NEW y \in Newest(units), NEW z \in Newest(units), Base(y) = Base(z) PROVE y = z
  <2>1. PICK u \in units : y = NewestOf(u, units)
    BY <1>1
  <2>2. PICK v \in units : z = NewestOf(v, units)
    BY <1>1
  <2>3. Base(u) = Base(v)
    BY <1>3, <1>8, <2>1, <2>2
  <2> QED BY <1>4, <2>1, <2>2, <2>3
<1> QED BY <1>5, <1>6, <1>7, <1>8

LEMMA ReleasesAreOrdered ==
    ASSUME RowsInv, IsFiniteSet(rows), NEW n \in 1 .. Number, NEW ga
    PROVE  LET newest == Newest(OfGa(Content(n), ga))
               s == Releases(ga, n)
           IN  /\ s \in SetToSeqs(newest) /\ IsFiniteSet(newest) /\ newest \in SUBSET Package
               /\ \A i, j \in DOMAIN s : i < j => ~NewerBase(s[j], s[i])
<1> DEFINE newest == Newest(OfGa(Content(n), ga))
<1>1. PackagesInVersion(n) = Content(n) /\ Content(n) \in SUBSET Package /\ IsFiniteSet(Content(n))
  <2>1. n \in 0 .. Number
    OBVIOUS
  <2> QED BY <2>1, VersionUnits
<1>2. newest \in SUBSET Content(n)
  <2> DEFINE units == OfGa(Content(n), ga)
  <2>1. units \in SUBSET Package /\ units \in SUBSET Content(n) /\ \A u \in units : Ga(u) = ga
    BY <1>1 DEF OfGa
  <2>2. IsFiniteSet(units)
    <3> HIDE DEF units
    <3> QED BY <1>1, <2>1, FS_Subset
  <2>3. Newest(units) \in SUBSET units
    <3> HIDE DEF units
    <3> QED BY <2>1, <2>2, NewestOfBase
  <2> QED BY <2>1, <2>3
<1> HIDE DEF newest
<1>3. IsFiniteSet(newest) /\ newest \in SUBSET Package
  BY <1>1, <1>2, FS_Subset
<1>4. PICK s \in SetToSeqs(newest) : InOrderOf(NewerThan, s)
  BY <1>3, NewerIsStrict, OrderExists
<1>5. \A i \in DOMAIN s : s[i] \in Package
  BY <1>3, <1>4 DEF SetToSeqs
<1>6. s \in Orders(newest, NewerBase)
  <2>1. \A i, j \in DOMAIN s : i < j => ~NewerBase(s[j], s[i])
    BY <1>4, <1>5 DEF InOrderOf, NewerThan
  <2> QED BY <1>4, <2>1 DEF Orders
<1>7. Releases(ga, n) \in Orders(newest, NewerBase)
  BY <1>1, <1>6 DEF Releases, newest
<1> QED BY <1>3, <1>7 DEF Orders, newest

LEMMA RowsAreExact ==
    ASSUME RowsInv, IsFiniteSet(rows), NEW n \in 1 .. Number, NEW ga \in Gas(Content(n))
    PROVE  RowIsExact(ga, n)
<1> DEFINE units == OfGa(Content(n), ga)
           newest == Newest(units)
           s == Releases(ga, n)
           D == DOMAIN s
           named == [i \in D |-> Base(s[i])]
           row == IndexRow(ga, n)
<1>1. s \in SetToSeqs(newest) /\ IsFiniteSet(newest) /\ newest \in SUBSET Package
  BY ReleasesAreOrdered
<1>2. \A i, j \in D : i < j => ~NewerBase(s[j], s[i])
  BY ReleasesAreOrdered
<1>3. /\ \A i \in D : s[i] \in newest
      /\ \A i, j \in D : s[i] = s[j] => i = j
      /\ \A x \in newest : \E i \in D : s[i] = x
  <2> HIDE DEF newest, s
  <2> QED BY <1>1, OrderPlaces
<1>4. Content(n) \in SUBSET Package /\ IsFiniteSet(Content(n))
  <2>1. n \in 0 .. Number
    OBVIOUS
  <2> QED BY <2>1, VersionUnits
<1>5. units \in SUBSET Package /\ units \in SUBSET Content(n) /\ \A u \in units : Ga(u) = ga
  BY <1>4 DEF OfGa
<1>6. IsFiniteSet(units)
  <2> HIDE DEF units
  <2> QED BY <1>4, <1>5, FS_Subset
<1>7. /\ row.versions = named
      /\ \A i \in D : row.latest_releases[i].created_at = CreatedAt(s[i], n)
  BY DEF IndexRow, Releases, Base
<1>8. /\ newest \in SUBSET units
      /\ \A w \in units : \E x \in newest : Base(x) = Base(w)
      /\ \A x \in newest, w \in units : Base(w) = Base(x) => Created[w] <= Created[x]
      /\ \A x, y \in newest : Base(x) = Base(y) => x = y
  <2> HIDE DEF units
  <2> QED BY <1>5, <1>6, NewestOfBase
<1>9. \A x \in newest :
         x \in units /\ \A w \in units : Base(w) = Base(x) => Created[w] <= Created[x]
  BY <1>8
<1>10. \A u \in units : CreatedAt(u, n) = Entered(u, n)
  BY <1>5, RowsTellMembership DEF MembershipIsExact
<1> HIDE DEF units, newest, s
<1>11. DOMAIN named = D /\ \A i \in D : named[i] = Base(s[i])
  OBVIOUS
<1> HIDE DEF D, row
<1>12. ToSet(named) = {Base(u) : u \in units}
  <2>1. \A i \in D : s[i] \in units
    BY <1>3, <1>9
  <2>2. \A w \in units : \E i \in D : Base(s[i]) = Base(w)
    BY <1>3, <1>8
  <2> HIDE DEF named
  <2> QED BY <1>11, <2>1, <2>2 DEF ToSet
<1> HIDE DEF named
<1>13. IsInjective(named)
  <2> SUFFICES ASSUME NEW i \in D, NEW j \in D, Base(s[i]) = Base(s[j]) PROVE i = j
    BY <1>11 DEF IsInjective
  <2>1. s[i] \in newest /\ s[j] \in newest
    BY <1>3
  <2>2. s[i] = s[j]
    BY <1>8, <2>1
  <2> QED BY <1>3, <2>2
<1>14. ASSUME NEW i \in D
       PROVE  \E u \in units :
                 /\ Base(u) = named[i] /\ row.latest_releases[i].created_at = Entered(u, n)
                 /\ \A w \in units : Base(w) = named[i] => Created[w] <= Created[u]
  <2>1. s[i] \in newest /\ s[i] \in units
    BY <1>3, <1>9
  <2>2. \A w \in units : Base(w) = Base(s[i]) => Created[w] <= Created[s[i]]
    BY <1>9, <2>1
  <2>3. row.latest_releases[i].created_at = Entered(s[i], n)
    BY <1>7, <1>10, <2>1
  <2> QED BY <1>11, <2>1, <2>2, <2>3, Zenon
<1>15. ASSUME NEW i \in D, NEW j \in D, i < j
       PROVE  ~Smaller(VersionSortKey(named[i]), VersionSortKey(named[j]))
  BY <1>2, <1>11, <1>15 DEF NewerBase, Base
<1> QED
  BY <1>7, <1>11, <1>12, <1>13, <1>14, <1>15 DEF RowIsExact, Base, units, row

-----------------------------------------------------------------------------
(* Metrics.                                                                 *)

\* Logical versions: of one package, and of several.
BasesOf(units, ga) == {BaseVersion(Version[u]) : u \in OfGa(units, ga)}

Logical(units, gas) == {<<Ga(u), BaseVersion(Version[u])>> : u \in {w \in units : Ga(w) \in gas}}

VersionCount(units) == MapThenSumSet(LAMBDA ga : Cardinality(BasesOf(units, ga)), Gas(units))

\* The function by which MapThenSumSet adds.
AddsUp(f, units) ==
    f = [gas \in SUBSET Gas(units) |->
            IF gas = {} THEN 0
            ELSE LET x == CHOOSE x \in gas : TRUE
                 IN  Cardinality(BasesOf(units, x)) + f[gas \ {x}]]

LEMMA LogicalOfOne ==
    ASSUME NEW units, IsFiniteSet(units), NEW ga
    PROVE  /\ IsFiniteSet(BasesOf(units, ga)) /\ IsFiniteSet(Logical(units, {ga}))
           /\ Cardinality(Logical(units, {ga})) = Cardinality(BasesOf(units, ga))
<1> DEFINE some == OfGa(units, ga)
           f == [u \in some |-> BaseVersion(Version[u])]
           g == [b \in BasesOf(units, ga) |-> <<ga, b>>]
<1>1. IsFiniteSet(some)
  BY FS_Subset DEF OfGa
<1>2. f \in Surjection(some, BasesOf(units, ga))
  <2> HIDE DEF OfGa
  <2> QED BY DEF Surjection, BasesOf
<1>3. IsFiniteSet(BasesOf(units, ga))
  <2> HIDE DEF some, f
  <2> QED BY <1>1, <1>2, FS_Surjection
<1>4. Logical(units, {ga}) = {<<ga, b>> : b \in BasesOf(units, ga)}
  BY DEF Logical, BasesOf, OfGa
<1>5. g \in Surjection(BasesOf(units, ga), Logical(units, {ga}))
  BY <1>4 DEF Surjection
<1>6. g \in Injection(BasesOf(units, ga), Logical(units, {ga}))
  BY <1>4 DEF Injection, IsInjective
<1> HIDE DEF g
<1>7. IsFiniteSet(Logical(units, {ga}))
      /\ Cardinality(Logical(units, {ga})) = Cardinality(BasesOf(units, ga))
  BY <1>3, <1>5, <1>6, FS_Surjection
<1> QED BY <1>3, <1>7

LEMMA LogicalFinite ==
    ASSUME NEW units, IsFiniteSet(units), NEW gas PROVE IsFiniteSet(Logical(units, gas))
<1> DEFINE some == {w \in units : Ga(w) \in gas}
           f == [u \in some |-> <<Ga(u), BaseVersion(Version[u])>>]
<1>1. IsFiniteSet(some)
  BY FS_Subset
<1>2. f \in Surjection(some, Logical(units, gas))
  <2> USE DEF Logical
  <2> HIDE DEF some
  <2> QED BY DEF Surjection, some
<1> HIDE DEF some, f
<1> QED BY <1>1, <1>2, FS_Surjection

\* The logical versions of packages are those of one and those of the others.
LEMMA LogicalSplits ==
    ASSUME NEW units, IsFiniteSet(units), NEW gas, NEW ga \in gas
    PROVE  Cardinality(Logical(units, gas))
             = Cardinality(BasesOf(units, ga)) + Cardinality(Logical(units, gas \ {ga}))
<1> DEFINE one  == Logical(units, {ga})
           rest == Logical(units, gas \ {ga})
<1>1. IsFiniteSet(one) /\ IsFiniteSet(rest) /\ Cardinality(one) = Cardinality(BasesOf(units, ga))
  BY LogicalOfOne, LogicalFinite
<1>2. Logical(units, gas) = one \cup rest
  BY DEF Logical
<1>3. one \cap rest = {}
  BY DEF Logical
<1> HIDE DEF one, rest
<1>4. Cardinality(one \cup rest) = Cardinality(one) + Cardinality(rest) - Cardinality(one \cap rest)
  BY <1>1, FS_Union
<1>5. Cardinality(one \cap rest) = 0
  BY <1>3, FS_EmptySet
<1>6. Cardinality(one) \in Nat /\ Cardinality(rest) \in Nat
  BY <1>1, FS_CardinalityType
<1> QED BY <1>1, <1>2, <1>4, <1>5, <1>6 DEF rest

LEMMA SumExists ==
    ASSUME NEW units, IsFiniteSet(units)
    PROVE  AddsUp([gas \in SUBSET Gas(units) |-> Cardinality(Logical(units, gas))], units)
<1> DEFINE f == [gas \in SUBSET Gas(units) |-> Cardinality(Logical(units, gas))]
           total(gas) == IF gas = {} THEN 0
                        ELSE LET x == CHOOSE x \in gas : TRUE
                             IN  Cardinality(BasesOf(units, x)) + f[gas \ {x}]
<1>1. ASSUME NEW gas \in SUBSET Gas(units) PROVE f[gas] = total(gas)
  <2>1. CASE gas = {}
    <3>1. Logical(units, gas) = {}
      BY <2>1 DEF Logical
    <3> QED BY <2>1, <3>1, FS_EmptySet
  <2>2. CASE gas # {}
    <3> DEFINE x == CHOOSE x \in gas : TRUE
    <3>1. x \in gas
      BY <2>2
    <3> HIDE DEF x
    <3>2. Cardinality(Logical(units, gas))
             = Cardinality(BasesOf(units, x)) + Cardinality(Logical(units, gas \ {x}))
      BY <3>1, LogicalSplits
    <3>3. gas \ {x} \in SUBSET Gas(units)
      OBVIOUS
    <3>4. f[gas] = Cardinality(BasesOf(units, x)) + f[gas \ {x}]
      BY <3>2, <3>3
    <3> QED BY <2>2, <3>4 DEF x
  <2> QED BY <2>1, <2>2
<1>2. f = [gas \in SUBSET Gas(units) |-> f[gas]]
  OBVIOUS
<1> HIDE DEF f
<1>3. f = [gas \in SUBSET Gas(units) |-> total(gas)]
  <2> HIDE DEF total
  <2> QED BY <1>1, <1>2
<1>4. AddsUp(f, units)
  BY <1>3, Zenon DEF AddsUp
<1> QED BY <1>4 DEF f

LEMMA SumIsUnique ==
    ASSUME NEW units, NEW f, NEW g, AddsUp(f, units), AddsUp(g, units),
           NEW gas \in SUBSET Gas(units), IsFiniteSet(gas)
    PROVE  f[gas] = g[gas]
<1> DEFINE Good(k) == \A T \in SUBSET Gas(units) :
                         IsFiniteSet(T) /\ Cardinality(T) = k => f[T] = g[T]
           P == {k \in Nat : Good(k)}
           x(T) == CHOOSE x \in T : TRUE
<1>1. \A T \in SUBSET Gas(units) :
         f[T] = IF T = {} THEN 0 ELSE Cardinality(BasesOf(units, x(T))) + f[T \ {x(T)}]
  <2>1. f = [T \in SUBSET Gas(units) |->
                IF T = {} THEN 0 ELSE Cardinality(BasesOf(units, x(T))) + f[T \ {x(T)}]]
    BY Zenon DEF AddsUp
  <2> HIDE DEF x
  <2> QED BY <2>1, Zenon
<1>2. \A T \in SUBSET Gas(units) :
         g[T] = IF T = {} THEN 0 ELSE Cardinality(BasesOf(units, x(T))) + g[T \ {x(T)}]
  <2>1. g = [T \in SUBSET Gas(units) |->
                IF T = {} THEN 0 ELSE Cardinality(BasesOf(units, x(T))) + g[T \ {x(T)}]]
    BY Zenon DEF AddsUp
  <2> HIDE DEF x
  <2> QED BY <2>1, Zenon
<1>3. Good(0)
  <2> SUFFICES ASSUME NEW T \in SUBSET Gas(units), IsFiniteSet(T), Cardinality(T) = 0
               PROVE  f[T] = g[T]
    OBVIOUS
  <2>1. T = {}
    BY FS_EmptySet
  <2> HIDE DEF x
  <2> QED BY <1>1, <1>2, <2>1
<1>4. ASSUME NEW k \in Nat, Good(k) PROVE Good(k + 1)
  <2> SUFFICES ASSUME NEW T \in SUBSET Gas(units), IsFiniteSet(T), Cardinality(T) = k + 1
               PROVE  f[T] = g[T]
    OBVIOUS
  <2>1. T # {}
    BY FS_EmptySet
  <2>2. x(T) \in T
    BY <2>1
  <2> HIDE DEF x
  <2>3. IsFiniteSet(T \ {x(T)}) /\ Cardinality(T \ {x(T)}) = k
    <3>1. IsFiniteSet(T \ {x(T)}) /\ Cardinality(T \ {x(T)}) = Cardinality(T) - 1
      BY <2>2, FS_RemoveElement
    <3> QED BY <3>1
  <2>4. T \ {x(T)} \in SUBSET Gas(units)
    OBVIOUS
  <2>5. f[T \ {x(T)}] = g[T \ {x(T)}]
    BY <1>4, <2>3, <2>4
  <2>6. f[T] = Cardinality(BasesOf(units, x(T))) + f[T \ {x(T)}]
    BY <1>1, <2>1
  <2>7. g[T] = Cardinality(BasesOf(units, x(T))) + g[T \ {x(T)}]
    BY <1>2, <2>1
  <2> QED BY <2>5, <2>6, <2>7
<1> HIDE DEF Good
<1>5. Nat \subseteq P
  <2>1. 0 \in P /\ \A k \in Nat : k \in P => k + 1 \in P
    BY <1>3, <1>4
  <2> HIDE DEF P
  <2> QED BY <2>1, CountInduction
<1>6. Good(Cardinality(gas))
  BY <1>5, FS_CardinalityType
<1> QED BY <1>6 DEF Good

LEMMA SumOfVersions ==
    ASSUME NEW units, IsFiniteSet(units)
    PROVE  VersionCount(units) = Cardinality(Logical(units, Gas(units)))
<1> DEFINE g == [gas \in SUBSET Gas(units) |-> Cardinality(Logical(units, gas))]
           f == CHOOSE f : AddsUp(f, units)
           h == [u \in units |-> Ga(u)]
<1>1. AddsUp(g, units)
  BY SumExists
<1>2. AddsUp(f, units)
  <2> HIDE DEF g
  <2> QED BY <1>1, Zenon
<1>3. VersionCount(units) = f[Gas(units)]
  BY Zenon DEF VersionCount, MapThenSumSet, MapThenFoldSet, AddsUp
<1>4. h \in Surjection(units, Gas(units))
  BY DEF Surjection, Gas
<1>5. IsFiniteSet(Gas(units))
  <2> HIDE DEF h
  <2> QED BY <1>4, FS_Surjection
<1>6. g[Gas(units)] = Cardinality(Logical(units, Gas(units)))
  OBVIOUS
<1> HIDE DEF f, g
<1>7. f[Gas(units)] = g[Gas(units)]
  BY <1>1, <1>2, <1>5, SumIsUnique
<1> QED BY <1>3, <1>6, <1>7

LEMMA BuildsAreUnits ==
    ASSUME NEW units \in SUBSET Package, IsFiniteSet(units)
    PROVE  Cardinality({<<Ga(u), Version[u]>> : u \in units}) = Cardinality(units)
<1> DEFINE builds == {<<Ga(u), Version[u]>> : u \in units}
           f == [u \in units |-> <<Ga(u), Version[u]>>]
<1>1. f \in Surjection(units, builds)
  BY DEF Surjection
<1>2. \A u, w \in units : f[u] = f[w] => u = w
  <2> SUFFICES ASSUME NEW u \in units, NEW w \in units, f[u] = f[w] PROVE u = w
    OBVIOUS
  <2>1. Ga(u) = Ga(w) /\ Version[u] = Version[w]
    OBVIOUS
  <2>2. Group[u] = Group[w] /\ Artifact[u] = Artifact[w]
    BY <2>1, GasAreNumbers
  <2>3. u \in Package /\ w \in Package
    OBVIOUS
  <2> HIDE DEF f
  <2> QED BY <2>1, <2>2, <2>3, CatalogAssumption
<1>3. f \in Injection(units, builds)
  <2>1. f \in [units -> builds] /\ DOMAIN f = units
    OBVIOUS
  <2> HIDE DEF f, builds
  <2> QED BY <1>2, <2>1 DEF Injection, IsInjective
<1> HIDE DEF f, builds
<1>4. Cardinality(builds) = Cardinality(units)
  BY <1>1, <1>3, FS_Surjection
<1> QED BY <1>4 DEF builds

LEMMA MetricsExact ==
    ASSUME RowsInv, IsFiniteSet(rows), NEW n \in 1 .. Number
    PROVE  MetricsAreExact(n)
<1> DEFINE units == Content(n)
<1>1. PackagesInVersion(n) = units /\ units \in SUBSET Package /\ IsFiniteSet(units)
  <2>1. n \in 0 .. Number
    OBVIOUS
  <2> QED BY <2>1, VersionUnits
<1>2. {<<Ga(u), BaseVersion(Version[u])>> : u \in units} = Logical(units, Gas(units))
  BY DEF Logical, Gas
<1> HIDE DEF units
<1>3. VersionCount(units) = Cardinality({<<Ga(u), BaseVersion(Version[u])>> : u \in units})
  BY <1>1, <1>2, SumOfVersions, Zenon
<1>4. Cardinality({<<Ga(u), Version[u]>> : u \in units}) = Cardinality(units)
  BY <1>1, BuildsAreUnits
<1> QED BY <1>1, <1>3, <1>4, Zenon DEF MetricsAreExact, Metrics, VersionCount, BasesOf, Gas, units

\* What the catalog says of a complete version is what that version holds: one row per
\* package, one release per logical version, newest first, with the times at which the
\* units entered; and the metrics count the same rows.
THEOREM CatalogIsAlwaysExact == CatalogSpec => []CatalogIsExact
<1>1. ASSUME RowsInv, IsFiniteSet(rows) PROVE CatalogIsExact
  <2>1. MembershipIsExact
    BY <1>1, RowsTellMembership
  <2>2. \A n \in 1 .. Number : MetricsAreExact(n)
    BY <1>1, MetricsExact
  <2>3. \A n \in 1 .. Number : \A ga \in Gas(Content(n)) : RowIsExact(ga, n)
    BY <1>1, RowsAreExact
  <2> QED BY <2>1, <2>2, <2>3, Zenon DEF CatalogIsExact, Gas
<1>2. RowsInv /\ IsFiniteSet(rows) => CatalogIsExact
  BY <1>1
<1> QED BY <1>2, RowsInvariant, RowsAreFinite, PTL

-----------------------------------------------------------------------------
(* Versions, views and copies of the content app.                           *)

Path == {<<f, "file">> : f \in File} \cup {Page(d) : d \in Directory}

Body == Bytes \cup UNION {[some -> Bytes] : some \in SUBSET File}

Entry == [bytes : Body, since : Nat]

\* A version is a function from some paths to their entries.
Listing == UNION {[some -> Entry] : some \in SUBSET Path}

\* Versions are listings, of entries that are not newer than the clock.
ListedInv ==
    /\ second \in Nat
    /\ versions \in Seq(Listing) /\ versions # <<>>
    /\ \A i \in 1 .. Len(versions) :
          \A p \in DOMAIN versions[i] : versions[i][p].since <= second

HasFiles(v) ==
    \A d \in Directory :
        Page(d) \in DOMAIN v =>
            distribution.remote \/ \E f \in Below[d] : <<f, "file">> \in DOMAIN v

\* Without a remote a page has a file below it.
PagesInv == \A i \in 1 .. Len(versions) : HasFiles(versions[i])

\* A path whose entry is not newer in a later version has the same bytes there, even
\* if it was away or had others in between.
DatesInv ==
    distribution.steady =>
        \A i, j \in 1 .. Len(versions) : i <= j =>
            \A p \in DOMAIN versions[i] \cap DOMAIN versions[j] :
                versions[j][p].since <= versions[i][p].since =>
                    versions[j][p].bytes = versions[i][p].bytes

ViewInv == view # None => view \in 1 .. Len(versions)

\* A dated copy is an entry of the version it came from.
CopyInv ==
    copy # None /\ copy.date # None /\ distribution.steady =>
        /\ copy.version \in 1 .. Len(versions)
        /\ IndexPath \in DOMAIN versions[copy.version]
        /\ versions[copy.version][IndexPath].bytes = copy.bytes
        /\ versions[copy.version][IndexPath].since = copy.date

UrlInv == distribution \in Distribution /\ url \in Url

\* Where paths are only added, the filter has those of the latest version, and of the
\* version that is about to follow it.
FilterInv ==
    AsksFilter /\ distribution.growing =>
        /\ Paths(LatestFiles) \subseteq filter
        /\ modifying # None =>
              /\ Paths(LatestFiles) \subseteq Paths(WithPages(modifying))
              /\ Paths(WithPages(modifying)) \subseteq filter

HandlerInv ==
    /\ UrlInv /\ ListedInv /\ PagesInv /\ DatesInv /\ ViewInv /\ CopyInv /\ FilterInv
    /\ AnswersMatchVersion /\ RevalidationIsSound

-----------------------------------------------------------------------------
(* Versions.                                                                *)

LEMMA ListingMembers ==
    \A v : v \in Listing <=> v \in [DOMAIN v -> Entry] /\ DOMAIN v \subseteq Path
BY DEF Listing

LEMMA EntryMembers ==
    /\ \A b \in Body, s \in Nat : [bytes |-> b, since |-> s] \in Entry
    /\ \A e \in Entry : e.bytes \in Body /\ e.since \in Nat
BY DEF Entry

\* What v may hold when it follows the latest version: entries of that, and new ones.
Follows(v) ==
    \A p \in DOMAIN v :
        \/ p \in DOMAIN LatestFiles /\ v[p] = LatestFiles[p]
        \/ v[p].since = second'

LEMMA Appended ==
    ASSUME ListedInv, PagesInv, DatesInv, ViewInv, CopyInv, Tick,
           NEW v \in Listing, Follows(v), HasFiles(v),
           versions' = Append(versions, v), UNCHANGED <<distribution, url, view, copy>>
    PROVE  (ListedInv /\ PagesInv /\ DatesInv /\ ViewInv /\ CopyInv)'
<1> DEFINE n == Len(versions)
<1>1. /\ n \in Nat \ {0} /\ Len(versions') = n + 1
      /\ versions' \in Seq(Listing)
      /\ \A i \in 1 .. n : versions'[i] = versions[i]
      /\ versions'[n + 1] = v
  BY DEF ListedInv
<1>2. /\ second \in Nat /\ second' \in Nat /\ second <= second'
      /\ distribution.steady => second' = second + 1
  BY DEF ListedInv, Tick
<1>3. LatestFiles = versions[n] /\ versions[n] \in Listing
  BY <1>1 DEF LatestFiles, ListedInv
<1>4. \A p \in DOMAIN v : v[p].since \in Nat /\ v[p].since <= second'
  <2> SUFFICES ASSUME NEW p \in DOMAIN v PROVE v[p].since \in Nat /\ v[p].since <= second'
    OBVIOUS
  <2>1. v[p] \in Entry
    BY ListingMembers
  <2>2. CASE p \in DOMAIN LatestFiles /\ v[p] = LatestFiles[p]
    <3>1. v[p].since <= second
      BY <1>1, <1>3, <2>2 DEF ListedInv
    <3> QED
      BY <1>2, <2>1, <3>1, EntryMembers
  <2>3. CASE v[p].since = second'
    BY <1>2, <2>3
  <2> QED
    BY <2>2, <2>3 DEF Follows
<1>5. \A i \in 1 .. n : \A p \in DOMAIN versions[i] :
          versions[i][p].since \in Nat /\ versions[i][p].since <= second
  <2> SUFFICES ASSUME NEW i \in 1 .. n, NEW p \in DOMAIN versions[i]
               PROVE  versions[i][p].since \in Nat
    BY DEF ListedInv
  <2>1. versions[i] \in Listing
    BY DEF ListedInv
  <2> QED
    BY <2>1, ListingMembers, EntryMembers
<1>6. ListedInv'
  <2>1. versions' # <<>>
    BY <1>1
  <2>2. ASSUME NEW i \in 1 .. Len(versions'), NEW p \in DOMAIN versions'[i]
        PROVE  versions'[i][p].since <= second'
    <3>1. CASE i \in 1 .. n
      BY <1>1, <1>2, <1>5, <3>1
    <3>2. CASE i = n + 1
      BY <1>1, <1>4, <3>2
    <3> QED
      BY <1>1, <3>1, <3>2
  <2> QED
    BY <1>1, <1>2, <2>1, <2>2 DEF ListedInv
<1>7. PagesInv'
  <2> SUFFICES ASSUME NEW i \in 1 .. Len(versions') PROVE HasFiles(versions[i])'
    BY DEF PagesInv
  <2>1. CASE i \in 1 .. n
    BY <1>1, <2>1 DEF PagesInv, HasFiles, Page
  <2>2. CASE i = n + 1
    BY <1>1, <2>2 DEF HasFiles, Page
  <2> QED
    BY <1>1, <2>1, <2>2
<1>8. DatesInv'
  <2> SUFFICES ASSUME distribution.steady,
                      NEW i \in 1 .. n + 1, NEW j \in 1 .. n + 1, i <= j,
                      NEW p \in DOMAIN versions'[i], p \in DOMAIN versions'[j],
                      versions'[j][p].since <= versions'[i][p].since
               PROVE  versions'[j][p].bytes = versions'[i][p].bytes
    BY <1>1 DEF DatesInv
  <2>1. CASE j \in 1 .. n
    <3>1. i \in 1 .. n
      BY <1>1, <2>1
    <3> QED
      BY <1>1, <2>1, <3>1 DEF DatesInv
  <2>2. CASE i = n + 1 /\ j = n + 1
    BY <2>2
  <2>3. CASE i \in 1 .. n /\ j = n + 1
    <3>1. versions'[i] = versions[i] /\ versions'[j] = v
      BY <1>1, <2>3
    <3>2. v[p].since # second'
      BY <1>2, <1>5, <2>3, <3>1
    <3>3. p \in DOMAIN versions[n] /\ v[p] = versions[n][p]
      BY <1>3, <3>1, <3>2 DEF Follows
    <3> QED
      BY <1>1, <2>3, <3>1, <3>3 DEF DatesInv
  <2> QED
    BY <1>1, <2>1, <2>2, <2>3
<1>9. ViewInv'
  BY <1>1 DEF ViewInv
<1>10. CopyInv'
  <2>1. IndexPath' = IndexPath
    BY DEF IndexPath, Page
  <2> QED
    BY <1>1, <2>1 DEF CopyInv
<1> QED
  BY <1>6, <1>7, <1>8, <1>9, <1>10

-----------------------------------------------------------------------------
(* The repository.                                                          *)

LEMMA FileSetMembers ==
    \A files \in FileSets :
        DOMAIN files \subseteq File /\ \A f \in DOMAIN files : files[f] \in Bytes
BY DEF FileSets

LEMMA PathsApart ==
    /\ \A f \in File : <<f, "file">> \in Path /\ \A d \in Directory : <<f, "file">> # Page(d)
    /\ \A d \in Directory : Page(d) \in Path /\ Page(d)[1] = d /\ Page(d)[2] # "file"
    /\ \A p \in Path : \/ p[2] = "file" /\ p[1] \in File /\ p = <<p[1], "file">>
                       \/ p[2] = "page" /\ p[1] \in Directory /\ p = Page(p[1])
BY DEF Path, Page

LEMMA PagesListed ==
    ASSUME NEW files \in FileSets
    PROVE  /\ DOMAIN WithPages(files) \subseteq Path
           /\ \A p \in DOMAIN WithPages(files) : WithPages(files)[p] \in Body
           /\ HasFiles(WithPages(files))
<1> DEFINE below(d) == Below[d] \cap DOMAIN files
           pages == {Page(d) : d \in {e \in Directory : below(e) # {}}}
           all == {<<f, "file">> : f \in DOMAIN files} \cup pages
<1>1. DOMAIN WithPages(files) = all
  BY DEF WithPages
<1>2. all \subseteq Path
  BY FileSetMembers, PathsApart
<1>3. ASSUME NEW p \in all PROVE WithPages(files)[p] \in Body
  <2>1. CASE p[2] = "file"
    <3>1. WithPages(files)[p] = files[p[1]]
      BY <2>1 DEF WithPages
    <3>2. p[1] \in DOMAIN files
      BY <2>1, PathsApart
    <3> QED
      BY <3>1, <3>2, FileSetMembers DEF Body
  <2>2. CASE p[2] # "file"
    <3> DEFINE page == [f \in below(p[1]) |-> files[f]]
    <3>1. WithPages(files)[p] = page
      BY <2>2 DEF WithPages
    <3>2. page \in [below(p[1]) -> Bytes] /\ below(p[1]) \in SUBSET File
      BY FileSetMembers
    <3> QED
      BY <3>1, <3>2 DEF Body
  <2> QED
    BY <2>1, <2>2
<1>4. ASSUME NEW d \in Directory, Page(d) \in all
      PROVE  \E f \in Below[d] : <<f, "file">> \in all
  <2>1. PICK e \in Directory : Page(e) = Page(d) /\ below(e) # {}
    BY <1>4, FileSetMembers, PathsApart
  <2>2. e = d
    BY <2>1, PathsApart
  <2> QED
    BY <2>1, <2>2
<1> QED
  BY <1>1, <1>2, <1>3, <1>4 DEF HasFiles

LEMMA SilentAnswer ==
    ASSUME answer' = None PROVE (AnswersMatchVersion /\ RevalidationIsSound)'
BY DEF AnswersMatchVersion, RevalidationIsSound

LEMMA LatestOfAppended ==
    ASSUME ListedInv, NEW v \in Listing, versions' = Append(versions, v)
    PROVE  LatestFiles' = v
BY DEF ListedInv, LatestFiles

LEMMA FilterKept ==
    ASSUME FilterInv, UNCHANGED <<distribution, versions, filterVars>>
    PROVE  FilterInv'
BY DEF FilterInv, AsksFilter, LatestFiles, Paths, WithPages, Page, filterVars

LEMMA RepositoryKept ==
    ASSUME HandlerInv, UNCHANGED <<distribution, url, versions, second, view, copy>>
    PROVE  (UrlInv /\ ListedInv /\ PagesInv /\ DatesInv /\ ViewInv /\ CopyInv)'
<1>1. (UrlInv /\ ListedInv /\ PagesInv /\ DatesInv /\ ViewInv)'
  BY DEF HandlerInv, UrlInv, ListedInv, PagesInv, HasFiles, Page, DatesInv, ViewInv
<1>2. CopyInv'
  BY DEF HandlerInv, CopyInv, IndexPath, Page
<1> QED
  BY <1>1, <1>2

LEMMA ModifyStep ==
    ASSUME HandlerInv, NEW files \in FileSets, Modify(files) PROVE HandlerInv'
<1> DEFINE w == WithPages(files)
           v == Members(w, LatestFiles)
<1>1. LatestFiles \in Listing /\ second' \in Nat
  BY DEF HandlerInv, ListedInv, LatestFiles, Modify, Tick
<1>2. DOMAIN v = DOMAIN w /\ DOMAIN v \subseteq Path
  BY PagesListed DEF Members
<1>3. ASSUME NEW p \in DOMAIN v
      PROVE  /\ v[p] \in Entry
             /\ \/ p \in DOMAIN LatestFiles /\ v[p] = LatestFiles[p]
                \/ v[p].since = second'
  <2>1. w[p] \in Body
    BY <1>2, PagesListed
  <2>2. CASE p \in DOMAIN LatestFiles /\ LatestFiles[p].bytes = w[p]
    <3>1. v[p] = LatestFiles[p]
      BY <1>2, <2>2 DEF Members, Paths
    <3> QED
      BY <1>1, <2>2, <3>1, ListingMembers
  <2>3. CASE ~(p \in DOMAIN LatestFiles /\ LatestFiles[p].bytes = w[p])
    <3>1. v[p] = [bytes |-> w[p], since |-> second']
      BY <1>2, <2>3 DEF Members, Paths
    <3> QED
      BY <1>1, <2>1, <3>1, EntryMembers
  <2> QED
    BY <2>2, <2>3
<1>4. v \in Listing
  <2>1. v = [p \in DOMAIN v |-> v[p]]
    BY <1>2 DEF Members
  <2> HIDE DEF v
  <2>2. v \in [DOMAIN v -> Entry]
    BY <1>3, <2>1
  <2> QED
    BY <1>2, <2>2, ListingMembers
<1>5. Follows(v) /\ HasFiles(v)
  BY <1>2, <1>3, PagesListed DEF Follows, HasFiles
<1>6. /\ versions' = Append(versions, v) /\ Tick
      /\ answer' = None /\ UNCHANGED <<distribution, url, view, copy>>
  BY DEF Modify
<1> HIDE DEF v
<1>7. (ListedInv /\ PagesInv /\ DatesInv /\ ViewInv /\ CopyInv)'
  BY <1>4, <1>5, <1>6, Appended DEF HandlerInv
<1>8. UrlInv'
  BY <1>6 DEF HandlerInv, UrlInv
<1>9. FilterInv'
  <2> SUFFICES ASSUME AsksFilter, distribution.growing
               PROVE  /\ Paths(LatestFiles') \subseteq filter' /\ modifying' = None
    BY <1>6 DEF FilterInv, AsksFilter, Paths
  <2>1. modifying = files /\ modifying' = None /\ filter' = filter
    BY DEF Modify
  <2>2. files # None
    BY ContentHandlerAssumption DEF FileSets
  <2>3. Paths(w) \subseteq filter
    BY <2>1, <2>2 DEF HandlerInv, FilterInv
  <2>4. LatestFiles' = v
    BY <1>4, <1>6, LatestOfAppended DEF HandlerInv
  <2> QED BY <1>2, <2>1, <2>3, <2>4 DEF Paths
<1> QED
  BY <1>6, <1>7, <1>8, <1>9, SilentAnswer DEF HandlerInv

LEMMA UpdateFilterStep ==
    ASSUME HandlerInv, NEW files \in FileSets, UpdateFilter(files) PROVE HandlerInv'
<1> DEFINE w == WithPages(files)
           changed == {p \in Paths(w) : p \in Paths(LatestFiles) => LatestFiles[p].bytes # w[p]}
<1>1. /\ answer' = None /\ UNCHANGED <<distribution, url, versions, second, view, copy>>
      /\ modifying' = files
      /\ distribution.growing => Paths(LatestFiles) \subseteq Paths(w)
      /\ filter' = filter \cup changed \/ filter' = Paths(w)
  BY DEF UpdateFilter
<1>2. FilterInv'
  <2> SUFFICES ASSUME AsksFilter, distribution.growing
               PROVE  /\ Paths(LatestFiles) \subseteq filter'
                      /\ Paths(LatestFiles) \subseteq Paths(w) /\ Paths(w) \subseteq filter'
    BY <1>1 DEF FilterInv, AsksFilter, LatestFiles, Paths, WithPages, Page
  <2>1. Paths(LatestFiles) \subseteq filter /\ Paths(LatestFiles) \subseteq Paths(w)
    BY <1>1 DEF HandlerInv, FilterInv
  <2>2. Paths(w) \subseteq filter \cup changed
    BY <2>1
  <2> HIDE DEF w, changed
  <2> QED BY <1>1, <2>1, <2>2
<1> QED
  BY <1>1, <1>2, RepositoryKept, SilentAnswer DEF HandlerInv

LEMMA DropModifyStep == ASSUME HandlerInv, DropModify PROVE HandlerInv'
<1>1. /\ answer' = None /\ UNCHANGED <<distribution, url, versions, second, view, copy>>
      /\ modifying' = None /\ filter' = filter
  BY DEF DropModify
<1>2. FilterInv'
  BY <1>1 DEF HandlerInv, FilterInv, AsksFilter, LatestFiles, Paths
<1> QED
  BY <1>1, <1>2, RepositoryKept, SilentAnswer DEF HandlerInv

LEMMA PullThroughStep ==
    ASSUME HandlerInv, NEW f \in File, NEW bytes \in Bytes, PullThrough(f, bytes)
    PROVE  HandlerInv'
<1> DEFINE added == [bytes |-> bytes, since |-> second']
           v == [p \in Paths(LatestFiles) \cup {<<f, "file">>} |->
                    IF p \in Paths(LatestFiles) THEN LatestFiles[p] ELSE added]
<1>1. LatestFiles \in Listing /\ second' \in Nat
  BY DEF HandlerInv, ListedInv, LatestFiles, PullThrough, Tick
<1>2. added \in Entry /\ added.since = second'
  BY <1>1, EntryMembers DEF Body
<1> HIDE DEF added
<1>3. v \in Listing
  <2>1. DOMAIN v \subseteq Path
    BY <1>1, ListingMembers, PathsApart DEF Paths
  <2>2. \A p \in Paths(LatestFiles) : LatestFiles[p] \in Entry
    BY <1>1, ListingMembers DEF Paths
  <2>3. v \in [DOMAIN v -> Entry]
    BY <1>2, <2>2
  <2> HIDE DEF v
  <2> QED
    BY <2>1, <2>3, ListingMembers
<1>4. Follows(v)
  BY <1>2 DEF Follows, Paths
<1>5. HasFiles(v)
  BY DEF HasFiles, PullThrough
<1>6. /\ versions' = Append(versions, v) /\ Tick
      /\ answer' = None /\ UNCHANGED <<distribution, url, view, copy>>
  BY DEF PullThrough, added
<1> HIDE DEF v
<1>7. (ListedInv /\ PagesInv /\ DatesInv /\ ViewInv /\ CopyInv)'
  BY <1>3, <1>4, <1>5, <1>6, Appended DEF HandlerInv
<1>8. UrlInv'
  BY <1>6 DEF HandlerInv, UrlInv
<1>9. FilterInv'
  BY DEF FilterInv, AsksFilter, PullThrough
<1> QED
  BY <1>6, <1>7, <1>8, <1>9, SilentAnswer DEF HandlerInv

\* Only a distribution that is not steady loses versions.
LEMMA DeleteVersionStep ==
    ASSUME HandlerInv, DeleteVersion PROVE HandlerInv'
<1> DEFINE n == Len(versions)
<1>1. /\ n \in Nat /\ n > 1 /\ ~distribution.steady
      /\ versions \in Seq(Listing)
      /\ versions' = SubSeq(versions, 1, n - 1)
      /\ answer' = None /\ UNCHANGED <<distribution, url, second, copy>>
      /\ view' = IF view = n THEN None ELSE view
  BY DEF HandlerInv, ListedInv, DeleteVersion
<1>2. /\ Len(versions') = n - 1 /\ versions' \in Seq(Listing)
      /\ \A i \in 1 .. n - 1 : versions'[i] = versions[i]
  BY <1>1
<1>3. ListedInv'
  <2>1. Len(versions') # 0
    BY <1>1, <1>2
  <2>2. versions' # <<>>
    BY <2>1
  <2> QED
    BY <1>1, <1>2, <2>2 DEF HandlerInv, ListedInv
<1>4. PagesInv'
  <2> SUFFICES ASSUME NEW i \in 1 .. n - 1 PROVE HasFiles(versions[i])'
    BY <1>2 DEF PagesInv
  <2>1. HasFiles(versions[i])
    BY <1>1 DEF HandlerInv, PagesInv
  <2>2. versions'[i] = versions[i] /\ distribution' = distribution
    BY <1>1, <1>2
  <2> QED BY <2>1, <2>2 DEF HasFiles
<1>5. ViewInv'
  BY <1>1, <1>2 DEF HandlerInv, ViewInv
<1>6. UrlInv' /\ DatesInv' /\ CopyInv' /\ FilterInv'
  BY <1>1 DEF HandlerInv, UrlInv, DatesInv, CopyInv, FilterInv, DeleteVersion
<1> QED
  BY <1>1, <1>3, <1>4, <1>5, <1>6, SilentAnswer DEF HandlerInv

LEMMA SwitchViewStep ==
    ASSUME HandlerInv, NEW v, SwitchView(v) PROVE HandlerInv'
<1>1. answer' = None /\ UNCHANGED <<distribution, url, versions, second, copy>>
  BY DEF SwitchView
<1>2. ViewInv'
  BY DEF SwitchView, ViewInv
<1>3. (UrlInv /\ ListedInv /\ PagesInv /\ DatesInv /\ CopyInv)'
  BY <1>1 DEF HandlerInv, UrlInv, ListedInv, PagesInv, HasFiles, Page, DatesInv, CopyInv, IndexPath
<1>4. FilterInv'
  BY FilterKept DEF SwitchView, HandlerInv
<1> QED
  BY <1>1, <1>2, <1>3, <1>4, SilentAnswer DEF HandlerInv

-----------------------------------------------------------------------------
(* Requests.                                                                *)

UrlKinds ==
    \/ url[2] = "file" /\ url[1] \in File /\ url = <<url[1], "file">>
    \/ url[1] \in Directory /\ url[2] \in {"slash", "bare", "page"} /\ url = <<url[1], url[2]>>

LEMMA UrlIsKnown == ASSUME UrlInv PROVE UrlKinds
<1>1. url \in (File \X {"file"}) \cup (Directory \X {"slash", "bare", "page"})
  BY ContentHandlerAssumption DEF UrlInv
<1> QED
  BY <1>1 DEF UrlKinds

\* What a request may ask the client's copy to be checked against.
ValidRequest(q) ==
    /\ \A tag \in q.none : tag.bytes = copy.bytes
    /\ q.match # {} => Strong(copy.bytes) \in q.match \/ Weak(copy.bytes) \in q.match
    /\ q.since # None => copy # None /\ q.since = copy.date

LEMMA RequestsAreValid == ASSUME NEW q \in Requests PROVE ValidRequest(q)
BY DEF Requests, ValidRequest, Header, Strong, Weak

LEMMA VersionsAreListings ==
    ASSUME HandlerInv, NEW i \in 1 .. Len(versions)
    PROVE  /\ DOMAIN versions[i] \subseteq Path
           /\ \A p \in DOMAIN versions[i] : versions[i][p].since \in Nat
<1>1. versions[i] \in Listing
  BY DEF HandlerInv, ListedInv
<1> QED
  BY <1>1, ListingMembers, EntryMembers

\* An answer of 304 or 412 is sound, by entity tag or by date.
LEMMA ConditionsAreSound ==
    ASSUME HandlerInv, NEW q \in Requests, NEW i \in 1 .. Len(versions),
           IndexPath \in DOMAIN versions[i]
    PROVE  /\ ConditionalStatus(q, versions[i][IndexPath]) = 304 =>
                \/ copy.bytes = versions[i][IndexPath].bytes
                \/ q.none = {} /\ (distribution.steady => copy.version > i)
           /\ ConditionalStatus(q, versions[i][IndexPath]) = 412 =>
                \/ q.match = {} \/ Weak(copy.bytes) \in q.match
                \/ copy.bytes # versions[i][IndexPath].bytes
<1> DEFINE entry == versions[i][IndexPath]
<1>1. ValidRequest(q)
  BY RequestsAreValid
<1>2. ASSUME ConditionalStatus(q, entry) = 304
      PROVE  \/ copy.bytes = entry.bytes
             \/ q.none = {} /\ (distribution.steady => copy.version > i)
  <2>1. NotModified(q, entry)
    BY <1>2 DEF ConditionalStatus
  <2>2. CASE \E tag \in q.none : tag.bytes = entry.bytes
    BY <1>1, <2>2 DEF ValidRequest
  <2>3. CASE q.none = {} /\ q.since # None /\ entry.since <= q.since
    <3>1. copy # None /\ copy.date # None /\ entry.since <= copy.date
      BY <1>1, <2>3 DEF ValidRequest
    <3>2. ASSUME distribution.steady, ~(copy.version > i) PROVE copy.bytes = entry.bytes
      <4>1. /\ copy.version \in 1 .. Len(versions) /\ IndexPath \in DOMAIN versions[copy.version]
            /\ versions[copy.version][IndexPath].bytes = copy.bytes
            /\ versions[copy.version][IndexPath].since = copy.date
        BY <3>1, <3>2 DEF HandlerInv, CopyInv
      <4>2. copy.version <= i
        BY <3>2, <4>1
      <4> QED
        BY <3>1, <3>2, <4>1, <4>2 DEF HandlerInv, DatesInv
    <3> QED
      BY <2>3, <3>2
  <2> QED
    BY <2>1, <2>2, <2>3 DEF NotModified
<1>3. ASSUME ConditionalStatus(q, entry) = 412, q.match # {}, Weak(copy.bytes) \notin q.match
      PROVE  copy.bytes # entry.bytes
  <2>1. Failed(q, entry)
    BY <1>3 DEF ConditionalStatus
  <2> QED
    BY <1>1, <1>3, <2>1 DEF Failed, ValidRequest
<1> QED
  BY <1>2, <1>3

\* The copy is an entry of the version that was answered from.
LEMMA NewCopy ==
    ASSUME HandlerInv, NEW q, NEW status, NEW i \in 1 .. Len(versions), NEW entry, NEW indexed,
           NEW filtered, Received(q, status, i, entry, indexed, filtered),
           status = 200 /\ indexed =>
               IndexPath \in DOMAIN versions[i] /\ entry = versions[i][IndexPath]
    PROVE  (UrlInv /\ ListedInv /\ PagesInv /\ DatesInv /\ ViewInv /\ CopyInv /\ FilterInv)'
<1>1. UNCHANGED <<distribution, url, versions, second, view>>
  BY DEF Received
<1>2. (UrlInv /\ ListedInv /\ PagesInv /\ DatesInv /\ ViewInv)'
  BY <1>1 DEF HandlerInv, UrlInv, ListedInv, PagesInv, HasFiles, Page, DatesInv, ViewInv
<1>3. IndexPath' = IndexPath
  BY <1>1 DEF IndexPath, Page
<1>4. ASSUME status # 200 PROVE CopyInv'
  <2>1. copy' = copy
    BY <1>4 DEF Received
  <2> QED
    BY <1>1, <1>3, <2>1 DEF HandlerInv, CopyInv
<1>5. ASSUME status = 200 PROVE CopyInv'
  <2>1. copy' = [bytes |-> entry.bytes, version |-> i, tagged |-> indexed \/ url[2] = "slash",
                 date |-> IF indexed THEN entry.since ELSE None]
    BY <1>5 DEF Received
  <2>2. copy'.bytes = entry.bytes /\ copy'.version = i
        /\ copy'.date = IF indexed THEN entry.since ELSE None
    BY <2>1
  <2> QED
    BY <1>1, <1>3, <1>5, <2>2 DEF CopyInv
<1>6. FilterInv'
  BY FilterKept DEF Received, HandlerInv
<1> QED
  BY <1>2, <1>4, <1>5, <1>6

LEMMA GetIndexedStep ==
    ASSUME HandlerInv, NEW q \in Requests, GetIndexed(q) PROVE HandlerInv'
<1> DEFINE v == versions[view]
           entry == IF IndexPath \in DOMAIN v THEN v[IndexPath] ELSE NoEntry
<1>1. view \in 1 .. Len(versions) /\ Received(q, IndexStatus(q), view, entry, TRUE, FALSE)
  BY DEF HandlerInv, ViewInv, GetIndexed, Indexed, Paths
<1>2. UrlKinds
  BY UrlIsKnown DEF HandlerInv
<1>3. IndexPath \in DOMAIN v => IndexStatus(q) = ConditionalStatus(q, v[IndexPath])
  <2>1. IndexPath \in DOMAIN v => url[2] # "bare"
    BY <1>1, <1>2, VersionsAreListings, PathsApart DEF UrlKinds, IndexPath
  <2> QED
    BY <2>1 DEF IndexStatus, Paths
<1>4. IndexPath \notin DOMAIN v =>
        \/ IndexStatus(q) = 301 /\ url[2] = "bare" /\ Page(url[1]) \in DOMAIN v
        \/ IndexStatus(q) = 404 /\ ~(url[2] = "bare" /\ Page(url[1]) \in DOMAIN v)
  BY DEF IndexStatus, Paths
<1>5. \A e : ConditionalStatus(q, e) \in {200, 304, 412}
  BY DEF ConditionalStatus
<1>6. IndexStatus(q) = 200 => IndexPath \in DOMAIN v /\ entry = v[IndexPath]
  BY <1>4
<1>7. (UrlInv /\ ListedInv /\ PagesInv /\ DatesInv /\ ViewInv /\ CopyInv /\ FilterInv)'
  BY <1>1, <1>6, NewCopy
<1>8. /\ UNCHANGED <<distribution, url, versions>>
      /\ answer'.status = IndexStatus(q) /\ answer'.version = view /\ answer'.request = q
      /\ IndexStatus(q) = 200 => answer'.bytes = entry.bytes
      /\ IndexStatus(q) # 200 => copy' = copy
  BY <1>1 DEF Received
<1>9. AnswersMatchVersion'
  <2>1. IndexStatus(q) = 200 => IndexPath \in DOMAIN v /\ v[IndexPath].bytes = answer'.bytes
    BY <1>6, <1>8
  <2>2. IndexStatus(q) = 301 => url[2] = "bare" /\ Page(url[1]) \in DOMAIN v
    BY <1>3, <1>4, <1>5
  <2>3. IndexStatus(q) = 404 => IndexPath \notin DOMAIN v /\ Page(url[1]) \notin DOMAIN v
    <3>1. ASSUME IndexStatus(q) = 404
          PROVE  IndexPath \notin DOMAIN v /\ ~(url[2] = "bare" /\ Page(url[1]) \in DOMAIN v)
      BY <1>3, <1>4, <1>5, <3>1
    <3>2. DOMAIN v \subseteq Path
      BY <1>1, VersionsAreListings
    <3>3. url[2] = "file" => Page(url[1]) \notin Path
      BY <1>2, ContentHandlerAssumption DEF UrlKinds, Path, Page
    <3> QED
      BY <1>2, <3>1, <3>2, <3>3 DEF UrlKinds, IndexPath, Page
  <2> QED
    BY <1>8, <2>1, <2>2, <2>3 DEF AnswersMatchVersion, IndexPath, Page, Paths
<1>10. RevalidationIsSound'
  <2>1. ASSUME answer'.status \in {304, 412}
        PROVE  /\ IndexPath \in DOMAIN v /\ copy' = copy
               /\ answer'.status = ConditionalStatus(q, v[IndexPath])
    BY <1>3, <1>4, <1>8, <2>1
  <2>2. IndexPath \in DOMAIN v =>
          /\ ConditionalStatus(q, v[IndexPath]) = 304 =>
                copy.bytes = v[IndexPath].bytes
                \/ (q.none = {} /\ (distribution.steady => copy.version > view))
          /\ ConditionalStatus(q, v[IndexPath]) = 412 =>
                \/ q.match = {} \/ Weak(copy.bytes) \in q.match
                \/ copy.bytes # v[IndexPath].bytes
    BY <1>1, ConditionsAreSound
  <2>3. ASSUME answer'.status = 304
        PROVE  \/ copy'.bytes = v[IndexPath].bytes
               \/ q.none = {} /\ (distribution.steady => copy'.version > view)
    BY <2>1, <2>2, <2>3
  <2>4. ASSUME answer'.status = 412
        PROVE  \/ q.match = {} \/ Weak(copy'.bytes) \in q.match
               \/ copy'.bytes # v[IndexPath].bytes
    BY <2>1, <2>2, <2>4
  <2> HIDE DEF v
  <2>5. /\ v = versions'[answer'.version] /\ IndexPath = IndexPath'
        /\ q = answer'.request /\ view = answer'.version
        /\ distribution' = distribution /\ Weak(copy'.bytes) = Weak(copy.bytes)'
    BY <1>8 DEF v, IndexPath, Page, Weak
  <2> QED
    BY <2>3, <2>4, <2>5 DEF RevalidationIsSound, IndexPath
<1> QED
  BY <1>7, <1>9, <1>10 DEF HandlerInv

LEMMA GetFromDatabaseStep ==
    ASSUME HandlerInv, NEW q \in Requests, NEW might \in BOOLEAN, GetFromDatabase(q, might)
    PROVE  HandlerInv'
<1> DEFINE v == versions[Resolved]
           entry == IF IndexPath \in DOMAIN v THEN v[IndexPath] ELSE NoEntry
           filtered == BloomFiltered(might)
           status == IF filtered THEN 404 ELSE DatabaseStatus(v)
<1>1. /\ Resolved \in 1 .. Len(versions)
      /\ Received(q, status, Resolved, entry, FALSE, filtered)
  BY DEF GetFromDatabase, Paths, IndexPath
<1>2. UrlKinds /\ DOMAIN v \subseteq Path /\ HasFiles(v)
  <2>1. UrlKinds
    BY UrlIsKnown DEF HandlerInv
  <2>2. DOMAIN v \subseteq Path
    BY <1>1, VersionsAreListings
  <2>3. HasFiles(v)
    BY <1>1 DEF HandlerInv, PagesInv
  <2> QED BY <2>1, <2>2, <2>3
<1>3. (UrlInv /\ ListedInv /\ PagesInv /\ DatesInv /\ ViewInv /\ CopyInv /\ FilterInv)'
  <2> HIDE DEF v, entry, filtered, status
  <2>1. Resolved \in 1 .. Len(versions) /\ Received(q, status, Resolved, entry, FALSE, filtered)
    BY <1>1
  <2> QED BY ONLY HandlerInv, <2>1, NewCopy
<1>4. /\ UNCHANGED <<distribution, url, versions>>
      /\ answer'.status = status /\ answer'.version = Resolved /\ answer'.filtered = filtered
      /\ status = 200 => answer'.bytes = entry.bytes
  BY <1>1 DEF Received
<1>5. url[2] \in {"slash", "bare"} => url \notin DOMAIN v
  BY <1>2, PathsApart DEF UrlKinds
<1>6. url[2] = "file" => Page(url[1]) \notin DOMAIN v
  BY <1>2, ContentHandlerAssumption DEF UrlKinds, Path, Page
<1>7. status = 200 => IndexPath \in DOMAIN v
  BY <1>5 DEF DatabaseStatus, CoreStatus, Other, IndexPath, Paths
<1>8. status = 301 => url[2] = "bare" /\ Page(url[1]) \in DOMAIN v
  BY DEF DatabaseStatus, CoreStatus, Other, Paths
<1>9. status = 404 /\ (filtered => distribution.growing) =>
        IndexPath \notin DOMAIN v /\ Page(url[1]) \notin DOMAIN v
  <2>1. ASSUME filtered, distribution.growing
        PROVE  IndexPath \notin DOMAIN v /\ Page(url[1]) \notin DOMAIN v
    <3>1. v = LatestFiles /\ AsksFilter
      BY <2>1 DEF BloomFiltered, AsksFilter, Resolved, LatestFiles
    <3>2. DOMAIN v \subseteq filter
      BY <2>1, <3>1 DEF HandlerInv, FilterInv, Paths
    <3> QED
      BY <1>6, <2>1, <3>2 DEF BloomFiltered, IndexPath
  <2>2. ASSUME CoreStatus(v) = 404, ~(url[2] = "slash" /\ Page(url[1]) \in DOMAIN v)
        PROVE  IndexPath \notin DOMAIN v /\ Page(url[1]) \notin DOMAIN v
    <3>1. /\ url \notin DOMAIN v /\ ~distribution.remote
          /\ ~(url[2] \in {"slash", "bare"} /\ \E f \in FilesOf(v) : f[1] \in Below[url[1]])
      BY <2>2 DEF CoreStatus, Other, Paths
    <3>2. ASSUME url[2] = "bare" PROVE Page(url[1]) \notin DOMAIN v
      <4> SUFFICES ASSUME Page(url[1]) \in DOMAIN v PROVE FALSE
        OBVIOUS
      <4>1. url[1] \in Directory
        BY <1>2, <3>2 DEF UrlKinds
      <4>2. PICK f \in Below[url[1]] : <<f, "file">> \in DOMAIN v
        BY <1>2, <3>1, <4>1 DEF HasFiles
      <4>3. <<f, "file">> \in FilesOf(v) /\ <<f, "file">>[1] = f
        BY <4>2 DEF FilesOf, Paths
      <4> QED
        BY <3>1, <3>2, <4>2, <4>3
    <3> QED
      BY <1>2, <1>6, <2>2, <3>1, <3>2 DEF UrlKinds, IndexPath, Page
  <2> QED
    BY <2>1, <2>2 DEF DatabaseStatus, Paths
<1>10. status \notin {304, 412}
  BY DEF DatabaseStatus, CoreStatus, Other
<1>11. AnswersMatchVersion'
  BY <1>4, <1>7, <1>8, <1>9 DEF AnswersMatchVersion, IndexPath, Page, Paths
<1>12. RevalidationIsSound'
  BY <1>4, <1>10 DEF RevalidationIsSound
<1> QED
  BY <1>3, <1>11, <1>12 DEF HandlerInv

-----------------------------------------------------------------------------

\* The invariant holds in every reachable state.
THEOREM HandlerInvariant == ContentSpec => []HandlerInv
<1>1. ContentInit => HandlerInv
  <2> SUFFICES ASSUME ContentInit PROVE HandlerInv
    OBVIOUS
  <2>1. << <<>> >> \in Seq(Listing) /\ Len(<< <<>> >>) = 1 /\ DOMAIN (<< <<>> >>[1]) = {}
    <3>1. <<>> \in [{} -> Entry]
      OBVIOUS
    <3>2. <<>> \in Listing
      BY <3>1 DEF Listing
    <3> QED
      BY <3>2
  <2>2. /\ versions \in Seq(Listing) /\ Len(versions) = 1 /\ DOMAIN versions[1] = {}
        /\ second = 0 /\ view = None /\ copy = None /\ answer = None /\ modifying = None
        /\ distribution \in Distribution /\ url \in Url
    BY <2>1 DEF ContentInit
  <2>3. UrlInv /\ ListedInv /\ PagesInv /\ DatesInv
    BY <2>2 DEF UrlInv, ListedInv, PagesInv, HasFiles, DatesInv
  <2>4. FilterInv
    BY <2>2 DEF FilterInv, LatestFiles, Paths
  <2> QED
    BY <2>2, <2>3, <2>4 DEF HandlerInv, ViewInv, CopyInv, AnswersMatchVersion, RevalidationIsSound
<1>2. HandlerInv /\ [ContentNext]_contentVars => HandlerInv'
  <2> SUFFICES ASSUME HandlerInv, [ContentNext]_contentVars PROVE HandlerInv'
    OBVIOUS
  <2>1. CASE \E files \in FileSets : Modify(files)
    BY <2>1, ModifyStep
  <2>2. CASE \E f \in File, bytes \in Bytes : PullThrough(f, bytes)
    BY <2>2, PullThroughStep
  <2>3. CASE DeleteVersion
    BY <2>3, DeleteVersionStep
  <2>4. CASE \E v \in (1 .. Len(versions)) \cup {None} : SwitchView(v)
    BY <2>4, SwitchViewStep
  <2>5. CASE \E q \in Requests : GetIndexed(q)
    BY <2>5, GetIndexedStep
  <2>6. CASE \E q \in Requests, might \in BOOLEAN : GetFromDatabase(q, might)
    BY <2>6, GetFromDatabaseStep
  <2>7. CASE UNCHANGED contentVars
    <3>1. UNCHANGED <<distribution, url, versions, second, filterVars, view, copy, answer>>
      BY <2>7 DEF contentVars
    <3>2. (UrlInv /\ ListedInv /\ PagesInv /\ DatesInv /\ ViewInv /\ CopyInv)'
      BY <3>1, RepositoryKept
    <3>3. FilterInv'
      BY <3>1, FilterKept DEF HandlerInv
    <3>4. AnswersMatchVersion'
      BY <3>1 DEF HandlerInv, AnswersMatchVersion, Paths, Page
    <3>5. RevalidationIsSound'
      BY <3>1 DEF HandlerInv, RevalidationIsSound, Page, Weak
    <3> QED
      BY <3>2, <3>3, <3>4, <3>5 DEF HandlerInv
  <2>8. CASE \E files \in FileSets : UpdateFilter(files)
    BY <2>8, UpdateFilterStep
  <2>9. CASE DropModify
    BY <2>9, DropModifyStep
  <2> QED
    BY <2>1, <2>2, <2>3, <2>4, <2>5, <2>6, <2>7, <2>8, <2>9 DEF ContentNext
<1> QED
  BY <1>1, <1>2, PTL DEF ContentSpec

\* From the index or the database a request is answered with what the version it read
\* holds, for any content, lag of the index and distribution; and where paths are only
\* added the Bloom filter denies no path of that version, whatever modifies were
\* started, completed or dropped.
THEOREM AnswersAlwaysMatch == ContentSpec => []AnswersMatchVersion
<1>1. HandlerInv => AnswersMatchVersion
  BY DEF HandlerInv
<1> QED
  BY <1>1, HandlerInvariant, PTL

\* A 304 confirms the client's copy, or by a date alone one that is not older, and
\* If-Match with the right strong tag never fails.
THEOREM RevalidationIsAlwaysSound == ContentSpec => []RevalidationIsSound
<1>1. HandlerInv => RevalidationIsSound
  BY DEF HandlerInv
<1> QED
  BY <1>1, HandlerInvariant, PTL

-----------------------------------------------------------------------------
(* The segment cache of a pod.                                              *)

Filling == {"fill", "room", "get"}

OpenerType == [pc : Opening \cup {"closed", "open"}, refs : Seq(Segment), next : Nat \ {0}]

\* Exclusive key locks exclude shared ones and each other.
LocksExclude ==
    \A o, p \in Opener :
        /\ Exclusive(o) \cap Pins(p) = {}
        /\ o # p => Exclusive(o) \cap Exclusive(p) = {}

\* The recheck is made under the lock, so its answer stays true.
FillsMissing ==
    \A o \in Opener : opener[o].pc \in Filling => Target(o) \notin disk

CacheInv ==
    /\ opener \in [Opener -> OpenerType]
    /\ LocksExclude /\ FillsMissing /\ PinnedSegmentsStay

-----------------------------------------------------------------------------
(* What a change of one opener does to the locks.                           *)

\* What a start changes in an opener.
LEMMA StartedOpener ==
  ASSUME NEW j \in OpenerType, NEW k, NEW refs \in Seq(Segment),
         NEW pc \in Opening \cup {"closed", "open"},
         k = [j EXCEPT !.pc = pc, !.refs = refs]
  PROVE  k \in OpenerType /\ k.pc = pc /\ k.next = j.next
  BY DEF OpenerType

\* A closed opener is well formed.
LEMMA ClosedType == Closed \in OpenerType /\ Closed.pc = "closed" /\ Closed.next = 1
<1> DEFINE e == <<>>
<1>1. e \in Seq(Segment)
  OBVIOUS
<1>2. Closed = [pc |-> "closed", refs |-> e, next |-> 1]
  BY Zenon DEF Closed
<1> HIDE DEF e
<1> QED BY <1>1, <1>2 DEF OpenerType

\* An opener that goes on without new locks or pins.
LEMMA NothingNew ==
  ASSUME CacheInv, NEW o \in Opener, NEW j \in OpenerType,
         opener' = [opener EXCEPT ![o] = j],
         Pins(o)' \subseteq Pins(o),
         Exclusive(o)' \subseteq Exclusive(o),
         \A p \in Opener : Pins(p) \cap disk \subseteq disk',
         \A p \in Opener \ {o} : Exclusive(p) \cap disk' \subseteq disk,
         j.pc \in Filling => Target(o)' \notin disk'
  PROVE  CacheInv'
<1>1. /\ opener'[o] = j
      /\ \A p \in Opener : p # o => opener'[p] = opener[p]
      /\ opener' \in [Opener -> OpenerType]
  BY DEF CacheInv
<1>2. ASSUME NEW p \in Opener, p # o
      PROVE  Pins(p)' = Pins(p) /\ Exclusive(p)' = Exclusive(p) /\ Target(p)' = Target(p)
  BY <1>1, <1>2 DEF Pins, Exclusive, Target
<1>3. \A p \in Opener : Pins(p)' \subseteq Pins(p) /\ Exclusive(p)' \subseteq Exclusive(p)
  BY <1>2
<1>4. LocksExclude'
  BY <1>3 DEF CacheInv, LocksExclude
<1>5. ASSUME NEW p \in Opener, opener'[p].pc \in Filling
      PROVE  Target(p)' \notin disk'
  <2>1. CASE p = o
    BY <1>1, <1>5, <2>1
  <2>2. CASE p # o
    <3>1. opener[p].pc \in Filling /\ Target(p)' = Target(p)
      BY <1>1, <1>2, <1>5, <2>2
    <3>2. Target(p) \in Exclusive(p) /\ Target(p) \notin disk
      BY <3>1 DEF CacheInv, FillsMissing, Exclusive, Filling
    <3> QED BY <2>2, <3>1, <3>2
  <2> QED BY <2>1, <2>2
<1>6. PinnedSegmentsStay'
  BY <1>3 DEF CacheInv, PinnedSegmentsStay
<1> QED BY <1>1, <1>4, <1>5, <1>6 DEF CacheInv, FillsMissing

\* An opener that lets go of everything.
LEMMA ReleaseKeeps ==
  ASSUME CacheInv, NEW o \in Opener, Release(o), UNCHANGED disk
  PROVE  CacheInv'
<1>1. opener' = [opener EXCEPT ![o] = Closed]
  BY DEF Release
<1>2. opener'[o] = Closed
  BY <1>1 DEF CacheInv
<1>3. Closed.pc = "closed" /\ Closed.next = 1
  BY ClosedType
<1>4. Pins(o)' = {} /\ Exclusive(o)' = {}
  BY <1>2, <1>3 DEF Pins, Exclusive
<1> QED BY <1>1, <1>3, <1>4, ClosedType, NothingNew DEF Filling

\* An opener that only moves on keeps its pins and its next segment.
LEMMA GotoKeepsPins ==
  ASSUME CacheInv, NEW o \in Opener, NEW s \in Opening, Goto(o, s)
  PROVE  /\ opener' \in [Opener -> OpenerType]
         /\ opener'[o].pc = s
         /\ \A p \in Opener : p # o => opener'[p] = opener[p]
         /\ \A p \in Opener : Pins(p)' = Pins(p) /\ Target(p)' = Target(p)
         /\ \E j \in OpenerType : j.pc = s /\ opener' = [opener EXCEPT ![o] = j]
<1> DEFINE j == [opener[o] EXCEPT !.pc = s]
<1>1. opener' = [opener EXCEPT ![o] = j]
  BY DEF Goto
<1>2. opener[o] \in OpenerType
  BY DEF CacheInv
<1>3. j \in OpenerType /\ j.pc = s /\ j.refs = opener[o].refs /\ j.next = opener[o].next
  BY <1>2 DEF OpenerType
<1> HIDE DEF j
<1>4. opener'[o] = j /\ \A p \in Opener : p # o => opener'[p] = opener[p]
  BY <1>1 DEF CacheInv
<1>5. \A p \in Opener : Pins(p)' = Pins(p) /\ Target(p)' = Target(p)
  BY <1>3, <1>4 DEF Pins, Target
<1> QED BY <1>1, <1>3, <1>4, <1>5 DEF CacheInv

\* An opener that moves on without a new lock.
LEMMA GotoKeeps ==
  ASSUME CacheInv, NEW o \in Opener, NEW s \in Opening, Goto(o, s),
         s \notin Filling, s # "recheck",
         \A p \in Opener : Pins(p) \cap disk \subseteq disk',
         \A p \in Opener \ {o} : Exclusive(p) \cap disk' \subseteq disk
  PROVE  CacheInv'
<1>1. Exclusive(o)' = {}
  BY GotoKeepsPins DEF Exclusive, Filling
<1> QED BY <1>1, GotoKeepsPins, NothingNew

-----------------------------------------------------------------------------
(* One lemma per action.                                                    *)

\* A view starts without a lock.
LEMMA OpenStep ==
  ASSUME CacheInv, NEW o \in Opener, NEW refs \in Views, Open(o, refs)
  PROVE  CacheInv'
<1> DEFINE j == [Closed EXCEPT !.pc = "shared", !.refs = refs]
<1>1. opener' = [opener EXCEPT ![o] = j] /\ disk' = disk
  BY DEF Open
<1>2. refs \in Seq(Segment)
  BY CacheAssumption
<1>3. "shared" \in Opening
  BY DEF Opening
<1> DEFINE pc == "shared"
<1>4. pc \in Opening \cup {"closed", "open"} /\ j = [Closed EXCEPT !.pc = pc, !.refs = refs]
  BY <1>3
<1> HIDE DEF j, pc
<1>5. j \in OpenerType /\ j.pc = pc /\ j.next = Closed.next
  BY <1>2, <1>4, ClosedType, StartedOpener
<1>6. j \in OpenerType /\ j.pc = "shared" /\ j.next = 1
  BY <1>5, ClosedType DEF pc
<1>7. opener'[o] = j
  BY <1>1 DEF CacheInv
<1>8. Pins(o)' = {} /\ Exclusive(o)' = {}
  BY <1>6, <1>7 DEF Pins, Exclusive
<1> QED BY <1>1, <1>6, <1>8, NothingNew DEF Filling

\* A segment that is there, and that nobody holds exclusively, is pinned.
LEMMA PinStep ==
  ASSUME CacheInv, NEW o \in Opener, Pin(o)
  PROVE  CacheInv'
<1> DEFINE n == opener[o].next
           j == [opener[o] EXCEPT !.next = n + 1,
                                  !.pc = IF n = Len(opener[o].refs) THEN "open" ELSE "shared"]
<1>1. opener' = [opener EXCEPT ![o] = j] /\ disk' = disk
  BY DEF Pin
<1>2. opener[o] \in OpenerType
  BY DEF CacheInv
<1>3. n \in Nat \ {0}
  BY <1>2 DEF OpenerType
<1>4. /\ j \in OpenerType
      /\ j.next = n + 1 /\ j.refs = opener[o].refs /\ j.pc \in {"open", "shared"}
  <2> DEFINE pc == IF n = Len(opener[o].refs) THEN "open" ELSE "shared"
             m == n + 1
  <2>1. m \in Nat \ {0}
    BY <1>3
  <2>2. pc \in {"open", "shared"} /\ pc \in Opening \cup {"closed", "open"}
    BY DEF Opening
  <2>3. j = [opener[o] EXCEPT !.next = m, !.pc = pc]
    OBVIOUS
  <2> HIDE DEF j, pc, m
  <2>4. j \in OpenerType /\ j.pc = pc /\ j.next = m /\ j.refs = opener[o].refs
    BY <1>2, <2>1, <2>2, <2>3 DEF OpenerType
  <2> QED BY <2>2, <2>4 DEF m
<1> HIDE DEF j
<1>5. /\ opener'[o] = j /\ \A p \in Opener : p # o => opener'[p] = opener[p]
      /\ opener' \in [Opener -> OpenerType]
  BY <1>1, <1>4 DEF CacheInv
<1>6. \A p \in Opener : p # o =>
         Pins(p)' = Pins(p) /\ Exclusive(p)' = Exclusive(p) /\ Target(p)' = Target(p)
  BY <1>5 DEF Pins, Exclusive, Target
<1>7. Pins(o)' = Pins(o) \cup {Target(o)}
  <2>1. 1 .. (n + 1) - 1 = (1 .. n - 1) \cup {n}
    BY <1>3
  <2> QED BY <1>4, <1>5, <2>1 DEF Pins, Target
<1>8. Exclusive(o)' = {}
  BY <1>4, <1>5 DEF Exclusive
<1>9. Target(o) \in disk /\ \A p \in Opener : Target(o) \notin Exclusive(p)
  BY DEF Pin, SharedFree
<1>10. LocksExclude'
  BY <1>6, <1>7, <1>8, <1>9 DEF CacheInv, LocksExclude
<1>11. FillsMissing'
  BY <1>1, <1>4, <1>5, <1>6 DEF CacheInv, FillsMissing, Filling
<1>12. PinnedSegmentsStay'
  BY <1>1, <1>6, <1>7, <1>9 DEF CacheInv, PinnedSegmentsStay
<1> QED BY <1>5, <1>10, <1>11, <1>12 DEF CacheInv

\* The exclusive lock is taken when nobody has the segment.
LEMMA LockStep ==
  ASSUME CacheInv, NEW o \in Opener, Lock(o)
  PROVE  CacheInv'
<1>1. Goto(o, "recheck") /\ disk' = disk /\ "recheck" \in Opening
  BY DEF Lock, Opening
<1>2. /\ opener' \in [Opener -> OpenerType]
      /\ opener'[o].pc = "recheck"
      /\ \A p \in Opener : p # o => opener'[p] = opener[p]
      /\ \A p \in Opener : Pins(p)' = Pins(p) /\ Target(p)' = Target(p)
  BY <1>1, GotoKeepsPins
<1>3. \A p \in Opener : p # o => Exclusive(p)' = Exclusive(p)
  BY <1>2 DEF Exclusive
<1>4. Exclusive(o)' = {Target(o)}
  BY <1>2 DEF Exclusive
<1>5. \A p \in Opener : Target(o) \notin Pins(p) /\ Target(o) \notin Exclusive(p)
  BY DEF Lock, ExclusiveFree
<1>6. LocksExclude'
  BY <1>2, <1>3, <1>4, <1>5 DEF CacheInv, LocksExclude
<1>7. FillsMissing'
  BY <1>1, <1>2 DEF CacheInv, FillsMissing, Filling
<1>8. PinnedSegmentsStay'
  BY <1>1, <1>2 DEF CacheInv, PinnedSegmentsStay
<1> QED BY <1>2, <1>6, <1>7, <1>8 DEF CacheInv

\* The answer of the recheck is made under the lock: only what is missing is filled.
LEMMA RecheckStep ==
  ASSUME CacheInv, NEW o \in Opener, Recheck(o)
  PROVE  CacheInv'
<1>1. CASE Target(o) \in disk
  <2>1. Goto(o, "shared") /\ disk' = disk /\ "shared" \in Opening
    BY <1>1 DEF Recheck, Opening
  <2> QED BY <2>1, GotoKeeps DEF Filling
<1>2. CASE Target(o) \notin disk
  <2>1. Goto(o, "fill") /\ disk' = disk /\ "fill" \in Opening /\ opener[o].pc = "recheck"
    BY <1>2 DEF Recheck, Opening
  <2>2. PICK j \in OpenerType : j.pc = "fill" /\ opener' = [opener EXCEPT ![o] = j]
    BY <2>1, GotoKeepsPins
  <2>3. Pins(o)' = Pins(o) /\ Target(o)' = Target(o) /\ opener'[o].pc = "fill"
    BY <2>1, GotoKeepsPins
  <2>4. Exclusive(o)' = Exclusive(o)
    BY <2>1, <2>3 DEF Exclusive
  <2> QED BY <1>2, <2>1, <2>2, <2>3, <2>4, NothingNew
<1> QED BY <1>1, <1>2

\* From the fill lock to the download, the exclusive lock is kept.
LEMMA FillStep ==
  ASSUME CacheInv, NEW o \in Opener, NEW s \in {"room", "get"}, Goto(o, s),
         opener[o].pc \in Filling, disk' = disk
  PROVE  CacheInv'
<1>1. s \in Opening
  BY DEF Opening
<1>2. PICK j \in OpenerType : j.pc = s /\ opener' = [opener EXCEPT ![o] = j]
  BY <1>1, GotoKeepsPins
<1>3. Pins(o)' = Pins(o) /\ Target(o)' = Target(o) /\ opener'[o].pc = s
  BY <1>1, GotoKeepsPins
<1>4. Exclusive(o)' = Exclusive(o)
  BY <1>3 DEF Exclusive, Filling
<1>5. Target(o) \notin disk
  BY DEF CacheInv, FillsMissing
<1> QED BY <1>2, <1>3, <1>4, <1>5, NothingNew

\* What nobody has locked may go.
LEMMA EvictStep ==
  ASSUME CacheInv, NEW o \in Opener, Evict(o)
  PROVE  CacheInv'
<1>1. UNCHANGED opener
  BY DEF Evict
<1>2. /\ disk' \subseteq disk
      /\ \A p \in Opener : Pins(p) \cap disk \subseteq disk'
  BY DEF Evict, ExclusiveFree
<1>3. \A p \in Opener :
         Pins(p)' = Pins(p) /\ Exclusive(p)' = Exclusive(p) /\ Target(p)' = Target(p)
  BY <1>1 DEF Pins, Exclusive, Target
<1>4. LocksExclude'
  BY <1>3 DEF CacheInv, LocksExclude
<1>5. FillsMissing'
  BY <1>1, <1>2, <1>3 DEF CacheInv, FillsMissing
<1>6. PinnedSegmentsStay'
  BY <1>2, <1>3 DEF CacheInv, PinnedSegmentsStay
<1> QED BY <1>1, <1>4, <1>5, <1>6 DEF CacheInv

\* The segment that arrives is one that nobody else holds exclusively.
LEMMA InstallStep ==
  ASSUME CacheInv, NEW o \in Opener, Install(o)
  PROVE  CacheInv'
<1>1. Goto(o, "shared") /\ disk' = disk \cup {Target(o)} /\ "shared" \in Opening
  BY DEF Install, Opening
<1>2. Exclusive(o) = {Target(o)}
  BY DEF Install, Exclusive
<1>3. \A p \in Opener \ {o} : Target(o) \notin Exclusive(p)
  BY <1>2 DEF CacheInv, LocksExclude
<1> QED BY <1>1, <1>3, GotoKeeps DEF Filling

-----------------------------------------------------------------------------
(* The invariant and what follows from it.                                  *)

\* At the start nobody holds anything.
LEMMA CacheInit == ASSUME Init PROVE CacheInv
<1>1. \A o \in Opener : opener[o] = Closed
  BY DEF Init
<1>2. Closed.pc = "closed" /\ Closed.next = 1
  BY ClosedType
<1>3. opener \in [Opener -> OpenerType]
  BY ClosedType DEF Init
<1>4. \A o \in Opener : Pins(o) = {} /\ Exclusive(o) = {} /\ opener[o].pc \notin Filling
  BY <1>1, <1>2 DEF Pins, Exclusive, Filling
<1> QED BY <1>3, <1>4 DEF CacheInv, LocksExclude, FillsMissing, PinnedSegmentsStay

\* Every step of an opener keeps the locks exclusive and the pins on disk.
LEMMA CacheNext == ASSUME CacheInv, [Next]_vars PROVE CacheInv'
<1>1. ASSUME NEW o \in Opener, NEW refs \in Views, Open(o, refs) PROVE CacheInv'
  BY <1>1, OpenStep
<1>2. ASSUME NEW o \in Opener, Pin(o) PROVE CacheInv'
  BY <1>2, PinStep
<1>3. ASSUME NEW o \in Opener, Missing(o) PROVE CacheInv'
  <2>1. Goto(o, "exclusive") /\ disk' = disk /\ "exclusive" \in Opening
    BY <1>3 DEF Missing, Opening
  <2> QED BY <2>1, GotoKeeps DEF Filling
<1>4. ASSUME NEW o \in Opener, Lock(o) PROVE CacheInv'
  BY <1>4, LockStep
<1>5. ASSUME NEW o \in Opener, Recheck(o) PROVE CacheInv'
  BY <1>5, RecheckStep
<1>6. ASSUME NEW o \in Opener, TimeOut(o) PROVE CacheInv'
  BY <1>6, ReleaseKeeps DEF TimeOut
<1>7. ASSUME NEW o \in Opener, StartFill(o) PROVE CacheInv'
  BY <1>7, FillStep DEF StartFill, Filling
<1>8. ASSUME NEW o \in Opener, Evict(o) PROVE CacheInv'
  BY <1>8, EvictStep
<1>9. ASSUME NEW o \in Opener, StartGet(o) PROVE CacheInv'
  BY <1>9, FillStep DEF StartGet, Filling
<1>10. ASSUME NEW o \in Opener, CacheFull(o) PROVE CacheInv'
  BY <1>10, ReleaseKeeps DEF CacheFull
<1>11. ASSUME NEW o \in Opener, Install(o) PROVE CacheInv'
  BY <1>11, InstallStep
<1>12. ASSUME NEW o \in Opener, GetError(o) PROVE CacheInv'
  BY <1>12, ReleaseKeeps DEF GetError
<1>13. ASSUME NEW o \in Opener, Close(o) PROVE CacheInv'
  BY <1>13, ReleaseKeeps DEF Close
<1>14. ASSUME NEW o \in Opener, Kill(o) PROVE CacheInv'
  BY <1>14, ReleaseKeeps DEF Kill
<1>15. CASE UNCHANGED vars
  BY <1>15 DEF vars, CacheInv, LocksExclude, FillsMissing, PinnedSegmentsStay,
               Pins, Exclusive, Target
<1> QED BY <1>1, <1>2, <1>3, <1>4, <1>5, <1>6, <1>7, <1>8, <1>9, <1>10, <1>11, <1>12,
           <1>13, <1>14, <1>15 DEF Next, Step

\* The strengthened invariant.
LEMMA CacheInvariant == Spec => []CacheInv
  BY CacheInit, CacheNext, PTL DEF Spec

\* s3.py, _make_room: a segment that some view has pinned is never evicted,
\* whatever the budget and however many processes open views at once.
THEOREM PinnedSegmentsNeverEvicted == Spec => []PinnedSegmentsStay
<1>1. CacheInv => PinnedSegmentsStay
  BY DEF CacheInv
<1> QED BY <1>1, CacheInvariant, PTL

\* s3.py, _pin and _download: what is being downloaded is not on disk, and
\* nobody else downloads it.
THEOREM DownloadsAreNeededAlways == Spec => []DownloadsAreNeeded
<1>1. CacheInv => DownloadsAreNeeded
  <2> SUFFICES ASSUME CacheInv, NEW o \in Opener, opener[o].pc \in Filling
               PROVE  /\ Target(o) \notin disk
                      /\ \A p \in Opener \ {o} :
                             opener[p].pc \in Filling => Target(p) # Target(o)
    BY DEF DownloadsAreNeeded, Filling
  <2>1. Target(o) \notin disk
    BY DEF CacheInv, FillsMissing
  <2>2. ASSUME NEW p \in Opener \ {o}, opener[p].pc \in Filling
        PROVE  Target(p) # Target(o)
    <3>1. Exclusive(o) = {Target(o)} /\ Exclusive(p) = {Target(p)}
      BY <2>2 DEF Exclusive, Filling
    <3> QED BY <3>1 DEF CacheInv, LocksExclude
  <2> QED BY <2>1, <2>2
<1> QED BY <1>1, CacheInvariant, PTL

-----------------------------------------------------------------------------
(* The budget.                                                              *)

\* An opener that is still opening has a segment to pin next.
TargetInv ==
    \A o \in Opener : opener[o].pc \in Opening => opener[o].next \in DOMAIN opener[o].refs

\* Only the opener with the fill lock evicts or downloads, and it begins by
\* removing what a killed downloader left.
FillInv ==
    /\ \A o, p \in Opener : o # p => ~(HoldsFill(o) /\ HoldsFill(p))
    /\ \A o \in Opener : opener[o].pc = "room" => partial = {}
    /\ \A o \in Opener : opener[o].pc = "get" => partial = {Target(o)}

BudgetInv ==
    /\ CacheInv
    /\ disk \subseteq Segment /\ partial \subseteq Segment
    /\ TargetInv /\ FillInv /\ BudgetIsKept

LEMMA BytesOfNone == AllBytes({}) = {}
  BY DEF AllBytes

\* A segment's bytes are as many as its size says.
LEMMA BytesOfOne ==
  ASSUME NEW s \in Segment
  PROVE  IsFiniteSet(BytesOf(s)) /\ Cardinality(BytesOf(s)) = Size[s]
<1> DEFINE positions == 1 .. Size[s]
           f == [i \in positions |-> <<s, i>>]
<1>1. Size[s] \in Nat
  BY CacheAssumption
<1>2. IsFiniteSet(positions) /\ Cardinality(positions) = Size[s]
  <2>1. /\ IsFiniteSet(1 .. Size[s])
        /\ Cardinality(1 .. Size[s]) = IF 1 > Size[s] THEN 0 ELSE Size[s] - 1 + 1
    <3>1. 1 \in Int /\ Size[s] \in Int
      BY <1>1
    <3> QED BY ONLY <3>1, FS_Interval
  <2>2. (IF 1 > Size[s] THEN 0 ELSE Size[s] - 1 + 1) = Size[s]
    BY <1>1
  <2> QED BY <2>1, <2>2
<1>3. f \in Bijection(positions, BytesOf(s))
  <2>1. f \in [positions -> BytesOf(s)]
    BY DEF BytesOf
  <2>2. \A i, j \in positions : f[i] = f[j] => i = j
    OBVIOUS
  <2>3. \A b \in BytesOf(s) : \E i \in positions : f[i] = b
    BY DEF BytesOf
  <2> HIDE DEF f, positions
  <2>4. f \in Injection(positions, BytesOf(s))
    BY <2>1, <2>2 DEF Injection, IsInjective
  <2>5. f \in Surjection(positions, BytesOf(s))
    BY <2>1, <2>3 DEF Surjection
  <2> QED BY <2>4, <2>5 DEF Bijection
<1>4. ExistsBijection(positions, BytesOf(s))
  BY <1>3 DEF ExistsBijection
<1> HIDE DEF positions
<1> QED BY <1>2, <1>4, FS_Bijection

LEMMA BytesOfMore ==
  ASSUME NEW u, NEW t
  PROVE  AllBytes(u \cup t) = AllBytes(u) \cup AllBytes(t)
  BY DEF AllBytes

\* What segments use is a number.
LEMMA BytesFinite ==
  ASSUME NEW segments \in SUBSET Segment
  PROVE  IsFiniteSet(AllBytes(segments))
<1> DEFINE all == {BytesOf(s) : s \in segments}
           f == [s \in segments |-> BytesOf(s)]
<1>1. IsFiniteSet(segments)
  BY CacheAssumption, FS_Subset
<1>2. f \in Surjection(segments, all)
  BY DEF Surjection
<1>3. \A b \in all : IsFiniteSet(b)
  BY BytesOfOne
<1>4. AllBytes(segments) = UNION all
  BY DEF AllBytes
<1> HIDE DEF all, f
<1>5. IsFiniteSet(all)
  BY <1>1, <1>2, FS_Surjection
<1> QED BY <1>3, <1>4, <1>5, FS_UNION

LEMMA UsedOfNone == Used({}) = 0
  BY BytesOfNone, FS_EmptySet DEF Used

LEMMA UsedType ==
  ASSUME NEW segments \in SUBSET Segment PROVE Used(segments) \in Nat
  BY BytesFinite, FS_CardinalityType DEF Used

LEMMA UsedOfOne ==
  ASSUME NEW s \in Segment PROVE Used({s}) = Size[s]
<1>1. AllBytes({s}) = BytesOf(s)
  BY DEF AllBytes
<1> QED BY <1>1, BytesOfOne DEF Used

LEMMA UsedOfFewer ==
  ASSUME NEW u \in SUBSET Segment, NEW t \in SUBSET u
  PROVE  Used(t) <= Used(u)
<1>1. AllBytes(t) \subseteq AllBytes(u)
  BY DEF AllBytes
<1> QED BY <1>1, BytesFinite, FS_Subset DEF Used

\* One more segment adds its size.
LEMMA UsedOfOneMore ==
  ASSUME NEW u \in SUBSET Segment, NEW s \in Segment, s \notin u
  PROVE  Used(u \cup {s}) = Used(u) + Size[s]
<1>1. AllBytes(u) \cap AllBytes({s}) = {}
  BY DEF AllBytes, BytesOf
<1>2. IsFiniteSet(AllBytes(u)) /\ IsFiniteSet(AllBytes({s}))
  BY BytesFinite
<1>3. Cardinality(AllBytes(u) \cap AllBytes({s})) = 0
  BY <1>1, FS_EmptySet
<1>4. Cardinality(AllBytes(u) \cup AllBytes({s})) =
          Cardinality(AllBytes(u)) + Cardinality(AllBytes({s})) - Cardinality(AllBytes(u) \cap AllBytes({s}))
  BY <1>2, FS_Union
<1>5. Cardinality(AllBytes(u)) \in Nat /\ Cardinality(AllBytes({s})) \in Nat
  BY <1>2, FS_CardinalityType
<1>6. AllBytes(u \cup {s}) = AllBytes(u) \cup AllBytes({s})
  BY BytesOfMore
<1> DEFINE n == Cardinality(AllBytes(u))
           m == Cardinality(AllBytes({s}))
<1>7. Cardinality(AllBytes(u \cup {s})) = n + m
  <2>1. Cardinality(AllBytes(u \cup {s})) = n + m - 0
    BY <1>3, <1>4, <1>6
  <2> HIDE DEF n, m
  <2> QED BY <1>5, <2>1 DEF n, m
<1>8. Used(u \cup {s}) = Used(u) + Used({s})
  BY <1>7 DEF Used
<1> QED BY <1>8, UsedOfOne

\* One opener changes, and what it may do to the downloads.
LEMMA FillMoves ==
  ASSUME CacheInv, FillInv, NEW o \in Opener, NEW j \in OpenerType,
         opener' = [opener EXCEPT ![o] = j],
         j.pc \in {"room", "get"} => \A p \in Opener \ {o} : ~HoldsFill(p),
         j.pc = "room" => partial' = {},
         j.pc = "get" => partial' = {Target(o)'},
         (\E p \in Opener \ {o} : HoldsFill(p)) => partial' = partial
  PROVE  FillInv'
<1>1. /\ opener'[o] = j
      /\ \A p \in Opener \ {o} : opener'[p] = opener[p]
  BY DEF CacheInv
<1>2. \A p \in Opener \ {o} : Target(p)' = Target(p) /\ HoldsFill(p)' = HoldsFill(p)
  BY <1>1 DEF Target, HoldsFill
<1>3. HoldsFill(o)' => \A p \in Opener \ {o} : ~HoldsFill(p)
  BY <1>1 DEF HoldsFill
<1>4. \A p, q \in Opener : p # q => ~(HoldsFill(p)' /\ HoldsFill(q)')
  BY <1>2, <1>3 DEF FillInv
<1>5. ASSUME NEW p \in Opener
      PROVE  /\ opener'[p].pc = "room" => partial' = {}
             /\ opener'[p].pc = "get" => partial' = {Target(p)'}
  <2>1. CASE p = o
    BY <1>1, <2>1
  <2>2. CASE p # o
    BY <1>1, <1>2, <2>2 DEF FillInv, HoldsFill
  <2> QED BY <2>1, <2>2
<1> QED BY <1>4, <1>5 DEF FillInv

\* The same for the segment that is next.
LEMMA TargetMoves ==
  ASSUME CacheInv, TargetInv, NEW o \in Opener, NEW j \in OpenerType,
         opener' = [opener EXCEPT ![o] = j],
         j.pc \in Opening => j.next \in DOMAIN j.refs
  PROVE  TargetInv'
<1>1. /\ opener'[o] = j
      /\ \A p \in Opener \ {o} : opener'[p] = opener[p]
  BY DEF CacheInv
<1> QED BY <1>1 DEF TargetInv

LEMMA TargetIsSegment ==
  ASSUME CacheInv, TargetInv, NEW o \in Opener, opener[o].pc \in Opening
  PROVE  Target(o) \in Segment
<1>1. opener[o].refs \in Seq(Segment) /\ opener[o].next \in DOMAIN opener[o].refs
  BY DEF CacheInv, OpenerType, TargetInv
<1>2. \A q \in Seq(Segment) : \A n \in DOMAIN q : q[n] \in Segment
  OBVIOUS
<1> QED BY <1>1, <1>2 DEF Target

\* An opener that goes on within an attempt keeps its next segment.
LEMMA GotoKeepsTarget ==
  ASSUME CacheInv, TargetInv, NEW o \in Opener, NEW s \in Opening, Goto(o, s),
         opener[o].pc \in Opening
  PROVE  /\ TargetInv'
         /\ Target(o)' = Target(o)
         /\ \E j \in OpenerType : j.pc = s /\ opener' = [opener EXCEPT ![o] = j]
<1> DEFINE j == [opener[o] EXCEPT !.pc = s]
<1>1. opener' = [opener EXCEPT ![o] = j]
  BY DEF Goto
<1>2. opener[o] \in OpenerType
  BY DEF CacheInv
<1>3. j \in OpenerType /\ j.pc = s /\ j.refs = opener[o].refs /\ j.next = opener[o].next
  BY <1>2 DEF OpenerType
<1>4. j.next \in DOMAIN j.refs
  BY <1>3 DEF TargetInv
<1>5. Target(o)' = Target(o)
  BY GotoKeepsPins
<1> HIDE DEF j
<1> QED BY <1>1, <1>3, <1>4, <1>5, TargetMoves

\* Locking, waiting, and giving up leave disk and downloads alone.
LEMMA BudgetGoto ==
  ASSUME BudgetInv, NEW o \in Opener, NEW s \in Opening, Goto(o, s),
         opener[o].pc \in Opening, s \notin {"room", "get"}, UNCHANGED <<disk, partial>>
  PROVE  disk' \subseteq Segment /\ partial' \subseteq Segment /\ TargetInv' /\ FillInv'
             /\ BudgetIsKept'
<1>1. CacheInv /\ TargetInv /\ FillInv
  BY DEF BudgetInv
<1>2. TargetInv' /\ \E j \in OpenerType : j.pc = s /\ opener' = [opener EXCEPT ![o] = j]
  BY <1>1, GotoKeepsTarget
<1>3. FillInv'
  BY <1>1, <1>2, FillMoves
<1>4. BudgetIsKept'
  BY DEF BudgetInv, BudgetIsKept, Used, AllBytes, BytesOf
<1> QED BY <1>2, <1>3, <1>4 DEF BudgetInv

LEMMA BudgetRelease ==
  ASSUME BudgetInv, NEW o \in Opener, Release(o), UNCHANGED disk,
         partial' \subseteq partial, (\E p \in Opener \ {o} : HoldsFill(p)) => partial' = partial
  PROVE  disk' \subseteq Segment /\ partial' \subseteq Segment /\ TargetInv' /\ FillInv'
             /\ BudgetIsKept'
<1>1. CacheInv /\ TargetInv /\ FillInv
  BY DEF BudgetInv
<1>2. /\ opener' = [opener EXCEPT ![o] = Closed] /\ Closed \in OpenerType
      /\ Closed.pc \notin Opening
  BY ClosedType DEF Release, Opening
<1>3. TargetInv'
  BY <1>1, <1>2, TargetMoves
<1>4. FillInv'
  BY <1>1, <1>2, FillMoves DEF Opening
<1>5. BudgetIsKept'
  <2>1. /\ Used(partial') \in Nat /\ Used(partial) \in Nat /\ Used(disk) \in Nat
        /\ Used(partial') <= Used(partial)
    BY UsedType, UsedOfFewer DEF BudgetInv
  <2>2. Used(partial)' = Used(partial') /\ Used(disk)' = Used(disk)
    BY DEF Used, AllBytes, BytesOf
  <2>3. Used(disk) + Used(partial) <= Budget /\ Budget \in Nat
    BY CacheAssumption DEF BudgetInv, BudgetIsKept
  <2>4. \A d, m, n, b \in Nat : d + m <= b /\ n <= m => d + n <= b
    OBVIOUS
  <2> QED BY <2>1, <2>2, <2>3, <2>4 DEF BudgetIsKept
<1> QED BY <1>3, <1>4, <1>5 DEF BudgetInv

\* A view has a segment to begin with.
LEMMA BudgetOpen ==
  ASSUME BudgetInv, NEW o \in Opener, NEW refs \in Views, Open(o, refs)
  PROVE  disk' \subseteq Segment /\ partial' \subseteq Segment /\ TargetInv' /\ FillInv'
             /\ BudgetIsKept'
<1> DEFINE j == [Closed EXCEPT !.pc = "shared", !.refs = refs]
           pc == "shared"
<1>1. CacheInv /\ TargetInv /\ FillInv
  BY DEF BudgetInv
<1>2. opener' = [opener EXCEPT ![o] = j] /\ UNCHANGED <<disk, partial>>
  BY DEF Open
<1>3. refs \in Seq(Segment) /\ refs # <<>>
  BY CacheAssumption
<1>4. pc \in Opening \cup {"closed", "open"} /\ j = [Closed EXCEPT !.pc = pc, !.refs = refs]
  BY DEF Opening
<1> HIDE DEF j, pc
<1>5. j \in OpenerType /\ j.pc = pc /\ j.next = 1
  BY <1>3, <1>4, ClosedType, StartedOpener
<1>6. j.refs = refs
  BY <1>4, ClosedType DEF OpenerType
<1>7. 1 \in DOMAIN refs
  BY <1>3
<1>8. TargetInv'
  BY <1>1, <1>2, <1>5, <1>6, <1>7, TargetMoves
<1>9. j.pc \notin {"room", "get"}
  BY <1>5 DEF pc
<1>10. FillInv'
  BY <1>1, <1>2, <1>5, <1>9, FillMoves
<1>11. BudgetIsKept'
  BY <1>2 DEF BudgetInv, BudgetIsKept, Used, AllBytes, BytesOf
<1> QED BY <1>2, <1>8, <1>10, <1>11 DEF BudgetInv

\* After the last segment the view is open, before it there is another one.
LEMMA BudgetPin ==
  ASSUME BudgetInv, NEW o \in Opener, Pin(o)
  PROVE  disk' \subseteq Segment /\ partial' \subseteq Segment /\ TargetInv' /\ FillInv'
             /\ BudgetIsKept'
<1> DEFINE n == opener[o].next
           refs == opener[o].refs
           pc == IF n = Len(refs) THEN "open" ELSE "shared"
           m == n + 1
           j == [opener[o] EXCEPT !.next = m, !.pc = pc]
<1>1. CacheInv /\ TargetInv /\ FillInv /\ opener[o] \in OpenerType
  BY DEF BudgetInv, CacheInv
<1>2. opener' = [opener EXCEPT ![o] = j] /\ UNCHANGED <<disk, partial>>
  BY DEF Pin
<1>3. refs \in Seq(Segment) /\ n \in DOMAIN refs
  BY <1>1 DEF OpenerType, TargetInv, Pin, Opening
<1>4. pc = "open" \/ (pc = "shared" /\ m \in DOMAIN refs)
  <2>1. DOMAIN refs = 1 .. Len(refs) /\ Len(refs) \in Nat
    BY <1>3
  <2>2. \A l \in Nat : \A k \in 1 .. l : k # l => k + 1 \in 1 .. l
    OBVIOUS
  <2> QED BY <1>3, <2>1, <2>2
<1>5. m \in Nat \ {0} /\ pc \in Opening \cup {"closed", "open"} /\ pc \notin {"room", "get"}
  <2>1. n \in Nat
    BY <1>1 DEF OpenerType
  <2> QED BY <2>1 DEF Opening
<1> HIDE DEF pc, m
<1>6. j \in OpenerType /\ j.pc = pc /\ j.next = m /\ j.refs = refs
  BY <1>1, <1>5 DEF OpenerType
<1> HIDE DEF j, refs
<1>7. j.pc \in Opening => j.next \in DOMAIN j.refs
  BY <1>4, <1>6 DEF Opening
<1>8. TargetInv'
  BY <1>1, <1>2, <1>6, <1>7, TargetMoves
<1>9. FillInv'
  BY <1>1, <1>2, <1>5, <1>6, FillMoves
<1>10. BudgetIsKept'
  BY <1>2 DEF BudgetInv, BudgetIsKept, Used, AllBytes, BytesOf
<1> QED BY <1>2, <1>8, <1>9, <1>10 DEF BudgetInv

\* Abandoned downloads go before room is made.
LEMMA BudgetStartFill ==
  ASSUME BudgetInv, NEW o \in Opener, StartFill(o)
  PROVE  disk' \subseteq Segment /\ partial' \subseteq Segment /\ TargetInv' /\ FillInv'
             /\ BudgetIsKept'
<1>1. CacheInv /\ TargetInv /\ FillInv /\ "room" \in Opening
  BY DEF BudgetInv, Opening
<1>2. Goto(o, "room") /\ opener[o].pc \in Opening /\ partial' = {} /\ disk' = disk
  BY DEF StartFill, Opening
<1>3. \A p \in Opener : ~HoldsFill(p)
  BY DEF StartFill, FillFree
<1>4. PICK j \in OpenerType : j.pc = "room" /\ opener' = [opener EXCEPT ![o] = j]
  BY <1>1, <1>2, GotoKeepsTarget
<1>5. TargetInv'
  BY <1>1, <1>2, GotoKeepsTarget
<1>6. FillInv'
  BY <1>1, <1>2, <1>3, <1>4, FillMoves
<1>7. BudgetIsKept'
  <2>1. Used(disk) \in Nat /\ Used(partial) \in Nat
    BY UsedType DEF BudgetInv
  <2>2. Used(partial)' = 0 /\ Used(disk)' = Used(disk)
    BY <1>2, UsedOfNone DEF Used, AllBytes, BytesOf
  <2>3. Used(disk) + Used(partial) <= Budget /\ Budget \in Nat
    BY CacheAssumption DEF BudgetInv, BudgetIsKept
  <2>4. \A d, m, b \in Nat : d + m <= b => d + 0 <= b
    OBVIOUS
  <2> QED BY <2>1, <2>2, <2>3, <2>4 DEF BudgetIsKept
<1> QED BY <1>2, <1>5, <1>6, <1>7 DEF BudgetInv

LEMMA BudgetEvict ==
  ASSUME BudgetInv, NEW o \in Opener, Evict(o)
  PROVE  disk' \subseteq Segment /\ partial' \subseteq Segment /\ TargetInv' /\ FillInv'
             /\ BudgetIsKept'
<1>1. disk' \subseteq disk /\ UNCHANGED <<partial, opener>>
  BY DEF Evict
<1>2. TargetInv' /\ FillInv'
  BY <1>1 DEF BudgetInv, TargetInv, FillInv, HoldsFill, Target
<1>3. BudgetIsKept'
  <2>1. /\ Used(disk') \in Nat /\ Used(disk) \in Nat /\ Used(partial) \in Nat
        /\ Used(disk') <= Used(disk)
    BY <1>1, UsedType, UsedOfFewer DEF BudgetInv
  <2>2. Used(disk)' = Used(disk') /\ Used(partial)' = Used(partial)
    BY <1>1 DEF Used, AllBytes, BytesOf
  <2>3. Used(disk) + Used(partial) <= Budget /\ Budget \in Nat
    BY CacheAssumption DEF BudgetInv, BudgetIsKept
  <2>4. \A d, e, m, b \in Nat : d + m <= b /\ e <= d => e + m <= b
    OBVIOUS
  <2> QED BY <2>1, <2>2, <2>3, <2>4 DEF BudgetIsKept
<1> QED BY <1>1, <1>2, <1>3 DEF BudgetInv

\* The download that was made room for is the only one.
LEMMA BudgetStartGet ==
  ASSUME BudgetInv, NEW o \in Opener, StartGet(o)
  PROVE  disk' \subseteq Segment /\ partial' \subseteq Segment /\ TargetInv' /\ FillInv'
             /\ BudgetIsKept'
<1>1. CacheInv /\ TargetInv /\ FillInv /\ "get" \in Opening
  BY DEF BudgetInv, Opening
<1>2. Goto(o, "get") /\ opener[o].pc = "room" /\ opener[o].pc \in Opening /\ disk' = disk
  BY DEF StartGet, Opening
<1>3. partial' = {Target(o)} /\ Target(o) \in Segment
  BY <1>1, <1>2, TargetIsSegment DEF StartGet, FillInv
<1>4. \A p \in Opener \ {o} : ~HoldsFill(p)
  BY <1>1, <1>2 DEF FillInv, HoldsFill
<1>5. Target(o)' = Target(o) /\ TargetInv'
  BY <1>1, <1>2, GotoKeepsTarget
<1>6. PICK j \in OpenerType : j.pc = "get" /\ opener' = [opener EXCEPT ![o] = j]
  BY <1>1, <1>2, GotoKeepsTarget
<1>7. FillInv'
  BY <1>1, <1>3, <1>4, <1>5, <1>6, FillMoves
<1>8. BudgetIsKept'
  <2>1. Used(partial)' = Size[Target(o)] /\ Used(disk)' = Used(disk)
    BY <1>2, <1>3, UsedOfOne DEF Used, AllBytes, BytesOf
  <2>2. Used(disk) + Size[Target(o)] <= Budget
    BY DEF StartGet, Fits
  <2> QED BY <2>1, <2>2 DEF BudgetIsKept
<1> QED BY <1>2, <1>3, <1>5, <1>7, <1>8 DEF BudgetInv

\* What was downloading is now on disk.
LEMMA BudgetInstall ==
  ASSUME BudgetInv, NEW o \in Opener, Install(o)
  PROVE  disk' \subseteq Segment /\ partial' \subseteq Segment /\ TargetInv' /\ FillInv'
             /\ BudgetIsKept'
<1>1. CacheInv /\ TargetInv /\ FillInv /\ "shared" \in Opening
  BY DEF BudgetInv, Opening
<1>2. Goto(o, "shared") /\ opener[o].pc = "get" /\ opener[o].pc \in Opening
  BY DEF Install, Opening
<1>3. /\ partial = {Target(o)} /\ partial' = {} /\ disk' = disk \cup {Target(o)}
      /\ Target(o) \in Segment /\ Target(o) \notin disk
  BY <1>1, <1>2, TargetIsSegment DEF Install, FillInv, CacheInv, FillsMissing, Filling
<1>4. \A p \in Opener \ {o} : ~HoldsFill(p)
  BY <1>1, <1>2 DEF FillInv, HoldsFill
<1>5. PICK j \in OpenerType : j.pc = "shared" /\ opener' = [opener EXCEPT ![o] = j]
  BY <1>1, <1>2, GotoKeepsTarget
<1>6. TargetInv'
  BY <1>1, <1>2, GotoKeepsTarget
<1>7. FillInv'
  BY <1>1, <1>4, <1>5, FillMoves
<1>8. BudgetIsKept'
  <2>1. /\ Used(disk') = Used(disk) + Size[Target(o)] /\ Used(partial) = Size[Target(o)]
        /\ Used(disk) \in Nat /\ Size[Target(o)] \in Nat
    BY <1>3, UsedOfOneMore, UsedOfOne, UsedType, CacheAssumption DEF BudgetInv
  <2>2. Used(disk)' = Used(disk') /\ Used(partial)' = 0
    BY <1>3, UsedOfNone DEF Used, AllBytes, BytesOf
  <2>3. Used(disk) + Used(partial) <= Budget /\ Budget \in Nat
    BY CacheAssumption DEF BudgetInv, BudgetIsKept
  <2>4. \A d, m, b \in Nat : d + m <= b => (d + m) + 0 <= b
    OBVIOUS
  <2> QED BY <2>1, <2>2, <2>3, <2>4 DEF BudgetIsKept
<1> QED BY <1>3, <1>6, <1>7, <1>8 DEF BudgetInv

LEMMA BudgetInit == Init => BudgetInv
<1> SUFFICES ASSUME Init PROVE BudgetInv
  OBVIOUS
<1>1. CacheInv /\ \A o \in Opener : opener[o].pc = "closed"
  BY CacheInit, ClosedType DEF Init
<1>2. TargetInv /\ FillInv
  BY <1>1 DEF TargetInv, FillInv, HoldsFill, Opening
<1>3. BudgetIsKept
  <2>1. Used(disk) = 0 /\ Used(partial) = 0 /\ Budget \in Nat
    BY UsedOfNone, CacheAssumption DEF Init
  <2> QED BY <2>1 DEF BudgetIsKept
<1> QED BY <1>1, <1>2, <1>3 DEF Init, BudgetInv

LEMMA BudgetNext == BudgetInv /\ [Next]_vars => BudgetInv'
<1> SUFFICES ASSUME BudgetInv, [Next]_vars PROVE BudgetInv'
  OBVIOUS
<1> DEFINE Kept == disk' \subseteq Segment /\ partial' \subseteq Segment /\ TargetInv'
                       /\ FillInv' /\ BudgetIsKept'
<1>1. ASSUME NEW o \in Opener,
             \/ Missing(o) \/ Lock(o) \/ Recheck(o) \/ TimeOut(o) \/ CacheFull(o)
             \/ GetError(o) \/ Close(o) \/ Kill(o)
      PROVE  Kept
  <2>1. ASSUME Release(o), UNCHANGED <<disk, partial>> PROVE Kept
    BY <2>1, BudgetRelease
  <2>2. ASSUME NEW s \in Opening, s \notin {"room", "get"}, Goto(o, s),
               opener[o].pc \in Opening, UNCHANGED <<disk, partial>>
        PROVE  Kept
    BY <2>2, BudgetGoto
  <2>3. CASE Missing(o)
    BY <2>2, <2>3 DEF Missing, Opening
  <2>4. CASE Lock(o)
    BY <2>2, <2>4 DEF Lock, Opening
  <2>5. CASE Recheck(o)
    BY <2>2, <2>5 DEF Recheck, Opening
  <2>6. CASE TimeOut(o) \/ CacheFull(o) \/ Close(o) \/ Kill(o)
    BY <2>1, <2>6 DEF TimeOut, CacheFull, Close, Kill
  <2>7. CASE GetError(o)
    <3>1. \A p \in Opener \ {o} : ~HoldsFill(p)
      BY <2>7 DEF BudgetInv, FillInv, HoldsFill, GetError
    <3> QED BY <2>7, <3>1, BudgetRelease DEF GetError
  <2> QED BY <1>1, <2>3, <2>4, <2>5, <2>6, <2>7
<1>2. ASSUME UNCHANGED vars PROVE Kept
  <2>1. TargetInv' /\ FillInv'
    BY <1>2 DEF vars, BudgetInv, TargetInv, FillInv, HoldsFill, Target
  <2>2. BudgetIsKept'
    BY <1>2 DEF vars, BudgetInv, BudgetIsKept, Used, AllBytes, BytesOf
  <2> QED BY <1>2, <2>1, <2>2 DEF vars, BudgetInv
<1>3. ASSUME NEW o \in Opener,
             \/ \E refs \in Views : Open(o, refs)
             \/ Pin(o) \/ StartFill(o) \/ Evict(o) \/ StartGet(o) \/ Install(o)
      PROVE  Kept
  BY <1>3, BudgetOpen, BudgetPin, BudgetStartFill, BudgetEvict, BudgetStartGet, BudgetInstall
<1>4. Kept
  BY <1>1, <1>2, <1>3 DEF Next, Step
<1>5. CacheInv'
  BY CacheNext DEF BudgetInv
<1> QED BY <1>4, <1>5 DEF BudgetInv

\* s3.py, _make_room and _download: cached segments and downloads, abandoned ones
\* included, never exceed max_cache_bytes, whatever the sizes and however many
\* processes fill the cache or are killed.
THEOREM BudgetIsAlwaysKept == Spec => []BudgetIsKept
<1>1. BudgetInv => BudgetIsKept
  BY DEF BudgetInv
<1> QED BY <1>1, BudgetInit, BudgetNext, PTL DEF Spec

-----------------------------------------------------------------------------
(* Types.  The order of use is a permutation of the segments.               *)

OrderInv ==
    recency \in [Segment -> 0 .. Cardinality(Segment) - 1] /\ IsInjective(recency)

ListInv ==
    todo \in [DOMAIN todo -> Nat] /\ IsInjective(todo) /\ DOMAIN todo \subseteq Segment

ViewsInv ==
    \A o \in Opener : /\ opener[o].refs \in Views \cup {<<>>}
                      /\ opener[o].next \in 1 .. Len(opener[o].refs) + 1

TypesInv == OrderInv /\ ListInv /\ ViewsInv

LEMMA SegmentsCounted == IsFiniteSet(Segment) /\ Cardinality(Segment) \in Nat
  BY CacheAssumption, FS_CardinalityType

\* Ordered by number, segments have different places.
LEMMA FirstOrder ==
  ASSUME recency = [s \in Segment |-> Cardinality({r \in Segment : r < s})]
  PROVE  OrderInv
<1> DEFINE Less(s) == {r \in Segment : r < s}
<1>1. \A s \in Segment : IsFiniteSet(Less(s)) /\ Cardinality(Less(s)) \in Nat
  BY SegmentsCounted, FS_Subset, FS_CardinalityType
<1>2. \A s \in Segment : s \in Nat
  BY CacheAssumption
<1>3. ASSUME NEW s \in Segment, NEW t, t \subseteq Segment, Less(s) \subseteq t, s \in t
      PROVE  Cardinality(Less(s)) < Cardinality(t)
  <2>1. Less(s) \subseteq t \ {s}
    BY <1>2, <1>3
  <2>2. IsFiniteSet(t) /\ Cardinality(t) \in Nat
    BY <1>3, SegmentsCounted, FS_Subset, FS_CardinalityType
  <2>3. IsFiniteSet(t \ {s}) /\ Cardinality(t \ {s}) = Cardinality(t) - 1
    BY <1>3, <2>2, FS_RemoveElement
  <2>4. Cardinality(Less(s)) <= Cardinality(t \ {s})
    BY <2>1, <2>3, FS_Subset
  <2> HIDE DEF Less
  <2> QED BY <1>1, <2>2, <2>3, <2>4
<1>4. \A s \in Segment : Cardinality(Less(s)) \in 0 .. Cardinality(Segment) - 1
  <2>1. \A s \in Segment : Less(s) \subseteq Segment
    OBVIOUS
  <2> HIDE DEF Less
  <2> QED BY <1>1, <1>3, <2>1, SegmentsCounted
<1>5. ASSUME NEW s \in Segment, NEW t \in Segment, s < t
      PROVE  Cardinality(Less(s)) # Cardinality(Less(t))
  <2>1. Less(s) \subseteq Less(t) /\ s \in Less(t) /\ Less(t) \subseteq Segment
    <3>1. \A r \in Segment : r < s => r < t
      BY <1>2, <1>5
    <3> QED BY <1>5, <3>1
  <2> HIDE DEF Less
  <2>2. Cardinality(Less(s)) < Cardinality(Less(t))
    BY <1>3, <2>1
  <2> QED BY <1>1, <2>2
<1>6. /\ DOMAIN recency = Segment
      /\ \A s \in Segment : recency[s] = Cardinality(Less(s))
  OBVIOUS
<1> HIDE DEF Less
<1>7. ASSUME NEW s \in Segment, NEW t \in Segment, recency[s] = recency[t] PROVE s = t
  <2>1. Cardinality(Less(s)) = Cardinality(Less(t))
    BY <1>6, <1>7
  <2>2. ~(s < t) /\ ~(t < s)
    BY <1>5, <2>1
  <2> QED BY <2>2, CacheAssumption
<1>8. recency \in [Segment -> 0 .. Cardinality(Segment) - 1]
  <2>1. recency = [s \in Segment |-> recency[s]]
    OBVIOUS
  <2> QED BY <1>4, <1>6, <2>1
<1> QED BY <1>6, <1>7, <1>8 DEF OrderInv, IsInjective

\* A touched segment comes last, and the others close up.
LEMMA TouchKeepsOrder ==
  ASSUME OrderInv, NEW s \in Segment, recency' = Touched(s)
  PROVE  OrderInv'
<1> DEFINE n == Cardinality(Segment)
<1>1. n \in Nat
  BY SegmentsCounted
<1>2. \A r \in Segment : recency[r] \in 0 .. n - 1
  BY DEF OrderInv
<1>3. \A r, t \in Segment : recency[r] = recency[t] => r = t
  BY DEF OrderInv, IsInjective
<1>4. /\ DOMAIN recency' = Segment
      /\ \A r \in Segment :
            recency'[r] = IF r = s THEN n - 1
                          ELSE IF recency[r] > recency[s] THEN recency[r] - 1 ELSE recency[r]
  BY DEF Touched
<1>5. recency' = [r \in Segment |-> recency'[r]]
  BY DEF Touched
<1> HIDE DEF n
<1>6. \A r \in Segment : recency'[r] \in 0 .. n - 1
  BY <1>1, <1>2, <1>3, <1>4
<1>7. \A r, t \in Segment : recency'[r] = recency'[t] => r = t
  BY <1>1, <1>2, <1>3, <1>4
<1> QED BY <1>4, <1>5, <1>6, <1>7 DEF n, OrderInv, IsInjective

LEMMA ListedSegments ==
  ASSUME OrderInv, NEW segments, segments \subseteq Segment, todo' = Listed(segments)
  PROVE  ListInv'
<1>1. DOMAIN todo' = segments /\ \A s \in segments : todo'[s] = recency[s]
  BY DEF Listed
<1>2. todo' = [s \in segments |-> todo'[s]]
  BY DEF Listed
<1>3. \A s \in segments : todo'[s] \in Nat
  BY <1>1, SegmentsCounted DEF OrderInv
<1>4. \A r, s \in segments : todo'[r] = todo'[s] => r = s
  BY <1>1 DEF OrderInv, IsInjective
<1> QED BY <1>1, <1>2, <1>3, <1>4 DEF ListInv, IsInjective

\* What is left of a listing is one.
LEMMA RestOfList ==
  ASSUME ListInv, todo' = Rest
  PROVE  ListInv'
<1>1. DOMAIN todo' \subseteq DOMAIN todo /\ \A s \in DOMAIN todo' : todo'[s] = todo[s]
  BY DEF Rest
<1>2. todo' = [s \in DOMAIN todo' |-> todo'[s]]
  BY DEF Rest
<1> QED BY <1>1, <1>2 DEF ListInv, IsInjective

\* What an opener does with its view.
LEMMA ViewsStay ==
  ASSUME CacheInv, ViewsInv, NEW o \in Opener, NEW j, opener' = [opener EXCEPT ![o] = j],
         j.refs \in Views \cup {<<>>}, j.next \in 1 .. Len(j.refs) + 1
  PROVE  ViewsInv'
<1>1. opener'[o] = j /\ \A p \in Opener \ {o} : opener'[p] = opener[p]
  BY DEF CacheInv
<1> QED BY <1>1 DEF ViewsInv

LEMMA ViewsGoto ==
  ASSUME CacheInv, ViewsInv, NEW o \in Opener, NEW pc, Goto(o, pc)
  PROVE  ViewsInv'
<1> DEFINE j == [opener[o] EXCEPT !.pc = pc]
<1>1. opener' = [opener EXCEPT ![o] = j]
  BY DEF Goto
<1>2. j.refs = opener[o].refs /\ j.next = opener[o].next
  BY DEF CacheInv, OpenerType
<1>3. j.refs \in Views \cup {<<>>} /\ j.next \in 1 .. Len(j.refs) + 1
  BY <1>2 DEF ViewsInv
<1> HIDE DEF j
<1> QED BY <1>1, <1>3, ViewsStay

LEMMA ViewsRelease ==
  ASSUME CacheInv, ViewsInv, NEW o \in Opener, Release(o)
  PROVE  ViewsInv'
<1> DEFINE e == <<>>
<1>1. Closed.refs = e /\ Closed.next = 1 /\ Len(e) = 0
  BY DEF Closed
<1>2. Closed.refs \in Views \cup {<<>>} /\ Closed.next \in 1 .. Len(Closed.refs) + 1
  BY <1>1
<1> QED BY <1>2, ViewsStay DEF Release

LEMMA TypesInit == ASSUME Init PROVE TypesInv
<1>1. OrderInv
  BY FirstOrder DEF Init
<1>2. ListInv
  <2>1. DOMAIN todo = {} /\ todo = [s \in {} |-> todo[s]]
    BY DEF Init, Listed
  <2> QED BY <2>1 DEF ListInv, IsInjective
<1>3. ViewsInv
  <2> DEFINE e == <<>>
  <2>1. \A o \in Opener : opener[o].refs = e /\ opener[o].next = 1
    BY DEF Init, Closed
  <2>2. Len(e) = 0
    OBVIOUS
  <2> QED BY <2>1, <2>2 DEF ViewsInv
<1> QED BY <1>1, <1>2, <1>3 DEF TypesInv

LEMMA TypesNext == ASSUME BudgetInv, TypesInv, [Next]_vars PROVE TypesInv'
<1>1. CacheInv /\ TargetInv /\ OrderInv /\ ListInv /\ ViewsInv /\ disk \subseteq Segment
  BY DEF BudgetInv, TypesInv
<1>2. ASSUME NEW o \in Opener, NEW refs \in Views, Open(o, refs) PROVE TypesInv'
  <2> DEFINE j == [Closed EXCEPT !.pc = "shared", !.refs = refs]
  <2>1. opener' = [opener EXCEPT ![o] = j] /\ UNCHANGED <<recency, todo>>
    BY <1>2 DEF Open
  <2>2. j.refs = refs /\ j.next = 1
    BY DEF Closed
  <2>3. refs \in Seq(Segment) /\ Len(refs) \in Nat
    BY CacheAssumption
  <2>4. ViewsInv'
    <3>1. j.refs \in Views \cup {<<>>} /\ j.next \in 1 .. Len(j.refs) + 1
      BY <2>2, <2>3
    <3> HIDE DEF j
    <3> QED BY <1>1, <2>1, <3>1, ViewsStay
  <2> QED BY <1>1, <2>1, <2>4 DEF TypesInv, OrderInv, ListInv
<1>3. ASSUME NEW o \in Opener, Pin(o) PROVE TypesInv'
  <2> DEFINE pc == IF opener[o].next = Len(opener[o].refs) THEN "open" ELSE "shared"
             j  == [opener[o] EXCEPT !.next = @ + 1, !.pc = pc]
  <2>1. opener' = [opener EXCEPT ![o] = j] /\ recency' = Touched(Target(o)) /\ todo' = todo
    BY <1>3 DEF Pin
  <2>2. opener[o].pc \in Opening
    BY <1>3 DEF Pin, Opening
  <2>3. opener[o].next \in 1 .. Len(opener[o].refs) /\ Len(opener[o].refs) \in Nat
    BY <1>1, <2>2 DEF TargetInv, CacheInv, OpenerType
  <2>4. j.refs = opener[o].refs /\ j.next = opener[o].next + 1
    BY <1>1 DEF CacheInv, OpenerType
  <2>5. ViewsInv'
    <3> HIDE DEF j
    <3>1. j.refs \in Views \cup {<<>>} /\ j.next \in 1 .. Len(j.refs) + 1
      BY <1>1, <2>3, <2>4 DEF ViewsInv
    <3> QED BY <1>1, <2>1, <3>1, ViewsStay
  <2>6. OrderInv'
    BY <1>1, <2>1, <2>2, TargetIsSegment, TouchKeepsOrder
  <2> QED BY <1>1, <2>1, <2>5, <2>6 DEF TypesInv, ListInv
<1>4. ASSUME NEW o \in Opener, NEW pc, Goto(o, pc), recency' = recency PROVE ViewsInv' /\ OrderInv'
  BY <1>1, <1>4, ViewsGoto DEF OrderInv
<1>5. ASSUME NEW o \in Opener, Missing(o) \/ Lock(o) \/ Recheck(o) PROVE TypesInv'
  BY <1>1, <1>4, <1>5 DEF TypesInv, ListInv, Missing, Lock, Recheck
<1>6. ASSUME NEW o \in Opener, StartFill(o) \/ StartGet(o) PROVE TypesInv'
  <2>1. PICK listed \in {disk, {}} : todo' = Listed(listed)
    BY <1>6 DEF StartFill, StartGet
  <2>2. ListInv'
    BY <1>1, <2>1, ListedSegments
  <2> QED BY <1>4, <1>6, <2>2 DEF TypesInv, StartFill, StartGet
<1>7. ASSUME NEW o \in Opener, Evict(o) PROVE TypesInv'
  <2>1. ListInv'
    BY <1>1, <1>7, RestOfList DEF Evict
  <2> QED BY <1>1, <1>7, <2>1 DEF Evict, TypesInv, OrderInv, ViewsInv
<1>8. ASSUME NEW o \in Opener, Install(o) PROVE TypesInv'
  <2>1. Goto(o, "shared") /\ recency' = Touched(Target(o)) /\ todo' = todo /\ opener[o].pc \in Opening
    BY <1>8 DEF Install, Opening
  <2>2. OrderInv'
    BY <1>1, <2>1, TargetIsSegment, TouchKeepsOrder
  <2> QED BY <1>1, <2>1, <2>2, ViewsGoto DEF TypesInv, ListInv
<1>9. ASSUME NEW o \in Opener, TimeOut(o) \/ CacheFull(o) \/ GetError(o) \/ Close(o) \/ Kill(o)
      PROVE  TypesInv'
  <2>1. Release(o) /\ recency' = recency /\ (todo' = todo \/ todo' = Listed({}))
    BY <1>9 DEF TimeOut, CacheFull, GetError, Close, Kill
  <2>2. ListInv'
    <3>1. CASE todo' = todo
      BY <1>1, <3>1 DEF ListInv
    <3>2. CASE todo' = Listed({})
      BY <1>1, <3>2, ListedSegments
    <3> QED BY <2>1, <3>1, <3>2
  <2> QED BY <1>1, <2>1, <2>2, ViewsRelease DEF TypesInv, OrderInv
<1>10. CASE UNCHANGED vars
  BY <1>1, <1>10 DEF vars, TypesInv, OrderInv, ListInv, ViewsInv
<1> QED BY <1>2, <1>3, <1>5, <1>6, <1>7, <1>8, <1>9, <1>10 DEF Next, Step

\* Types of the cache and its openers, for any segments and views: the order of use
\* stays a permutation however files are touched, and no opener runs past its view.
THEOREM CacheTypes == Spec => []TypeOK
<1>1. BudgetInv /\ TypesInv => TypeOK
  <2> SUFFICES ASSUME BudgetInv, TypesInv PROVE TypeOK
    OBVIOUS
  <2>1. ASSUME NEW o \in Opener
        PROVE  /\ opener[o].pc \in Opening \cup {"closed", "open"}
               /\ opener[o].pc \in Opening => opener[o].next <= Len(opener[o].refs)
    <3>1. opener[o] \in OpenerType
      BY DEF BudgetInv, CacheInv
    <3>2. opener[o].pc \in Opening => opener[o].next \in DOMAIN opener[o].refs
      BY DEF BudgetInv, TargetInv
    <3> QED BY <3>1, <3>2 DEF OpenerType
  <2> QED BY <2>1 DEF TypeOK, BudgetInv, TypesInv, OrderInv, ListInv, ViewsInv
<1> QED BY <1>1, BudgetInit, BudgetNext, TypesInit, TypesNext, PTL DEF Spec

=============================================================================
