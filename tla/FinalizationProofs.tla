--------------------------- MODULE FinalizationProofs ---------------------------
(***************************************************************************)
(* The content that each version of a repository gets beside its files,    *)
(* for any artifacts, of groups of any depth, and any series of tasks.     *)
(*                                                                         *)
(* The invariants are those of the runs with what they leave out: without  *)
(* artifacts there is no prefixes file, and without clients that deploy    *)
(* metadata there is none of theirs (ContentInv).  A modify keeps them,    *)
(* because what it does not look at is described by the same artifacts     *)
(* before and after.  Pages need an induction on directories, the deepest  *)
(* first (SettledListing), and that paths are of bounded depth.            *)
(***************************************************************************)
EXTENDS Finalization, FiniteSetTheorems, SequenceTheorems, WellFoundedInduction, TLAPS

-----------------------------------------------------------------------------
(* Induction, for paths of bounded depth.                                   *)

Less == {p \in Nat \X Nat : p[1] < p[2]}

LEMMA LessWellFounded == IsWellFoundedOn(Less, Nat)
  BY NatLessThanWellFounded, Zenon DEF OpToRel, Less

LEMMA StepInduction ==
  ASSUME NEW P, 0 \in P, \A n \in Nat : n \in P => n + 1 \in P
  PROVE  Nat \subseteq P
<1> DEFINE T == Nat \ P
<1> SUFFICES ASSUME T # {} PROVE FALSE
  BY Zenon
<1>1. T \subseteq Nat
  OBVIOUS
<1>2. PICK x \in T : \A y \in T : ~(<<y, x>> \in Less)
  <2> HIDE DEF T
  <2> QED BY <1>1, LessWellFounded, WFMin, Zenon
<1>3. x \in Nat /\ x # 0
  BY <1>2
<1>4. x - 1 \in Nat /\ (x - 1) + 1 = x /\ x - 1 < x
  BY <1>3
<1>5. x - 1 \in P
  BY <1>2, <1>3, <1>4 DEF Less
<1> QED BY <1>2, <1>4, <1>5

-----------------------------------------------------------------------------
(* Versions and what one modify makes of them.                              *)

IsVersion(v) ==
    /\ v = [artifacts |-> v.artifacts, packages |-> v.packages, prefixes |-> v.prefixes,
            metadata |-> v.metadata, pages |-> v.pages]
    /\ v.artifacts \subseteq Unit
    /\ v.metadata = [s \in Subject |-> v.metadata[s]]

\* w is v with other packages.
Repacked(v, w) ==
    /\ IsVersion(w) /\ w.artifacts = v.artifacts /\ w.prefixes = v.prefixes
    /\ w.metadata = v.metadata /\ w.pages = v.pages

\* w is v with other metadata and prefixes.
Redescribed(v, w) ==
    /\ IsVersion(w) /\ w.artifacts = v.artifacts /\ w.packages = v.packages /\ w.pages = v.pages

\* w is v with other pages.
Repaged(v, w) ==
    /\ IsVersion(w) /\ w.artifacts = v.artifacts /\ w.packages = v.packages
    /\ w.metadata = v.metadata /\ w.prefixes = v.prefixes

LEMMA ChangePackages ==
  ASSUME NEW v, IsVersion(v), NEW x, NEW w, w = [v EXCEPT !.packages = x]
  PROVE  Repacked(v, w) /\ w.packages = x
  BY DEF IsVersion, Repacked

LEMMA ChangeMetadata ==
  ASSUME NEW v, IsVersion(v), NEW x, x = [s \in Subject |-> x[s]], NEW y,
         NEW w, w = [v EXCEPT !.metadata = x, !.prefixes = y]
  PROVE  Redescribed(v, w) /\ w.metadata = x /\ w.prefixes = y
  BY DEF IsVersion, Redescribed

LEMMA ChangePages ==
  ASSUME NEW v, IsVersion(v), NEW x, NEW w, w = [v EXCEPT !.pages = x]
  PROVE  Repaged(v, w) /\ w.pages = x
  BY DEF IsVersion, Repaged

LEMMA ChangeArtifacts ==
  ASSUME NEW v, IsVersion(v), NEW x, x \subseteq Unit, NEW w, w = [v EXCEPT !.artifacts = x]
  PROVE  /\ IsVersion(w) /\ w.artifacts = x /\ w.packages = v.packages
         /\ w.metadata = v.metadata /\ w.prefixes = v.prefixes /\ w.pages = v.pages
  BY DEF IsVersion

\* What a task hands to finalize_new_version: the latest version with other artifacts
\* or with metadata from a client, or nothing.
Drafted(draft) ==
    /\ IsVersion(draft)
    /\ \/ draft = Empty
       \/ /\ draft.packages = latest.packages /\ draft.prefixes = latest.prefixes
          /\ draft.pages = latest.pages
          /\ \A s \in Subject : \/ draft.metadata[s] = latest.metadata[s]
                                \/ draft.metadata[s] = Uploaded /\ "upload" \in env.events

LEMMA EmptyVersion == IsVersion(Empty)
  BY DEF IsVersion, Empty

-----------------------------------------------------------------------------
(* Packages.                                                                *)

\* What PackagesFollowFiles says of a version, given the rows.
PackagesOK(v, r) ==
    /\ v.packages \subseteq LiveGavs(v) \cap r
    /\ "pull" \notin env.events => PomGavs(v) \subseteq v.packages

\* And of the step that makes it.
PackagesStay(v) == latest.packages \cap LiveGavs(v) \subseteq v.packages

LEMMA PackagesEnsured ==
  ASSUME IsVersion(latest), PackagesOK(latest, rows),
         NEW draft, Drafted(draft),
         NEW w, w = EnsurePackages(latest, draft)
  PROVE  /\ Repacked(draft, w)
         /\ PackagesOK(w, rows \cup CreatedPackages(latest, draft))
         /\ PackagesStay(w)
<1>0. /\ IsVersion(draft)
      /\ \/ draft.packages = latest.packages
         \/ draft.packages = {} /\ draft.artifacts = {}
  BY DEF Drafted, Empty
<1> DEFINE affected == AffectedGavs(latest, draft)
<1> DEFINE live == affected \cap LiveGavs(draft)
<1> DEFINE x == (draft.packages \cup (live \cap (rows \cup PomGavs(draft)))) \ (affected \ live)
<1>1. w = [draft EXCEPT !.packages = x]
  BY DEF EnsurePackages
<1>2. Repacked(draft, w) /\ w.packages = x
  <2> HIDE DEF x
  <2> QED BY <1>0, <1>1, ChangePackages
<1>3. LiveGavs(w) = LiveGavs(draft) /\ PomGavs(w) = PomGavs(draft)
  BY <1>2 DEF Repacked, LiveGavs, PomGavs
<1>4. PomGavs(draft) \subseteq LiveGavs(draft)
  BY DEF PomGavs, LiveGavs
<1>5. ASSUME NEW g, g \notin affected
      PROVE  /\ g \in LiveGavs(draft) <=> g \in LiveGavs(latest)
             /\ g \in PomGavs(draft) <=> g \in PomGavs(latest)
  BY <1>5 DEF AffectedGavs, Changed, LiveGavs, PomGavs
<1>6. ASSUME NEW g \in x PROVE g \in LiveGavs(w) /\ g \in rows \cup CreatedPackages(latest, draft)
  BY <1>0, <1>3, <1>4, <1>5, <1>6 DEF PackagesOK, CreatedPackages
<1>7. ASSUME "pull" \notin env.events, NEW g \in PomGavs(w) PROVE g \in x
  <2>1. CASE g \in affected
    BY <2>1, <1>3, <1>4, <1>7
  <2>2. CASE g \notin affected
    <3>1. g \in PomGavs(latest) /\ g \in latest.packages
      BY <2>2, <1>3, <1>5, <1>7 DEF PackagesOK
    <3>2. draft.packages = latest.packages
      BY <1>0, <1>3, <1>7 DEF PomGavs
    <3> QED BY <2>2, <3>1, <3>2
  <2> QED BY <2>1, <2>2
<1>8. ASSUME NEW g \in latest.packages \cap LiveGavs(w) PROVE g \in x
  <2>1. draft.packages = latest.packages
    BY <1>0, <1>3, <1>8 DEF LiveGavs
  <2> QED BY <2>1, <1>3, <1>8
<1> HIDE DEF x
<1> QED BY <1>2, <1>6, <1>7, <1>8 DEF PackagesOK, PackagesStay

-----------------------------------------------------------------------------
(* Metadata and prefixes.                                                   *)

\* MetadataIsCurrent of a version.
MetadataOK(v) ==
    \A s \in Subject :
        /\ \/ v.metadata[s] \in {Uploaded, Generated(v, s)}
           \/ /\ "pull" \in env.events
              /\ Generated(v, s) # NoFile
              /\ v.metadata[s] = NoFile \/ v.metadata[s] \subseteq Generated(v, s)
        /\ "upload" \notin env.events => v.metadata[s] # Uploaded

\* PrefixesAreCurrent of a version.
PrefixesOK(v) ==
    /\ \/ v.prefixes = CurrentPrefixes(v)
       \/ /\ "pull" \in env.events
          /\ v.prefixes = NoFile \/ v.prefixes \subseteq GroupPrefixes(v.artifacts)
    /\ v.artifacts = {} => v.prefixes = NoFile

\* What metadata lists is a set of names, and there is none without content.
LEMMA GeneratedNames ==
  ASSUME NEW v, v.artifacts \subseteq Unit, NEW s \in Subject
  PROVE  /\ Generated(v, s) \in (SUBSET Name) \cup {NoFile}
         /\ Generated(v, s) # Uploaded
         /\ Generated(v, s) = NoFile <=> Described(s, v.artifacts) = {}
<1> DEFINE listed == {u[Len(s) + 1] : u \in Described(s, v.artifacts)}
<1>1. Len(s) + 1 \in 3 .. 4
  <2>1. ASSUME NEW u \in Unit, s = Pair(u) PROVE Len(s) + 1 = 3
    BY <2>1 DEF Pair
  <2>2. ASSUME NEW u \in Unit, s = Gav(u) PROVE Len(s) + 1 = 4
    BY <2>2 DEF Gav
  <2> QED BY <2>1, <2>2 DEF Subject, Gavs
<1>2. \A u \in Unit : u[3] \in Name /\ u[4] \in Name
  BY FinalizationAssumption
<1>3. listed \subseteq Name
  BY <1>1, <1>2 DEF Described
<1>4. listed = {} <=> Described(s, v.artifacts) = {}
  OBVIOUS
<1>5. Generated(v, s) = IF listed = {} THEN NoFile ELSE listed
  BY DEF Generated
<1> HIDE DEF listed
<1> QED BY <1>3, <1>4, <1>5, NoFileAssumption

\* What is not among the affected subjects is described by the same artifacts.
LEMMA OthersUnchanged ==
  ASSUME NEW v, NEW w, NEW s \in Subject, s \notin AffectedSubjects(v, w)
  PROVE  /\ Described(s, v.artifacts) = Described(s, w.artifacts)
         /\ Generated(v, s) = Generated(w, s)
<1>1. \A u \in Changed(v, w) : s \notin {Pair(u), Gav(u)}
  BY DEF AffectedSubjects, AffectedPairs, AffectedGavs
<1>2. Described(s, v.artifacts) = Described(s, w.artifacts)
  BY <1>1 DEF Changed, Described
<1> QED BY <1>2 DEF Generated

\* Prefixes that the changed pairs share with others are right as they are.
LEMMA PrefixesUnchanged ==
  ASSUME NEW v, NEW w, Changed(v, w) # {}, ~PrefixSetChanged(v, w)
  PROVE  GroupPrefixes(v.artifacts) = GroupPrefixes(w.artifacts) /\ w.artifacts # {}
<1> DEFINE others == {u \in w.artifacts : Pair(u) \notin AffectedPairs(v, w)}
<1>1. \A u \in Changed(v, w) : /\ ComputePrefix(u[1]) \in GroupPrefixes(others)
                               /\ ComputePrefix(u[1]) \in GroupPrefixes(w.artifacts)
  BY DEF PrefixSetChanged, GroupPrefixes
<1>2. others \subseteq v.artifacts
  BY DEF Changed, AffectedPairs
<1>3. GroupPrefixes(others) \subseteq GroupPrefixes(v.artifacts)
  BY <1>2 DEF GroupPrefixes
<1>4. \A u : u \in Changed(v, w) <=> (u \in v.artifacts <=> u \notin w.artifacts)
  BY DEF Changed
<1> HIDE DEF others
<1> QED BY <1>1, <1>3, <1>4 DEF GroupPrefixes

LEMMA MetadataGenerated ==
  ASSUME IsVersion(latest), MetadataOK(latest), PrefixesOK(latest),
         NEW draft, Drafted(draft), NEW w, Repacked(draft, w),
         NEW x, x = GenerateMetadata(latest, w)
  PROVE  /\ Redescribed(w, x) /\ MetadataOK(x) /\ PrefixesOK(x)
         /\ \A s \in Subject : x.metadata[s] \in {w.metadata[s], Generated(w, s)}
<1>1. IsVersion(w) /\ w.artifacts = draft.artifacts
      /\ w.metadata = draft.metadata /\ w.prefixes = draft.prefixes
  BY DEF Repacked
<1>2. /\ w.artifacts \subseteq Unit
      /\ \A s \in Subject : \/ w.metadata[s] = latest.metadata[s]
                            \/ w.metadata[s] = Uploaded /\ "upload" \in env.events
                            \/ w.metadata[s] = NoFile /\ w.artifacts = {}
      /\ \/ w.prefixes = latest.prefixes
         \/ w.prefixes = NoFile /\ w.artifacts = {}
  <2>1. CASE draft = Empty
    BY <1>1, <2>1 DEF Empty
  <2>2. CASE draft # Empty
    BY <1>1, <2>2 DEF Drafted, IsVersion
  <2> QED BY <2>1, <2>2
<1>3. ASSUME NEW s \in Subject, Generated(w, s) = Generated(latest, s)
      PROVE  /\ \/ w.metadata[s] \in {Uploaded, Generated(w, s)}
                \/ /\ "pull" \in env.events
                   /\ Generated(w, s) # NoFile
                   /\ w.metadata[s] = NoFile \/ w.metadata[s] \subseteq Generated(w, s)
             /\ "upload" \notin env.events => w.metadata[s] # Uploaded
  <2>1. w.artifacts = {} => Generated(w, s) = NoFile
    BY <1>2, GeneratedNames DEF Described
  <2> QED BY <1>2, <1>3, <2>1, NoFileAssumption DEF MetadataOK
<1>4. CASE Changed(latest, w) = {}
  <2>1. x = w
    BY <1>4 DEF GenerateMetadata
  <2>2. latest.artifacts = w.artifacts
    BY <1>4 DEF Changed
  <2>3. \A s : Generated(w, s) = Generated(latest, s)
    BY <2>2 DEF Generated
  <2>4. MetadataOK(w)
    BY <1>3, <2>3 DEF MetadataOK
  <2>5. PrefixesOK(w)
    BY <1>2, <2>2 DEF PrefixesOK, CurrentPrefixes
  <2> QED BY <1>1, <2>1, <2>4, <2>5 DEF Redescribed
<1>5. CASE Changed(latest, w) # {}
  <2> DEFINE metadata == [s \in Subject |-> IF s \in AffectedSubjects(latest, w)
                                             THEN Generated(w, s) ELSE w.metadata[s]]
  <2> DEFINE prefixes == IF PrefixSetChanged(latest, w) \/ w.prefixes = NoFile
                         THEN CurrentPrefixes(w) ELSE w.prefixes
  <2>1. x = [w EXCEPT !.metadata = metadata, !.prefixes = prefixes]
    BY <1>5 DEF GenerateMetadata
  <2>2. Redescribed(w, x) /\ x.metadata = metadata /\ x.prefixes = prefixes
    <3>1. metadata = [s \in Subject |-> metadata[s]]
      OBVIOUS
    <3> HIDE DEF metadata, prefixes
    <3> QED BY <1>1, <2>1, <3>1 DEF IsVersion, Redescribed
  <2>3. x.artifacts = w.artifacts
    BY <2>2 DEF Redescribed
  <2>4. \A s : Generated(x, s) = Generated(w, s)
    BY <2>3 DEF Generated
  <2>5. ASSUME NEW s \in Subject
        PROVE  /\ \/ metadata[s] \in {Uploaded, Generated(w, s)}
                  \/ /\ "pull" \in env.events
                     /\ Generated(w, s) # NoFile
                     /\ metadata[s] = NoFile \/ metadata[s] \subseteq Generated(w, s)
               /\ "upload" \notin env.events => metadata[s] # Uploaded
    <3>1. CASE s \in AffectedSubjects(latest, w)
      BY <1>2, <3>1, GeneratedNames
    <3>2. CASE s \notin AffectedSubjects(latest, w)
      BY <1>3, <3>2, OthersUnchanged
    <3> QED BY <3>1, <3>2
  <2>6. MetadataOK(x)
    <3> HIDE DEF metadata
    <3> QED BY <2>2, <2>4, <2>5 DEF MetadataOK
  <2>7. PrefixesOK(x)
    <3>1. CASE PrefixSetChanged(latest, w) \/ w.prefixes = NoFile
      BY <2>2, <2>3, <3>1 DEF PrefixesOK, CurrentPrefixes
    <3>2. CASE ~PrefixSetChanged(latest, w) /\ w.prefixes # NoFile
      <4>1. x.prefixes = latest.prefixes /\ x.prefixes # NoFile
        BY <1>2, <2>2, <3>2
      <4>2. GroupPrefixes(latest.artifacts) = GroupPrefixes(x.artifacts) /\ x.artifacts # {}
        BY <1>5, <2>3, <3>2, PrefixesUnchanged
      <4> QED BY <4>1, <4>2 DEF PrefixesOK, CurrentPrefixes
    <3> QED BY <3>1, <3>2
  <2>8. \A s \in Subject : x.metadata[s] \in {w.metadata[s], Generated(w, s)}
    BY <2>2
  <2> QED BY <2>2, <2>6, <2>7, <2>8
<1> QED BY <1>4, <1>5

LEMMA MetadataRegenerated ==
  ASSUME NEW v, IsVersion(v), NEW x, x = RegenerateMetadata(v)
  PROVE  Redescribed(v, x) /\ MetadataOK(x) /\ PrefixesOK(x)
<1> DEFINE metadata == [s \in Subject |-> Generated(v, s)]
<1>1. x = [v EXCEPT !.metadata = metadata, !.prefixes = CurrentPrefixes(v)]
  BY DEF RegenerateMetadata
<1>2. Redescribed(v, x) /\ x.metadata = metadata /\ x.prefixes = CurrentPrefixes(v)
  <2>1. metadata = [s \in Subject |-> metadata[s]]
    OBVIOUS
  <2> HIDE DEF metadata
  <2> QED BY <1>1, <2>1 DEF IsVersion, Redescribed
<1>3. x.artifacts = v.artifacts /\ v.artifacts \subseteq Unit
  BY <1>2 DEF Redescribed, IsVersion
<1>4. \A s : Generated(x, s) = Generated(v, s)
  BY <1>3 DEF Generated
<1>5. \A s \in Subject : x.metadata[s] = Generated(v, s)
  BY <1>2
<1>6. MetadataOK(x)
  <2> HIDE DEF metadata
  <2> QED BY <1>3, <1>4, <1>5, GeneratedNames DEF MetadataOK
<1>7. PrefixesOK(x)
  BY <1>2, <1>3 DEF PrefixesOK, CurrentPrefixes
<1> QED BY <1>2, <1>6, <1>7

\* Where no client writes metadata, regenerating it takes no file away, and makes
\* none unless pull-through has left one out.
LEMMA RegeneratedFiles ==
  ASSUME IsVersion(latest), MetadataOK(latest), PrefixesOK(latest),
         "upload" \notin env.events, NEW x, x = RegenerateMetadata(latest)
  PROVE  /\ Files(latest) \subseteq Files(x)
         /\ "pull" \notin env.events => Files(latest) = Files(x)
<1>1. /\ x.artifacts = latest.artifacts /\ latest.artifacts \subseteq Unit
      /\ x.prefixes = CurrentPrefixes(latest)
      /\ \A s \in Subject : x.metadata[s] = Generated(latest, s)
  BY DEF RegenerateMetadata, IsVersion
<1>2. ASSUME NEW s \in Subject
      PROVE  /\ latest.metadata[s] # NoFile => x.metadata[s] # NoFile
             /\ "pull" \notin env.events => latest.metadata[s] = x.metadata[s]
  BY <1>1 DEF MetadataOK
<1>3. /\ latest.prefixes # NoFile => x.prefixes # NoFile
      /\ "pull" \notin env.events => latest.prefixes = x.prefixes
  <2>1. CurrentPrefixes(latest) = NoFile => latest.artifacts = {}
    BY <1>1, NoFileAssumption DEF CurrentPrefixes
  <2> QED BY <1>1, <2>1 DEF PrefixesOK
<1>4. PrefixesFile(latest) \subseteq PrefixesFile(x)
      /\ ("pull" \notin env.events => PrefixesFile(latest) = PrefixesFile(x))
  BY <1>3 DEF PrefixesFile
<1> QED BY <1>1, <1>2, <1>4 DEF Files

\* Pull-through adds an artifact, and leaves everything else behind.
LEMMA Pulled ==
  ASSUME IsVersion(latest), PackagesOK(latest, rows), MetadataOK(latest), PrefixesOK(latest),
         "pull" \in env.events, NEW u \in Unit,
         NEW x, x = [latest EXCEPT !.artifacts = @ \cup {u}]
  PROVE  /\ IsVersion(x) /\ x.pages = latest.pages
         /\ PackagesOK(x, rows) /\ MetadataOK(x) /\ PrefixesOK(x)
         /\ Files(latest) \subseteq Files(x)
<1>1. /\ IsVersion(x) /\ x.artifacts = latest.artifacts \cup {u}
      /\ x.packages = latest.packages /\ x.metadata = latest.metadata
      /\ x.prefixes = latest.prefixes /\ x.pages = latest.pages
  <2>1. latest.artifacts \cup {u} \subseteq Unit
    BY DEF IsVersion
  <2> QED BY <2>1 DEF IsVersion
<1>2. x.artifacts \subseteq Unit
  BY <1>1 DEF IsVersion
<1>3. PackagesOK(x, rows)
  BY <1>1 DEF PackagesOK, LiveGavs
<1>4. ASSUME NEW s \in Subject
      PROVE  /\ Generated(latest, s) # NoFile =>
                    Generated(x, s) # NoFile /\ Generated(latest, s) \subseteq Generated(x, s)
             /\ Generated(latest, s) = NoFile => latest.metadata[s] \in {NoFile, Uploaded}
             /\ Generated(x, s) # NoFile \/ Generated(latest, s) = NoFile
  <2>1. Described(s, latest.artifacts) \subseteq Described(s, x.artifacts)
    BY <1>1 DEF Described
  <2>2. Generated(x, s) = NoFile <=> Described(s, x.artifacts) = {}
    BY <1>2, GeneratedNames
  <2>3. latest.artifacts \subseteq Unit
    BY <1>1, <1>2
  <2>4. Generated(latest, s) = NoFile <=> Described(s, latest.artifacts) = {}
    BY <2>3, GeneratedNames
  <2>5. Described(s, latest.artifacts) # {} => Generated(latest, s) \subseteq Generated(x, s)
    BY <2>1 DEF Generated
  <2> QED BY <2>1, <2>2, <2>4, <2>5 DEF MetadataOK
<1>5. MetadataOK(x)
  <2> SUFFICES ASSUME NEW s \in Subject
               PROVE  /\ \/ latest.metadata[s] \in {Uploaded, Generated(x, s)}
                         \/ /\ "pull" \in env.events
                            /\ Generated(x, s) # NoFile
                            /\ \/ latest.metadata[s] = NoFile
                               \/ latest.metadata[s] \subseteq Generated(x, s)
                      /\ "upload" \notin env.events => latest.metadata[s] # Uploaded
    BY <1>1 DEF MetadataOK
  <2>1. CASE Generated(x, s) = NoFile
    BY <1>4, <2>1 DEF MetadataOK
  <2>2. CASE Generated(x, s) # NoFile
    BY <1>4, <2>2 DEF MetadataOK
  <2> QED BY <2>1, <2>2
<1>6. PrefixesOK(x)
  <2>1. GroupPrefixes(latest.artifacts) \subseteq GroupPrefixes(x.artifacts) /\ x.artifacts # {}
    BY <1>1 DEF GroupPrefixes
  <2> QED BY <1>1, <2>1 DEF PrefixesOK, CurrentPrefixes
<1>7. Files(latest) \subseteq Files(x)
  BY <1>1 DEF Files, PrefixesFile
<1> QED BY <1>1, <1>3, <1>5, <1>6, <1>7

-----------------------------------------------------------------------------
(* Paths and directories.                                                   *)

LEMMA PrefixMeans ==
  ASSUME NEW d \in Seq(Name), NEW p \in Seq(Name)
  PROVE  IsPrefix(d, p) <=> Len(d) <= Len(p) /\ \A i \in 1 .. Len(d) : d[i] = p[i]
<1>1. CASE Len(d) <= Len(p)
  <2>1. /\ SubSeq(p, 1, Len(d)) \in Seq(Name) /\ Len(SubSeq(p, 1, Len(d))) = Len(d)
        /\ \A i \in 1 .. Len(d) : SubSeq(p, 1, Len(d))[i] = p[i]
    BY <1>1
  <2>2. SubSeq(d, 1, Len(d)) = d
    OBVIOUS
  <2>3. SubSeq(p, 1, Len(d)) = d <=> \A i \in 1 .. Len(d) : d[i] = p[i]
    BY <2>1, SeqEqual
  <2> QED BY <1>1, <2>2, <2>3 DEF IsPrefix
<1>2. CASE ~(Len(d) <= Len(p))
  BY <1>2 DEF IsPrefix
<1> QED BY <1>1, <1>2

LEMMA PrefixTransitive ==
  ASSUME NEW d \in Seq(Name), NEW e \in Seq(Name), NEW p \in Seq(Name),
         IsPrefix(d, e), IsPrefix(e, p)
  PROVE  IsPrefix(d, p)
<1>1. Len(d) <= Len(e) /\ \A i \in 1 .. Len(d) : d[i] = e[i]
  BY PrefixMeans
<1>2. Len(e) <= Len(p) /\ \A i \in 1 .. Len(e) : e[i] = p[i]
  BY PrefixMeans
<1>3. Len(d) <= Len(p) /\ \A i \in 1 .. Len(d) : d[i] = p[i]
  BY <1>1, <1>2
<1> QED BY <1>3, PrefixMeans

LEMMA SamePath ==
  ASSUME NEW d \in Seq(Name), NEW p \in Seq(Name), IsPrefix(d, p), Len(d) = Len(p)
  PROVE  d = p
  BY PrefixMeans, SeqEqual

LEMMA BelowIsShorter ==
  ASSUME NEW d \in Seq(Name), NEW p \in Seq(Name)
  PROVE  Below(d, p) <=> IsPrefix(d, p) /\ Len(d) < Len(p)
<1>1. IsPrefix(d, p) => Len(d) <= Len(p) /\ Len(d) \in Nat /\ Len(p) \in Nat
  BY PrefixMeans
<1> QED BY <1>1, SamePath DEF Below, IsStrictPrefix

\* The child on the way to a path.
LEMMA ChildIs ==
  ASSUME NEW d \in Seq(Name), NEW p \in Seq(Name), Below(d, p)
  PROVE  /\ Child(d, p) \in Seq(Name) /\ Len(Child(d, p)) = Len(d) + 1
         /\ IsPrefix(d, Child(d, p)) /\ IsPrefix(Child(d, p), p)
         /\ Child(d, p) # p => Below(Child(d, p), p)
<1>1. Len(d) < Len(p) /\ \A i \in 1 .. Len(d) : d[i] = p[i]
  BY BelowIsShorter, PrefixMeans
<1>2. /\ Child(d, p) \in Seq(Name) /\ Len(Child(d, p)) = Len(d) + 1
      /\ \A i \in 1 .. Len(d) + 1 : Child(d, p)[i] = p[i]
  BY <1>1 DEF Child
<1>3. IsPrefix(d, Child(d, p)) /\ IsPrefix(Child(d, p), p)
  BY <1>1, <1>2, PrefixMeans
<1> QED BY <1>2, <1>3 DEF Below, IsStrictPrefix

\* What is below a child is below the directory, by way of that child.
LEMMA ThroughChild ==
  ASSUME NEW d \in Seq(Name), NEW e \in Seq(Name), NEW p \in Seq(Name),
         IsPrefix(d, e), Len(e) = Len(d) + 1, Below(e, p)
  PROVE  Below(d, p) /\ Entry(d, p) = DirectoryEntry(e)
<1>1. IsPrefix(d, p) /\ Len(e) < Len(p)
  BY PrefixTransitive, BelowIsShorter
<1>2. Below(d, p)
  BY <1>1, BelowIsShorter
<1>3. Child(d, p) \in Seq(Name) /\ Len(Child(d, p)) = Len(e) /\ IsPrefix(Child(d, p), p)
  BY <1>2, ChildIs
<1>4. /\ \A i \in 1 .. Len(e) : e[i] = p[i]
      /\ \A i \in 1 .. Len(e) : Child(d, p)[i] = p[i]
  BY <1>3, BelowIsShorter, PrefixMeans
<1>5. Child(d, p) = e
  BY <1>3, <1>4, SeqEqual
<1>6. e # p
  BY <1>1
<1> QED BY <1>2, <1>5, <1>6 DEF Entry, DirectoryEntry

LEMMA PathTypes ==
  /\ AllPaths \subseteq Seq(Name)
  /\ \A u \in Unit : Len(Path(u)) = Len(u[1]) + 3
  /\ \A s \in Subject : \E u \in Unit : Len(MetadataPath(s)) <= Len(u[1]) + 3
<1>1. ASSUME NEW u \in Unit
      PROVE  Path(u) \in Seq(Name) /\ Len(Path(u)) = Len(u[1]) + 3
  <2>1. u[1] \in Seq(Name) /\ u[2] \in Name /\ u[3] \in Name /\ u[4] \in Name
    BY FinalizationAssumption
  <2> DEFINE rest == <<u[2], u[3], u[4]>>
  <2>2. rest \in Seq(Name) /\ Len(rest) = 3
    BY <2>1
  <2>3. u[1] \o rest \in Seq(Name) /\ Len(u[1] \o rest) = Len(u[1]) + Len(rest)
    <3> HIDE DEF rest
    <3> QED BY <2>1, <2>2, ConcatProperties
  <2> QED BY <2>2, <2>3, Zenon DEF Path
<1>2. ASSUME NEW u \in Unit, NEW s \in {Pair(u), Gav(u)}
      PROVE  MetadataPath(s) \in Seq(Name) /\ Len(MetadataPath(s)) <= Len(u[1]) + 3
  <2>1. u[1] \in Seq(Name) /\ u[2] \in Name /\ u[3] \in Name /\ "maven-metadata.xml" \in Name
    BY FinalizationAssumption
  <2>2. s[1] = u[1] /\ s[2] = u[2] /\ (Len(s) = 2 \/ s[3] = u[3])
    BY DEF Pair, Gav
  <2> DEFINE m == IF Len(s) = 2 THEN <<s[2]>> ELSE <<s[2], s[3]>>
  <2>3. m \in Seq(Name) /\ Len(m) \in Nat /\ Len(m) <= 2
    BY <2>1, <2>2
  <2>4. MetadataPath(s) = u[1] \o m \o <<"maven-metadata.xml">>
    BY <2>2 DEF MetadataPath
  <2> HIDE DEF m
  <2>5. u[1] \o m \in Seq(Name) /\ Len(u[1] \o m) = Len(u[1]) + Len(m)
    BY <2>1, <2>3, ConcatProperties
  <2>6. <<"maven-metadata.xml">> \in Seq(Name) /\ Len(<<"maven-metadata.xml">>) = 1
    BY <2>1
  <2>7. /\ MetadataPath(s) \in Seq(Name)
        /\ Len(MetadataPath(s)) = Len(u[1] \o m) + 1
    BY <2>4, <2>5, <2>6, ConcatProperties
  <2>8. Len(MetadataPath(s)) = Len(u[1]) + Len(m) + 1 /\ Len(u[1]) \in Nat
    BY <2>1, <2>5, <2>7, LenProperties
  <2>9. Len(MetadataPath(s)) <= Len(u[1]) + 3
    BY <2>3, <2>8
  <2> QED BY <2>7, <2>9
<1>3. \A s \in Subject : \E u \in Unit : s \in {Pair(u), Gav(u)}
  BY DEF Subject, Gavs
<1>4. PrefixesPath \in Seq(Name)
  BY FinalizationAssumption DEF PrefixesPath
<1>5. \A s \in Subject : MetadataPath(s) \in Seq(Name)
  BY <1>2, <1>3
<1> QED BY <1>1, <1>2, <1>3, <1>4, <1>5 DEF AllPaths

\* Directories are what paths are below.
LEMMA DirectoryIs ==
  /\ Directory \subseteq Seq(Name)
  /\ \A d \in Seq(Name) : d \in Directory <=> \E p \in AllPaths : Below(d, p)
<1>1. ASSUME NEW p \in AllPaths
      PROVE  /\ Prefixes(p) \subseteq Seq(Name)
             /\ \A d \in Seq(Name) : d \in Prefixes(p) <=> IsPrefix(d, p)
  <2>1. p \in Seq(Name)
    BY PathTypes
  <2>2. \A l \in 0 .. Len(p) : SubSeq(p, 1, l) \in Seq(Name) /\ Len(SubSeq(p, 1, l)) = l
    BY <2>1
  <2>3. ASSUME NEW d \in Seq(Name), d \in Prefixes(p) PROVE IsPrefix(d, p)
    <3>1. PICK l \in 0 .. Len(p) : d = SubSeq(p, 1, l)
      BY <2>3 DEF Prefixes
    <3>2. Len(d) <= Len(p) /\ \A i \in 1 .. Len(d) : d[i] = p[i]
      BY <2>1, <2>2, <3>1
    <3> QED BY <2>1, <3>2, PrefixMeans
  <2>4. ASSUME NEW d \in Seq(Name), IsPrefix(d, p) PROVE d \in Prefixes(p)
    <3>1. Len(d) <= Len(p) /\ SubSeq(d, 1, Len(d)) = SubSeq(p, 1, Len(d)) /\ Len(d) \in Nat
      BY <2>4 DEF IsPrefix
    <3>2. d = SubSeq(p, 1, Len(d)) /\ Len(d) \in 0 .. Len(p)
      BY <2>1, <3>1
    <3> QED BY <3>2 DEF Prefixes
  <2> QED BY <2>2, <2>3, <2>4 DEF Prefixes
<1>2. \A d : d \in Directory <=> \E p \in AllPaths : d \in Prefixes(p) /\ d # p
  BY DEF Directory
<1> QED BY <1>1, <1>2 DEF Below, IsStrictPrefix

\* Paths have a greatest length, for there are finitely many artifacts.
LEMMA DepthIsBounded == \E n \in Nat : \A d \in Directory : Len(d) <= n
<1> DEFINE n == Cardinality(Unit)
<1>1. PICK f \in Bijection(1 .. n, Unit) : TRUE
  BY FinalizationAssumption, FS_CardinalityType DEF ExistsBijection
<1>2. n \in Nat
  BY FinalizationAssumption, FS_CardinalityType
<1>3. /\ \A u \in Unit : \E i \in 1 .. n : f[i] = u
      /\ \A i \in 1 .. n : f[i] \in Unit
  BY <1>1, Zenon DEF Bijection, Injection, Surjection
<1>4. \A u \in Unit : u[1] \in Seq(Name) /\ Len(u[1]) \in Nat
  BY FinalizationAssumption
<1> HIDE DEF n
<1> DEFINE P == {k \in Nat : \E b \in Nat : \A i \in 1 .. n : i <= k => Len(f[i][1]) <= b}
<1>5. 0 \in P
  OBVIOUS
<1>6. ASSUME NEW k \in Nat, k \in P PROVE k + 1 \in P
  <2>1. PICK b \in Nat : \A i \in 1 .. n : i <= k => Len(f[i][1]) <= b
    BY <1>6
  <2>2. CASE k + 1 \in 1 .. n
    <3> DEFINE c == Len(f[k + 1][1])
    <3>1. c \in Nat
      BY <1>3, <1>4, <2>2
    <3>2. \A i \in 1 .. n : i <= k + 1 => i <= k \/ Len(f[i][1]) = c
      BY <1>2
    <3>3. \A i \in 1 .. n : Len(f[i][1]) \in Nat
      BY <1>3, <1>4
    <3> DEFINE e == b + c
    <3> HIDE DEF c
    <3>4. \A i \in 1 .. n : i <= k + 1 => Len(f[i][1]) <= e
      BY <2>1, <3>1, <3>2, <3>3
    <3>5. e \in Nat
      BY <3>1
    <3> HIDE DEF e
    <3> QED BY <3>4, <3>5
  <2>3. CASE k + 1 \notin 1 .. n
    <3>1. \A i \in 1 .. n : i <= k + 1 => i <= k
      BY <1>2, <2>3
    <3> QED BY <2>1, <3>1
  <2> QED BY <2>2, <2>3
<1>7. n \in P
  <2> HIDE DEF P
  <2> QED BY <1>2, <1>5, <1>6, StepInduction
<1>8. PICK b \in Nat : \A i \in 1 .. n : i <= n => Len(f[i][1]) <= b
  BY <1>7
<1>9. \A u \in Unit : Len(u[1]) <= b
  BY <1>2, <1>3, <1>8
<1>10. \A p \in AllPaths : Len(p) <= b + 3
  <2>1. \A u \in Unit : Len(Path(u)) <= b + 3
    BY <1>4, <1>9, PathTypes
  <2>2. \A s \in Subject : Len(MetadataPath(s)) <= b + 3
    <3> TAKE s \in Subject
    <3>1. PICK u \in Unit : Len(MetadataPath(s)) <= Len(u[1]) + 3
      BY PathTypes
    <3>2. MetadataPath(s) \in Seq(Name)
      BY PathTypes DEF AllPaths
    <3>3. Len(MetadataPath(s)) \in Nat
      BY <3>2
    <3> QED BY <1>4, <1>9, <3>1, <3>3
  <2>3. Len(PrefixesPath) <= b + 3
    BY DEF PrefixesPath
  <2> QED BY <2>1, <2>2, <2>3 DEF AllPaths
<1>11. ASSUME NEW d \in Directory PROVE Len(d) <= b + 3
  <2>1. PICK p \in AllPaths : Below(d, p)
    BY DirectoryIs
  <2>2. Len(d) < Len(p) /\ Len(d) \in Nat /\ Len(p) \in Nat
    BY <2>1, DirectoryIs, PathTypes, BelowIsShorter, LenProperties
  <2> QED BY <1>10, <2>2
<1> QED BY <1>11

-----------------------------------------------------------------------------
(* Settled exists, and is what its equation says.                           *)

SettledPage(edited, page, d) ==
    (edited[d] \ {DirectoryEntry(e) : e \in Kids(d, DOMAIN edited)})
        \cup {DirectoryEntry(e) : e \in {k \in Kids(d, DOMAIN edited) : page[k] # {}}}

\* The pages of the last n levels are settled.
SettledBelow(edited, depth, n, page) ==
    \A d \in DOMAIN edited : Len(d) + n > depth => page[d] = SettledPage(edited, page, d)

LEMMA SettleLevel ==
  ASSUME NEW edited, DOMAIN edited \subseteq Directory,
         NEW depth \in Nat, NEW n \in Nat, NEW page, SettledBelow(edited, depth, n, page)
  PROVE  \E next : SettledBelow(edited, depth, n + 1, next)
<1> DEFINE D == DOMAIN edited
<1> DEFINE next == [d \in D |-> IF Len(d) + n > depth THEN page[d] ELSE SettledPage(edited, page, d)]
<1>1. \A d \in D : Len(d) \in Nat
  BY DirectoryIs, LenProperties
<1>2. ASSUME NEW d \in D, Len(d) + (n + 1) > depth
      PROVE  next[d] = SettledPage(edited, next, d)
  <2>1. \A k \in Kids(d, D) : k \in D /\ Len(k) + n > depth
    BY <1>1, <1>2 DEF Kids
  <2>2. \A k \in Kids(d, D) : next[k] = page[k]
    BY <2>1
  <2>3. SettledPage(edited, next, d) = SettledPage(edited, page, d)
    <3> HIDE DEF next
    <3> QED BY <2>2 DEF SettledPage
  <2>4. next[d] = SettledPage(edited, page, d)
    BY DEF SettledBelow
  <2> QED BY <2>3, <2>4
<1> HIDE DEF next
<1>3. SettledBelow(edited, depth, n + 1, next)
  BY <1>2 DEF SettledBelow
<1> QED BY <1>3

LEMMA SettledIs ==
  ASSUME NEW edited, DOMAIN edited \subseteq Directory
  PROVE  /\ DOMAIN Settled(edited) = DOMAIN edited
         /\ \A d \in DOMAIN edited : Settled(edited)[d] = SettledPage(edited, Settled(edited), d)
<1>1. PICK depth \in Nat : \A d \in Directory : Len(d) <= depth
  BY DepthIsBounded
<1>2. \A d \in DOMAIN edited : Len(d) \in Nat /\ Len(d) <= depth
  BY <1>1, DirectoryIs, LenProperties
<1> DEFINE P == {n \in Nat : \E page : SettledBelow(edited, depth, n, page)}
<1>3. 0 \in P
  BY <1>2 DEF SettledBelow
<1>4. \A n \in Nat : n \in P => n + 1 \in P
  BY SettleLevel
<1>5. depth + 1 \in P
  <2>1. depth + 1 \in Nat
    OBVIOUS
  <2> HIDE DEF P
  <2> QED BY <1>3, <1>4, <2>1, StepInduction
<1>6. PICK page : SettledBelow(edited, depth, depth + 1, page)
  BY <1>5
<1>7. \A d \in DOMAIN edited : page[d] = SettledPage(edited, page, d)
  BY <1>2, <1>6 DEF SettledBelow
<1> DEFINE Right(f) == f = [d \in DOMAIN edited |-> SettledPage(edited, f, d)]
<1> DEFINE final == [d \in DOMAIN edited |-> page[d]]
<1>8. Right(final)
  <2>1. \A d \in DOMAIN edited : SettledPage(edited, final, d) = SettledPage(edited, page, d)
    BY DEF SettledPage, Kids
  <2> QED BY <1>7, <2>1
<1>9. Settled(edited) = CHOOSE f : Right(f)
  BY DEF Settled, SettledPage
<1>10. Right(Settled(edited))
  <2> HIDE DEF Right, final
  <2> QED BY <1>8, <1>9
<1> QED BY <1>10

-----------------------------------------------------------------------------
(* Pages that are edited are those a rebuild would make.                    *)

ListedIn(paths, d) == {Entry(d, p) : p \in {q \in paths : Below(d, q)}}

\* From the files F to the files G, with pages that list F: R is removed, A is added,
\* and what is replaced is both.
Editing(F, G, R, A, pages) ==
    /\ F \subseteq AllPaths /\ G \subseteq AllPaths /\ R \subseteq AllPaths
    /\ A \subseteq G /\ G \subseteq F \cup A
    /\ F \subseteq G \cup R /\ R \cap G \subseteq A
    /\ \A d \in Directory : pages[d] \subseteq ListedIn(F, d)

Affected(R, A, pages) == {d \in Directory : ListingChanges(pages, R, A, d)}

Edited(R, A, pages, unreadable) ==
    Affected(R, A, pages) \ Skipped(pages, Affected(R, A, pages), unreadable)

LEMMA ListedElement ==
  ASSUME NEW paths, NEW d, NEW x
  PROVE  x \in ListedIn(paths, d) <=> \E p \in paths : Below(d, p) /\ x = Entry(d, p)
  BY DEF ListedIn

\* A page without entries has nothing below it; other pages are listed above.
LEMMA ListedAbove ==
  ASSUME NEW paths, paths \subseteq AllPaths, NEW d \in Directory, NEW e \in Directory,
         IsPrefix(d, e), Len(e) = Len(d) + 1, ListedIn(paths, e) # {}
  PROVE  DirectoryEntry(e) \in ListedIn(paths, d)
<1>1. PICK p \in paths : Below(e, p)
  BY DEF ListedIn
<1>2. d \in Seq(Name) /\ e \in Seq(Name) /\ p \in Seq(Name)
  BY DirectoryIs, PathTypes
<1>3. Below(d, p) /\ Entry(d, p) = DirectoryEntry(e)
  BY <1>1, <1>2, ThroughChild
<1> QED BY <1>3, ListedElement

\* The child on the way to a path further down is a directory.
LEMMA ChildDirectory ==
  ASSUME NEW p \in AllPaths, NEW d \in Directory, Below(d, p), Child(d, p) # p
  PROVE  /\ Child(d, p) \in Directory /\ Below(Child(d, p), p)
         /\ IsPrefix(d, Child(d, p)) /\ Len(Child(d, p)) = Len(d) + 1
         /\ Entry(d, p) = DirectoryEntry(Child(d, p))
<1>1. d \in Seq(Name) /\ p \in Seq(Name)
  BY DirectoryIs, PathTypes
<1>2. /\ Child(d, p) \in Seq(Name) /\ Len(Child(d, p)) = Len(d) + 1
      /\ IsPrefix(d, Child(d, p)) /\ Below(Child(d, p), p)
  BY <1>1, ChildIs
<1> QED BY <1>2, DirectoryIs DEF Entry, DirectoryEntry

\* Where nothing is removed, and nothing added but below children that have a page,
\* the listing stays.
LEMMA UntouchedPage ==
  ASSUME NEW F, NEW G, NEW R, NEW A, NEW pages, Editing(F, G, R, A, pages),
         NEW d \in Directory, d \notin Affected(R, A, pages)
  PROVE  ListedIn(F, d) = ListedIn(G, d)
<1>1. /\ \A p \in R : ~Below(d, p)
      /\ \A p \in A : Below(d, p) => Child(d, p) # p /\ pages[Child(d, p)] # {}
  BY DEF Affected, ListingChanges
<1>2. ASSUME NEW x \in ListedIn(F, d) PROVE x \in ListedIn(G, d)
  <2>1. PICK p \in F : Below(d, p) /\ x = Entry(d, p)
    BY <1>2, ListedElement
  <2>2. p \in G
    BY <1>1, <2>1 DEF Editing
  <2> QED BY <2>1, <2>2, ListedElement
<1>3. ASSUME NEW x \in ListedIn(G, d) PROVE x \in ListedIn(F, d)
  <2>1. PICK p \in G : Below(d, p) /\ x = Entry(d, p)
    BY <1>3, ListedElement
  <2>2. CASE p \in F
    BY <2>1, <2>2, ListedElement
  <2>3. CASE p \in A
    <3> DEFINE c == Child(d, p)
    <3>1. c # p /\ pages[c] # {}
      BY <1>1, <2>1, <2>3
    <3>2. /\ p \in AllPaths /\ c \in Directory
          /\ IsPrefix(d, c) /\ Len(c) = Len(d) + 1 /\ x = DirectoryEntry(c)
      BY <2>1, <3>1, ChildDirectory DEF Editing
    <3>3. ListedIn(F, c) # {} /\ F \subseteq AllPaths
      BY <3>1, <3>2 DEF Editing
    <3> HIDE DEF c
    <3> QED BY <3>2, <3>3, ListedAbove
  <2> QED BY <2>1, <2>2, <2>3 DEF Editing
<1> QED BY <1>2, <1>3

\* A page to edit can be read, or there was none.
LEMMA EditedIsRead ==
  ASSUME NEW R, NEW A, NEW pages, NEW unreadable,
         NEW d \in Edited(R, A, pages, unreadable), d \in unreadable
  PROVE  pages[d] = {}
<1>1. d \in Seq(Name)
  BY DirectoryIs DEF Edited, Affected
<1>2. IsPrefix(d, d)
  BY <1>1, PrefixMeans
<1> QED BY <1>2 DEF Edited, Skipped

\* A child directory that loses something is edited with its parent.
LEMMA ChildIsEdited ==
  ASSUME NEW R, R \subseteq AllPaths, NEW A, NEW pages, NEW unreadable,
         NEW d \in Edited(R, A, pages, unreadable), NEW p \in R, Below(d, p), Child(d, p) # p
  PROVE  Child(d, p) \in Edited(R, A, pages, unreadable)
<1> DEFINE c == Child(d, p)
<1> DEFINE all == Affected(R, A, pages)
<1>1. d \in all /\ d \in Directory /\ d \notin Skipped(pages, all, unreadable)
  BY DEF Edited, Affected
<1>2. c \in Directory /\ Below(c, p) /\ IsPrefix(d, c)
  BY <1>1, ChildDirectory
<1>3. c \in all
  BY <1>2 DEF Affected, ListingChanges
<1>4. c \notin Skipped(pages, all, unreadable)
  <2> SUFFICES ASSUME NEW e \in all \cap unreadable, pages[e] # {}, IsPrefix(c, e) PROVE FALSE
    BY DEF Skipped
  <2>1. e \in Directory
    BY DEF Affected
  <2>2. IsPrefix(d, e)
    BY <1>1, <1>2, <2>1, DirectoryIs, PrefixTransitive
  <2> QED BY <1>1, <2>2 DEF Skipped
<1> QED BY <1>3, <1>4 DEF Edited

\* The pages to edit, before empty ones are taken out.
IsEdited(edited, R, A, pages, unreadable) ==
    edited = [d \in Edited(R, A, pages, unreadable) |->
                 EditedPage(IF d \in unreadable THEN {} ELSE pages[d], R, A, d)]

Exact(pages, paths) == \A d \in Directory : pages[d] = ListedIn(paths, d)

\* If the children's pages list no more than there is, so does the page.
LEMMA PageListsContent ==
  ASSUME NEW F, NEW G, NEW R, NEW A, NEW pages, NEW unreadable, NEW edited, NEW page,
         Editing(F, G, R, A, pages), IsEdited(edited, R, A, pages, unreadable),
         NEW d \in Edited(R, A, pages, unreadable),
         \A e \in Kids(d, DOMAIN edited) : page[e] \subseteq ListedIn(G, e)
  PROVE  SettledPage(edited, page, d) \subseteq ListedIn(G, d)
<1> DEFINE D == Edited(R, A, pages, unreadable)
<1>1. D \subseteq Directory /\ DOMAIN edited = D
  BY DEF Edited, Affected, IsEdited
<1>2. edited[d] = EditedPage(IF d \in unreadable THEN {} ELSE pages[d], R, A, d)
  BY DEF IsEdited
<1>3. \A e \in Kids(d, D) : e \in D /\ e \in Directory /\ Len(e) = Len(d) + 1 /\ IsPrefix(d, e)
  BY <1>1 DEF Kids
<1> SUFFICES ASSUME NEW x \in SettledPage(edited, page, d) PROVE x \in ListedIn(G, d)
  OBVIOUS
<1>4. CASE \E e \in Kids(d, D) : x = DirectoryEntry(e) /\ page[e] # {}
  <2>1. PICK e \in Kids(d, D) : x = DirectoryEntry(e) /\ page[e] # {}
    BY <1>4
  <2>2. ListedIn(G, e) # {}
    BY <1>1, <2>1
  <2> QED BY <1>1, <1>3, <2>1, <2>2, ListedAbove DEF Editing
<1>5. CASE x \in edited[d] /\ \A e \in Kids(d, D) : x # DirectoryEntry(e)
  <2>1. CASE \E p \in A : Below(d, p) /\ x = Entry(d, p)
    BY <2>1, ListedElement DEF Editing
  <2>2. CASE ~\E p \in A : Below(d, p) /\ x = Entry(d, p)
    <3>1. /\ x \in pages[d]
          /\ \A p \in R : Below(d, p) /\ Child(d, p) = p => x # Entry(d, p)
      BY <1>2, <1>5, <2>2 DEF EditedPage
    <3>2. PICK p \in F : Below(d, p) /\ x = Entry(d, p)
      BY <1>1, <3>1, ListedElement DEF Editing
    <3>3. ASSUME p \notin G PROVE FALSE
      <4>1. p \in R /\ R \subseteq AllPaths
        BY <3>3 DEF Editing
      <4>2. Child(d, p) # p
        BY <3>1, <3>2, <4>1
      <4>3. Child(d, p) \in D
        BY <3>2, <4>1, <4>2, ChildIsEdited
      <4>4. /\ IsPrefix(d, Child(d, p)) /\ Len(Child(d, p)) = Len(d) + 1
            /\ x = DirectoryEntry(Child(d, p))
        BY <1>1, <3>2, <4>1, <4>2, ChildDirectory
      <4>5. Child(d, p) \in Kids(d, D)
        BY <4>3, <4>4 DEF Kids
      <4> QED BY <1>5, <4>4, <4>5
    <3> QED BY <3>2, <3>3, ListedElement
  <2> QED BY <2>1, <2>2
<1> QED BY <1>1, <1>4, <1>5 DEF SettledPage

\* And all there is, if the pages did before.
LEMMA PageListsAll ==
  ASSUME NEW F, NEW G, NEW R, NEW A, NEW pages, NEW unreadable, NEW edited, NEW page,
         Editing(F, G, R, A, pages), IsEdited(edited, R, A, pages, unreadable),
         Exact(pages, F),
         NEW d \in Edited(R, A, pages, unreadable),
         \A e \in Kids(d, DOMAIN edited) : page[e] = ListedIn(G, e)
  PROVE  ListedIn(G, d) \subseteq SettledPage(edited, page, d)
<1> DEFINE D == Edited(R, A, pages, unreadable)
<1>1. D \subseteq Directory /\ DOMAIN edited = D
  BY DEF Edited, Affected, IsEdited
<1>2. edited[d] = EditedPage(pages[d], R, A, d)
  BY EditedIsRead DEF IsEdited
<1> SUFFICES ASSUME NEW x \in ListedIn(G, d) PROVE x \in SettledPage(edited, page, d)
  OBVIOUS
<1>3. PICK p \in G : Below(d, p) /\ x = Entry(d, p)
  BY ListedElement
<1>4. CASE \E e \in Kids(d, D) : x = DirectoryEntry(e)
  <2>1. PICK e \in Kids(d, D) : x = DirectoryEntry(e)
    BY <1>4
  <2>2. e = Child(d, p) /\ Child(d, p) # p
    <3>1. Entry(d, p) = DirectoryEntry(e)
      BY <1>3, <2>1
    <3>2. Entry(d, p)[1] = e /\ Entry(d, p)[2] = FALSE
      BY <3>1 DEF DirectoryEntry
    <3>3. Entry(d, p)[1] = Child(d, p) /\ Entry(d, p)[2] = (Child(d, p) = p)
      BY Zenon DEF Entry
    <3> QED BY <3>2, <3>3, Zenon
  <2>3. Below(e, p)
    BY <1>1, <1>3, <2>2, ChildDirectory DEF Editing
  <2>4. page[e] # {}
    <3>1. Entry(e, p) \in ListedIn(G, e)
      BY <2>3, ListedElement
    <3>2. page[e] = ListedIn(G, e)
      BY <1>1, <2>1
    <3> QED BY <3>1, <3>2
  <2> QED BY <1>1, <2>1, <2>4 DEF SettledPage
<1>5. CASE \A e \in Kids(d, D) : x # DirectoryEntry(e)
  <2>1. x \in edited[d]
    <3>1. CASE p \in A
      BY <1>2, <1>3, <3>1 DEF EditedPage
    <3>2. CASE p \notin A
      <4>1. p \in F /\ p \notin R
        BY <3>2 DEF Editing
      <4>2. x \in pages[d]
        BY <1>1, <1>3, <4>1, ListedElement DEF Exact
      <4>3. \A q \in R : Child(d, q) = q => x # Entry(d, q)
        BY <1>3, <4>1 DEF Entry
      <4> QED BY <1>2, <4>2, <4>3 DEF EditedPage
    <3> QED BY <3>1, <3>2
  <2> QED BY <1>1, <1>5, <2>1 DEF SettledPage
<1> QED BY <1>4, <1>5

LEMMA SettledListing ==
  ASSUME NEW F, NEW G, NEW R, NEW A, NEW pages, NEW unreadable, NEW edited,
         Editing(F, G, R, A, pages), IsEdited(edited, R, A, pages, unreadable),
         NEW d \in Edited(R, A, pages, unreadable)
  PROVE  /\ Settled(edited)[d] \subseteq ListedIn(G, d)
         /\ Exact(pages, F) => Settled(edited)[d] = ListedIn(G, d)
<1> DEFINE D == Edited(R, A, pages, unreadable)
<1> DEFINE page == Settled(edited)
<1> DEFINE Good(e) == /\ page[e] \subseteq ListedIn(G, e)
                      /\ Exact(pages, F) => page[e] = ListedIn(G, e)
<1>1. D \subseteq Directory /\ DOMAIN edited = D
  BY DEF Edited, Affected, IsEdited
<1>2. \A e \in D : page[e] = SettledPage(edited, page, e)
  BY <1>1, SettledIs
<1>3. PICK depth \in Nat : \A e \in Directory : Len(e) <= depth
  BY DepthIsBounded
<1>4. \A e \in D : Len(e) \in Nat /\ Len(e) <= depth
  BY <1>1, <1>3, DirectoryIs, LenProperties
<1> HIDE DEF page
<1>5. ASSUME NEW e \in D, \A k \in Kids(e, D) : Good(k) PROVE Good(e)
  <2>1. page[e] \subseteq ListedIn(G, e)
    BY <1>1, <1>2, <1>5, PageListsContent
  <2>2. ASSUME Exact(pages, F) PROVE ListedIn(G, e) \subseteq page[e]
    BY <1>1, <1>2, <1>5, <2>2, PageListsAll
  <2> QED BY <2>1, <2>2
<1> HIDE DEF Good
<1> DEFINE P == {n \in Nat : \A e \in D : Len(e) + n > depth => Good(e)}
<1>6. 0 \in P
  BY <1>4
<1>7. ASSUME NEW n \in Nat, n \in P PROVE n + 1 \in P
  <2> SUFFICES ASSUME NEW e \in D, Len(e) + (n + 1) > depth PROVE Good(e)
    OBVIOUS
  <2>1. \A k \in Kids(e, D) : k \in D /\ Len(k) + n > depth
    BY <1>4 DEF Kids
  <2> QED BY <1>5, <1>7, <2>1
<1>8. depth + 1 \in P
  <2>1. depth + 1 \in Nat
    OBVIOUS
  <2> HIDE DEF P
  <2> QED BY <1>6, <1>7, <2>1, StepInduction
<1>9. Good(d)
  BY <1>4, <1>8
<1> QED BY <1>9 DEF Good, page

-----------------------------------------------------------------------------
(* _generate_index_pages.                                                   *)

\* PagesAreExact and PagesListOnlyContent of a version.
PagesOK(v) ==
    /\ \A d \in Directory : v.pages[d] \subseteq Listing(v, d)
    /\ "pull" \notin env.events => \A d \in Directory : v.pages[d] = Listing(v, d)

LEMMA FilesArePaths == ASSUME NEW v, IsVersion(v) PROVE Files(v) \subseteq AllPaths
  BY DEF IsVersion, Files, PrefixesFile, AllPaths

LEMMA ListingIs == \A v, d : Listing(v, d) = ListedIn(Files(v), d)
  BY DEF Listing, ListedIn

\* What is replaced was there, and is there.
LEMMA RewrittenAreBoth ==
  ASSUME NEW v, NEW w
  PROVE  Rewritten(v, w) \subseteq Files(v) \cap Files(w)
  BY DEF Rewritten, Replaced, PrefixesReplaced, Files

LEMMA ChangesAreEditing ==
  ASSUME NEW v, IsVersion(v), NEW w, IsVersion(w),
         \A d \in Directory : w.pages[d] \subseteq Listing(v, d)
  PROVE  Editing(Files(v), Files(w), RemovedPaths(v, w), AddedPaths(v, w), w.pages)
<1>1. Files(v) \subseteq AllPaths /\ Files(w) \subseteq AllPaths
  BY FilesArePaths
<1>2. \A d \in Directory : w.pages[d] \subseteq ListedIn(Files(v), d)
  BY ListingIs
<1> QED BY <1>1, <1>2, RewrittenAreBoth DEF Editing, RemovedPaths, AddedPaths

\* The pages of x are those of w, edited, settled or listed again.
PagesFrom(v, w, unreadable, edited, x) ==
    LET R == RemovedPaths(v, w)
        A == AddedPaths(v, w)
    IN  /\ IsEdited(edited, R, A, w.pages, unreadable)
        /\ \A d \in Directory :
              x.pages[d] = IF d \in Skipped(w.pages, Affected(R, A, w.pages), unreadable)
                           THEN Listing(w, d)
                           ELSE IF d \in Edited(R, A, w.pages, unreadable)
                                THEN Settled(edited)[d] ELSE w.pages[d]

LEMMA PagesAfter ==
  ASSUME NEW v, NEW w, IsVersion(w), NEW unreadable,
         NEW x, x = GenerateIndexPages(v, w, unreadable)
  PROVE  Repaged(w, x) /\ \E edited : PagesFrom(v, w, unreadable, edited, x)
<1> DEFINE R == RemovedPaths(v, w)
<1> DEFINE A == AddedPaths(v, w)
<1> DEFINE skipped == Skipped(w.pages, Affected(R, A, w.pages), unreadable)
<1> DEFINE D == Edited(R, A, w.pages, unreadable)
<1> DEFINE edited == [d \in D |-> EditedPage(IF d \in unreadable THEN {} ELSE w.pages[d], R, A, d)]
<1> DEFINE pages == [d \in Directory |-> IF d \in D THEN Settled(edited)[d] ELSE w.pages[d]]
<1> DEFINE y == [w EXCEPT !.pages = pages]
<1>1. x = [w EXCEPT !.pages = BulkPages(y, skipped)]
  BY DEF GenerateIndexPages, Edited, Affected
<1>2. IsEdited(edited, R, A, w.pages, unreadable)
  BY DEF IsEdited
<1> HIDE DEF edited
<1>3. Repaged(w, y) /\ y.pages = pages
  <2> HIDE DEF pages
  <2> QED BY ChangePages
<1>4. Repaged(w, x) /\ x.pages = BulkPages(y, skipped)
  <2> HIDE DEF y, skipped
  <2> QED BY <1>1, ChangePages
<1>5. \A d : Listing(y, d) = Listing(w, d)
  <2> HIDE DEF y
  <2> QED BY <1>3 DEF Repaged, Listing, Files, PrefixesFile
<1>6. \A d \in Directory :
         x.pages[d] = IF d \in skipped THEN Listing(w, d)
                      ELSE IF d \in D THEN Settled(edited)[d] ELSE w.pages[d]
  <2> HIDE DEF y, skipped, D
  <2> QED BY <1>3, <1>4, <1>5 DEF BulkPages
<1>7. PagesFrom(v, w, unreadable, edited, x)
  BY <1>2, <1>6 DEF PagesFrom
<1> QED BY <1>4, <1>7, Zenon

LEMMA PagesGenerated ==
  ASSUME IsVersion(latest), PagesOK(latest), NEW w, IsVersion(w),
         \/ w.pages = latest.pages
         \/ Files(w) = {} /\ \A d \in Directory : w.pages[d] = {},
         NEW unreadable, NEW x, x = GenerateIndexPages(latest, w, unreadable)
  PROVE  Repaged(w, x) /\ PagesOK(x)
<1> DEFINE R == RemovedPaths(latest, w)
<1> DEFINE A == AddedPaths(latest, w)
<1> DEFINE skipped == Skipped(w.pages, Affected(R, A, w.pages), unreadable)
<1> DEFINE D == Edited(R, A, w.pages, unreadable)
<1>1. Repaged(w, x) /\ \E edited : PagesFrom(latest, w, unreadable, edited, x)
  BY PagesAfter, Zenon
<1>2. PICK edited :
            /\ IsEdited(edited, R, A, w.pages, unreadable)
            /\ \A d \in Directory :
                  x.pages[d] = IF d \in skipped THEN Listing(w, d)
                               ELSE IF d \in D THEN Settled(edited)[d] ELSE w.pages[d]
  BY <1>1 DEF PagesFrom
<1>3. Editing(Files(latest), Files(w), R, A, w.pages)
  <2>1. \A d \in Directory : w.pages[d] \subseteq Listing(latest, d)
    BY DEF PagesOK
  <2> QED BY <2>1, ChangesAreEditing
<1>4. "pull" \notin env.events /\ Files(w) # {} => Exact(w.pages, Files(latest))
  BY ListingIs DEF PagesOK, Exact
<1>5. Files(w) = {} => \A d : ListedIn(Files(w), d) = {}
  BY DEF ListedIn
<1> HIDE DEF R, A
<1>6. ASSUME NEW d \in Directory
      PROVE  /\ x.pages[d] \subseteq ListedIn(Files(w), d)
             /\ "pull" \notin env.events => x.pages[d] = ListedIn(Files(w), d)
  <2>1. CASE d \in skipped
    BY <1>2, <2>1, ListingIs
  <2>2. CASE d \in D
    <3>1. x.pages[d] = Settled(edited)[d]
      BY <1>2, <2>2 DEF Edited
    <3>2. /\ Settled(edited)[d] \subseteq ListedIn(Files(w), d)
          /\ Exact(w.pages, Files(latest)) => Settled(edited)[d] = ListedIn(Files(w), d)
      BY <1>2, <1>3, <2>2, SettledListing
    <3> QED BY <1>4, <1>5, <3>1, <3>2
  <2>3. CASE d \notin skipped /\ d \notin D
    <3>1. x.pages[d] = w.pages[d] /\ d \notin Affected(R, A, w.pages)
      BY <1>2, <2>3 DEF Edited
    <3>2. ListedIn(Files(latest), d) = ListedIn(Files(w), d)
      BY <1>3, <3>1, UntouchedPage
    <3>3. w.pages[d] \subseteq ListedIn(Files(latest), d)
      BY <1>3 DEF Editing
    <3> QED BY <1>4, <1>5, <3>1, <3>2, <3>3 DEF Exact
  <2> QED BY <2>1, <2>2, <2>3
<1>7. \A d : Listing(x, d) = ListedIn(Files(w), d)
  <2>1. Files(x) = Files(w)
    BY <1>1 DEF Repaged, Files, PrefixesFile
  <2> QED BY <2>1, ListingIs
<1> QED BY <1>1, <1>6, <1>7 DEF PagesOK

-----------------------------------------------------------------------------
(* The invariant, and its steps.                                            *)

\* Generated content that does not depend on pages.
ContentInv ==
    /\ env \in Environments
    /\ IsVersion(latest)
    /\ PackagesOK(latest, rows) /\ MetadataOK(latest) /\ PrefixesOK(latest)

PagesInv == ContentInv /\ SoundUse(env) /\ PagesOK(latest)

\* finalize_new_version.
LEMMA FinalizedVersion ==
  ASSUME ContentInv, NEW draft, Drafted(draft), NEW unreadable,
         NEW x, x = Finalized(draft, unreadable)
  PROVE  /\ IsVersion(x) /\ x.artifacts = draft.artifacts
         /\ PackagesOK(x, rows \cup CreatedPackages(latest, x)) /\ PackagesStay(x)
         /\ MetadataOK(x) /\ PrefixesOK(x)
         /\ PagesOK(latest) => PagesOK(x)
<1> DEFINE packaged == EnsurePackages(latest, draft)
<1> DEFINE described == GenerateMetadata(latest, packaged)
<1>1. x = GenerateIndexPages(latest, described, unreadable)
  BY DEF Finalized
<1>2. /\ Repacked(draft, packaged)
      /\ PackagesOK(packaged, rows \cup CreatedPackages(latest, draft))
      /\ PackagesStay(packaged)
  BY PackagesEnsured DEF ContentInv
<1> HIDE DEF packaged
<1>3. /\ Redescribed(packaged, described) /\ MetadataOK(described) /\ PrefixesOK(described)
      /\ \A s \in Subject : described.metadata[s] \in {packaged.metadata[s], Generated(packaged, s)}
  BY <1>2, MetadataGenerated DEF ContentInv
<1> HIDE DEF described
<1>4. Repaged(described, x)
  BY <1>1, <1>3, PagesAfter, Zenon DEF Redescribed
<1>5. /\ IsVersion(x) /\ x.artifacts = draft.artifacts /\ x.packages = packaged.packages
      /\ x.metadata = described.metadata /\ x.prefixes = described.prefixes
      /\ packaged.artifacts = draft.artifacts /\ described.artifacts = draft.artifacts
      /\ described.pages = draft.pages /\ packaged.metadata = draft.metadata
      /\ IsVersion(described)
  BY <1>2, <1>3, <1>4 DEF Repacked, Redescribed, Repaged
<1>6. PackagesOK(x, rows \cup CreatedPackages(latest, x)) /\ PackagesStay(x)
  <2>1. CreatedPackages(latest, x) = CreatedPackages(latest, draft)
    BY <1>5 DEF CreatedPackages, AffectedGavs, Changed, PomGavs
  <2> QED BY <1>2, <1>5, <2>1 DEF PackagesOK, PackagesStay, LiveGavs, PomGavs
<1>7. MetadataOK(x)
  <2>1. \A s : Generated(x, s) = Generated(described, s)
    BY <1>5 DEF Generated
  <2> QED BY <1>3, <1>5, <2>1 DEF MetadataOK
<1>8. PrefixesOK(x)
  BY <1>3, <1>5 DEF PrefixesOK, CurrentPrefixes
<1>9. ASSUME PagesOK(latest) PROVE PagesOK(x)
  <2>1. CASE draft # Empty
    <3>1. described.pages = latest.pages
      BY <1>5, <2>1 DEF Drafted
    <3> QED BY <1>1, <1>5, <1>9, <3>1, PagesGenerated DEF ContentInv
  <2>2. CASE draft = Empty
    <3>1. \A d \in Directory : described.pages[d] = {}
      BY <1>5, <2>2 DEF Empty
    <3>2. \A s \in Subject : described.metadata[s] = NoFile
      <4>1. \A s \in Subject : packaged.metadata[s] = NoFile
        BY <1>5, <2>2 DEF Empty
      <4>2. packaged.artifacts = {}
        BY <1>5, <2>2 DEF Empty
      <4>3. \A s \in Subject : Generated(packaged, s) = NoFile
        BY <4>2, GeneratedNames DEF Described
      <4> QED BY <1>3, <4>1, <4>3
    <3>3. described.artifacts = {} /\ described.prefixes = NoFile
      BY <1>3, <1>5, <2>2 DEF Empty, PrefixesOK
    <3>4. Files(described) = {}
      BY <3>2, <3>3 DEF Files, PrefixesFile
    <3> QED BY <1>1, <1>5, <1>9, <3>1, <3>4, PagesGenerated DEF ContentInv
  <2> QED BY <2>1, <2>2
<1> QED BY <1>5, <1>6, <1>7, <1>8, <1>9

\* A step that makes this version and these rows.
LEMMA Moved ==
  ASSUME ContentInv, UNCHANGED env, NEW x, latest' = x, NEW r, rows' = r,
         IsVersion(x), PackagesOK(x, r), MetadataOK(x), PrefixesOK(x)
  PROVE  ContentInv' /\ (PagesOK(x) => PagesOK(latest)')
<1>1. IsVersion(latest)' /\ env' \in Environments
  BY DEF IsVersion, ContentInv
<1>2. PackagesOK(latest, rows)'
  BY DEF PackagesOK
<1>3. MetadataOK(latest)'
  BY DEF MetadataOK
<1>4. PrefixesOK(latest)'
  BY DEF PrefixesOK
<1>5. ASSUME PagesOK(x) PROVE PagesOK(latest)'
  BY <1>5 DEF PagesOK
<1> QED BY <1>1, <1>2, <1>3, <1>4, <1>5 DEF ContentInv

LEMMA FinalizationInit == Init => ContentInv /\ PagesOK(latest)
<1> SUFFICES ASSUME Init PROVE ContentInv /\ PagesOK(latest)
  OBVIOUS
<1>1. /\ env \in Environments /\ latest = Empty /\ rows = {}
      /\ Empty.artifacts = {} /\ Empty.packages = {} /\ Empty.prefixes = NoFile
      /\ \A s \in Subject : Empty.metadata[s] = NoFile
      /\ \A d \in Directory : Empty.pages[d] = {}
  BY DEF Init, Empty
<1>2. IsVersion(latest)
  BY <1>1, EmptyVersion
<1>3. PackagesOK(latest, rows)
  BY <1>1 DEF PackagesOK, PomGavs
<1>4. MetadataOK(latest)
  <2>1. \A s \in Subject : Generated(latest, s) = NoFile
    BY <1>1, GeneratedNames DEF Described
  <2> QED BY <1>1, <2>1, NoFileAssumption DEF MetadataOK
<1>5. PrefixesOK(latest)
  BY <1>1 DEF PrefixesOK, CurrentPrefixes
<1>6. PagesOK(latest)
  <2>1. Files(latest) = {}
    BY <1>1 DEF Files, PrefixesFile
  <2> QED BY <1>1, <2>1 DEF PagesOK, Listing
<1> QED BY <1>1, <1>2, <1>3, <1>4, <1>5, <1>6 DEF ContentInv

LEMMA ModifySteps ==
  ASSUME ContentInv, NEW add \in SUBSET Unit, NEW remove, NEW unreadable,
         Modify(add, remove, unreadable)
  PROVE  ContentInv' /\ (PagesOK(latest) => PagesOK(latest)') /\ PackagesStay(latest')
<1> DEFINE draft == [latest EXCEPT !.artifacts = (@ \ remove) \cup add]
<1>1. Drafted(draft)
  <2>1. (latest.artifacts \ remove) \cup add \subseteq Unit
    BY DEF ContentInv, IsVersion
  <2>2. /\ IsVersion(draft) /\ draft.packages = latest.packages
        /\ draft.metadata = latest.metadata /\ draft.prefixes = latest.prefixes
        /\ draft.pages = latest.pages
    BY <2>1 DEF ContentInv, IsVersion
  <2> QED BY <2>2 DEF Drafted
<1> DEFINE x == Finalized(draft, unreadable)
<1>2. latest' = x /\ rows' = rows \cup CreatedPackages(latest, x) /\ UNCHANGED env
  BY DEF Modify
<1> HIDE DEF draft
<1>3. /\ IsVersion(x) /\ PackagesOK(x, rows \cup CreatedPackages(latest, x)) /\ PackagesStay(x)
      /\ MetadataOK(x) /\ PrefixesOK(x) /\ (PagesOK(latest) => PagesOK(x))
  BY <1>1, FinalizedVersion
<1> HIDE DEF x
<1>6. PackagesStay(latest')
  BY <1>2, <1>3 DEF PackagesStay, LiveGavs
<1> QED BY <1>2, <1>3, <1>6, Moved

LEMMA UploadSteps ==
  ASSUME ContentInv, NEW s \in Subject, NEW unreadable, UploadMetadata(s, unreadable)
  PROVE  ContentInv' /\ (PagesOK(latest) => PagesOK(latest)') /\ PackagesStay(latest')
<1> DEFINE draft == [latest EXCEPT !.metadata[s] = Uploaded]
<1>1. Drafted(draft) /\ draft.artifacts = latest.artifacts
  <2>1. /\ IsVersion(draft) /\ draft.packages = latest.packages
        /\ draft.artifacts = latest.artifacts /\ draft.prefixes = latest.prefixes
        /\ draft.pages = latest.pages
    BY DEF ContentInv, IsVersion
  <2>2. \A t \in Subject : draft.metadata[t] = IF t = s THEN Uploaded ELSE latest.metadata[t]
    BY DEF ContentInv, IsVersion
  <2> QED BY <2>1, <2>2 DEF Drafted, UploadMetadata
<1> DEFINE x == Finalized(draft, unreadable)
<1>2. latest' = x /\ rows' = rows /\ UNCHANGED env
  BY DEF UploadMetadata
<1> HIDE DEF draft
<1>3. /\ IsVersion(x) /\ x.artifacts = draft.artifacts
      /\ PackagesOK(x, rows \cup CreatedPackages(latest, x)) /\ PackagesStay(x)
      /\ MetadataOK(x) /\ PrefixesOK(x) /\ (PagesOK(latest) => PagesOK(x))
  BY <1>1, FinalizedVersion
<1> HIDE DEF x
<1>4. CreatedPackages(latest, x) = {}
  BY <1>1, <1>3 DEF CreatedPackages, AffectedGavs, Changed
<1>5. PackagesOK(x, rows)
  BY <1>3, <1>4
<1>6. PackagesStay(latest')
  BY <1>2, <1>3 DEF PackagesStay, LiveGavs
<1> QED BY <1>2, <1>3, <1>5, <1>6, Moved

LEMMA RemoveAllSteps ==
  ASSUME ContentInv, RemoveAll
  PROVE  ContentInv' /\ (PagesOK(latest) => PagesOK(latest)') /\ PackagesStay(latest')
<1> DEFINE x == Finalized(Empty, {})
<1>1. Drafted(Empty)
  BY EmptyVersion DEF Drafted
<1>2. latest' = x /\ rows' = rows /\ UNCHANGED env
  BY DEF RemoveAll
<1>3. /\ IsVersion(x) /\ x.artifacts = Empty.artifacts
      /\ PackagesOK(x, rows \cup CreatedPackages(latest, x)) /\ PackagesStay(x)
      /\ MetadataOK(x) /\ PrefixesOK(x) /\ (PagesOK(latest) => PagesOK(x))
  BY <1>1, FinalizedVersion
<1> HIDE DEF x
<1>4. CreatedPackages(latest, x) = {}
  BY <1>3 DEF CreatedPackages, PomGavs, Empty
<1>5. PackagesOK(x, rows)
  BY <1>3, <1>4
<1>6. PackagesStay(latest')
  BY <1>2, <1>3 DEF PackagesStay, LiveGavs
<1> QED BY <1>2, <1>3, <1>5, <1>6, Moved

\* More files below a directory only leave its page behind.
LEMMA PagesBehind ==
  ASSUME PagesOK(latest), NEW x, x.pages = latest.pages, Files(latest) \subseteq Files(x),
         "pull" \notin env.events => Files(latest) = Files(x)
  PROVE  PagesOK(x)
<1>1. \A d : ListedIn(Files(latest), d) \subseteq ListedIn(Files(x), d)
  BY DEF ListedIn
<1> QED BY <1>1, ListingIs DEF PagesOK

LEMMA PullSteps ==
  ASSUME ContentInv, NEW u \in Unit, PullThrough(u)
  PROVE  ContentInv' /\ (PagesOK(latest) => PagesOK(latest)')
<1> DEFINE x == [latest EXCEPT !.artifacts = @ \cup {u}]
<1>1. latest' = x /\ rows' = rows /\ UNCHANGED env /\ "pull" \in env.events
  BY DEF PullThrough
<1>2. /\ IsVersion(x) /\ x.pages = latest.pages
      /\ PackagesOK(x, rows) /\ MetadataOK(x) /\ PrefixesOK(x)
      /\ Files(latest) \subseteq Files(x)
  BY <1>1, Pulled DEF ContentInv
<1> HIDE DEF x
<1>3. PagesOK(latest) => PagesOK(x)
  BY <1>1, <1>2, PagesBehind
<1> QED BY <1>1, <1>2, <1>3, Moved

LEMMA RepairMetadataSteps ==
  ASSUME ContentInv, RepairMetadata
  PROVE  ContentInv' /\ (SoundUse(env) /\ PagesOK(latest) => PagesOK(latest)')
<1> DEFINE x == RegenerateMetadata(latest)
<1>1. latest' = x /\ rows' = rows /\ UNCHANGED env /\ "metadata" \in env.events
  BY DEF RepairMetadata
<1>2. Redescribed(latest, x) /\ MetadataOK(x) /\ PrefixesOK(x)
  BY MetadataRegenerated DEF ContentInv
<1>3. ASSUME SoundUse(env), PagesOK(latest) PROVE PagesOK(x)
  <2>1. "upload" \notin env.events
    BY <1>1, <1>3 DEF SoundUse
  <2>2. /\ Files(latest) \subseteq Files(x)
        /\ "pull" \notin env.events => Files(latest) = Files(x)
    BY <2>1, RegeneratedFiles DEF ContentInv
  <2> HIDE DEF x
  <2> QED BY <1>2, <1>3, <2>2, PagesBehind DEF Redescribed
<1> HIDE DEF x
<1>4. PackagesOK(x, rows)
  BY <1>2 DEF Redescribed, PackagesOK, LiveGavs, PomGavs, ContentInv
<1>5. IsVersion(x)
  BY <1>2 DEF Redescribed
<1> QED BY <1>1, <1>2, <1>3, <1>4, <1>5, Moved

LEMMA RepairPagesSteps ==
  ASSUME ContentInv, RepairIndexPages
  PROVE  ContentInv' /\ PagesOK(latest)'
<1> DEFINE pages == BulkPages(latest, Directory)
<1> DEFINE x == [latest EXCEPT !.pages = pages]
<1>1. latest' = x /\ rows' = rows /\ UNCHANGED env
  BY DEF RepairIndexPages
<1>2. Repaged(latest, x) /\ x.pages = pages
  <2> HIDE DEF pages
  <2> QED BY ChangePages DEF ContentInv
<1> HIDE DEF x
<1>3. \A d \in Directory : x.pages[d] = Listing(latest, d)
  BY <1>2 DEF BulkPages
<1>4. \A d : Listing(x, d) = Listing(latest, d)
  BY <1>2 DEF Repaged, Listing, Files, PrefixesFile
<1>5. PagesOK(x)
  BY <1>3, <1>4 DEF PagesOK
<1>6. PackagesOK(x, rows) /\ IsVersion(x)
  BY <1>2 DEF Repaged, PackagesOK, LiveGavs, PomGavs, ContentInv
<1>7. MetadataOK(x)
  <2>1. \A s : Generated(x, s) = Generated(latest, s)
    BY <1>2 DEF Repaged, Generated
  <2> QED BY <1>2, <2>1 DEF Repaged, MetadataOK, ContentInv
<1>8. PrefixesOK(x)
  BY <1>2 DEF Repaged, PrefixesOK, CurrentPrefixes, ContentInv
<1> QED BY <1>1, <1>5, <1>6, <1>7, <1>8, Moved

LEMMA RepairPackagesSteps ==
  ASSUME ContentInv, RepairPackages
  PROVE  ContentInv' /\ (PagesOK(latest) => PagesOK(latest)')
<1> DEFINE x == EnsurePackagesFullScan(latest)
<1>1. latest' = x /\ rows' = rows \cup PomGavs(latest) /\ UNCHANGED env
  BY DEF RepairPackages
<1>2. Repacked(latest, x) /\ x.packages = PomGavs(latest)
  BY ChangePackages DEF EnsurePackagesFullScan, ContentInv
<1> HIDE DEF x
<1>3. PackagesOK(x, rows \cup PomGavs(latest)) /\ IsVersion(x)
  BY <1>2 DEF Repacked, PackagesOK, LiveGavs, PomGavs
<1>4. MetadataOK(x)
  <2>1. \A s : Generated(x, s) = Generated(latest, s)
    BY <1>2 DEF Repacked, Generated
  <2> QED BY <1>2, <2>1 DEF Repacked, MetadataOK, ContentInv
<1>5. PrefixesOK(x)
  BY <1>2 DEF Repacked, PrefixesOK, CurrentPrefixes, ContentInv
<1>6. PagesOK(latest) => PagesOK(x)
  <2>1. Files(x) = Files(latest) /\ x.pages = latest.pages
    BY <1>2 DEF Repacked, Files, PrefixesFile
  <2> QED BY <2>1, PagesBehind
<1> QED BY <1>1, <1>3, <1>4, <1>5, <1>6, Moved

\* Nobody deletes the row of a package that the latest version has.
LEMMA OtherPackagesSteps ==
  ASSUME ContentInv, NEW g \in Gavs, OtherPackages(g)
  PROVE  ContentInv' /\ (PagesOK(latest) => PagesOK(latest)')
<1>1. latest' = latest /\ UNCHANGED env
  BY DEF OtherPackages
<1>2. PackagesOK(latest, rows')
  BY DEF OtherPackages, PackagesOK, ContentInv
<1> QED BY <1>1, <1>2, Moved DEF ContentInv

LEMMA FinalizationNext ==
  ContentInv /\ [Next]_vars =>
      ContentInv' /\ (SoundUse(env) /\ PagesOK(latest) => PagesOK(latest)')
<1> SUFFICES ASSUME ContentInv, [Next]_vars
             PROVE  ContentInv' /\ (SoundUse(env) /\ PagesOK(latest) => PagesOK(latest)')
  OBVIOUS
<1>1. env.units \subseteq Unit
  BY FinalizationAssumption DEF ContentInv
<1>2. ASSUME NEW add \in SmallSets(env.units \ latest.artifacts), NEW unreadable \in Unreadable,
             NEW remove \in SmallSets(latest.artifacts), Modify(add, remove, unreadable)
      PROVE  ContentInv' /\ (PagesOK(latest) => PagesOK(latest)')
  <2>1. add \subseteq Unit
    BY <1>1 DEF SmallSets
  <2> QED BY <1>2, <2>1, ModifySteps
<1>3. ASSUME NEW s \in Subject, NEW unreadable \in Unreadable, UploadMetadata(s, unreadable)
      PROVE  ContentInv' /\ (PagesOK(latest) => PagesOK(latest)')
  BY <1>3, UploadSteps
<1>4. ASSUME NEW u \in env.units, PullThrough(u)
      PROVE  ContentInv' /\ (PagesOK(latest) => PagesOK(latest)')
  BY <1>1, <1>4, PullSteps
<1>5. ASSUME UNCHANGED vars
      PROVE  ContentInv' /\ (PagesOK(latest) => PagesOK(latest)')
  BY <1>5, Moved DEF vars, ContentInv
<1> QED
  BY <1>2, <1>3, <1>4, <1>5, RemoveAllSteps, RepairMetadataSteps, RepairPagesSteps,
     RepairPackagesSteps, OtherPackagesSteps DEF Next

\* Packages, metadata and prefixes, whoever makes a version (finalize_new_version).
THEOREM ContentInvariant == Spec => []ContentInv
<1>1. ContentInv /\ [Next]_vars => ContentInv'
  BY FinalizationNext
<1> QED BY <1>1, FinalizationInit, PTL DEF Spec

\* The environment of a behaviour does not change.
LEMMA EnvStays == [Next]_vars => UNCHANGED env
  BY DEF Next, Modify, UploadMetadata, RemoveAll, PullThrough, RepairMetadata, RepairIndexPages,
         RepairPackages, OtherPackages, vars

\* Pages too, while repair_metadata does not remove what clients have deployed.
THEOREM PagesInvariant == SoundUse(env) /\ Spec => []PagesInv
<1>1. SoundUse(env) /\ Init => PagesInv
  BY FinalizationInit DEF PagesInv
<1>2. PagesInv /\ [Next]_vars => PagesInv'
  BY FinalizationNext, EnvStays DEF PagesInv, SoundUse
<1> QED BY <1>1, <1>2, PTL DEF Spec

-----------------------------------------------------------------------------
(* What the invariants say of the latest version.                           *)

\* No modify leaves a package out while the version has files of its release.
LEMMA PackagesAreKept ==
  ASSUME ContentInv, [Next]_vars, NEW g \in latest.packages \cap LiveGavs(latest')
  PROVE  \/ g \in latest'.packages
         \/ /\ "packages" \in env.events /\ latest'.artifacts = latest.artifacts
            /\ g \notin PomGavs(latest')
<1>1. env.units \subseteq Unit
  BY FinalizationAssumption DEF ContentInv
<1>2. ASSUME NEW add \in SmallSets(env.units \ latest.artifacts), NEW unreadable \in Unreadable,
             NEW remove \in SmallSets(latest.artifacts), Modify(add, remove, unreadable)
      PROVE  PackagesStay(latest')
  <2>1. add \subseteq Unit
    BY <1>1 DEF SmallSets
  <2> QED BY <1>2, <2>1, ModifySteps
<1>3. ASSUME NEW s \in Subject, NEW unreadable \in Unreadable, UploadMetadata(s, unreadable)
      PROVE  PackagesStay(latest')
  BY <1>3, UploadSteps
<1>4. CASE RemoveAll
  BY <1>4, RemoveAllSteps DEF PackagesStay
<1>5. ASSUME NEW u \in env.units, PullThrough(u) PROVE latest'.packages = latest.packages
  BY <1>5 DEF PullThrough, ContentInv, IsVersion
<1>6. CASE RepairMetadata
  BY <1>6 DEF RepairMetadata, RegenerateMetadata, ContentInv, IsVersion
<1>7. CASE RepairIndexPages
  BY <1>7 DEF RepairIndexPages, ContentInv, IsVersion
<1>8. CASE RepairPackages
  <2>1. /\ latest' = [latest EXCEPT !.packages = PomGavs(latest)]
        /\ "packages" \in env.events
    BY <1>8 DEF RepairPackages, EnsurePackagesFullScan
  <2>2. latest'.artifacts = latest.artifacts /\ latest'.packages = PomGavs(latest)
    BY <2>1 DEF ContentInv, IsVersion
  <2>3. PomGavs(latest') = PomGavs(latest)
    BY <2>2 DEF PomGavs
  <2> QED BY <2>1, <2>2, <2>3
<1>9. ASSUME NEW h \in Gavs, OtherPackages(h) PROVE latest' = latest
  BY <1>9 DEF OtherPackages
<1> QED BY <1>2, <1>3, <1>4, <1>5, <1>6, <1>7, <1>8, <1>9 DEF Next, vars, PackagesStay

\* A package is in the version as long as files of its release are, whatever modifies
\* and other repositories do with files and rows (_ensure_packages), and has a file and
\* a row there after every task; only a repair takes it from a release without a POM.
THEOREM PackagesAlwaysFollowFiles == Spec => PackagesFollowFiles
<1>1. ContentInv /\ ContentInv' /\ [Next]_vars =>
         [ /\ latest'.packages \subseteq LiveGavs(latest') \cap rows'
           /\ "pull" \notin env.events => PomGavs(latest') \subseteq latest'.packages
           /\ \A g \in latest.packages \cap LiveGavs(latest') :
                 \/ g \in latest'.packages
                 \/ /\ "packages" \in env.events /\ latest'.artifacts = latest.artifacts
                    /\ g \notin PomGavs(latest') ]_vars
  <2> SUFFICES ASSUME ContentInv, ContentInv', [Next]_vars
               PROVE  /\ latest'.packages \subseteq LiveGavs(latest') \cap rows'
                      /\ "pull" \notin env.events => PomGavs(latest') \subseteq latest'.packages
                      /\ \A g \in latest.packages \cap LiveGavs(latest') :
                            \/ g \in latest'.packages
                            \/ /\ "packages" \in env.events
                               /\ latest'.artifacts = latest.artifacts
                               /\ g \notin PomGavs(latest')
    OBVIOUS
  <2>1. env' = env
    BY EnvStays
  <2>2. /\ latest'.packages \subseteq LiveGavs(latest') \cap rows'
        /\ "pull" \notin env.events => PomGavs(latest') \subseteq latest'.packages
    BY <2>1 DEF ContentInv, PackagesOK, LiveGavs, PomGavs
  <2> QED BY <2>2, PackagesAreKept
<1>2. ContentInv /\ [Next]_vars => ContentInv'
  BY FinalizationNext
<1> QED BY <1>1, <1>2, FinalizationInit, PTL DEF Spec, PackagesFollowFiles

\* Metadata that is regenerated for the affected subjects alone is up to date for all
\* (_generate_metadata).
THEOREM MetadataIsAlwaysCurrent == Spec => []MetadataIsCurrent
<1>1. ContentInv => MetadataIsCurrent
  BY DEF ContentInv, MetadataOK, MetadataIsCurrent
<1> QED BY <1>1, ContentInvariant, PTL

\* Without pull-through the prefixes file is exact, although a modify judges from its
\* own pairs whether to write it again (_prefix_set_changed).  With pull-through it may
\* lack prefixes, but lists none that has gone.
THEOREM PrefixesAreAlwaysCurrent == Spec => []PrefixesAreCurrent
<1>1. ContentInv => PrefixesAreCurrent
  BY DEF ContentInv, PrefixesOK, PrefixesAreCurrent
<1> QED BY <1>1, ContentInvariant, PTL

\* Pages that are edited, settled from the deepest up and skipped when they cannot be
\* read are those a rebuild would make (_generate_index_pages).
THEOREM PagesAreAlwaysExact == SoundUse(env) /\ Spec => []PagesAreExact
<1>1. PagesInv => PagesAreExact
  BY DEF PagesInv, PagesOK, PagesAreExact
<1> QED BY <1>1, PagesInvariant, PTL

\* Pull-through leaves pages behind, and edits on such pages list nothing that has gone.
THEOREM PagesAlwaysListOnlyContent == SoundUse(env) /\ Spec => []PagesListOnlyContent
<1>1. PagesInv => PagesListOnlyContent
  BY DEF PagesInv, PagesOK, PagesListOnlyContent
<1> QED BY <1>1, PagesInvariant, PTL

=============================================================================
