--------------------------- MODULE ReleaseProofs ----------------------------
(***************************************************************************)
(* Proofs about Release, for any number of runs, commits and reports, and  *)
(* whatever the registries held before.                                    *)
(***************************************************************************)
EXTENDS Release, FiniteSetTheorems, TLAPS

-----------------------------------------------------------------------------
(* Builds.                                                                 *)

\* The three that are no runs differ.
LEMMA Distinct == None # Hand /\ Hand # Drift /\ None # Drift
<1> DEFINE Two(x, y) == {x} \union {y}
<1>1. ASSUME NEW x, NEW y PROVE Cardinality(Two(x, y)) \in 0 .. 2
    <2>1. IsFiniteSet({x}) /\ Cardinality({x}) = 1
        BY FS_Singleton
    <2>2. Cardinality(Two(x, y)) = IF y \in {x} THEN 1 ELSE 2
        BY <2>1, FS_AddElement
    <2> QED
        BY <2>2
<1>2. Cardinality({None, Hand, Drift}) = 3
    BY ReleaseAssumption DEF ReleaseAssumption
<1>3. None = Hand \/ Hand = Drift => {None, Hand, Drift} = Two(None, Drift)
    OBVIOUS
<1>4. None = Drift => {None, Hand, Drift} = Two(None, Hand)
    OBVIOUS
<1> HIDE DEF Two
<1> QED
    BY <1>1, <1>2, <1>3, <1>4

\* No file is a package and a report, and there is a report.
LEMMA SomeReport == \E f \in Files : f # Crate
BY ReleaseAssumption DEF ReleaseAssumption, Files, Packages

\* Having the same bytes is an equivalence.
LEMMA SameEquivalent ==
    ASSUME NEW f, NEW x, NEW y, NEW z
    PROVE  /\ Same(f, x, x)
           /\ Same(f, x, y) => Same(f, y, x)
           /\ Same(f, x, y) /\ Same(f, y, z) => Same(f, x, z)
BY DEF Same

\* Builds of runs that have been started, whose source is settled.
Known == {Hand} \union {r \in Runs : pc[r] # "new"}

\* It stays as it is for them.
LEMMA SameKept ==
    ASSUME NEW f, NEW x \in Known \union {None}, NEW y \in Known \union {None},
           \A b \in Known \ {Hand} : commit'[b] = commit[b]
    PROVE  Same(f, x, y)' <=> Same(f, x, y)
BY Distinct, ReleaseAssumption
    DEF Same, Source, Builds, Known, ReleaseAssumption
-----------------------------------------------------------------------------
(* The invariant.                                                          *)

\* The concurrency group lets one run go on.
OneAtATime == \A r, q \in Runs : pc[r] \in Steps /\ pc[q] \in Steps => r = q

\* Whatever is attached, uploaded or kept as an artifact comes from a run that
\* has begun, from the source that run was started for; a registry has hidden
\* nothing of what it had before.
Provenance ==
    /\ \A r \in Runs : bundle[r] # None =>
        bundle[r] \in Known \ {Hand} /\ commit[bundle[r]] = commit[r]
    /\ \A f \in Files : asset[f] # None => asset[f] \in Known \ {Hand}
    /\ \A p \in Packages : registry[p] # None => registry[p] \in Known
    /\ \A p \in Packages : registry[p] = Hand => p \in shown

\* A run has an artifact after its first job, for good.
Bundled ==
    /\ \A r \in Runs :
        /\ pc[r] \in {"new", "verify"} => bundle[r] = None
        /\ pc[r] \notin {"new", "verify", "failed"} => bundle[r] # None
    /\ notes # None => bundle[notes] # None

Late == {"package", "publish", "upload", "poll", "read", "edit"}

\* What a run at some place of the publication can rely on.
Reached(r, place) ==
    /\ place \in {"compare", "attach"} =>
        /\ existing[r] = Attached
        /\ \A p \in Packages :
            registry[p] = Hand => Same(p, registry[p], bundle[r])
    /\ place = "attach" => \A f \in Attached : Same(f, asset[f], bundle[r])
    /\ place \in Late =>
        Attached = Files /\ \A f \in Files : Same(f, asset[f], bundle[r])
    /\ place \in {"read", "edit"} =>
        shown = Packages /\ \A p \in Packages : Same(p, registry[p], bundle[r])

AllReached == \A r \in Runs : Reached(r, pc[r])

Released == OneBundle /\ AttachedFirst /\ NotesTruthful

IInv == TypeOK /\ OneAtATime /\ Provenance /\ Bundled /\ AllReached /\ Released

\* A set whose members are all the same has one at most.
LEMMA OneCounted ==
    ASSUME NEW S, \A x, y \in S : x = y
    PROVE  Cardinality(S) <= 1
<1>1. CASE S = {}
    BY <1>1, FS_EmptySet
<1>2. CASE S # {}
    <2>1. PICK x \in S : TRUE
        BY <1>2
    <2>2. S = {x}
        BY <2>1
    <2> QED
        BY <2>2, FS_Singleton
<1> QED
    BY <1>1, <1>2

\* A place between two jobs asks for nothing.
LEMMA IdleReached ==
    ASSUME NEW r, NEW place \in Idle \union {"verify", "check"}
    PROVE  Reached(r, place)
BY DEF Reached, Idle, Late

\* At first.
LEMMA InitInv == Init => IInv
<1> SUFFICES ASSUME Init PROVE IInv
    OBVIOUS
<1>1. OneAtATime
    BY DEF Init, OneAtATime, Steps
<1>2. TypeOK
    <2>1. Cardinality({r \in Runs : pc[r] \in Steps}) <= 1
        BY <1>1, OneCounted DEF OneAtATime
    <2> QED
        BY <2>1, Distinct, ReleaseAssumption
            DEF Init, TypeOK, Idle, Builds, ReleaseAssumption
<1>3. Provenance /\ Bundled
    BY Distinct, ReleaseAssumption
        DEF Init, Provenance, Bundled, Known, ReleaseAssumption
<1>4. AllReached
    BY DEF Init, AllReached, Reached, Late
<1>5. OneBundle /\ NotesTruthful
    BY DEF Init, OneBundle, NotesTruthful, Files
<1>6. AttachedFirst
    BY DEF Init, AttachedFirst
<1> QED
    BY <1>1, <1>2, <1>3, <1>4, <1>5, <1>6 DEF IInv, Released
-----------------------------------------------------------------------------
(* Steps of a run that publish nothing.                                    *)

\* A run goes on to another place, and nothing else changes but what it
\* intends to upload: there must be what it can rely on there, and no other
\* run may be at a step.
LEMMA Moves ==
    ASSUME IInv, NEW r \in Runs, NEW place \in Idle \union Steps,
           place # "new", pc[r] # "new",
           pc' = [pc EXCEPT ![r] = place],
           UNCHANGED <<commit, bundle, existing, gitHubVars, registryVars>>,
           missing' \in [Runs -> SUBSET Packages],
           place \in Steps => pc[r] \in Steps \/ NobodyRuns,
           place = "verify" => bundle[r] = None,
           place \notin {"verify", "failed"} => bundle[r] # None,
           Reached(r, place)
    PROVE  IInv'
<1>1. OneAtATime'
    BY DEF IInv, OneAtATime, TypeOK, NobodyRuns, Idle, Steps
<1>2. TypeOK'
    <2>1. Cardinality({q \in Runs : pc'[q] \in Steps}) <= 1
        BY <1>1, OneCounted DEF OneAtATime
    <2> QED
        BY <2>1 DEF IInv, TypeOK, gitHubVars, registryVars
<1>3. Known' = Known
    BY DEF IInv, TypeOK, Known
<1>4. Provenance'
    BY <1>3 DEF IInv, Provenance, gitHubVars, registryVars
<1>5. Bundled'
    BY DEF IInv, TypeOK, Bundled, gitHubVars, registryVars
<1>6. ASSUME NEW q \in Runs, NEW p
      PROVE  Reached(q, p)' <=> Reached(q, p)
    BY DEF Reached, Attached, Same, Source, gitHubVars, registryVars
<1>7. AllReached'
    BY <1>6 DEF IInv, TypeOK, AllReached
<1>8. Released'
    BY DEF IInv, Released, OneBundle, AttachedFirst, NotesTruthful, Attached,
           Same, Source, gitHubVars, registryVars
<1> QED
    BY <1>1, <1>2, <1>4, <1>5, <1>7, <1>8 DEF IInv

\* The steps that only lead on.
LEMMA PublishInv ==
    ASSUME IInv, NEW r \in Runs, Publish(r)
    PROVE  IInv'
<1> DEFINE place == IF bundle[r] = None THEN "verify" ELSE "check"
<1>1. /\ pc' = [pc EXCEPT ![r] = place]
      /\ place \in Idle \union Steps /\ pc[r] # "new" /\ NobodyRuns
      /\ UNCHANGED <<commit, bundle, existing, gitHubVars, registryVars>>
      /\ missing' \in [Runs -> SUBSET Packages]
      /\ place = "verify" => bundle[r] = None
      /\ place # "verify" => bundle[r] # None
    BY DEF Publish, Goes, Steps, IInv, TypeOK
<1>2. Reached(r, place)
    BY IdleReached
<1> QED
    BY <1>1, <1>2, Moves

LEMMA CheckInv ==
    ASSUME IInv, NEW r \in Runs, Check(r)
    PROVE  IInv'
<1>1. /\ pc[r] = "check"
      /\ pc' = [pc EXCEPT ![r] = "compare"]
      /\ UNCHANGED <<commit, bundle, gitHubVars, registryVars>>
      /\ existing' = [existing EXCEPT ![r] = Attached]
      /\ missing' \in [Runs -> SUBSET Packages]
    BY DEF Check, Goes, IInv, TypeOK
<1>2. OneAtATime'
    BY <1>1 DEF IInv, OneAtATime, TypeOK, Steps
<1>3. TypeOK'
    <2>1. Cardinality({q \in Runs : pc'[q] \in Steps}) <= 1
        BY <1>2, OneCounted DEF OneAtATime
    <2>2. Attached \subseteq Files
        BY DEF Attached
    <2> QED
        BY <1>1, <2>1, <2>2 DEF IInv, TypeOK, Steps, gitHubVars, registryVars
<1>4. Provenance' /\ Bundled'
    BY <1>1 DEF IInv, TypeOK, Provenance, Bundled, Known, gitHubVars,
                registryVars
<1>5. AllReached'
    <2>1. ASSUME NEW p \in Packages, registry[p] = Hand
          PROVE  Same(p, registry[p], bundle[r])
        BY <2>1 DEF IInv, Provenance, Check, RegistriesAgree
    <2>2. Reached(r, "compare")'
        BY <1>1, <2>1 DEF Reached, Late, Attached, Same, Source, IInv, TypeOK,
                          gitHubVars, registryVars
    <2>3. ASSUME NEW q \in Runs, q # r PROVE Reached(q, pc[q])'
        BY <1>1, <2>3 DEF IInv, OneAtATime, Reached, Steps, Late
    <2> QED
        BY <1>1, <2>2, <2>3 DEF AllReached, IInv, TypeOK
<1>6. Released'
    BY <1>1 DEF IInv, Released, OneBundle, AttachedFirst, NotesTruthful,
                Attached, Same, Source, gitHubVars, registryVars
<1> QED
    BY <1>2, <1>3, <1>4, <1>5, <1>6 DEF IInv

LEMMA CompareInv ==
    ASSUME IInv, NEW r \in Runs, Compare(r)
    PROVE  IInv'
<1>1. /\ pc[r] = "compare" /\ pc' = [pc EXCEPT ![r] = "attach"]
      /\ UNCHANGED <<commit, bundle, existing, gitHubVars, registryVars>>
      /\ missing' \in [Runs -> SUBSET Packages]
      /\ bundle[r] # None
    BY DEF Compare, Goes, IInv, TypeOK, Bundled
<1>2. Reached(r, "attach")
    BY <1>1 DEF Compare, Reached, Late, IInv, AllReached
<1> QED
    BY <1>1, <1>2, Moves DEF Steps

\* Compare, AttachDone, Package, UploadDone, Poll and ReadNotes.
LEMMA LeadsInv ==
    ASSUME IInv, NEW r \in Runs,
           \/ AttachDone(r) \/ Package(r) \/ UploadDone(r) \/ Poll(r)
           \/ ReadNotes(r)
    PROVE  IInv'
<1>1. PICK place \in Late :
        /\ pc' = [pc EXCEPT ![r] = place]
        /\ place \in {"read", "edit"} => Poll(r) \/ ReadNotes(r)
    BY DEF AttachDone, Package, UploadDone, Poll, ReadNotes, Goes, Late
<1>2. /\ pc[r] \in {"attach"} \union Late
      /\ UNCHANGED <<commit, bundle, existing, gitHubVars, registryVars>>
      /\ missing' \in [Runs -> SUBSET Packages]
      /\ bundle[r] # None
    BY DEF AttachDone, Package, UploadDone, Poll, ReadNotes, IInv, TypeOK,
           Bundled, Late
<1>3. Attached = Files /\ \A f \in Files : Same(f, asset[f], bundle[r])
    BY <1>2 DEF AttachDone, Package, UploadDone, Poll, ReadNotes, IInv,
                AllReached, Reached, Late
<1>4. place \in {"read", "edit"} =>
        shown = Packages /\ \A p \in Packages : Same(p, registry[p], bundle[r])
    BY <1>1 DEF Poll, SeesAll, RegistriesAgree, ReadNotes, IInv, AllReached,
                Reached
<1>5. Reached(r, place)
    BY <1>3, <1>4 DEF Reached, Late
<1> QED
    BY <1>1, <1>2, <1>5, Moves DEF Steps, Late

LEMMA FailInv ==
    ASSUME IInv, NEW r \in Runs, Fail(r)
    PROVE  IInv'
<1>1. /\ pc[r] # "new" /\ pc' = [pc EXCEPT ![r] = "failed"]
      /\ UNCHANGED <<commit, bundle, existing, gitHubVars, registryVars>>
      /\ missing' \in [Runs -> SUBSET Packages]
    BY DEF Fail, Goes, Steps, IInv, TypeOK
<1>2. Reached(r, "failed") /\ "failed" \in Idle /\ "failed" \notin Steps
    BY IdleReached DEF Idle, Steps
<1> QED
    BY <1>1, <1>2, Moves
-----------------------------------------------------------------------------
(* The first job.                                                          *)

\* Whatever is anywhere comes from a run that had begun before.
LEMMA ValidateInv ==
    ASSUME IInv, NEW r \in Runs, Validate(r)
    PROVE  IInv'
<1>1. /\ pc[r] = "new" /\ pc' = [pc EXCEPT ![r] = "verify"] /\ NobodyRuns
      /\ commit' = [commit EXCEPT ![r] = tag]
      /\ UNCHANGED <<bundle, existing, missing, gitHubVars, registryVars>>
      /\ bundle[r] = None
    BY DEF Validate, Goes, IInv, Bundled
<1>2. OneAtATime'
    BY <1>1 DEF IInv, OneAtATime, TypeOK, NobodyRuns, Idle, Steps
<1>3. TypeOK'
    <2>1. Cardinality({q \in Runs : pc'[q] \in Steps}) <= 1
        BY <1>2, OneCounted DEF OneAtATime
    <2> QED
        BY <1>1, <2>1 DEF IInv, TypeOK, Steps, gitHubVars, registryVars
<1>4. /\ Known' = Known \union {r} /\ r \notin Known
      /\ \A b \in Known \ {Hand} : commit'[b] = commit[b]
    BY <1>1, ReleaseAssumption DEF IInv, TypeOK, Known, ReleaseAssumption
<1>5. Provenance' /\ Bundled'
    BY <1>1, <1>4
        DEF IInv, TypeOK, Provenance, Bundled, gitHubVars, registryVars
<1>6. /\ \A f \in Files : asset[f] \in Known \union {None}
      /\ \A p \in Packages : registry[p] \in Known \union {None}
      /\ \A q \in Runs : bundle[q] \in Known \union {None}
    BY DEF IInv, Provenance
<1>7. AllReached'
    BY <1>1 DEF AllReached, Reached, IInv, TypeOK, NobodyRuns, Idle, Late
<1>8. OneBundle'
    BY <1>1, <1>4, <1>6, SameKept
        DEF IInv, Released, OneBundle, Files, gitHubVars, registryVars
<1>9. AttachedFirst'
    <2>1. SUFFICES ASSUME NEW p \in Packages, registry[p] \notin {None, Hand}
                   PROVE  /\ Attached' = Files
                          /\ \E b \in Runs : \A f \in Files :
                                Same(f, asset[f], b)'
        BY <1>1 DEF AttachedFirst, gitHubVars, registryVars
    <2>2. Attached = Files /\ Attached' = Attached
        BY <1>1, <2>1 DEF IInv, Released, AttachedFirst, Attached, gitHubVars
    <2>3. PICK b \in Runs : \A f \in Files : Same(f, asset[f], b)
        BY <2>1 DEF IInv, Released, AttachedFirst
    <2>4. PICK report \in Files : report # Crate
        BY SomeReport
    <2>5. asset[report] = b /\ asset[report] # None
        BY <2>2, <2>3, <2>4 DEF Same, Attached
    <2>6. b \in Known
        BY <1>6, <2>5
    <2>7. \A f \in Files : Same(f, asset[f], b)'
        BY <1>1, <1>4, <1>6, <2>3, <2>6, SameKept DEF gitHubVars
    <2> QED
        BY <2>2, <2>7
<1>10. NotesTruthful'
    <2>1. CASE notes = None
        BY <1>1, <2>1 DEF NotesTruthful, gitHubVars
    <2>2. CASE notes # None
        <3>1. /\ notes \in Runs /\ bundle[notes] \in Known \ {Hand}
              /\ notes # r
            BY <1>1, <2>2 DEF IInv, TypeOK, Bundled, Provenance
        <3>2. commit'[notes] = commit[notes]
            BY <1>1, <3>1 DEF IInv, TypeOK
        <3>3. \A p \in Packages : Same(p, registry[p], bundle[notes])'
            BY <1>1, <1>4, <1>6, <2>2, <3>1, SameKept
                DEF IInv, Released, NotesTruthful, gitHubVars, registryVars
        <3> QED
            BY <1>1, <1>4, <2>2, <3>1, <3>2, <3>3
                DEF IInv, Released, NotesTruthful, gitHubVars, registryVars
    <2> QED
        BY <2>1, <2>2
<1> QED
    BY <1>2, <1>3, <1>5, <1>7, <1>8, <1>9, <1>10 DEF IInv, Released

\* An artifact is the run's own build, or the one on the release, of the
\* same source.
LEMMA PrepareInv ==
    ASSUME IInv, NEW r \in Runs, Prepare(r)
    PROVE  IInv'
<1>1. PICK b \in Runs :
        /\ bundle' = [bundle EXCEPT ![r] = b]
        /\ b = r \/ (Attached = Files /\ Valid(asset, b, tag))
    BY DEF Prepare
<1>2. /\ pc[r] = "verify" /\ pc' = [pc EXCEPT ![r] = "prepared"]
      /\ tag = commit[r] /\ bundle[r] = None
      /\ UNCHANGED <<commit, existing, missing, gitHubVars, registryVars>>
    BY DEF Prepare, Goes, TagMatches, IInv, Bundled
<1>3. OneAtATime'
    BY <1>2 DEF IInv, OneAtATime, TypeOK, Steps
<1>4. TypeOK'
    <2>1. Cardinality({q \in Runs : pc'[q] \in Steps}) <= 1
        BY <1>3, OneCounted DEF OneAtATime
    <2> QED
        BY <1>1, <1>2, <2>1
            DEF IInv, TypeOK, Idle, Builds, gitHubVars, registryVars
<1>5. Known' = Known
    BY <1>2 DEF IInv, TypeOK, Known
<1>6. b \in Known \ {Hand} /\ commit[b] = commit[r]
    <2>1. CASE b = r
        BY <1>2, <2>1, ReleaseAssumption DEF Known, ReleaseAssumption
    <2>2. CASE Attached = Files /\ Valid(asset, b, tag)
        <3>1. PICK report \in Files : report # Crate
            BY SomeReport
        <3>2. asset[report] = b /\ asset[report] # None
            BY <2>2, <3>1 DEF Valid, Same, Attached
        <3> QED
            BY <1>2, <2>2, <3>2 DEF Valid, IInv, Provenance
    <2> QED
        BY <1>1, <2>1, <2>2
<1>7. b # None
    BY ReleaseAssumption DEF ReleaseAssumption
<1>8. Provenance'
    BY <1>1, <1>2, <1>5, <1>6
        DEF IInv, TypeOK, Provenance, gitHubVars, registryVars
<1>9. Bundled'
    BY <1>1, <1>2, <1>7 DEF IInv, TypeOK, Bundled, gitHubVars
<1>10. AllReached'
    BY <1>2 DEF AllReached, Reached, IInv, TypeOK, OneAtATime, Steps, Late
<1>11. OneBundle' /\ AttachedFirst'
    BY <1>2 DEF IInv, Released, OneBundle, AttachedFirst, Attached, Same,
                Source, gitHubVars, registryVars
<1>12. notes # None => notes # r /\ notes \in Runs
    BY <1>2 DEF IInv, TypeOK, Bundled
<1>13. NotesTruthful'
    BY <1>1, <1>2, <1>12
        DEF IInv, TypeOK, Released, NotesTruthful, Same, Source, gitHubVars,
            registryVars
<1> QED
    BY <1>3, <1>4, <1>8, <1>9, <1>10, <1>11, <1>13 DEF IInv, Released
-----------------------------------------------------------------------------
(* What cannot be taken back.                                              *)

\* Nobody but this run is at a step, before and after it.
LEMMA StepsAlone ==
    ASSUME IInv, NEW r \in Runs, pc[r] \in Steps,
           NEW place \in Idle \union Steps, pc' = [pc EXCEPT ![r] = place]
    PROVE  /\ OneAtATime'
           /\ Cardinality({q \in Runs : pc'[q] \in Steps}) <= 1
           /\ \A q \in Runs : q # r => pc[q] \notin Steps
<1>1. OneAtATime' /\ \A q \in Runs : q # r => pc[q] \notin Steps
    BY DEF IInv, OneAtATime, TypeOK
<1> QED
    BY <1>1, OneCounted DEF OneAtATime

\* An asset is attached where there was none, and like those that are there.
LEMMA AttachInv ==
    ASSUME IInv, NEW r \in Runs, NEW f \in Files, Attach(r, f)
    PROVE  IInv'
<1>1. PICK place \in {"attach", "failed"} : pc' = [pc EXCEPT ![r] = place]
    BY DEF Attach, IInv, TypeOK
<1>2. /\ pc[r] = "attach" /\ asset[f] = None
      /\ asset' = [asset EXCEPT ![f] = bundle[r]]
      /\ existing' = [existing EXCEPT ![r] = @ \union {f}]
      /\ UNCHANGED <<commit, bundle, missing, tag, notes, registryVars>>
    BY DEF Attach
<1>3. /\ bundle[r] # None /\ bundle[r] \in Known \ {Hand}
      /\ bundle[r] \in Runs
    BY <1>2 DEF IInv, Bundled, Provenance, Known
<1>4. /\ OneAtATime'
      /\ Cardinality({q \in Runs : pc'[q] \in Steps}) <= 1
      /\ \A q \in Runs : q # r => pc[q] \notin Steps
    BY <1>1, <1>2, StepsAlone DEF Idle, Steps
<1>5. TypeOK'
    BY <1>1, <1>2, <1>3, <1>4 DEF IInv, TypeOK, Idle, Steps, registryVars
<1>6. Known' = Known
    BY <1>1, <1>2 DEF IInv, TypeOK, Known
<1>7. Provenance' /\ Bundled'
    BY <1>1, <1>2, <1>3, <1>6
        DEF IInv, TypeOK, Provenance, Bundled, registryVars
<1>8. /\ existing[r] = Attached
      /\ \A g \in Attached : Same(g, asset[g], bundle[r])
      /\ \A p \in Packages :
            registry[p] = Hand => Same(p, registry[p], bundle[r])
    BY <1>2 DEF IInv, AllReached, Reached
<1>9. Attached' = Attached \union {f}
    BY <1>2, <1>3 DEF Attached, IInv, TypeOK, Bundled
<1>10. \A g, x, y : Same(g, x, y)' <=> Same(g, x, y)
    BY <1>2 DEF Same, Source
<1>11. AllReached'
    <2>1. \A g \in Attached' : Same(g, asset'[g], bundle[r])
        BY <1>2, <1>8, <1>9, SameEquivalent DEF IInv, TypeOK, Attached
    <2>2. Reached(r, "attach")'
        BY <1>2, <1>8, <1>9, <1>10, <2>1
            DEF Reached, Late, IInv, TypeOK, registryVars
    <2>3. Reached(r, "failed")'
        BY DEF Reached, Late
    <2>4. ASSUME NEW q \in Runs, q # r PROVE Reached(q, pc[q])'
        BY <1>1, <1>4, <2>4 DEF Reached, Late, Steps, IInv, TypeOK
    <2> QED
        BY <1>1, <2>2, <2>3, <2>4 DEF AllReached, IInv, TypeOK
<1>12. \A p \in Packages : registry[p] \in {None, Hand}
    BY <1>2 DEF IInv, Released, AttachedFirst, Attached
<1>13. OneBundle'
    <2>1. ASSUME NEW p \in Packages, asset'[p] # None, registry[p] # None
          PROVE  Same(p, asset'[p], registry[p])
        <3>1. CASE p = f
            BY <1>2, <1>8, <1>12, <2>1, <3>1, SameEquivalent DEF IInv, TypeOK
        <3>2. CASE p # f
            BY <1>2, <2>1, <3>2 DEF IInv, Released, OneBundle, TypeOK, Files
        <3> QED
            BY <3>1, <3>2
    <2> QED
        BY <1>2, <1>10, <2>1 DEF OneBundle, registryVars
<1>14. AttachedFirst'
    BY <1>2, <1>12 DEF AttachedFirst, registryVars
<1>15. NotesTruthful'
    BY <1>2, <1>10 DEF IInv, Released, NotesTruthful, registryVars
<1> QED
    BY <1>4, <1>5, <1>7, <1>11, <1>13, <1>14, <1>15 DEF IInv, Released

\* A package is uploaded where there was none, or again the same, when all the
\* assets are there and like it.
LEMMA UploadInv ==
    ASSUME IInv, NEW r \in Runs, NEW p \in Packages,
           NEW place \in {"upload", "failed"},
           pc[r] \in {"publish", "upload"},
           pc' = [pc EXCEPT ![r] = place],
           registry[p] \in {None, bundle[r]},
           registry' = [registry EXCEPT ![p] = bundle[r]],
           missing' = [missing EXCEPT ![r] = @ \ {p}],
           UNCHANGED <<commit, bundle, existing, gitHubVars, shown>>
    PROVE  IInv'
<1>1. /\ bundle[r] # None /\ bundle[r] \in Known \ {Hand}
      /\ bundle[r] \in Runs
    BY DEF IInv, Bundled, Provenance, Known
<1>2. /\ OneAtATime'
      /\ Cardinality({q \in Runs : pc'[q] \in Steps}) <= 1
      /\ \A q \in Runs : q # r => pc[q] \notin Steps
    BY StepsAlone DEF Idle, Steps
<1>3. TypeOK'
    BY <1>1, <1>2 DEF IInv, TypeOK, Idle, Steps, Builds, gitHubVars
<1>4. Known' = Known
    BY DEF IInv, TypeOK, Known
<1>5. Provenance' /\ Bundled'
    BY <1>1, <1>4 DEF IInv, TypeOK, Provenance, Bundled, gitHubVars
<1>6. /\ Attached = Files /\ Attached' = Attached
      /\ \A f \in Files : Same(f, asset[f], bundle[r])
    BY DEF IInv, AllReached, Reached, Late, Attached, gitHubVars
<1>7. \A g, x, y : Same(g, x, y)' <=> Same(g, x, y)
    BY DEF Same, Source
<1>8. AllReached'
    <2>1. Reached(r, place)'
        BY <1>6, <1>7 DEF Reached, Late, gitHubVars
    <2>2. ASSUME NEW q \in Runs, q # r PROVE Reached(q, pc[q])'
        BY <1>2, <2>2 DEF Reached, Late, Steps, IInv, TypeOK
    <2> QED
        BY <2>1, <2>2 DEF AllReached, IInv, TypeOK
<1>9. OneBundle'
    BY <1>6, <1>7 DEF IInv, Released, OneBundle, TypeOK, Files, gitHubVars
<1>10. AttachedFirst'
    BY <1>1, <1>6, <1>7 DEF AttachedFirst, gitHubVars
<1>11. NotesTruthful'
    <2>1. notes # None => registry' = registry
        BY Distinct DEF IInv, TypeOK, Released, NotesTruthful
    <2> QED
        BY <1>7, <2>1 DEF IInv, Released, NotesTruthful, gitHubVars
<1> QED
    BY <1>2, <1>3, <1>5, <1>8, <1>9, <1>10, <1>11 DEF IInv, Released

\* The notes name a run that has seen both registries as they should be.
LEMMA EditNotesInv ==
    ASSUME IInv, NEW r \in Runs, EditNotes(r)
    PROVE  IInv'
<1>1. PICK place \in {"done", "failed"} : pc' = [pc EXCEPT ![r] = place]
    BY DEF EditNotes, Goes
<1>2. /\ pc[r] = "edit" /\ notes' = r
      /\ UNCHANGED <<commit, bundle, existing, missing, tag, asset, registryVars>>
    BY DEF EditNotes
<1>3. /\ bundle[r] # None /\ commit[bundle[r]] = commit[r]
    BY <1>2 DEF IInv, Bundled, Provenance
<1>4. /\ OneAtATime'
      /\ Cardinality({q \in Runs : pc'[q] \in Steps}) <= 1
      /\ \A q \in Runs : q # r => pc[q] \notin Steps
    BY <1>1, <1>2, StepsAlone DEF Idle, Steps
<1>5. TypeOK'
    BY <1>1, <1>2, <1>4 DEF IInv, TypeOK, Idle, Steps, registryVars
<1>6. Known' = Known
    BY <1>1, <1>2 DEF IInv, TypeOK, Known
<1>7. Provenance' /\ Bundled'
    BY <1>1, <1>2, <1>3, <1>6
        DEF IInv, TypeOK, Provenance, Bundled, registryVars
<1>8. AllReached'
    BY <1>1, <1>4 DEF AllReached, Reached, Late, Steps, IInv, TypeOK
<1>9. shown = Packages /\ \A p \in Packages : Same(p, registry[p], bundle[r])
    BY <1>2 DEF IInv, AllReached, Reached
<1>10. \A g, x, y : Same(g, x, y)' <=> Same(g, x, y)
    BY <1>2 DEF Same, Source
<1>11. NotesTruthful'
    BY <1>2, <1>3, <1>9, <1>10 DEF NotesTruthful, registryVars
<1>12. OneBundle' /\ AttachedFirst'
    BY <1>2, <1>10 DEF IInv, Released, OneBundle, AttachedFirst, Attached,
                       registryVars
<1> QED
    BY <1>4, <1>5, <1>7, <1>8, <1>11, <1>12 DEF IInv, Released
-----------------------------------------------------------------------------
(* The registries, the maintainer, and the theorems.                       *)

LEMMA OthersInv ==
    ASSUME IInv,
           \/ \E p \in Packages : Show(p)
           \/ MoveTag
           \/ UNCHANGED vars
    PROVE  IInv'
<1>1. /\ UNCHANGED <<runVars, asset, notes, registry>>
      /\ shown \subseteq shown' /\ tag' \in Commits
      /\ shown' \subseteq {p \in Packages : registry[p] # None}
    BY DEF Show, MoveTag, vars, runVars, gitHubVars, registryVars, IInv, TypeOK
<1>2. TypeOK' /\ OneAtATime'
    BY <1>1 DEF IInv, TypeOK, OneAtATime, runVars
<1>3. Provenance' /\ Bundled'
    BY <1>1 DEF IInv, Provenance, Bundled, Known, runVars
<1>4. \A g, x, y : Same(g, x, y)' <=> Same(g, x, y)
    BY <1>1 DEF Same, Source, runVars
<1>5. AllReached'
    BY <1>1, <1>4 DEF IInv, AllReached, Reached, Attached, runVars
<1>6. Released'
    BY <1>1, <1>4 DEF IInv, Released, OneBundle, AttachedFirst, NotesTruthful,
                      Attached, runVars
<1> QED
    BY <1>2, <1>3, <1>5, <1>6 DEF IInv

\* IInv is inductive.
LEMMA StepInv == IInv /\ [Next]_vars => IInv'
<1> SUFFICES ASSUME IInv, [Next]_vars PROVE IInv'
    OBVIOUS
<1>1. ASSUME NEW r \in Runs,
             Validate(r) \/ Publish(r) \/ Succeeds(r) \/ Fail(r)
      PROVE  IInv'
    <2>1. CASE Validate(r) \/ Publish(r) \/ Fail(r)
        BY <2>1, ValidateInv, PublishInv, FailInv
    <2>2. CASE Prepare(r) \/ Check(r) \/ Compare(r) \/ EditNotes(r)
        BY <2>2, PrepareInv, CheckInv, CompareInv, EditNotesInv
    <2>3. CASE AttachDone(r) \/ Package(r) \/ UploadDone(r) \/ Poll(r)
                \/ ReadNotes(r)
        BY <2>3, LeadsInv
    <2>4. ASSUME NEW f \in Files, Attach(r, f) PROVE IInv'
        BY <2>4, AttachInv
    <2>5. CASE PublishCrate(r)
        <3>1. PICK place \in {"upload", "failed"} : pc' = [pc EXCEPT ![r] = place]
            BY <2>5 DEF PublishCrate, Goes
        <3> QED
            BY <2>5, <3>1, UploadInv DEF PublishCrate, TestedCrate, Packages
    <2>6. ASSUME NEW p \in Python, Upload(r, p) PROVE IInv'
        <3>1. PICK place \in {"upload", "failed"} : pc' = [pc EXCEPT ![r] = place]
            BY <2>6 DEF Upload, IInv, TypeOK
        <3> QED
            BY <2>6, <3>1, UploadInv DEF Upload, Packages
    <2> QED
        BY <1>1, <2>1, <2>2, <2>3, <2>4, <2>5, <2>6 DEF Succeeds
<1> QED
    BY <1>1, OthersInv DEF Next

\* TypeOK; in particular the concurrency group lets one run go on at a time.
THEOREM TypeCorrect == Spec => []TypeOK
<1>1. IInv => TypeOK
    BY DEF IInv
<1> QED
    BY InitInv, StepInv, <1>1, PTL DEF Spec

\* OneBundle: however often publishing fails and is repeated, what the
\* registries have is what the release shows.
THEOREM BundleKept == Spec => []OneBundle
<1>1. IInv => OneBundle
    BY DEF IInv, Released
<1> QED
    BY InitInv, StepInv, <1>1, PTL DEF Spec

\* AttachedFirst: what was uploaded can be found on the release.
THEOREM AssetsFirst == Spec => []AttachedFirst
<1>1. IInv => AttachedFirst
    BY DEF IInv, Released
<1> QED
    BY InitInv, StepInv, <1>1, PTL DEF Spec

\* NotesTruthful: the status block says what the registries show.
THEOREM NotesHold == Spec => []NotesTruthful
<1>1. IInv => NotesTruthful
    BY DEF IInv, Released
<1> QED
    BY InitInv, StepInv, <1>1, PTL DEF Spec
=============================================================================
