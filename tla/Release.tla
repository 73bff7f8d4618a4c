------------------------------ MODULE Release -------------------------------
(***************************************************************************)
(* scripts/release.py: the runs of the release workflow for one tag, which *)
(* prepare a bundle of files and publish it to the GitHub release, to      *)
(* crates.io and to PyPI.  The workflow's concurrency group lets one run   *)
(* go on at a time, but any command may fail, before or after the other    *)
(* side did what it asked for, a failed publication may be run again with  *)
(* the artifact of its own run, registries show an upload late, and the    *)
(* tag is the maintainer's.  The text of the notes is left out.            *)
(***************************************************************************)
EXTENDS Naturals, FiniteSets

CONSTANTS
    Runs,           \* Each with the build it has made.
    Commits,        \* What the tag may name.
    Reports,        \* The files beside the packages.
    PublishedByHand,    \* What the registries may hold before the first run,
    HandCommit,         \* and the source that was made from.
    None, Hand, Drift   \* No build, one made by hand, and a crate whose bytes
                        \* are not those of the bundle.

Crate == "crate"
Python == {"sdist", "wheel"}
Packages == Python \union {Crate}
Files == Packages \union Reports

ASSUME ReleaseAssumption ==
    /\ IsFiniteSet(Runs)
    /\ IsFiniteSet(Reports)
    /\ Reports # {}
    /\ Reports \intersect Packages = {}
    /\ PublishedByHand \subseteq SUBSET Packages
    /\ HandCommit \in Commits
    /\ {None, Hand, Drift} \intersect Runs = {}
    /\ Cardinality({None, Hand, Drift}) = 3

VARIABLES
    pc,         \* Where each run is.
    commit,     \* The source it was checked out at.
    bundle,     \* The build its artifact has.
    existing,   \* The assets it has seen, or attached.
    missing,    \* The packages it has to upload.
    tag, asset, notes,  \* The GitHub release: commit, build of each file, and
                        \* the run named in the notes' status block.
    registry,   \* The build of each package at its registry,
    shown       \* and those that the registry shows.

runVars == <<pc, commit, bundle, existing, missing>>
gitHubVars == <<tag, asset, notes>>
registryVars == <<registry, shown>>
vars == <<runVars, gitHubVars, registryVars>>

Builds == Runs \union {Hand}

Idle == {"new", "prepared", "failed", "done"}
Steps == {"verify", "check", "compare", "attach", "package", "publish", "upload", "poll",
          "read", "edit"}

TypeOK ==
    /\ pc \in [Runs -> Idle \union Steps]
    /\ commit \in [Runs -> Commits \union {None}]
    /\ bundle \in [Runs -> Builds \union {None}]
    /\ existing \in [Runs -> SUBSET Files]
    /\ missing \in [Runs -> SUBSET Packages]
    /\ tag \in Commits
    /\ asset \in [Files -> Runs \union {None}]
    /\ notes \in Runs \union {None}
    /\ registry \in [Packages -> Builds \union {Drift, None}]
    /\ shown \subseteq {p \in Packages : registry[p] # None}
    /\ Cardinality({r \in Runs : pc[r] \in Steps}) <= 1

Init ==
    /\ pc = [r \in Runs |-> "new"]
    /\ commit = [r \in Runs |-> None]
    /\ bundle = [r \in Runs |-> None]
    /\ existing = [r \in Runs |-> {}]
    /\ missing = [r \in Runs |-> {}]
    /\ tag \in Commits
    /\ asset = [f \in Files |-> None]
    /\ notes = None
    /\ \E old \in PublishedByHand :
        /\ registry = [p \in Packages |-> IF p \in old THEN Hand ELSE None]
        /\ shown = old

Source(build) == IF build = Hand THEN HandCommit ELSE commit[build]

\* Two builds of a commit make the same crate, but a Python archive and the
\* report carry times.
Same(f, x, y) ==
    \/ x = y
    \/ /\ f = Crate
       /\ {x, y} \subseteq Builds
       /\ Source(x) = Source(y)

\* cancel-in-progress: false, one group per tag.
NobodyRuns == \A r \in Runs : pc[r] \in Idle

Goes(r, step) == pc' = [pc EXCEPT ![r] = step]
-----------------------------------------------------------------------------
(* The verification job.                                                   *)

Attached == {f \in Files : asset[f] # None}

\* validate_bundle: the files are those of one report of the run's source.
Valid(files, build, source) ==
    /\ build # None
    /\ commit[build] = source
    /\ \A f \in Files : files[f] = build \/ Same(f, files[f], build)

\* release_info: the tag still names the source.
TagMatches(r) == tag = commit[r]

\* The first job of a run: the tag is checked out and looked up.
Validate(r) ==
    /\ NobodyRuns
    /\ pc[r] = "new"
    /\ commit' = [commit EXCEPT ![r] = tag]
    /\ Goes(r, "verify")
    /\ UNCHANGED <<bundle, existing, missing, gitHubVars, registryVars>>

\* The build, and prepare: a complete bundle on the release is kept; an
\* incomplete one is none of another run's business, and fails it.
Prepare(r) ==
    /\ pc[r] = "verify"
    /\ TagMatches(r)
    /\ \/ /\ Attached = {}
          /\ bundle' = [bundle EXCEPT ![r] = r]
       \/ /\ Attached = Files
          /\ \E b \in Runs :
                Valid(asset, b, tag) /\ bundle' = [bundle EXCEPT ![r] = b]
    /\ Goes(r, "prepared")
    /\ UNCHANGED <<commit, existing, missing, gitHubVars, registryVars>>

\* The publication job begins, or the job that failed begins again.  The
\* former validates the bundle it downloads from its own run.
Publish(r) ==
    /\ NobodyRuns
    /\ pc[r] \in {"prepared", "failed"}
    /\ Goes(r, IF bundle[r] = None THEN "verify" ELSE "check")
    /\ UNCHANGED <<commit, bundle, existing, missing, gitHubVars,
                   registryVars>>
-----------------------------------------------------------------------------
(* publish.                                                                *)

\* registry_state raises on other bytes.
RegistriesAgree(r) == \A p \in shown : Same(p, registry[p], bundle[r])

\* Mutant: what a registry shows is taken for the bundle's.
CheckPresence(r) ==
    /\ pc[r] = "check"
    /\ TagMatches(r)
    /\ existing' = [existing EXCEPT ![r] = Attached]
    /\ missing' = [missing EXCEPT ![r] = Packages \ shown]
    /\ Goes(r, "compare")
    /\ UNCHANGED <<commit, bundle, gitHubVars, registryVars>>

\* Mutant: everything is uploaded again.
CheckRepeating(r) ==
    /\ pc[r] = "check"
    /\ TagMatches(r)
    /\ RegistriesAgree(r)
    /\ existing' = [existing EXCEPT ![r] = Attached]
    /\ missing' = [missing EXCEPT ![r] = Packages]
    /\ Goes(r, "compare")
    /\ UNCHANGED <<commit, bundle, gitHubVars, registryVars>>

\* release_info, registry_state.
Check(r) ==
    /\ pc[r] = "check"
    /\ TagMatches(r)
    /\ RegistriesAgree(r)
    /\ existing' = [existing EXCEPT ![r] = Attached]
    /\ missing' = [missing EXCEPT ![r] = Packages \ shown]
    /\ Goes(r, "compare")
    /\ UNCHANGED <<commit, bundle, gitHubVars, registryVars>>

Compare(r) ==
    /\ pc[r] = "compare"
    /\ \A f \in existing[r] : Same(f, asset[f], bundle[r])
    /\ Goes(r, "attach")
    /\ UNCHANGED <<commit, bundle, existing, missing, gitHubVars,
                   registryVars>>

\* gh release upload does not replace an asset.  The command may fail after
\* the asset is there.
Attach(r, f) ==
    /\ pc[r] = "attach"
    /\ f \notin existing[r]
    /\ asset[f] = None
    /\ asset' = [asset EXCEPT ![f] = bundle[r]]
    /\ existing' = [existing EXCEPT ![r] = @ \union {f}]
    /\ pc' \in {pc, [pc EXCEPT ![r] = "failed"]}
    /\ UNCHANGED <<commit, bundle, missing, tag, notes, registryVars>>

\* Mutant: the registries do not wait for the assets.
EarlyRegistries(r) ==
    /\ pc[r] = "attach"
    /\ Goes(r, IF Crate \in missing[r] THEN "package" ELSE "upload")
    /\ UNCHANGED <<commit, bundle, existing, missing, gitHubVars,
                   registryVars>>

AttachDone(r) ==
    /\ pc[r] = "attach"
    /\ existing[r] = Files
    /\ Goes(r, IF Crate \in missing[r] THEN "package" ELSE "upload")
    /\ UNCHANGED <<commit, bundle, existing, missing, gitHubVars,
                   registryVars>>

\* The crate that passes the comparison with the tested one.
TestedCrate(r) == {bundle[r]}

\* cargo package and the comparison; any other crate fails the run.
Package(r) ==
    /\ pc[r] = "package"
    /\ Goes(r, "publish")
    /\ UNCHANGED <<commit, bundle, existing, missing, gitHubVars,
                   registryVars>>

\* cargo publish, which packages the same source again; a registry takes a
\* version once.
PublishCrate(r) ==
    /\ pc[r] = "publish"
    /\ registry[Crate] = None
    /\ \E b \in TestedCrate(r) : registry' = [registry EXCEPT ![Crate] = b]
    /\ missing' = [missing EXCEPT ![r] = @ \ {Crate}]
    /\ \/ Goes(r, "upload")
       \/ Goes(r, "failed")
    /\ UNCHANGED <<commit, bundle, existing, gitHubVars, shown>>

\* twine upload sends the missing files one after the other.  A file that is
\* there already is accepted if it is the same.
Upload(r, p) ==
    /\ pc[r] = "upload"
    /\ p \in missing[r] \ {Crate}
    /\ registry[p] \in {None, bundle[r]}
    /\ registry' = [registry EXCEPT ![p] = bundle[r]]
    /\ missing' = [missing EXCEPT ![r] = @ \ {p}]
    /\ pc' \in {pc, [pc EXCEPT ![r] = "failed"]}
    /\ UNCHANGED <<commit, bundle, existing, gitHubVars, shown>>

UploadDone(r) ==
    /\ pc[r] = "upload"
    /\ missing[r] = {}
    /\ Goes(r, "poll")
    /\ UNCHANGED <<commit, bundle, existing, missing, gitHubVars,
                   registryVars>>

\* Mutant: only the crate is looked for.
SeesCrate == Crate \in shown

SeesAll == shown = Packages

\* One of the twelve looks at the registries finds everything.
Poll(r) ==
    /\ pc[r] = "poll"
    /\ SeesAll
    /\ RegistriesAgree(r)
    /\ Goes(r, "read")
    /\ UNCHANGED <<commit, bundle, existing, missing, gitHubVars,
                   registryVars>>

ReadNotes(r) ==
    /\ pc[r] = "read"
    /\ TagMatches(r)
    /\ Goes(r, "edit")
    /\ UNCHANGED <<commit, bundle, existing, missing, gitHubVars,
                   registryVars>>

\* The notes are written back with the status block of this run.
EditNotes(r) ==
    /\ pc[r] = "edit"
    /\ notes' = r
    /\ \/ Goes(r, "done")
       \/ Goes(r, "failed")
    /\ UNCHANGED <<commit, bundle, existing, missing, tag, asset,
                   registryVars>>

\* A check or a command fails, the job times out, the runner dies.
Fail(r) ==
    /\ pc[r] \in Steps
    /\ Goes(r, "failed")
    /\ UNCHANGED <<commit, bundle, existing, missing, gitHubVars,
                   registryVars>>

Succeeds(r) ==
    \/ Prepare(r) \/ Check(r) \/ Compare(r) \/ AttachDone(r)
    \/ (\E f \in Files : Attach(r, f))
    \/ Package(r) \/ PublishCrate(r)
    \/ (\E p \in Python : Upload(r, p))
    \/ UploadDone(r) \/ Poll(r) \/ ReadNotes(r) \/ EditNotes(r)
-----------------------------------------------------------------------------
(* The others.                                                             *)

\* A registry shows what it has taken, sooner or later.
Show(p) ==
    /\ registry[p] # None
    /\ p \notin shown
    /\ shown' = shown \union {p}
    /\ UNCHANGED <<runVars, gitHubVars, registry>>

MoveTag ==
    /\ \E c \in Commits \ {tag} : tag' = c
    /\ UNCHANGED <<runVars, asset, notes, registryVars>>

Next ==
    \/ \E r \in Runs : Validate(r) \/ Publish(r) \/ Succeeds(r) \/ Fail(r)
    \/ \E p \in Packages : Show(p)
    \/ MoveTag

Spec == Init /\ [][Next]_vars

\* The maintainer starts every run, and a failed publication again as often as
\* it takes; every job ends (timeout-minutes) and registries show what they
\* have.
Fairness ==
    /\ \A r \in Runs :
        /\ SF_vars(Validate(r))
        /\ SF_vars(Publish(r))
        /\ WF_vars(Succeeds(r) \/ Fail(r))
    /\ \A p \in Packages : WF_vars(Show(p))

FairSpec == Spec /\ Fairness
-----------------------------------------------------------------------------
(* Properties.                                                             *)

\* "Registry checksums match the tested release assets": whichever runs have
\* failed half-way or were repeated, and whatever was published before, a
\* package and the asset of its name have the same bytes.
OneBundle ==
    \A p \in Packages :
        asset[p] # None /\ registry[p] # None => Same(p, asset[p], registry[p])

\* "All files are attached before either registry upload": what a run has
\* uploaded can be found again, by the next run, with its report.
AttachedFirst ==
    (\E p \in Packages : registry[p] \notin {None, Hand}) =>
        /\ Attached = Files
        /\ \E b \in Runs : \A f \in Files : Same(f, asset[f], b)

\* "The status block is written only after both registries expose the expected
\* checksums": if the notes say that a run has published, both registries show
\* packages of the commit that run was started for.
NotesTruthful ==
    notes # None =>
        /\ shown = Packages
        /\ \A p \in Packages : Same(p, registry[p], bundle[notes])
        /\ commit[bundle[notes]] = commit[notes]

\* No half of the release is ever left over: whatever has failed before, if
\* from some time on a step only fails when it cannot succeed, the release is
\* published in the end, although some runs never can.
Completes ==
    \A c \in Commits :
        /\ \A p \in Packages : registry[p] = None
        /\ [](tag = c)
        /\ <>[][\A r \in Runs : Fail(r) => ~ENABLED Succeeds(r)]_vars
        => <>(notes # None)
=============================================================================
