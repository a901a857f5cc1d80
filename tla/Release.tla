------------------------------- MODULE Release -------------------------------
(***************************************************************************)
(* The release of a tagged workspace: xtask release-check, then the publish *)
(* job of .github/workflows/release.yml, which uploads the crates one by   *)
(* one and reads each back before it goes on.                              *)
(*                                                                         *)
(* The registry is external: an upload may be accepted although cargo      *)
(* publish reports a failure, an accepted crate is served only after a     *)
(* while, a read may fail at any time, and an accepted version is there    *)
(* for good.  The job may be killed anywhere and run again; the second run *)
(* need not package the same bytes.                                        *)
(***************************************************************************)
EXTENDS Naturals, Sequences, FiniteSets, SequencesExt

CONSTANTS
    RELEASE_ORDER,   \* the crates to publish, in this order
    Workspaces,      \* the workspaces a tag may point to
    Tag,             \* the tag's version, passed as --version
    Stable,          \* the versions that do not start with "0."
    Checksums,       \* what packaging a crate may produce
    MaxAttempts,     \* attempts of either retry loop (30)
    MaxJobs          \* bound: how often the job is run

ASSUME ReleaseAssumption == MaxAttempts \in Nat \ {0} /\ MaxJobs \in Nat \ {0}

\* RELEASE_ORDER names some crates, each once.
ASSUME OrderAssumption ==
    /\ RELEASE_ORDER \in Seq(ToSet(RELEASE_ORDER)) \ {<< >>}
    /\ IsInjective(RELEASE_ORDER)

VARIABLES
    workspace,   \* cargo metadata of the tagged source
    job,         \* where the publish job is, see JobStates
    at,          \* the crate of RELEASE_ORDER it works on
    attempt,     \* attempts so far in the running loop
    jobs,        \* how many jobs were begun
    artifact,    \* checksums of the crates this job packages
    accepted,    \* the registry: accepted crates and their checksums
    served       \* the accepted crates that reads can see

registry == <<accepted, served>>
vars == <<workspace, job, at, attempt, jobs, artifact, registry>>

\* Packaging is package_until_ready, Looking the first readback, Publishing and
\* ReadingBack the retry loop, Verifying verify_checksum.
JobStates == {"None", "Packaging", "Looking", "Publishing", "ReadingBack", "Verifying",
              "Failed", "Succeeded"}

Crates == ToSet(RELEASE_ORDER)
Crate == RELEASE_ORDER[at]
Running == job \notin {"None", "Failed", "Succeeded"}

-----------------------------------------------------------------------------
(* release_check *)

Position(name) == CHOOSE i \in DOMAIN RELEASE_ORDER : RELEASE_ORDER[i] = name

\* Seeded defect: a path dependency may be anywhere in the release order.
OrderedDependencies_Anywhere(w) == \A e \in w.path_dependencies : e[1] # e[2]

\* Every path dependency on a released crate comes earlier; a dependency on
\* any other package is passed over.
OrderedDependencies(w) ==
    \A e \in w.path_dependencies :
        e[1] \in Crates /\ e[2] \in Crates => Position(e[2]) < Position(e[1])

\* The checks in the code's order end at the first failure; which one it was
\* is only printed.
ReleaseCheck(w) ==
    /\ w.publishable = Crates
    /\ LET version == w.version[RELEASE_ORDER[1]] IN
         /\ version \notin Stable
         /\ version = Tag
         /\ \A name \in Crates : w.version[name] = version /\ name \in w.documented
    /\ OrderedDependencies(w)
    /\ w.lockfile

-----------------------------------------------------------------------------
Init ==
    /\ workspace \in Workspaces
    /\ job = "None" /\ at = 1 /\ attempt = 0 /\ jobs = 0
    /\ artifact = [name \in Crates |-> CHOOSE c \in Checksums : TRUE]
    /\ accepted = [name \in {} |-> name] /\ served = {}

\* The job's steps up to publication.
BeginJob ==
    /\ ~Running /\ job # "Succeeded" /\ jobs < MaxJobs
    /\ jobs' = jobs + 1
    /\ artifact' \in {[name \in Crates |-> c] : c \in Checksums}
    /\ job' = IF ReleaseCheck(workspace) THEN "Packaging" ELSE "Failed"
    /\ at' = 1 /\ attempt' = 0
    /\ UNCHANGED <<workspace, registry>>

Dependencies(name) == {e[2] : e \in {d \in workspace.path_dependencies : d[1] = name}} \cap Crates

\* cargo package resolves the crate's dependencies from the registry.
PackageReady ==
    /\ job = "Packaging" /\ Dependencies(Crate) \subseteq served
    /\ job' = "Looking"
    /\ UNCHANGED <<workspace, at, attempt, jobs, artifact, registry>>

\* They are not served yet, or cargo package failed for another reason.
PackageRetries ==
    /\ job = "Packaging"
    /\ attempt' = attempt + 1
    /\ job' = IF attempt' = MaxAttempts THEN "Failed" ELSE "Packaging"
    /\ UNCHANGED <<workspace, at, jobs, artifact, registry>>

\* registry_json succeeded: the version is there.
ReadFinds ==
    /\ job \in {"Looking", "ReadingBack"} /\ Crate \in served
    /\ job' = "Verifying"
    /\ UNCHANGED <<workspace, at, attempt, jobs, artifact, registry>>

\* Not there, not yet there, or the read failed.
LookMisses ==
    /\ job = "Looking"
    /\ job' = "Publishing" /\ attempt' = 0
    /\ UNCHANGED <<workspace, at, jobs, artifact, registry>>

\* cargo publish, whether or not it reports what happened.
Publish ==
    /\ job = "Publishing"
    /\ job' = "ReadingBack" /\ attempt' = attempt + 1
    /\ \/ UNCHANGED accepted
       \/ /\ Crate \notin DOMAIN accepted
          /\ accepted' = [name \in DOMAIN accepted \cup {Crate} |->
                            IF name = Crate THEN artifact[Crate] ELSE accepted[name]]
    /\ UNCHANGED <<workspace, at, jobs, artifact, served>>

ReadBackMisses ==
    /\ job = "ReadingBack"
    /\ job' = IF attempt < MaxAttempts THEN "Publishing" ELSE "Failed"
    /\ UNCHANGED <<workspace, at, attempt, jobs, artifact, registry>>

\* Seeded defect: a version that is served counts as this job's.
Verified_AnyChecksum == Crate \in served

Verified == Crate \in served /\ accepted[Crate] = artifact[Crate]

\* The second read succeeded and the checksums agree: on to the next crate.
VerifyChecksum ==
    /\ job = "Verifying" /\ Verified
    /\ job' = IF at = Len(RELEASE_ORDER) THEN "Succeeded" ELSE "Packaging"
    /\ at' = IF at = Len(RELEASE_ORDER) THEN at ELSE at + 1
    /\ attempt' = 0
    /\ UNCHANGED <<workspace, jobs, artifact, registry>>

\* The checksums differ, the second read fails, or the job is killed.
FailJob ==
    /\ Running
    /\ job' = "Failed"
    /\ UNCHANGED <<workspace, at, attempt, jobs, artifact, registry>>

\* The registry begins to serve an accepted crate.
Serve(name) ==
    /\ name \in DOMAIN accepted \ served
    /\ served' = served \cup {name}
    /\ UNCHANGED <<workspace, job, at, attempt, jobs, artifact, accepted>>

-----------------------------------------------------------------------------
Loop ==
    \/ PackageReady \/ PackageRetries \/ ReadFinds \/ LookMisses \/ Publish \/ ReadBackMisses
    \/ VerifyChecksum

Next == BeginJob \/ Loop \/ FailJob \/ \E name \in Crates : Serve(name)

Spec == Init /\ [][Next]_vars

-----------------------------------------------------------------------------
(* Properties *)

\* "Immutable packages are published in dependency order": whenever the job
\* stops, every crate the registry accepted finds the crates it depends on
\* there, and the crate the job works on never waits for one that was not
\* uploaded, only for one that is not served yet.  Nothing is uploaded from a
\* workspace whose crates disagree in version, with the tag, or are stable
\* (release_check, publish_and_wait).
PublishedInOrder ==
    /\ \A name \in DOMAIN accepted : Dependencies(name) \subseteq DOMAIN accepted
    /\ Running => Dependencies(Crate) \subseteq DOMAIN accepted
    /\ DOMAIN accepted # {} =>
         \A name \in Crates : workspace.version[name] = Tag /\ Tag \notin Stable

\* A job succeeds only when the registry serves every crate of the release with
\* the bytes this job packaged, also when an earlier job uploaded some of them
\* and when uploads were reported as failures (publish_and_wait, verify_checksum).
SuccessIsServed ==
    job = "Succeeded" => Crates = served /\ accepted = artifact
=============================================================================
