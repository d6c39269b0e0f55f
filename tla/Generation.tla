------------------------------ MODULE Generation ------------------------------
(***************************************************************************)
(* Report generation (generation.py, GenerationService.start, cancel and   *)
(* artifact).  A build runs in two transactions with the work of the       *)
(* bridge, which holds no lock, between them:                              *)
(*                                                                         *)
(*   - the first checks the contract and the design under the case lock    *)
(*     and commits a RUNNING attempt;                                      *)
(*   - the second locks the attempt, the caller, the company and the case, *)
(*     checks everything again, writes the bytes to the artifact store and *)
(*     commits the artifact row with the attempt's success.                *)
(*                                                                         *)
(* The second transaction sees the attempt and the case as the session's   *)
(* identity map kept them (see Designs): the attempt always looks RUNNING  *)
(* to it, and only the trigger of the database refuses to change one that  *)
(* was cancelled meanwhile.                                                *)
(*                                                                         *)
(* The digest of an attempt's input is a function of its design, which     *)
(* fixes the contract, the request, the evidence and the settings.         *)
(***************************************************************************)
EXTENDS Designs

CONSTANTS
    Workers,         \* requests that may be building at once
    BuildCommands,   \* command keys of builds
    MaxAttempts,     \* bound: generation attempts of the case
    DatabaseMayFail  \* whether a commit or the artifact store's delete may fail

ASSUME GenerationAssumption ==
    /\ MaxAttempts \in Nat
    /\ DatabaseMayFail \in BOOLEAN

VARIABLES
    attempts,   \* generation_attempts rows: what is fixed at creation
    status,     \* their status
    artifacts,  \* the attempts that have a generated_artifacts row
    stored,     \* the attempts whose bytes are in the artifact store
    working,    \* phase of each build request
    job         \* the attempt it works on, 0 if none

generationVars == <<attempts, status, artifacts, stored, working, job>>
allGenerationVars == <<allDesignVars, generationVars>>

AttemptId == 1 .. MaxAttempts
\* The rows of generated_artifacts, one for an attempt, are named by it.
Artifact == AttemptId
AttemptStatus == {"NONE", "RUNNING", "SUCCEEDED", "FAILED", "CANCELLED"}
Mode == {"BUILD", "RETRY", "REGENERATE"}
WorkPhase == {"idle", "generating", "written", "failing", "stopped"}

\* source: retry_of_attempt_id or supersedes_attempt_id, 0 for null.
Attempt == [creator: Members, command: BuildCommands, mode: Mode,
            design: DesignId, source: AttemptId \cup {0}]

GenerationTypeOK ==
    /\ attempts \in Seq(Attempt)
    /\ Len(attempts) <= MaxAttempts
    /\ status \in [AttemptId -> AttemptStatus]
    /\ artifacts \subseteq Artifact
    /\ stored \subseteq AttemptId
    /\ working \in [Workers -> WorkPhase]
    /\ job \in [Workers -> AttemptId \cup {0}]

GenerationInit ==
    /\ attempts = <<>>
    /\ status = [a \in AttemptId |-> "NONE"]
    /\ artifacts = {}
    /\ stored = {}
    /\ working = [w \in Workers |-> "idle"]
    /\ job = [w \in Workers |-> 0]

-----------------------------------------------------------------------------
(* What the queries on the attempts return, and what is written.            *)

\* The attempts over the same input.
EquivalentAttempts(d) == {a \in 1 .. Len(attempts) : attempts[a].design = d}

NoActiveAttempt == \A a \in AttemptId : status[a] # "RUNNING"

\* A member's command key has no attempt yet.
IsNewBuild(m, k) ==
    \A a \in 1 .. Len(attempts) : ~(attempts[a].creator = m /\ attempts[a].command = k)

\* The next attempt of the case, which the same transaction sets running.
CreateGenerationAttempt(m, k, mode, d, source) ==
    /\ Len(attempts) < MaxAttempts
    /\ attempts' = Append(attempts,
         [creator |-> m, command |-> k, mode |-> mode, design |-> d, source |-> source])
    /\ status' = [status EXCEPT ![Len(attempts) + 1] = "RUNNING"]

AddGeneratedArtifact(a) == artifacts' = artifacts \cup {a}

\* The store publishes the bytes of an attempt under a key of their own, all
\* or none of them ...
WriteBytes(a) == stored' = stored \cup {a}

\* ... and deletes them if nothing was committed, unless that fails.
CleanUp(a) == stored' = stored \ {a} \/ (DatabaseMayFail /\ stored' = stored)

-----------------------------------------------------------------------------
(* Wrong variants of the definitions below, each the effect of a plausible  *)
(* mistake in the code; no specification uses them.                         *)

\* A retry of an attempt that has not ended without an artifact.
ResolvesToAnyAttempt(mode, d, source) ==
    CASE mode = "BUILD"      -> /\ \A a \in 1 .. Len(attempts) : attempts[a].design # d
                                /\ source = 0
      [] mode = "RETRY"      -> /\ source \in 1 .. Len(attempts)
                                /\ attempts[source].design = d
      [] mode = "REGENERATE" -> IF attempts = <<>> THEN source = 0
                                ELSE source \in 1 .. Len(attempts)

\* The second check reads the people it depends on without locking them.
StoreUnfenced(w) ==
    LET d == attempts[job[w]].design IN
    /\ working[w] = "generating"
    /\ CaseFree
    /\ StillBuildable(attempts[job[w]].creator, designs[d].binding)
    /\ designs[d].source = 0 => CanEdit(designs[d].reviewer)
    /\ stored' = stored \cup {job[w]}
    /\ held' = {"case"}
    /\ working' = [working EXCEPT ![w] = "written"]
    /\ UNCHANGED <<caseVars, settings, accessVars, designVars,
                   attempts, status, artifacts, job>>

\* The commit stands inside the inner try, so that a lost acknowledgement
\* deletes the bytes of a durable row.
CommitInsideTry(w) ==
    /\ DatabaseMayFail
    /\ working[w] = "written"
    /\ status[job[w]] = "RUNNING"
    /\ status' = [status EXCEPT ![job[w]] = "SUCCEEDED"]
    /\ artifacts' = artifacts \cup {job[w]}
    /\ stored' = stored \ {job[w]}
    /\ held' = {}
    /\ working' = [working EXCEPT ![w] = "failing"]
    /\ UNCHANGED <<caseVars, settings, accessVars, designVars, attempts, job>>

\* A failed bridge is answered without ending the attempt.
FailSilently(w) ==
    /\ working[w] = "generating"
    /\ working' = [working EXCEPT ![w] = "idle"]
    /\ job' = [job EXCEPT ![w] = 0]
    /\ UNCHANGED <<allDesignVars, attempts, status, artifacts, stored>>

\* The failure is recorded over whatever the attempt became.
RecordFailureBlindly(w) ==
    /\ working[w] = "failing"
    /\ status' = [status EXCEPT ![job[w]] = "FAILED"]
    /\ working' = [working EXCEPT ![w] = "idle"]
    /\ job' = [job EXCEPT ![w] = 0]
    /\ UNCHANGED <<allDesignVars, attempts, artifacts, stored>>

\* A cancelled attempt is put back in the queue.
CancelToPending(a) ==
    /\ SomeoneAdmitted
    /\ \A w \in Workers : ~(working[w] = "written" /\ job[w] = a)
    /\ status[a] = "RUNNING"
    /\ status' = [status EXCEPT ![a] = "PENDING"]
    /\ UNCHANGED <<allDesignVars, attempts, artifacts, stored, working, job>>

-----------------------------------------------------------------------------
\* The reviewer of an expert's design must still be able to edit the case;
\* an automatic design has no reviewer.
ReviewerStands(d) == designs[d].source = 0 => CanEdit(designs[d].reviewer)

\* A design that may be built by a request whose binding is b.
EligibleDesign(d, b) == designs[d].binding = b /\ ReviewerStands(d)

\* The attempts a command of mode may name, and the one it resolves to.
ResolvesTo(mode, d, source) ==
    CASE mode = "BUILD"      -> EquivalentAttempts(d) = {} /\ source = 0
      [] mode = "RETRY"      -> /\ source \in EquivalentAttempts(d)
                                /\ status[source] \in {"FAILED", "CANCELLED"}
      [] mode = "REGENERATE" -> IF attempts = <<>> THEN source = 0
                                ELSE source \in 1 .. Len(attempts)

\* The first transaction of start.  A command that was used before, or a
\* BUILD of an input that has an attempt, is answered with that attempt.
Start(w, m, k, mode, d, source, s) ==
    /\ working[w] = "idle"
    /\ CaseFree
    /\ Snapshot(s)
    /\ Admitted(m)
    /\ BuildableAs(designs[d].binding.contract, version, context, s)
    /\ EligibleDesign(d, CurrentBinding(s))
    /\ IsNewBuild(m, k)
    /\ ResolvesTo(mode, d, source)
    /\ NoActiveAttempt
    /\ CreateGenerationAttempt(m, k, mode, d, source)
    /\ working' = [working EXCEPT ![w] = "generating"]
    /\ job' = [job EXCEPT ![w] = Len(attempts) + 1]
    /\ UNCHANGED <<allDesignVars, artifacts, stored>>

-----------------------------------------------------------------------------
\* The members whose rows the second transaction locks.
Fenced(a) ==
    LET d == designs[attempts[a].design] IN
    {attempts[a].creator} \cup {m \in Members : d.source = 0 /\ d.reviewer = m}

\* The second transaction until the bytes are stored and read back: it
\* holds its row locks from here on.
StoreArtifact(w) ==
    LET a == job[w]
        d == attempts[a].design IN
    /\ working[w] = "generating"
    /\ CaseFree
    /\ StillBuildable(attempts[a].creator, designs[d].binding)
    /\ ReviewerStands(d)
    /\ WriteBytes(a)
    /\ held' = {"case", "company"} \cup Fenced(a)
    /\ working' = [working EXCEPT ![w] = "written"]
    /\ UNCHANGED <<caseVars, settings, accessVars, designVars,
                   attempts, status, artifacts, job>>

\* The session of worker w ends its transaction and goes to the except branch.
RollBack(w) ==
    /\ held' = {}
    /\ working' = [working EXCEPT ![w] = "failing"]
    /\ UNCHANGED <<caseVars, settings, accessVars, designVars, attempts, job>>

\* What the second transaction writes.  The trigger lets only a RUNNING
\* attempt become SUCCEEDED.
WriteSuccess(w) ==
    /\ working[w] = "written"
    /\ status[job[w]] = "RUNNING"
    /\ status' = [status EXCEPT ![job[w]] = "SUCCEEDED"]
    /\ AddGeneratedArtifact(job[w])
    /\ held' = {}

CommitSuccess(w) ==
    /\ WriteSuccess(w)
    /\ working' = [working EXCEPT ![w] = "idle"]
    /\ job' = [job EXCEPT ![w] = 0]
    /\ UNCHANGED <<caseVars, settings, accessVars, designVars, attempts, stored>>

\* The commit takes effect but its acknowledgement is lost.
CommitUnacknowledged(w) ==
    /\ DatabaseMayFail
    /\ WriteSuccess(w)
    /\ working' = [working EXCEPT ![w] = "failing"]
    /\ UNCHANGED <<caseVars, settings, accessVars, designVars, attempts, stored, job>>

\* The commit is refused by the trigger, or is lost.  It is past the inner
\* try, so the bytes stay.
CommitFails(w) ==
    /\ working[w] = "written"
    /\ DatabaseMayFail \/ status[job[w]] # "RUNNING"
    /\ RollBack(w)
    /\ UNCHANGED <<status, artifacts, stored>>

\* The bytes read back differ, or the artifact row is refused: the inner
\* except branch rolls back and deletes the bytes, if the store lets it.
DiscardArtifact(w) ==
    /\ working[w] = "written"
    /\ CleanUp(job[w])
    /\ RollBack(w)
    /\ UNCHANGED <<status, artifacts>>

\* The bridge's process is killed at its deadline, stops, or answers without
\* a validated candidate.
BridgeFails(w) ==
    /\ working[w] = "generating"
    /\ working' = [working EXCEPT ![w] = "failing"]
    /\ UNCHANGED <<allDesignVars, attempts, status, artifacts, stored, job>>

\* The second check, under the lock of the case, refuses, or the store
\* refuses the bytes.
BuildFails(w) ==
    /\ working[w] = "generating"
    /\ CaseFree
    /\ working' = [working EXCEPT ![w] = "failing"]
    /\ UNCHANGED <<allDesignVars, attempts, status, artifacts, stored, job>>

\* The except branch reads the attempt afresh and ends it if it still runs.
RecordFailure(w) ==
    /\ working[w] = "failing"
    /\ status' = IF status[job[w]] = "RUNNING"
                 THEN [status EXCEPT ![job[w]] = "FAILED"] ELSE status
    /\ working' = [working EXCEPT ![w] = "idle"]
    /\ job' = [job EXCEPT ![w] = 0]
    /\ UNCHANGED <<allDesignVars, attempts, artifacts, stored>>

\* The process stops, and the database rolls its transaction back, or the
\* failure cannot be recorded: nothing works on the attempt any more.
Abandon(w) ==
    /\ working[w] \in {"generating", "written", "failing"}
    /\ MayCrash \/ (DatabaseMayFail /\ working[w] = "failing")
    /\ held' = IF working[w] = "written" THEN {} ELSE held
    /\ working' = [working EXCEPT ![w] = "stopped"]
    /\ UNCHANGED <<caseVars, settings, accessVars, designVars,
                   attempts, status, artifacts, stored, job>>

\* An editor cancels a running attempt, unless its worker has locked it.
Cancel(a) ==
    /\ SomeoneAdmitted
    /\ \A w \in Workers : ~(working[w] = "written" /\ job[w] = a)
    /\ status[a] = "RUNNING"
    /\ status' = [status EXCEPT ![a] = "CANCELLED"]
    /\ UNCHANGED <<allDesignVars, attempts, artifacts, stored, working, job>>

WorkerStep(w) ==
    \/ StoreArtifact(w)
    \/ CommitSuccess(w)
    \/ CommitUnacknowledged(w)
    \/ CommitFails(w)
    \/ DiscardArtifact(w)
    \/ BridgeFails(w)
    \/ BuildFails(w)
    \/ RecordFailure(w)

\* The routes that start and cancel a build.
GenerationHandlers ==
    \/ \E w \in Workers, m \in Members, k \in BuildCommands, mode \in Mode,
          d \in 1 .. Len(designs), source \in AttemptId \cup {0},
          s \in SettingsVersions : Start(w, m, k, mode, d, source, s)
    \/ \E a \in AttemptId : Cancel(a)

GenerationNext ==
    \/ DesignNext /\ UNCHANGED generationVars
    \/ GenerationHandlers
    \/ \E w \in Workers : WorkerStep(w)
    \/ \E w \in Workers : Abandon(w)

GenerationSpec ==
    CaseInit /\ DesignInit /\ GenerationInit /\ [][GenerationNext]_allGenerationVars

\* The bridge process has a deadline and every later statement returns, so a
\* build that was started goes on.
GenerationFairness == \A w \in Workers : WF_allGenerationVars(WorkerStep(w))

FairGenerationSpec == GenerationSpec /\ GenerationFairness
-----------------------------------------------------------------------------
\* The store still returns the bytes of the row.
ReadVerified(a) == a \in stored

\* What artifact() serves: a succeeded attempt with its row and its bytes.
Downloadable == {a \in artifacts : status[a] = "SUCCEEDED" /\ ReadVerified(a)}

Lifecycle == INSTANCE AttemptLifecycle WITH downloadable <- Downloadable

(***************************************************************************)
(* The workers, their lost commits, the cancellations and the database's   *)
(* trigger together keep the promise of AttemptLifecycle: one attempt at a *)
(* time, each ended once, and exactly the succeeded ones downloadable.     *)
(***************************************************************************)
ImplementsLifecycle == Lifecycle!LifecycleSpec

(***************************************************************************)
(* A succeeded attempt has its artifact row and its bytes, and no other    *)
(* has a row: the cleanup of uncommitted bytes never deletes those of a    *)
(* commit that took effect unseen.                                         *)
(***************************************************************************)
ArtifactsAreBacked ==
    /\ artifacts \subseteq stored
    /\ \A a \in AttemptId : a \in artifacts <=> status[a] = "SUCCEEDED"

\* The people an attempt depends on may edit, and the contract it builds is
\* still the one of the interpretation created last, over the same evidence
\* and analysed under settings of the same material as those of the build.
Authorized(a) ==
    LET d == attempts[a].design IN
    /\ CanEdit(attempts[a].creator)
    /\ ReviewerStands(d)
    /\ latest = designs[d].binding.contract
    /\ evidence[designs[d].binding.request] = designs[d].binding.evidence
    /\ \E i \in AtContext(latest) : MateriallyCurrent(i, designs[d].binding.settings)

(***************************************************************************)
(* An attempt succeeds only at an instant at which its creator and its     *)
(* design's reviewer may still edit the case and its input is what the     *)
(* database holds, although all of that was tested before the bytes were   *)
(* written: the locks of the second transaction keep it true.              *)
(***************************************************************************)
SuccessIsAuthorized ==
    [][\A a \in AttemptId :
         status[a] # "SUCCEEDED" /\ status'[a] = "SUCCEEDED" => Authorized(a)]_allGenerationVars

(***************************************************************************)
(* The history of a case is well founded: a retry names an earlier attempt *)
(* of the same input that ended without an artifact, and a design is built *)
(* by a plain BUILD once, before any retry of it.                          *)
(***************************************************************************)
HistoryIsWellFounded ==
    \A a \in 1 .. Len(attempts) :
      /\ attempts[a].source < a
      /\ attempts[a].mode = "RETRY" =>
           /\ attempts[a].source > 0
           /\ attempts[attempts[a].source].design = attempts[a].design
           /\ status[attempts[a].source] \in {"FAILED", "CANCELLED"}
      /\ attempts[a].mode = "BUILD" =>
           \A b \in 1 .. a - 1 : attempts[b].design # attempts[a].design

(***************************************************************************)
(* A running attempt ends, so that the case does not stay closed to        *)
(* further builds, unless its process stops or cannot record the failure.  *)
(***************************************************************************)
BuildsEnd ==
    \A a \in AttemptId :
      status[a] = "RUNNING" ~>
        \/ status[a] # "RUNNING"
        \/ \E w \in Workers : working[w] = "stopped" /\ job[w] = a
=============================================================================
