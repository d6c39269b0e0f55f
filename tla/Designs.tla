------------------------------ MODULE Designs ------------------------------
(***************************************************************************)
(* The report designs of a case.  An expert submits one in a single        *)
(* transaction; the automatic one is proposed by a model in two            *)
(* transactions with the provider call, which holds no lock, between them. *)
(*                                                                         *)
(* The second transaction reads the case row through the same ORM session  *)
(* as the first, and the session's identity map still holds the row with   *)
(* the attributes loaded then: SELECT ... FOR UPDATE without               *)
(* populate_existing waits for the lock but does not refresh them.  So the *)
(* second check sees the old version counters beside fresh evidence,       *)
(* interpretations and grants.                                             *)
(***************************************************************************)
EXTENDS ReportingCase, Sequences

CONSTANTS
    Proposers,          \* requests that may be proposing a design at once
    DesignCommands,     \* command keys of design proposals
    MaxDesigns,         \* bound: designs of the case
    MaxDesignAttempts,  \* bound: automatic design attempts of the case
    MayCrash            \* whether a server process may stop between two steps

ASSUME DesignAssumption ==
    /\ MaxDesigns \in Nat
    /\ MaxDesignAttempts \in Nat
    /\ MayCrash \in BOOLEAN

VARIABLES
    designs,         \* reviewed_report_designs rows, which are immutable
    designAttempts,  \* automatic_design_attempts rows: what is fixed at creation
    designStatus,    \* their status
    proposing,       \* phase of each proposal request
    proposal         \* the attempt it works on, 0 if none

designVars == <<designs, designAttempts, designStatus, proposing, proposal>>

DesignId == 1 .. MaxDesigns
DesignAttemptId == 1 .. MaxDesignAttempts
DesignStatus == {"NONE", "RUNNING", "ELIGIBLE", "FAILED"}
ProposalPhase == {"idle", "calling", "failing", "stopped"}

\* What a design or an attempt is bound to: the binding of _current_payload.
\* The context version is the one of the contract's interpretation.
Binding == [contract: Contexts, request: Versions, evidence: SUBSET Items,
            settings: SettingsVersions]

\* reviewer: the expert, or the member who asked for the automatic design.
\* source: the automatic attempt, 0 for a design an expert submitted.
Design == [binding: Binding, reviewer: Members, source: DesignAttemptId \cup {0}]
DesignAttempt == [binding: Binding, creator: Members, command: DesignCommands]

DesignTypeOK ==
    /\ designs \in Seq(Design)
    /\ Len(designs) <= MaxDesigns
    /\ designAttempts \in Seq(DesignAttempt)
    /\ Len(designAttempts) <= MaxDesignAttempts
    /\ designStatus \in [DesignAttemptId -> DesignStatus]
    /\ proposing \in [Proposers -> ProposalPhase]
    /\ proposal \in [Proposers -> DesignAttemptId \cup {0}]

DesignInit ==
    /\ designs = <<>>
    /\ designAttempts = <<>>
    /\ designStatus = [a \in DesignAttemptId |-> "NONE"]
    /\ proposing = [p \in Proposers |-> "idle"]
    /\ proposal = [p \in Proposers |-> 0]

\* The binding of a request that reads the case row now.
CurrentBinding(s) ==
    [contract |-> latest, request |-> version, evidence |-> evidence[version],
     settings |-> s]

\* A member's command key has no attempt yet.
IsNewProposal(m, k) ==
    \A a \in 1 .. Len(designAttempts) :
      ~(designAttempts[a].creator = m /\ designAttempts[a].command = k)

\* A row of each table: the designs of an expert have no source.
AddReviewedDesign(b, m, a) ==
    /\ Len(designs) < MaxDesigns
    /\ designs' = Append(designs, [binding |-> b, reviewer |-> m, source |-> a])

CreateDesignAttempt(b, m, k) ==
    /\ Len(designAttempts) < MaxDesignAttempts
    /\ designAttempts' = Append(designAttempts, [binding |-> b, creator |-> m, command |-> k])
    /\ designStatus' = [designStatus EXCEPT ![Len(designAttempts) + 1] = "RUNNING"]

-----------------------------------------------------------------------------
(* Wrong variants of RecordProposalFailure; no specification uses them.     *)

\* A status the schema does not have.
RecordUnknownStatus(p) ==
    /\ proposing[p] = "failing"
    /\ designStatus' = [designStatus EXCEPT ![proposal[p]] = "CANCELLED"]
    /\ proposing' = [proposing EXCEPT ![p] = "idle"]
    /\ proposal' = [proposal EXCEPT ![p] = 0]
    /\ UNCHANGED <<allCaseVars, designs, designAttempts>>

\* The proposal is tried again under the same attempt.
RetryProposal(p) ==
    /\ proposing[p] = "failing"
    /\ proposing' = [proposing EXCEPT ![p] = "calling"]
    /\ UNCHANGED <<allCaseVars, designs, designAttempts, designStatus, proposal>>

\* The failure is answered but not recorded.
ForgetFailure(p) ==
    /\ proposing[p] = "failing"
    /\ proposing' = [proposing EXCEPT ![p] = "idle"]
    /\ proposal' = [proposal EXCEPT ![p] = 0]
    /\ UNCHANGED <<allCaseVars, designs, designAttempts, designStatus>>

-----------------------------------------------------------------------------
\* intake_reviewed_design: an expert binds a design to the current contract.
\* The access is tested here under the locks of the case and of the member.
IntakeReviewedDesign(m, s) ==
    /\ CaseFree
    /\ Snapshot(s)
    /\ m \in Experts
    /\ CanEdit(m)
    /\ BuildableAs(latest, version, context, s)
    /\ AddReviewedDesign(CurrentBinding(s), m, 0)
    /\ UNCHANGED <<allCaseVars, designAttempts, designStatus, proposing, proposal>>

\* propose_automatic_design, to its first commit.  A command key that has an
\* attempt is answered with it, or refused, and starts nothing.  The access
\* is tested under lock here too.
BeginProposal(p, m, k, s) ==
    /\ proposing[p] = "idle"
    /\ CaseFree
    /\ Snapshot(s)
    /\ CanEdit(m)
    /\ BuildableAs(latest, version, context, s)
    /\ IsNewProposal(m, k)
    /\ CreateDesignAttempt(CurrentBinding(s), m, k)
    /\ proposing' = [proposing EXCEPT ![p] = "calling"]
    /\ proposal' = [proposal EXCEPT ![p] = Len(designAttempts) + 1]
    /\ UNCHANGED <<allCaseVars, designs>>

(***************************************************************************)
(* The second check of a session that began with binding b for member m:   *)
(* the member may still edit, and _current_payload, on the case row as it  *)
(* was read in the first transaction, still gives the digests of b.        *)
(***************************************************************************)
StillBuildable(m, b) ==
    /\ CanEdit(m)
    /\ BuildableAs(b.contract, b.request, b.contract, b.settings)
    /\ evidence[b.request] = b.evidence

\* What the second transaction of proposal p writes.
WriteEligible(p) ==
    LET a == proposal[p] IN
    /\ AddReviewedDesign(designAttempts[a].binding, designAttempts[a].creator, a)
    /\ designStatus' = [designStatus EXCEPT ![a] = "ELIGIBLE"]

CanFinish(p) ==
    /\ proposing[p] = "calling"
    /\ CaseFree
    /\ StillBuildable(designAttempts[proposal[p]].creator,
                      designAttempts[proposal[p]].binding)

\* The provider answers with a valid candidate, the second check passes and
\* the commit is acknowledged.
FinishProposal(p) ==
    /\ CanFinish(p)
    /\ WriteEligible(p)
    /\ proposing' = [proposing EXCEPT ![p] = "idle"]
    /\ proposal' = [proposal EXCEPT ![p] = 0]
    /\ UNCHANGED <<allCaseVars, designAttempts>>

\* The commit takes effect but its acknowledgement is lost: the session sees
\* an exception.
FinishUnacknowledged(p) ==
    /\ CanFinish(p)
    /\ WriteEligible(p)
    /\ proposing' = [proposing EXCEPT ![p] = "failing"]
    /\ UNCHANGED <<allCaseVars, designAttempts, proposal>>

\* The provider or the validation fails, the second check refuses, or the
\* second transaction is rolled back.
ProposalFails(p) ==
    /\ proposing[p] = "calling"
    /\ proposing' = [proposing EXCEPT ![p] = "failing"]
    /\ UNCHANGED <<allCaseVars, designs, designAttempts, designStatus, proposal>>

\* The except branch reads the attempt again by its command and marks it
\* FAILED, whatever its status is.
RecordProposalFailure(p) ==
    /\ proposing[p] = "failing"
    /\ designStatus' = [designStatus EXCEPT ![proposal[p]] = "FAILED"]
    /\ proposing' = [proposing EXCEPT ![p] = "idle"]
    /\ proposal' = [proposal EXCEPT ![p] = 0]
    /\ UNCHANGED <<allCaseVars, designs, designAttempts>>

\* The process stops, or the database refuses to record the failure: nothing
\* works on the attempt any more.
AbandonProposal(p) ==
    /\ MayCrash
    /\ proposing[p] \in {"calling", "failing"}
    /\ proposing' = [proposing EXCEPT ![p] = "stopped"]
    /\ UNCHANGED <<allCaseVars, designs, designAttempts, designStatus, proposal>>

\* The routes that ask for a design.
DesignHandlers ==
    \E m \in Members, s \in SettingsVersions :
      \/ IntakeReviewedDesign(m, s)
      \/ \E p \in Proposers, k \in DesignCommands : BeginProposal(p, m, k, s)

DesignNext ==
    \/ CaseNext /\ UNCHANGED designVars
    \/ DesignHandlers
    \/ \E p \in Proposers : FinishProposal(p)
    \/ \E p \in Proposers : FinishUnacknowledged(p)
    \/ \E p \in Proposers : ProposalFails(p)
    \/ \E p \in Proposers : RecordProposalFailure(p)
    \/ \E p \in Proposers : AbandonProposal(p)

allDesignVars == <<allCaseVars, designVars>>

DesignSpec == CaseInit /\ DesignInit /\ [][DesignNext]_allDesignVars

\* A request that has called the provider returns: the call has a timeout,
\* and so has every statement after it.
ProposalFairness ==
    /\ \A p \in Proposers : WF_allDesignVars(ProposalFails(p))
    /\ \A p \in Proposers : WF_allDesignVars(RecordProposalFailure(p))

FairDesignSpec == DesignSpec /\ ProposalFairness
-----------------------------------------------------------------------------
(***************************************************************************)
(* A design is made for an accepted contract, for exactly the request and  *)
(* the evidence that its interpretation analysed, and under settings with  *)
(* the same material content: neither a file or an image added after the   *)
(* analysis nor a material change of the settings slips under a design.    *)
(***************************************************************************)
DesignsMatchContracts ==
    \A d \in 1 .. Len(designs) :
      LET b == designs[d].binding IN
      /\ b.contract \in confirmed
      /\ \E i \in interps :
           /\ i.context = b.contract
           /\ i.request = b.request
           /\ i.evidence = b.evidence
         /\ Material[i.settings] = Material[b.settings]

(***************************************************************************)
(* An automatic attempt has at most one design, bound as the attempt is    *)
(* and credited to its creator, and has one if it is ELIGIBLE; a running   *)
(* attempt has none, so nothing can be built from it early.                *)
(***************************************************************************)
AttemptsOwnTheirDesigns ==
    \A a \in 1 .. Len(designAttempts) :
      LET own == {d \in 1 .. Len(designs) : designs[d].source = a} IN
      /\ Cardinality(own) <= 1
      /\ \A d \in own : /\ designs[d].binding = designAttempts[a].binding
                        /\ designs[d].reviewer = designAttempts[a].creator
      /\ designStatus[a] = "ELIGIBLE" => own # {}
      /\ designStatus[a] = "RUNNING" => own = {}

(***************************************************************************)
(* Every automatic attempt ends, whatever happens to the case, the grants  *)
(* and the members during the provider call, unless its process stops.     *)
(***************************************************************************)
ProposalsEnd ==
    \A a \in DesignAttemptId :
      designStatus[a] = "RUNNING" ~>
        \/ designStatus[a] # "RUNNING"
        \/ \E p \in Proposers : proposing[p] = "stopped" /\ proposal[p] = a
=============================================================================
