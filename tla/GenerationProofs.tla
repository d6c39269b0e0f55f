--------------------------- MODULE GenerationProofs ---------------------------
(***************************************************************************)
(* Proofs about report designs and about builds.  Proposals and expert     *)
(* intakes keep the types of their rows, and every design is made for an   *)
(* accepted contract and for exactly the request and the evidence its      *)
(* interpretation analysed.  A succeeded attempt has its artifact and its  *)
(* bytes, and an attempt succeeds only while the people and the input it   *)
(* depends on stand as they were checked.                                  *)
(***************************************************************************)
EXTENDS Generation, ReportingCaseProofs

-----------------------------------------------------------------------------
(* Report designs.                                                          *)

\* A request at work on a proposal works on a row that was committed.
ProposalsHaveAttempts ==
    \A p \in Proposers :
      proposing[p] # "idle" => proposal[p] \in 1 .. Len(designAttempts)

\* A binding is of an accepted contract, of what its interpretation saw and
\* of settings that give the same analysis.
Grounded(b) ==
    /\ b.contract \in confirmed
    /\ \E i \in interps :
         /\ i.context = b.contract
         /\ i.request = b.request
         /\ i.evidence = b.evidence
         /\ Material[i.settings] = Material[b.settings]

\* The attempts are bound as well as the designs made from them will be.
AttemptsMatchContracts ==
    \A a \in 1 .. Len(designAttempts) : Grounded(designAttempts[a].binding)

DesignInvariant ==
    /\ CaseInvariant
    /\ DesignTypeOK
    /\ ProposalsHaveAttempts
    /\ AttemptsMatchContracts
    /\ DesignsMatchContracts

\* The database is empty of designs at first.
LEMMA DesignStart == CaseInit /\ DesignInit => DesignInvariant
<1> SUFFICES ASSUME CaseInit, DesignInit PROVE DesignInvariant
  OBVIOUS
<1>1. CaseInvariant
  BY CaseStart
<1>2. DesignTypeOK
  BY DesignAssumption
     DEF DesignInit, DesignTypeOK, DesignAttemptId, DesignStatus, ProposalPhase
<1>3. ProposalsHaveAttempts /\ AttemptsMatchContracts /\ DesignsMatchContracts
  BY DEF DesignInit, ProposalsHaveAttempts, AttemptsMatchContracts, DesignsMatchContracts
<1> QED BY <1>1, <1>2, <1>3 DEF DesignInvariant

-----------------------------------------------------------------------------
\* Interpretations and contracts are never changed or removed, and so what
\* is grounded stays so.
LEMMA RowsOnlyGrow ==
  ASSUME CaseNext PROVE interps \subseteq interps' /\ confirmed \subseteq confirmed'
BY DEF CaseNext, ConversationAndFileHandlers, RequirementHandlers, AccessHandlers,
       caseVars, accessVars, UpdateRequest, NewRequestVersion, AddContext, AddEvidence,
       Bind, IsBoundAlready, CreateInterpretation, Snapshot, HasContext, AtContext,
       AddInterpretation, CurrentContext, ConfirmInterpretation, AcceptInterpretation,
       Admit, Leave, GrantAccess, Grant, RevokeAccess, DeactivateMembership,
       ChangeSettings

\* A new row leaves the rows before it where they were.
LEMMA AppendedRow ==
  ASSUME NEW S, NEW rows \in Seq(S), NEW row \in S, NEW n \in 1 .. Len(Append(rows, row))
  PROVE  \/ n \in 1 .. Len(rows) /\ Append(rows, row)[n] = rows[n]
         \/ n = Len(rows) + 1 /\ Append(rows, row)[n] = row
OBVIOUS

\* What a handler that just passed _current_payload binds is grounded.
LEMMA CurrentIsGrounded ==
  ASSUME CaseInvariant, NEW s \in SettingsVersions, BuildableAs(latest, version, context, s)
  PROVE  CurrentBinding(s) \in Binding /\ Grounded(CurrentBinding(s))
<1> USE CaseAssumption DEF Contexts, Contracts, Versions, SettingsVersions,
                           CaseInvariant
<1>1. latest \in confirmed /\ latest = context
  BY DEF BuildableAs
<1>2. PICK i \in interps : /\ i.context = latest /\ i.request = version
                          /\ Material[i.settings] = Material[s]
  BY DEF BuildableAs
<1>3. i.evidence = evidence[version]
  BY <1>1, <1>2 DEF CurrentInterpretationIsExact
<1>4. CurrentBinding(s) \in Binding
  BY <1>1 DEF CurrentBinding, Binding, CaseTypeOK
<1>5. Grounded(CurrentBinding(s))
  BY <1>1, <1>2, <1>3 DEF CurrentBinding, Grounded
<1> QED BY <1>4, <1>5

-----------------------------------------------------------------------------
(* The handlers of designs.                                                 *)

\* A handler of the case leaves the designs alone.
LEMMA CaseKeepsDesigns ==
  ASSUME DesignInvariant, CaseNext, UNCHANGED designVars PROVE DesignInvariant'
<1>1. CaseInvariant'
  BY CaseStep DEF DesignInvariant
<1>2. interps \subseteq interps' /\ confirmed \subseteq confirmed'
  BY RowsOnlyGrow
<1>3. DesignTypeOK' /\ ProposalsHaveAttempts'
  BY DEF DesignInvariant, DesignTypeOK, ProposalsHaveAttempts, designVars
<1>4. AttemptsMatchContracts'
  BY <1>2 DEF DesignInvariant, AttemptsMatchContracts, Grounded, designVars
<1>5. DesignsMatchContracts'
  BY <1>2 DEF DesignInvariant, DesignsMatchContracts, designVars
<1> QED BY <1>1, <1>3, <1>4, <1>5 DEF DesignInvariant

\* An action of this module leaves the case alone.
LEMMA DesignsKeepCase ==
  ASSUME CaseInvariant, UNCHANGED allCaseVars
  PROVE  CaseInvariant' /\ interps' = interps /\ confirmed' = confirmed
BY CaseUntouched DEF allCaseVars, caseVars, CaseInvariant, CaseTypeOK

\* intake_reviewed_design binds what is current.
LEMMA IntakeStep ==
  ASSUME DesignInvariant, NEW m \in Members, NEW s \in SettingsVersions,
         IntakeReviewedDesign(m, s)
  PROVE  DesignInvariant'
<1> DEFINE new == [binding |-> CurrentBinding(s), reviewer |-> m, source |-> 0]
<1>1. CurrentBinding(s) \in Binding /\ Grounded(CurrentBinding(s))
  BY CurrentIsGrounded DEF DesignInvariant, IntakeReviewedDesign, Snapshot,
                           AddReviewedDesign
<1>2. CaseInvariant' /\ interps' = interps /\ confirmed' = confirmed
  BY DesignsKeepCase DEF DesignInvariant, IntakeReviewedDesign, Snapshot,
                         AddReviewedDesign
<1>3. new \in Design /\ designs' = Append(designs, new) /\ Len(designs) < MaxDesigns
  BY <1>1 DEF IntakeReviewedDesign, Snapshot, AddReviewedDesign, Design
<1>4. DesignTypeOK'
  BY <1>3, DesignAssumption DEF DesignInvariant, DesignTypeOK, IntakeReviewedDesign,
                                Snapshot, AddReviewedDesign
<1>5. ProposalsHaveAttempts'
  BY DEF DesignInvariant, ProposalsHaveAttempts, IntakeReviewedDesign, Snapshot,
       AddReviewedDesign
<1>6. AttemptsMatchContracts'
  BY <1>2 DEF DesignInvariant, AttemptsMatchContracts, Grounded, IntakeReviewedDesign,
              Snapshot, AddReviewedDesign
<1>7. DesignsMatchContracts'
  <2> SUFFICES ASSUME NEW n \in 1 .. Len(designs') PROVE Grounded(designs[n].binding)'
    BY DEF DesignsMatchContracts, Grounded
  <2>1. designs \in Seq(Design)
    BY DEF DesignInvariant, DesignTypeOK
  <2>2. \/ n \in 1 .. Len(designs) /\ designs'[n] = designs[n]
        \/ designs'[n] = new
    BY <1>3, <2>1, AppendedRow
  <2>3. \A d \in 1 .. Len(designs) : Grounded(designs[d].binding)
    BY DEF DesignInvariant, DesignsMatchContracts, Grounded
  <2> QED BY <1>1, <1>2, <2>2, <2>3 DEF Grounded
<1> QED BY <1>2, <1>4, <1>5, <1>6, <1>7 DEF DesignInvariant

\* propose_automatic_design commits a RUNNING attempt bound to what is current.
LEMMA BeginProposalStep ==
  ASSUME DesignInvariant, NEW p \in Proposers, NEW m \in Members,
         NEW k \in DesignCommands, NEW s \in SettingsVersions, BeginProposal(p, m, k, s)
  PROVE  DesignInvariant'
<1> DEFINE new == [binding |-> CurrentBinding(s), creator |-> m, command |-> k]
<1>1. CurrentBinding(s) \in Binding /\ Grounded(CurrentBinding(s))
  BY CurrentIsGrounded DEF DesignInvariant, BeginProposal, Snapshot, IsNewProposal,
                           CreateDesignAttempt
<1>2. CaseInvariant' /\ interps' = interps /\ confirmed' = confirmed
  BY DesignsKeepCase DEF DesignInvariant, BeginProposal, Snapshot, IsNewProposal,
                         CreateDesignAttempt
<1>3. /\ new \in DesignAttempt
      /\ designAttempts' = Append(designAttempts, new)
      /\ Len(designAttempts) < MaxDesignAttempts
  BY <1>1 DEF BeginProposal, Snapshot, IsNewProposal, CreateDesignAttempt, DesignAttempt
<1>4. DesignTypeOK'
  BY <1>3, DesignAssumption DEF DesignInvariant, DesignTypeOK, BeginProposal, Snapshot,
                                IsNewProposal, CreateDesignAttempt, DesignAttemptId,
                                DesignStatus, ProposalPhase
<1>5. ProposalsHaveAttempts'
  BY <1>3 DEF DesignInvariant, DesignTypeOK, ProposalsHaveAttempts, BeginProposal,
              Snapshot, IsNewProposal, CreateDesignAttempt
<1>6. AttemptsMatchContracts'
  <2> SUFFICES ASSUME NEW n \in 1 .. Len(designAttempts') PROVE Grounded(designAttempts[n].binding)'
    BY DEF AttemptsMatchContracts, Grounded
  <2>1. designAttempts \in Seq(DesignAttempt)
    BY DEF DesignInvariant, DesignTypeOK
  <2>2. \/ n \in 1 .. Len(designAttempts) /\ designAttempts'[n] = designAttempts[n]
        \/ designAttempts'[n] = new
    BY <1>3, <2>1, AppendedRow
  <2>3. \A d \in 1 .. Len(designAttempts) : Grounded(designAttempts[d].binding)
    BY DEF DesignInvariant, AttemptsMatchContracts, Grounded
  <2> QED BY <1>1, <1>2, <2>2, <2>3 DEF Grounded
<1>7. DesignsMatchContracts'
  BY <1>2 DEF DesignInvariant, DesignsMatchContracts, BeginProposal, Snapshot,
              IsNewProposal, CreateDesignAttempt
<1> QED BY <1>2, <1>4, <1>5, <1>6, <1>7 DEF DesignInvariant

\* The second transaction gives the design the binding of its attempt.
LEMMA WriteEligibleStep ==
  ASSUME DesignInvariant, NEW p \in Proposers, CanFinish(p), WriteEligible(p),
         UNCHANGED <<allCaseVars, designAttempts>>,
         proposing' \in [Proposers -> ProposalPhase],
         proposal' \in [Proposers -> DesignAttemptId \cup {0}],
         ProposalsHaveAttempts'
  PROVE  DesignInvariant'
<1> DEFINE a == proposal[p]
           new == [binding |-> designAttempts[a].binding,
                   reviewer |-> designAttempts[a].creator, source |-> a]
<1>1. a \in 1 .. Len(designAttempts) /\ a \in DesignAttemptId
  BY DesignAssumption DEF DesignInvariant, ProposalsHaveAttempts, CanFinish,
     DesignTypeOK, DesignAttemptId
<1>2. CaseInvariant' /\ interps' = interps /\ confirmed' = confirmed
  BY DesignsKeepCase DEF DesignInvariant
<1>3. designAttempts[a] \in DesignAttempt
  BY <1>1 DEF DesignInvariant, DesignTypeOK
<1>4. new \in Design /\ designs' = Append(designs, new) /\ Len(designs) < MaxDesigns
  BY <1>1, <1>3 DEF WriteEligible, AddReviewedDesign, CanFinish, Design, DesignAttempt
<1>5. designStatus' \in [DesignAttemptId -> DesignStatus]
  BY <1>1 DEF WriteEligible, AddReviewedDesign, DesignInvariant, DesignTypeOK,
              DesignStatus
<1>6. DesignTypeOK'
  BY <1>4, <1>5, DesignAssumption DEF DesignInvariant, DesignTypeOK
<1>7. Grounded(new.binding)
  BY <1>1 DEF DesignInvariant, AttemptsMatchContracts
<1>8. AttemptsMatchContracts'
  BY <1>2 DEF DesignInvariant, AttemptsMatchContracts, Grounded
<1>9. DesignsMatchContracts'
  <2> SUFFICES ASSUME NEW n \in 1 .. Len(designs') PROVE Grounded(designs[n].binding)'
    BY DEF DesignsMatchContracts, Grounded
  <2>1. designs \in Seq(Design)
    BY DEF DesignInvariant, DesignTypeOK
  <2>2. \/ n \in 1 .. Len(designs) /\ designs'[n] = designs[n]
        \/ designs'[n] = new
    BY <1>4, <2>1, AppendedRow
  <2>3. \A d \in 1 .. Len(designs) : Grounded(designs[d].binding)
    BY DEF DesignInvariant, DesignsMatchContracts, Grounded
  <2> QED BY <1>2, <1>7, <2>2, <2>3 DEF Grounded
<1> QED BY <1>2, <1>6, <1>8, <1>9 DEF DesignInvariant

\* The other steps of a proposal change its phase, and a status.
LEMMA ProposalStep ==
  ASSUME DesignInvariant, NEW p \in Proposers,
         \/ FinishProposal(p)
         \/ FinishUnacknowledged(p)
         \/ ProposalFails(p)
         \/ RecordProposalFailure(p)
         \/ AbandonProposal(p)
  PROVE  DesignInvariant'
<1> USE DEF ProposalPhase
<1>1. /\ proposing \in [Proposers -> ProposalPhase]
      /\ proposal \in [Proposers -> DesignAttemptId \cup {0}]
      /\ ProposalsHaveAttempts
  BY DEF DesignInvariant, DesignTypeOK
<1>2. ASSUME FinishProposal(p) PROVE DesignInvariant'
  <2>1. /\ proposing' \in [Proposers -> ProposalPhase]
        /\ proposal' \in [Proposers -> DesignAttemptId \cup {0}]
        /\ ProposalsHaveAttempts'
    BY <1>1, <1>2 DEF FinishProposal, ProposalsHaveAttempts
  <2> QED BY <1>2, <2>1, WriteEligibleStep DEF FinishProposal
<1>3. ASSUME FinishUnacknowledged(p) PROVE DesignInvariant'
  <2>1. /\ proposing' \in [Proposers -> ProposalPhase]
        /\ proposal' \in [Proposers -> DesignAttemptId \cup {0}]
        /\ ProposalsHaveAttempts'
    BY <1>1, <1>3 DEF FinishUnacknowledged, CanFinish, ProposalsHaveAttempts
  <2> QED BY <1>3, <2>1, WriteEligibleStep DEF FinishUnacknowledged
<1>4. ASSUME ProposalFails(p) \/ RecordProposalFailure(p) \/ AbandonProposal(p)
      PROVE  DesignInvariant'
  <2>1. CaseInvariant' /\ interps' = interps /\ confirmed' = confirmed
    BY <1>4, DesignsKeepCase
       DEF DesignInvariant, ProposalFails, RecordProposalFailure, AbandonProposal
  <2>2. proposing[p] # "idle"
    BY <1>4 DEF ProposalFails, RecordProposalFailure, AbandonProposal
  <2>3. proposal[p] \in DesignAttemptId
    BY <1>1, <2>2, DesignAssumption
       DEF ProposalsHaveAttempts, DesignInvariant, DesignTypeOK, DesignAttemptId
  <2>4. DesignTypeOK'
    BY <1>4, <2>3 DEF DesignInvariant, DesignTypeOK, DesignStatus,
       ProposalFails, RecordProposalFailure, AbandonProposal
  <2>5. ProposalsHaveAttempts'
    BY <1>1, <1>4, <2>2 DEF ProposalsHaveAttempts,
       ProposalFails, RecordProposalFailure, AbandonProposal
  <2>6. AttemptsMatchContracts' /\ DesignsMatchContracts'
    BY <1>4, <2>1 DEF DesignInvariant, AttemptsMatchContracts, DesignsMatchContracts,
       Grounded, ProposalFails, RecordProposalFailure, AbandonProposal
  <2> QED BY <2>1, <2>4, <2>5, <2>6 DEF DesignInvariant
<1> QED BY <1>2, <1>3, <1>4

-----------------------------------------------------------------------------
\* Every step keeps the invariant.
LEMMA DesignStep == ASSUME DesignInvariant, DesignNext PROVE DesignInvariant'
<1>1. CASE CaseNext /\ UNCHANGED designVars
  BY <1>1, CaseKeepsDesigns
<1>2. ASSUME NEW m \in Members, NEW s \in SettingsVersions, IntakeReviewedDesign(m, s)
      PROVE  DesignInvariant'
  BY <1>2, IntakeStep
<1>3. ASSUME NEW p \in Proposers, NEW m \in Members, NEW k \in DesignCommands,
             NEW s \in SettingsVersions, BeginProposal(p, m, k, s)
      PROVE  DesignInvariant'
  BY <1>3, BeginProposalStep
<1> QED BY <1>1, <1>2, <1>3, ProposalStep
     DEF DesignNext, DesignHandlers

\* So does a step of something else.
LEMMA DesignStutter ==
  ASSUME DesignInvariant, UNCHANGED allDesignVars PROVE DesignInvariant'
<1>1. CaseInvariant' /\ interps' = interps /\ confirmed' = confirmed
  BY DesignsKeepCase DEF DesignInvariant, allDesignVars
<1>2. UNCHANGED designVars
  BY DEF allDesignVars
<1> QED
  BY <1>1, <1>2 DEF DesignInvariant, designVars, DesignTypeOK, ProposalsHaveAttempts,
     AttemptsMatchContracts, DesignsMatchContracts, Grounded

(***************************************************************************)
(* Types, phases and bindings of designs and attempts agree with the case  *)
(* in every reachable state.                                               *)
(***************************************************************************)
THEOREM DesignInvariantHolds == DesignSpec => []DesignInvariant
<1>1. DesignInvariant /\ [DesignNext]_allDesignVars => DesignInvariant'
  BY DesignStep, DesignStutter
<1> QED BY <1>1, DesignStart, PTL DEF DesignSpec

(***************************************************************************)
(* The rows of designs and attempts keep their types within the bounds.    *)
(***************************************************************************)
THEOREM DesignTypeCorrect == DesignSpec => []DesignTypeOK
<1>1. DesignInvariant => DesignTypeOK
  BY DEF DesignInvariant
<1> QED BY <1>1, DesignInvariantHolds, PTL

(***************************************************************************)
(* Every design is for an accepted contract and exactly what it analysed,  *)
(* although its second check compares with a stale case row.               *)
(***************************************************************************)
THEOREM DesignsMatch == DesignSpec => []DesignsMatchContracts
<1>1. DesignInvariant => DesignsMatchContracts
  BY DEF DesignInvariant
<1> QED BY <1>1, DesignInvariantHolds, PTL

-----------------------------------------------------------------------------
(* Whose a design is.                                                       *)

\* A design made by a proposal is of one attempt, made as the attempt was
\* bound, and is the only one of it.
DesignsAreOwned ==
    /\ \A d \in 1 .. Len(designs) :
         designs[d].source # 0 =>
           /\ designs[d].source \in 1 .. Len(designAttempts)
           /\ designs[d].binding = designAttempts[designs[d].source].binding
           /\ designs[d].reviewer = designAttempts[designs[d].source].creator
           /\ designStatus[designs[d].source] # "RUNNING"
    /\ \A d, e \in 1 .. Len(designs) :
         designs[d].source = designs[e].source /\ designs[d].source # 0 => d = e
    /\ \A a \in 1 .. Len(designAttempts) :
         designStatus[a] = "ELIGIBLE" =>
           \E d \in 1 .. Len(designs) : designs[d].source = a

\* A request works alone on its attempt, which runs while the provider works.
ProposalsRunAlone ==
    /\ \A p, q \in Proposers :
         proposing[p] # "idle" /\ proposing[q] # "idle" /\ proposal[p] = proposal[q]
           => p = q
    /\ \A p \in Proposers :
         proposing[p] = "calling" => designStatus[proposal[p]] = "RUNNING"

Ownership == DesignsAreOwned /\ ProposalsRunAlone

\* A step that leaves designs and attempts alone keeps who owns them.
LEMMA OwnershipUnchanged ==
  ASSUME Ownership, UNCHANGED designVars PROVE Ownership'
BY DEF Ownership, DesignsAreOwned, ProposalsRunAlone, designVars

\* An expert's design is of no attempt.
LEMMA IntakeOwns ==
  ASSUME DesignInvariant, Ownership, NEW m \in Members, NEW s \in SettingsVersions,
         IntakeReviewedDesign(m, s), DesignTypeOK'
  PROVE  Ownership'
<1> DEFINE new == [binding |-> CurrentBinding(s), reviewer |-> m, source |-> 0]
<1>1. /\ designs' = Append(designs, new) /\ designs \in Seq(Design)
      /\ UNCHANGED <<designAttempts, designStatus, proposing, proposal>>
  BY DEF IntakeReviewedDesign, Snapshot, AddReviewedDesign, DesignInvariant,
       DesignTypeOK
<1>2. /\ \A d \in 1 .. Len(designs) : d \in 1 .. Len(designs') /\ designs'[d] = designs[d]
      /\ \A d \in 1 .. Len(designs') :
           \/ d \in 1 .. Len(designs) /\ designs'[d] = designs[d]
           \/ designs'[d].source = 0
  BY <1>1
<1>3. ProposalsRunAlone'
  BY <1>1 DEF Ownership, ProposalsRunAlone
<1>4. DesignsAreOwned'
  BY <1>1, <1>2 DEF Ownership, DesignsAreOwned
<1> QED BY <1>3, <1>4 DEF Ownership

\* A new attempt is nobody's, and owns nothing.
LEMMA BeginOwns ==
  ASSUME DesignInvariant, Ownership, NEW p \in Proposers, NEW m \in Members,
         NEW k \in DesignCommands, NEW s \in SettingsVersions, BeginProposal(p, m, k, s)
  PROVE  Ownership'
<1> DEFINE n == Len(designAttempts) + 1
           new == [binding |-> CurrentBinding(s), creator |-> m, command |-> k]
<1>1. /\ proposing[p] = "idle"
      /\ designAttempts' = Append(designAttempts, new)
      /\ designStatus' = [designStatus EXCEPT ![n] = "RUNNING"]
      /\ proposing' = [proposing EXCEPT ![p] = "calling"]
      /\ proposal' = [proposal EXCEPT ![p] = n]
      /\ UNCHANGED designs
      /\ Len(designAttempts) < MaxDesignAttempts
  BY DEF BeginProposal, Snapshot, IsNewProposal, CreateDesignAttempt
<1>2. /\ designAttempts \in Seq(DesignAttempt)
      /\ designStatus \in [DesignAttemptId -> DesignStatus]
      /\ proposing \in [Proposers -> ProposalPhase]
      /\ proposal \in [Proposers -> DesignAttemptId \cup {0}]
      /\ n \in DesignAttemptId /\ Len(designAttempts) \in Nat
  BY <1>1, DesignAssumption DEF DesignInvariant, DesignTypeOK, DesignAttemptId
<1>3. /\ Len(designAttempts') = n
      /\ \A a \in 1 .. Len(designAttempts) :
           designAttempts'[a] = designAttempts[a] /\ designStatus'[a] = designStatus[a]
      /\ designStatus'[n] = "RUNNING"
  BY <1>1, <1>2
<1>4. /\ proposing'[p] = "calling" /\ proposal'[p] = n
      /\ \A q \in Proposers :
           q # p => proposing'[q] = proposing[q] /\ proposal'[q] = proposal[q]
  BY <1>1, <1>2
<1>5. \A q \in Proposers : proposing[q] # "idle" => proposal[q] \in 1 .. Len(designAttempts)
  BY DEF DesignInvariant, ProposalsHaveAttempts
<1>6. n \notin 1 .. Len(designAttempts)
  BY <1>2
<1>7. ProposalsRunAlone'
  BY <1>3, <1>4, <1>5, <1>6 DEF Ownership, ProposalsRunAlone
<1>8. \A a \in 1 .. Len(designAttempts') : a \in 1 .. Len(designAttempts) \/ a = n
  BY <1>2, <1>3
<1>9. 1 .. Len(designAttempts) \subseteq 1 .. Len(designAttempts')
  BY <1>2, <1>3
<1>10. DesignsAreOwned'
  <2>1. designs' = designs /\ DesignsAreOwned
    BY <1>1 DEF Ownership
  <2>2. \A d \in 1 .. Len(designs) :
          designs[d].source # 0 =>
            /\ designs[d].source \in 1 .. Len(designAttempts')
            /\ designs[d].binding = designAttempts'[designs[d].source].binding
            /\ designs[d].reviewer = designAttempts'[designs[d].source].creator
            /\ designStatus'[designs[d].source] # "RUNNING"
    BY <1>3, <1>9, <2>1 DEF DesignsAreOwned
  <2>3. \A a \in 1 .. Len(designAttempts') :
          designStatus'[a] = "ELIGIBLE" => \E d \in 1 .. Len(designs) : designs[d].source = a
    BY <1>3, <1>8, <2>1 DEF DesignsAreOwned
  <2> QED BY <2>1, <2>2, <2>3 DEF DesignsAreOwned
<1> QED BY <1>7, <1>10 DEF Ownership

\* The second transaction adds the first design of its attempt.
LEMMA FinishOwns ==
  ASSUME DesignInvariant, Ownership, NEW p \in Proposers,
         FinishProposal(p) \/ FinishUnacknowledged(p)
  PROVE  Ownership'
<1> DEFINE a == proposal[p]
           new == [binding |-> designAttempts[a].binding,
                   reviewer |-> designAttempts[a].creator, source |-> a]
<1>1. /\ proposing[p] = "calling"
      /\ designs' = Append(designs, new)
      /\ designStatus' = [designStatus EXCEPT ![a] = "ELIGIBLE"]
      /\ UNCHANGED designAttempts
  BY DEF FinishProposal, FinishUnacknowledged, CanFinish, WriteEligible,
       AddReviewedDesign
<1>2. /\ designs \in Seq(Design)
      /\ designAttempts \in Seq(DesignAttempt)
      /\ designStatus \in [DesignAttemptId -> DesignStatus]
      /\ proposing \in [Proposers -> ProposalPhase]
      /\ proposal \in [Proposers -> DesignAttemptId \cup {0}]
      /\ Len(designAttempts) <= MaxDesignAttempts
  BY DEF DesignInvariant, DesignTypeOK
<1>3. a \in 1 .. Len(designAttempts) /\ a \in DesignAttemptId /\ a # 0
  BY <1>1, <1>2, DesignAssumption DEF DesignInvariant, ProposalsHaveAttempts, DesignAttemptId
<1>4. PICK phase \in {"idle", "failing"} :
        /\ proposing' = [proposing EXCEPT ![p] = phase]
        /\ phase = "idle" => proposal' = [proposal EXCEPT ![p] = 0]
        /\ phase # "idle" => proposal' = proposal
  BY DEF FinishProposal, FinishUnacknowledged
<1>5. /\ proposing'[p] # "calling" /\ (proposing'[p] # "idle" => proposal'[p] = a)
      /\ \A q \in Proposers :
           q # p => proposing'[q] = proposing[q] /\ proposal'[q] = proposal[q]
  BY <1>2, <1>4
<1>6. \A q \in Proposers : q # p /\ proposing[q] # "idle" => proposal[q] # a
  BY <1>1 DEF Ownership, ProposalsRunAlone
<1>7. designStatus'[a] = "ELIGIBLE" /\ \A b \in DesignAttemptId \ {a} :
                                           designStatus'[b] = designStatus[b]
  BY <1>1, <1>2, <1>3
<1>8. 1 .. Len(designAttempts) \subseteq DesignAttemptId
  BY <1>2, DesignAssumption DEF DesignAttemptId
<1>9. ProposalsRunAlone'
  BY <1>1, <1>5, <1>6, <1>7, <1>8
     DEF Ownership, ProposalsRunAlone, DesignInvariant, ProposalsHaveAttempts
<1>10. \A d \in 1 .. Len(designs) : designs[d].source # a
  BY <1>1, <1>3 DEF Ownership, DesignsAreOwned, ProposalsRunAlone
<1>11. /\ Len(designs') = Len(designs) + 1 /\ Len(designs) \in Nat
       /\ \A d \in 1 .. Len(designs) : designs'[d] = designs[d]
       /\ designs'[Len(designs) + 1] = new
  BY <1>1, <1>2, <1>3 DEF Design, DesignAttempt
<1>12. \A d \in 1 .. Len(designs') :
         \/ d \in 1 .. Len(designs) /\ designs'[d] = designs[d] /\ designs'[d].source # a
         \/ d = Len(designs) + 1 /\ designs'[d] = new
  BY <1>10, <1>11
<1>13. \A d \in 1 .. Len(designs') :
         designs'[d].source # 0 =>
           /\ designs'[d].source \in 1 .. Len(designAttempts)
           /\ designs'[d].binding = designAttempts[designs'[d].source].binding
           /\ designs'[d].reviewer = designAttempts[designs'[d].source].creator
           /\ designStatus'[designs'[d].source] # "RUNNING"
  BY <1>3, <1>7, <1>8, <1>12 DEF Ownership, DesignsAreOwned
<1>14. \A d, e \in 1 .. Len(designs') :
         designs'[d].source = designs'[e].source /\ designs'[d].source # 0 => d = e
  BY <1>12 DEF Ownership, DesignsAreOwned
<1>15. ASSUME NEW b \in 1 .. Len(designAttempts), designStatus'[b] = "ELIGIBLE"
       PROVE  \E d \in 1 .. Len(designs') : designs'[d].source = b
  <2>1. CASE b = a
    BY <1>11, <2>1
  <2>2. CASE b # a
    <3>1. PICK d \in 1 .. Len(designs) : designs[d].source = b
      BY <1>7, <1>8, <1>15, <2>2 DEF Ownership, DesignsAreOwned
    <3> QED BY <1>11, <3>1
  <2> QED BY <2>1, <2>2
<1>16. DesignsAreOwned'
  BY <1>1, <1>13, <1>14, <1>15 DEF DesignsAreOwned
<1> QED BY <1>9, <1>16 DEF Ownership

\* A failure ends the request, and never puts an attempt back to RUNNING.
LEMMA FailureOwns ==
  ASSUME DesignInvariant, Ownership, NEW p \in Proposers,
         ProposalFails(p) \/ RecordProposalFailure(p) \/ AbandonProposal(p)
  PROVE  Ownership'
<1> DEFINE a == proposal[p]
<1>1. /\ proposing[p] # "idle"
      /\ UNCHANGED <<designs, designAttempts>>
      /\ \/ designStatus' = designStatus
         \/ designStatus' = [designStatus EXCEPT ![a] = "FAILED"]
  BY DEF ProposalFails, RecordProposalFailure, AbandonProposal
<1>2. PICK phase \in {"idle", "failing", "stopped"} :
        /\ proposing' = [proposing EXCEPT ![p] = phase]
        /\ phase = "idle" => proposal' = [proposal EXCEPT ![p] = 0]
        /\ phase # "idle" => proposal' = proposal
  BY DEF ProposalFails, RecordProposalFailure, AbandonProposal
<1>3. /\ designStatus \in [DesignAttemptId -> DesignStatus]
      /\ proposing \in [Proposers -> ProposalPhase]
      /\ proposal \in [Proposers -> DesignAttemptId \cup {0}]
      /\ 1 .. Len(designAttempts) \subseteq DesignAttemptId
  BY DesignAssumption DEF DesignInvariant, DesignTypeOK, DesignAttemptId
<1>4. a \in DesignAttemptId
  BY <1>1, <1>3 DEF DesignInvariant, ProposalsHaveAttempts
<1>5. /\ proposing'[p] # "calling" /\ (proposing'[p] # "idle" => proposal'[p] = a)
      /\ \A q \in Proposers :
           q # p => proposing'[q] = proposing[q] /\ proposal'[q] = proposal[q]
  BY <1>2, <1>3
<1>6. \A b \in DesignAttemptId :
        designStatus'[b] = designStatus[b] \/ (b = a /\ designStatus'[b] = "FAILED")
  BY <1>1, <1>3
<1>7. \A q \in Proposers : q # p /\ proposing[q] # "idle" => proposal[q] # a
  BY <1>1 DEF Ownership, ProposalsRunAlone
<1>8. ProposalsRunAlone'
  BY <1>1, <1>3, <1>5, <1>6, <1>7
     DEF Ownership, ProposalsRunAlone, DesignInvariant, ProposalsHaveAttempts
<1>9. DesignsAreOwned'
  BY <1>1, <1>3, <1>6 DEF Ownership, DesignsAreOwned
<1> QED BY <1>8, <1>9 DEF Ownership

\* One owner has one design at most.
LEMMA OwnershipSuffices ==
  ASSUME Ownership PROVE AttemptsOwnTheirDesigns
<1> SUFFICES ASSUME NEW a \in 1 .. Len(designAttempts)
             PROVE  LET own == {d \in 1 .. Len(designs) : designs[d].source = a} IN
                    /\ Cardinality(own) <= 1
                    /\ \A d \in own : /\ designs[d].binding = designAttempts[a].binding
                                      /\ designs[d].reviewer = designAttempts[a].creator
                    /\ designStatus[a] = "ELIGIBLE" => own # {}
                    /\ designStatus[a] = "RUNNING" => own = {}
  BY DEF AttemptsOwnTheirDesigns
<1> DEFINE own == {d \in 1 .. Len(designs) : designs[d].source = a}
<1>1. a # 0
  OBVIOUS
<1>2. \A d, e \in own : d = e
  BY <1>1 DEF Ownership, DesignsAreOwned
<1>3. own = {} \/ \E d \in own : own = {d}
  BY <1>2
<1> HIDE DEF own
<1>4. Cardinality(own) <= 1
  <2>1. CASE own = {}
    BY <2>1, FS_EmptySet
  <2>2. CASE \E d \in own : own = {d}
    <3>1. PICK d \in own : own = {d}
      BY <2>2
    <3>2. Cardinality({d}) = 1
      BY FS_Singleton
    <3> QED BY <3>1, <3>2
  <2> QED BY <1>3, <2>1, <2>2
<1>5. /\ \A d \in own : /\ designs[d].binding = designAttempts[a].binding
                        /\ designs[d].reviewer = designAttempts[a].creator
      /\ designStatus[a] = "ELIGIBLE" => own # {}
      /\ designStatus[a] = "RUNNING" => own = {}
  BY <1>1 DEF own, Ownership, DesignsAreOwned
<1> QED BY <1>4, <1>5 DEF own

(***************************************************************************)
(* An automatic attempt has one design at most, its own, and only when it  *)
(* no longer runs, whatever is retried, lost or stopped.                   *)
(***************************************************************************)
THEOREM AttemptsOwn == DesignSpec => []AttemptsOwnTheirDesigns
<1>1. DesignInit => Ownership
  BY DEF DesignInit, Ownership, DesignsAreOwned, ProposalsRunAlone
<1>2. ASSUME DesignInvariant, DesignInvariant', Ownership, DesignNext PROVE Ownership'
  <2>1. CASE CaseNext /\ UNCHANGED designVars
    BY <1>2, <2>1, OwnershipUnchanged
  <2>2. ASSUME NEW m \in Members, NEW s \in SettingsVersions, IntakeReviewedDesign(m, s)
        PROVE  Ownership'
    BY <1>2, <2>2, IntakeOwns DEF DesignInvariant
  <2>3. ASSUME NEW p \in Proposers, NEW m \in Members, NEW k \in DesignCommands,
               NEW s \in SettingsVersions, BeginProposal(p, m, k, s)
        PROVE  Ownership'
    BY <1>2, <2>3, BeginOwns
  <2> QED BY <1>2, <2>1, <2>2, <2>3, FinishOwns, FailureOwns
     DEF DesignNext, DesignHandlers
<1>3. DesignInvariant /\ DesignInvariant' /\ Ownership /\ [DesignNext]_allDesignVars
        => Ownership'
  BY <1>2, OwnershipUnchanged DEF allDesignVars
<1>4. Ownership => AttemptsOwnTheirDesigns
  BY OwnershipSuffices
<1> QED BY <1>1, <1>3, <1>4, DesignInvariantHolds, PTL DEF DesignSpec

-----------------------------------------------------------------------------
(* Builds.                                                                  *)

\* A worker works on an attempt that was committed, and on one of its own.
WorkersHaveAttempts ==
    /\ \A w \in Workers : working[w] # "idle" => job[w] \in 1 .. Len(attempts)
    /\ \A v, w \in Workers :
         working[v] # "idle" /\ working[w] # "idle" /\ job[v] = job[w] => v = w

\* An attempt builds a design that exists.
AttemptsHaveDesigns ==
    \A a \in 1 .. Len(attempts) : attempts[a].design \in 1 .. Len(designs)

\* The rows that exist are those with a status, and one of them runs at most.
StatusesMatchRows ==
    /\ \A a \in AttemptId : status[a] = "NONE" <=> a > Len(attempts)
    /\ \A a, b \in AttemptId : status[a] = "RUNNING" /\ status[b] = "RUNNING" => a = b

\* The one transaction that spans several steps holds the rows that what it
\* checked depends on, and only it holds rows.
WriterHoldsItsRows ==
    /\ \A w \in Workers :
         working[w] = "written" =>
           /\ held = {"case", "company"} \cup Fenced(job[w])
           /\ Authorized(job[w])
           /\ job[w] \in stored
    /\ \A v, w \in Workers : working[v] = "written" /\ working[w] = "written" => v = w
    /\ (\A w \in Workers : working[w] # "written") => held = {}

\* Until it fails, a worker's attempt can only be cancelled under it.
WorkIsOpen ==
    \A w \in Workers :
      working[w] \in {"generating", "written"} =>
        status[job[w]] \in {"RUNNING", "CANCELLED"}

GenerationInvariant ==
    /\ DesignInvariant
    /\ GenerationTypeOK
    /\ WorkersHaveAttempts
    /\ AttemptsHaveDesigns
    /\ StatusesMatchRows
    /\ WriterHoldsItsRows
    /\ WorkIsOpen
    /\ ArtifactsAreBacked

\* No attempt, no artifact and no lock at first.
LEMMA GenerationStart ==
  CaseInit /\ DesignInit /\ GenerationInit => GenerationInvariant
<1> SUFFICES ASSUME CaseInit, DesignInit, GenerationInit PROVE GenerationInvariant
  OBVIOUS
<1> USE GenerationAssumption DEF GenerationInit, AttemptId
<1>1. DesignInvariant
  BY DesignStart
<1>2. GenerationTypeOK
  BY DEF GenerationTypeOK, Artifact, AttemptStatus, WorkPhase
<1>3. WorkersHaveAttempts /\ AttemptsHaveDesigns /\ StatusesMatchRows
  BY DEF WorkersHaveAttempts, AttemptsHaveDesigns, StatusesMatchRows
<1>4. WriterHoldsItsRows /\ WorkIsOpen /\ ArtifactsAreBacked
  BY DEF WriterHoldsItsRows, WorkIsOpen, ArtifactsAreBacked, CaseInit
<1> QED BY <1>1, <1>2, <1>3, <1>4 DEF GenerationInvariant

-----------------------------------------------------------------------------
(* What happens to the case and to the designs while a build is open.       *)

\* Nobody changes what the holder of these rows depends on.
HeldRowsStand ==
    /\ held' = held
    /\ "case" \in held => UNCHANGED caseVars
    /\ {"case", "company"} \subseteq held =>
         \A m \in held \cap Members : CanEdit(m) => CanEdit(m)'

\* The handlers of a case respect the locks.
LEMMA CaseRespectsLocks ==
  ASSUME CaseTypeOK, CaseNext PROVE HeldRowsStand
<1> USE DEF HeldRowsStand, caseVars, accessVars, CaseFree, MayEdit, CanEdit
<1>1. CASE UpdateRequest
  BY <1>1 DEF UpdateRequest, NewRequestVersion
<1>2. CASE AddContext
  BY <1>2 DEF AddContext
<1>3. ASSUME NEW item \in Items, AddEvidence(item) PROVE HeldRowsStand
  BY <1>3 DEF AddEvidence, Bind, IsBoundAlready
<1>4. ASSUME NEW s \in SettingsVersions, NEW ready \in BOOLEAN,
             CreateInterpretation(s, ready)
      PROVE  HeldRowsStand
  BY <1>4 DEF CreateInterpretation, Snapshot, HasContext, AtContext, AddInterpretation,
              CurrentContext
<1>5. ASSUME NEW s \in SettingsVersions, ConfirmInterpretation(s) PROVE HeldRowsStand
  BY <1>5 DEF ConfirmInterpretation, AtContext, AcceptInterpretation
<1>6. ASSUME NEW m \in Members, Admit(m) PROVE HeldRowsStand
  BY <1>6 DEF Admit
<1>7. ASSUME NEW m \in Members, NEW level \in EditLevel, Leave(m, level)
      PROVE  HeldRowsStand
  BY <1>7 DEF Leave
<1>8. ASSUME NEW o \in Members, NEW n \in Members, NEW level \in {"VIEWER", "EDITOR"},
             GrantAccess(o, n, level)
      PROVE  HeldRowsStand
  BY <1>8 DEF GrantAccess, Grant, CaseTypeOK
<1>9. ASSUME NEW o \in Members, NEW n \in Members, RevokeAccess(o, n)
      PROVE  HeldRowsStand
  BY <1>9 DEF RevokeAccess, CaseTypeOK
<1>10. ASSUME NEW m \in Members, DeactivateMembership(m) PROVE HeldRowsStand
  BY <1>10 DEF DeactivateMembership
<1>11. CASE ChangeSettings
  BY <1>11 DEF ChangeSettings
<1> QED
  BY <1>1, <1>2, <1>3, <1>4, <1>5, <1>6, <1>7, <1>8, <1>9, <1>10, <1>11
  DEF CaseNext, ConversationAndFileHandlers, RequirementHandlers, AccessHandlers

\* The rows of designs are only added to.
DesignRowsStand ==
    /\ Len(designs) \in Nat /\ Len(designs') \in Nat
    /\ Len(designs) <= Len(designs')
    /\ \A d \in 1 .. Len(designs) : designs'[d] = designs[d]

\* The handlers of designs respect the locks and change no design.
LEMMA DesignsRespectLocks ==
  ASSUME DesignInvariant, DesignNext PROVE HeldRowsStand /\ DesignRowsStand
<1>1. CaseTypeOK /\ designs \in Seq(Design)
  BY DEF DesignInvariant, CaseInvariant, DesignTypeOK
<1>2. ASSUME UNCHANGED allCaseVars PROVE HeldRowsStand
  BY <1>2 DEF allCaseVars, caseVars, HeldRowsStand, CanEdit
<1>3. ASSUME UNCHANGED designs PROVE DesignRowsStand
  BY <1>1, <1>3 DEF DesignRowsStand
<1>4. ASSUME NEW row, designs' = Append(designs, row) PROVE DesignRowsStand
  BY <1>1, <1>4 DEF DesignRowsStand
<1>5. CASE CaseNext /\ UNCHANGED designVars
  BY <1>1, <1>3, <1>5, CaseRespectsLocks DEF designVars
<1>6. ASSUME NEW m \in Members, NEW s \in SettingsVersions, IntakeReviewedDesign(m, s)
      PROVE  HeldRowsStand /\ DesignRowsStand
  BY <1>2, <1>4, <1>6 DEF IntakeReviewedDesign, Snapshot, AddReviewedDesign
<1>7. ASSUME NEW p \in Proposers, NEW m \in Members, NEW k \in DesignCommands,
             NEW s \in SettingsVersions, BeginProposal(p, m, k, s)
      PROVE  HeldRowsStand /\ DesignRowsStand
  BY <1>2, <1>3, <1>7 DEF BeginProposal, Snapshot, IsNewProposal, CreateDesignAttempt
<1>8. ASSUME NEW p \in Proposers, FinishProposal(p) \/ FinishUnacknowledged(p)
      PROVE  HeldRowsStand /\ DesignRowsStand
  BY <1>2, <1>4, <1>8 DEF FinishProposal, FinishUnacknowledged, WriteEligible,
                          AddReviewedDesign
<1>9. ASSUME NEW p \in Proposers,
             ProposalFails(p) \/ RecordProposalFailure(p) \/ AbandonProposal(p)
      PROVE  HeldRowsStand /\ DesignRowsStand
  BY <1>2, <1>3, <1>9 DEF ProposalFails, RecordProposalFailure, AbandonProposal
<1> QED BY <1>5, <1>6, <1>7, <1>8, <1>9 DEF DesignNext, DesignHandlers

\* A step of the case or of a proposal keeps what builds rely on.
LEMMA DesignsKeepGeneration ==
  ASSUME GenerationInvariant, DesignNext, UNCHANGED generationVars
  PROVE  GenerationInvariant'
<1>1. DesignInvariant /\ GenerationTypeOK /\ AttemptsHaveDesigns
  BY DEF GenerationInvariant
<1>2. HeldRowsStand /\ DesignRowsStand
  BY <1>1, DesignsRespectLocks
<1>3. DesignInvariant'
  BY <1>1, DesignStep
<1>4. /\ GenerationTypeOK' /\ WorkersHaveAttempts' /\ StatusesMatchRows' /\ WorkIsOpen'
      /\ ArtifactsAreBacked'
  BY DEF GenerationInvariant, generationVars, GenerationTypeOK, Artifact,
       WorkersHaveAttempts, StatusesMatchRows, WorkIsOpen, ArtifactsAreBacked
<1>5. AttemptsHaveDesigns'
  BY <1>1, <1>2 DEF AttemptsHaveDesigns, DesignRowsStand, generationVars
<1>6. ASSUME NEW w \in Workers, working[w] = "written"
      PROVE  Fenced(job[w])' = Fenced(job[w]) /\ Authorized(job[w])'
  <2> DEFINE a == job[w]
             d == attempts[a].design
  <2>1. a \in 1 .. Len(attempts) /\ d \in 1 .. Len(designs)
    BY <1>1, <1>6 DEF GenerationInvariant, WorkersHaveAttempts, AttemptsHaveDesigns
  <2>2. designs'[d] = designs[d] /\ attempts' = attempts /\ job' = job
    BY <1>2, <2>1 DEF DesignRowsStand, generationVars
  <2>3. attempts[a] \in Attempt /\ designs[d] \in Design
    BY <1>1, <2>1 DEF GenerationTypeOK, Artifact, DesignInvariant, DesignTypeOK
  <2>4. held = {"case", "company"} \cup Fenced(a) /\ Authorized(a)
    BY <1>6 DEF GenerationInvariant, WriterHoldsItsRows
  <2>5. Fenced(a)' = Fenced(a)
    BY <2>2 DEF Fenced
  <2>6. attempts[a].creator \in held \cap Members
    BY <2>3, <2>4 DEF Fenced, Attempt
  <2>7. designs[d].source = 0 => designs[d].reviewer \in held \cap Members
    BY <2>3, <2>4 DEF Fenced, Design
  <2>8. CanEdit(attempts[a].creator)'
    BY <1>2, <2>2, <2>4, <2>6 DEF HeldRowsStand, Authorized, CanEdit
  <2>9. designs[d].source = 0 => CanEdit(designs[d].reviewer)'
    BY <1>2, <2>2, <2>4, <2>7 DEF HeldRowsStand, Authorized, ReviewerStands, CanEdit
  <2>10. UNCHANGED caseVars
    BY <1>2, <2>4 DEF HeldRowsStand
  <2>11. Authorized(a)'
    BY <2>2, <2>4, <2>8, <2>9, <2>10 DEF Authorized, AtContext, MateriallyCurrent,
       ReviewerStands, CanEdit, caseVars
  <2> QED BY <2>2, <2>5, <2>11
<1>7. WriterHoldsItsRows'
  BY <1>2, <1>6 DEF GenerationInvariant, WriterHoldsItsRows, HeldRowsStand, generationVars
<1> QED BY <1>3, <1>4, <1>5, <1>7 DEF GenerationInvariant

-----------------------------------------------------------------------------
(* The steps of builds.                                                     *)

\* Locks are not part of what the invariant of designs reads.
LEMMA LocksKeepDesigns ==
  ASSUME DesignInvariant, UNCHANGED <<caseVars, settings, accessVars, designVars>>,
         held' \subseteq Members \cup {"case", "company"}
  PROVE  DesignInvariant'
<1>1. CaseTypeOK'
  BY DEF DesignInvariant, CaseInvariant, CaseTypeOK, caseVars, accessVars
<1>2. CaseInvariant'
  BY <1>1, CaseUntouched DEF DesignInvariant
<1> QED
  BY <1>2 DEF DesignInvariant, designVars, DesignTypeOK, ProposalsHaveAttempts,
     AttemptsMatchContracts, DesignsMatchContracts, Grounded, caseVars

\* What the invariant says of a worker that is not idle.
LEMMA BusyWorker ==
  ASSUME GenerationInvariant, NEW w \in Workers, working[w] # "idle"
  PROVE  /\ job[w] \in AttemptId /\ job[w] \in 1 .. Len(attempts)
         /\ attempts[job[w]] \in Attempt
         /\ attempts[job[w]].design \in 1 .. Len(designs)
         /\ designs[attempts[job[w]].design] \in Design
         /\ \A v \in Workers : v # w /\ working[v] # "idle" => job[v] # job[w]
<1>1. GenerationTypeOK /\ WorkersHaveAttempts /\ AttemptsHaveDesigns /\ DesignTypeOK
  BY DEF GenerationInvariant, DesignInvariant
<1>2. job[w] \in 1 .. Len(attempts)
  BY <1>1 DEF WorkersHaveAttempts
<1>3. job[w] \in AttemptId /\ attempts[job[w]] \in Attempt
  BY <1>1, <1>2, GenerationAssumption DEF GenerationTypeOK, Artifact, AttemptId
<1>4. attempts[job[w]].design \in 1 .. Len(designs)
  BY <1>1, <1>2 DEF AttemptsHaveDesigns
<1>5. designs[attempts[job[w]].design] \in Design
  BY <1>1, <1>4 DEF DesignTypeOK
<1> QED BY <1>1, <1>2, <1>3, <1>4, <1>5 DEF WorkersHaveAttempts

\* The second transaction takes its locks where nobody holds any, on rows
\* that it has just checked.
LEMMA StoreStep ==
  ASSUME GenerationInvariant, NEW w \in Workers, StoreArtifact(w)
  PROVE  GenerationInvariant'
<1> DEFINE a == job[w]
           d == attempts[a].design
<1>1. /\ working[w] = "generating"
      /\ "case" \notin held
      /\ StillBuildable(attempts[a].creator, designs[d].binding)
      /\ ReviewerStands(d)
      /\ stored' = stored \cup {a}
      /\ held' = {"case", "company"} \cup Fenced(a)
      /\ working' = [working EXCEPT ![w] = "written"]
      /\ UNCHANGED <<caseVars, settings, accessVars, designVars,
                     attempts, status, artifacts, job>>
  BY DEF StoreArtifact, WriteBytes, CaseFree
<1>2. /\ a \in AttemptId
      /\ attempts[a] \in Attempt
      /\ GenerationTypeOK
  BY <1>1, BusyWorker DEF GenerationInvariant
<1>3. Fenced(a) \subseteq Members
  BY <1>2 DEF Fenced, Attempt
<1>4. DesignInvariant'
  BY <1>1, <1>3, LocksKeepDesigns DEF GenerationInvariant
<1>5. GenerationTypeOK'
  BY <1>1, <1>2 DEF GenerationTypeOK, Artifact, WorkPhase
<1>6. WorkersHaveAttempts' /\ AttemptsHaveDesigns' /\ StatusesMatchRows'
  BY <1>1, <1>2 DEF GenerationInvariant, GenerationTypeOK, Artifact,
                    WorkersHaveAttempts, AttemptsHaveDesigns, StatusesMatchRows,
                    designVars
<1>7. WorkIsOpen' /\ ArtifactsAreBacked'
  BY <1>1, <1>2 DEF GenerationInvariant, GenerationTypeOK, Artifact, WorkIsOpen,
                    ArtifactsAreBacked
<1>8. Authorized(a)
  BY <1>1 DEF StillBuildable, BuildableAs, Authorized, AtContext, MateriallyCurrent
<1>9. Authorized(a)' /\ Fenced(a)' = Fenced(a)
  BY <1>1, <1>8 DEF Authorized, ReviewerStands, Fenced, CanEdit, caseVars, accessVars,
     designVars, AtContext, MateriallyCurrent
<1>10. \A v \in Workers : working[v] # "written"
  BY <1>1 DEF GenerationInvariant, WriterHoldsItsRows
<1>11. \A v \in Workers : working'[v] = "written" <=> v = w
  BY <1>1, <1>2, <1>10 DEF GenerationTypeOK, Artifact
<1>12. WriterHoldsItsRows'
  BY <1>1, <1>9, <1>11 DEF WriterHoldsItsRows
<1> QED BY <1>4, <1>5, <1>6, <1>7, <1>12 DEF GenerationInvariant

\* When the writer ends its transaction nobody holds a row any more.
LEMMA WriterLeaves ==
  ASSUME GenerationInvariant, NEW w \in Workers, working[w] = "written", held' = {},
         NEW phase \in WorkPhase \ {"written"}, working' = [working EXCEPT ![w] = phase]
  PROVE  WriterHoldsItsRows'
<1>1. \A v \in Workers : working'[v] # "written"
  BY DEF GenerationInvariant, GenerationTypeOK, Artifact, WriterHoldsItsRows
<1> QED BY <1>1 DEF WriterHoldsItsRows

\* A commit that takes effect gives the attempt its row; the bytes are there.
LEMMA SuccessStep ==
  ASSUME GenerationInvariant, NEW w \in Workers, CommitSuccess(w) \/ CommitUnacknowledged(w)
  PROVE  GenerationInvariant'
<1> DEFINE a == job[w]
<1>1. /\ working[w] = "written"
      /\ status[a] = "RUNNING"
      /\ status' = [status EXCEPT ![a] = "SUCCEEDED"]
      /\ artifacts' = artifacts \cup {a}
      /\ held' = {}
      /\ UNCHANGED <<caseVars, settings, accessVars, designVars, attempts, stored>>
  BY DEF CommitSuccess, CommitUnacknowledged, WriteSuccess, AddGeneratedArtifact
<1>2. PICK phase \in {"idle", "failing"} :
        /\ working' = [working EXCEPT ![w] = phase]
        /\ phase = "idle" => job' = [job EXCEPT ![w] = 0]
        /\ phase # "idle" => job' = job
  BY DEF CommitSuccess, CommitUnacknowledged
<1>3. /\ a \in AttemptId
      /\ \A v \in Workers : v # w /\ working[v] # "idle" => job[v] # a
      /\ GenerationTypeOK
  BY <1>1, BusyWorker DEF GenerationInvariant
<1>4. DesignInvariant'
  BY <1>1, LocksKeepDesigns DEF GenerationInvariant
<1>5. GenerationTypeOK'
  BY <1>1, <1>2, <1>3 DEF GenerationTypeOK, Artifact, WorkPhase, AttemptStatus
<1>6. WorkersHaveAttempts'
  BY <1>1, <1>2, <1>3 DEF GenerationInvariant, GenerationTypeOK, Artifact,
                          WorkersHaveAttempts
<1>7. AttemptsHaveDesigns' /\ StatusesMatchRows'
  BY <1>1, <1>3 DEF GenerationInvariant, GenerationTypeOK, Artifact,
                    AttemptsHaveDesigns, StatusesMatchRows, designVars
<1>8. WriterHoldsItsRows'
  BY <1>1, <1>2, WriterLeaves DEF WorkPhase
<1>9. WorkIsOpen'
  BY <1>1, <1>2, <1>3 DEF GenerationInvariant, GenerationTypeOK, Artifact, WorkIsOpen
<1>10. a \in stored
  BY <1>1 DEF GenerationInvariant, WriterHoldsItsRows
<1>11. ArtifactsAreBacked'
  BY <1>1, <1>3, <1>10 DEF GenerationInvariant, GenerationTypeOK, Artifact,
                           ArtifactsAreBacked
<1> QED BY <1>4, <1>5, <1>6, <1>7, <1>8, <1>9, <1>11 DEF GenerationInvariant

\* A writer that is refused may delete only bytes without a row.
LEMMA RefusedStep ==
  ASSUME GenerationInvariant, NEW w \in Workers, CommitFails(w) \/ DiscardArtifact(w)
  PROVE  GenerationInvariant'
<1> DEFINE a == job[w]
<1>1. /\ working[w] = "written"
      /\ held' = {}
      /\ working' = [working EXCEPT ![w] = "failing"]
      /\ UNCHANGED <<caseVars, settings, accessVars, designVars, attempts, job,
                     status, artifacts>>
      /\ stored \ {a} \subseteq stored' /\ stored' \subseteq stored
  BY DEF CommitFails, DiscardArtifact, CleanUp, RollBack
<1>2. a \in AttemptId /\ GenerationTypeOK
  BY <1>1, BusyWorker DEF GenerationInvariant
<1>3. DesignInvariant'
  BY <1>1, LocksKeepDesigns DEF GenerationInvariant
<1>4. GenerationTypeOK'
  BY <1>1, <1>2 DEF GenerationTypeOK, Artifact, WorkPhase
<1>5. WorkersHaveAttempts' /\ AttemptsHaveDesigns' /\ StatusesMatchRows' /\ WorkIsOpen'
  BY <1>1, <1>2 DEF GenerationInvariant, GenerationTypeOK, Artifact,
                    WorkersHaveAttempts, AttemptsHaveDesigns, StatusesMatchRows,
                    WorkIsOpen, designVars
<1>6. WriterHoldsItsRows'
  BY <1>1, WriterLeaves DEF WorkPhase
<1>7. a \notin artifacts
  BY <1>1, <1>2 DEF GenerationInvariant, WorkIsOpen, ArtifactsAreBacked
<1>8. ArtifactsAreBacked'
  BY <1>1, <1>7 DEF GenerationInvariant, ArtifactsAreBacked
<1> QED BY <1>3, <1>4, <1>5, <1>6, <1>8 DEF GenerationInvariant

\* A process that stops rolls its transaction back.
LEMMA AbandonStep ==
  ASSUME GenerationInvariant, NEW w \in Workers, Abandon(w) PROVE GenerationInvariant'
<1>1. /\ working[w] \in {"generating", "written", "failing"}
      /\ held' = IF working[w] = "written" THEN {} ELSE held
      /\ working' = [working EXCEPT ![w] = "stopped"]
      /\ UNCHANGED <<caseVars, settings, accessVars, designVars,
                     attempts, status, artifacts, stored, job>>
  BY DEF Abandon
<1>2. GenerationTypeOK
  BY DEF GenerationInvariant
<1>3. held \subseteq Members \cup {"case", "company"}
  BY DEF GenerationInvariant, DesignInvariant, CaseInvariant, CaseTypeOK
<1>4. DesignInvariant'
  BY <1>1, <1>3, LocksKeepDesigns DEF GenerationInvariant
<1>5. GenerationTypeOK' /\ ArtifactsAreBacked'
  BY <1>1, <1>2 DEF GenerationInvariant, GenerationTypeOK, Artifact, WorkPhase,
                    ArtifactsAreBacked
<1>6. WorkersHaveAttempts' /\ AttemptsHaveDesigns' /\ StatusesMatchRows' /\ WorkIsOpen'
  BY <1>1, <1>2 DEF GenerationInvariant, GenerationTypeOK, Artifact,
                    WorkersHaveAttempts, AttemptsHaveDesigns, StatusesMatchRows,
                    WorkIsOpen, designVars
<1>7. CASE working[w] = "written"
  <2>1. WriterHoldsItsRows'
    BY <1>1, <1>7, WriterLeaves DEF WorkPhase
  <2> QED BY <1>4, <1>5, <1>6, <2>1 DEF GenerationInvariant
<1>8. CASE working[w] # "written"
  <2>1. \A v \in Workers : working'[v] = "written" <=> working[v] = "written"
    BY <1>1, <1>2, <1>8 DEF GenerationTypeOK, Artifact
  <2>2. \A v \in Workers : Authorized(job[v])' = Authorized(job[v])
                           /\ Fenced(job[v])' = Fenced(job[v])
    BY <1>1 DEF Authorized, ReviewerStands, Fenced, CanEdit, caseVars, accessVars, designVars,
       AtContext, MateriallyCurrent
  <2>3. WriterHoldsItsRows'
    BY <1>1, <1>8, <2>1, <2>2 DEF GenerationInvariant, WriterHoldsItsRows
  <2> QED BY <1>4, <1>5, <1>6, <2>3 DEF GenerationInvariant
<1> QED BY <1>7, <1>8

-----------------------------------------------------------------------------
\* Steps that touch neither locks nor designs nor rows of attempts leave
\* the writer what it holds.
LEMMA WriterUndisturbed ==
  ASSUME GenerationInvariant, UNCHANGED allDesignVars, UNCHANGED stored,
         NEW w \in Workers, working[w] # "written" \/ working' = working,
         \A v \in Workers : v # w => working'[v] = working[v] /\ job'[v] = job[v],
         working'[w] # "written" \/ (working' = working /\ job' = job),
         \A v \in Workers : working[v] = "written" => attempts'[job[v]] = attempts[job[v]]
  PROVE  DesignInvariant' /\ WriterHoldsItsRows'
<1>1. DesignInvariant'
  BY DesignStutter DEF GenerationInvariant
<1>2. ASSUME NEW v \in Workers, working'[v] = "written"
      PROVE  /\ working[v] = "written" /\ job'[v] = job[v]
             /\ Authorized(job[v])' = Authorized(job[v])
             /\ Fenced(job[v])' = Fenced(job[v])
  <2>1. working[v] = "written" /\ job'[v] = job[v]
    BY <1>2
  <2>2. attempts'[job[v]] = attempts[job[v]]
    BY <2>1
  <2> QED
    BY <2>1, <2>2 DEF Authorized, ReviewerStands, Fenced, CanEdit, allDesignVars,
       allCaseVars, designVars, AtContext, MateriallyCurrent
<1>3. \A v \in Workers : working[v] = "written" => working'[v] = "written"
  OBVIOUS
<1>4. held' = held /\ stored' = stored
  BY DEF allDesignVars, allCaseVars
<1>5. WriterHoldsItsRows'
  BY <1>2, <1>3, <1>4 DEF GenerationInvariant, WriterHoldsItsRows
<1> QED BY <1>1, <1>5

\* The bridge or the second check fails.
LEMMA BuildFailsStep ==
  ASSUME GenerationInvariant, NEW w \in Workers, BridgeFails(w) \/ BuildFails(w)
  PROVE  GenerationInvariant'
<1>1. /\ working[w] = "generating"
      /\ working' = [working EXCEPT ![w] = "failing"]
      /\ UNCHANGED <<allDesignVars, attempts, status, artifacts, stored, job>>
  BY DEF BridgeFails, BuildFails
<1>2. GenerationTypeOK
  BY DEF GenerationInvariant
<1>3. working'[w] = "failing" /\ \A v \in Workers : v # w => working'[v] = working[v]
  BY <1>1, <1>2 DEF GenerationTypeOK, Artifact
<1>4. DesignInvariant' /\ WriterHoldsItsRows'
  BY <1>1, <1>3, WriterUndisturbed
<1>5. GenerationTypeOK' /\ ArtifactsAreBacked'
  BY <1>1, <1>2 DEF GenerationInvariant, GenerationTypeOK, Artifact, WorkPhase,
                    ArtifactsAreBacked
<1>6. WorkersHaveAttempts' /\ AttemptsHaveDesigns' /\ StatusesMatchRows' /\ WorkIsOpen'
  BY <1>1, <1>3 DEF GenerationInvariant, WorkersHaveAttempts, AttemptsHaveDesigns,
     StatusesMatchRows, WorkIsOpen, allDesignVars, designVars
<1> QED BY <1>4, <1>5, <1>6 DEF GenerationInvariant

\* A failure is recorded on the worker's own attempt, and only if it runs.
LEMMA RecordFailureStep ==
  ASSUME GenerationInvariant, NEW w \in Workers, RecordFailure(w) PROVE GenerationInvariant'
<1> DEFINE a == job[w]
<1>1. /\ working[w] = "failing"
      /\ status' = IF status[a] = "RUNNING" THEN [status EXCEPT ![a] = "FAILED"]
                   ELSE status
      /\ working' = [working EXCEPT ![w] = "idle"]
      /\ job' = [job EXCEPT ![w] = 0]
      /\ UNCHANGED <<allDesignVars, attempts, artifacts, stored>>
  BY DEF RecordFailure
<1>2. /\ a \in AttemptId
      /\ \A v \in Workers : v # w /\ working[v] # "idle" => job[v] # a
      /\ GenerationTypeOK
  BY <1>1, BusyWorker DEF GenerationInvariant
<1>3. /\ working'[w] = "idle"
      /\ \A v \in Workers : v # w => working'[v] = working[v] /\ job'[v] = job[v]
  BY <1>1, <1>2 DEF GenerationTypeOK, Artifact
<1>4. /\ \A b \in AttemptId : b # a => status'[b] = status[b]
      /\ status[a] = "RUNNING" => status'[a] = "FAILED"
      /\ status[a] # "RUNNING" => status'[a] = status[a]
  BY <1>1, <1>2 DEF GenerationTypeOK, Artifact
<1>5. DesignInvariant' /\ WriterHoldsItsRows'
  BY <1>1, <1>3, WriterUndisturbed
<1>6. GenerationTypeOK'
  BY <1>1, <1>2 DEF GenerationTypeOK, Artifact, WorkPhase, AttemptStatus
<1>7. ArtifactsAreBacked'
  BY <1>1, <1>2, <1>4 DEF GenerationInvariant, ArtifactsAreBacked
<1>8. WorkersHaveAttempts' /\ AttemptsHaveDesigns'
  BY <1>1, <1>3 DEF GenerationInvariant, WorkersHaveAttempts, AttemptsHaveDesigns,
     allDesignVars, designVars
<1>9. StatusesMatchRows'
  BY <1>1, <1>4 DEF GenerationInvariant, StatusesMatchRows
<1>10. WorkIsOpen'
  <2> SUFFICES ASSUME NEW v \in Workers, working'[v] \in {"generating", "written"}
               PROVE  status'[job'[v]] \in {"RUNNING", "CANCELLED"}
    BY DEF WorkIsOpen
  <2>1. v # w /\ working[v] = working'[v] /\ job'[v] = job[v]
    BY <1>3
  <2>2. job[v] # a /\ job[v] \in AttemptId
    BY <1>2, <2>1, BusyWorker
  <2> QED BY <1>4, <2>1, <2>2 DEF GenerationInvariant, WorkIsOpen
<1> QED BY <1>5, <1>6, <1>7, <1>8, <1>9, <1>10 DEF GenerationInvariant

\* A cancellation ends a running attempt whose row no worker has locked.
LEMMA CancelStep ==
  ASSUME GenerationInvariant, NEW a \in AttemptId, Cancel(a) PROVE GenerationInvariant'
<1>1. /\ status[a] = "RUNNING"
      /\ status' = [status EXCEPT ![a] = "CANCELLED"]
      /\ UNCHANGED <<allDesignVars, attempts, artifacts, stored, working, job>>
  BY DEF Cancel
<1>2. GenerationTypeOK
  BY DEF GenerationInvariant
<1>3. status'[a] = "CANCELLED" /\ \A b \in AttemptId : b # a => status'[b] = status[b]
  BY <1>1, <1>2 DEF GenerationTypeOK, Artifact
<1>4. DesignInvariant'
  BY <1>1, DesignStutter DEF GenerationInvariant
<1>5. GenerationTypeOK' /\ ArtifactsAreBacked'
  BY <1>1, <1>2, <1>3
     DEF GenerationInvariant, GenerationTypeOK, Artifact, AttemptStatus,
       ArtifactsAreBacked
<1>6. WorkersHaveAttempts' /\ AttemptsHaveDesigns' /\ StatusesMatchRows'
  BY <1>1, <1>3 DEF GenerationInvariant, WorkersHaveAttempts, AttemptsHaveDesigns,
     StatusesMatchRows, allDesignVars, designVars
<1>7. WriterHoldsItsRows'
  BY <1>1 DEF GenerationInvariant, WriterHoldsItsRows, Authorized, ReviewerStands, Fenced,
     CanEdit, allDesignVars, allCaseVars, designVars, AtContext, MateriallyCurrent
<1>8. WorkIsOpen'
  <2> SUFFICES ASSUME NEW v \in Workers, working[v] \in {"generating", "written"}
               PROVE  status'[job[v]] \in {"RUNNING", "CANCELLED"}
    BY <1>1 DEF WorkIsOpen
  <2>1. job[v] \in AttemptId
    BY BusyWorker
  <2> QED BY <1>3, <2>1 DEF GenerationInvariant, WorkIsOpen
<1> QED BY <1>4, <1>5, <1>6, <1>7, <1>8 DEF GenerationInvariant

\* start adds an attempt that nobody works on yet, when none is running.
LEMMA StartStep ==
  ASSUME GenerationInvariant, NEW w \in Workers, NEW m \in Members,
         NEW k \in BuildCommands, NEW mode \in Mode, NEW d \in 1 .. Len(designs),
         NEW source \in AttemptId \cup {0}, NEW s \in SettingsVersions,
         Start(w, m, k, mode, d, source, s)
  PROVE  GenerationInvariant'
<1> DEFINE n == Len(attempts) + 1
           new == [creator |-> m, command |-> k, mode |-> mode, design |-> d,
                   source |-> source]
<1>1. /\ working[w] = "idle"
      /\ \A a \in AttemptId : status[a] # "RUNNING"
      /\ Len(attempts) < MaxAttempts
      /\ attempts' = Append(attempts, new)
      /\ status' = [status EXCEPT ![n] = "RUNNING"]
      /\ working' = [working EXCEPT ![w] = "generating"]
      /\ job' = [job EXCEPT ![w] = n]
      /\ UNCHANGED <<allDesignVars, artifacts, stored>>
  BY DEF Start, EligibleDesign, IsNewBuild, NoActiveAttempt, CreateGenerationAttempt,
       Snapshot
<1>2. GenerationTypeOK /\ Len(designs) \in Nat /\ Len(designs) <= MaxDesigns
  BY DEF GenerationInvariant, DesignInvariant, DesignTypeOK
<1>3. d \in DesignId /\ new \in Attempt
  BY <1>2, DesignAssumption DEF Attempt, DesignId
<1>4. n \in AttemptId /\ Len(attempts) \in Nat
  BY <1>1, <1>2, GenerationAssumption DEF GenerationTypeOK, Artifact, AttemptId
<1>5. /\ Len(attempts') = n
      /\ \A a \in 1 .. Len(attempts) : attempts'[a] = attempts[a]
      /\ attempts'[n] = new
  BY <1>1, <1>2, <1>3 DEF GenerationTypeOK, Artifact
<1>6. /\ working'[w] = "generating" /\ job'[w] = n
      /\ \A v \in Workers : v # w => working'[v] = working[v] /\ job'[v] = job[v]
      /\ status'[n] = "RUNNING"
      /\ \A a \in AttemptId : a # n => status'[a] = status[a]
  BY <1>1, <1>2, <1>4 DEF GenerationTypeOK, Artifact
<1>7. \A v \in Workers : working[v] # "idle" => job[v] \in 1 .. Len(attempts)
  BY DEF GenerationInvariant, WorkersHaveAttempts
<1>8. DesignInvariant' /\ WriterHoldsItsRows'
  BY <1>1, <1>5, <1>6, <1>7, WriterUndisturbed
<1>9. GenerationTypeOK'
  <2>1. attempts' \in Seq(Attempt) /\ Len(attempts') <= MaxAttempts
    BY <1>1, <1>2, <1>3, GenerationAssumption DEF GenerationTypeOK, Artifact
  <2>2. status' \in [AttemptId -> AttemptStatus]
    BY <1>1, <1>2, <1>4 DEF GenerationTypeOK, Artifact, AttemptStatus
  <2>3. working' \in [Workers -> WorkPhase] /\ job' \in [Workers -> AttemptId \cup {0}]
    BY <1>1, <1>2, <1>4 DEF GenerationTypeOK, Artifact, WorkPhase
  <2> QED BY <1>1, <1>2, <2>1, <2>2, <2>3 DEF GenerationTypeOK, Artifact
<1>10. WorkersHaveAttempts'
  BY <1>4, <1>5, <1>6, <1>7 DEF GenerationInvariant, WorkersHaveAttempts
<1>11. AttemptsHaveDesigns'
  <2> SUFFICES ASSUME NEW a \in 1 .. Len(attempts')
               PROVE  attempts'[a].design \in 1 .. Len(designs)
    BY <1>1 DEF AttemptsHaveDesigns, allDesignVars, designVars
  <2>1. a \in 1 .. Len(attempts) \/ a = n
    BY <1>4, <1>5
  <2> QED BY <1>5, <2>1 DEF GenerationInvariant, AttemptsHaveDesigns
<1>12. status[n] = "NONE"
  BY <1>4 DEF GenerationInvariant, StatusesMatchRows, AttemptId
<1>13. StatusesMatchRows'
  BY <1>1, <1>4, <1>5, <1>6, <1>12, GenerationAssumption
     DEF GenerationInvariant, StatusesMatchRows, AttemptId
<1>14. WorkIsOpen'
  <2> SUFFICES ASSUME NEW v \in Workers, working'[v] \in {"generating", "written"}
               PROVE  status'[job'[v]] \in {"RUNNING", "CANCELLED"}
    BY DEF WorkIsOpen
  <2>1. CASE v = w
    BY <1>6, <2>1
  <2>2. CASE v # w
    <3>1. job'[v] = job[v] /\ working[v] = working'[v]
      BY <1>6, <2>2
    <3>2. job[v] \in AttemptId /\ job[v] # n
      BY <1>4, <1>7, <3>1, BusyWorker
    <3> QED BY <1>6, <3>1, <3>2 DEF GenerationInvariant, WorkIsOpen
  <2> QED BY <2>1, <2>2
<1>15. ArtifactsAreBacked'
  BY <1>1, <1>4, <1>6, <1>12 DEF GenerationInvariant, ArtifactsAreBacked
<1> QED
  BY <1>8, <1>9, <1>10, <1>11, <1>13, <1>14, <1>15 DEF GenerationInvariant

-----------------------------------------------------------------------------
\* Every step keeps the invariant.
LEMMA GenerationStep ==
  ASSUME GenerationInvariant, GenerationNext PROVE GenerationInvariant'
<1>1. CASE DesignNext /\ UNCHANGED generationVars
  BY <1>1, DesignsKeepGeneration
<1>2. ASSUME NEW w \in Workers, NEW m \in Members, NEW k \in BuildCommands,
             NEW mode \in Mode, NEW d \in 1 .. Len(designs),
             NEW source \in AttemptId \cup {0}, NEW s \in SettingsVersions,
             Start(w, m, k, mode, d, source, s)
      PROVE  GenerationInvariant'
  BY <1>2, StartStep
<1>3. ASSUME NEW w \in Workers, WorkerStep(w) PROVE GenerationInvariant'
  BY <1>3, StoreStep, SuccessStep, RefusedStep, BuildFailsStep, RecordFailureStep
     DEF WorkerStep
<1>4. ASSUME NEW w \in Workers, Abandon(w) PROVE GenerationInvariant'
  BY <1>4, AbandonStep
<1>5. ASSUME NEW a \in AttemptId, Cancel(a) PROVE GenerationInvariant'
  BY <1>5, CancelStep
<1> QED BY <1>1, <1>2, <1>3, <1>4, <1>5 DEF GenerationNext, GenerationHandlers

\* So does a step of something else.
LEMMA GenerationStutter ==
  ASSUME GenerationInvariant, UNCHANGED allGenerationVars PROVE GenerationInvariant'
<1>1. UNCHANGED allDesignVars /\ UNCHANGED generationVars
  BY DEF allGenerationVars
<1>2. DesignInvariant'
  BY <1>1, DesignStutter DEF GenerationInvariant
<1>3. /\ GenerationTypeOK' /\ WorkersHaveAttempts' /\ StatusesMatchRows' /\ WorkIsOpen'
      /\ ArtifactsAreBacked' /\ AttemptsHaveDesigns'
  BY <1>1 DEF GenerationInvariant, generationVars, GenerationTypeOK, Artifact,
              WorkersHaveAttempts, StatusesMatchRows, WorkIsOpen, ArtifactsAreBacked,
              AttemptsHaveDesigns, allDesignVars, designVars
<1>4. WriterHoldsItsRows'
  BY <1>1 DEF GenerationInvariant, WriterHoldsItsRows, Authorized, ReviewerStands, Fenced,
     CanEdit, allDesignVars, allCaseVars, designVars, generationVars, AtContext, MateriallyCurrent
<1> QED BY <1>2, <1>3, <1>4 DEF GenerationInvariant

(***************************************************************************)
(* Locks, workers, rows and bytes of builds agree in every reachable state.*)
(***************************************************************************)
THEOREM GenerationInvariantHolds == GenerationSpec => []GenerationInvariant
<1>1. GenerationInvariant /\ [GenerationNext]_allGenerationVars => GenerationInvariant'
  BY GenerationStep, GenerationStutter
<1> QED BY <1>1, GenerationStart, PTL DEF GenerationSpec

(***************************************************************************)
(* The rows of builds keep their types within the bounds.                  *)
(***************************************************************************)
THEOREM GenerationTypeCorrect == GenerationSpec => []GenerationTypeOK
<1>1. GenerationInvariant => GenerationTypeOK
  BY DEF GenerationInvariant
<1> QED BY <1>1, GenerationInvariantHolds, PTL

(***************************************************************************)
(* The artifact of a succeeded attempt is never deleted, whatever commits, *)
(* acknowledgements, deletes or processes fail.                            *)
(***************************************************************************)
THEOREM ArtifactsBacked == GenerationSpec => []ArtifactsAreBacked
<1>1. GenerationInvariant => ArtifactsAreBacked
  BY DEF GenerationInvariant
<1> QED BY <1>1, GenerationInvariantHolds, PTL

-----------------------------------------------------------------------------
(* What a step may do to the status of an attempt.                          *)

\* A status changes in start, with a success, or at an end.
StatusMoves ==
    \/ UNCHANGED <<attempts, status, artifacts>>
    \/ \E w \in Workers : CommitSuccess(w) \/ CommitUnacknowledged(w)
    \/ \E w \in Workers :
         /\ RecordFailure(w)
         /\ status[job[w]] = "RUNNING"
         /\ UNCHANGED attempts
    \/ \E a \in AttemptId : Cancel(a)
    \/ \E w \in Workers, m \in Members, k \in BuildCommands, mode \in Mode,
          d \in 1 .. Len(designs), source \in AttemptId \cup {0},
          s \in SettingsVersions : Start(w, m, k, mode, d, source, s)

\* Those are all the steps there are.
LEMMA StepMovesStatus == ASSUME GenerationNext PROVE StatusMoves
BY DEF GenerationNext, GenerationHandlers, StatusMoves, WorkerStep, StoreArtifact,
       WriteBytes, CommitFails, DiscardArtifact, CleanUp, RollBack, BridgeFails,
       BuildFails, RecordFailure, Abandon, generationVars

(***************************************************************************)
(* An attempt succeeds only while its creator and reviewer may edit and    *)
(* its input is what the database holds.                                   *)
(***************************************************************************)
THEOREM SuccessAuthorized == GenerationSpec => SuccessIsAuthorized
<1>1. ASSUME GenerationInvariant, [GenerationNext]_allGenerationVars,
             NEW a \in AttemptId, status[a] # "SUCCEEDED", status'[a] = "SUCCEEDED"
      PROVE  Authorized(a)
  <2>1. GenerationNext
    BY <1>1 DEF allGenerationVars, generationVars
  <2>2. GenerationTypeOK
    BY <1>1 DEF GenerationInvariant
  <2>3. \E w \in Workers : CommitSuccess(w) \/ CommitUnacknowledged(w)
    <3>1. status \in [AttemptId -> AttemptStatus]
      BY <2>2 DEF GenerationTypeOK, Artifact
    <3>2. status' # status
      BY <1>1
    <3>3. ASSUME NEW w \in Workers, RecordFailure(w) PROVE FALSE
      BY <1>1, <3>1, <3>3 DEF RecordFailure
    <3>4. ASSUME NEW b \in AttemptId, Cancel(b) PROVE FALSE
      BY <1>1, <3>1, <3>4 DEF Cancel
    <3>5. ASSUME NEW w \in Workers, NEW m \in Members, NEW k \in BuildCommands,
                 NEW mode \in Mode, NEW d \in 1 .. Len(designs),
                 NEW source \in AttemptId \cup {0}, NEW s \in SettingsVersions,
                 Start(w, m, k, mode, d, source, s)
          PROVE  FALSE
      BY <1>1, <3>1, <3>5 DEF Start, EligibleDesign, IsNewBuild, NoActiveAttempt,
                              CreateGenerationAttempt, Snapshot
    <3> QED BY <2>1, <3>2, <3>3, <3>4, <3>5, StepMovesStatus DEF StatusMoves
  <2>4. PICK w \in Workers : WriteSuccess(w)
    BY <2>3 DEF CommitSuccess, CommitUnacknowledged
  <2>5. a = job[w] /\ working[w] = "written"
    BY <1>1, <2>2, <2>4 DEF WriteSuccess, AddGeneratedArtifact, GenerationTypeOK,
                            Artifact
  <2> QED BY <1>1, <2>5 DEF GenerationInvariant, WriterHoldsItsRows
<1>2. GenerationInvariant /\ [GenerationNext]_allGenerationVars
        => [\A a \in AttemptId :
              status[a] # "SUCCEEDED" /\ status'[a] = "SUCCEEDED"
                => Authorized(a)]_allGenerationVars
  BY <1>1
<1> QED BY <1>2, GenerationInvariantHolds, PTL DEF GenerationSpec, SuccessIsAuthorized

-----------------------------------------------------------------------------
(* The history of a case.                                                   *)

\* An attempt that ended keeps its status.
LEMMA EndedStays ==
  ASSUME GenerationInvariant, GenerationNext, NEW a \in AttemptId,
         status[a] \in {"SUCCEEDED", "FAILED", "CANCELLED"}
  PROVE  status'[a] = status[a]
<1>1. status \in [AttemptId -> AttemptStatus]
  BY DEF GenerationInvariant, GenerationTypeOK, Artifact
<1>2. ASSUME NEW w \in Workers, CommitSuccess(w) \/ CommitUnacknowledged(w)
      PROVE  status'[a] = status[a]
  BY <1>1, <1>2 DEF CommitSuccess, CommitUnacknowledged, WriteSuccess,
                    AddGeneratedArtifact
<1>3. ASSUME NEW w \in Workers, RecordFailure(w), status[job[w]] = "RUNNING"
      PROVE  status'[a] = status[a]
  BY <1>1, <1>3 DEF RecordFailure
<1>4. ASSUME NEW b \in AttemptId, Cancel(b) PROVE status'[a] = status[a]
  BY <1>1, <1>4 DEF Cancel
<1>5. ASSUME NEW w \in Workers, NEW m \in Members, NEW k \in BuildCommands,
             NEW mode \in Mode, NEW d \in 1 .. Len(designs),
             NEW source \in AttemptId \cup {0}, NEW s \in SettingsVersions,
             Start(w, m, k, mode, d, source, s)
      PROVE  status'[a] = status[a]
  <2>1. status[Len(attempts) + 1] = "NONE"
    BY <1>5, GenerationAssumption DEF Start, EligibleDesign, IsNewBuild,
                                      NoActiveAttempt, CreateGenerationAttempt,
                                      Snapshot, GenerationInvariant, GenerationTypeOK,
                                      Artifact, StatusesMatchRows, AttemptId
  <2> QED BY <1>1, <1>5, <2>1 DEF Start, EligibleDesign, IsNewBuild, NoActiveAttempt,
                                  CreateGenerationAttempt, Snapshot
<1> QED BY <1>2, <1>3, <1>4, <1>5, StepMovesStatus DEF StatusMoves

\* What the history says of one attempt.
Linked(a) ==
    /\ attempts[a].source < a
    /\ attempts[a].mode = "RETRY" =>
         /\ attempts[a].source > 0
         /\ attempts[attempts[a].source].design = attempts[a].design
         /\ status[attempts[a].source] \in {"FAILED", "CANCELLED"}
    /\ attempts[a].mode = "BUILD" =>
         \A b \in 1 .. a - 1 : attempts[b].design # attempts[a].design

\* An attempt stays linked as it was made.
LEMMA LinkStays ==
  ASSUME GenerationInvariant, GenerationNext, NEW a \in 1 .. Len(attempts), Linked(a),
         \A b \in 1 .. Len(attempts) : attempts'[b] = attempts[b]
  PROVE  Linked(a)'
<1>1. Len(attempts) \in Nat /\ Len(attempts) <= MaxAttempts /\ attempts[a] \in Attempt
  BY DEF GenerationInvariant, GenerationTypeOK, Artifact
<1>2. attempts[a].source \in Nat /\ a \in Nat
  BY <1>1, GenerationAssumption DEF Attempt, AttemptId
<1>3. ASSUME attempts[a].mode = "RETRY"
      PROVE  /\ attempts'[attempts[a].source] = attempts[attempts[a].source]
             /\ status'[attempts[a].source] = status[attempts[a].source]
  <2>1. attempts[a].source \in 1 .. Len(attempts) /\ attempts[a].source \in AttemptId
    BY <1>1, <1>2, <1>3, GenerationAssumption DEF Linked, AttemptId
  <2> QED BY <1>3, <2>1, EndedStays DEF Linked
<1>4. \A b \in 1 .. a - 1 : attempts'[b] = attempts[b]
  BY <1>1
<1>5. attempts'[a] = attempts[a]
  OBVIOUS
<1> QED BY <1>3, <1>4, <1>5 DEF Linked

\* start links an attempt as its mode demands.
LEMMA StartLinks ==
  ASSUME GenerationInvariant, NEW w \in Workers, NEW m \in Members,
         NEW k \in BuildCommands, NEW mode \in Mode, NEW d \in 1 .. Len(designs),
         NEW source \in AttemptId \cup {0}, NEW s \in SettingsVersions,
         Start(w, m, k, mode, d, source, s), NEW n \in Nat, n = Len(attempts) + 1
  PROVE  /\ Len(attempts') = n
         /\ \A b \in 1 .. Len(attempts) : attempts'[b] = attempts[b]
         /\ Linked(n)'
<1> DEFINE new == [creator |-> m, command |-> k, mode |-> mode, design |-> d,
                   source |-> source]
<1>1. /\ attempts \in Seq(Attempt)
      /\ Len(attempts) \in Nat
      /\ Len(attempts) < MaxAttempts
      /\ attempts' = Append(attempts, new)
      /\ status' = [status EXCEPT ![n] = "RUNNING"]
      /\ status \in [AttemptId -> AttemptStatus]
      /\ ResolvesTo(mode, d, source)
  BY DEF GenerationInvariant, GenerationTypeOK, Artifact, Start, EligibleDesign,
       IsNewBuild, NoActiveAttempt, CreateGenerationAttempt, Snapshot
<1>2. /\ Len(attempts') = n
      /\ \A b \in 1 .. Len(attempts) : attempts'[b] = attempts[b]
      /\ attempts'[n] = new
  BY <1>1
<1>3. CASE mode = "BUILD"
  <2>1. source = 0 /\ \A b \in 1 .. Len(attempts) : attempts[b].design # d
    BY <1>1, <1>3 DEF ResolvesTo, EquivalentAttempts
  <2>2. \A b \in 1 .. n - 1 : attempts'[b].design # d
    BY <1>1, <1>2, <2>1
  <2> QED BY <1>1, <1>2, <1>3, <2>1, <2>2 DEF Linked
<1>4. CASE mode = "RETRY"
  <2>1. /\ source \in 1 .. Len(attempts)
        /\ attempts[source].design = d
        /\ status[source] \in {"FAILED", "CANCELLED"}
    BY <1>1, <1>4 DEF ResolvesTo, EquivalentAttempts
  <2>2. source # n /\ source \in AttemptId /\ source < n /\ source > 0
    BY <1>1, <2>1, GenerationAssumption DEF AttemptId
  <2>3. status'[source] = status[source] /\ attempts'[source] = attempts[source]
    BY <1>1, <1>2, <2>1, <2>2
  <2> QED BY <1>2, <1>4, <2>1, <2>2, <2>3 DEF Linked
<1>5. CASE mode = "REGENERATE"
  <2>1. source < n
    BY <1>1, <1>5 DEF ResolvesTo, EquivalentAttempts
  <2> QED BY <1>2, <1>5, <2>1 DEF Linked
<1> QED BY <1>2, <1>3, <1>4, <1>5 DEF Mode

(***************************************************************************)
(* Retries name earlier attempts of the same input that ended without an   *)
(* artifact, and an input is built once by a plain BUILD.                  *)
(***************************************************************************)
THEOREM HistoryWellFounded == GenerationSpec => []HistoryIsWellFounded
<1>1. CaseInit /\ DesignInit /\ GenerationInit => HistoryIsWellFounded
  BY DEF GenerationInit, HistoryIsWellFounded
<1>2. GenerationInvariant /\ HistoryIsWellFounded /\ [GenerationNext]_allGenerationVars
        => HistoryIsWellFounded'
  <2> SUFFICES ASSUME GenerationInvariant, HistoryIsWellFounded,
                      [GenerationNext]_allGenerationVars
               PROVE  HistoryIsWellFounded'
    OBVIOUS
  <2>1. \A a \in 1 .. Len(attempts) : Linked(a)
    BY DEF HistoryIsWellFounded, Linked
  <2>2. CASE UNCHANGED <<attempts, status>>
    BY <2>2 DEF HistoryIsWellFounded
  <2>3. ASSUME GenerationNext, attempts' = attempts PROVE HistoryIsWellFounded'
    <3>1. \A a \in 1 .. Len(attempts') : Linked(a)'
      BY <2>1, <2>3, LinkStays
    <3> QED BY <3>1 DEF HistoryIsWellFounded, Linked
  <2>4. ASSUME GenerationNext,
               NEW w \in Workers, NEW m \in Members, NEW k \in BuildCommands,
               NEW mode \in Mode, NEW d \in 1 .. Len(designs),
               NEW source \in AttemptId \cup {0}, NEW s \in SettingsVersions,
               Start(w, m, k, mode, d, source, s)
        PROVE  HistoryIsWellFounded'
    <3>1. PICK n \in Nat : n = Len(attempts) + 1
      BY DEF GenerationInvariant, GenerationTypeOK, Artifact
    <3>2. /\ Len(attempts') = n
          /\ \A b \in 1 .. Len(attempts) : attempts'[b] = attempts[b]
          /\ Linked(n)'
      BY <2>4, <3>1, StartLinks
    <3>3. \A a \in 1 .. Len(attempts) : Linked(a)'
      BY <2>1, <2>4, <3>2, LinkStays
    <3>4. \A a \in 1 .. Len(attempts') : Linked(a)'
      BY <3>1, <3>2, <3>3
    <3> QED BY <3>4 DEF HistoryIsWellFounded, Linked
  <2>5. CASE UNCHANGED allGenerationVars
    BY <2>2, <2>5 DEF allGenerationVars, generationVars
  <2>6. CASE GenerationNext
    BY <2>2, <2>3, <2>4, <2>6, StepMovesStatus
       DEF StatusMoves, CommitSuccess, CommitUnacknowledged, Cancel
  <2> QED BY <2>5, <2>6
<1> QED BY <1>1, <1>2, GenerationInvariantHolds, PTL DEF GenerationSpec

-----------------------------------------------------------------------------
(* The refinement of AttemptLifecycle.                                      *)

\* Every step is one of the abstract lifecycle, or none.
LEMMA LifecycleMove ==
  ASSUME GenerationInvariant, GenerationInvariant', GenerationNext
  PROVE  Lifecycle!LifecycleNext \/ (status' = status /\ Downloadable' = Downloadable)
<1> USE DEF Lifecycle!AttemptId
<1>1. /\ status \in [AttemptId -> AttemptStatus]
      /\ Downloadable = artifacts /\ Downloadable' = artifacts'
  BY DEF GenerationInvariant, GenerationTypeOK, Artifact, ArtifactsAreBacked,
       Downloadable, ReadVerified
<1>2. AttemptId = 1 .. MaxAttempts
  BY DEF AttemptId
<1>3. CASE UNCHANGED <<attempts, status, artifacts>>
  BY <1>1, <1>3
<1>4. ASSUME NEW w \in Workers, CommitSuccess(w) \/ CommitUnacknowledged(w)
      PROVE  Lifecycle!LifecycleNext
  <2>1. WriteSuccess(w)
    BY <1>4 DEF CommitSuccess, CommitUnacknowledged
  <2>2. job[w] \in AttemptId
    BY <2>1, BusyWorker DEF WriteSuccess, AddGeneratedArtifact
  <2>3. Lifecycle!Succeed(job[w])
    BY <1>1, <2>1 DEF WriteSuccess, AddGeneratedArtifact, Lifecycle!Succeed
  <2> QED BY <1>2, <2>2, <2>3 DEF Lifecycle!LifecycleNext
<1>5. ASSUME NEW w \in Workers, RecordFailure(w), status[job[w]] = "RUNNING"
      PROVE  Lifecycle!LifecycleNext
  <2>1. job[w] \in AttemptId
    BY <1>5, BusyWorker DEF RecordFailure
  <2>2. Lifecycle!End(job[w])
    BY <1>1, <1>5 DEF RecordFailure, Lifecycle!End
  <2> QED BY <1>2, <2>1, <2>2 DEF Lifecycle!LifecycleNext
<1>6. ASSUME NEW a \in AttemptId, Cancel(a) PROVE Lifecycle!LifecycleNext
  <2>1. Lifecycle!End(a)
    BY <1>1, <1>6 DEF Cancel, Lifecycle!End
  <2> QED BY <1>2, <2>1 DEF Lifecycle!LifecycleNext
<1>7. ASSUME NEW w \in Workers, NEW m \in Members, NEW k \in BuildCommands,
             NEW mode \in Mode, NEW d \in 1 .. Len(designs),
             NEW source \in AttemptId \cup {0}, NEW s \in SettingsVersions,
             Start(w, m, k, mode, d, source, s)
      PROVE  Lifecycle!LifecycleNext
  <2> DEFINE n == Len(attempts) + 1
  <2>1. /\ Len(attempts) \in Nat /\ n \in AttemptId
        /\ \A a \in AttemptId : status[a] # "RUNNING"
        /\ status' = [status EXCEPT ![n] = "RUNNING"]
        /\ artifacts' = artifacts
    BY <1>7, GenerationAssumption
       DEF Start, EligibleDesign, IsNewBuild, NoActiveAttempt, CreateGenerationAttempt,
       Snapshot, GenerationInvariant, GenerationTypeOK, Artifact, AttemptId
  <2>2. status[n] = "NONE" /\ \A b \in AttemptId : b < n => status[b] # "NONE"
    BY <2>1, GenerationAssumption DEF GenerationInvariant, StatusesMatchRows, AttemptId
  <2>3. Lifecycle!Begin(n)
    BY <1>1, <1>2, <2>1, <2>2 DEF Lifecycle!Begin
  <2> QED BY <1>2, <2>1, <2>3 DEF Lifecycle!LifecycleNext
<1> QED BY <1>3, <1>4, <1>5, <1>6, <1>7, StepMovesStatus DEF StatusMoves

(***************************************************************************)
(* Builds with their workers, locks, bytes and failures implement the      *)
(* lifecycle of attempts that clients see.                                 *)
(***************************************************************************)
THEOREM LifecycleImplemented == GenerationSpec => ImplementsLifecycle
<1>1. CaseInit /\ DesignInit /\ GenerationInit => Lifecycle!LifecycleInit
  BY DEF GenerationInit, Lifecycle!LifecycleInit, Lifecycle!AttemptId, AttemptId,
       Downloadable, ReadVerified
<1>2. GenerationInvariant /\ GenerationInvariant' /\ [GenerationNext]_allGenerationVars
        => [Lifecycle!LifecycleNext]_(Lifecycle!lifecycleVars)
  <2>1. ASSUME UNCHANGED allGenerationVars
        PROVE  status' = status /\ Downloadable' = Downloadable
    BY <2>1 DEF allGenerationVars, generationVars, Downloadable, ReadVerified
  <2> QED BY <2>1, LifecycleMove DEF Lifecycle!lifecycleVars
<1> QED
  BY <1>1, <1>2, GenerationInvariantHolds, PTL
     DEF GenerationSpec, ImplementsLifecycle, Lifecycle!LifecycleSpec

-----------------------------------------------------------------------------
(* The row locks of a build.                                                *)

\* The case and its designs as they are when no build holds a row.
Unlocked == INSTANCE Designs WITH held <- {}

\* A handler that waits for no build takes the same step.
LEMMA CaseUnlocked == ASSUME CaseNext PROVE Unlocked!CaseNext
<1> USE DEF MayEdit, SomeoneAdmitted, Snapshot, SettingsVersions, accessVars, caseVars,
            Unlocked!MayEdit, Unlocked!SomeoneAdmitted, Unlocked!Snapshot,
            Unlocked!SettingsVersions, Unlocked!accessVars, Unlocked!caseVars,
            Unlocked!CaseFree
<1>1. CASE ConversationAndFileHandlers
  <2>1. AddContext => Unlocked!AddContext
    BY DEF AddContext, Unlocked!AddContext
  <2>2. \A item \in Items : AddEvidence(item) => Unlocked!AddEvidence(item)
    BY DEF AddEvidence, IsBoundAlready, Bind, Unlocked!AddEvidence, Unlocked!IsBoundAlready,
           Unlocked!Bind
  <2> QED
    BY <1>1, <2>1, <2>2
       DEF ConversationAndFileHandlers, Unlocked!ConversationAndFileHandlers, Unlocked!CaseNext
<1>2. CASE RequirementHandlers
  <2>1. \A s \in SettingsVersions, ready \in BOOLEAN :
          CreateInterpretation(s, ready) => Unlocked!CreateInterpretation(s, ready)
    BY DEF CreateInterpretation, HasContext, AtContext, AddInterpretation, CurrentContext,
           Unlocked!CreateInterpretation, Unlocked!HasContext, Unlocked!AtContext,
           Unlocked!AddInterpretation, Unlocked!CurrentContext
  <2>2. \A s \in SettingsVersions :
          ConfirmInterpretation(s) => Unlocked!ConfirmInterpretation(s)
    BY DEF ConfirmInterpretation, AtContext, ContextStands, MateriallyCurrent,
           AcceptInterpretation, Unlocked!ConfirmInterpretation, Unlocked!AtContext,
           Unlocked!ContextStands, Unlocked!MateriallyCurrent, Unlocked!AcceptInterpretation
  <2>3. UpdateRequest => Unlocked!UpdateRequest
    BY DEF UpdateRequest, NewRequestVersion, Unlocked!UpdateRequest,
           Unlocked!NewRequestVersion
  <2> QED
    BY <1>2, <2>1, <2>2, <2>3
       DEF RequirementHandlers, Unlocked!RequirementHandlers, Unlocked!CaseNext
<1>3. CASE AccessHandlers
  <2>1. \A o, m \in Members, level \in {"VIEWER", "EDITOR"} :
          GrantAccess(o, m, level) => Unlocked!GrantAccess(o, m, level)
    BY DEF GrantAccess, Grant, Unlocked!GrantAccess, Unlocked!Grant
  <2>2. \A o, m \in Members : RevokeAccess(o, m) => Unlocked!RevokeAccess(o, m)
    BY DEF RevokeAccess, Unlocked!RevokeAccess
  <2> QED
    BY <1>3, <2>1, <2>2 DEF AccessHandlers, Unlocked!AccessHandlers, Unlocked!CaseNext
<1>4. \A m \in Members : Admit(m) => Unlocked!Admit(m)
  BY DEF Admit, CanEdit, EditLevel, Unlocked!Admit, Unlocked!CanEdit, Unlocked!EditLevel
<1>5. \A m \in Members, level \in EditLevel : Leave(m, level) => Unlocked!Leave(m, level)
  BY DEF Leave, Unlocked!Leave
<1>6. \A m \in Members : DeactivateMembership(m) => Unlocked!DeactivateMembership(m)
  BY DEF DeactivateMembership, Unlocked!DeactivateMembership
<1>7. ChangeSettings => Unlocked!ChangeSettings
  BY DEF ChangeSettings, Unlocked!ChangeSettings
<1>8. EditLevel = Unlocked!EditLevel
  BY DEF EditLevel, Unlocked!EditLevel
<1> QED
  BY <1>1, <1>2, <1>3, <1>4, <1>5, <1>6, <1>7, <1>8 DEF CaseNext, Unlocked!CaseNext

\* So does a handler of the designs.
LEMMA DesignsUnlocked == ASSUME DesignNext PROVE Unlocked!DesignNext
<1> USE DEF Snapshot, SettingsVersions, CanEdit, EditLevel, BuildableAs, CurrentBinding,
            AddReviewedDesign, allCaseVars, designVars, Unlocked!Snapshot,
            Unlocked!SettingsVersions, Unlocked!CanEdit, Unlocked!EditLevel,
            Unlocked!BuildableAs, Unlocked!CurrentBinding, Unlocked!AddReviewedDesign,
            Unlocked!allCaseVars, Unlocked!designVars, Unlocked!CaseFree
<1>1. CASE CaseNext /\ UNCHANGED designVars
  BY <1>1, CaseUnlocked DEF Unlocked!DesignNext
<1>2. CASE DesignHandlers
  <2>1. \A m \in Members, s \in SettingsVersions :
          IntakeReviewedDesign(m, s) => Unlocked!IntakeReviewedDesign(m, s)
    BY DEF IntakeReviewedDesign, Unlocked!IntakeReviewedDesign
  <2>2. \A m \in Members, s \in SettingsVersions, p \in Proposers, k \in DesignCommands :
          BeginProposal(p, m, k, s) => Unlocked!BeginProposal(p, m, k, s)
    BY DEF BeginProposal, IsNewProposal, CreateDesignAttempt, Unlocked!BeginProposal,
           Unlocked!IsNewProposal, Unlocked!CreateDesignAttempt
  <2> QED
    BY <1>2, <2>1, <2>2 DEF DesignHandlers, Unlocked!DesignHandlers, Unlocked!DesignNext
<1>3. ASSUME NEW p \in Proposers, CanFinish(p) PROVE Unlocked!CanFinish(p)
  BY <1>3 DEF CanFinish, StillBuildable, Unlocked!CanFinish, Unlocked!StillBuildable
<1>4. \A p \in Proposers : FinishProposal(p) => Unlocked!FinishProposal(p)
  BY <1>3 DEF FinishProposal, WriteEligible, Unlocked!FinishProposal, Unlocked!WriteEligible
<1>5. \A p \in Proposers : FinishUnacknowledged(p) => Unlocked!FinishUnacknowledged(p)
  BY <1>3 DEF FinishUnacknowledged, WriteEligible, Unlocked!FinishUnacknowledged,
              Unlocked!WriteEligible
<1>6. \A p \in Proposers : ProposalFails(p) => Unlocked!ProposalFails(p)
  BY DEF ProposalFails, Unlocked!ProposalFails
<1>7. \A p \in Proposers : RecordProposalFailure(p) => Unlocked!RecordProposalFailure(p)
  BY DEF RecordProposalFailure, Unlocked!RecordProposalFailure
<1>8. \A p \in Proposers : AbandonProposal(p) => Unlocked!AbandonProposal(p)
  BY DEF AbandonProposal, Unlocked!AbandonProposal
<1> QED
  BY <1>1, <1>2, <1>4, <1>5, <1>6, <1>7, <1>8 DEF DesignNext, Unlocked!DesignNext

\* No step of a build writes a row of the case or of its designs.
LEMMA BuildsLeaveDesigns ==
  ASSUME GenerationHandlers \/ \E w \in Workers : WorkerStep(w) \/ Abandon(w)
  PROVE  UNCHANGED Unlocked!allDesignVars
<1> USE DEF allDesignVars, allCaseVars, caseVars, accessVars, designVars,
            Unlocked!allDesignVars, Unlocked!allCaseVars, Unlocked!designVars
<1>1. CASE GenerationHandlers
  BY <1>1 DEF GenerationHandlers, Start, Cancel
<1>2. ASSUME NEW w \in Workers, WorkerStep(w)
      PROVE  UNCHANGED Unlocked!allDesignVars
  BY <1>2 DEF WorkerStep, StoreArtifact, CommitSuccess, CommitUnacknowledged, CommitFails,
              DiscardArtifact, RollBack, BridgeFails, BuildFails, RecordFailure
<1>3. ASSUME NEW w \in Workers, Abandon(w)
      PROVE  UNCHANGED Unlocked!allDesignVars
  BY <1>3 DEF Abandon
<1> QED BY <1>1, <1>2, <1>3

(***************************************************************************)
(* Builds do nothing to the case and to its designs but delay them: with   *)
(* the locks of the workers hidden, every behaviour is one of Designs.     *)
(***************************************************************************)
THEOREM BuildsOnlyDelay == GenerationSpec => Unlocked!DesignSpec
<1>1. CaseInit /\ DesignInit => Unlocked!CaseInit /\ Unlocked!DesignInit
  BY DEF CaseInit, Versions, DesignInit, DesignAttemptId, Unlocked!CaseInit,
         Unlocked!Versions, Unlocked!DesignInit, Unlocked!DesignAttemptId
<1>2. ASSUME [GenerationNext]_allGenerationVars
      PROVE  [Unlocked!DesignNext]_(Unlocked!allDesignVars)
  <2>1. CASE DesignNext
    BY <2>1, DesignsUnlocked
  <2>2. CASE GenerationHandlers \/ \E w \in Workers : WorkerStep(w) \/ Abandon(w)
    BY <2>2, BuildsLeaveDesigns
  <2>3. CASE UNCHANGED allGenerationVars
    BY <2>3 DEF allGenerationVars, allDesignVars, allCaseVars, designVars,
                Unlocked!allDesignVars, Unlocked!allCaseVars, Unlocked!designVars
  <2> QED BY <1>2, <2>1, <2>2, <2>3 DEF GenerationNext
<1> QED BY <1>1, <1>2, PTL DEF GenerationSpec, Unlocked!DesignSpec
=============================================================================
