-------------------------- MODULE ReportingCaseProofs --------------------------
(***************************************************************************)
(* Proofs, for every company and every bound, about a case and about its   *)
(* conversation.  The handlers of a case keep its types, an interpretation *)
(* of the current context is exact, and every contract rests on one ready  *)
(* interpretation.  The handlers of the conversation are handlers of the   *)
(* case; every round of questions is charged to one cycle within the       *)
(* limits in force, and every answer is to a question, in order.           *)
(***************************************************************************)
EXTENDS Clarification, FiniteSetTheorems, TLAPS

\* Both counters start together and every new request version advances both.
VersionIsBounded == version <= context

\* An interpretation is the only one of its context and analysed evidence
\* that is still stored.
InterpretationsAreUnique ==
    /\ \A i, j \in interps : i.context = j.context => i = j
    /\ \A i \in interps : i.evidence # {} /\ i.evidence \subseteq evidence[i.request]

\* A contract accepts a ready interpretation.
ContractsAreReady ==
    \A c \in confirmed : \E i \in interps : i.context = c /\ i.ready

CaseInvariant ==
    /\ CaseTypeOK
    /\ VersionIsBounded
    /\ CurrentInterpretationIsExact
    /\ InterpretationsAreUnique
    /\ ContractsAreReady

\* A new case satisfies the invariant.
LEMMA CaseStart == CaseInit => CaseInvariant
<1> USE CaseAssumption DEF Versions, Contexts, Contracts, SettingsVersions
<1>1. CaseInit => CaseTypeOK
  BY DEF CaseInit, CaseTypeOK, Level
<1>2. CaseInit => VersionIsBounded /\ CurrentInterpretationIsExact
  BY DEF CaseInit, VersionIsBounded, CurrentInterpretationIsExact
<1>3. CaseInit => InterpretationsAreUnique /\ ContractsAreReady
  BY DEF CaseInit, InterpretationsAreUnique, ContractsAreReady
<1> QED BY <1>1, <1>2, <1>3 DEF CaseInvariant

-----------------------------------------------------------------------------
(* Steps that leave the counters, the evidence, the interpretations and the *)
(* contracts alone.                                                         *)

\* The invariant, but for the types, reads only the rows of the case.
LEMMA CaseUntouched ==
  ASSUME CaseInvariant, CaseTypeOK', UNCHANGED caseVars
  PROVE  CaseInvariant'
BY DEF CaseInvariant, caseVars, VersionIsBounded, CurrentInterpretationIsExact,
       InterpretationsAreUnique, ContractsAreReady

\* Requests, grants, memberships and settings change nothing of the case.
LEMMA BesideTheCase ==
  ASSUME CaseInvariant,
         \/ \E m \in Members : Admit(m)
         \/ \E m \in Members, level \in EditLevel : Leave(m, level)
         \/ \E o, m \in Members, level \in {"VIEWER", "EDITOR"} : GrantAccess(o, m, level)
         \/ \E o, m \in Members : RevokeAccess(o, m)
         \/ \E m \in Members : DeactivateMembership(m)
         \/ ChangeSettings
  PROVE  CaseInvariant' /\ UNCHANGED caseVars
<1>1. CaseTypeOK
  BY DEF CaseInvariant
<1> USE <1>1, CaseAssumption DEF CaseTypeOK, Versions, Contexts, Contracts,
                                 SettingsVersions, Level, EditLevel, caseVars
<1>2. ASSUME NEW m \in Members, Admit(m) PROVE CaseTypeOK' /\ UNCHANGED caseVars
  BY <1>2 DEF Admit, CanEdit
<1>3. ASSUME NEW m \in Members, NEW level \in EditLevel, Leave(m, level)
      PROVE  CaseTypeOK' /\ UNCHANGED caseVars
  BY <1>3 DEF Leave
<1>4. ASSUME NEW o \in Members, NEW m \in Members, NEW level \in {"VIEWER", "EDITOR"},
             GrantAccess(o, m, level)
      PROVE  CaseTypeOK' /\ UNCHANGED caseVars
  BY <1>4 DEF GrantAccess, Grant
<1>5. ASSUME NEW o \in Members, NEW m \in Members, RevokeAccess(o, m)
      PROVE  CaseTypeOK' /\ UNCHANGED caseVars
  BY <1>5 DEF RevokeAccess
<1>6. ASSUME NEW m \in Members, DeactivateMembership(m)
      PROVE  CaseTypeOK' /\ UNCHANGED caseVars
  BY <1>6 DEF DeactivateMembership
<1>7. ASSUME ChangeSettings PROVE CaseTypeOK' /\ UNCHANGED caseVars
  BY <1>7 DEF ChangeSettings, accessVars
<1> HIDE DEF CaseTypeOK, Versions, Contexts, Contracts, SettingsVersions, Level,
             EditLevel, caseVars
<1>8. CaseTypeOK' /\ UNCHANGED caseVars
  BY <1>2, <1>3, <1>4, <1>5, <1>6, <1>7
<1> QED BY <1>8, CaseUntouched

-----------------------------------------------------------------------------
(* Handlers that work on the case.                                          *)

\* A new request version makes the interpretations those of an older context.
LEMMA UpdateRequestStep ==
  ASSUME CaseInvariant, UpdateRequest PROVE CaseInvariant'
<1> USE CaseAssumption DEF CaseInvariant, Versions, Contexts, Contracts,
                           SettingsVersions
<1>1. CaseTypeOK' /\ VersionIsBounded'
  BY DEF UpdateRequest, NewRequestVersion, CaseTypeOK, VersionIsBounded, accessVars
<1>2. CurrentInterpretationIsExact'
  BY DEF UpdateRequest, NewRequestVersion, CurrentInterpretationIsExact, CaseTypeOK,
       Interpretation
<1>3. InterpretationsAreUnique' /\ ContractsAreReady'
  BY DEF UpdateRequest, NewRequestVersion, InterpretationsAreUnique, ContractsAreReady
<1> QED BY <1>1, <1>2, <1>3

\* So does a conversation event or a refinement cycle.
LEMMA AddContextStep ==
  ASSUME CaseInvariant, AddContext PROVE CaseInvariant'
<1> USE CaseAssumption DEF CaseInvariant, Versions, Contexts, Contracts,
                           SettingsVersions
<1>1. CaseTypeOK' /\ VersionIsBounded'
  BY DEF AddContext, CaseTypeOK, VersionIsBounded, accessVars
<1>2. CurrentInterpretationIsExact'
  BY DEF AddContext, CurrentInterpretationIsExact, CaseTypeOK, Interpretation
<1>3. InterpretationsAreUnique' /\ ContractsAreReady'
  BY DEF AddContext, InterpretationsAreUnique, ContractsAreReady
<1> QED BY <1>1, <1>2, <1>3

\* So does a file, which also only adds to the evidence of the request.
LEMMA AddEvidenceStep ==
  ASSUME CaseInvariant, NEW item \in Items, AddEvidence(item) PROVE CaseInvariant'
<1> USE CaseAssumption DEF CaseInvariant, Versions, Contexts, Contracts,
                           SettingsVersions
<1>1. CaseTypeOK' /\ VersionIsBounded'
  BY DEF AddEvidence, Bind, IsBoundAlready, CaseTypeOK, VersionIsBounded, accessVars
<1>2. CurrentInterpretationIsExact'
  BY DEF AddEvidence, Bind, IsBoundAlready, CurrentInterpretationIsExact, CaseTypeOK,
       Interpretation
<1>3. \A v \in Versions : evidence[v] \subseteq evidence'[v]
  BY DEF AddEvidence, Bind, IsBoundAlready, CaseTypeOK
<1>4. \A i \in interps : i.request \in Versions
  BY DEF CaseTypeOK, Interpretation
<1>5. InterpretationsAreUnique' /\ ContractsAreReady'
  BY <1>3, <1>4 DEF AddEvidence, Bind, IsBoundAlready, InterpretationsAreUnique,
                    ContractsAreReady
<1> QED BY <1>1, <1>2, <1>5

\* create_interpretation adds the one interpretation of the current context.
LEMMA CreateInterpretationStep ==
  ASSUME CaseInvariant, NEW s \in SettingsVersions, NEW ready \in BOOLEAN,
         CreateInterpretation(s, ready)
  PROVE  CaseInvariant'
<1> USE CaseAssumption DEF CaseInvariant, Versions, Contexts, Contracts,
                           SettingsVersions
<1> DEFINE new == [context |-> context, request |-> version,
                   evidence |-> evidence[version], settings |-> s, ready |-> ready]
<1>1. new \in Interpretation /\ interps' = interps \cup {new}
  BY DEF CreateInterpretation, Snapshot, HasContext, AtContext, AddInterpretation,
       CurrentContext, CaseTypeOK, Interpretation
<1>2. CaseTypeOK' /\ VersionIsBounded'
  BY <1>1 DEF CreateInterpretation, Snapshot, HasContext, AtContext, AddInterpretation,
              CurrentContext, CaseTypeOK, VersionIsBounded, accessVars
<1>3. CurrentInterpretationIsExact'
  BY <1>1 DEF CreateInterpretation, Snapshot, HasContext, AtContext, AddInterpretation,
              CurrentContext, CurrentInterpretationIsExact, CaseTypeOK
<1>4. InterpretationsAreUnique'
  BY <1>1 DEF CreateInterpretation, Snapshot, HasContext, AtContext, AddInterpretation,
              CurrentContext, InterpretationsAreUnique, CaseTypeOK
<1>5. ContractsAreReady'
  BY <1>1 DEF CreateInterpretation, Snapshot, HasContext, AtContext, AddInterpretation,
              CurrentContext, ContractsAreReady
<1> QED BY <1>2, <1>3, <1>4, <1>5

\* confirm accepts a ready interpretation.
LEMMA ConfirmInterpretationStep ==
  ASSUME CaseInvariant, NEW s \in SettingsVersions, ConfirmInterpretation(s)
  PROVE  CaseInvariant'
<1> USE CaseAssumption DEF CaseInvariant, Versions, Contexts, Contracts,
                           SettingsVersions
<1>1. CaseTypeOK' /\ VersionIsBounded'
  BY DEF ConfirmInterpretation, AtContext, AcceptInterpretation, CaseTypeOK,
       VersionIsBounded, accessVars
<1>2. CurrentInterpretationIsExact' /\ InterpretationsAreUnique'
  BY DEF ConfirmInterpretation, AtContext, AcceptInterpretation,
       CurrentInterpretationIsExact, InterpretationsAreUnique
<1>3. ContractsAreReady'
  BY DEF ConfirmInterpretation, AtContext, AcceptInterpretation, ContractsAreReady
<1> QED BY <1>1, <1>2, <1>3

-----------------------------------------------------------------------------
\* Every handler keeps the invariant.
LEMMA CaseStep ==
  ASSUME CaseInvariant, CaseNext PROVE CaseInvariant'
<1>1. ASSUME NEW item \in Items, AddEvidence(item) PROVE CaseInvariant'
  BY <1>1, AddEvidenceStep
<1>2. ASSUME NEW s \in SettingsVersions, NEW ready \in BOOLEAN,
             CreateInterpretation(s, ready)
      PROVE  CaseInvariant'
  BY <1>2, CreateInterpretationStep
<1>3. ASSUME NEW s \in SettingsVersions, ConfirmInterpretation(s) PROVE CaseInvariant'
  BY <1>3, ConfirmInterpretationStep
<1> QED
  BY <1>1, <1>2, <1>3, UpdateRequestStep, AddContextStep, BesideTheCase
  DEF CaseNext, ConversationAndFileHandlers, RequirementHandlers, AccessHandlers

\* The invariant contains all that grounds a contract.
LEMMA GroundingFollows == CaseInvariant => ContractsAreGrounded
BY DEF CaseInvariant, InterpretationsAreUnique, ContractsAreReady, ContractsAreGrounded

(***************************************************************************)
(* In every reachable state the counters, interpretations and contracts of *)
(* the case agree: the strengthening of the properties proved below.       *)
(***************************************************************************)
THEOREM CaseInvariantHolds == CaseSpec => []CaseInvariant
<1>1. CaseInvariant /\ [CaseNext]_allCaseVars => CaseInvariant'
  <2>1. CASE CaseNext
    BY <2>1, CaseStep
  <2>2. CASE UNCHANGED allCaseVars
    BY <2>2, CaseUntouched DEF allCaseVars, caseVars, CaseInvariant, CaseTypeOK
  <2> QED BY <2>1, <2>2
<1> QED BY <1>1, CaseStart, PTL DEF CaseSpec

(***************************************************************************)
(* The handlers of a case keep the types of its rows within the bounds.    *)
(***************************************************************************)
THEOREM CaseTypeCorrect == CaseSpec => []CaseTypeOK
<1>1. CaseInvariant => CaseTypeOK
  BY DEF CaseInvariant
<1> QED BY <1>1, CaseInvariantHolds, PTL

(***************************************************************************)
(* An interpretation at the current context is about the current request   *)
(* and all of its evidence, and it is the latest one.                      *)
(***************************************************************************)
THEOREM InterpretationExact == CaseSpec => []CurrentInterpretationIsExact
<1>1. CaseInvariant => CurrentInterpretationIsExact
  BY DEF CaseInvariant
<1> QED BY <1>1, CaseInvariantHolds, PTL

(***************************************************************************)
(* A contract accepts exactly one interpretation, a ready one, whose       *)
(* evidence is not empty and is still stored.                              *)
(***************************************************************************)
THEOREM ContractsGrounded == CaseSpec => []ContractsAreGrounded
BY CaseInvariantHolds, GroundingFollows, PTL

-----------------------------------------------------------------------------
(* The conversation is part of the case.                                    *)

\* Every handler of the conversation is one of the case, or leaves it alone.
LEMMA ConversationStep ==
  ASSUME [ClarificationNext]_allClarificationVars PROVE [CaseNext]_allCaseVars
<1>1. CASE OtherCaseStep
  BY <1>1 DEF OtherCaseStep, CaseNext, ConversationAndFileHandlers, RequirementHandlers
<1>2. CASE ConversationHandlers
  BY <1>2 DEF ConversationHandlers, AppendMessage, AnswerQuestion, CaseNext,
              ConversationAndFileHandlers
<1>3. CASE \E s \in SettingsVersions, ready, asks \in BOOLEAN :
             AnalyseRequirements(s, ready, asks)
  BY <1>3 DEF AnalyseRequirements, CaseNext, RequirementHandlers
<1>4. CASE RefinementHandlers
  BY <1>4 DEF RefinementHandlers, StartRefinementCycle, RefinementRefused, CaseNext,
              ConversationAndFileHandlers
<1>5. CASE UNCHANGED allClarificationVars
  BY <1>5 DEF allClarificationVars
<1> QED BY <1>1, <1>2, <1>3, <1>4, <1>5 DEF ClarificationNext

(***************************************************************************)
(* The conversation, the clarification budget and the refinements of a     *)
(* case change it as the handlers of ReportingCase do and not otherwise.   *)
(***************************************************************************)
THEOREM ConversationImplementsCase == ClarificationSpec => CaseSpec
BY ConversationStep, PTL DEF ClarificationSpec, CaseSpec

-----------------------------------------------------------------------------
(* Rounds.                                                                  *)

\* A round is one of its cycle.
LEMMA RoundMember ==
  ASSUME NEW rows, NEW p
  PROVE  p \in Rounds(rows) <=>
           \E c \in DOMAIN rows : \E n \in 1 .. rows[c].rounds : p = <<c, n>>
BY DEF Rounds

\* A cycle that is opened adds no round.
LEMMA NewCycleRounds ==
  ASSUME NEW rows \in Seq(Cycle), NEW new \in Cycle, new.rounds = 0
  PROVE  Rounds(Append(rows, new)) = Rounds(rows)
<1> DEFINE more == Append(rows, new)
<1>1. /\ DOMAIN rows = 1 .. Len(rows) /\ DOMAIN more = 1 .. Len(rows) + 1
      /\ Len(rows) \in Nat
      /\ \A c \in 1 .. Len(rows) : more[c] = rows[c]
      /\ more[Len(rows) + 1] = new
  OBVIOUS
<1> HIDE DEF more
<1>2. ASSUME NEW p PROVE p \in Rounds(more) <=> p \in Rounds(rows)
  BY <1>1, RoundMember
<1> QED BY <1>2 DEF more

\* A charge adds one round to the cycle that is charged.
LEMMA ChargedRounds ==
  ASSUME NEW rows \in Seq(Cycle), NEW c \in DOMAIN rows
  PROVE  Rounds([rows EXCEPT ![c].rounds = @ + 1]) =
           Rounds(rows) \cup {<<c, rows[c].rounds + 1>>}
<1> DEFINE more == [rows EXCEPT ![c].rounds = @ + 1]
<1>1. \A d \in DOMAIN rows : rows[d] \in Cycle
  OBVIOUS
<1>2. /\ DOMAIN more = DOMAIN rows
      /\ \A d \in DOMAIN rows :
           more[d].rounds = IF d = c THEN rows[d].rounds + 1 ELSE rows[d].rounds
  BY <1>1 DEF Cycle
<1>3. \A d \in DOMAIN rows : rows[d].rounds \in Nat
  BY <1>1 DEF Cycle
<1>4. \A d \in DOMAIN rows, n \in Nat :
        n \in 1 .. more[d].rounds <=>
          n \in 1 .. rows[d].rounds \/ (d = c /\ n = rows[c].rounds + 1)
  BY <1>2, <1>3
<1> HIDE DEF more
<1>5. ASSUME NEW p
      PROVE  p \in Rounds(more) <=> p \in Rounds(rows) \cup {<<c, rows[c].rounds + 1>>}
  <2>1. ASSUME p \in Rounds(more)
        PROVE  p \in Rounds(rows) \/ p = <<c, rows[c].rounds + 1>>
    <3>1. PICK d \in DOMAIN rows : \E n \in 1 .. more[d].rounds : p = <<d, n>>
      BY <2>1, <1>2, RoundMember
    <3>2. PICK n \in 1 .. more[d].rounds : p = <<d, n>>
      BY <3>1
    <3>3. n \in 1 .. rows[d].rounds \/ (d = c /\ n = rows[c].rounds + 1)
      BY <1>2, <1>3, <1>4, <3>2
    <3> QED BY <3>2, <3>3, RoundMember
  <2>2. ASSUME p \in Rounds(rows) PROVE p \in Rounds(more)
    <3>1. PICK d \in DOMAIN rows : \E n \in 1 .. rows[d].rounds : p = <<d, n>>
      BY <2>2, RoundMember
    <3>2. PICK n \in 1 .. rows[d].rounds : p = <<d, n>>
      BY <3>1
    <3>3. n \in 1 .. more[d].rounds
      BY <1>3, <1>4, <3>2
    <3> QED BY <1>2, <3>2, <3>3, RoundMember
  <2>3. rows[c].rounds + 1 \in 1 .. more[c].rounds
    BY <1>3, <1>4
  <2>4. <<c, rows[c].rounds + 1>> \in Rounds(more)
    BY <1>2, <2>3, RoundMember
  <2> QED BY <2>1, <2>2, <2>4
<1> QED BY <1>5 DEF more

-----------------------------------------------------------------------------
(* The invariant.                                                           *)

\* Only an interpretation asks.
QuestionsAreInterpretations == \A c \in asked : AtContext(c) # {}

\* Whatever is said advances the context, so that nothing more is said about
\* an interpretation that was answered.
EventsArePast == \A e \in 1 .. Len(events) : events[e].about < context

ClarificationInvariant ==
    /\ ClarificationTypeOK
    /\ QuestionsAreInterpretations
    /\ EventsArePast
    /\ AnswersMeetTheirQuestions
    /\ RoundsAreCharged
    /\ IsFiniteSet(Rounds(cycles))

\* A new case has asked and charged nothing.
LEMMA ClarificationStart == CaseInit /\ ClarificationInit => ClarificationInvariant
<1> SUFFICES ASSUME CaseInit, ClarificationInit PROVE ClarificationInvariant
  OBVIOUS
<1> USE DEF CaseInit, ClarificationInit
<1>1. ClarificationTypeOK /\ QuestionsAreInterpretations /\ EventsArePast
  BY DEF ClarificationTypeOK, QuestionsAreInterpretations, EventsArePast
<1>2. AnswersMeetTheirQuestions
  BY DEF AnswersMeetTheirQuestions
<1>3. Rounds(cycles) = {}
  BY DEF Rounds
<1>4. RoundsOverall(cycles) = 0 /\ Cardinality(asked) = 0 /\ IsFiniteSet(Rounds(cycles))
  BY <1>3, FS_EmptySet DEF RoundsOverall
<1>5. 1 \in SettingsVersions /\ 1 \in 1 .. settings
  BY CaseAssumption DEF SettingsVersions
<1>6. Limits[1].overall \in Nat
  BY <1>5, ClarificationAssumption
<1>7. RoundsAreCharged
  BY <1>4, <1>5, <1>6 DEF RoundsAreCharged
<1> QED BY <1>1, <1>2, <1>4, <1>7 DEF ClarificationInvariant

\* The counters of the case do not go back and its rows stay.
LEMMA CaseGrows ==
  ASSUME CaseTypeOK, [CaseNext]_allCaseVars
  PROVE  /\ context' >= context /\ settings' >= settings
         /\ \A c \in Contexts : AtContext(c) # {} => AtContext(c)' # {}
<1>1. context \in Nat /\ settings \in Nat
  BY CaseAssumption DEF CaseTypeOK, Contexts, SettingsVersions
<1>2. context' >= context /\ settings' >= settings /\ interps \subseteq interps'
  <2>1. CASE ConversationAndFileHandlers
    <3>1. CASE AddContext
      BY <1>1, <3>1 DEF AddContext
    <3>2. ASSUME NEW item \in Items, AddEvidence(item)
          PROVE  context' >= context /\ settings' >= settings /\ interps \subseteq interps'
      BY <1>1, <3>2 DEF AddEvidence
    <3> QED BY <2>1, <3>1, <3>2 DEF ConversationAndFileHandlers
  <2>2. CASE RequirementHandlers
    BY <1>1, <2>2 DEF RequirementHandlers, CreateInterpretation, ConfirmInterpretation,
                      AddInterpretation, UpdateRequest, NewRequestVersion
  <2>3. CASE AccessHandlers
    <3>1. settings' = settings /\ UNCHANGED caseVars
      BY <2>3 DEF AccessHandlers, GrantAccess, RevokeAccess
    <3> QED BY <1>1, <3>1 DEF caseVars
  <2>4. CASE \/ \E m \in Members : Admit(m)
             \/ \E m \in Members, level \in EditLevel : Leave(m, level)
             \/ \E m \in Members : DeactivateMembership(m)
    <3>1. settings' = settings /\ UNCHANGED caseVars
      BY <2>4 DEF Admit, Leave, DeactivateMembership
    <3> QED BY <1>1, <3>1 DEF caseVars
  <2>5. CASE ChangeSettings
    BY <1>1, <2>5 DEF ChangeSettings, caseVars
  <2>6. CASE UNCHANGED allCaseVars
    BY <1>1, <2>6 DEF allCaseVars
  <2> QED BY <2>1, <2>2, <2>3, <2>4, <2>5, <2>6 DEF CaseNext
<1> QED BY <1>2 DEF AtContext

\* What the limits allowed in some settings version they allowed before.
LEMMA LimitsStay ==
  ASSUME CaseTypeOK, RoundsAreCharged, settings' \in Nat, settings' >= settings,
         cycles' = cycles, asked' = asked
  PROVE  RoundsAreCharged'
<1>1. settings \in Nat /\ 1 .. settings \subseteq 1 .. settings'
  BY CaseAssumption DEF CaseTypeOK, SettingsVersions
<1> QED BY <1>1 DEF RoundsAreCharged, RoundsOverall, Rounds

\* The rows of a conversation, one by one.
LEMMA EventTypes ==
  ASSUME NEW rows \in Seq(Event)
  PROVE  /\ Len(rows) \in Nat
         /\ \A e \in 1 .. Len(rows) : rows[e] \in Event /\ rows[e].about \in Nat
<1>1. Len(rows) \in Nat /\ \A e \in 1 .. Len(rows) : rows[e] \in Event
  OBVIOUS
<1>2. \A about \in Contexts \cup {0} : about \in Nat
  BY CaseAssumption DEF Contexts
<1>3. ASSUME NEW e \in Event PROVE e.about \in Nat
  <2>1. e.about \in Contexts \cup {0}
    BY DEF Event
  <2> QED BY <2>1, <1>2
<1> QED BY <1>1, <1>3

\* What happens beside the conversation keeps the invariant.
LEMMA BesideTheConversation ==
  ASSUME CaseTypeOK, CaseTypeOK', ClarificationInvariant, [CaseNext]_allCaseVars,
         UNCHANGED clarificationVars
  PROVE  ClarificationInvariant'
<1> USE DEF clarificationVars
<1>1. ClarificationTypeOK'
  BY DEF ClarificationInvariant, ClarificationTypeOK
<1>2. QuestionsAreInterpretations'
  BY CaseGrows DEF ClarificationInvariant, ClarificationTypeOK, QuestionsAreInterpretations
<1>3. context \in Nat /\ context' \in Nat /\ settings' \in Nat
  BY CaseAssumption DEF CaseTypeOK, Contexts, SettingsVersions
<1>4. \A e \in 1 .. Len(events) : events[e].about \in Nat
  BY EventTypes DEF ClarificationInvariant, ClarificationTypeOK
<1>5. EventsArePast'
  BY <1>3, <1>4, CaseGrows DEF ClarificationInvariant, EventsArePast
<1>6. AnswersMeetTheirQuestions'
  BY DEF ClarificationInvariant, AnswersMeetTheirQuestions
<1>7. RoundsAreCharged'
  BY <1>3, CaseGrows, LimitsStay DEF ClarificationInvariant
<1>8. IsFiniteSet(Rounds(cycles))'
  BY DEF ClarificationInvariant, Rounds
<1> QED BY <1>1, <1>2, <1>5, <1>6, <1>7, <1>8 DEF ClarificationInvariant

-----------------------------------------------------------------------------
(* Handlers of the conversation.                                            *)

\* Events said now are about nothing, or about the context that ends with
\* them; at most the first is an answer, to a question.
LEMMA EventsAdded ==
  ASSUME CaseTypeOK, CaseTypeOK', ClarificationInvariant, context' = context + 1,
         [CaseNext]_allCaseVars, UNCHANGED <<cycles, asked, refused>>,
         NEW new \in Seq(Event), events' = events \o new,
         \A e \in 1 .. Len(new) : new[e].about <= context,
         \A e \in 1 .. Len(new) : new[e].kind = "RAW_ANSWER" =>
           e = 1 /\ new[e].about = context /\ context \in asked
  PROVE  ClarificationInvariant'
<1>1. /\ Len(events) \in Nat /\ Len(new) \in Nat
      /\ events' \in Seq(Event) /\ Len(events') = Len(events) + Len(new)
      /\ \A e \in 1 .. Len(events') :
           events'[e] = IF e <= Len(events) THEN events[e] ELSE new[e - Len(events)]
  BY DEF ClarificationInvariant, ClarificationTypeOK
<1>2. ClarificationTypeOK'
  BY <1>1 DEF ClarificationInvariant, ClarificationTypeOK
<1>3. QuestionsAreInterpretations'
  BY CaseGrows DEF ClarificationInvariant, ClarificationTypeOK, QuestionsAreInterpretations
<1>4. context \in Nat /\ settings' \in Nat
  BY CaseAssumption DEF CaseTypeOK, Contexts, SettingsVersions
<1>5. /\ \A e \in 1 .. Len(events) : events[e].about \in Nat /\ events[e].about < context
      /\ \A e \in 1 .. Len(events') : events'[e].about \in Nat
  BY <1>1, EventTypes DEF ClarificationInvariant, ClarificationTypeOK, EventsArePast
<1>6. \A e \in 1 .. Len(events') :
        \/ e \in 1 .. Len(events) /\ events'[e] = events[e]
        \/ e - Len(events) \in 1 .. Len(new) /\ events'[e] = new[e - Len(events)]
  BY <1>1
<1>7. EventsArePast'
  BY <1>4, <1>5, <1>6 DEF EventsArePast
<1>8. ASSUME NEW e \in 1 .. Len(events'), events'[e].kind = "RAW_ANSWER"
      PROVE  \/ /\ e \in 1 .. Len(events) /\ events'[e] = events[e]
                /\ events[e].about < context
             \/ /\ e = Len(events) + 1 /\ events'[e].about = context /\ context \in asked
  BY <1>1, <1>5, <1>6, <1>8
<1>9. ASSUME NEW e \in 1 .. Len(events'), events'[e].kind = "RAW_ANSWER"
      PROVE  /\ events'[e].about \in asked'
             /\ \A f \in 1 .. Len(events') :
                  events'[f].kind = "RAW_ANSWER" /\ e < f =>
                    events'[e].about < events'[f].about
  <2>1. events'[e].about \in asked'
    BY <1>8, <1>9 DEF ClarificationInvariant, AnswersMeetTheirQuestions
  <2>2. ASSUME NEW f \in 1 .. Len(events'), events'[f].kind = "RAW_ANSWER", e < f
        PROVE  events'[e].about < events'[f].about
    BY <1>1, <1>8, <1>9, <2>2 DEF ClarificationInvariant, AnswersMeetTheirQuestions
  <2> QED BY <2>1, <2>2
<1>10. AnswersMeetTheirQuestions'
  BY <1>9 DEF AnswersMeetTheirQuestions
<1>11. RoundsAreCharged'
  BY <1>4, CaseGrows, LimitsStay DEF ClarificationInvariant
<1>12. IsFiniteSet(Rounds(cycles))'
  BY DEF ClarificationInvariant, Rounds
<1> QED BY <1>2, <1>3, <1>7, <1>10, <1>11, <1>12 DEF ClarificationInvariant

\* A message is about nothing.
LEMMA AppendMessageStep ==
  ASSUME CaseTypeOK, CaseTypeOK', ClarificationInvariant, [CaseNext]_allCaseVars,
         NEW k \in EventCommands, AppendMessage(k)
  PROVE  ClarificationInvariant'
<1> DEFINE new == <<Said("USER_MESSAGE", k, 0)>>
<1>1. Said("USER_MESSAGE", k, 0) \in Event
  BY DEF Said, Event, EventKind
<1>2. context \in Nat
  BY CaseAssumption DEF CaseTypeOK, Contexts
<1>3. new \in Seq(Event) /\ events' = events \o new
  BY <1>1 DEF AppendMessage, ClarificationInvariant, ClarificationTypeOK
<1>4. /\ \A e \in 1 .. Len(new) : new[e].about <= context
      /\ \A e \in 1 .. Len(new) : new[e].kind # "RAW_ANSWER"
  BY <1>2 DEF Said
<1>5. context' = context + 1 /\ UNCHANGED <<cycles, asked, refused>>
  BY DEF AppendMessage, AddContext
<1> HIDE DEF new
<1> QED BY <1>3, <1>4, <1>5, EventsAdded

\* The rows of one answer are about the same interpretation.
LEMMA AnswerRows ==
  ASSUME NEW answer \in Event, NEW choice \in Event, choice.kind # "RAW_ANSWER",
         choice.about = answer.about, NEW rows, rows \in {<<answer>>, <<answer, choice>>}
  PROVE  /\ rows \in Seq(Event)
         /\ \A e \in 1 .. Len(rows) : rows[e].about = answer.about
         /\ \A e \in 1 .. Len(rows) : rows[e].kind = "RAW_ANSWER" => e = 1
<1>1. CASE rows = <<answer>>
  BY <1>1
<1>2. CASE rows = <<answer, choice>>
  <2>1. rows \in Seq(Event) /\ Len(rows) = 2 /\ rows[1] = answer /\ rows[2] = choice
    BY <1>2
  <2>2. \A e \in 1 .. 2 : e = 1 \/ e = 2
    OBVIOUS
  <2> QED BY <2>1, <2>2
<1> QED BY <1>1, <1>2

\* An answer is about the interpretation of the context it ends.
LEMMA AnswerQuestionStep ==
  ASSUME CaseTypeOK, CaseTypeOK', ClarificationInvariant, [CaseNext]_allCaseVars,
         NEW k \in EventCommands, NEW decision \in Decision, AnswerQuestion(k, decision)
  PROVE  ClarificationInvariant'
<1> DEFINE new == AnswerEvents(k, decision)
<1>1. context \in Nat /\ context \in Contexts
  BY CaseAssumption DEF CaseTypeOK, Contexts
<1>2. latest = context /\ context \in asked /\ events' = events \o new
  BY DEF AnswerQuestion
<1>3. \A kind \in EventKind :
        /\ Said(kind, k, latest) \in Event
        /\ Said(kind, k, latest).kind = kind
        /\ Said(kind, k, latest).about = context
  BY <1>1, <1>2 DEF Said, Event
<1>4. \/ new = <<Said("RAW_ANSWER", k, latest)>>
      \/ new = <<Said("RAW_ANSWER", k, latest), Said("ALTERNATIVE_ACCEPTED", k, latest)>>
      \/ new = <<Said("RAW_ANSWER", k, latest), Said("ALTERNATIVE_DECLINED", k, latest)>>
  BY DEF AnswerEvents, Decision
<1> DEFINE answer == Said("RAW_ANSWER", k, latest)
           yes == Said("ALTERNATIVE_ACCEPTED", k, latest)
           no == Said("ALTERNATIVE_DECLINED", k, latest)
<1>5. /\ answer \in Event /\ answer.about = context
       /\ yes \in Event /\ yes.kind # "RAW_ANSWER" /\ yes.about = context
       /\ no \in Event /\ no.kind # "RAW_ANSWER" /\ no.about = context
  BY <1>3 DEF EventKind
<1>6. new \in {<<answer>>, <<answer, yes>>, <<answer, no>>}
  BY <1>4
<1> HIDE DEF answer, yes, no, new
<1>7. new \in Seq(Event)
  BY <1>5, <1>6, AnswerRows
<1>8. /\ \A e \in 1 .. Len(new) : new[e].about = context
      /\ \A e \in 1 .. Len(new) : new[e].kind = "RAW_ANSWER" => e = 1
  BY <1>5, <1>6, AnswerRows
<1>9. context' = context + 1 /\ UNCHANGED <<cycles, asked, refused>>
  BY DEF AnswerQuestion, AddContext
<1>10. \A e \in 1 .. Len(new) : new[e].about <= context
  BY <1>1, <1>8
<1> QED BY <1>2, <1>7, <1>8, <1>9, <1>10, EventsAdded

-----------------------------------------------------------------------------
(* Handlers that open a cycle or charge a round.                            *)

\* A cycle is opened without a round, so that all that was charged stands.
LEMMA CyclesOpened ==
  ASSUME ClarificationInvariant, CaseTypeOK, NEW new \in Cycle, new.rounds = 0
  PROVE  /\ Append(cycles, new) \in Seq(Cycle)
         /\ Rounds(Append(cycles, new)) = Rounds(cycles)
         /\ \A c \in 1 .. Len(Append(cycles, new)) :
              \E s \in 1 .. settings : Append(cycles, new)[c].rounds <= Limits[s].cycle
<1>1. cycles \in Seq(Cycle)
  BY DEF ClarificationInvariant, ClarificationTypeOK
<1>2. 1 \in 1 .. settings /\ 1 \in SettingsVersions
  BY CaseAssumption DEF CaseTypeOK, SettingsVersions
<1>3. Limits[1].cycle \in Nat
  BY <1>2, ClarificationAssumption
<1>4. \A c \in 1 .. Len(cycles) : \E s \in 1 .. settings : cycles[c].rounds <= Limits[s].cycle
  BY DEF ClarificationInvariant, RoundsAreCharged
<1>5. \A c \in 1 .. Len(Append(cycles, new)) :
        \/ c \in 1 .. Len(cycles) /\ Append(cycles, new)[c] = cycles[c]
        \/ Append(cycles, new)[c] = new
  BY <1>1
<1>6. ASSUME NEW c \in 1 .. Len(Append(cycles, new))
      PROVE  \E s \in 1 .. settings : Append(cycles, new)[c].rounds <= Limits[s].cycle
  BY <1>2, <1>3, <1>4, <1>5
<1> QED BY <1>1, <1>6, NewCycleRounds

\* A refinement opens a cycle and says so.
LEMMA StartRefinementCycleStep ==
  ASSUME CaseTypeOK, CaseTypeOK', ClarificationInvariant, [CaseNext]_allCaseVars,
         NEW k \in CycleCommands, NEW s \in SettingsVersions, NEW text \in BOOLEAN,
         StartRefinementCycle(k, s, text)
  PROVE  ClarificationInvariant'
<1> DEFINE opening == Said(OpeningKind(text), "refine", 0)
           new == NewCycle(s, k)
<1>1. opening \in Event /\ opening.kind # "RAW_ANSWER" /\ opening.about = 0
  BY DEF StartRefinementCycle, OpeningKind, EventKind, Said, Event
<1>2. new \in Cycle /\ new.rounds = 0
  BY DEF NewCycle, Cycle
<1>3. /\ events' = Append(events, opening) /\ cycles' = Append(cycles, new)
      /\ UNCHANGED <<asked, refused, settings>> /\ context' = context + 1
  BY DEF StartRefinementCycle, AddContext
<1> HIDE DEF opening, new
<1>4. ClarificationTypeOK
  BY DEF ClarificationInvariant
<1>5. /\ Len(events) \in Nat /\ events' \in Seq(Event) /\ Len(events') = Len(events) + 1
      /\ \A e \in 1 .. Len(events) : events'[e] = events[e]
      /\ events'[Len(events) + 1] = opening
  BY <1>1, <1>3, <1>4 DEF ClarificationTypeOK
<1>6. ClarificationTypeOK'
  BY <1>2, <1>3, <1>4, <1>5 DEF ClarificationTypeOK
<1>7. QuestionsAreInterpretations'
  BY <1>3, <1>4, CaseGrows DEF ClarificationInvariant, ClarificationTypeOK,
                               QuestionsAreInterpretations
<1>8. context \in Nat
  BY CaseAssumption DEF CaseTypeOK, Contexts
<1>9. \A e \in 1 .. Len(events) : events[e].about \in Nat /\ events[e].about < context
  BY <1>4, EventTypes DEF ClarificationInvariant, ClarificationTypeOK, EventsArePast
<1>10. EventsArePast'
  BY <1>1, <1>3, <1>5, <1>8, <1>9 DEF EventsArePast
<1>11. AnswersMeetTheirQuestions'
  BY <1>1, <1>3, <1>5 DEF ClarificationInvariant, AnswersMeetTheirQuestions
<1>12. Rounds(cycles') = Rounds(cycles)
  BY <1>2, <1>3, CyclesOpened
<1>13. RoundsOverall(cycles') = RoundsOverall(cycles)
  BY <1>12 DEF RoundsOverall
<1>14. \A c \in 1 .. Len(cycles') : \E v \in 1 .. settings : cycles'[c].rounds <= Limits[v].cycle
  BY <1>2, <1>3, CyclesOpened
<1>15. RoundsAreCharged'
  BY <1>3, <1>13, <1>14 DEF ClarificationInvariant, RoundsAreCharged
<1>16. IsFiniteSet(Rounds(cycles'))
  BY <1>12 DEF ClarificationInvariant
<1> QED BY <1>6, <1>7, <1>10, <1>11, <1>15, <1>16 DEF ClarificationInvariant

\* The cycles an analysis works on are charged as those of the case are.
LEMMA OpenCycles ==
  ASSUME ClarificationInvariant, CaseTypeOK, NEW s \in SettingsVersions
  PROVE  /\ Opened(s) \in Seq(Cycle) /\ Len(Opened(s)) \in DOMAIN Opened(s)
         /\ Rounds(Opened(s)) = Rounds(cycles)
         /\ \A c \in 1 .. Len(Opened(s)) :
              \E v \in 1 .. settings : Opened(s)[c].rounds <= Limits[v].cycle
<1>1. cycles \in Seq(Cycle)
  BY DEF ClarificationInvariant, ClarificationTypeOK
<1>2. CASE cycles = <<>>
  <2> DEFINE new == NewCycle(s, "initial")
  <2>1. new \in Cycle /\ new.rounds = 0
    BY DEF NewCycle, Cycle
  <2>2. Opened(s) = Append(cycles, new)
    BY <1>2 DEF Opened
  <2> HIDE DEF new
  <2>3. Len(Append(cycles, new)) \in DOMAIN Append(cycles, new)
    BY <1>1, <2>1
  <2> QED BY <2>1, <2>2, <2>3, CyclesOpened
<1>3. CASE cycles # <<>>
  BY <1>1, <1>3 DEF Opened, ClarificationInvariant, RoundsAreCharged
<1> QED BY <1>2, <1>3

\* The cycle that is charged stays a cycle, and the others what they were.
LEMMA ChargedCycles ==
  ASSUME NEW rows \in Seq(Cycle), NEW c \in DOMAIN rows
  PROVE  LET charged == [rows EXCEPT ![c].rounds = @ + 1] IN
         /\ charged \in Seq(Cycle) /\ Len(charged) = Len(rows)
         /\ rows[c].rounds \in Nat
         /\ \A d \in 1 .. Len(rows) : charged[d].rounds =
              IF d = c THEN rows[c].rounds + 1 ELSE rows[d].rounds
<1> DEFINE charged == [rows EXCEPT ![c].rounds = @ + 1]
           row == [rows[c] EXCEPT !.rounds = @ + 1]
<1>1. /\ DOMAIN rows = 1 .. Len(rows) /\ Len(rows) \in Nat
      /\ \A d \in 1 .. Len(rows) : rows[d] \in Cycle
  OBVIOUS
<1>2. rows[c] \in Cycle
  BY <1>1
<1>3. rows[c].rounds \in Nat
  BY <1>2 DEF Cycle
<1>4. row \in Cycle /\ row.rounds = rows[c].rounds + 1
  BY <1>2, <1>3 DEF Cycle
<1>5. charged = [d \in 1 .. Len(rows) |-> IF d = c THEN row ELSE rows[d]]
  BY <1>1
<1> HIDE DEF row, charged
<1>6. charged \in [1 .. Len(rows) -> Cycle]
  BY <1>1, <1>4, <1>5
<1>7. charged \in Seq(Cycle) /\ Len(charged) = Len(rows)
  BY <1>1, <1>6
<1>8. \A d \in 1 .. Len(rows) : charged[d].rounds =
        IF d = c THEN rows[c].rounds + 1 ELSE rows[d].rounds
  BY <1>4, <1>5
<1> QED BY <1>3, <1>7, <1>8 DEF charged

\* An analysis asks once about its context and charges that to one cycle,
\* within the limits of the settings it works with.
LEMMA AnalyseRequirementsStep ==
  ASSUME CaseTypeOK, CaseTypeOK', ClarificationInvariant, [CaseNext]_allCaseVars,
         NEW s \in SettingsVersions, NEW ready \in BOOLEAN, NEW asks \in BOOLEAN,
         AnalyseRequirements(s, ready, asks)
  PROVE  ClarificationInvariant'
<1> DEFINE open == Opened(s)
           now == Len(open)
           charged == [open EXCEPT ![now].rounds = @ + 1]
<1>1. /\ open \in Seq(Cycle) /\ now \in DOMAIN open /\ Rounds(open) = Rounds(cycles)
      /\ \A c \in 1 .. now : \E v \in 1 .. settings : open[c].rounds <= Limits[v].cycle
  BY OpenCycles
<1>2. /\ cycles' = IF asks THEN charged ELSE open
      /\ asked' = IF asks THEN asked \cup {context} ELSE asked
      /\ asks => open[now].rounds < Limits[s].cycle /\ ~OverallReached(s)
      /\ UNCHANGED <<events, refused, context, settings>>
      /\ AtContext(context) = {} /\ s \in 1 .. settings
  BY CaseAssumption DEF AnalyseRequirements, CreateInterpretation, Snapshot, CaseTypeOK,
                        SettingsVersions
<1>3. interps' = interps \cup {CurrentContext(s, ready)}
  BY DEF AnalyseRequirements, CreateInterpretation, AddInterpretation
<1> HIDE DEF open
<1>4. ClarificationTypeOK /\ context \in Contexts /\ context \in Nat /\ settings \in Nat
  BY CaseAssumption DEF ClarificationInvariant, CaseTypeOK, Contexts, SettingsVersions
<1>5. /\ charged \in Seq(Cycle) /\ Len(charged) = now /\ now \in Nat
      /\ \A c \in 1 .. now : charged[c].rounds =
           IF c = now THEN open[now].rounds + 1 ELSE open[c].rounds
      /\ open[now].rounds \in Nat
  <2>1. now \in Nat
    BY <1>1
  <2> QED BY <1>1, <2>1, ChargedCycles
<1>6. ClarificationTypeOK'
  BY <1>1, <1>2, <1>4, <1>5 DEF ClarificationTypeOK
<1>7. QuestionsAreInterpretations'
  <2>1. AtContext(context)' # {}
    <3>1. CurrentContext(s, ready) \in interps' /\ CurrentContext(s, ready).context = context'
      BY <1>2, <1>3 DEF CurrentContext
    <3> QED BY <3>1 DEF AtContext
  <2> QED BY <1>2, <1>4, <2>1, CaseGrows DEF ClarificationInvariant, ClarificationTypeOK,
                                             QuestionsAreInterpretations
<1>8. EventsArePast' /\ AnswersMeetTheirQuestions'
  BY <1>2 DEF ClarificationInvariant, EventsArePast, AnswersMeetTheirQuestions
<1>9. CASE ~asks
  <2>1. Rounds(cycles') = Rounds(cycles) /\ IsFiniteSet(Rounds(cycles'))
    BY <1>1, <1>2, <1>9 DEF ClarificationInvariant
  <2>2. RoundsOverall(cycles') = RoundsOverall(cycles)
    BY <2>1 DEF RoundsOverall
  <2>3. \A c \in 1 .. Len(cycles') :
          \E v \in 1 .. settings : cycles'[c].rounds <= Limits[v].cycle
    BY <1>1, <1>2, <1>9
  <2>4. RoundsAreCharged'
    BY <1>2, <1>9, <2>2, <2>3 DEF ClarificationInvariant, RoundsAreCharged
  <2> QED BY <1>6, <1>7, <1>8, <2>1, <2>4 DEF ClarificationInvariant
<1>10. CASE asks
  <2> DEFINE round == <<now, open[now].rounds + 1>>
  <2>1. Rounds(cycles') = Rounds(cycles) \cup {round}
    BY <1>1, <1>2, <1>10, ChargedRounds
  <2>2. round \notin Rounds(cycles)
    BY <1>1, <1>5, RoundMember
  <2>3. /\ IsFiniteSet(Rounds(cycles'))
        /\ RoundsOverall(cycles') = RoundsOverall(cycles) + 1
    BY <2>1, <2>2, FS_AddElement DEF ClarificationInvariant, RoundsOverall
  <2>4. context \notin asked /\ asked' = asked \cup {context}
    BY <1>2, <1>10 DEF ClarificationInvariant, QuestionsAreInterpretations
  <2>5. IsFiniteSet(asked)
    <3>1. IsFiniteSet(1 .. MaxContext)
      BY CaseAssumption, FS_Interval
    <3> QED BY <1>4, <3>1, FS_Subset DEF ClarificationTypeOK, Contexts
  <2>6. Cardinality(asked') = Cardinality(asked) + 1
    BY <2>4, <2>5, FS_AddElement
  <2>7. RoundsOverall(cycles) \in Nat
    BY FS_CardinalityType DEF ClarificationInvariant, RoundsOverall
  <2>8. Limits[s].overall \in Nat /\ Limits[s].cycle \in Nat
    BY ClarificationAssumption
  <2>9. RoundsOverall(cycles') <= Limits[s].overall
    BY <1>2, <1>10, <2>3, <2>7, <2>8 DEF OverallReached
  <2>10. \A c \in 1 .. Len(cycles') :
          \E v \in 1 .. settings : cycles'[c].rounds <= Limits[v].cycle
    BY <1>1, <1>2, <1>5, <1>10, <2>8
  <2>11. RoundsAreCharged'
    BY <1>2, <2>3, <2>6, <2>9, <2>10 DEF ClarificationInvariant, RoundsAreCharged
  <2> QED BY <1>6, <1>7, <1>8, <2>3, <2>11 DEF ClarificationInvariant
<1> QED BY <1>9, <1>10

-----------------------------------------------------------------------------
\* Every handler keeps the invariant.
LEMMA ClarificationStep ==
  ASSUME CaseTypeOK, CaseTypeOK', ClarificationInvariant,
         [ClarificationNext]_allClarificationVars
  PROVE  ClarificationInvariant'
<1>1. [CaseNext]_allCaseVars
  BY ConversationStep
<1>2. CASE OtherCaseStep /\ UNCHANGED clarificationVars
  BY <1>1, <1>2, BesideTheConversation
<1>3. CASE ConversationHandlers
  BY <1>1, <1>3, AppendMessageStep, AnswerQuestionStep DEF ConversationHandlers
<1>4. ASSUME NEW s \in SettingsVersions, NEW ready \in BOOLEAN, NEW asks \in BOOLEAN,
             AnalyseRequirements(s, ready, asks)
      PROVE  ClarificationInvariant'
  BY <1>1, <1>4, AnalyseRequirementsStep
<1>5. ASSUME NEW k \in CycleCommands, NEW s \in SettingsVersions, NEW text \in BOOLEAN,
             StartRefinementCycle(k, s, text)
      PROVE  ClarificationInvariant'
  BY <1>1, <1>5, StartRefinementCycleStep
<1>6. ASSUME NEW k \in CycleCommands, NEW s \in SettingsVersions, NEW text \in BOOLEAN,
             RefinementRefused(k, s, text)
      PROVE  ClarificationInvariant'
  <2>1. refused' \subseteq CycleCommands
    BY <1>6 DEF RefinementRefused, ClarificationInvariant, ClarificationTypeOK
  <2>2. UNCHANGED <<allCaseVars, events, cycles, asked>>
    BY <1>6 DEF RefinementRefused
  <2> QED BY <2>1, <2>2 DEF allCaseVars, ClarificationInvariant, ClarificationTypeOK,
             QuestionsAreInterpretations, AtContext, EventsArePast, AnswersMeetTheirQuestions,
             RoundsAreCharged, RoundsOverall, Rounds
<1>7. CASE UNCHANGED allClarificationVars
  BY <1>1, <1>7, BesideTheConversation DEF allClarificationVars
<1> QED BY <1>2, <1>3, <1>4, <1>5, <1>6, <1>7 DEF ClarificationNext, RefinementHandlers

(***************************************************************************)
(* In every reachable state the questions, the rounds and the answers      *)
(* agree: the strengthening of the properties proved below.                *)
(***************************************************************************)
THEOREM ClarificationInvariantHolds == ClarificationSpec => []ClarificationInvariant
<1>1. ClarificationSpec => []CaseTypeOK
  BY ConversationImplementsCase, CaseTypeCorrect, PTL
<1> QED BY <1>1, ClarificationStart, ClarificationStep, PTL DEF ClarificationSpec

(***************************************************************************)
(* The handlers of the conversation keep the types of its rows.            *)
(***************************************************************************)
THEOREM ClarificationTypeCorrect == ClarificationSpec => []ClarificationTypeOK
<1>1. ClarificationInvariant => ClarificationTypeOK
  BY DEF ClarificationInvariant
<1> QED BY <1>1, ClarificationInvariantHolds, PTL

(***************************************************************************)
(* Every round of questions is charged exactly once and within the limits  *)
(* of a settings version that was in force.                                *)
(***************************************************************************)
THEOREM RoundsCharged == ClarificationSpec => []RoundsAreCharged
<1>1. ClarificationInvariant => RoundsAreCharged
  BY DEF ClarificationInvariant
<1> QED BY <1>1, ClarificationInvariantHolds, PTL

(***************************************************************************)
(* Each answer is to an interpretation that asked, no interpretation is    *)
(* answered twice, and the answers stand in the order of the questions.    *)
(***************************************************************************)
THEOREM AnswersInOrder == ClarificationSpec => []AnswersMeetTheirQuestions
<1>1. ClarificationInvariant => AnswersMeetTheirQuestions
  BY DEF ClarificationInvariant
<1> QED BY <1>1, ClarificationInvariantHolds, PTL
=============================================================================
