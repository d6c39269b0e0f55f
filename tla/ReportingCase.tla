--------------------------- MODULE ReportingCase ---------------------------
(***************************************************************************)
(* One private reporting case as the database keeps it.  Every action is   *)
(* one committed transaction of a request handler, made under the FOR      *)
(* UPDATE lock of the case row (persistence.py, locked_case): the version  *)
(* counters, the evidence of each request version, the interpretation of   *)
(* each context version, the accepted contracts, the grants and the        *)
(* settings pointer of the company.                                        *)
(*                                                                         *)
(* A handler tests the access of its caller before it waits for that lock  *)
(* (authorized_case_access, then locked_case) and does not test it again:  *)
(* "admitted" holds the callers between the two.                           *)
(*                                                                         *)
(* An interpretation is named by its context version, which the schema     *)
(* makes unique in a case, and a contract by the interpretation it         *)
(* accepts, which is unique too.                                           *)
(***************************************************************************)
EXTENDS Integers, FiniteSets

CONSTANTS
    Members,      \* memberships of the company that owns the case
    CaseOwner,    \* the member who created the case
    Experts,      \* the members with the EXPERT role, which no handler changes
    Items,        \* contents of evidence files and reference images
    MaxContext,   \* bound: context versions of the case
    MaxSettings,  \* bound: settings versions of the company
    Material      \* the settings digest an interpretation depends on, by version

ASSUME CaseAssumption ==
    /\ CaseOwner \in Members
    /\ Experts \subseteq Members
    /\ "case" \notin Members /\ "company" \notin Members
    /\ MaxContext \in Nat \ {0}
    /\ MaxSettings \in Nat \ {0}
    /\ DOMAIN Material = 1 .. MaxSettings

VARIABLES
    version,    \* sequence of the current request version
    context,    \* semantic_context_version
    evidence,   \* contents bound to each request version
    interps,    \* interpretation rows
    latest,     \* context version of the interpretation created last, 0 if none
    confirmed,  \* the interpretations with a confirmed contract
    settings,   \* version of the current company settings
    active,     \* members whose membership, identity and company are active
    access,     \* active grant of each member on the case
    admitted,   \* requests past their access test: the member, the level read
    held        \* rows locked by a transaction that spans several steps

caseVars == <<version, context, evidence, interps, latest, confirmed>>
accessVars == <<active, access, admitted>>
allCaseVars == <<version, context, evidence, interps, latest, confirmed,
                 settings, active, access, admitted, held>>

Contexts == 1 .. MaxContext
Versions == 1 .. MaxContext
SettingsVersions == 1 .. MaxSettings
Level == {"NONE", "VIEWER", "EDITOR", "OWNER"}
EditLevel == {"EDITOR", "OWNER"}
Contracts == Contexts

Interpretation ==
    [context: Contexts, request: Versions, evidence: SUBSET Items,
     settings: SettingsVersions, ready: BOOLEAN]

(***************************************************************************)
(* case_access followed by the require_edit test of authorized_case_access.*)
(***************************************************************************)
CanEdit(m) == m \in active /\ access[m] \in EditLevel

\* A request of m that passed this test earlier.
Admitted(m) == \E level \in EditLevel : <<m, level>> \in admitted
SomeoneAdmitted == admitted # {}

CaseFree == "case" \notin held

\* What an edit of the case needs when it runs: its request passed the
\* access test, and it holds the case row.
MayEdit == SomeoneAdmitted /\ CaseFree

\* A request works with the settings it read when it began.
Snapshot(s) == s <= settings

CaseTypeOK ==
    /\ version \in Versions
    /\ context \in Contexts
    /\ evidence \in [Versions -> SUBSET Items]
    /\ interps \subseteq Interpretation
    /\ latest \in Contexts \cup {0}
    /\ confirmed \subseteq Contracts
    /\ settings \in SettingsVersions
    /\ active \subseteq Members
    /\ access \in [Members -> Level]
    /\ admitted \subseteq Members \X EditLevel
    /\ held \subseteq Members \cup {"case", "company"}

CaseInit ==
    /\ version = 1
    /\ context = 1
    /\ evidence = [v \in Versions |-> {}]
    /\ interps = {}
    /\ latest = 0
    /\ confirmed = {}
    /\ settings = 1
    /\ active = Members
    /\ access = [m \in Members |-> IF m = CaseOwner THEN "OWNER" ELSE "NONE"]
    /\ admitted = {}
    /\ held = {}

-----------------------------------------------------------------------------
(* What the handlers read of the case and write to it.                      *)

\* The context an analysis is given, and keeps a binding of: the request
\* version, its files and the settings.  Without a file there is none.
CurrentContext(s, ready) ==
    [context |-> context, request |-> version, evidence |-> evidence[version],
     settings |-> s, ready |-> ready]

HasContext == evidence[version] # {}

\* The context an interpretation was shown with is the one of the case now.
ContextStands(i) == i.request = version /\ i.evidence = evidence[version]

\* The settings an interpretation used give the same analysis as those of s.
MateriallyCurrent(i, s) == Material[i.settings] = Material[s]

\* The interpretation rows of a context version.
AtContext(c) == {i \in interps : i.context = c}

\* A file already bound to the request version has the same digest.
IsBoundAlready(item) == item \in evidence[version]

Bind(item) == evidence' = [evidence EXCEPT ![version] = @ \cup {item}]

\* A new row of case_request_versions, which becomes the current one.
NewRequestVersion ==
    /\ version' = version + 1
    /\ context' = context + 1

\* The row of a new interpretation is the latest one of its case.
AddInterpretation(row) ==
    /\ interps' = interps \cup {row}
    /\ latest' = row.context

\* A contract is written once for an interpretation.
AcceptInterpretation(c) ==
    /\ c \notin confirmed
    /\ confirmed' = confirmed \cup {c}

\* A grant replaces the one the member had.
Grant(m, level) ==
    /\ m \notin held
    /\ access' = [access EXCEPT ![m] = level]

-----------------------------------------------------------------------------
(* Wrong variants of the definitions below, each the effect of a plausible  *)
(* mistake in the code; no specification uses them.                         *)

\* The service and the persistence layer both advance the context.
AddEvidenceAdvancesTwice(item) ==
    /\ MayEdit
    /\ context < MaxContext
    /\ item \notin evidence[version]
    /\ evidence' = [evidence EXCEPT ![version] = @ \cup {item}]
    /\ context' = context + 2
    /\ UNCHANGED <<version, interps, latest, confirmed, settings, accessVars, held>>

\* The file is stored but the context is not advanced.
AddEvidenceQuietly(item) ==
    /\ MayEdit
    /\ item \notin evidence[version]
    /\ evidence' = [evidence EXCEPT ![version] = @ \cup {item}]
    /\ UNCHANGED <<version, context, interps, latest, confirmed, settings,
                   accessVars, held>>

\* An interpretation that still has questions is accepted.
ConfirmUnready(s) ==
    /\ MayEdit
    /\ Snapshot(s)
    /\ latest = context
    /\ latest \notin confirmed
    /\ confirmed' = confirmed \cup {latest}
    /\ UNCHANGED <<version, context, evidence, interps, latest, settings,
                   accessVars, held>>

\* The contract is compared with the latest interpretation but not with the
\* context of the case.
BuildableWithoutContext(contract, v, cx, s) ==
    /\ contract \in confirmed
    /\ latest = contract
    /\ evidence[v] # {}
    /\ \E i \in interps :
         /\ i.context = contract
         /\ i.request = v
         /\ Material[i.settings] = Material[s]

-----------------------------------------------------------------------------
(* Handlers of CaseService, ConversationService, EvidenceService and        *)
(* AcceptanceService that change the case.                                  *)

\* A new immutable request version: both counters advance.
UpdateRequest ==
    /\ MayEdit
    /\ context < MaxContext
    /\ NewRequestVersion
    /\ UNCHANGED <<evidence, interps, latest, confirmed, settings, accessVars, held>>

\* A conversation event or a refinement cycle.
AddContext ==
    /\ MayEdit
    /\ context < MaxContext
    /\ context' = context + 1
    /\ UNCHANGED <<version, evidence, interps, latest, confirmed, settings,
                   accessVars, held>>

\* A file bound to the current request version; a content already present
\* is answered with the row it has and changes nothing.
AddEvidence(item) ==
    /\ MayEdit
    /\ context < MaxContext
    /\ ~IsBoundAlready(item)
    /\ Bind(item)
    /\ context' = context + 1
    /\ UNCHANGED <<version, interps, latest, confirmed, settings, accessVars, held>>

\* The analysis of the current context.  The settings are the ones the
\* request read when it began.
CreateInterpretation(s, ready) ==
    /\ MayEdit
    /\ Snapshot(s)
    /\ HasContext
    /\ AtContext(context) = {}
    /\ AddInterpretation(CurrentContext(s, ready))
    /\ UNCHANGED <<version, context, evidence, confirmed, settings, accessVars, held>>

\* The interpretation shown last is accepted, if it is about the current
\* context and the settings it used have not materially changed.
ConfirmInterpretation(s) ==
    /\ MayEdit
    /\ Snapshot(s)
    /\ latest = context
    /\ \E i \in AtContext(latest) : i.ready /\ ContextStands(i) /\ MateriallyCurrent(i, s)
    /\ AcceptInterpretation(latest)
    /\ UNCHANGED <<version, context, evidence, interps, latest, settings,
                   accessVars, held>>

-----------------------------------------------------------------------------
(* Requests, grants, memberships and settings, which change beside the case.*)

\* A request passes its access test ...
Admit(m) ==
    /\ CanEdit(m)
    /\ admitted' = admitted \cup {<<m, access[m]>>}
    /\ UNCHANGED <<caseVars, settings, active, access, held>>

\* ... and ends, whether or not it changed anything.
Leave(m, level) ==
    /\ <<m, level>> \in admitted
    /\ admitted' = admitted \ {<<m, level>>}
    /\ UNCHANGED <<caseVars, settings, active, access, held>>

\* The owner of the case may grant any active member, the owner included.
GrantAccess(o, m, level) ==
    /\ <<o, "OWNER">> \in admitted
    /\ m \in active
    /\ Grant(m, level)
    /\ UNCHANGED <<caseVars, settings, active, admitted, held>>

RevokeAccess(o, m) ==
    /\ <<o, "OWNER">> \in admitted
    /\ m # o
    /\ m \notin held
    /\ access[m] # "NONE"
    /\ access' = [access EXCEPT ![m] = "NONE"]
    /\ UNCHANGED <<caseVars, settings, active, admitted, held>>

\* Membership management locks the company row first.  The manager need not
\* be a member who may reach this case.
DeactivateMembership(m) ==
    /\ "company" \notin held
    /\ m \in active
    /\ active' = active \ {m}
    /\ UNCHANGED <<caseVars, settings, access, admitted, held>>

\* A new settings version becomes the company's current one.
ChangeSettings ==
    /\ settings < MaxSettings
    /\ settings' = settings + 1
    /\ UNCHANGED <<caseVars, accessVars, held>>

\* The routes that add to the case.
ConversationAndFileHandlers ==
    \/ AddContext
    \/ \E item \in Items : AddEvidence(item)

\* The routes that settle what is wanted.
RequirementHandlers ==
    \/ \E s \in SettingsVersions, ready \in BOOLEAN : CreateInterpretation(s, ready)
    \/ \E s \in SettingsVersions : ConfirmInterpretation(s)
    \/ UpdateRequest

AccessHandlers ==
    \/ \E o, m \in Members, level \in {"VIEWER", "EDITOR"} : GrantAccess(o, m, level)
    \/ \E o, m \in Members : RevokeAccess(o, m)

CaseNext ==
    \/ ConversationAndFileHandlers
    \/ RequirementHandlers
    \/ AccessHandlers
    \/ \E m \in Members : Admit(m)
    \/ \E m \in Members, level \in EditLevel : Leave(m, level)
    \/ \E m \in Members : DeactivateMembership(m)
    \/ ChangeSettings

CaseSpec == CaseInit /\ [][CaseNext]_allCaseVars

-----------------------------------------------------------------------------
(* What an interpretation must be to be built from.                         *)

(***************************************************************************)
(* The tests of GenerationService._current_payload on a contract, as seen  *)
(* by a session whose case row shows request version v and context cx and  *)
(* whose settings snapshot is s.                                           *)
(***************************************************************************)
BuildableAs(contract, v, cx, s) ==
    /\ contract \in confirmed
    /\ latest = contract
    /\ contract = cx
    /\ evidence[v] # {}
    /\ \E i \in interps :
         /\ i.context = contract
         /\ i.request = v
         /\ Material[i.settings] = Material[s]

(***************************************************************************)
(* An interpretation at the current context describes the current request  *)
(* version and exactly the evidence stored for it, and it is the one that  *)
(* latest_interpretation returns: no handler changes either without        *)
(* advancing semantic_context_version.                                     *)
(***************************************************************************)
CurrentInterpretationIsExact ==
    \A i \in interps :
      /\ i.context <= context
      /\ i.context = context =>
           /\ latest = context
           /\ i.request = version
           /\ i.evidence = evidence[version]

(***************************************************************************)
(* A contract names one ready interpretation with evidence, and the        *)
(* evidence of a request version only grows after it was accepted.         *)
(***************************************************************************)
ContractsAreGrounded ==
    \A c \in confirmed :
      \E i \in interps :
        /\ i.context = c
        /\ i.ready
        /\ i.evidence # {}
        /\ i.evidence \subseteq evidence[i.request]
        /\ \A j \in interps : j.context = c => j = i
=============================================================================
