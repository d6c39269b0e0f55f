# APBRA: a TLA+ verification project

APBRA lets the members of a company describe a report they need, clarify it with a
model, accept an exact interpretation, and generate a report from it. The service is
a Python API over PostgreSQL (`src/apps/api`), with a TypeScript generation pipeline
and a semantic bridge run as subprocesses, a model provider called over HTTP, an
artifact store on disk, and a web client (`src/apps/web`). Several API processes and
threads serve one database, so what keeps a case consistent is the database: row locks,
unique keys, triggers, and the order in which each handler reads, checks and commits.
That is what these modules model.

## 1. Inventory

| Component | State | Operations | Correct if |
|---|---|---|---|
| Reporting case (`application.py`, `persistence.py`, `authorization.py`) | `cases` row with `current_version` and `semantic_context_version`, request versions, grants | create, update, grant, revoke; every handler of a case takes `locked_case` | an interpretation at the current context describes the current request and its evidence |
| Conversation and clarification | events, cycles with `rounds_used`, limits in the settings | `append_event`, `start_refinement_cycle`, `create_interpretation` | rounds are charged once and bounded, answers meet the question they are to, the limits do not close a case |
| Evidence and reference material (`evidence.py`, `reference_material.py`, `content_storage.py`) | rows bound to a request version, bytes in an object store | add, list, read | adding one invalidates what was analysed before; rows have their bytes |
| Acceptance (`AcceptanceService`) | interpretations, confirmed contracts | `create_interpretation`, `confirm`, `state` | a contract is of one ready, current interpretation, accepted by a member who may |
| Report designs (`generation.py`) | `reviewed_report_designs`, `automatic_design_attempts` | `intake_reviewed_design`, `propose_automatic_design` | a design fits its contract, an attempt ends once and owns at most one design |
| Report generation (`generation.py`, `artifacts.py`) | `generation_attempts`, `generated_artifacts`, bytes in the artifact store | `start`, `cancel`, `artifact`, `history` | one build at a time, a success is authorized and has its bytes, history is well founded |
| Company lifecycle (`application.py` services, `persistence.py`) | companies, invitations, memberships, creation commands, the company a session speaks for | create, invite, revoke, accept, change role, deactivate, select | a company keeps an owner; a membership is a founder's or an invitee's; a removal is final |
| Authentication and sessions (`auth_boundary.py`, `oidc_adapter.py`, `identity_service.py`, `api.py`) | login transactions, external identities, sessions, two cookies in the browser | begin login, callback (consume, exchange, bind, commit, answer), logout (commit, answer) | a session comes from one login of its browser and is of the person the provider named; one identity per person; a session nobody holds has a reason |
| Tenant settings and credentials (`tenant_settings.py`, `tenant_secrets.py`) | versions, the current pointer, encrypted credentials, the deployment's keyring | save, save a section, restore, replace a credential | nobody's save is lost; the current credential is live and of its profile; only material changes invalidate work |
| Knowledge documents and dispatch (`knowledge_*.py`) | a journal of commands, revisions, dispatches, calls with receipts | create, revise, archive, prepare, claim, complete, reconcile | the journal replays; a provider write is repeated only after it failed |
| Native responses (`native_*.py`) and the private receiver (`foundry_report_runtime.py`) | a process with its lease and budget, admitted commands, archived answers, receipts | handshake, claim, send, archive, record, intake, stop | no more is paid for than the owner approved, a command is sent once, an answer is kept and taken in for what it was asked |
| Request outputs (`request_outputs.py`) | rows and bytes by command key | import, keep the text or the file of an answer | a row has its bytes; an output is of the context, the settings and the grant found under the lock |
| Model provider, semantic bridge | none that is durable | bounded calls | their outcomes are choices in the models; the Foundry provider's loop of calls is in `Receiver` |
| Foundry qualification, observability, request parsing, web client, repository scripts | – | – | not modelled, see section 8 |

How they interact: every handler opens one SQLAlchemy session per request and calls the
services with it. The services call `authorized_case_access` (a plain read of membership
and grant, or a locked one when the caller asks for it), then `locked_case` (`SELECT ...
FOR UPDATE` of the case row), check, write and commit. Analysis calls the provider and
the bridge *inside* that lock. Automatic designs and builds call them *between* two
transactions of the same session.

What is hard here, and why tests hardly reach it:

- **The session's identity map.** A second `SELECT ... FOR UPDATE` in one session waits
  for the lock but, without `populate_existing`, does not refresh an object that is
  still referenced; sessions are made with `expire_on_commit=False`. The second check of
  `propose_automatic_design` and of `start` therefore sees the `case` and `attempt`
  objects of the first transaction beside fresh queries of everything else. A rollback
  expires the objects, so the `except` branches read fresh rows.
- **Access before the lock.** Most handlers read the access and then wait for the case
  row; `intake_reviewed_design`, `propose_automatic_design` and the second transaction of
  a build read it under lock.
- **A commit with an unknown outcome**: the acknowledgement is lost and the session sees
  an exception, on which the code writes a failure or deletes bytes.
- **Database triggers** that refuse a change only at flush, past the `try` that cleans up.
- **Processes that stop** between two transactions of one request.
- **Several versions of the settings**, of which only some changes are material.

`PROJECT.json` lists these at their lines under `hazards`, with the properties that
catch them.

## 2. Modules and plan

| Module | Composes | Proofs |
|---|---|---|
| `ReportingCase`: the case, its grants, its settings pointer | – | `ReportingCaseProofs` |
| `Clarification`: conversation, cycles, limits | `ReportingCase` | `ReportingCaseProofs` |
| `Designs`: expert and automatic designs | `ReportingCase` | `GenerationProofs` |
| `Generation`: builds, cancellation, artifacts | `Designs` | `GenerationProofs` |
| `AttemptLifecycle`: abstract, implemented by `Generation` | – | `GenerationProofs` |
| `CompanyLifecycle`: companies, invitations, memberships | – | `CompanyProofs` |
| `KnowledgeDispatch`: a document, its journal and its dispatches | – | `KnowledgeProofs` |
| `TenantSettings`: versions and credentials | – | `SettingsProofs` |
| `Reservations`: the budget of a receiver | – | `ReceiverProofs` |
| `Receiver`: receiver process, requests, native commands | `Reservations` | `ReceiverProofs` |
| `CaseFiles`: uploads and outputs, bytes and rows | – | `CaseFilesProofs` |
| `SignIn`: logins, callbacks, identities, sessions | – | `SignInProofs` |

What is left, in order: the threads, the event loop and the row locks of one server
(`RequestLoop`: whether requests can wait on each other for ever); the web client's guards
against answers that arrive late; an abstract at-most-once write that the claim of
`KnowledgeDispatch` and of `Receiver` both implement.

The runs are kept to the ones that ask different questions of the system, and modules that
share a state are checked in one run.

## 3. What each module models

### ReportingCase

One case and the company around it. A state is what the database holds between commits.

| Variable | Code |
|---|---|
| `version`, `context` | `CaseRow.current_version`, `semantic_context_version` |
| `evidence` | contents of `EvidenceRow` and `ReferenceMaterialRow` by request version; contents are deduplicated by digest, so they are a set |
| `interps`, `latest` | `InterpretationRow`, unique in its context version; `latest_interpretation` |
| `confirmed` | `ConfirmedContractRow`, unique in its interpretation, named by its context version |
| `settings`, `Material` | the current settings version and its `material_digest` |
| `active`, `access` | what `active_actor` and `case_access` find |
| `admitted` | requests that passed `authorized_case_access` and have not ended |
| `held` | row locks kept across several steps by a build's second transaction |

Each action is one handler with all it writes, `locked_case` to commit: `UpdateRequest`,
`AddContext` (what conversation events and cycles do to the case), `AddEvidence`,
`CreateInterpretation`, `ConfirmInterpretation`, `GrantAccess`, `RevokeAccess`,
`DeactivateMembership`, `ChangeSettings`. `Admit` and `Leave` are a request's access test
and its end. A handler of the case is one step, though analysis calls the provider
inside it, because it holds the case row all the while; what it read before the lock
(access, settings) is not: access is `admitted`, and settings are any version `s <=
settings`. The verdict of the model and of the bridge on an analysis is the free choice
`ready`. Creation of the case, idempotent by command key, is `CaseInit`.

### Clarification

Events, cycles and limits on top of `ReportingCase`, whose actions the handlers of this
module contain. An answer appends one or two events (`AnswerEvents`); an analysis may ask
questions and then charges a round to the cycle it works on; past the overall limit only a context whose last event
is an answer may be analysed (`LastIsAnswer`). The constraint `ck_conversation_event_kind`
is part of the model: `EventKind` is what it admits, and a
refinement whose opening event it does not admit is rolled back (`RefinementRefused`).
Grants and deactivation are left out of this module's next-state relation: it is about the
order of the conversation, and `ReportingCase` checks them.

### Designs

`IntakeReviewedDesign` is the expert's single transaction. The automatic design is
`BeginProposal` (first commit: a RUNNING attempt), the provider call without a lock, and
one of `FinishProposal`, `FinishUnacknowledged` (the commit took effect, the session saw an
error), or `ProposalFails` followed by `RecordProposalFailure`, which is the `except` branch
with its blind write of FAILED. `StillBuildable` is the second check: `_current_payload`
evaluated with the stale case row (`b.request`, `b.contract`) and fresh everything else. `AbandonProposal`
stops the process.

### Generation and AttemptLifecycle

`Start` is the first transaction of `start`, with modes BUILD, RETRY and REGENERATE
(`ResolvesTo`), one RUNNING attempt per case, and replays that start nothing.
`StoreArtifact` is the second transaction to the moment the bytes are stored and read back: it takes
`held`, the rows of the case, the company and the members it depends on, until
`CommitSuccess`, `CommitUnacknowledged`, `CommitFails` or `DiscardArtifact` ends it.
The worker's own view of its attempt is stale, so `StoreArtifact` does not test the status;
the trigger of migration `20260924_03` does, at commit (`WriteSuccess`, `CommitFails`).
`RecordFailure` is the `except` branch, which reads afresh. `Cancel` is blocked by the row lock of a worker
that is writing. `AttemptLifecycle` is the promise to a client, without any of this, and
`ImplementsLifecycle` states that `Generation` implements it with the downloads that
`artifact()` would serve as the refinement mapping.

### CompanyLifecycle

A request is a record with the stage it has reached: `CreateBegins`, `AcceptBegins` and
`ManageBegins` are the reads of session and actor without a lock, `CreateLocks` and
`AcceptLocks` take the first row locks, `CreateFinishes` and `AcceptFinishes` commit, and
the steps of `Manage` (`Issue`, `Revoke`, `Deactivate`, `ChangeRole`, `ManageRefused`) lock
the company, read the actor again and commit in one. `IdentityHeld`, `SessionHeld` and `CompanyHeld`
are the locks that requests in flight hold. Creation asks for a membership and then for an invitation in two
statements, so an acceptance or an invitation can come between them. `RolledBack` ends any
request. An identity is a profile and a subject, so that two people with one subject
at two providers are told apart.

### KnowledgeDispatch

One document. `Apply` adds a command after validating the journal (`IsReplayed`, a
recursive function over the commands) and the expected revision. `Prepare` adds a
dispatch; `ClaimSend` and `CommitSend` are the two reads of a claim, `ClaimReconcile` the claim of a
reconciliation, `Complete` the receipt, `CallIsLost` a process that stops while the provider works.
The handlers hold the lock of the company, but for the completion, which locks its call alone.

### TenantSettings

Versions are a sequence whose last one is current; credentials are a sequence that
versions refer to by number. A request begins with the version its client saw, and
`SaveAll`, `SavePolicy` (the save of one section), `Restore`, `Replace` or `Refused` is its
locked part. `Redeploy` changes the keyring, so that old credentials no longer decrypt;
`FoundryReadiness` is the deployment's own provider.

### Reservations and Receiver

`Reservations` is the class of that name: `ClaimCall`, `FinishOperation`, `CloseBudget`. `Receiver`
is the process around it (`Listen`, `AcceptApproval`, `AcceptAccount`, `AcceptToken`, `Revoke`,
`Stop`), the requests that use it (`BeginAnalysis`, `BeginDesign`, then `Claim`,
`TakeBearer`, `Post`, `Retry`, `Fail`, and `StoreAnalysis`, `StoreDesign` or `Finish`), and the native
commands of the API (`Admit`, `Replay`, `Preserve`, `Record`, `IntakeAnalysis`). The budget is
lost when the process stops; the admitted commands, the archive and the receipts are
not. `FinishOperation` of a cancelled request may come while its worker still runs.

### CaseFiles

A handler goes from its body or its archive (`BODY`) to `ADMITTED`, `STORED`, `FLUSHED` and
its commit, and holds the case row (`lock`) from `STORED`. `EvidenceBegins`,
`ReferenceBegins`, `ImportBegins`, `TextBegins` and `FileBegins` are its beginnings; `UploadFails`
and `OutputFails` are the `except` branches, of which only some delete the bytes (`Cleanup`,
`Abandon`); `CommittedUnacknowledged` and `RolledBack` are the two outcomes of a commit without an
acknowledgement and of a process that stops. `BytesLost` is a fault of the storage. `BundlePrepared` reads
the files of a request for the provider. A content is a model value in the set of
contents that parse as its kind; `OutputsOf` is what `request_outputs` finds by command key.

### SignIn

A callback is `BurnState` (consumes the transaction and commits), `Exchange` or
`RefuseExchange` or `ExchangeFails`, `Resolve` (find, adopt or insert the identity;
`InsertWaits` is the unique index on an insert that has not committed), `CommitSession` (revokes
the session whose cookie came with the callback) and `Respond` (sets one cookie and clears the
other); a provider's error is `ProviderError` and `RespondError`. A logout is `SendLogout`,
`CommitLogout` (revokes the session it was sent with, if that is still to be done) and `AnswerLogout`
(deletes the session cookie, whatever it names by then). The browser is part of the model: a request
carries the cookies of the moment it is sent, and its response changes those of the moment it arrives; a
browser may send a callback twice, and may lose a response (`Stops`; a logout's response that is lost
is one that never comes). `crossed` is a history variable: the requests of the browser under way when a
callback's response arrived. `Deploy` changes the provider profile,
`ProviderRotatesKey` and `CacheExpires` the keys. The local provider of development commits the use of a
code with the session.

## 4. Runs

`CHECK_DEADLOCK FALSE` everywhere: a case whose members are all deactivated, or whose
bounds are reached, may stop.

| Run | Instance | Shows |
|---|---|---|
| `case` | two members, two files, 4 contexts, 3 settings versions of which the first two are materially equal | `CurrentInterpretationIsExact`, `ContractsAreGrounded` |
| `clarification` | one member, 5 contexts, two settings versions with different limits, two event commands, one refinement | `RoundsAreCharged`, `AnswersMeetTheirQuestions` |
| `designs` | two proposals with two commands, one member who is also an expert, two files, 3 contexts, crashes | `DesignsMatchContracts`, `AttemptsOwnTheirDesigns`, `ProposalsEnd` |
| `generation` | an owner and an expert reviewer, one build, two settings versions that differ materially, crashes, failing commits and deletes | `ArtifactsAreBacked`, `SuccessIsAuthorized`, `BuildsEnd` |
| `generation_lifecycle` | two workers, two attempts, an automatic design, 3 contexts, crashes and lost commits | `HistoryIsWellFounded`, `ImplementsLifecycle` |
| `company` | two companies, three identities of which two share a subject, two invitations, two requests in flight | `CompaniesKeepAnOwner`, `MembersWereInvited`, `RemovalIsFinal` |
| `knowledge` | two managers, three commands, two settings versions, two dispatches with two calls each | `JournalIsReplayable`, `RepeatsFollowFailure` |
| `knowledge_resend` | one manager, three dispatches | a violation: section 7 |
| `settings` | four versions, two credentials, two tenant profiles and Foundry, two encryption keys, one request in flight | `CurrentCredentialIsLive`, `SavesBuildOnWhatWasSeen` |
| `files` | two requests, two objects, a table, an image, a document and a native answer, 3 contexts, one fault | `BytesOutliveRows`, `OrphansAreExplained`, `BundlesAreWhole`, `OutputsAreCurrent` |
| `sign_in` | two browsers, two people, two logins, two callbacks, one logout, three deployments, one fault | `SessionsAnswerTheirLogin`, `LiveSessionsAreHeld` |
| `receiver` | two processes, two approvals of one or two stages, three requests, two native commands, three versions of context and settings | `CallsAreApproved`, `CommandsAreSentOnce`, `AnswersAreKept`, `IntakesMatchAdmission`, `DesignsFollowTheirAnalysis` |

Each passing run also checks the type invariant of its module, once.

Bounds. Every counter has a named bound in a guard. `MaxContext` 3 lets a case be given a
file, analysed, accepted, changed once and analysed again, which is what makes an interpretation,
a design or a build stale; `case` has a second round of it, `clarification` needs 5 for two rounds of
questions, an answer and a refinement. Two workers, two proposals and two attempts suffice for the
races of these modules: they relate an attempt to its own worker, to one other writer (a
cancellation, a second worker) and to one earlier attempt. Three settings versions, two of
them materially equal, distinguish a version from its material. Two requests in flight are enough
in `company`, `files` and `sign_in` since each lock there has one holder and one who waits; a third request
of `receiver` is the one that repeats a key or takes a slot after a cancellation. Four settings versions are a
switch of the profile, the switch back, and a restoration over it. Two dispatches are an attempt and
its replacement; `knowledge_resend` has a third because two earlier ones are involved. One logout is enough, since a response it
crosses is that of one callback. `designs` has one settings
version: that a design is made under settings of the same material as its analysis is checked by `generation`, at the success
of its build. One
fault in `files` and `sign_in` (where a new deployment or a new signing key is a fault too) suffices to violate a property where the code has no answer to it, and
two independent faults only leave more orphans. Where the state needs more than that, the proofs of section 6 hold for
every value of the bounds. Symmetry is used only over model values that are
interchangeable, and only in runs without liveness properties.

## 5. Fairness

`ProposalFairness` and `GenerationFairness` are weak fairness of the steps of a
request that has begun: a provider call ends within `request_timeout_seconds`
(`model_provider.py:601`, at most 300 s), the bridge subprocess is killed at `timeout_seconds`
(`generation.py`, `GenerationBridge._call`), and every later statement of the handler
returns. Nothing is assumed of clients, of other requests, or of processes that stop: `ProposalsEnd` and
`BuildsEnd` say that an attempt stays RUNNING only if its process stopped (or, for a
build, the failure could not be recorded). Nothing in the code then ends an automatic
attempt; a build's attempt can be cancelled by a member. The other modules state no
fairness: their handlers end in a refusal, a commit or a rollback, a process may stop at
any step, and nothing in the code takes up again what a stopped process left.

## 6. Proofs

`ReportingCaseProofs` proves, for any members, experts, files, bounds and settings
(`CaseAssumption`), that `CaseSpec` keeps `CaseTypeOK`, `CurrentInterpretationIsExact` and
`ContractsAreGrounded`. Neither of the last two is inductive. The inductive invariant
`CaseInvariant` adds to them

- `VersionIsBounded`: every new request version also advances the context, so that a version
  never leaves its bound;
- `InterpretationsAreUnique`: a context has one interpretation and the evidence it analysed is
  non-empty and still stored, without which a new interpretation could shadow the one accepted;
- `ContractsAreReady`: a contract accepts a ready interpretation.

There is one lemma per handler that works on the case, one for all the steps beside
it, and each splits by conjunct.

The same module proves, for any settings and limits (`ClarificationAssumption`), that
`ClarificationSpec => CaseSpec` (`ConversationImplementsCase`): whatever the conversation does to the
case is a step of `ReportingCase`, so that all of the above holds of it too. On top of it are
`ClarificationTypeOK`, `RoundsAreCharged` and `AnswersMeetTheirQuestions`. `ClarificationInvariant`
adds to these

- `QuestionsAreInterpretations`: only a stored interpretation asks, so that a context that is
  analysed for the first time has not asked before, and its round is a new one;
- `EventsArePast`: every event is about a context before the current one, so that a new answer comes
  after all earlier ones and never repeats one of them;
- that the rounds are a finite set. `rounds_used` summed over the cycles of a case is defined as the
  number of pairs of a cycle and a round of it (`Rounds`); a charge adds one pair
  (`ChargedRounds`) and a new cycle none (`NewCycleRounds`), which spares an induction over the cycles.

`GenerationProofs` proves first for `DesignSpec`, and any proposers, commands and bounds,
`DesignTypeOK`, `DesignsMatchContracts` and `AttemptsOwnTheirDesigns`. A proposal's second
check compares with the binding of its attempt and not with the case, so
`DesignsMatchContracts` rests on the attempts being bound to an accepted contract from the start
(`AttemptsMatchContracts`), under settings that would have given the same analysis, and on interpretations and
contracts only ever being added (`RowsOnlyGrow`). `AttemptsOwnTheirDesigns` needs `ProposalsRunAlone`: no two requests are at work on one
attempt, and it is RUNNING while the provider works, so that the design added at the end
is its first.

It then proves for `GenerationSpec`, and any workers, commands and bounds,
`GenerationTypeOK`, `ArtifactsAreBacked`, `HistoryIsWellFounded`, `SuccessIsAuthorized` and
`ImplementsLifecycle`. `GenerationInvariant` adds to the invariant of designs

- `WorkersHaveAttempts`: each worker that is not idle has an attempt of its own, so that a failure
  recorded by one never ends the attempt of another;
- `StatusesMatchRows`: the rows that exist are those with a status, and one runs at most;
- `WriterHoldsItsRows`: the one transaction that spans several steps holds the rows of the case,
  the company and the members it depends on, and what it checked is still true;
- `WorkIsOpen`: until it fails, a worker's attempt can only be cancelled under it, so the bytes
  it deletes are never those of an artifact.

`DesignsRespectLocks` states what a held row guarantees against every other handler
(`HeldRowsStand`), and `SuccessAuthorized` follows from it at the commit. `StepMovesStatus` lists
the only steps that change a status; the refinement of `AttemptLifecycle` and the history are proved over
that list. `BuildsOnlyDelay` is the refinement the other way down: with `held` replaced by the
empty set, every behaviour of `GenerationSpec` is one of `DesignSpec`. Builds change nothing of the case and
its designs; all they do to the other handlers is to make them wait.

`CompanyProofs` proves, for any identities, companies, invitations, sessions and requests,
`LifecycleTypeOK`, `CompaniesKeepAnOwner`, `MembersWereInvited` and `RemovalIsFinal`. None of
the three rests on the rows alone: `IdentityLocks` and `CompanyLocks` say that a row lock has one
holder and that what it read under the lock is still so (the creation command is still free, the
invitation is still neither withdrawn nor consumed), and `OnlyOfFounded` that a company that does not exist has no
member, so that founding it brings nobody back. `CompaniesKeepAnOwner` rests on little: no handler makes a second
owner, and none demotes an owner or removes the last one.

`KnowledgeProofs` proves `KnowledgeTypeOK`, `JournalIsReplayable` and `RepeatsFollowFailure`. The
journal needs `RevisionsAreCounted` (there is a revision for each command but the archives), by which the expected
revision of a new command counts the writes before it. `RepeatsFollowFailure` needs
`ClaimIsOfTheLast` (a dispatch that is being claimed is the newest of its command and unsent) and
`ReplacedHaveFailed`.

`SettingsProofs` proves `SettingsTypeOK`, `CurrentCredentialIsLive` and
`SavesBuildOnWhatWasSeen`, whose invariant is the first two: what a save carries over is live
because the version it builds on is the current one (`CarriedIsLive`), and what a restoration takes is tested again
(`RestoredIsLive`).

`CaseFilesProofs` proves `FilesTypeOK`, `BytesOutliveRows`, `OrphansAreExplained`, `BundlesAreWhole` and
`OutputsAreCurrent`. The invariant adds `HandlersFit` (what a handler of each phase carries),
`WritersHold`
(the handler that holds the case has its bytes under a key of its own, and what it read under the lock is
still so), `FilesPrecede` (a file is of a context before the one it made) and `BundleDated` (the bundle
is of a context the case has had).

`SignInProofs` proves `SignInTypeOK`, `SessionsAnswerTheirLogin` and `LiveSessionsAreHeld`. The
invariant says of the callbacks what they hold between their transactions (`CallbacksFit`), that a
consumed login transaction was consumed by one callback (`BurnedOnce`), that an identity which is not
committed yet is the only one of its person (`NewIdentitiesAreOnly`), and, for the last
property, that a request which has not crossed the response of the session its browser holds was sent with
that session (`PriorsAreHeld`): so a callback has revoked what its response replaces and a logout what its
response deletes, once they are committed. `LiveSessionsAreHeld` is then about what has crossed: a request sent before
the response of a session arrived, and answered after it.

`ReceiverProofs` proves, for any processes, approvals, requests, versions and finite set of command
keys, `ReceiverTypeOK`, `CallsAreApproved`, `CommandsAreSentOnce`, `AnswersAreKept`,
`IntakesMatchAdmission` and `DesignsFollowTheirAnalysis`. The budget is in memory, the requests are
threads and the commands are rows, and `ReceiverInvariant` says how the three agree:

- `ProcessIsAuthorized` and `ApprovalsAreConsistent`: a process serves under the one approval that answered its
  nonce, and an approval that pays for an analysis expects no interpretation beforehand;
- `RequestsAreAuthorized`: a request in flight is of the approval in force. A cancelled request whose worker
  goes on, or one of a process that stopped, cannot claim from a later approval;
- `CallsAreClaimed` and `SlotsAreOwned`: a call is claimed before it is sent, on a slot that no other
  request has;
- `BudgetCountsClaims`: the counters of the budget are the claims of the owner of the slot at the cursor, and slots
  before it are of operations that are over, by which a claim that passes `ClaimCall` stays within the
  approval;
- `CommandsHaveRequests`: a command is worked on by one request, under an approval of one call,
  and stays `ADMITTED` while it runs;
- `IntakesHaveCommands` and `DesignsAreExpected`: what is taken in names a command that exists, and a
  design that claimed a call is of the interpretation the budget expects, already confirmed.

That the sequence of commands is bounded by the number of keys is a pigeonhole argument
(`KeyIsLeft`) and the reason why `Keys` is assumed finite. `CommandsSettle` is an action property: no
later request, process or lost answer changes a command that has been recorded, or what any command
was admitted for.

Assumptions on constants are named and state what the proofs use: bounds are numbers, distinguished
model values are not members of the sets they stand beside. TLC evaluates each in a passing run.

Every invariant, every safety action property and the refinement that a passing run checks is a
theorem. Only model-checked is liveness (`ProposalsEnd`, `BuildsEnd`), which needs fairness and
`ENABLED`. The violation of section 7 is a counterexample, and concerns only the instance that
shows it. That `IsReplayed` accepts every journal that `JournalIsReplayable` describes would be an
induction over the journal, which the prover does not do; the property states the
conditions of `_validate_journal` one by one and is proved directly.

## 7. Findings

- `knowledge_resend`: the claim of a retry asks for an acknowledged and then for an uncertain dispatch of its
  command (`knowledge_dispatch.py:396` and following) in two statements; a reconciliation's late receipt
  that commits between them passes both, and the provider gets the command twice. What holds all the
  same is `RepeatsFollowFailure`: the earlier write was refused at least once.

Observations made while modelling. The models behave so too, and no run asks for the
contrary:

- `confirm` (`application.py:1421`) tests access before it waits for the case row, so an acceptance
  can commit after the access of its member has ended.
- A refinement without a text (`application.py:923`) ends in an integrity error, because
  `CLARIFICATION_CYCLE_STARTED` is not among the kinds the schema admits (`RefinementRefused`).
- After the last round of questions, a message or a correction closes the case to analysis until
  the settings are raised (`application.py:1150`).
- The second check of an automatic design and of a build (`generation.py:1365`, `1740`) compares with the case row
  cached in the session, so a result for a replaced request becomes eligible or succeeds.
  `DesignsMatchContracts` and `SuccessIsAuthorized` are what holds: the design fits the
  contract it was made for, and a success needs the people, the evidence and the latest interpretation to be unchanged.
- An ELIGIBLE attempt whose commit was not acknowledged is overwritten with FAILED, while its
  design stays (`generation.py:1434`).
- Cancelling a build while the bridge works leaves its bytes in the store without any failure of
  process or database (`generation.py:1792`).
- An output that cannot be read back after it was stored, or whose flush fails otherwise than by a unique
  key, leaves its bytes without a row (`request_outputs.py:253-278`); `OrphansAreExplained` names the case.
- The response to a sign-in clears the binding cookie of a newer login of the same browser, which then
  has to begin again; and two callbacks of one browser at once each revoke the session they were sent with, so that the
  session of the first stays valid though no browser has it (`api.py:1526`). The same is left by a logout whose response
arrives after that of a later sign-in: it deletes the new session's cookie (`api.py:1721`), and that
session stays valid until it expires.

## 8. Not modelled, and why

- Two orders in which requests might wait on each other: the async upload handlers that wait for a case row
  on the event loop (`api.py:1798`), and the order of row locks in the second transaction of a build
  (`generation.py:1737`). The threads and the event loop belong to the server, and handlers are atomic in these models
  because they hold the case row: a module of its own (`RequestLoop`).
- The creation of a case, idempotent by command key, is an initial state; reads and lists change no state.
- Legacy designs of schema version 1, a pipeline executable replaced during a build, and a
  clock that steps back (`persistence.py:2166`, `latest_interpretation` orders by `created_at`).
- The expiry of a session, display names, CSRF and the claims of a token beyond the login and the
  person they name.
- The intake of a native design: it creates an attempt as `Designs` does, keyed by the receipt.
- Amounts of money, the month and the deadline of a lease, which only refuse more.
- What the pipeline, the bridge and the model compute: pure functions of their input,
  whose verdict is a choice here.
- Foundry qualification (`foundry_owner_metadata.py`: an owner-operated tool), observability (written with the
  transactions that are modelled), request parsing and configuration, and the repository's
  scripts, which have no run-time state.
- The web client, a client of the API; its guards against late answers are in the plan.
