-------------------------- MODULE KnowledgeDispatch --------------------------
(***************************************************************************)
(* A company's knowledge document: the local commands that change it, and  *)
(* the dispatches that write a command to the external document provider.  *)
(* A dispatch is prepared, claimed and completed.  The claim commits a call*)
(* before the provider is asked, the receipt of the call commits after it, *)
(* and no lock is held in between; the process may stop there.  A SEND is  *)
(* claimed once for a dispatch, a RECONCILE asks the provider again what   *)
(* became of it.                                                           *)
(*                                                                         *)
(* Every handler but the completion holds the lock of the company from its *)
(* authorization to its commit, so those are one step each.  The claim of  *)
(* a SEND is two: it asks first whether another write of the command is    *)
(* acknowledged and then whether another one is uncertain, in statements   *)
(* of their own, and a completion, which locks only its call, can commit   *)
(* between them.  A handler that is refused changes nothing and is not an   *)
(* action; nor is one whose idempotency key was used before, which answers *)
(* with what the first one did, so that keys are not kept.                 *)
(***************************************************************************)
EXTENDS Integers, Sequences, FiniteSets

CONSTANTS
    Members,       \* memberships of the company
    MaxCommands,   \* bound: local commands of the document
    MaxSettings,   \* bound: settings versions
    MaxDispatches, \* bound: dispatches of the document
    MaxCalls       \* bound: calls of a dispatch

ASSUME KnowledgeAssumption ==
    /\ MaxCommands \in Nat /\ MaxSettings \in Nat \ {0}
    /\ MaxDispatches \in Nat /\ MaxCalls \in Nat

VARIABLES
    manager,    \* members who are active owners or administrators
    settings,   \* current version of the tenant settings
    commands,   \* tenant_knowledge_commands, in sequence
    revisions,  \* the predecessor of each revision
    document,   \* current_revision_id and current_operation_id
    dispatches, \* tenant_knowledge_dispatches, in sequence
    calls,      \* calls of each dispatch with their receipts
    working,    \* calls whose handler still waits for the provider
    claim       \* the dispatch whose SEND claim holds the company's lock

knowledgeVars ==
    <<manager, settings, commands, revisions, document, dispatches, calls, working, claim>>

Kind == {"CREATE", "REVISION", "ARCHIVE"}
Outcome == {"ACKNOWLEDGED", "FAILED", "PARTIAL", "UNKNOWN"}
Pending == "PENDING"

Command ==
    [kind: Kind, target: 1..MaxCommands, expected: 0..MaxCommands]
Revision == 0..MaxCommands     \* its predecessor; 0: none
Dispatch ==
    [command: 1..MaxCommands, revision: 1..MaxCommands, settings: 1..MaxSettings]
Call == [kind: {"SEND", "RECONCILE"}, receipt: Outcome \cup {Pending}]
NoClaim == 0

Seen == DOMAIN dispatches

\* The columns and constraints of the tables.
KnowledgeTypeOK ==
    /\ manager \subseteq Members
    /\ settings \in 1..MaxSettings
    /\ commands \in Seq(Command) /\ Len(commands) <= MaxCommands
    /\ revisions \in Seq(Revision) /\ Len(revisions) <= Len(commands)
    /\ document \in [revision: 0..Len(revisions), operation: 0..Len(commands)]
    /\ dispatches \in Seq(Dispatch) /\ Len(dispatches) <= MaxDispatches
    /\ calls \in [1..MaxDispatches -> Seq(Call)]
    /\ \A d \in 1..MaxDispatches :
         \A n \in DOMAIN calls[d] : calls[d][n].kind = "SEND" <=> n = 1
    /\ working \subseteq (1..MaxDispatches) \X (1..MaxCalls)
    /\ claim \in {NoClaim} \cup 1..MaxDispatches

KnowledgeInit ==
    /\ manager = Members
    /\ settings = 1
    /\ commands = <<>>
    /\ revisions = <<>>
    /\ document = [revision |-> 0, operation |-> 0]
    /\ dispatches = <<>>
    /\ calls = [d \in 1..MaxDispatches |-> <<>>]
    /\ working = {}
    /\ claim = NoClaim

\* authorize: an owner or administrator, under the lock of the company.
Authorized(m) == m \in manager /\ claim = NoClaim

-----------------------------------------------------------------------------
(* Wrong variants of the definitions below, each the effect of a plausible  *)
(* mistake in the code; no specification uses them.                         *)

\* A contradiction between receipts is not kept apart.
LatestOutcome(d) ==
    LET history == calls[d] IN
    IF history = <<>> THEN "NOT_SENT"
    ELSE LET last == history[Len(history)].receipt
         IN  IF last \in {Pending, "PARTIAL"} THEN "UNKNOWN" ELSE last

\* The expected revision of a command is not compared with the current one.
ExpectsAny(journal, command) == command.expected \in 0..Len(journal.revisions)

\* A dispatch may be retried unless it was acknowledged.
RetryableUnlessAcknowledged(d) == LatestOutcome(d) # "ACKNOWLEDGED"

\* A receipt of another kind than those of the schema.
CompleteAsSent(d, n, answer) ==
    /\ <<d, n>> \in working
    /\ calls' = [calls EXCEPT ![d][n].receipt = "SENT"]
    /\ working' = working \ {<<d, n>>}
    /\ UNCHANGED <<manager, settings, commands, revisions, document, dispatches, claim>>

-----------------------------------------------------------------------------
(* What became of a dispatch: summary.                                      *)

\* The receipt of the last call counts; a call without one and a partial
\* receipt are uncertain, and so is a failure after an acknowledgement.
WriteOutcome(d) ==
    LET history == calls[d]
        last == history[Len(history)].receipt
        acknowledged == \E n \in DOMAIN history : history[n].receipt = "ACKNOWLEDGED"
    IN  IF history = <<>> THEN "NOT_SENT"
        ELSE IF last \in {Pending, "PARTIAL"} \/ (acknowledged /\ last = "FAILED")
             THEN "UNKNOWN"
             ELSE last

SameCommand(d) == {e \in Seen : dispatches[e].command = dispatches[d].command}

AnotherAcknowledged(d) ==
    \E e \in SameCommand(d) \ {d} : WriteOutcome(e) = "ACKNOWLEDGED"

AnotherUncertain(d) == \E e \in Seen \ {d} : WriteOutcome(e) = "UNKNOWN"

-----------------------------------------------------------------------------
(* Local commands: KnowledgeDocumentsService.apply.                         *)

Journal ==
    [revisions |-> revisions, current |-> document.revision, operation |-> document.operation]

NewJournal == [revisions |-> <<>>, current |-> 0, operation |-> 0]

ExpectsCurrent(journal, command) == command.expected = journal.current

\* _action_preconditions: what a command may do to a journal.
Admits(journal, command) ==
    /\ ExpectsCurrent(journal, command)
    /\ CASE command.kind = "ARCHIVE"  -> command.target \in DOMAIN journal.revisions
         [] command.kind = "CREATE"   -> journal.revisions = <<>>
         [] command.kind = "REVISION" -> journal.current # 0

\* begin_operation, of the n-th command: CREATE and REVISION add a revision
\* after the current one; ARCHIVE asks for the removal of the current one,
\* which stays current.
Begun(journal, n, command) ==
    IF command.kind = "ARCHIVE"
    THEN [journal EXCEPT !.operation = IF command.target = journal.current THEN n ELSE @]
    ELSE [revisions |-> Append(journal.revisions, command.expected),
          current |-> command.target,
          operation |-> n]

\* _validate_journal: the document is what its commands, one by one, make of it.
IsReplayed ==
    LET replay[n \in 0..Len(commands)] ==
            IF n = 0 THEN NewJournal ELSE Begun(replay[n - 1], n, commands[n])
    IN  /\ \A n \in DOMAIN commands : Admits(replay[n - 1], commands[n])
        /\ Journal = replay[Len(commands)]

\* parse_payload: every command but CREATE names the revision it expects.
IsPayload(kind, expected) == kind = "CREATE" <=> expected = 0

\* A new command over a document whose journal still is valid.
Apply(m, kind, expected) ==
    LET target == IF kind = "ARCHIVE" THEN expected ELSE Len(revisions) + 1
        command == [kind |-> kind, target |-> target, expected |-> expected]
        begun == Begun(Journal, Len(commands) + 1, command)
    IN  /\ Authorized(m)
        /\ IsPayload(kind, expected)
        /\ Len(commands) < MaxCommands
        /\ IsReplayed
        /\ Admits(Journal, command)
        /\ commands' = Append(commands, command)
        /\ revisions' = begun.revisions
        /\ document' = [revision |-> begun.current, operation |-> begun.operation]
        /\ UNCHANGED <<manager, settings, dispatches, calls, working, claim>>

-----------------------------------------------------------------------------
(* Dispatches: KnowledgeDispatchService.                                    *)

\* A dispatch may be replaced after a definite failure, or unsent under
\* settings that are no longer current.
Retryable(d) ==
    \/ WriteOutcome(d) = "FAILED"
    \/ WriteOutcome(d) = "NOT_SENT" /\ dispatches[d].settings # settings

\* The expected revision, operation and settings of the request are the
\* current ones, and retry_of names the last dispatch of the operation.
Prepare(m) ==
    LET earlier == {d \in Seen : dispatches[d].command = document.operation}
    IN  /\ Authorized(m)
        /\ document.operation # 0
        /\ Len(dispatches) < MaxDispatches
        /\ \A d \in earlier : (\A e \in earlier : e <= d) => Retryable(d)
        /\ dispatches' = Append(dispatches,
              [command |-> document.operation,
               revision |-> commands[document.operation].target,
               settings |-> settings])
        /\ UNCHANGED <<manager, settings, commands, revisions, document, calls, working, claim>>

CurrentContext(d) ==
    /\ dispatches[d].settings = settings
    /\ dispatches[d].command = document.operation
    /\ dispatches[d].revision = document.revision

\* A committed call; its handler goes on to ask the provider.
AddCall(d, kind) ==
    /\ Len(calls[d]) < MaxCalls
    /\ calls' = [calls EXCEPT ![d] = Append(@, [kind |-> kind, receipt |-> Pending])]
    /\ working' = working \cup {<<d, Len(calls[d]) + 1>>}

\* The first half of claim, up to the question about acknowledged writes.
ClaimSend(m, d) ==
    /\ Authorized(m)
    /\ d \in Seen
    /\ calls[d] = <<>>
    /\ CurrentContext(d)
    /\ \A e \in SameCommand(d) : e <= d
    /\ ~AnotherAcknowledged(d)
    /\ claim' = d
    /\ UNCHANGED <<manager, settings, commands, revisions, document, dispatches, calls, working>>

\* The second half: the question about uncertain writes, and the commit.
CommitSend ==
    /\ claim # NoClaim
    /\ ~AnotherUncertain(claim)
    /\ AddCall(claim, "SEND")
    /\ claim' = NoClaim
    /\ UNCHANGED <<manager, settings, commands, revisions, document, dispatches>>

\* An uncertain write was found, the provider cannot plan the submission, or
\* the process stops: the transaction is rolled back.
ClaimRolledBack ==
    /\ claim # NoClaim
    /\ claim' = NoClaim
    /\ UNCHANGED <<manager, settings, commands, revisions, document, dispatches, calls, working>>

ClaimReconcile(m, d) ==
    /\ Authorized(m)
    /\ d \in Seen
    /\ calls[d] # <<>>
    /\ AddCall(d, "RECONCILE")
    /\ UNCHANGED <<manager, settings, commands, revisions, document, dispatches, claim>>

\* normalize: an answer is the set of what it says of the keys of the
\* submission, empty when there is no answer that covers them.
Normalized(answer) ==
    CASE answer = {}          -> "UNKNOWN"
      [] answer = {TRUE}      -> "ACKNOWLEDGED"
      [] answer = {FALSE}     -> "FAILED"
      [] answer = BOOLEAN     -> "PARTIAL"

\* complete: the provider's answer, or the lack of one, is kept whoever has
\* lost their authority meanwhile.
Complete(d, n, answer) ==
    /\ <<d, n>> \in working
    /\ calls' = [calls EXCEPT ![d][n].receipt = Normalized(answer)]
    /\ working' = working \ {<<d, n>>}
    /\ UNCHANGED <<manager, settings, commands, revisions, document, dispatches, claim>>

\* The process stops while the provider works.
CallIsLost(d, n) ==
    /\ <<d, n>> \in working
    /\ working' = working \ {<<d, n>>}
    /\ UNCHANGED <<manager, settings, commands, revisions, document, dispatches, calls, claim>>

-----------------------------------------------------------------------------
(* The company around the document.                                         *)

\* Settings are saved under the lock of their current version.
UpdateSettings ==
    /\ claim = NoClaim
    /\ settings < MaxSettings
    /\ settings' = settings + 1
    /\ UNCHANGED <<manager, commands, revisions, document, dispatches, calls, working, claim>>

\* Roles and memberships change under the lock of the company.
ChangeManager(m) ==
    /\ claim = NoClaim
    /\ manager' = IF m \in manager THEN manager \ {m} ELSE manager \cup {m}
    /\ UNCHANGED <<settings, commands, revisions, document, dispatches, calls, working, claim>>

\* document_write
DocumentHandlers ==
    \E m \in Members, kind \in Kind, expected \in 0..Len(revisions) : Apply(m, kind, expected)

\* provider_write
DispatchHandlers ==
    \/ \E m \in Members : Prepare(m)
    \/ \E m \in Members, d \in 1..MaxDispatches : ClaimSend(m, d) \/ ClaimReconcile(m, d)
    \/ CommitSend
    \/ ClaimRolledBack
    \/ \E d \in 1..MaxDispatches, n \in 1..MaxCalls :
        \/ \E answer \in SUBSET BOOLEAN : Complete(d, n, answer)
        \/ CallIsLost(d, n)

KnowledgeNext ==
    \/ DocumentHandlers
    \/ DispatchHandlers
    \/ UpdateSettings
    \/ \E m \in Members : ChangeManager(m)

KnowledgeSpec == KnowledgeInit /\ [][KnowledgeNext]_knowledgeVars

-----------------------------------------------------------------------------
(* Properties.                                                              *)

\* The document always passes _validate_journal, which every later command
\* runs first: each command expected the newest revision of its time, and the
\* document points at the newest revision and at the last command about it.
\* Otherwise the document could never be changed again.
JournalIsReplayable ==
    /\ \A c \in DOMAIN commands :
         LET before == {b \in 1..(c - 1) : commands[b].kind # "ARCHIVE"}
         IN  commands[c].expected = Cardinality(before)
    /\ \A r \in DOMAIN revisions : revisions[r] = r - 1
    /\ document.revision = Len(revisions)
    /\ document.operation # 0 =>
         /\ commands[document.operation].target = document.revision
         /\ \A c \in (document.operation + 1)..Len(commands) :
              commands[c].target # document.revision

\* A command is written to the provider again only after the provider, asked
\* by a send or a reconciliation, has definitely refused the earlier write.
RepeatsFollowFailure ==
    \A d, e \in Seen :
        d < e /\ dispatches[d].command = dispatches[e].command
        /\ calls[d] # <<>> /\ calls[e] # <<>> =>
            \E n \in DOMAIN calls[d] : calls[d][n].receipt = "FAILED"

\* "Contradictory observations cannot erase a durable acknowledgement and
\* thereby authorize a duplicate send": no send is committed while another
\* write of the same command is acknowledged (KNOWLEDGE_PRIOR_WRITE_ACKNOWLEDGED).
AcknowledgedIsNotResent ==
    [][\A d \in 1..MaxDispatches :
          calls[d] = <<>> /\ calls'[d] # <<>> => ~AnotherAcknowledged(d)
      ]_knowledgeVars
=============================================================================
