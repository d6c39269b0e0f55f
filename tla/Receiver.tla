------------------------------ MODULE Receiver ------------------------------
(***************************************************************************)
(* The private receiver: a process that the owner of a case starts for one *)
(* approval, and that pays for the calls the approval names.  It is        *)
(* challenged with a fresh nonce, takes an approval, an account and a      *)
(* token over its standard input, and then serves the case until the lease *)
(* is revoked.  A process of kind REPORT lets the analysis and the design  *)
(* of the case make calls; one of kind NATIVE lets a single request        *)
(* receive one answer, which is kept as it came and may be taken in later, *)
(* by any process.  The budget is in memory only, and a process may stop   *)
(* between any two steps; what it admitted is then not sent again.         *)
(*                                                                         *)
(* An analysis holds the lock of the case from its checks to its commit,   *)
(* the provider calls included.  A design commits its attempt and a native *)
(* command its admission before the first call, and hold no lock during    *)
(* it.  What a design leaves in the database is in Designs.  A handler     *)
(* that is refused changes nothing and is not an action.                   *)
(***************************************************************************)
EXTENDS Reservations

CONSTANTS
    Plans,             \* slot sequences the owner may approve
    Keys,              \* command keys of native requests
    MaxProcesses,      \* bound: receivers started
    MaxAuthorizations, \* bound: approvals the owner gives
    MaxVersions,       \* bound: context version and settings version together
    MaxInterpretations \* bound: interpretations of the case

ASSUME ReceiverAssumption ==
    /\ Plans \subseteq SlotSequences /\ IsFiniteSet(Keys)
    /\ MaxProcesses \in Nat /\ MaxAuthorizations \in Nat
    /\ MaxVersions \in Nat \ {0} /\ MaxInterpretations \in Nat

VARIABLES
    receiver,        \* the process, its phase and what it was approved for
    issued,          \* approvals the owner gave, each to the nonce of a process
    request,         \* the handlers of the requests
    case,            \* context version and settings version, as committed
    lock,            \* the analysis that holds the row of the case
    interpretations, \* interpretations of the case, in sequence
    confirmed,       \* interpretations with a confirmed contract
    commands,        \* native_receive_commands and their bindings, in sequence
    bytes,           \* commands whose answer is in protected storage
    receipts         \* commands with a native_response_receipts row

databaseVars == <<case, interpretations, confirmed, commands, bytes, receipts>>
receiverVars == <<receiver, issued, request, budget, completed, lock, databaseVars>>

NoAuthorization == 0
NoCommand == 0
NoSlot == 0

Phase == {"DOWN", "LISTENING", "APPROVED", "ACCOUNT", "SERVING", "STOPPING"}
Kind == {"REPORT", "NATIVE"}
CommandState == {"ADMITTED", "RECEIVED", "HTTP_ERROR", "UNCERTAIN"}
Answered == {"RECEIVED", "HTTP_ERROR"}
HandlerPhase == {"READY", "CLAIMED", "SENDING", "WAITING", "RECORDING"}

Approval ==
    [process: 1..MaxProcesses, slots: Plans, context: 1..MaxVersions,
     settings: 1..MaxVersions, expected: 0..MaxInterpretations, contract: BOOLEAN]
Interpretation ==
    [context: 1..MaxVersions, settings: 1..MaxVersions, command: 0..Cardinality(Keys)]
Input == [context: 1..MaxVersions, settings: 1..MaxVersions]
Command == [key: Keys, stage: Stage, input: Input, state: CommandState]
Handler ==
    [phase: HandlerPhase \cup {"IDLE", "DONE"}, stage: Stage, command: 0..Cardinality(Keys),
     authorization: 0..MaxAuthorizations, settings: 1..MaxVersions, slot: 0..2,
     claims: Nat, sent: Nat, outcome: CommandState]

IdleHandler ==
    [phase |-> "IDLE", stage |-> Analysis, command |-> NoCommand,
     authorization |-> NoAuthorization, settings |-> 1, slot |-> NoSlot,
     claims |-> 0, sent |-> 0, outcome |-> "ADMITTED"]

\* The tables, the Reservations object and the handlers.
ReceiverTypeOK ==
    /\ receiver \in [process: 0..MaxProcesses, phase: Phase, kind: Kind,
                     authorization: 0..Len(issued)]
    /\ issued \in Seq(Approval) /\ Len(issued) <= MaxAuthorizations
    /\ request \in [Requests -> Handler]
    /\ budget \in [closed: BOOLEAN, cursor: 1..3, owner: Requests \cup {NoRequest},
                   attempts: Seq(0..MaxAttempts), finished: SUBSET Requests,
                   expected: 0..MaxInterpretations]
    /\ completed \subseteq Requests
    /\ case \in Input
    /\ lock \in Requests \cup {NoRequest}
    /\ interpretations \in Seq(Interpretation) /\ Len(interpretations) <= MaxInterpretations
    /\ confirmed \subseteq DOMAIN interpretations
    /\ commands \in Seq(Command) /\ Len(commands) <= Cardinality(Keys)
    /\ bytes \subseteq DOMAIN commands /\ receipts \subseteq DOMAIN commands
    /\ \A c, d \in DOMAIN commands : commands[c].key = commands[d].key => c = d

ReceiverInit ==
    /\ receiver = [process |-> 0, phase |-> "DOWN", kind |-> "REPORT",
                   authorization |-> NoAuthorization]
    /\ issued = <<>>
    /\ request = [r \in Requests |-> IdleHandler]
    /\ budget = [closed |-> TRUE, cursor |-> 1, owner |-> NoRequest, attempts |-> <<>>,
                 finished |-> {}, expected |-> NoInterpretation]
    /\ completed = {}
    /\ case = [context |-> 1, settings |-> 1]
    /\ lock = NoRequest
    /\ interpretations = <<>>
    /\ confirmed = {}
    /\ commands = <<>>
    /\ bytes = {}
    /\ receipts = {}

-----------------------------------------------------------------------------
(* What the receiver reads: load_report_state, one snapshot of the database *)
(* that takes no lock.                                                      *)

InterpretationsOf(context) ==
    {i \in DOMAIN interpretations : interpretations[i].context = context}

CurrentInterpretation ==
    IF InterpretationsOf(case.context) = {} THEN NoInterpretation
    ELSE CHOOSE i \in InterpretationsOf(case.context) : TRUE

ReportState ==
    [context |-> case.context, settings |-> case.settings,
     interpretation |-> CurrentInterpretation, confirmed |-> CurrentInterpretation \in confirmed]

approved == issued[receiver.authorization]

\* The lease is valid and the reservations are connected.
CredentialsReady == receiver.phase = "SERVING" /\ Connected(approved, ReportState)

ReservationsReady == Connected(approved, ReportState) /\ SlotsLeft(approved)

InFlight(r) == request[r].phase \in HandlerPhase
Native(r) == request[r].command # NoCommand

-----------------------------------------------------------------------------
(* Wrong variants of the definitions below, each the effect of a plausible  *)
(* mistake in the code; no specification uses them.                         *)

\* The nonce of an approval frame is not compared with the one sent.
AnyNonce(a) == a \in DOMAIN issued

\* A command that is known but has no answer is sent again.
ReplayPending(r, key) ==
    \E c \in DOMAIN commands :
      /\ commands[c].key = key /\ commands[c].state = "ADMITTED"
      /\ receiver.kind = "NATIVE" /\ CredentialsReady
      /\ request[r].phase = "IDLE"
      /\ request' = [request EXCEPT ![r].phase = "READY", ![r].command = c,
                                    ![r].stage = commands[c].stage,
                                    ![r].authorization = receiver.authorization]
      /\ UNCHANGED <<receiver, issued, budget, completed, lock, databaseVars>>

\* The answer is recorded before it is kept, and keeping it may fail.
PreserveMaybe(r) ==
    /\ request[r].phase = "WAITING" /\ Native(r)
    /\ \E outcome \in Answered : request' = [request EXCEPT ![r].phase = "RECORDING",
                                                            ![r].outcome = outcome]
    /\ UNCHANGED <<receiver, issued, budget, completed, lock, databaseVars>>

\* An answer is taken in under the current settings whatever its context was.
AnyContext(c) == commands[c].input.settings = case.settings

\* The state of a command is free text.
FailAsText(r) ==
    /\ InFlight(r) /\ Native(r)
    /\ commands' = [commands EXCEPT ![request[r].command].state = "FAILED"]
    /\ request' = [request EXCEPT ![r].phase = "DONE"]
    /\ UNCHANGED <<receiver, issued, budget, completed, case, interpretations, confirmed,
                   bytes, receipts, lock>>

-----------------------------------------------------------------------------
(* The process and its handshake.                                           *)

Listen(kind) ==
    /\ receiver.phase = "DOWN" /\ receiver.process < MaxProcesses
    /\ receiver' = [process |-> receiver.process + 1, phase |-> "LISTENING", kind |-> kind,
                    authorization |-> NoAuthorization]
    /\ UNCHANGED <<issued, request, budget, completed, lock, databaseVars>>

\* The owner approves the case as it is, for the process that challenged.
Authorize(slots) ==
    /\ receiver.phase = "LISTENING" /\ Len(issued) < MaxAuthorizations
    /\ LET state == ReportState
           designOnly == slots[1].stage = Design
       IN  /\ designOnly => state.interpretation # NoInterpretation
           /\ issued' = Append(issued,
                [process |-> receiver.process, slots |-> slots, context |-> state.context,
                 settings |-> state.settings,
                 expected |-> IF designOnly THEN state.interpretation ELSE NoInterpretation,
                 contract |-> designOnly /\ state.confirmed])
    /\ UNCHANGED <<receiver, request, budget, completed, lock, databaseVars>>

\* The frame may be an old one that is sent again.
SameNonce(a) == issued[a].process = receiver.process

\* A native receiver is for a single call.
FactoryAccepts(approval) ==
    receiver.kind = "NATIVE" =>
        Len(approval.slots) = 1 /\ approval.slots[1].attempts = 1

InitialStateMatches(approval, state) ==
    /\ SameInput(approval, state)
    /\ state.interpretation = approval.expected
    /\ state.confirmed = approval.contract

AcceptApproval(a) ==
    /\ receiver.phase = "LISTENING" /\ SameNonce(a)
    /\ InitialStateMatches(issued[a], ReportState) /\ FactoryAccepts(issued[a])
    /\ receiver' = [receiver EXCEPT !.phase = "APPROVED", !.authorization = a]
    /\ budget' = FreshBudget(issued[a])
    /\ completed' = {}
    /\ UNCHANGED <<issued, request, lock, databaseVars>>

\* unchanged: the settings are those the process read first.
AcceptAccount ==
    /\ receiver.phase = "APPROVED" /\ approved.settings = case.settings
    /\ receiver' = [receiver EXCEPT !.phase = "ACCOUNT"]
    /\ UNCHANGED <<issued, request, budget, completed, lock, databaseVars>>

AcceptToken ==
    /\ receiver.phase = "ACCOUNT" /\ approved.settings = case.settings
    /\ receiver' = [receiver EXCEPT !.phase = "SERVING"]
    /\ UNCHANGED <<issued, request, budget, completed, lock, databaseVars>>

\* Another byte, the end of the input, the deadline or new settings.
Revoke ==
    /\ receiver.phase = "SERVING"
    /\ receiver' = [receiver EXCEPT !.phase = "STOPPING"]
    /\ UNCHANGED <<issued, request, budget, completed, lock, databaseVars>>

\* The process ends, after its close or before: its handlers are lost and
\* their transactions are rolled back.
Stop ==
    /\ receiver.phase # "DOWN"
    /\ receiver' = [receiver EXCEPT !.phase = "DOWN"]
    /\ request' = [r \in Requests |-> IF InFlight(r) THEN [request[r] EXCEPT !.phase = "DONE"]
                                      ELSE request[r]]
    /\ CloseBudget
    /\ lock' = NoRequest
    /\ UNCHANGED <<issued, completed, databaseVars>>

-----------------------------------------------------------------------------
(* Requests of the report receiver, and the provider's loop of calls.       *)

Begin(r, stage, command) ==
    /\ request[r].phase = "IDLE"
    /\ request' = [request EXCEPT ![r] =
         [IdleHandler EXCEPT !.phase = "READY", !.stage = stage, !.command = command,
                             !.authorization = receiver.authorization,
                             !.settings = case.settings]]
    /\ UNCHANGED <<receiver, issued, budget, completed>>

BeginAnalysis(r) ==
    /\ receiver.kind = "REPORT" /\ CredentialsReady
    /\ lock = NoRequest /\ CurrentInterpretation = NoInterpretation
    /\ Begin(r, Analysis, NoCommand)
    /\ lock' = r
    /\ UNCHANGED databaseVars

BeginDesign(r) ==
    /\ receiver.kind = "REPORT" /\ CredentialsReady
    /\ lock = NoRequest /\ CurrentInterpretation \in confirmed
    /\ Begin(r, Design, NoCommand)
    /\ UNCHANGED <<lock, databaseVars>>

Move(r, from, to) ==
    /\ request[r].phase = from
    /\ request' = [request EXCEPT ![r].phase = to]

\* ReservedCredentials.resolve: the claim precedes the bearer.
Claim(r) ==
    /\ request[r].phase = "READY"
    /\ MayClaim(approved, r, request[r].stage, ReportState)
    /\ request' = [request EXCEPT ![r].phase = "CLAIMED", ![r].slot = budget.cursor,
                                  ![r].claims = @ + 1]
    /\ ClaimCall(r)
    /\ UNCHANGED <<receiver, issued, completed, lock, databaseVars>>

TakeBearer(r) ==
    /\ CredentialsReady
    /\ Move(r, "CLAIMED", "SENDING")
    /\ UNCHANGED <<receiver, issued, budget, completed, lock, databaseVars>>

Post(r) ==
    /\ request[r].phase = "SENDING"
    /\ request' = [request EXCEPT ![r].phase = "WAITING", ![r].sent = @ + 1]
    /\ UNCHANGED <<receiver, issued, budget, completed, lock, databaseVars>>

\* A transient failure, a timeout or a candidate that is refused.
Retry(r) ==
    /\ ~Native(r) /\ request[r].sent < MaxAttempts
    /\ Move(r, "WAITING", "READY")
    /\ UNCHANGED <<receiver, issued, budget, completed, lock, databaseVars>>

Release(r) == lock' = IF lock = r THEN NoRequest ELSE lock

\* The handler ends without an answer; a native one says so, or cannot.
Fail(r) ==
    /\ InFlight(r) /\ request[r].phase # "RECORDING"
    /\ request' = [request EXCEPT ![r].phase = "DONE"]
    /\ \/ UNCHANGED commands
       \/ Native(r) /\ commands' = [commands EXCEPT ![request[r].command].state = "UNCERTAIN"]
    /\ Release(r)
    /\ UNCHANGED <<receiver, issued, budget, completed, case, interpretations, confirmed,
                   bytes, receipts>>

AddInterpretation(settings, command) ==
    /\ Len(interpretations) < MaxInterpretations
    /\ interpretations' = Append(interpretations,
         [context |-> case.context, settings |-> settings, command |-> command])

StoreAnalysis(r) ==
    /\ request[r].stage = Analysis /\ ~Native(r)
    /\ Move(r, "WAITING", "DONE")
    /\ AddInterpretation(request[r].settings, NoCommand)
    /\ Release(r)
    /\ UNCHANGED <<receiver, issued, budget, completed, case, confirmed, commands, bytes,
                   receipts>>

StoreDesign(r) ==
    /\ request[r].stage = Design /\ ~Native(r)
    /\ Move(r, "WAITING", "DONE")
    /\ UNCHANGED <<receiver, issued, budget, completed, lock, databaseVars>>

\* The request is answered, or it is cancelled while its worker still runs.
Finish(r, loaded) ==
    /\ receiver.phase \in {"SERVING", "STOPPING"}
    /\ request[r].phase # "IDLE" /\ request[r].authorization = receiver.authorization
    /\ r \notin completed
    /\ FinishOperation(approved, r, request[r].stage, ReportState, loaded)
    /\ UNCHANGED <<receiver, issued, request, lock, databaseVars>>

-----------------------------------------------------------------------------
(* Native responses.                                                        *)

\* All files of the case or nothing; their text and images, the context and
\* the policies of the settings go into one digest.
PreparedInput == case

\* The input of an admitted command, its digest included, is still that of the case.
AdmittedInput(c) == commands[c].input = PreparedInput

\* archived_contract: an answer that arrived, whose receipt and bytes agree.
ArchivedContract(c) == c \in receipts \cap bytes /\ commands[c].state = "RECEIVED"

KnownKey(key) == \E c \in DOMAIN commands : commands[c].key = key

\* A known key is answered with what is recorded, whatever its state.
Replay(r, key) ==
    /\ receiver.phase \in {"SERVING", "STOPPING"} /\ receiver.kind = "NATIVE"
    /\ KnownKey(key) /\ lock = NoRequest
    /\ request[r].phase = "IDLE"
    /\ request' = [request EXCEPT ![r] = [IdleHandler EXCEPT
                     !.phase = "DONE", !.stage = approved.slots[1].stage,
                     !.authorization = receiver.authorization]]
    /\ UNCHANGED <<receiver, issued, budget, completed, lock, databaseVars>>

\* receive, to the commit of the admission; a design is of a confirmed contract.
Admit(r, key) ==
    LET stage == approved.slots[1].stage IN
    /\ receiver.kind = "NATIVE" /\ CredentialsReady /\ ReservationsReady
    /\ ~KnownKey(key) /\ lock = NoRequest
    /\ stage = Design => approved.contract /\ CurrentInterpretation \in confirmed
    /\ Begin(r, stage, Len(commands) + 1)
    /\ commands' = Append(commands, [key |-> key, stage |-> stage, input |-> PreparedInput,
                                     state |-> "ADMITTED"])
    /\ UNCHANGED <<lock, case, interpretations, confirmed, bytes, receipts>>

\* DatabaseNativeResponseIndex.commit, a transaction of its own, which may fail.
CommitReceipt(c) == receipts' \in {receipts, receipts \cup {c}}

\* NativeResponseArchive.preserve: the bytes and then their receipt.
Archive(c) ==
    /\ bytes' \in {bytes, bytes \cup {c}}
    /\ CommitReceipt(c)
    /\ c \in receipts' => c \in bytes'

\* The handler may not learn that the receipt committed.
Preserve(r) ==
    LET c == request[r].command IN
    /\ request[r].phase = "WAITING" /\ Native(r)
    /\ \E outcome \in Answered \cup {"UNCERTAIN"} :
         /\ request' = [request EXCEPT ![r].phase = "RECORDING", ![r].outcome = outcome]
         /\ Archive(c)
         /\ outcome \in Answered => c \in receipts'
    /\ UNCHANGED <<receiver, issued, budget, completed, lock, case, interpretations, confirmed,
                   commands>>

Record(r) ==
    /\ Move(r, "RECORDING", "DONE")
    /\ commands' = [commands EXCEPT ![request[r].command].state = request[r].outcome]
    /\ UNCHANGED <<receiver, issued, budget, completed, lock, case, interpretations, confirmed,
                   bytes, receipts>>

\* intake_contract of an analysis, in any process; the answer of another
\* receipt for the same context is a conflict.
IntakeAnalysis(c) ==
    /\ lock = NoRequest /\ CurrentInterpretation = NoInterpretation
    /\ ArchivedContract(c) /\ commands[c].stage = Analysis /\ AdmittedInput(c)
    /\ AddInterpretation(case.settings, c)
    /\ UNCHANGED <<receiver, issued, request, budget, completed, lock, case, confirmed,
                   commands, bytes, receipts>>

-----------------------------------------------------------------------------
(* The rest of the application, as far as the receiver sees it.             *)

ChangeContext ==
    /\ lock = NoRequest /\ case.context + case.settings < MaxVersions
    /\ case' = [case EXCEPT !.context = @ + 1]
    /\ UNCHANGED <<receiver, issued, request, budget, completed, lock, interpretations,
                   confirmed, commands, bytes, receipts>>

ChangeSettings ==
    /\ case.context + case.settings < MaxVersions
    /\ case' = [case EXCEPT !.settings = @ + 1]
    /\ UNCHANGED <<receiver, issued, request, budget, completed, lock, interpretations,
                   confirmed, commands, bytes, receipts>>

Confirm ==
    /\ lock = NoRequest /\ CurrentInterpretation # NoInterpretation
    /\ confirmed' = confirmed \cup {CurrentInterpretation}
    /\ UNCHANGED <<receiver, issued, request, budget, completed, lock, case, interpretations,
                   commands, bytes, receipts>>

ReceiverNext ==
    \/ \E kind \in Kind : Listen(kind)
    \/ \E slots \in Plans : Authorize(slots)
    \/ \E a \in DOMAIN issued : AcceptApproval(a)
    \/ AcceptAccount \/ AcceptToken \/ Revoke \/ Stop
    \/ \E r \in Requests :
         \/ BeginAnalysis(r) \/ BeginDesign(r)
         \/ Claim(r) \/ TakeBearer(r) \/ Post(r) \/ Retry(r) \/ Fail(r)
         \/ StoreAnalysis(r) \/ StoreDesign(r)
         \/ \E loaded \in BOOLEAN : Finish(r, loaded)
         \/ \E key \in Keys : Replay(r, key) \/ Admit(r, key)
         \/ Preserve(r) \/ Record(r)
    \/ \E c \in DOMAIN commands : IntakeAnalysis(c)
    \/ ChangeContext \/ ChangeSettings \/ Confirm

ReceiverSpec == ReceiverInit /\ [][ReceiverNext]_receiverVars

-----------------------------------------------------------------------------
(* Properties.                                                              *)

PaidRequests(a, s) ==
    {r \in Requests : request[r].authorization = a /\ request[r].slot = s /\ request[r].sent > 0}

\* The calls that are paid for on an approval are those the owner approved:
\* of each slot, one request makes at most the approved calls, however often
\* the approval frame is sent, the process starts again and the requests are
\* repeated, cancelled or retried.
CallsAreApproved ==
    \A a \in DOMAIN issued : \A s \in DOMAIN issued[a].slots :
      /\ \A r, q \in PaidRequests(a, s) : r = q
      /\ \A r \in PaidRequests(a, s) :
           /\ request[r].sent <= issued[a].slots[s].attempts
           /\ request[r].stage = issued[a].slots[s].stage

\* A native command is sent at most once, whether its process stopped after
\* the admission, its key was repeated, or nobody knows what became of it.
CommandsAreSentOnce ==
    \A r, q \in Requests :
      /\ Native(r) => request[r].sent <= 1
      /\ Native(r) /\ request[r].command = request[q].command
           /\ request[r].sent > 0 /\ request[q].sent > 0 => r = q

\* An answer that is recorded as received was kept before: its receipt is
\* committed and the bytes of every receipt are in storage.
AnswersAreKept ==
    /\ \A c \in DOMAIN commands : commands[c].state \in Answered => c \in receipts
    /\ receipts \subseteq bytes

\* An interpretation that was taken in from a kept answer is of the context
\* and the settings that answer was asked for, and of an answer that arrived.
IntakesMatchAdmission ==
    \A i \in DOMAIN interpretations :
      LET c == interpretations[i].command IN
      c # NoCommand =>
        /\ commands[c].state = "RECEIVED" /\ commands[c].stage = Analysis
        /\ commands[c].input.context = interpretations[i].context
        /\ commands[c].input.settings = interpretations[i].settings

\* A design is paid for only after the user confirmed an interpretation of
\* the approved context: the one the approval names or, when the approval
\* pays for the analysis too, the one that was there when that analysis
\* ended.  An answer that is taken in later does not stand in for it.
DesignsFollowTheirAnalysis ==
    \A r \in Requests :
      request[r].stage = Design /\ request[r].sent > 0
        /\ request[r].authorization = receiver.authorization =>
        /\ budget.expected \in confirmed
        /\ interpretations[budget.expected].context = approved.context
        /\ approved.expected \in {NoInterpretation, budget.expected}
=============================================================================
