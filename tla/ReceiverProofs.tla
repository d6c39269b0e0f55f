---------------------------- MODULE ReceiverProofs ----------------------------
(***************************************************************************)
(* Proofs about the private receiver, for every number of processes,       *)
(* approvals, requests and command keys: the calls that are paid for are   *)
(* those the owner approved, a native command is sent at most once, what   *)
(* is recorded as received was kept, an answer is taken in for the input   *)
(* it was asked for, and a design is paid for only after its               *)
(* interpretation was confirmed.                                           *)
(***************************************************************************)
EXTENDS Receiver, FiniteSetTheorems, TLAPS

Reach == {"APPROVED", "ACCOUNT", "SERVING", "STOPPING"}

\* A process works under the one approval that answered its own nonce.
ProcessIsAuthorized ==
    /\ receiver.phase # "DOWN" => receiver.process # 0
    /\ receiver.phase = "LISTENING" => receiver.authorization = NoAuthorization
    /\ receiver.phase \in Reach => receiver.authorization # NoAuthorization
    /\ receiver.authorization # NoAuthorization =>
         /\ approved.process = receiver.process
         /\ FactoryAccepts(approved)

\* An approval that pays for an analysis expects no interpretation.
ApprovalsAreConsistent ==
    \A a \in DOMAIN issued :
      /\ issued[a].process <= receiver.process
      /\ issued[a].slots[1].stage = Analysis => issued[a].expected = NoInterpretation

\* A request that began is of an approval, and of the one in force while it
\* runs; an approval of this process that is not in force has none.
RequestsAreAuthorized ==
    \A r \in Requests :
      /\ request[r].phase = "IDLE" => request[r] = IdleHandler
      /\ request[r].phase # "IDLE" =>
           /\ request[r].authorization \in DOMAIN issued
           /\ issued[request[r].authorization].process = receiver.process =>
                request[r].authorization = receiver.authorization
      /\ InFlight(r) =>
           /\ request[r].authorization = receiver.authorization
           /\ receiver.phase \in {"SERVING", "STOPPING"}

\* A call is claimed before it is sent, on a slot of the approval that no
\* other request has, and no more often than the slot allows.
CallsAreClaimed ==
    \A r \in Requests :
      /\ request[r].sent <= request[r].claims
      /\ request[r].phase \in {"CLAIMED", "SENDING"} => request[r].sent < request[r].claims
      /\ request[r].slot = NoSlot => request[r].claims = 0
      /\ request[r].slot # NoSlot =>
           LET slots == issued[request[r].authorization].slots IN
           /\ request[r].slot \in DOMAIN slots
           /\ request[r].claims <= slots[request[r].slot].attempts
           /\ request[r].stage = slots[request[r].slot].stage

SlotsAreOwned ==
    \A r, q \in Requests :
      /\ request[r].slot # NoSlot /\ request[r].slot = request[q].slot
      /\ request[r].authorization = request[q].authorization
      => r = q

\* The budget in memory counts the claims of the approval in force: the slot
\* at the cursor is its owner's, and those before it are of finished ones.
BudgetCountsClaims ==
    receiver.authorization # NoAuthorization =>
      /\ DOMAIN budget.attempts = DOMAIN approved.slots
      /\ \A s \in DOMAIN approved.slots : s > budget.cursor => budget.attempts[s] = 0
      /\ budget.owner = NoRequest /\ budget.cursor \in DOMAIN approved.slots =>
           budget.attempts[budget.cursor] = 0
      /\ budget.owner # NoRequest =>
           /\ request[budget.owner].authorization = receiver.authorization
           /\ request[budget.owner].slot = budget.cursor
           /\ request[budget.owner].claims = budget.attempts[budget.cursor]
      /\ \A r \in Requests :
           request[r].authorization = receiver.authorization /\ request[r].slot # NoSlot =>
             \/ request[r].slot = budget.cursor /\ budget.owner = r
             \/ request[r].slot < budget.cursor /\ r \in budget.finished
      /\ approved.expected \in {NoInterpretation, budget.expected}

\* A command is of one request, which was approved for a single call; while
\* that runs, the command is admitted and no more, and an answer that is
\* about to be recorded has its receipt.
CommandsHaveRequests ==
    /\ \A r \in Requests :
         /\ request[r].command \in 0 .. Len(commands)
         /\ request[r].phase = "RECORDING" => Native(r)
         /\ Native(r) =>
              LET slots == issued[request[r].authorization].slots IN
              Len(slots) = 1 /\ slots[1].attempts = 1
         /\ Native(r) /\ InFlight(r) => commands[request[r].command].state = "ADMITTED"
         /\ request[r].phase = "RECORDING" /\ request[r].outcome \in Answered =>
              request[r].command \in receipts
    /\ \A r, q \in Requests : Native(r) /\ request[r].command = request[q].command => r = q

\* The taken in interpretations name commands that exist.
IntakesHaveCommands ==
    \A i \in DOMAIN interpretations : interpretations[i].command \in 0 .. Len(commands)

\* A design that claimed a call is of the expected interpretation.
DesignsAreExpected ==
    \A r \in Requests :
      /\ request[r].stage = Design /\ request[r].slot # NoSlot
      /\ request[r].authorization = receiver.authorization
      => /\ budget.expected \in confirmed
         /\ interpretations[budget.expected].context = approved.context

ReceiverInvariant ==
    /\ ReceiverTypeOK
    /\ ProcessIsAuthorized /\ ApprovalsAreConsistent
    /\ RequestsAreAuthorized /\ CallsAreClaimed /\ SlotsAreOwned
    /\ BudgetCountsClaims
    /\ CommandsHaveRequests /\ IntakesHaveCommands
    /\ AnswersAreKept /\ IntakesMatchAdmission
    /\ DesignsAreExpected

-----------------------------------------------------------------------------
(* Types.                                                                   *)

\* The bounds are numbers.
LEMMA BoundTypes ==
  /\ Cardinality(Keys) \in Nat
  /\ MaxProcesses \in Nat /\ MaxAuthorizations \in Nat /\ MaxInterpretations \in Nat
  /\ MaxVersions \in Nat \ {0} /\ MaxAttempts \in Nat \ {0}
BY ReceiverAssumption, ReservationAssumption, FS_CardinalityType

\* The fields of a handler.
LEMMA HandlerFields ==
  ASSUME NEW h \in Handler
  PROVE  /\ h.phase \in HandlerPhase \cup {"IDLE", "DONE"} /\ h.stage \in Stage
         /\ h.command \in 0 .. Cardinality(Keys) /\ h.command \in Nat
         /\ h.authorization \in 0 .. MaxAuthorizations /\ h.authorization \in Nat
         /\ h.settings \in 1 .. MaxVersions /\ h.slot \in 0 .. 2 /\ h.slot \in Nat
         /\ h.claims \in Nat /\ h.sent \in Nat /\ h.outcome \in CommandState
BY BoundTypes DEF Handler

\* A handler that moves on stays one.
LEMMA HandlerMoves ==
  ASSUME NEW h \in Handler, NEW to \in HandlerPhase \cup {"IDLE", "DONE"}
  PROVE  LET row == [h EXCEPT !.phase = to] IN
         /\ row \in Handler /\ row.phase = to
         /\ row.stage = h.stage /\ row.command = h.command
         /\ row.authorization = h.authorization /\ row.settings = h.settings
         /\ row.slot = h.slot /\ row.claims = h.claims /\ row.sent = h.sent
         /\ row.outcome = h.outcome
BY DEF Handler

\* A plan is a call sequence of one stage, or an analysis and then its design.
LEMMA PlanShape ==
  ASSUME NEW plan \in Plans
  PROVE  /\ plan \in Seq(Slot) /\ Len(plan) \in {1, 2} /\ DOMAIN plan = 1 .. Len(plan)
         /\ \A s \in 1 .. Len(plan) : plan[s].stage \in Stage /\ plan[s].attempts \in 1 .. MaxAttempts
         /\ Len(plan) = 2 => plan[1].stage = Analysis /\ plan[2].stage = Design
<1>1. plan \in SlotSequences
  BY ReceiverAssumption
<1>2. CASE \E s \in Stage, n \in 1 .. MaxAttempts : plan = <<[stage |-> s, attempts |-> n]>>
  <2>1. PICK s \in Stage, n \in 1 .. MaxAttempts : plan = <<[stage |-> s, attempts |-> n]>>
    BY <1>2
  <2> DEFINE x == [stage |-> s, attempts |-> n]
  <2>2. x \in Slot /\ x.stage \in Stage /\ x.attempts \in 1 .. MaxAttempts
    BY DEF Slot
  <2>3. plan = <<x>>
    BY <2>1
  <2> HIDE DEF x
  <2> QED BY <2>2, <2>3
<1>3. CASE \E m, n \in 1 .. MaxAttempts :
             plan = <<[stage |-> Analysis, attempts |-> m], [stage |-> Design, attempts |-> n]>>
  <2>1. PICK m \in 1 .. MaxAttempts, n \in 1 .. MaxAttempts :
             plan = <<[stage |-> Analysis, attempts |-> m], [stage |-> Design, attempts |-> n]>>
    BY <1>3
  <2> DEFINE x == [stage |-> Analysis, attempts |-> m]
             y == [stage |-> Design, attempts |-> n]
  <2>2. /\ x \in Slot /\ x.stage = Analysis /\ x.attempts \in 1 .. MaxAttempts
        /\ y \in Slot /\ y.stage = Design /\ y.attempts \in 1 .. MaxAttempts
        /\ x.stage \in Stage /\ y.stage \in Stage
    BY DEF Slot, Stage
  <2>3. plan = <<x, y>>
    BY <2>1
  <2> HIDE DEF x, y
  <2>4. plan \in Seq(Slot) /\ Len(plan) = 2 /\ plan[1] = x /\ plan[2] = y
    BY <2>2, <2>3
  <2>5. \A s \in 1 .. 2 : s = 1 \/ s = 2
    OBVIOUS
  <2> QED BY <2>2, <2>4, <2>5
<1> QED BY <1>1, <1>2, <1>3 DEF SlotSequences

\* The stages are two.
LEMMA StagesDiffer == Analysis # Design
BY DEF Analysis, Design

\* An approval that was given is for a plan.
LEMMA ApprovalTypes ==
  ASSUME ReceiverTypeOK, NEW a \in DOMAIN issued
  PROVE  /\ issued[a] \in Approval /\ issued[a].slots \in Plans
         /\ issued[a].process \in 1 .. MaxProcesses /\ issued[a].process \in Nat
         /\ issued[a].context \in 1 .. MaxVersions /\ issued[a].settings \in 1 .. MaxVersions
         /\ issued[a].expected \in 0 .. MaxInterpretations
<1>1. issued[a] \in Approval
  BY DEF ReceiverTypeOK
<1> QED BY <1>1, BoundTypes DEF Approval

\* The approvals are numbered.
LEMMA ApprovalNumbers ==
  ASSUME ReceiverTypeOK
  PROVE  /\ DOMAIN issued = 1 .. Len(issued) /\ Len(issued) \in Nat
         /\ receiver.authorization \in 0 .. Len(issued) /\ receiver.process \in Nat
         /\ receiver.phase \in Phase /\ receiver.kind \in Kind
         /\ receiver.process \in 0 .. MaxProcesses
         /\ receiver.authorization # NoAuthorization => receiver.authorization \in DOMAIN issued
BY BoundTypes DEF ReceiverTypeOK, NoAuthorization

\* The budget is typed when its approval or its handler is.
LEMMA BudgetTypes ==
  ASSUME ReceiverTypeOK
  PROVE  /\ budget.closed \in BOOLEAN /\ budget.cursor \in 1 .. 3 /\ budget.cursor \in Nat
         /\ budget.owner \in Requests \cup {NoRequest}
         /\ budget.attempts \in Seq(0 .. MaxAttempts) /\ budget.finished \subseteq Requests
         /\ budget.expected \in 0 .. MaxInterpretations /\ budget.expected \in Nat
         /\ \A s \in DOMAIN budget.attempts : budget.attempts[s] \in Nat
<1>1. /\ budget.closed \in BOOLEAN /\ budget.cursor \in 1 .. 3
      /\ budget.owner \in Requests \cup {NoRequest}
      /\ budget.attempts \in Seq(0 .. MaxAttempts) /\ budget.finished \subseteq Requests
      /\ budget.expected \in 0 .. MaxInterpretations
  BY DEF ReceiverTypeOK
<1> QED BY <1>1, BoundTypes

-----------------------------------------------------------------------------
\* The receiver starts down, with nothing approved, claimed or kept.
LEMMA ReceiverStart == ReceiverInit => ReceiverInvariant
<1> SUFFICES ASSUME ReceiverInit PROVE ReceiverInvariant
  OBVIOUS
<1> USE DEF ReceiverInit
<1>1. IdleHandler \in Handler
  BY BoundTypes DEF IdleHandler, Handler, HandlerPhase, Stage, CommandState, NoCommand,
                    NoAuthorization, NoSlot
<1>2. \A r \in Requests : request[r] = IdleHandler
  OBVIOUS
<1>3. ReceiverTypeOK
  <2>1. receiver \in [process: 0..MaxProcesses, phase: Phase, kind: Kind,
                      authorization: 0..Len(issued)]
    BY BoundTypes DEF Phase, Kind, NoAuthorization
  <2>2. issued \in Seq(Approval) /\ Len(issued) <= MaxAuthorizations
    BY BoundTypes
  <2>3. request \in [Requests -> Handler]
    BY <1>1
  <2>4. budget \in [closed: BOOLEAN, cursor: 1..3, owner: Requests \cup {NoRequest},
                    attempts: Seq(0..MaxAttempts), finished: SUBSET Requests,
                    expected: 0..MaxInterpretations]
    BY BoundTypes DEF NoInterpretation
  <2>5. case \in Input
    BY BoundTypes DEF Input
  <2>6. interpretations \in Seq(Interpretation) /\ Len(interpretations) <= MaxInterpretations
    BY BoundTypes
  <2>7. commands \in Seq(Command) /\ Len(commands) <= Cardinality(Keys)
    BY BoundTypes
  <2> QED BY <2>1, <2>2, <2>3, <2>4, <2>5, <2>6, <2>7 DEF ReceiverTypeOK
<1>4. ProcessIsAuthorized /\ ApprovalsAreConsistent
  BY DEF ProcessIsAuthorized, ApprovalsAreConsistent, Reach
<1>5. /\ \A r \in Requests : request[r].phase = "IDLE" /\ request[r].slot = NoSlot
           /\ request[r].claims = 0 /\ request[r].sent = 0 /\ request[r].command = NoCommand
  BY <1>2 DEF IdleHandler
<1>6. RequestsAreAuthorized
  BY <1>2, <1>5 DEF RequestsAreAuthorized, InFlight, HandlerPhase
<1>7. CallsAreClaimed /\ SlotsAreOwned
  BY <1>5 DEF CallsAreClaimed, SlotsAreOwned
<1>8. BudgetCountsClaims
  BY DEF BudgetCountsClaims
<1>9. CommandsHaveRequests
  BY <1>5 DEF CommandsHaveRequests, Native, NoCommand
<1>10. IntakesHaveCommands /\ AnswersAreKept /\ IntakesMatchAdmission
  BY DEF IntakesHaveCommands, AnswersAreKept, IntakesMatchAdmission
<1>11. DesignsAreExpected
  BY <1>5 DEF DesignsAreExpected
<1> QED
  BY <1>3, <1>4, <1>6, <1>7, <1>8, <1>9, <1>10, <1>11 DEF ReceiverInvariant

-----------------------------------------------------------------------------
(* One handler changes.                                                     *)

\* A handler that begins or moves on under the approval in force, and claims
\* no call, leaves the claims what they were.
LEMMA HandlerRewritten ==
  ASSUME ReceiverInvariant, UNCHANGED <<receiver, issued, budget>>,
         NEW r \in Requests, NEW row \in Handler,
         request' = [request EXCEPT ![r] = row],
         row.phase # "IDLE",
         row.phase \in HandlerPhase => receiver.phase \in {"SERVING", "STOPPING"},
         row.authorization = receiver.authorization, receiver.phase \in Reach,
         row.slot = request[r].slot, row.claims = request[r].claims,
         row.slot # NoSlot =>
           row.authorization = request[r].authorization /\ row.stage = request[r].stage,
         row.sent <= row.claims,
         row.phase \in {"CLAIMED", "SENDING"} => row.sent < row.claims
  PROVE  /\ request' \in [Requests -> Handler]
         /\ \A q \in Requests : request'[q] = IF q = r THEN row ELSE request[q]
         /\ (ProcessIsAuthorized /\ ApprovalsAreConsistent)'
         /\ RequestsAreAuthorized' /\ CallsAreClaimed' /\ SlotsAreOwned'
         /\ BudgetCountsClaims'
<1>1. /\ ReceiverTypeOK /\ ProcessIsAuthorized /\ ApprovalsAreConsistent
      /\ RequestsAreAuthorized /\ CallsAreClaimed /\ SlotsAreOwned /\ BudgetCountsClaims
  BY DEF ReceiverInvariant
<1>2. request \in [Requests -> Handler]
  BY <1>1 DEF ReceiverTypeOK
<1>3. /\ request' \in [Requests -> Handler]
      /\ \A q \in Requests : request'[q] = IF q = r THEN row ELSE request[q]
  BY <1>2
<1>4. (ProcessIsAuthorized /\ ApprovalsAreConsistent)'
  BY <1>1 DEF ProcessIsAuthorized, ApprovalsAreConsistent, FactoryAccepts, approved
<1>5. receiver.authorization # NoAuthorization /\ receiver.authorization \in DOMAIN issued
  BY <1>1, ApprovalNumbers DEF ProcessIsAuthorized
<1>6. RequestsAreAuthorized'
  BY <1>1, <1>3, <1>5 DEF RequestsAreAuthorized, InFlight
<1>7. CallsAreClaimed'
  BY <1>1, <1>3 DEF CallsAreClaimed
<1>8. SlotsAreOwned'
  BY <1>1, <1>3 DEF SlotsAreOwned
<1>9. budget.cursor # NoSlot
  BY <1>1, BudgetTypes DEF NoSlot
<1>10. approved' = approved
  BY DEF approved
<1>11. /\ budget.owner # NoRequest =>
           /\ request'[budget.owner].authorization = receiver.authorization
           /\ request'[budget.owner].slot = budget.cursor
           /\ request'[budget.owner].claims = budget.attempts[budget.cursor]
  BY <1>1, <1>3, <1>5, <1>9, BudgetTypes DEF BudgetCountsClaims
<1>12. \A q \in Requests :
         request'[q].authorization = receiver.authorization /\ request'[q].slot # NoSlot =>
           request[q].authorization = receiver.authorization /\ request[q].slot = request'[q].slot
  BY <1>3
<1>13. BudgetCountsClaims'
  BY <1>1, <1>10, <1>11, <1>12 DEF BudgetCountsClaims
<1> QED BY <1>3, <1>4, <1>6, <1>7, <1>8, <1>13

\* A design that claimed a call stays one of the expected interpretation.
LEMMA DesignsStay ==
  ASSUME ReceiverInvariant, UNCHANGED <<receiver, issued>>,
         budget'.expected = budget.expected, confirmed \subseteq confirmed',
         \A i \in DOMAIN interpretations : interpretations'[i] = interpretations[i],
         \A q \in Requests :
           request'[q].slot # NoSlot /\ request'[q].authorization = receiver.authorization =>
             /\ request[q].slot # NoSlot /\ request[q].authorization = receiver.authorization
             /\ request[q].stage = request'[q].stage
  PROVE  DesignsAreExpected'
<1>1. confirmed \subseteq DOMAIN interpretations /\ DesignsAreExpected
  BY DEF ReceiverInvariant, ReceiverTypeOK
<1>2. approved' = approved
  BY DEF approved
<1> QED BY <1>1, <1>2 DEF DesignsAreExpected

\* The commands of the other handlers are left alone, and so is that of r
\* for as long as r runs.
LEMMA CommandsStay ==
  ASSUME ReceiverInvariant, UNCHANGED issued,
         NEW r \in Requests, NEW row \in Handler,
         \A q \in Requests : request'[q] = IF q = r THEN row ELSE request[q],
         Len(commands') = Len(commands), receipts \subseteq receipts',
         row.command = request[r].command,
         \A c \in 1 .. Len(commands) : c # request[r].command => commands'[c] = commands[c],
         row.command # NoCommand =>
           row.authorization = request[r].authorization /\ InFlight(r),
         row.command # NoCommand /\ row.phase \in HandlerPhase =>
           commands'[row.command].state = commands[row.command].state,
         row.phase = "RECORDING" =>
           row.command # NoCommand /\ (row.outcome \in Answered => row.command \in receipts')
  PROVE  CommandsHaveRequests'
<1>1. CommandsHaveRequests
  BY DEF ReceiverInvariant
<1>2. \A q \in Requests : q # r /\ Native(q) => request[q].command # request[r].command
  BY <1>1 DEF CommandsHaveRequests
<1>3. \A q \in Requests : request[q].command \in 0 .. Len(commands)
  BY <1>1 DEF CommandsHaveRequests
<1>4. \A q \in Requests : request'[q].command = request[q].command
  OBVIOUS
<1>5. \A q \in Requests : Native(q) => request[q].command \in 1 .. Len(commands)
  <2>1. Len(commands) \in Nat
    BY DEF ReceiverInvariant, ReceiverTypeOK
  <2> QED BY <1>3, <2>1 DEF Native, NoCommand
<1>6. ASSUME NEW q \in Requests
      PROVE  /\ request'[q].command \in 0 .. Len(commands')
             /\ request'[q].phase = "RECORDING" => request'[q].command # NoCommand
             /\ request'[q].command # NoCommand =>
                  LET slots == issued'[request'[q].authorization].slots IN
                  Len(slots) = 1 /\ slots[1].attempts = 1
             /\ request'[q].command # NoCommand /\ request'[q].phase \in HandlerPhase =>
                  commands'[request'[q].command].state = "ADMITTED"
             /\ request'[q].phase = "RECORDING" /\ request'[q].outcome \in Answered =>
                  request'[q].command \in receipts'
  <2>1. CASE q = r
    BY <1>1, <1>3, <2>1 DEF CommandsHaveRequests, Native, InFlight
  <2>2. CASE q # r
    BY <1>1, <1>2, <1>3, <1>5, <2>2 DEF CommandsHaveRequests, Native, InFlight
  <2> QED BY <2>1, <2>2
<1> QED BY <1>1, <1>4, <1>6 DEF CommandsHaveRequests, Native, InFlight

\* Only the state of an admitted command is written, an answer after its
\* receipt, so that no interpretation was taken in from it.
LEMMA CommandSettled ==
  ASSUME ReceiverInvariant, NEW c \in DOMAIN commands, commands[c].state = "ADMITTED",
         NEW state \in CommandState, state \in Answered => c \in receipts,
         commands' = [commands EXCEPT ![c].state = state],
         UNCHANGED <<interpretations, bytes, receipts>>
  PROVE  /\ commands' \in Seq(Command) /\ Len(commands') = Len(commands)
         /\ \A d \in DOMAIN commands : d # c => commands'[d] = commands[d]
         /\ \A d \in DOMAIN commands : commands'[d].key = commands[d].key
         /\ AnswersAreKept' /\ IntakesMatchAdmission' /\ IntakesHaveCommands'
<1> DEFINE row == [commands[c] EXCEPT !.state = state]
<1>1. /\ commands \in Seq(Command) /\ DOMAIN commands = 1 .. Len(commands) /\ Len(commands) \in Nat
      /\ \A d \in DOMAIN commands : commands[d] \in Command
  BY DEF ReceiverInvariant, ReceiverTypeOK
<1>2. commands[c] \in Command
  BY <1>1
<1>3. /\ row \in Command /\ row.state = state /\ row.key = commands[c].key
      /\ row.stage = commands[c].stage /\ row.input = commands[c].input
  BY <1>2 DEF Command
<1>4. commands' = [d \in 1 .. Len(commands) |-> IF d = c THEN row ELSE commands[d]]
  BY <1>1
<1> HIDE DEF row
<1>5. commands' \in [1 .. Len(commands) -> Command]
  BY <1>1, <1>3, <1>4
<1>6. commands' \in Seq(Command) /\ Len(commands') = Len(commands)
  BY <1>1, <1>5
<1>7. /\ DOMAIN commands' = DOMAIN commands
      /\ \A d \in DOMAIN commands : d # c => commands'[d] = commands[d]
      /\ \A d \in DOMAIN commands : commands'[d].key = commands[d].key
      /\ commands'[c] = row
  BY <1>1, <1>3, <1>4
<1>8. AnswersAreKept'
  BY <1>3, <1>7 DEF ReceiverInvariant, AnswersAreKept
<1>9. /\ \A i \in DOMAIN interpretations : interpretations[i].command \in 0 .. Len(commands)
      /\ "ADMITTED" # "RECEIVED"
  BY DEF ReceiverInvariant, IntakesHaveCommands
<1>10. \A i \in DOMAIN interpretations : interpretations[i].command # c
  BY <1>9 DEF ReceiverInvariant, IntakesMatchAdmission, NoCommand
<1>11. \A i \in DOMAIN interpretations : interpretations[i].command # NoCommand =>
         commands'[interpretations[i].command] = commands[interpretations[i].command]
  BY <1>1, <1>7, <1>9, <1>10 DEF NoCommand
<1>12. IntakesMatchAdmission'
  BY <1>11 DEF ReceiverInvariant, IntakesMatchAdmission
<1>13. IntakesHaveCommands'
  BY <1>6, <1>9 DEF IntakesHaveCommands
<1> QED BY <1>6, <1>7, <1>8, <1>12, <1>13

\* A new interpretation is of no command, or of a kept answer to its input.
LEMMA InterpretationAdded ==
  ASSUME ReceiverInvariant, NEW new \in Interpretation,
         Len(interpretations) < MaxInterpretations,
         interpretations' = Append(interpretations, new),
         UNCHANGED <<commands, bytes, receipts, confirmed>>,
         new.command \in 0 .. Len(commands),
         new.command # NoCommand =>
           /\ commands[new.command].state = "RECEIVED"
           /\ commands[new.command].stage = Analysis
           /\ commands[new.command].input.context = new.context
           /\ commands[new.command].input.settings = new.settings
  PROVE  /\ interpretations' \in Seq(Interpretation)
         /\ Len(interpretations') <= MaxInterpretations
         /\ confirmed' \subseteq DOMAIN interpretations'
         /\ \A i \in DOMAIN interpretations : interpretations'[i] = interpretations[i]
         /\ AnswersAreKept' /\ IntakesMatchAdmission' /\ IntakesHaveCommands'
<1>1. /\ interpretations \in Seq(Interpretation) /\ Len(interpretations) \in Nat
      /\ DOMAIN interpretations = 1 .. Len(interpretations)
      /\ confirmed \subseteq DOMAIN interpretations
  BY DEF ReceiverInvariant, ReceiverTypeOK
<1>2. /\ interpretations' \in Seq(Interpretation)
      /\ Len(interpretations') = Len(interpretations) + 1
      /\ DOMAIN interpretations' = 1 .. Len(interpretations) + 1
      /\ \A i \in DOMAIN interpretations : interpretations'[i] = interpretations[i]
      /\ interpretations'[Len(interpretations) + 1] = new
  BY <1>1
<1>3. Len(interpretations') <= MaxInterpretations /\ confirmed' \subseteq DOMAIN interpretations'
  BY <1>1, <1>2, BoundTypes
<1>4. \A i \in DOMAIN interpretations' :
        i \in DOMAIN interpretations \/ i = Len(interpretations) + 1
  BY <1>1, <1>2
<1>5. AnswersAreKept'
  BY DEF ReceiverInvariant, AnswersAreKept
<1>6. IntakesMatchAdmission'
  BY <1>2, <1>4 DEF ReceiverInvariant, IntakesMatchAdmission
<1>7. IntakesHaveCommands'
  BY <1>2, <1>4 DEF ReceiverInvariant, IntakesHaveCommands
<1> QED BY <1>2, <1>3, <1>5, <1>6, <1>7

-----------------------------------------------------------------------------
(* Steps that leave the handlers alone.                                     *)

\* A request with a slot or a command began under an approval.
LEMMA BegunIsApproved ==
  ASSUME ReceiverInvariant, NEW r \in Requests,
         request[r].slot # NoSlot \/ Native(r) \/ InFlight(r)
  PROVE  /\ request[r].phase # "IDLE" /\ request[r].authorization \in DOMAIN issued
         /\ request[r].authorization # NoAuthorization
<1>1. request[r].phase # "IDLE"
  BY DEF ReceiverInvariant, RequestsAreAuthorized, IdleHandler, NoSlot, Native, NoCommand,
         InFlight, HandlerPhase
<1>2. request[r].authorization \in DOMAIN issued
  BY <1>1 DEF ReceiverInvariant, RequestsAreAuthorized
<1> QED BY <1>1, <1>2, ApprovalNumbers DEF ReceiverInvariant, NoAuthorization

\* A handler runs only while its process serves or stops.
LEMMA NobodyRuns ==
  ASSUME ReceiverInvariant, receiver.phase \notin {"SERVING", "STOPPING"}
  PROVE  \A r \in Requests : ~InFlight(r)
BY DEF ReceiverInvariant, RequestsAreAuthorized

\* An approval of this process is in force or has no request.
LEMMA UnusedApproval ==
  ASSUME ReceiverInvariant, NEW a \in DOMAIN issued,
         issued[a].process = receiver.process, a # receiver.authorization,
         NEW r \in Requests, request[r].phase # "IDLE"
  PROVE  request[r].authorization # a
BY DEF ReceiverInvariant, RequestsAreAuthorized

\* What the handlers hold is about approvals and commands that stay.
LEMMA RequestsStay ==
  ASSUME ReceiverInvariant, UNCHANGED <<request, commands, receipts>>,
         \A a \in DOMAIN issued : a \in DOMAIN issued' /\ issued'[a] = issued[a]
  PROVE  CallsAreClaimed' /\ SlotsAreOwned' /\ CommandsHaveRequests'
<1>1. \A r \in Requests : request[r].slot # NoSlot \/ Native(r) =>
        issued'[request[r].authorization] = issued[request[r].authorization]
  BY BegunIsApproved
<1>2. CallsAreClaimed'
  BY <1>1 DEF ReceiverInvariant, CallsAreClaimed
<1>3. SlotsAreOwned'
  BY DEF ReceiverInvariant, SlotsAreOwned
<1>4. CommandsHaveRequests'
  BY <1>1 DEF ReceiverInvariant, CommandsHaveRequests, Native, InFlight
<1> QED BY <1>2, <1>3, <1>4

\* So do the answers and what was taken in from them.
LEMMA AnswersStay ==
  ASSUME ReceiverInvariant, UNCHANGED <<interpretations, commands, bytes, receipts>>
  PROVE  AnswersAreKept' /\ IntakesMatchAdmission' /\ IntakesHaveCommands'
BY DEF ReceiverInvariant, AnswersAreKept, IntakesMatchAdmission, IntakesHaveCommands

-----------------------------------------------------------------------------
(* The process and its handshake.                                           *)

\* A new process is approved for nothing yet.
LEMMA ListenStep ==
  ASSUME ReceiverInvariant, NEW kind \in Kind, Listen(kind) PROVE ReceiverInvariant'
<1>1. /\ receiver.phase = "DOWN" /\ receiver.process < MaxProcesses
      /\ receiver'.process = receiver.process + 1 /\ receiver'.phase = "LISTENING"
      /\ receiver'.kind = kind /\ receiver'.authorization = NoAuthorization
      /\ receiver' \in [process: {receiver.process + 1}, phase: {"LISTENING"}, kind: {kind},
                        authorization: {NoAuthorization}]
      /\ UNCHANGED <<issued, request, budget, completed, lock, case, interpretations,
                     confirmed, commands, bytes, receipts>>
  BY DEF Listen, databaseVars
<1>2. ReceiverTypeOK
  BY DEF ReceiverInvariant
<1>3. receiver.process \in Nat /\ Len(issued) \in Nat
  BY <1>2, ApprovalNumbers
<1>4. receiver' \in [process: 0..MaxProcesses, phase: Phase, kind: Kind,
                     authorization: 0..Len(issued)]
  BY <1>1, <1>3, BoundTypes DEF Phase, NoAuthorization
<1>5. ReceiverTypeOK'
  BY <1>1, <1>2, <1>4 DEF ReceiverTypeOK
<1>6. \A a \in DOMAIN issued : issued[a].process < receiver'.process
  BY <1>1, <1>2, <1>3, ApprovalTypes DEF ReceiverInvariant, ApprovalsAreConsistent
<1>7. ProcessIsAuthorized'
  BY <1>1, <1>3 DEF ProcessIsAuthorized, Reach
<1>8. ApprovalsAreConsistent'
  BY <1>1, <1>2, <1>3, <1>6, ApprovalTypes DEF ReceiverInvariant, ApprovalsAreConsistent
<1>9. \A r \in Requests : ~InFlight(r)
  BY <1>1, NobodyRuns
<1>10. \A r \in Requests : request[r].phase # "IDLE" =>
         /\ request[r].authorization \in DOMAIN issued
         /\ issued[request[r].authorization].process # receiver'.process
  BY <1>2, <1>3, <1>6, ApprovalTypes DEF ReceiverInvariant, RequestsAreAuthorized
<1>11. RequestsAreAuthorized'
  BY <1>1, <1>9, <1>10 DEF ReceiverInvariant, RequestsAreAuthorized, InFlight
<1>12. CallsAreClaimed' /\ SlotsAreOwned' /\ CommandsHaveRequests'
  BY <1>1, RequestsStay
<1>13. AnswersAreKept' /\ IntakesMatchAdmission' /\ IntakesHaveCommands'
  BY <1>1, AnswersStay
<1>14. BudgetCountsClaims'
  BY <1>1 DEF BudgetCountsClaims
<1>15. DesignsAreExpected'
  BY <1>1, BegunIsApproved DEF DesignsAreExpected
<1> QED BY <1>5, <1>7, <1>8, <1>11, <1>12, <1>13, <1>14, <1>15 DEF ReceiverInvariant

\* An interpretation of the current context is one of the case.
LEMMA CurrentTypes ==
  ASSUME ReceiverTypeOK
  PROVE  /\ CurrentInterpretation \in 0 .. MaxInterpretations
         /\ CurrentInterpretation # NoInterpretation =>
              /\ CurrentInterpretation \in DOMAIN interpretations
              /\ interpretations[CurrentInterpretation].context = case.context
         /\ ReportState.context = case.context /\ ReportState.settings = case.settings
         /\ ReportState.interpretation = CurrentInterpretation
         /\ ReportState.confirmed = (CurrentInterpretation \in confirmed)
         /\ case.context \in 1 .. MaxVersions /\ case.settings \in 1 .. MaxVersions
<1>1. CASE InterpretationsOf(case.context) = {}
  BY <1>1, BoundTypes DEF CurrentInterpretation, NoInterpretation, ReportState, ReceiverTypeOK,
                          Input
<1>2. CASE InterpretationsOf(case.context) # {}
  <2>1. CurrentInterpretation \in InterpretationsOf(case.context)
    BY <1>2 DEF CurrentInterpretation
  <2>2. /\ CurrentInterpretation \in DOMAIN interpretations
        /\ interpretations[CurrentInterpretation].context = case.context
    BY <2>1 DEF InterpretationsOf
  <2>3. DOMAIN interpretations \subseteq 0 .. MaxInterpretations
    BY BoundTypes DEF ReceiverTypeOK
  <2>4. case.context \in 1 .. MaxVersions /\ case.settings \in 1 .. MaxVersions
    BY DEF ReceiverTypeOK, Input
  <2> QED BY <2>2, <2>3, <2>4 DEF ReportState
<1> QED BY <1>1, <1>2

\* The owner approves what the case is; nothing works on it yet.
LEMMA AuthorizeStep ==
  ASSUME ReceiverInvariant, NEW slots \in Plans, Authorize(slots) PROVE ReceiverInvariant'
<1> DEFINE state == ReportState
           designOnly == slots[1].stage = Design
           approval ==
             [process |-> receiver.process, slots |-> slots, context |-> state.context,
              settings |-> state.settings,
              expected |-> IF designOnly THEN state.interpretation ELSE NoInterpretation,
              contract |-> designOnly /\ state.confirmed]
<1>1. /\ receiver.phase = "LISTENING" /\ Len(issued) < MaxAuthorizations
      /\ issued' = Append(issued, approval)
      /\ UNCHANGED <<receiver, request, budget, completed, lock, case, interpretations,
                     confirmed, commands, bytes, receipts>>
  BY DEF Authorize, databaseVars
<1>2. ReceiverTypeOK /\ ProcessIsAuthorized /\ ApprovalsAreConsistent
  BY DEF ReceiverInvariant
<1>3. receiver.authorization = NoAuthorization
  BY <1>1, <1>2 DEF ProcessIsAuthorized
<1>4. /\ receiver.process \in 0 .. MaxProcesses /\ receiver.process \in Nat
      /\ Len(issued) \in Nat /\ DOMAIN issued = 1 .. Len(issued)
  BY <1>2, ApprovalNumbers
<1>5. receiver.process \in 1 .. MaxProcesses
  BY <1>1, <1>2, <1>4 DEF ProcessIsAuthorized
<1>6. approval \in Approval
  BY <1>2, <1>5, CurrentTypes, BoundTypes DEF Approval, NoInterpretation
<1>7. approval.process = receiver.process /\ approval.slots = slots
  OBVIOUS
<1>8. slots[1].stage = Analysis => approval.expected = NoInterpretation
  BY StagesDiffer
<1> HIDE DEF approval
<1>9. /\ issued \in Seq(Approval) /\ issued' \in Seq(Approval)
      /\ Len(issued') = Len(issued) + 1 /\ DOMAIN issued' = 1 .. Len(issued) + 1
      /\ \A a \in DOMAIN issued : issued'[a] = issued[a]
      /\ issued'[Len(issued) + 1] = approval
  BY <1>1, <1>2, <1>4, <1>6 DEF ReceiverTypeOK
<1>10. \A a \in DOMAIN issued : a \in DOMAIN issued' /\ issued'[a] = issued[a]
  BY <1>4, <1>9
<1>11. receiver \in [process: 0..MaxProcesses, phase: Phase, kind: Kind,
                     authorization: 0..Len(issued')]
  BY <1>2, <1>4, <1>9 DEF ReceiverTypeOK
<1>12. Len(issued') <= MaxAuthorizations
  BY <1>1, <1>4, <1>9, BoundTypes
<1>13. ReceiverTypeOK'
  BY <1>1, <1>2, <1>9, <1>11, <1>12 DEF ReceiverTypeOK
<1>14. ProcessIsAuthorized'
  BY <1>1, <1>2, <1>3 DEF ProcessIsAuthorized, Reach
<1>15. \A a \in DOMAIN issued' : a \in DOMAIN issued \/ a = Len(issued) + 1
  BY <1>4, <1>9
<1>16. ApprovalsAreConsistent'
  BY <1>1, <1>2, <1>4, <1>7, <1>8, <1>9, <1>15 DEF ApprovalsAreConsistent
<1>17. RequestsAreAuthorized'
  BY <1>1, <1>10 DEF ReceiverInvariant, RequestsAreAuthorized, InFlight
<1>18. CallsAreClaimed' /\ SlotsAreOwned' /\ CommandsHaveRequests'
  BY <1>1, <1>10, RequestsStay
<1>19. AnswersAreKept' /\ IntakesMatchAdmission' /\ IntakesHaveCommands'
  BY <1>1, AnswersStay
<1>20. BudgetCountsClaims'
  BY <1>1, <1>3 DEF BudgetCountsClaims
<1>21. DesignsAreExpected'
  BY <1>1, <1>3, BegunIsApproved DEF DesignsAreExpected
<1> QED
  BY <1>13, <1>14, <1>16, <1>17, <1>18, <1>19, <1>20, <1>21 DEF ReceiverInvariant

\* The budget starts with no claim on the approval that is accepted.
LEMMA AcceptApprovalStep ==
  ASSUME ReceiverInvariant, NEW a \in DOMAIN issued, AcceptApproval(a)
  PROVE  ReceiverInvariant'
<1>1. /\ receiver.phase = "LISTENING" /\ issued[a].process = receiver.process
      /\ FactoryAccepts(issued[a])
      /\ receiver' = [receiver EXCEPT !.phase = "APPROVED", !.authorization = a]
      /\ budget' = FreshBudget(issued[a]) /\ completed' = {}
      /\ UNCHANGED <<issued, request, lock, case, interpretations, confirmed, commands,
                     bytes, receipts>>
  BY DEF AcceptApproval, SameNonce, databaseVars
<1>2. ReceiverTypeOK /\ ProcessIsAuthorized
  BY DEF ReceiverInvariant
<1>3. DOMAIN issued = 1 .. Len(issued) /\ Len(issued) \in Nat
  BY <1>2, ApprovalNumbers
<1>4. /\ receiver'.phase = "APPROVED" /\ receiver'.authorization = a
      /\ receiver'.process = receiver.process /\ receiver'.kind = receiver.kind
      /\ receiver' \in [process: 0..MaxProcesses, phase: Phase, kind: Kind,
                        authorization: 0..Len(issued)]
  <2>1. /\ receiver \in [process: 0..MaxProcesses, phase: Phase, kind: Kind,
                         authorization: 0..Len(issued)]
        /\ a \in 0 .. Len(issued) /\ "APPROVED" \in Phase
    BY <1>2, <1>3 DEF ReceiverTypeOK, Phase
  <2> QED BY <1>1, <2>1
<1>5. receiver.authorization = NoAuthorization /\ a # NoAuthorization
  BY <1>1, <1>2, <1>3 DEF ProcessIsAuthorized, NoAuthorization
<1>6. /\ issued[a].slots \in Plans /\ issued[a].expected \in 0 .. MaxInterpretations
  BY <1>2, ApprovalTypes
<1>7. /\ DOMAIN issued[a].slots = 1 .. Len(issued[a].slots)
      /\ Len(issued[a].slots) \in {1, 2}
  BY <1>6, PlanShape
<1> DEFINE none == [s \in DOMAIN issued[a].slots |-> 0]
<1>8. /\ budget'.closed = FALSE /\ budget'.cursor = 1 /\ budget'.owner = NoRequest
      /\ budget'.attempts = none /\ budget'.finished = {} /\ budget'.expected = issued[a].expected
      /\ budget' = [closed |-> FALSE, cursor |-> 1, owner |-> NoRequest, attempts |-> none,
                    finished |-> {}, expected |-> issued[a].expected]
  BY <1>1 DEF FreshBudget
<1>9. none \in Seq(0 .. MaxAttempts)
  BY <1>7, BoundTypes
<1>10. /\ DOMAIN none = DOMAIN issued[a].slots
       /\ \A s \in DOMAIN issued[a].slots : none[s] = 0
  OBVIOUS
<1> HIDE DEF none
<1>11. budget' \in [closed: BOOLEAN, cursor: 1..3, owner: Requests \cup {NoRequest},
                    attempts: Seq(0..MaxAttempts), finished: SUBSET Requests,
                    expected: 0..MaxInterpretations]
  BY <1>6, <1>8, <1>9
<1>12. ReceiverTypeOK'
  BY <1>1, <1>2, <1>4, <1>11 DEF ReceiverTypeOK
<1>13. approved' = issued[a]
  BY <1>1, <1>4 DEF approved
<1>14. ProcessIsAuthorized'
  BY <1>1, <1>2, <1>4, <1>5, <1>13 DEF ProcessIsAuthorized, FactoryAccepts
<1>15. ApprovalsAreConsistent'
  BY <1>1, <1>4 DEF ReceiverInvariant, ApprovalsAreConsistent
<1>16. \A r \in Requests : ~InFlight(r)
  BY <1>1, NobodyRuns
<1>17. \A r \in Requests : request[r].phase # "IDLE" =>
         /\ request[r].authorization \in DOMAIN issued
         /\ issued[request[r].authorization].process # receiver.process
  BY <1>3, <1>5 DEF ReceiverInvariant, RequestsAreAuthorized, NoAuthorization
<1>18. RequestsAreAuthorized'
  BY <1>1, <1>4, <1>16, <1>17 DEF ReceiverInvariant, RequestsAreAuthorized, InFlight
<1>19. CallsAreClaimed' /\ SlotsAreOwned' /\ CommandsHaveRequests'
  BY <1>1, RequestsStay
<1>20. AnswersAreKept' /\ IntakesMatchAdmission' /\ IntakesHaveCommands'
  BY <1>1, AnswersStay
<1>21. \A r \in Requests : request[r].slot # NoSlot => request[r].authorization # a
  BY <1>1, <1>5, BegunIsApproved, UnusedApproval
<1>22. BudgetCountsClaims'
  BY <1>1, <1>4, <1>8, <1>10, <1>13, <1>21 DEF BudgetCountsClaims
<1>23. DesignsAreExpected'
  BY <1>1, <1>4, <1>21 DEF DesignsAreExpected
<1> QED BY <1>12, <1>14, <1>15, <1>18, <1>19, <1>20, <1>22, <1>23 DEF ReceiverInvariant

\* The account, the token and a revocation only move the process on.
LEMMA PhaseMoves ==
  ASSUME ReceiverInvariant, NEW to \in Reach, receiver.phase \in Reach,
         receiver.phase \in {"SERVING", "STOPPING"} => to \in {"SERVING", "STOPPING"},
         receiver' = [receiver EXCEPT !.phase = to],
         UNCHANGED <<issued, request, budget, completed, lock, case, interpretations,
                     confirmed, commands, bytes, receipts>>
  PROVE  ReceiverInvariant'
<1>1. ReceiverTypeOK /\ ProcessIsAuthorized
  BY DEF ReceiverInvariant
<1>2. to \in Phase /\ to # "DOWN" /\ to # "LISTENING" /\ receiver.phase # "DOWN"
  BY DEF Reach, Phase
<1>3. receiver \in [process: 0..MaxProcesses, phase: Phase, kind: Kind,
                    authorization: 0..Len(issued)]
  BY <1>1 DEF ReceiverTypeOK
<1>4. /\ receiver'.phase = to /\ receiver'.process = receiver.process
      /\ receiver'.kind = receiver.kind /\ receiver'.authorization = receiver.authorization
      /\ receiver' \in [process: 0..MaxProcesses, phase: Phase, kind: Kind,
                        authorization: 0..Len(issued)]
  BY <1>2, <1>3
<1>5. ReceiverTypeOK'
  BY <1>1, <1>4 DEF ReceiverTypeOK
<1>6. approved' = approved
  BY <1>4 DEF approved
<1>7. ProcessIsAuthorized'
  BY <1>1, <1>2, <1>4, <1>6 DEF ProcessIsAuthorized, FactoryAccepts
<1>8. ApprovalsAreConsistent'
  BY <1>4 DEF ReceiverInvariant, ApprovalsAreConsistent
<1>9. RequestsAreAuthorized'
  BY <1>4 DEF ReceiverInvariant, RequestsAreAuthorized, InFlight
<1>10. CallsAreClaimed' /\ SlotsAreOwned' /\ CommandsHaveRequests'
  BY RequestsStay
<1>11. AnswersAreKept' /\ IntakesMatchAdmission' /\ IntakesHaveCommands'
  BY AnswersStay
<1>12. BudgetCountsClaims'
  BY <1>4, <1>6 DEF ReceiverInvariant, BudgetCountsClaims
<1>13. DesignsAreExpected'
  BY <1>4, <1>6 DEF ReceiverInvariant, DesignsAreExpected
<1> QED
  BY <1>5, <1>7, <1>8, <1>9, <1>10, <1>11, <1>12, <1>13 DEF ReceiverInvariant

\* The account, the token and the end of the lease.
LEMMA HandshakeSteps ==
  ASSUME ReceiverInvariant, AcceptAccount \/ AcceptToken \/ Revoke PROVE ReceiverInvariant'
<1>1. CASE AcceptAccount
  BY <1>1, PhaseMoves DEF AcceptAccount, databaseVars, Reach
<1>2. CASE AcceptToken
  BY <1>2, PhaseMoves DEF AcceptToken, databaseVars, Reach
<1>3. CASE Revoke
  BY <1>3, PhaseMoves DEF Revoke, databaseVars, Reach
<1> QED BY <1>1, <1>2, <1>3

\* When the process ends its handlers are lost; what they claimed stays
\* claimed and what they admitted stays admitted.
LEMMA StopStep ==
  ASSUME ReceiverInvariant, Stop PROVE ReceiverInvariant'
<1> DEFINE row(r) == IF InFlight(r) THEN [request[r] EXCEPT !.phase = "DONE"] ELSE request[r]
<1>1. /\ receiver.phase # "DOWN" /\ receiver' = [receiver EXCEPT !.phase = "DOWN"]
      /\ request' = [r \in Requests |-> row(r)]
      /\ budget' = [budget EXCEPT !.closed = TRUE] /\ lock' = NoRequest
      /\ UNCHANGED <<issued, completed, case, interpretations, confirmed, commands, bytes,
                     receipts>>
  BY DEF Stop, CloseBudget, databaseVars
<1>2. ReceiverTypeOK /\ ProcessIsAuthorized
  BY DEF ReceiverInvariant
<1>3. receiver \in [process: 0..MaxProcesses, phase: Phase, kind: Kind,
                    authorization: 0..Len(issued)]
  BY <1>2 DEF ReceiverTypeOK
<1>4. /\ receiver'.phase = "DOWN" /\ receiver'.process = receiver.process
      /\ receiver'.kind = receiver.kind /\ receiver'.authorization = receiver.authorization
      /\ receiver' \in [process: 0..MaxProcesses, phase: Phase, kind: Kind,
                        authorization: 0..Len(issued)]
  <2>1. "DOWN" \in Phase
    BY DEF Phase
  <2> QED BY <1>1, <1>3, <2>1
<1>5. ASSUME NEW r \in Requests
      PROVE  /\ request'[r] \in Handler
             /\ request'[r].phase \notin HandlerPhase
             /\ request'[r].phase = "IDLE" => request'[r] = request[r]
             /\ request'[r].phase # "IDLE" => request[r].phase # "IDLE"
             /\ request'[r].stage = request[r].stage /\ request'[r].command = request[r].command
             /\ request'[r].authorization = request[r].authorization
             /\ request'[r].slot = request[r].slot /\ request'[r].claims = request[r].claims
             /\ request'[r].sent = request[r].sent
  <2>1. request[r] \in Handler
    BY <1>2 DEF ReceiverTypeOK
  <2>2. "DONE" \notin HandlerPhase /\ "IDLE" \notin HandlerPhase
    BY DEF HandlerPhase
  <2>3. request'[r] = row(r)
    BY <1>1
  <2>4. CASE InFlight(r)
    BY <2>1, <2>2, <2>3, <2>4, HandlerMoves DEF InFlight
  <2>5. CASE ~InFlight(r)
    BY <2>1, <2>3, <2>5 DEF InFlight
  <2> QED BY <2>4, <2>5
<1> HIDE DEF row
<1>6. request' \in [Requests -> Handler]
  BY <1>1, <1>5
<1>7. /\ budget'.cursor = budget.cursor /\ budget'.owner = budget.owner
      /\ budget'.attempts = budget.attempts /\ budget'.finished = budget.finished
      /\ budget'.expected = budget.expected
      /\ budget' \in [closed: BOOLEAN, cursor: 1..3, owner: Requests \cup {NoRequest},
                      attempts: Seq(0..MaxAttempts), finished: SUBSET Requests,
                      expected: 0..MaxInterpretations]
  BY <1>1, <1>2 DEF ReceiverTypeOK
<1>8. ReceiverTypeOK'
  BY <1>1, <1>2, <1>4, <1>6, <1>7 DEF ReceiverTypeOK
<1>9. approved' = approved
  BY <1>1, <1>4 DEF approved
<1>10. ProcessIsAuthorized'
  BY <1>1, <1>2, <1>4, <1>9 DEF ProcessIsAuthorized, FactoryAccepts, Reach
<1>11. ApprovalsAreConsistent'
  BY <1>1, <1>4 DEF ReceiverInvariant, ApprovalsAreConsistent
<1>12. RequestsAreAuthorized'
  BY <1>1, <1>4, <1>5 DEF ReceiverInvariant, RequestsAreAuthorized, InFlight
<1>13. CallsAreClaimed'
  BY <1>1, <1>5 DEF ReceiverInvariant, CallsAreClaimed, HandlerPhase
<1>14. SlotsAreOwned'
  BY <1>1, <1>5 DEF ReceiverInvariant, SlotsAreOwned
<1>15. CommandsHaveRequests'
  BY <1>1, <1>5 DEF ReceiverInvariant, CommandsHaveRequests, Native, InFlight, HandlerPhase
<1>16. AnswersAreKept' /\ IntakesMatchAdmission' /\ IntakesHaveCommands'
  BY <1>1, AnswersStay
<1>17. budget.owner # NoRequest => budget.owner \in Requests
  BY <1>2, BudgetTypes
<1>18. BudgetCountsClaims'
  BY <1>4, <1>5, <1>7, <1>9, <1>17 DEF ReceiverInvariant, BudgetCountsClaims
<1>19. DesignsAreExpected'
  BY <1>1, <1>4, <1>5, <1>7, <1>9 DEF ReceiverInvariant, DesignsAreExpected
<1> QED
  BY <1>8, <1>10, <1>11, <1>12, <1>13, <1>14, <1>15, <1>16, <1>18, <1>19
  DEF ReceiverInvariant

-----------------------------------------------------------------------------
(* A handler that runs moves on.                                            *)

\* It stays the handler of its approval, its slot and its command.
LEMMA HandlerMovesOn ==
  ASSUME ReceiverInvariant, UNCHANGED <<receiver, issued, budget>>,
         NEW r \in Requests, InFlight(r), NEW row \in Handler,
         request' = [request EXCEPT ![r] = row], row.phase # "IDLE",
         row.stage = request[r].stage, row.command = request[r].command,
         row.authorization = request[r].authorization,
         row.slot = request[r].slot, row.claims = request[r].claims,
         row.sent <= row.claims,
         row.phase \in {"CLAIMED", "SENDING"} => row.sent < row.claims,
         confirmed \subseteq confirmed',
         \A i \in DOMAIN interpretations : interpretations'[i] = interpretations[i]
  PROVE  /\ request' \in [Requests -> Handler]
         /\ \A q \in Requests : request'[q] = IF q = r THEN row ELSE request[q]
         /\ (ProcessIsAuthorized /\ ApprovalsAreConsistent)'
         /\ RequestsAreAuthorized' /\ CallsAreClaimed' /\ SlotsAreOwned'
         /\ BudgetCountsClaims' /\ DesignsAreExpected'
<1>1. /\ request[r].authorization = receiver.authorization
      /\ receiver.phase \in {"SERVING", "STOPPING"}
  BY DEF ReceiverInvariant, RequestsAreAuthorized
<1>2. receiver.phase \in Reach
  BY <1>1 DEF Reach
<1>3. /\ request' \in [Requests -> Handler]
      /\ \A q \in Requests : request'[q] = IF q = r THEN row ELSE request[q]
      /\ (ProcessIsAuthorized /\ ApprovalsAreConsistent)'
      /\ RequestsAreAuthorized' /\ CallsAreClaimed' /\ SlotsAreOwned'
      /\ BudgetCountsClaims'
  BY <1>1, <1>2, HandlerRewritten
<1>4. DesignsAreExpected'
  BY <1>3, DesignsStay
<1> QED BY <1>3, <1>4

\* The bearer is taken, the call is tried again, or the design is stored.
LEMMA PhaseSteps ==
  ASSUME ReceiverInvariant, NEW r \in Requests,
         TakeBearer(r) \/ Retry(r) \/ StoreDesign(r)
  PROVE  ReceiverInvariant'
<1>1. PICK to \in {"SENDING", "READY", "DONE"} :
        /\ request' = [request EXCEPT ![r].phase = to]
        /\ to = "SENDING" => request[r].phase = "CLAIMED"
        /\ to # "SENDING" => ~Native(r) /\ request[r].phase = "WAITING"
        /\ UNCHANGED <<receiver, issued, budget, completed, lock, case, interpretations,
                       confirmed, commands, bytes, receipts>>
  BY DEF TakeBearer, Retry, StoreDesign, Move, databaseVars
<1> DEFINE row == [request[r] EXCEPT !.phase = to]
<1>2. ReceiverTypeOK /\ CallsAreClaimed
  BY DEF ReceiverInvariant
<1>3. request[r] \in Handler /\ request' = [request EXCEPT ![r] = row]
  BY <1>1, <1>2 DEF ReceiverTypeOK
<1>4. to \in HandlerPhase \cup {"IDLE", "DONE"} /\ to # "IDLE" /\ to # "RECORDING" /\ to # "CLAIMED"
  BY DEF HandlerPhase
<1>5. /\ row \in Handler /\ row.phase = to
      /\ row.stage = request[r].stage /\ row.command = request[r].command
      /\ row.authorization = request[r].authorization
      /\ row.slot = request[r].slot /\ row.claims = request[r].claims
      /\ row.sent = request[r].sent
  BY <1>3, <1>4, HandlerMoves
<1> HIDE DEF row
<1>6. InFlight(r)
  BY <1>1 DEF InFlight, HandlerPhase
<1>7. row.sent <= row.claims /\ (row.phase \in {"CLAIMED", "SENDING"} => row.sent < row.claims)
  BY <1>1, <1>2, <1>4, <1>5 DEF CallsAreClaimed
<1>8. /\ request' \in [Requests -> Handler]
      /\ \A q \in Requests : request'[q] = IF q = r THEN row ELSE request[q]
      /\ (ProcessIsAuthorized /\ ApprovalsAreConsistent)'
      /\ RequestsAreAuthorized' /\ CallsAreClaimed' /\ SlotsAreOwned'
      /\ BudgetCountsClaims' /\ DesignsAreExpected'
  BY <1>1, <1>3, <1>4, <1>5, <1>6, <1>7, HandlerMovesOn
<1>9. ReceiverTypeOK'
  BY <1>1, <1>2, <1>8 DEF ReceiverTypeOK
<1>10. CommandsHaveRequests'
  BY <1>1, <1>4, <1>5, <1>6, <1>8, CommandsStay
<1>11. AnswersAreKept' /\ IntakesMatchAdmission' /\ IntakesHaveCommands'
  BY <1>1, AnswersStay
<1> QED BY <1>8, <1>9, <1>10, <1>11 DEF ReceiverInvariant

\* A call that was claimed is sent.
LEMMA PostStep ==
  ASSUME ReceiverInvariant, NEW r \in Requests, Post(r) PROVE ReceiverInvariant'
<1> DEFINE row == [request[r] EXCEPT !.phase = "WAITING", !.sent = @ + 1]
<1>1. /\ request[r].phase = "SENDING"
      /\ request' = [request EXCEPT ![r].phase = "WAITING", ![r].sent = @ + 1]
      /\ UNCHANGED <<receiver, issued, budget, completed, lock, case, interpretations,
                     confirmed, commands, bytes, receipts>>
  BY DEF Post, databaseVars
<1>2. ReceiverTypeOK /\ CallsAreClaimed
  BY DEF ReceiverInvariant
<1>3. request[r] \in Handler /\ request' = [request EXCEPT ![r] = row]
  BY <1>1, <1>2 DEF ReceiverTypeOK
<1>4. request[r].sent \in Nat /\ request[r].claims \in Nat /\ request[r].sent < request[r].claims
  BY <1>1, <1>2, <1>3, HandlerFields DEF CallsAreClaimed
<1>5. /\ row \in Handler /\ row.phase = "WAITING"
      /\ row.stage = request[r].stage /\ row.command = request[r].command
      /\ row.authorization = request[r].authorization
      /\ row.slot = request[r].slot /\ row.claims = request[r].claims
      /\ row.sent = request[r].sent + 1
  <2> DEFINE n == request[r].sent + 1
  <2>1. row = [request[r] EXCEPT !.phase = "WAITING", !.sent = n] /\ n \in Nat
    BY <1>3, <1>4
  <2> HIDE DEF n, row
  <2>2. /\ row \in Handler /\ row.phase = "WAITING"
        /\ row.stage = request[r].stage /\ row.command = request[r].command
        /\ row.authorization = request[r].authorization
        /\ row.slot = request[r].slot /\ row.claims = request[r].claims
        /\ row.sent = n
    BY <1>3, <2>1 DEF Handler, HandlerPhase
  <2> QED BY <2>2 DEF n
<1> HIDE DEF row
<1>6. InFlight(r)
  BY <1>1 DEF InFlight, HandlerPhase
<1>7. row.sent <= row.claims
  BY <1>4, <1>5
<1>8. /\ request' \in [Requests -> Handler]
      /\ \A q \in Requests : request'[q] = IF q = r THEN row ELSE request[q]
      /\ (ProcessIsAuthorized /\ ApprovalsAreConsistent)'
      /\ RequestsAreAuthorized' /\ CallsAreClaimed' /\ SlotsAreOwned'
      /\ BudgetCountsClaims' /\ DesignsAreExpected'
  BY <1>1, <1>3, <1>5, <1>6, <1>7, HandlerMovesOn
<1>9. ReceiverTypeOK'
  BY <1>1, <1>2, <1>8 DEF ReceiverTypeOK
<1>10. CommandsHaveRequests'
  BY <1>1, <1>5, <1>6, <1>8, CommandsStay
<1>11. AnswersAreKept' /\ IntakesMatchAdmission' /\ IntakesHaveCommands'
  BY <1>1, AnswersStay
<1> QED BY <1>8, <1>9, <1>10, <1>11 DEF ReceiverInvariant

\* A lock that is given up is free, and another's stays.
LEMMA ReleaseTypes ==
  ASSUME ReceiverTypeOK, NEW r \in Requests, Release(r)
  PROVE  lock' \in Requests \cup {NoRequest}
BY DEF ReceiverTypeOK, Release

\* A native handler that runs has an admitted command.
LEMMA CommandAdmitted ==
  ASSUME ReceiverInvariant, NEW r \in Requests, InFlight(r), Native(r)
  PROVE  /\ request[r].command \in DOMAIN commands
         /\ commands[request[r].command].state = "ADMITTED"
<1>1. /\ request[r].command \in 0 .. Len(commands) /\ request[r].command # 0
      /\ commands[request[r].command].state = "ADMITTED"
  BY DEF ReceiverInvariant, CommandsHaveRequests, Native, NoCommand
<1>2. DOMAIN commands = 1 .. Len(commands) /\ Len(commands) \in Nat
  BY DEF ReceiverInvariant, ReceiverTypeOK
<1> QED BY <1>1, <1>2

\* A handler that ends says what became of its command: nothing is known of
\* it, or the answer that was brought and kept.
LEMMA HandlerEnds ==
  ASSUME ReceiverInvariant, NEW r \in Requests, InFlight(r),
         NEW outcome \in CommandState,
         outcome \in Answered => request[r].command \in receipts,
         request' = [request EXCEPT ![r].phase = "DONE"],
         \/ UNCHANGED commands
         \/ Native(r) /\ commands' = [commands EXCEPT ![request[r].command].state = outcome],
         lock' \in Requests \cup {NoRequest},
         UNCHANGED <<receiver, issued, budget, completed, case, interpretations, confirmed,
                     bytes, receipts>>
  PROVE  ReceiverInvariant'
<1> DEFINE row == [request[r] EXCEPT !.phase = "DONE"]
<1>1. ReceiverTypeOK /\ CallsAreClaimed
  BY DEF ReceiverInvariant
<1>2. request[r] \in Handler /\ request' = [request EXCEPT ![r] = row]
  BY <1>1 DEF ReceiverTypeOK
<1>3. /\ row \in Handler /\ row.phase = "DONE"
      /\ row.stage = request[r].stage /\ row.command = request[r].command
      /\ row.authorization = request[r].authorization
      /\ row.slot = request[r].slot /\ row.claims = request[r].claims
      /\ row.sent = request[r].sent
  BY <1>2, HandlerMoves
<1> HIDE DEF row
<1>4. row.sent <= row.claims
  BY <1>1, <1>3 DEF CallsAreClaimed
<1>5. /\ request' \in [Requests -> Handler]
      /\ \A q \in Requests : request'[q] = IF q = r THEN row ELSE request[q]
      /\ (ProcessIsAuthorized /\ ApprovalsAreConsistent)'
      /\ RequestsAreAuthorized' /\ CallsAreClaimed' /\ SlotsAreOwned'
      /\ BudgetCountsClaims' /\ DesignsAreExpected'
  BY <1>2, <1>3, <1>4, HandlerMovesOn
<1>6. /\ commands \in Seq(Command) /\ DOMAIN commands = 1 .. Len(commands)
      /\ Len(commands) \in Nat
  BY <1>1 DEF ReceiverTypeOK
<1>7. /\ commands' \in Seq(Command) /\ Len(commands') = Len(commands)
      /\ \A d \in DOMAIN commands : d # request[r].command => commands'[d] = commands[d]
      /\ \A d \in DOMAIN commands : commands'[d].key = commands[d].key
      /\ AnswersAreKept' /\ IntakesMatchAdmission' /\ IntakesHaveCommands'
  <2>1. CASE UNCHANGED commands
    BY <1>6, <2>1, AnswersStay
  <2>2. CASE Native(r) /\ commands' = [commands EXCEPT ![request[r].command].state = outcome]
    <3>1. /\ request[r].command \in DOMAIN commands
          /\ commands[request[r].command].state = "ADMITTED"
      BY <2>2, CommandAdmitted
    <3> DEFINE c == request[r].command
    <3>2. /\ c \in DOMAIN commands /\ commands[c].state = "ADMITTED"
          /\ commands' = [commands EXCEPT ![c].state = outcome]
      BY <2>2, <3>1
    <3>3. outcome \in Answered => c \in receipts
      OBVIOUS
    <3>4. /\ commands' \in Seq(Command) /\ Len(commands') = Len(commands)
          /\ \A d \in DOMAIN commands : d # c => commands'[d] = commands[d]
          /\ \A d \in DOMAIN commands : commands'[d].key = commands[d].key
          /\ AnswersAreKept' /\ IntakesMatchAdmission' /\ IntakesHaveCommands'
      <4> HIDE DEF c
      <4> QED BY <3>2, <3>3, CommandSettled
    <3> QED BY <3>4
  <2> QED BY <2>1, <2>2
<1>8. ReceiverTypeOK'
  <2>1. DOMAIN commands' = DOMAIN commands
    BY <1>6, <1>7
  <2>2. \A c, d \in DOMAIN commands' : commands'[c].key = commands'[d].key => c = d
    BY <1>1, <1>7, <2>1 DEF ReceiverTypeOK
  <2>3. bytes' \subseteq DOMAIN commands' /\ receipts' \subseteq DOMAIN commands'
    BY <1>1, <2>1 DEF ReceiverTypeOK
  <2> QED BY <1>1, <1>5, <1>7, <2>2, <2>3 DEF ReceiverTypeOK
<1>9. CommandsHaveRequests'
  <2>1. row.phase \notin HandlerPhase /\ row.phase # "RECORDING"
    BY <1>3 DEF HandlerPhase
  <2> QED BY <1>3, <1>5, <1>6, <1>7, <2>1, CommandsStay
<1> QED BY <1>5, <1>7, <1>8, <1>9 DEF ReceiverInvariant

\* A handler that ends without an answer says that nothing is known.
LEMMA FailStep ==
  ASSUME ReceiverInvariant, NEW r \in Requests, Fail(r) PROVE ReceiverInvariant'
<1>1. "UNCERTAIN" \in CommandState /\ "UNCERTAIN" \notin Answered
  BY DEF CommandState, Answered
<1>2. lock' \in Requests \cup {NoRequest}
  BY ReleaseTypes DEF Fail, ReceiverInvariant
<1> QED BY <1>1, <1>2, HandlerEnds DEF Fail

\* What is recorded of a native response is what its handler has kept.
LEMMA RecordStep ==
  ASSUME ReceiverInvariant, NEW r \in Requests, Record(r) PROVE ReceiverInvariant'
<1>1. /\ request[r].phase = "RECORDING"
      /\ request' = [request EXCEPT ![r].phase = "DONE"]
      /\ commands' = [commands EXCEPT ![request[r].command].state = request[r].outcome]
      /\ UNCHANGED <<receiver, issued, budget, completed, lock, case, interpretations,
                     confirmed, bytes, receipts>>
  BY DEF Record, Move
<1>2. /\ Native(r) /\ InFlight(r)
      /\ request[r].outcome \in Answered => request[r].command \in receipts
  BY <1>1 DEF ReceiverInvariant, CommandsHaveRequests, InFlight, HandlerPhase
<1>3. request[r].outcome \in CommandState /\ lock' \in Requests \cup {NoRequest}
  <2>1. request[r] \in Handler
    BY DEF ReceiverInvariant, ReceiverTypeOK
  <2> QED BY <1>1, <2>1, HandlerFields DEF ReceiverInvariant, ReceiverTypeOK
<1> QED BY <1>1, <1>2, <1>3, HandlerEnds

\* The interpretation that an analysis leaves is of no command.
LEMMA StoreAnalysisStep ==
  ASSUME ReceiverInvariant, NEW r \in Requests, StoreAnalysis(r) PROVE ReceiverInvariant'
<1> DEFINE row == [request[r] EXCEPT !.phase = "DONE"]
           new == [context |-> case.context, settings |-> request[r].settings,
                   command |-> NoCommand]
<1>1. /\ ~Native(r) /\ request[r].phase = "WAITING"
      /\ request' = [request EXCEPT ![r].phase = "DONE"]
      /\ Len(interpretations) < MaxInterpretations
      /\ interpretations' = Append(interpretations, new)
      /\ UNCHANGED <<receiver, issued, budget, completed, case, confirmed, commands, bytes,
                     receipts>>
  BY DEF StoreAnalysis, Move, AddInterpretation
<1>2. ReceiverTypeOK /\ CallsAreClaimed
  BY DEF ReceiverInvariant
<1>3. request[r] \in Handler /\ request' = [request EXCEPT ![r] = row]
  BY <1>1, <1>2 DEF ReceiverTypeOK
<1>4. /\ row \in Handler /\ row.phase = "DONE"
      /\ row.stage = request[r].stage /\ row.command = request[r].command
      /\ row.authorization = request[r].authorization
      /\ row.slot = request[r].slot /\ row.claims = request[r].claims
      /\ row.sent = request[r].sent
  BY <1>3, HandlerMoves
<1> HIDE DEF row
<1>5. new \in Interpretation /\ new.command = NoCommand /\ new.command \in 0 .. Len(commands)
  <2>1. request[r].settings \in 1 .. MaxVersions
    BY <1>3, HandlerFields
  <2>2. case.context \in 1 .. MaxVersions
    BY <1>2, CurrentTypes
  <2>3. Len(commands) \in Nat
    BY <1>2 DEF ReceiverTypeOK
  <2> QED BY <2>1, <2>2, <2>3, BoundTypes DEF Interpretation, NoCommand
<1> HIDE DEF new
<1>6. /\ interpretations' \in Seq(Interpretation)
      /\ Len(interpretations') <= MaxInterpretations
      /\ confirmed' \subseteq DOMAIN interpretations'
      /\ \A i \in DOMAIN interpretations : interpretations'[i] = interpretations[i]
      /\ AnswersAreKept' /\ IntakesMatchAdmission' /\ IntakesHaveCommands'
  BY <1>1, <1>5, InterpretationAdded
<1>7. InFlight(r)
  BY <1>1 DEF InFlight, HandlerPhase
<1>8. row.sent <= row.claims
  BY <1>2, <1>4 DEF CallsAreClaimed
<1>9. /\ request' \in [Requests -> Handler]
      /\ \A q \in Requests : request'[q] = IF q = r THEN row ELSE request[q]
      /\ (ProcessIsAuthorized /\ ApprovalsAreConsistent)'
      /\ RequestsAreAuthorized' /\ CallsAreClaimed' /\ SlotsAreOwned'
      /\ BudgetCountsClaims' /\ DesignsAreExpected'
  BY <1>1, <1>3, <1>4, <1>6, <1>7, <1>8, HandlerMovesOn
<1>10. lock' \in Requests \cup {NoRequest}
  BY <1>2, ReleaseTypes DEF StoreAnalysis
<1>11. ReceiverTypeOK'
  BY <1>1, <1>2, <1>6, <1>9, <1>10 DEF ReceiverTypeOK
<1>12. CommandsHaveRequests'
  BY <1>1, <1>4, <1>7, <1>9, CommandsStay
<1> QED BY <1>6, <1>9, <1>11, <1>12 DEF ReceiverInvariant

\* The bytes of an answer come before its receipt.
LEMMA PreserveStep ==
  ASSUME ReceiverInvariant, NEW r \in Requests, Preserve(r) PROVE ReceiverInvariant'
<1> DEFINE c == request[r].command
<1>1. PICK outcome \in Answered \cup {"UNCERTAIN"} :
        /\ request' = [request EXCEPT ![r].phase = "RECORDING", ![r].outcome = outcome]
        /\ Archive(c)
        /\ outcome \in Answered => c \in receipts'
  BY DEF Preserve
<1>2. /\ request[r].phase = "WAITING" /\ Native(r)
      /\ UNCHANGED <<receiver, issued, budget, completed, lock, case, interpretations,
                     confirmed, commands>>
  BY DEF Preserve
<1>3. /\ bytes' \in {bytes, bytes \cup {c}} /\ receipts' \in {receipts, receipts \cup {c}}
      /\ c \in receipts' => c \in bytes'
  BY <1>1 DEF Archive, CommitReceipt
<1>4. ReceiverTypeOK /\ CallsAreClaimed /\ AnswersAreKept
  BY DEF ReceiverInvariant
<1>5. InFlight(r)
  BY <1>2 DEF InFlight, HandlerPhase
<1>6. c \in DOMAIN commands
  BY <1>2, <1>5, CommandAdmitted
<1> DEFINE row == [request[r] EXCEPT !.phase = "RECORDING", !.outcome = outcome]
<1>7. request[r] \in Handler /\ request' = [request EXCEPT ![r] = row]
  BY <1>1, <1>4 DEF ReceiverTypeOK
<1>8. outcome \in CommandState
  BY DEF CommandState, Answered
<1>9. /\ row \in Handler /\ row.phase = "RECORDING"
      /\ row.stage = request[r].stage /\ row.command = request[r].command
      /\ row.authorization = request[r].authorization
      /\ row.slot = request[r].slot /\ row.claims = request[r].claims
      /\ row.sent = request[r].sent /\ row.outcome = outcome
  BY <1>7, <1>8 DEF Handler, HandlerPhase
<1> HIDE DEF row
<1>10. row.sent <= row.claims
  BY <1>4, <1>9 DEF CallsAreClaimed
<1>11. /\ request' \in [Requests -> Handler]
       /\ \A q \in Requests : request'[q] = IF q = r THEN row ELSE request[q]
       /\ (ProcessIsAuthorized /\ ApprovalsAreConsistent)'
       /\ RequestsAreAuthorized' /\ CallsAreClaimed' /\ SlotsAreOwned'
       /\ BudgetCountsClaims' /\ DesignsAreExpected'
  BY <1>2, <1>5, <1>7, <1>9, <1>10, HandlerMovesOn
<1>12. /\ bytes' \subseteq DOMAIN commands /\ receipts' \subseteq DOMAIN commands
       /\ receipts \subseteq receipts' /\ receipts' \subseteq bytes'
  BY <1>3, <1>4, <1>6 DEF ReceiverTypeOK, AnswersAreKept
<1>13. ReceiverTypeOK'
  BY <1>2, <1>4, <1>11, <1>12 DEF ReceiverTypeOK
<1>14. CommandsHaveRequests'
  BY <1>1, <1>2, <1>5, <1>9, <1>11, <1>12, CommandsStay DEF Native
<1>15. AnswersAreKept'
  BY <1>2, <1>4, <1>12 DEF AnswersAreKept
<1>16. IntakesMatchAdmission' /\ IntakesHaveCommands'
  BY <1>2 DEF ReceiverInvariant, IntakesMatchAdmission, IntakesHaveCommands
<1> QED BY <1>11, <1>13, <1>14, <1>15, <1>16 DEF ReceiverInvariant

-----------------------------------------------------------------------------
(* A request begins.                                                        *)

\* What a handler begins with.
LEMMA HandlerIdle ==
  /\ IdleHandler \in Handler /\ IdleHandler.command = NoCommand
  /\ IdleHandler.slot = NoSlot /\ IdleHandler.claims = 0 /\ IdleHandler.sent = 0
BY BoundTypes DEF IdleHandler, Handler, HandlerPhase, Stage, CommandState, NoCommand,
                  NoAuthorization, NoSlot

\* A request that begins without a command, or is answered from a known one,
\* holds no slot.
LEMMA PlainBegins ==
  ASSUME ReceiverInvariant, NEW r \in Requests, NEW row \in Handler,
         request[r].phase = "IDLE", request' = [request EXCEPT ![r] = row],
         row.phase \in {"READY", "DONE"}, row.command = NoCommand,
         row.authorization = receiver.authorization,
         row.slot = NoSlot, row.claims = 0, row.sent = 0,
         receiver.phase \in {"SERVING", "STOPPING"},
         lock' \in Requests \cup {NoRequest},
         UNCHANGED <<receiver, issued, budget, completed, case, interpretations, confirmed,
                     commands, bytes, receipts>>
  PROVE  ReceiverInvariant'
<1>1. ReceiverTypeOK
  BY DEF ReceiverInvariant
<1>2. /\ request[r].slot = NoSlot /\ request[r].claims = 0 /\ request[r].command = NoCommand
  BY DEF ReceiverInvariant, RequestsAreAuthorized, IdleHandler
<1>3. /\ receiver.phase \in Reach /\ row.phase # "IDLE"
      /\ row.phase \notin {"CLAIMED", "SENDING"} /\ row.sent <= row.claims
      /\ row.slot = request[r].slot /\ row.claims = request[r].claims
  BY <1>2 DEF Reach
<1>4. /\ request' \in [Requests -> Handler]
      /\ \A q \in Requests : request'[q] = IF q = r THEN row ELSE request[q]
      /\ (ProcessIsAuthorized /\ ApprovalsAreConsistent)'
      /\ RequestsAreAuthorized' /\ CallsAreClaimed' /\ SlotsAreOwned'
      /\ BudgetCountsClaims'
  BY <1>2, <1>3, HandlerRewritten
<1>5. DesignsAreExpected'
  BY <1>4, DesignsStay
<1>6. ReceiverTypeOK'
  BY <1>1, <1>4 DEF ReceiverTypeOK
<1>7. CommandsHaveRequests'
  BY <1>2, <1>4, CommandsStay
<1>8. AnswersAreKept' /\ IntakesMatchAdmission' /\ IntakesHaveCommands'
  BY AnswersStay
<1> QED BY <1>4, <1>5, <1>6, <1>7, <1>8 DEF ReceiverInvariant

\* The approval in force is one that was given.
LEMMA InForce ==
  ASSUME ReceiverInvariant, receiver.phase \in {"SERVING", "STOPPING"}
  PROVE  /\ receiver.authorization # NoAuthorization
         /\ receiver.authorization \in DOMAIN issued
         /\ receiver.authorization \in 0 .. MaxAuthorizations
         /\ approved.slots \in Plans /\ approved.slots[1].stage \in Stage
         /\ approved.process = receiver.process /\ FactoryAccepts(approved)
<1>1. ReceiverTypeOK /\ ProcessIsAuthorized
  BY DEF ReceiverInvariant
<1>2. /\ receiver.authorization # NoAuthorization
      /\ approved.process = receiver.process /\ FactoryAccepts(approved)
  BY <1>1 DEF ProcessIsAuthorized, Reach
<1>3. receiver.authorization \in DOMAIN issued
  BY <1>1, <1>2, ApprovalNumbers
<1>4. receiver.authorization \in 0 .. MaxAuthorizations
  BY <1>1, BoundTypes DEF ReceiverTypeOK
<1>5. approved.slots \in Plans
  BY <1>1, <1>3, ApprovalTypes DEF approved
<1>6. approved.slots[1].stage \in Stage
  BY <1>5, PlanShape
<1> QED BY <1>2, <1>3, <1>4, <1>5, <1>6

\* A request of the report receiver begins with nothing claimed.
LEMMA BeginSteps ==
  ASSUME ReceiverInvariant, NEW r \in Requests, BeginAnalysis(r) \/ BeginDesign(r)
  PROVE  ReceiverInvariant'
<1>1. PICK stage \in Stage :
        request' = [request EXCEPT ![r] =
          [IdleHandler EXCEPT !.phase = "READY", !.stage = stage, !.command = NoCommand,
                              !.authorization = receiver.authorization,
                              !.settings = case.settings]]
  BY DEF BeginAnalysis, BeginDesign, Begin, Stage
<1>2. /\ receiver.phase \in {"SERVING", "STOPPING"} /\ request[r].phase = "IDLE"
      /\ lock' \in Requests \cup {NoRequest}
      /\ UNCHANGED <<receiver, issued, budget, completed, case, interpretations, confirmed,
                     commands, bytes, receipts>>
  BY DEF BeginAnalysis, BeginDesign, Begin, CredentialsReady, databaseVars
<1>3. receiver.authorization \in 0 .. MaxAuthorizations
  BY <1>2, InForce
<1>4. case.settings \in 1 .. MaxVersions /\ NoCommand \in 0 .. Cardinality(Keys)
  BY CurrentTypes, BoundTypes DEF ReceiverInvariant, NoCommand
<1> DEFINE row == [IdleHandler EXCEPT !.phase = "READY", !.stage = stage, !.command = NoCommand,
                                      !.authorization = receiver.authorization,
                                      !.settings = case.settings]
<1>5. /\ row \in Handler /\ row.phase = "READY" /\ row.command = NoCommand
      /\ row.authorization = receiver.authorization
      /\ row.slot = NoSlot /\ row.claims = 0 /\ row.sent = 0
  BY <1>3, <1>4, HandlerIdle DEF Handler, HandlerPhase
<1>6. request' = [request EXCEPT ![r] = row]
  BY <1>1
<1> HIDE DEF row
<1> QED BY <1>2, <1>5, <1>6, PlainBegins

\* A known key is answered without a call.
LEMMA ReplayStep ==
  ASSUME ReceiverInvariant, NEW r \in Requests, NEW key \in Keys, Replay(r, key)
  PROVE  ReceiverInvariant'
<1> DEFINE stage == approved.slots[1].stage
           row == [IdleHandler EXCEPT !.phase = "DONE", !.stage = stage,
                                      !.authorization = receiver.authorization]
<1>1. /\ receiver.phase \in {"SERVING", "STOPPING"} /\ request[r].phase = "IDLE"
      /\ request' = [request EXCEPT ![r] = row]
      /\ UNCHANGED <<receiver, issued, budget, completed, lock, case, interpretations,
                     confirmed, commands, bytes, receipts>>
  BY DEF Replay, databaseVars
<1>2. stage \in Stage /\ receiver.authorization \in 0 .. MaxAuthorizations
  BY <1>1, InForce
<1> HIDE DEF stage
<1>5. /\ row \in Handler /\ row.phase = "DONE" /\ row.command = NoCommand
      /\ row.authorization = receiver.authorization
      /\ row.slot = NoSlot /\ row.claims = 0 /\ row.sent = 0
  BY <1>2, HandlerIdle DEF Handler, HandlerPhase
<1> HIDE DEF row
<1>6. lock' \in Requests \cup {NoRequest}
  BY <1>1 DEF ReceiverInvariant, ReceiverTypeOK
<1> QED BY <1>1, <1>5, <1>6, PlainBegins

\* The keys of the commands differ, so that there is room for a new one.
LEMMA KeyIsLeft ==
  ASSUME ReceiverTypeOK, NEW key \in Keys, ~KnownKey(key)
  PROVE  Len(commands) + 1 <= Cardinality(Keys)
<1>1. /\ commands \in Seq(Command) /\ Len(commands) \in Nat
      /\ DOMAIN commands = 1 .. Len(commands) /\ Cardinality(Keys) \in Nat
      /\ \A c \in DOMAIN commands : commands[c].key \in Keys
  <2>1. /\ commands \in Seq(Command) /\ Len(commands) \in Nat
        /\ DOMAIN commands = 1 .. Len(commands)
        /\ \A c \in DOMAIN commands : commands[c] \in Command
    BY DEF ReceiverTypeOK
  <2>2. \A c \in Command : c.key \in Keys
    BY DEF Command
  <2> QED BY <2>1, <2>2, BoundTypes
<1> DEFINE n == Len(commands) + 1
           f == [i \in 1 .. n |-> IF i = n THEN key ELSE commands[i].key]
<1>2. n \in Nat /\ \A i \in 1 .. n : i = n \/ i \in DOMAIN commands
  BY <1>1
<1>3. IsFiniteSet(1 .. n) /\ Cardinality(1 .. n) = n
  <2>1. /\ IsFiniteSet(1 .. n)
        /\ Cardinality(1 .. n) = IF 1 > n THEN 0 ELSE n - 1 + 1
    BY <1>2, FS_Interval
  <2> QED BY <1>1, <2>1
<1>4. f \in [1 .. n -> Keys]
  BY <1>1, <1>2
<1>5. \A i, j \in 1 .. n : f[i] = f[j] => i = j
  <2> SUFFICES ASSUME NEW i \in 1 .. n, NEW j \in 1 .. n, f[i] = f[j] PROVE i = j
    OBVIOUS
  <2>1. \A c \in DOMAIN commands : commands[c].key # key
    BY DEF KnownKey
  <2>2. \A c, d \in DOMAIN commands : commands[c].key = commands[d].key => c = d
    BY DEF ReceiverTypeOK
  <2>3. f[i] = (IF i = n THEN key ELSE commands[i].key)
    OBVIOUS
  <2>4. f[j] = (IF j = n THEN key ELSE commands[j].key)
    OBVIOUS
  <2> HIDE DEF n, f
  <2> QED BY <1>2, <2>1, <2>2, <2>3, <2>4
<1>6. ~(Cardinality(Keys) < Cardinality(1 .. n))
  <2> DEFINE S == 1 .. n
  <2>1. IsFiniteSet(S) /\ IsFiniteSet(Keys) /\ f \in [S -> Keys]
    BY <1>3, <1>4, ReceiverAssumption
  <2>2. \A i, j \in S : f[i] = f[j] => i = j
    BY <1>5
  <2> HIDE DEF S, f
  <2>3. ~(Cardinality(Keys) < Cardinality(S))
    BY <2>1, <2>2, FS_PigeonHole
  <2> QED BY <2>3 DEF S
<1> QED BY <1>1, <1>2, <1>3, <1>6

\* A native command is admitted for a receiver of one call.
LEMMA AdmitStep ==
  ASSUME ReceiverInvariant, NEW r \in Requests, NEW key \in Keys, Admit(r, key)
  PROVE  ReceiverInvariant'
<1> DEFINE stage == approved.slots[1].stage
           n == Len(commands) + 1
           row == [IdleHandler EXCEPT !.phase = "READY", !.stage = stage, !.command = n,
                                      !.authorization = receiver.authorization,
                                      !.settings = case.settings]
           new == [key |-> key, stage |-> stage, input |-> PreparedInput, state |-> "ADMITTED"]
<1>1. /\ receiver.kind = "NATIVE" /\ receiver.phase = "SERVING" /\ ~KnownKey(key)
      /\ request[r].phase = "IDLE" /\ request' = [request EXCEPT ![r] = row]
      /\ commands' = Append(commands, new)
      /\ UNCHANGED <<receiver, issued, budget, completed, lock, case, interpretations,
                     confirmed, bytes, receipts>>
  BY DEF Admit, Begin, CredentialsReady
<1>2. ReceiverTypeOK /\ CommandsHaveRequests
  BY DEF ReceiverInvariant
<1>3. /\ stage \in Stage /\ receiver.authorization \in 0 .. MaxAuthorizations
      /\ receiver.authorization # NoAuthorization
      /\ Len(approved.slots) = 1 /\ approved.slots[1].attempts = 1
  BY <1>1, InForce DEF FactoryAccepts
<1> HIDE DEF stage
<1>4. /\ commands \in Seq(Command) /\ Len(commands) \in Nat
      /\ DOMAIN commands = 1 .. Len(commands)
  BY <1>2 DEF ReceiverTypeOK
<1>5. n \in 0 .. Cardinality(Keys) /\ n # NoCommand /\ n \in Nat
  BY <1>1, <1>2, <1>4, KeyIsLeft, BoundTypes DEF NoCommand
<1>6. case.settings \in 1 .. MaxVersions /\ case \in Input
  BY <1>2, CurrentTypes DEF ReceiverTypeOK
<1>7. /\ row \in Handler /\ row.phase = "READY" /\ row.stage = stage /\ row.command = n
      /\ row.authorization = receiver.authorization
      /\ row.slot = NoSlot /\ row.claims = 0 /\ row.sent = 0
  <2> HIDE DEF n
  <2> QED BY <1>3, <1>5, <1>6, HandlerIdle DEF Handler, HandlerPhase
<1>8. new \in Command /\ new.state = "ADMITTED" /\ new.key = key
  BY <1>3, <1>6 DEF Command, CommandState, PreparedInput
<1> HIDE DEF row, new
<1>9. /\ commands' \in Seq(Command) /\ Len(commands') = n /\ DOMAIN commands' = 1 .. n
      /\ \A c \in DOMAIN commands : commands'[c] = commands[c]
      /\ commands'[n] = new
  BY <1>1, <1>4, <1>8
<1>10. \A c \in DOMAIN commands' : c \in DOMAIN commands \/ c = n
  BY <1>4, <1>9
<1>11. \A c \in DOMAIN commands : c \in DOMAIN commands' /\ c # n
  BY <1>4, <1>9
<1>12. n <= Cardinality(Keys)
  BY <1>1, <1>2, KeyIsLeft
<1>13. \A c \in 0 .. Len(commands) : c \in 0 .. n /\ (c # 0 => c \in DOMAIN commands) /\ c # n
  BY <1>4
<1> HIDE DEF n
<1>14. /\ request[r].slot = row.slot /\ request[r].claims = row.claims /\ row.sent <= row.claims
  <2>1. /\ request[r].slot = NoSlot /\ request[r].claims = 0
    BY <1>1 DEF ReceiverInvariant, RequestsAreAuthorized, IdleHandler
  <2> QED BY <1>7, <2>1
<1>15. /\ request' \in [Requests -> Handler]
       /\ \A q \in Requests : request'[q] = IF q = r THEN row ELSE request[q]
       /\ (ProcessIsAuthorized /\ ApprovalsAreConsistent)'
       /\ RequestsAreAuthorized' /\ CallsAreClaimed' /\ SlotsAreOwned'
       /\ BudgetCountsClaims'
  BY <1>1, <1>7, <1>14, HandlerRewritten DEF Reach
<1>16. DesignsAreExpected'
  BY <1>1, <1>7, <1>15, DesignsStay
<1>17. ReceiverTypeOK'
  <2>1. \A c, d \in DOMAIN commands' : commands'[c].key = commands'[d].key => c = d
    BY <1>1, <1>2, <1>8, <1>9, <1>10, <1>11 DEF ReceiverTypeOK, KnownKey
  <2>2. bytes' \subseteq DOMAIN commands' /\ receipts' \subseteq DOMAIN commands'
    BY <1>1, <1>2, <1>11 DEF ReceiverTypeOK
  <2> QED BY <1>1, <1>2, <1>9, <1>12, <1>15, <2>1, <2>2 DEF ReceiverTypeOK
<1>18. CommandsHaveRequests'
  <2>1. \A q \in Requests : request[q].command \in 0 .. n /\ request[q].command # n
    BY <1>2, <1>13 DEF CommandsHaveRequests
  <2>2. \A q \in Requests : Native(q) => commands'[request[q].command] = commands[request[q].command]
    BY <1>2, <1>9, <1>13 DEF CommandsHaveRequests, Native, NoCommand
  <2>3. issued'[row.authorization] = approved
    BY <1>1, <1>7 DEF approved
  <2>4. ASSUME NEW q \in Requests
        PROVE  /\ request'[q].command \in 0 .. Len(commands')
               /\ request'[q].phase = "RECORDING" => request'[q].command # NoCommand
               /\ request'[q].command # NoCommand =>
                    LET slots == issued'[request'[q].authorization].slots IN
                    Len(slots) = 1 /\ slots[1].attempts = 1
               /\ request'[q].command # NoCommand /\ request'[q].phase \in HandlerPhase =>
                    commands'[request'[q].command].state = "ADMITTED"
               /\ request'[q].phase = "RECORDING" /\ request'[q].outcome \in Answered =>
                    request'[q].command \in receipts'
    <3>1. CASE q = r
      <4>1. n \in 0 .. n
        BY <1>5
      <4> QED BY <1>3, <1>7, <1>8, <1>9, <1>15, <2>3, <3>1, <4>1
    <3>2. CASE q # r
      BY <1>1, <1>2, <1>9, <1>15, <2>1, <2>2, <3>2 DEF CommandsHaveRequests, Native, InFlight
    <3> QED BY <3>1, <3>2
  <2>5. \A q, p \in Requests :
          request'[q].command # NoCommand /\ request'[q].command = request'[p].command => q = p
    BY <1>2, <1>7, <1>15, <2>1 DEF CommandsHaveRequests, Native
  <2> QED BY <2>4, <2>5 DEF CommandsHaveRequests, Native, InFlight
<1>19. AnswersAreKept'
  BY <1>1, <1>8, <1>9, <1>10 DEF ReceiverInvariant, AnswersAreKept, Answered
<1>20. IntakesHaveCommands'
  BY <1>1, <1>9, <1>13 DEF ReceiverInvariant, IntakesHaveCommands
<1>21. IntakesMatchAdmission'
  BY <1>1, <1>9, <1>13 DEF ReceiverInvariant, IntakesMatchAdmission, IntakesHaveCommands,
                          NoCommand
<1> QED
  BY <1>15, <1>16, <1>17, <1>18, <1>19, <1>20, <1>21 DEF ReceiverInvariant

-----------------------------------------------------------------------------
(* The budget moves.                                                        *)

\* One call more of a slot.
LEMMA OneCallMore ==
  ASSUME NEW T, NEW a \in Seq(T), NEW c \in DOMAIN a, NEW n \in T
  PROVE  LET more == [a EXCEPT ![c] = n] IN
         /\ more \in Seq(T) /\ DOMAIN more = DOMAIN a /\ more[c] = n
         /\ \A s \in DOMAIN a : s # c => more[s] = a[s]
OBVIOUS

\* One call more of the slot at the cursor.
LEMMA BudgetClaims ==
  ASSUME ReceiverTypeOK, NEW r \in Requests, ClaimCall(r),
         budget.cursor \in DOMAIN budget.attempts,
         budget.attempts[budget.cursor] < MaxAttempts
  PROVE  /\ budget' \in [closed: BOOLEAN, cursor: 1..3, owner: Requests \cup {NoRequest},
                         attempts: Seq(0..MaxAttempts), finished: SUBSET Requests,
                         expected: 0..MaxInterpretations]
         /\ budget'.cursor = budget.cursor /\ budget'.owner = r
         /\ budget'.finished = budget.finished /\ budget'.expected = budget.expected
         /\ DOMAIN budget'.attempts = DOMAIN budget.attempts
         /\ budget'.attempts[budget.cursor] = budget.attempts[budget.cursor] + 1
         /\ \A s \in DOMAIN budget.attempts :
              s # budget.cursor => budget'.attempts[s] = budget.attempts[s]
<1> DEFINE c == budget.cursor
           attempts == budget.attempts
           more == [attempts EXCEPT ![c] = @ + 1]
<1>1. /\ attempts \in Seq(0 .. MaxAttempts) /\ c \in DOMAIN attempts
      /\ attempts[c] < MaxAttempts
  BY BudgetTypes
<1>2. budget' = [budget EXCEPT !.owner = r, !.attempts = more]
  BY DEF ReceiverTypeOK, ClaimCall
<1>3. /\ more \in Seq(0 .. MaxAttempts) /\ DOMAIN more = DOMAIN attempts
      /\ more[c] = attempts[c] + 1
      /\ \A s \in DOMAIN attempts : s # c => more[s] = attempts[s]
  <2>1. attempts[c] \in Nat
    BY <1>1, BudgetTypes
  <2>2. attempts[c] + 1 \in 0 .. MaxAttempts
    BY <1>1, <2>1, BoundTypes
  <2> QED BY <1>1, <2>2, OneCallMore
<1> HIDE DEF more
<1>4. /\ budget'.closed = budget.closed /\ budget'.cursor = budget.cursor /\ budget'.owner = r
      /\ budget'.attempts = more
      /\ budget'.finished = budget.finished /\ budget'.expected = budget.expected
      /\ budget' = [closed |-> budget.closed, cursor |-> budget.cursor, owner |-> r,
                    attempts |-> more, finished |-> budget.finished,
                    expected |-> budget.expected]
  BY <1>2 DEF ReceiverTypeOK
<1>5. budget' \in [closed: BOOLEAN, cursor: 1..3, owner: Requests \cup {NoRequest},
                   attempts: Seq(0..MaxAttempts), finished: SUBSET Requests,
                   expected: 0..MaxInterpretations]
  BY <1>3, <1>4, BudgetTypes
<1> QED BY <1>3, <1>4, <1>5

\* The slot at the cursor is free or already of the request that claims, and
\* no other request of this approval has it.
LEMMA CursorIsFree ==
  ASSUME ReceiverInvariant, NEW r \in Requests,
         receiver.authorization # NoAuthorization,
         request[r].authorization = receiver.authorization,
         budget.cursor \in DOMAIN approved.slots,
         r \notin budget.finished, MayOwn(r)
  PROVE  /\ request[r].claims = budget.attempts[budget.cursor]
         /\ \A q \in Requests :
              request[q].authorization = receiver.authorization /\ request[q].slot # NoSlot =>
                q = r \/ (request[q].slot < budget.cursor /\ q \in budget.finished)
<1>1. BudgetCountsClaims /\ CallsAreClaimed /\ ReceiverTypeOK
  BY DEF ReceiverInvariant
<1>2. NoRequest \notin Requests
  BY ReservationAssumption
<1>3. CASE budget.owner = r
  BY <1>1, <1>2, <1>3 DEF BudgetCountsClaims
<1>4. CASE budget.owner = NoRequest
  <2>1. request[r].slot = NoSlot
    BY <1>1, <1>2, <1>4 DEF BudgetCountsClaims
  <2>2. request[r].claims = 0 /\ budget.attempts[budget.cursor] = 0
    BY <1>1, <1>4, <2>1 DEF BudgetCountsClaims, CallsAreClaimed
  <2> QED BY <1>1, <1>2, <1>4, <2>2 DEF BudgetCountsClaims
<1> QED BY <1>3, <1>4 DEF MayOwn

\* A claim is of the slot at the cursor, for its stage and within its calls.
LEMMA ClaimStep ==
  ASSUME ReceiverInvariant, NEW r \in Requests, Claim(r) PROVE ReceiverInvariant'
<1> DEFINE c == budget.cursor
           slots == approved.slots
           row == [request[r] EXCEPT !.phase = "CLAIMED", !.slot = c, !.claims = @ + 1]
<1>1. /\ request[r].phase = "READY"
      /\ request' = [request EXCEPT ![r].phase = "CLAIMED", ![r].slot = c, ![r].claims = @ + 1]
      /\ ClaimCall(r)
      /\ UNCHANGED <<receiver, issued, completed, lock, case, interpretations, confirmed,
                     commands, bytes, receipts>>
  BY DEF Claim, databaseVars
<1>2. /\ ReportState.context = approved.context /\ c <= Len(slots)
      /\ r \notin budget.finished /\ MayOwn(r)
      /\ request[r].stage = slots[c].stage
      /\ request[r].stage # Analysis => ExpectsDesign(ReportState)
      /\ budget.attempts[c] < slots[c].attempts
  BY DEF Claim, MayClaim, Connected, SameInput, SlotsLeft
<1>3. /\ ReceiverTypeOK /\ ProcessIsAuthorized /\ ApprovalsAreConsistent
      /\ RequestsAreAuthorized /\ CallsAreClaimed /\ SlotsAreOwned /\ BudgetCountsClaims
      /\ DesignsAreExpected
  BY DEF ReceiverInvariant
<1>4. InFlight(r)
  BY <1>1 DEF InFlight, HandlerPhase
<1>5. /\ request[r].authorization = receiver.authorization
      /\ receiver.phase \in {"SERVING", "STOPPING"}
  BY <1>3, <1>4 DEF RequestsAreAuthorized
<1>6. /\ receiver.authorization # NoAuthorization /\ receiver.authorization \in DOMAIN issued
      /\ slots \in Plans
  BY <1>5, InForce
<1>7. DOMAIN slots = 1 .. Len(slots) /\ Len(slots) \in {1, 2}
  BY <1>6, PlanShape
<1>8. c \in DOMAIN slots /\ c \in 0 .. 2 /\ c # NoSlot
  BY <1>2, <1>3, <1>7, BudgetTypes DEF NoSlot
<1>9. slots[c].attempts \in 1 .. MaxAttempts /\ slots[c].stage \in Stage
  BY <1>6, <1>7, <1>8, PlanShape
<1>10. DOMAIN budget.attempts = DOMAIN slots /\ budget.attempts[c] \in Nat
  BY <1>3, <1>6, <1>8, BudgetTypes DEF BudgetCountsClaims
<1>11. /\ budget' \in [closed: BOOLEAN, cursor: 1..3, owner: Requests \cup {NoRequest},
                       attempts: Seq(0..MaxAttempts), finished: SUBSET Requests,
                       expected: 0..MaxInterpretations]
       /\ budget'.cursor = c /\ budget'.owner = r
       /\ budget'.finished = budget.finished /\ budget'.expected = budget.expected
       /\ DOMAIN budget'.attempts = DOMAIN slots
       /\ budget'.attempts[c] = budget.attempts[c] + 1
       /\ \A s \in DOMAIN slots : s # c => budget'.attempts[s] = budget.attempts[s]
  <2>1. budget.attempts[c] < MaxAttempts
    BY <1>2, <1>9, <1>10, BoundTypes
  <2> QED BY <1>1, <1>3, <1>8, <1>10, <2>1, BudgetClaims
<1>12. /\ request[r].claims = budget.attempts[c]
       /\ \A q \in Requests :
            request[q].authorization = receiver.authorization /\ request[q].slot # NoSlot =>
              q = r \/ (request[q].slot < c /\ q \in budget.finished)
  BY <1>2, <1>5, <1>6, <1>8, CursorIsFree
<1>13. /\ request[r] \in Handler /\ request' = [request EXCEPT ![r] = row]
       /\ request \in [Requests -> Handler]
  BY <1>1, <1>3 DEF ReceiverTypeOK
<1>14. /\ row \in Handler /\ row.phase = "CLAIMED"
       /\ row.stage = request[r].stage /\ row.command = request[r].command
       /\ row.authorization = request[r].authorization /\ row.slot = c
       /\ row.claims = request[r].claims + 1 /\ row.sent = request[r].sent
  <2>1. request[r].claims + 1 \in Nat
    BY <1>10, <1>12
  <2> DEFINE n == request[r].claims + 1
  <2>2. row = [request[r] EXCEPT !.phase = "CLAIMED", !.slot = c, !.claims = n]
    BY <1>13
  <2> HIDE DEF c, n
  <2>3. /\ row \in Handler /\ row.phase = "CLAIMED"
        /\ row.stage = request[r].stage /\ row.command = request[r].command
        /\ row.authorization = request[r].authorization /\ row.slot = c
        /\ row.claims = n /\ row.sent = request[r].sent
    BY <1>8, <1>13, <2>1, <2>2 DEF Handler, HandlerPhase, n
  <2> QED BY <2>3 DEF n
<1> HIDE DEF row
<1>15. /\ request' \in [Requests -> Handler]
       /\ \A q \in Requests : request'[q] = IF q = r THEN row ELSE request[q]
  BY <1>13, <1>14
<1>16. approved' = approved
  BY <1>1 DEF approved
<1>17. (ProcessIsAuthorized /\ ApprovalsAreConsistent)'
  BY <1>1, <1>3, <1>16 DEF ProcessIsAuthorized, ApprovalsAreConsistent, FactoryAccepts
<1>18. RequestsAreAuthorized'
  BY <1>1, <1>3, <1>5, <1>6, <1>14, <1>15 DEF RequestsAreAuthorized, InFlight
<1>19. issued'[row.authorization].slots = slots
  BY <1>1, <1>5, <1>14 DEF approved
<1>20. CallsAreClaimed'
  <2>1. /\ row.sent < row.claims /\ row.sent <= row.claims
        /\ row.claims <= slots[c].attempts
    <3>1. request[r].sent <= request[r].claims /\ request[r].sent \in Nat
      BY <1>3, <1>13, HandlerFields DEF CallsAreClaimed
    <3> QED BY <1>2, <1>9, <1>10, <1>12, <1>14, <3>1
  <2>2. ASSUME NEW q \in Requests
        PROVE  /\ request'[q].sent <= request'[q].claims
               /\ request'[q].phase \in {"CLAIMED", "SENDING"} =>
                    request'[q].sent < request'[q].claims
               /\ request'[q].slot = NoSlot => request'[q].claims = 0
               /\ request'[q].slot # NoSlot =>
                    LET plan == issued'[request'[q].authorization].slots IN
                    /\ request'[q].slot \in DOMAIN plan
                    /\ request'[q].claims <= plan[request'[q].slot].attempts
                    /\ request'[q].stage = plan[request'[q].slot].stage
    <3>1. CASE q = r
      BY <1>2, <1>8, <1>14, <1>15, <1>19, <2>1, <3>1
    <3>2. CASE q # r
      BY <1>1, <1>3, <1>15, <3>2 DEF CallsAreClaimed
    <3> QED BY <3>1, <3>2
  <2> QED BY <2>2 DEF CallsAreClaimed
<1>21. \A q \in Requests :
         q # r /\ request[q].authorization = receiver.authorization /\ request[q].slot # NoSlot
           => request[q].slot < c /\ q \in budget.finished /\ request[q].slot # c
  <2>1. c \in Nat /\ \A q \in Requests : request[q].slot \in Nat
    BY <1>3, <1>13, BudgetTypes, HandlerFields
  <2> QED BY <1>12, <2>1
<1>22. SlotsAreOwned'
  BY <1>3, <1>5, <1>8, <1>14, <1>15, <1>21 DEF SlotsAreOwned
<1>23. BudgetCountsClaims'
  <2>1. \A s \in DOMAIN slots : s > c => budget'.attempts[s] = 0
    BY <1>3, <1>6, <1>7, <1>8, <1>11 DEF BudgetCountsClaims
  <2>2. /\ request'[r].authorization = receiver.authorization /\ request'[r].slot = c
        /\ request'[r].claims = budget'.attempts[c]
    BY <1>5, <1>11, <1>12, <1>14, <1>15
  <2>3. \A q \in Requests :
          request'[q].authorization = receiver.authorization /\ request'[q].slot # NoSlot =>
            \/ request'[q].slot = c /\ r = q
            \/ request'[q].slot < c /\ q \in budget.finished
    BY <1>14, <1>15, <1>21
  <2>4. approved.expected \in {NoInterpretation, budget'.expected}
    BY <1>3, <1>6, <1>11 DEF BudgetCountsClaims
  <2>5. r # NoRequest
    BY ReservationAssumption
  <2> QED BY <1>1, <1>11, <1>16, <2>1, <2>2, <2>3, <2>4, <2>5 DEF BudgetCountsClaims
<1>24. DesignsAreExpected'
  <2>1. ASSUME request[r].stage = Design
        PROVE  /\ budget.expected \in confirmed
               /\ interpretations[budget.expected].context = approved.context
    <3>1. ExpectsDesign(ReportState)
      BY <1>2, <2>1, StagesDiffer
    <3> QED BY <1>2, <1>3, <3>1, CurrentTypes DEF ExpectsDesign
  <2>2. ASSUME NEW q \in Requests, request'[q].stage = Design, request'[q].slot # NoSlot,
               request'[q].authorization = receiver.authorization
        PROVE  /\ budget.expected \in confirmed
               /\ interpretations[budget.expected].context = approved.context
    <3>1. CASE q = r
      BY <1>14, <1>15, <2>1, <2>2, <3>1
    <3>2. CASE q # r
      BY <1>3, <1>15, <2>2, <3>2 DEF DesignsAreExpected
    <3> QED BY <3>1, <3>2
  <2> QED BY <1>1, <1>11, <1>16, <2>2 DEF DesignsAreExpected
<1>25. ReceiverTypeOK'
  BY <1>1, <1>3, <1>11, <1>15 DEF ReceiverTypeOK
<1>26. CommandsHaveRequests'
  BY <1>1, <1>4, <1>14, <1>15, CommandsStay
<1>27. AnswersAreKept' /\ IntakesMatchAdmission' /\ IntakesHaveCommands'
  BY <1>1, AnswersStay
<1> QED
  BY <1>17, <1>18, <1>20, <1>22, <1>23, <1>24, <1>25, <1>26, <1>27 DEF ReceiverInvariant

-----------------------------------------------------------------------------
(* The case moves, and the rest of the process stays.                       *)

\* What the receiver holds does not depend on the versions of the case, on
\* the lock or on the requests that are over.
LEMMA OthersMove ==
  ASSUME ReceiverInvariant, UNCHANGED <<receiver, issued, request, budget, commands, receipts>>,
         confirmed \subseteq confirmed',
         \A i \in DOMAIN interpretations : interpretations'[i] = interpretations[i],
         ReceiverTypeOK', AnswersAreKept', IntakesMatchAdmission', IntakesHaveCommands'
  PROVE  ReceiverInvariant'
<1>1. approved' = approved
  BY DEF approved
<1>2. (ProcessIsAuthorized /\ ApprovalsAreConsistent)'
  BY <1>1 DEF ReceiverInvariant, ProcessIsAuthorized, ApprovalsAreConsistent, FactoryAccepts
<1>3. RequestsAreAuthorized'
  BY DEF ReceiverInvariant, RequestsAreAuthorized, InFlight
<1>4. CallsAreClaimed' /\ SlotsAreOwned' /\ CommandsHaveRequests'
  BY RequestsStay
<1>5. BudgetCountsClaims'
  BY <1>1 DEF ReceiverInvariant, BudgetCountsClaims
<1>6. DesignsAreExpected'
  BY DesignsStay
<1> QED BY <1>2, <1>3, <1>4, <1>5, <1>6 DEF ReceiverInvariant

\* The context, the settings and a confirmation move beside the receiver.
LEMMA CaseSteps ==
  ASSUME ReceiverInvariant, ChangeContext \/ ChangeSettings \/ Confirm
  PROVE  ReceiverInvariant'
<1>1. UNCHANGED <<receiver, issued, request, budget, completed, lock, interpretations,
                  commands, bytes, receipts>>
  BY DEF ChangeContext, ChangeSettings, Confirm
<1>2. ReceiverTypeOK
  BY DEF ReceiverInvariant
<1>3. case' \in Input
  <2>1. /\ case.context \in Nat /\ case.settings \in Nat /\ case.context >= 1
        /\ case.settings >= 1 /\ case \in Input
    BY <1>2, BoundTypes DEF ReceiverTypeOK, Input
  <2>2. CASE ChangeContext
    <3>1. case.context + 1 \in 1 .. MaxVersions
      BY <2>1, <2>2, BoundTypes DEF ChangeContext
    <3> QED BY <2>1, <2>2, <3>1 DEF ChangeContext, Input
  <2>3. CASE ChangeSettings
    <3>1. case.settings + 1 \in 1 .. MaxVersions
      BY <2>1, <2>3, BoundTypes DEF ChangeSettings
    <3> QED BY <2>1, <2>3, <3>1 DEF ChangeSettings, Input
  <2>4. CASE Confirm
    BY <2>1, <2>4 DEF Confirm
  <2> QED BY <2>2, <2>3, <2>4
<1>4. confirmed \subseteq confirmed' /\ confirmed' \subseteq DOMAIN interpretations
  BY <1>2, CurrentTypes DEF ChangeContext, ChangeSettings, Confirm, ReceiverTypeOK
<1>5. ReceiverTypeOK'
  BY <1>1, <1>2, <1>3, <1>4 DEF ReceiverTypeOK
<1>6. AnswersAreKept' /\ IntakesMatchAdmission' /\ IntakesHaveCommands'
  BY <1>1, AnswersStay
<1> QED BY <1>1, <1>4, <1>5, <1>6, OthersMove

\* An answer is taken in for the input of the case, which is that of its
\* command.
LEMMA IntakeStep ==
  ASSUME ReceiverInvariant, NEW c \in DOMAIN commands, IntakeAnalysis(c)
  PROVE  ReceiverInvariant'
<1> DEFINE new == [context |-> case.context, settings |-> case.settings, command |-> c]
<1>1. /\ commands[c].state = "RECEIVED" /\ commands[c].stage = Analysis
      /\ commands[c].input = case
      /\ Len(interpretations) < MaxInterpretations
      /\ interpretations' = Append(interpretations, new)
      /\ UNCHANGED <<receiver, issued, request, budget, completed, lock, case, confirmed,
                     commands, bytes, receipts>>
  BY DEF IntakeAnalysis, ArchivedContract, AdmittedInput, PreparedInput, AddInterpretation
<1>2. ReceiverTypeOK
  BY DEF ReceiverInvariant
<1>3. c \in 0 .. Cardinality(Keys) /\ c \in 0 .. Len(commands)
  BY <1>2, BoundTypes DEF ReceiverTypeOK
<1>4. new \in Interpretation
  BY <1>2, <1>3, CurrentTypes DEF Interpretation
<1>5. new.command = c /\ new.context = case.context /\ new.settings = case.settings
  OBVIOUS
<1> HIDE DEF new
<1>6. /\ interpretations' \in Seq(Interpretation)
      /\ Len(interpretations') <= MaxInterpretations
      /\ confirmed' \subseteq DOMAIN interpretations'
      /\ \A i \in DOMAIN interpretations : interpretations'[i] = interpretations[i]
      /\ AnswersAreKept' /\ IntakesMatchAdmission' /\ IntakesHaveCommands'
  BY <1>1, <1>3, <1>4, <1>5, InterpretationAdded
<1>7. ReceiverTypeOK'
  BY <1>1, <1>2, <1>6 DEF ReceiverTypeOK
<1> QED BY <1>1, <1>6, <1>7, OthersMove

\* What the budget is after its owner's request: the slot is used up, and
\* after an analysis the expected interpretation may be another.
LEMMA BudgetAdvances ==
  ASSUME ReceiverTypeOK, NEW r \in Requests, budget.owner = r, budget.cursor \in 1 .. 2,
         \E loaded \in BOOLEAN :
           FinishOperation(approved, r, request[r].stage, ReportState, loaded)
  PROVE  /\ budget' \in [closed: BOOLEAN, cursor: 1..3, owner: Requests \cup {NoRequest},
                         attempts: Seq(0..MaxAttempts), finished: SUBSET Requests,
                         expected: 0..MaxInterpretations]
         /\ budget'.cursor = budget.cursor + 1 /\ budget'.owner = NoRequest
         /\ budget'.attempts = budget.attempts /\ budget'.finished = budget.finished \cup {r}
         /\ budget'.expected = budget.expected \/ request[r].stage = Analysis
<1>0. PICK loaded \in BOOLEAN :
        FinishOperation(approved, r, request[r].stage, ReportState, loaded)
  OBVIOUS
<1> DEFINE stage == request[r].stage
           after == AfterAnalysis(approved, ReportState, loaded)
           left == IF stage = Analysis THEN after ELSE budget
           B == [closed: BOOLEAN, cursor: 1..3, owner: Requests \cup {NoRequest},
                 attempts: Seq(0..MaxAttempts), finished: SUBSET Requests,
                 expected: 0..MaxInterpretations]
<1>1. budget' = [left EXCEPT !.finished = @ \cup {r}, !.owner = NoRequest, !.cursor = @ + 1]
  BY <1>0 DEF FinishOperation
<1>2. budget \in B
  BY DEF ReceiverTypeOK
<1>3. /\ after \in B /\ after.cursor = budget.cursor /\ after.attempts = budget.attempts
      /\ after.finished = budget.finished
  <2> DEFINE closed == budget.closed \/ ~loaded
             expected == IF loaded /\ SameInput(approved, ReportState)
                         THEN ReportState.interpretation ELSE budget.expected
  <2>1. after = [budget EXCEPT !.closed = closed, !.expected = expected]
    BY <1>2 DEF AfterAnalysis
  <2>2. closed \in BOOLEAN /\ expected \in 0 .. MaxInterpretations
    BY CurrentTypes, BudgetTypes
  <2> HIDE DEF closed, expected, after
  <2> QED BY <1>2, <2>1, <2>2
<1>4. /\ left \in B /\ left.cursor = budget.cursor /\ left.attempts = budget.attempts
      /\ left.finished = budget.finished
      /\ left.expected = budget.expected \/ stage = Analysis
  <2> HIDE DEF after
  <2> QED BY <1>2, <1>3
<1> HIDE DEF left
<1>5. left.cursor + 1 \in 1 .. 3
  BY <1>4
<1>6. /\ budget'.closed = left.closed /\ budget'.cursor = left.cursor + 1
      /\ budget'.owner = NoRequest /\ budget'.attempts = left.attempts
      /\ budget'.finished = left.finished \cup {r} /\ budget'.expected = left.expected
      /\ budget' \in B
  BY <1>1, <1>4, <1>5
<1> QED BY <1>4, <1>6

\* A request that is over gives up its slot.  Only an analysis changes what
\* the designs of its approval are of, and before any of them claimed.
LEMMA FinishStep ==
  ASSUME ReceiverInvariant, NEW r \in Requests, NEW loaded \in BOOLEAN, Finish(r, loaded)
  PROVE  ReceiverInvariant'
<1>1. /\ receiver.phase \in {"SERVING", "STOPPING"}
      /\ request[r].authorization = receiver.authorization
      /\ FinishOperation(approved, r, request[r].stage, ReportState, loaded)
      /\ UNCHANGED <<receiver, issued, request, lock, case, interpretations, confirmed,
                     commands, bytes, receipts>>
  BY DEF Finish, databaseVars
<1>2. /\ ReceiverTypeOK /\ ApprovalsAreConsistent /\ CallsAreClaimed /\ BudgetCountsClaims
      /\ DesignsAreExpected
  BY DEF ReceiverInvariant
<1>3. completed' \subseteq Requests
  BY <1>1, <1>2 DEF FinishOperation, ReceiverTypeOK
<1>4. AnswersAreKept' /\ IntakesMatchAdmission' /\ IntakesHaveCommands'
  BY <1>1, AnswersStay
<1>5. CASE budget.owner # r
  <2>1. UNCHANGED budget
    BY <1>1, <1>5 DEF FinishOperation
  <2>2. ReceiverTypeOK'
    BY <1>1, <1>2, <1>3, <2>1 DEF ReceiverTypeOK
  <2> QED BY <1>1, <1>4, <2>1, <2>2, OthersMove
<1>6. CASE budget.owner = r
  <2> DEFINE c == budget.cursor
             slots == approved.slots
  <2>1. /\ receiver.authorization # NoAuthorization /\ receiver.authorization \in DOMAIN issued
        /\ slots \in Plans
    BY <1>1, InForce
  <2>2. /\ DOMAIN slots = 1 .. Len(slots) /\ Len(slots) \in {1, 2}
        /\ Len(slots) = 2 => slots[1].stage = Analysis /\ slots[2].stage = Design
    BY <2>1, PlanShape
  <2>3. r # NoRequest /\ c \in Nat /\ c # NoSlot
    BY <1>2, BudgetTypes, ReservationAssumption DEF NoSlot
  <2>4. request[r].slot = c
    BY <1>2, <1>6, <2>1, <2>3 DEF BudgetCountsClaims
  <2>5. c \in DOMAIN slots /\ request[r].stage = slots[c].stage /\ c \in 1 .. 2
    <3>1. c \in DOMAIN slots /\ request[r].stage = slots[c].stage
      BY <1>1, <1>2, <2>3, <2>4 DEF CallsAreClaimed, approved
    <3> QED BY <2>2, <3>1
  <2>6. /\ budget' \in [closed: BOOLEAN, cursor: 1..3, owner: Requests \cup {NoRequest},
                        attempts: Seq(0..MaxAttempts), finished: SUBSET Requests,
                        expected: 0..MaxInterpretations]
        /\ budget'.cursor = c + 1 /\ budget'.owner = NoRequest
        /\ budget'.attempts = budget.attempts /\ budget'.finished = budget.finished \cup {r}
        /\ budget'.expected = budget.expected \/ request[r].stage = Analysis
    <3>1. budget.cursor \in 1 .. 2
      BY <2>5
    <3>2. \E l \in BOOLEAN : FinishOperation(approved, r, request[r].stage, ReportState, l)
      BY <1>1
    <3> QED BY <1>2, <1>6, <3>1, <3>2, BudgetAdvances
  <2>7. request[r].stage = Analysis => c = 1 /\ slots[1].stage = Analysis
    <3>1. c = 1 \/ c = 2
      BY <2>5
    <3>2. c = 2 => Len(slots) = 2
      BY <2>2, <2>5
    <3>3. c = 2 => request[r].stage = Design
      BY <2>2, <2>5, <3>2
    <3>4. c = 1 => request[r].stage = slots[1].stage
      BY <2>5
    <3> QED BY <3>1, <3>3, <3>4, StagesDiffer
  <2>8. \A q \in Requests :
          request[q].authorization = receiver.authorization /\ request[q].slot # NoSlot =>
            /\ request[q].slot <= c /\ request[q].slot < c + 1
            /\ q \in budget.finished \cup {r}
    <3>1. \A q \in Requests : request[q] \in Handler
      BY <1>2 DEF ReceiverTypeOK
    <3>2. \A q \in Requests : request[q].slot \in Nat
      BY <3>1, HandlerFields
    <3> QED BY <1>2, <1>6, <2>1, <2>3, <3>2 DEF BudgetCountsClaims
  <2>9. approved' = approved
    BY <1>1 DEF approved
  <2>10. ReceiverTypeOK'
    BY <1>1, <1>2, <1>3, <2>6 DEF ReceiverTypeOK
  <2>11. approved.expected \in {NoInterpretation, budget'.expected}
    <3>1. CASE request[r].stage = Analysis
      BY <1>2, <2>1, <2>7, <3>1 DEF ApprovalsAreConsistent, approved
    <3>2. CASE request[r].stage # Analysis
      BY <1>2, <2>1, <2>6, <3>2 DEF BudgetCountsClaims
    <3> QED BY <3>1, <3>2
  <2>12. BudgetCountsClaims'
    <3>1. /\ DOMAIN budget'.attempts = DOMAIN slots
          /\ \A s \in DOMAIN slots : s > c => budget'.attempts[s] = 0
      BY <1>2, <2>1, <2>6 DEF BudgetCountsClaims
    <3>2. \A s \in DOMAIN slots : s > c + 1 => budget'.attempts[s] = 0
      BY <2>2, <2>3, <3>1
    <3>3. c + 1 \in DOMAIN slots => budget'.attempts[c + 1] = 0
      BY <2>3, <3>1
    <3> QED BY <1>1, <2>6, <2>8, <2>9, <2>11, <3>1, <3>2, <3>3 DEF BudgetCountsClaims
  <2>13. DesignsAreExpected'
    <3>1. CASE request[r].stage = Analysis
      <4>1. \A q \in Requests :
              request[q].authorization = receiver.authorization /\ request[q].slot # NoSlot =>
                request[q].slot \in DOMAIN slots /\ request[q].stage = slots[request[q].slot].stage
        BY <1>2 DEF CallsAreClaimed, approved
      <4>2. \A s \in DOMAIN slots : s <= c => s = 1
        BY <2>2, <2>7, <3>1
      <4>3. \A q \in Requests :
              request[q].authorization = receiver.authorization /\ request[q].slot # NoSlot =>
                request[q].stage # Design
        BY <2>7, <2>8, <3>1, <4>1, <4>2, StagesDiffer
      <4> QED BY <1>1, <4>3 DEF DesignsAreExpected
    <3>2. CASE request[r].stage # Analysis
      BY <1>1, <1>2, <2>6, <2>9, <3>2 DEF DesignsAreExpected
    <3> QED BY <3>1, <3>2
  <2>14. (ProcessIsAuthorized /\ ApprovalsAreConsistent)'
    BY <1>1, <2>9 DEF ReceiverInvariant, ProcessIsAuthorized, ApprovalsAreConsistent,
                      FactoryAccepts
  <2>15. RequestsAreAuthorized'
    BY <1>1 DEF ReceiverInvariant, RequestsAreAuthorized, InFlight
  <2>16. CallsAreClaimed' /\ SlotsAreOwned' /\ CommandsHaveRequests'
    BY <1>1, RequestsStay
  <2> QED
    BY <1>4, <2>10, <2>12, <2>13, <2>14, <2>15, <2>16 DEF ReceiverInvariant
<1> QED BY <1>5, <1>6

-----------------------------------------------------------------------------
(* The receiver.                                                            *)

\* Every step keeps the invariant.
LEMMA ReceiverStep ==
  ASSUME ReceiverInvariant, [ReceiverNext]_receiverVars PROVE ReceiverInvariant'
<1>1. CASE \E kind \in Kind : Listen(kind)
  BY <1>1, ListenStep
<1>2. CASE \E slots \in Plans : Authorize(slots)
  BY <1>2, AuthorizeStep
<1>3. CASE \E a \in DOMAIN issued : AcceptApproval(a)
  BY <1>3, AcceptApprovalStep
<1>4. CASE AcceptAccount \/ AcceptToken \/ Revoke
  BY <1>4, HandshakeSteps
<1>5. CASE Stop
  BY <1>5, StopStep
<1>6. ASSUME NEW r \in Requests,
             \/ BeginAnalysis(r) \/ BeginDesign(r)
             \/ Claim(r) \/ TakeBearer(r) \/ Post(r) \/ Retry(r) \/ Fail(r)
             \/ StoreAnalysis(r) \/ StoreDesign(r)
             \/ \E loaded \in BOOLEAN : Finish(r, loaded)
             \/ \E key \in Keys : Replay(r, key) \/ Admit(r, key)
             \/ Preserve(r) \/ Record(r)
      PROVE  ReceiverInvariant'
  <2>1. CASE BeginAnalysis(r) \/ BeginDesign(r)
    BY <2>1, BeginSteps
  <2>2. CASE Claim(r)
    BY <2>2, ClaimStep
  <2>3. CASE TakeBearer(r) \/ Retry(r) \/ StoreDesign(r)
    BY <2>3, PhaseSteps
  <2>4. CASE Post(r)
    BY <2>4, PostStep
  <2>5. CASE Fail(r)
    BY <2>5, FailStep
  <2>6. CASE StoreAnalysis(r)
    BY <2>6, StoreAnalysisStep
  <2>7. CASE \E loaded \in BOOLEAN : Finish(r, loaded)
    BY <2>7, FinishStep
  <2>8. ASSUME NEW key \in Keys, Replay(r, key) \/ Admit(r, key)
        PROVE  ReceiverInvariant'
    BY <2>8, ReplayStep, AdmitStep
  <2>9. CASE Preserve(r)
    BY <2>9, PreserveStep
  <2>10. CASE Record(r)
    BY <2>10, RecordStep
  <2> QED
    BY <1>6, <2>1, <2>2, <2>3, <2>4, <2>5, <2>6, <2>7, <2>8, <2>9, <2>10
<1>7. CASE \E c \in DOMAIN commands : IntakeAnalysis(c)
  BY <1>7, IntakeStep
<1>8. CASE ChangeContext \/ ChangeSettings \/ Confirm
  BY <1>8, CaseSteps
<1>9. CASE UNCHANGED receiverVars
  <2>1. UNCHANGED <<receiver, issued, request, budget, completed, lock, case,
                    interpretations, confirmed, commands, bytes, receipts>>
    BY <1>9 DEF receiverVars, databaseVars
  <2>2. ReceiverTypeOK'
    BY <2>1 DEF ReceiverInvariant, ReceiverTypeOK
  <2>3. AnswersAreKept' /\ IntakesMatchAdmission' /\ IntakesHaveCommands'
    BY <2>1, AnswersStay
  <2> QED BY <2>1, <2>2, <2>3, OthersMove
<1> QED BY <1>1, <1>2, <1>3, <1>4, <1>5, <1>6, <1>7, <1>8, <1>9 DEF ReceiverNext

\* What the process, its budget, its handlers and the tables say of one
\* another holds in every state of the receiver.
THEOREM ReceiverInvariantHolds == ReceiverSpec => []ReceiverInvariant
BY ReceiverStart, ReceiverStep, PTL DEF ReceiverSpec

\* The tables, the budget and the handlers keep their types and bounds, and
\* no two commands have one key.
THEOREM ReceiverTypeCorrect == ReceiverSpec => []ReceiverTypeOK
<1>1. ReceiverInvariant => ReceiverTypeOK
  BY DEF ReceiverInvariant
<1> QED BY <1>1, ReceiverInvariantHolds, PTL

\* The calls that are paid for are those the owner approved.
THEOREM OnlyApprovedCalls == ReceiverSpec => []CallsAreApproved
<1>1. ASSUME ReceiverInvariant PROVE CallsAreApproved
  <2>1. ReceiverTypeOK /\ CallsAreClaimed /\ SlotsAreOwned
    BY <1>1 DEF ReceiverInvariant
  <2> SUFFICES ASSUME NEW a \in DOMAIN issued, NEW s \in DOMAIN issued[a].slots
               PROVE  /\ \A r, q \in PaidRequests(a, s) : r = q
                      /\ \A r \in PaidRequests(a, s) :
                           /\ request[r].sent <= issued[a].slots[s].attempts
                           /\ request[r].stage = issued[a].slots[s].stage
    BY DEF CallsAreApproved
  <2>2. issued[a].slots \in Plans
    BY <2>1, ApprovalTypes
  <2>3. s # NoSlot /\ issued[a].slots[s].attempts \in Nat
    BY <2>2, PlanShape, BoundTypes DEF NoSlot
  <2>4. \A r, q \in PaidRequests(a, s) : r = q
    BY <2>1, <2>3 DEF PaidRequests, SlotsAreOwned
  <2>5. ASSUME NEW r \in PaidRequests(a, s)
        PROVE  /\ request[r].sent <= issued[a].slots[s].attempts
               /\ request[r].stage = issued[a].slots[s].stage
    <3>1. r \in Requests /\ request[r].authorization = a /\ request[r].slot = s
      BY DEF PaidRequests
    <3>2. request[r] \in Handler
      BY <2>1, <3>1 DEF ReceiverTypeOK
    <3>3. request[r].sent \in Nat /\ request[r].claims \in Nat
      BY <3>2, HandlerFields
    <3>4. /\ request[r].sent <= request[r].claims
          /\ request[r].claims <= issued[a].slots[s].attempts
          /\ request[r].stage = issued[a].slots[s].stage
      BY <2>1, <2>3, <3>1 DEF CallsAreClaimed
    <3> QED BY <2>3, <3>3, <3>4
  <2> QED BY <2>4, <2>5
<1> QED BY <1>1, ReceiverInvariantHolds, PTL

\* A native command is sent at most once, and by one request.
THEOREM CommandsSentOnce == ReceiverSpec => []CommandsAreSentOnce
<1>1. ASSUME ReceiverInvariant PROVE CommandsAreSentOnce
  <2>1. ReceiverTypeOK /\ CallsAreClaimed /\ CommandsHaveRequests
    BY <1>1 DEF ReceiverInvariant
  <2>2. ASSUME NEW r \in Requests, Native(r) PROVE request[r].sent <= 1
    <3> DEFINE slots == issued[request[r].authorization].slots
    <3>1. request[r].authorization \in DOMAIN issued
      BY <1>1, <2>2, BegunIsApproved
    <3>2. slots \in Plans
      BY <2>1, <3>1, ApprovalTypes
    <3>3. Len(slots) = 1 /\ slots[1].attempts = 1
      BY <2>1, <2>2 DEF CommandsHaveRequests
    <3>4. \A s \in DOMAIN slots : slots[s].attempts = 1
      BY <3>2, <3>3, PlanShape
    <3>5. request[r] \in Handler
      BY <2>1 DEF ReceiverTypeOK
    <3>6. request[r].sent \in Nat /\ request[r].claims \in Nat
      BY <3>5, HandlerFields
    <3>7. request[r].sent <= request[r].claims
      BY <2>1 DEF CallsAreClaimed
    <3>8. request[r].claims = 0 \/ request[r].claims <= 1
      <4>1. request[r].slot # NoSlot =>
              /\ request[r].slot \in DOMAIN slots
              /\ request[r].claims <= slots[request[r].slot].attempts
        BY <2>1 DEF CallsAreClaimed
      <4>2. request[r].slot = NoSlot => request[r].claims = 0
        BY <2>1 DEF CallsAreClaimed
      <4> QED BY <3>4, <4>1, <4>2
    <3> QED BY <3>6, <3>7, <3>8
  <2>3. \A r, q \in Requests : Native(r) /\ request[r].command = request[q].command => r = q
    BY <2>1 DEF CommandsHaveRequests
  <2> QED BY <2>2, <2>3 DEF CommandsAreSentOnce
<1> QED BY <1>1, ReceiverInvariantHolds, PTL

\* A recorded answer has a receipt, and a receipt its bytes.
THEOREM ReceivedAnswersAreKept == ReceiverSpec => []AnswersAreKept
<1>1. ReceiverInvariant => AnswersAreKept
  BY DEF ReceiverInvariant
<1> QED BY <1>1, ReceiverInvariantHolds, PTL

\* An answer is taken in for the context and the settings it was asked for.
THEOREM IntakesAreAdmitted == ReceiverSpec => []IntakesMatchAdmission
<1>1. ReceiverInvariant => IntakesMatchAdmission
  BY DEF ReceiverInvariant
<1> QED BY <1>1, ReceiverInvariantHolds, PTL

\* A design is paid for only after its interpretation was confirmed.
THEOREM DesignsAreConfirmed == ReceiverSpec => []DesignsFollowTheirAnalysis
<1>1. ASSUME ReceiverInvariant PROVE DesignsFollowTheirAnalysis
  <2>1. ReceiverTypeOK /\ CallsAreClaimed /\ BudgetCountsClaims /\ DesignsAreExpected
    BY <1>1 DEF ReceiverInvariant
  <2> SUFFICES ASSUME NEW r \in Requests, request[r].stage = Design, request[r].sent > 0,
                      request[r].authorization = receiver.authorization
               PROVE  /\ budget.expected \in confirmed
                      /\ interpretations[budget.expected].context = approved.context
                      /\ approved.expected \in {NoInterpretation, budget.expected}
    BY DEF DesignsFollowTheirAnalysis
  <2>2. request[r] \in Handler
    BY <2>1 DEF ReceiverTypeOK
  <2>3. request[r].sent \in Nat /\ request[r].sent <= request[r].claims
    BY <2>1, <2>2, HandlerFields DEF CallsAreClaimed
  <2>4. request[r].slot # NoSlot
    BY <2>1, <2>3 DEF CallsAreClaimed
  <2>5. receiver.authorization # NoAuthorization
    BY <1>1, <2>4, BegunIsApproved
  <2> QED BY <2>1, <2>4, <2>5 DEF BudgetCountsClaims, DesignsAreExpected
<1> QED BY <1>1, ReceiverInvariantHolds, PTL

\* What a command was admitted for never changes, and what became of it is
\* recorded once: no later request, no later process and no lost answer
\* changes what its key is answered with.
CommandsSettleOnce ==
    [][\A c \in DOMAIN commands :
         /\ c \in DOMAIN commands'
         /\ commands'[c].key = commands[c].key /\ commands'[c].stage = commands[c].stage
         /\ commands'[c].input = commands[c].input
         /\ commands[c].state # "ADMITTED" => commands'[c] = commands[c]]_receiverVars

\* No step changes a command that is settled.
THEOREM CommandsSettle == ReceiverSpec => CommandsSettleOnce
<1> DEFINE Settled ==
      \A c \in DOMAIN commands :
        /\ c \in DOMAIN commands'
        /\ commands'[c].key = commands[c].key /\ commands'[c].stage = commands[c].stage
        /\ commands'[c].input = commands[c].input
        /\ commands[c].state # "ADMITTED" => commands'[c] = commands[c]
<1>1. ASSUME ReceiverInvariant, ReceiverNext PROVE Settled
  <2>1. /\ commands \in Seq(Command) /\ DOMAIN commands = 1 .. Len(commands)
        /\ Len(commands) \in Nat
    BY <1>1 DEF ReceiverInvariant, ReceiverTypeOK
  <2>2. ASSUME NEW d \in DOMAIN commands, NEW state, commands[d].state = "ADMITTED",
               commands' = [commands EXCEPT ![d].state = state]
        PROVE  Settled
    <3>1. \A c \in DOMAIN commands : commands[c] \in Command
      BY <2>1
    <3>2. commands' = [c \in DOMAIN commands |->
                         IF c = d THEN [commands[d] EXCEPT !.state = state] ELSE commands[c]]
      BY <2>1, <2>2
    <3> QED BY <2>2, <3>1, <3>2 DEF Command
  <2>3. CASE UNCHANGED commands
    BY <2>3
  <2>4. ASSUME NEW r \in Requests, Fail(r), ~UNCHANGED commands PROVE Settled
    <3>1. /\ Native(r) /\ InFlight(r)
          /\ commands' = [commands EXCEPT ![request[r].command].state = "UNCERTAIN"]
      BY <2>4 DEF Fail
    <3> QED BY <1>1, <2>2, <3>1, CommandAdmitted
  <2>5. ASSUME NEW r \in Requests, Record(r) PROVE Settled
    <3>1. /\ request[r].phase = "RECORDING"
          /\ commands' = [commands EXCEPT ![request[r].command].state = request[r].outcome]
      BY <2>5 DEF Record, Move
    <3>2. Native(r) /\ InFlight(r)
      BY <1>1, <3>1 DEF ReceiverInvariant, CommandsHaveRequests, InFlight, HandlerPhase
    <3> QED BY <1>1, <2>2, <3>1, <3>2, CommandAdmitted
  <2>6. ASSUME NEW r \in Requests, NEW key \in Keys, Admit(r, key) PROVE Settled
    <3> DEFINE new == [key |-> key, stage |-> approved.slots[1].stage, input |-> PreparedInput,
                       state |-> "ADMITTED"]
    <3>1. commands' = Append(commands, new)
      BY <2>6 DEF Admit
    <3> HIDE DEF new
    <3>2. \A c \in DOMAIN commands : c \in DOMAIN commands' /\ commands'[c] = commands[c]
      BY <2>1, <3>1
    <3> QED BY <3>2
  <2>7. \/ UNCHANGED commands
        \/ \E r \in Requests : \/ Fail(r) /\ ~UNCHANGED commands
                               \/ Record(r)
                               \/ \E key \in Keys : Admit(r, key)
    <3>1. CASE \E r \in Requests :
                 \/ BeginAnalysis(r) \/ BeginDesign(r)
                 \/ Claim(r) \/ TakeBearer(r) \/ Post(r) \/ Retry(r)
                 \/ StoreAnalysis(r) \/ StoreDesign(r)
                 \/ \E loaded \in BOOLEAN : Finish(r, loaded)
                 \/ \E key \in Keys : Replay(r, key)
                 \/ Preserve(r)
      BY <3>1 DEF BeginAnalysis, BeginDesign, Claim, TakeBearer, Post, Retry, StoreAnalysis,
                  StoreDesign, Finish, Replay, Preserve, databaseVars
    <3>2. CASE \/ \E kind \in Kind : Listen(kind)
               \/ \E slots \in Plans : Authorize(slots)
               \/ \E a \in DOMAIN issued : AcceptApproval(a)
               \/ AcceptAccount \/ AcceptToken \/ Revoke \/ Stop
               \/ \E c \in DOMAIN commands : IntakeAnalysis(c)
               \/ ChangeContext \/ ChangeSettings \/ Confirm
      BY <3>2 DEF Listen, Authorize, AcceptApproval, AcceptAccount, AcceptToken, Revoke, Stop,
                  IntakeAnalysis, ChangeContext, ChangeSettings, Confirm, databaseVars
    <3>3. CASE \E r \in Requests : Fail(r) \/ Record(r) \/ \E key \in Keys : Admit(r, key)
      BY <3>3
    <3> QED BY <1>1, <3>1, <3>2, <3>3 DEF ReceiverNext
  <2> HIDE DEF Settled
  <2> QED BY <2>3, <2>4, <2>5, <2>6, <2>7
<1>2. ASSUME UNCHANGED receiverVars PROVE UNCHANGED commands
  BY <1>2 DEF receiverVars, databaseVars
<1> QED BY <1>1, <1>2, ReceiverInvariantHolds, PTL DEF ReceiverSpec, CommandsSettleOnce
=============================================================================
