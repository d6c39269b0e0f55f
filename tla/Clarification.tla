---------------------------- MODULE Clarification ----------------------------
(***************************************************************************)
(* The conversation of a case and its clarification budget.  The model may *)
(* ask questions with an interpretation; each such round is charged to the *)
(* current clarification cycle, and the settings limit the rounds of one   *)
(* cycle and of all of them.  An answer must be to the interpretation of   *)
(* the current context; a refinement opens a new cycle.                    *)
(*                                                                         *)
(* The handlers are those of ReportingCase, with what they write beside    *)
(* the case.                                                               *)
(***************************************************************************)
EXTENDS ReportingCase, SequencesExt

CONSTANTS
    EventCommands,  \* command keys of conversation events, each of one member
    CycleCommands,  \* command keys of refinements, each of one member
    Limits          \* clarification limits of each settings version

ASSUME ClarificationAssumption ==
    Limits \in [SettingsVersions ->
                  [cycle: Nat \ {0}, overall: Nat \ {0}, enabled: BOOLEAN]]

VARIABLES
    events,   \* case_conversation_events rows, by sequence
    cycles,   \* case_clarification_cycles rows, by cycle_number
    asked,    \* the interpretations that came with questions
    refused   \* refinement commands ended by an integrity error

clarificationVars == <<events, cycles, asked, refused>>
allClarificationVars == <<allCaseVars, clarificationVars>>

\* The kinds that ck_conversation_event_kind admits and a handler writes.
\* USER_MESSAGE stands for CORRECTION too, which differs in nothing here.
EventKind == {"USER_MESSAGE", "RAW_ANSWER", "ALTERNATIVE_ACCEPTED", "ALTERNATIVE_DECLINED"}
Decision == {"FREE_TEXT", "ACCEPT", "DECLINE"}

\* command: the key of the client, "refine" for the text of a refinement.
\* about: the interpretation that an answer is to, 0 for a message.
Event == [kind: EventKind, command: EventCommands \cup {"refine"}, about: Contexts \cup {0}]

\* rounds: rounds_used.  command: "initial" for the cycle the first analysis opens.
Cycle == [rounds: Nat, settings: SettingsVersions, command: CycleCommands \cup {"initial"}]

\* The one record of an event, and of a cycle.
Said(kind, k, about) == [kind |-> kind, command |-> k, about |-> about]
NewCycle(s, k) == [rounds |-> 0, settings |-> s, command |-> k]

ClarificationTypeOK ==
    /\ events \in Seq(Event)
    /\ cycles \in Seq(Cycle)
    /\ asked \subseteq Contexts
    /\ refused \subseteq CycleCommands

ClarificationInit ==
    /\ events = <<>>
    /\ cycles = <<>>
    /\ asked = {}
    /\ refused = {}

\* The rounds of the cycles, each one of its cycle; their number is the sum
\* of rounds_used.
Rounds(rows) == UNION {{c} \X (1 .. rows[c].rounds) : c \in DOMAIN rows}
RoundsOverall(rows) == Cardinality(Rounds(rows))

OverallReached(s) == RoundsOverall(cycles) >= Limits[s].overall

\* The last thing said in the case is an answer, with or without the
\* decision event recorded after it.
LastIsAnswer ==
    /\ events # <<>>
    /\ \/ Last(events).kind = "RAW_ANSWER"
       \/ /\ Last(events).kind \in {"ALTERNATIVE_ACCEPTED", "ALTERNATIVE_DECLINED"}
          /\ Len(events) >= 2
          /\ events[Len(events) - 1].kind = "RAW_ANSWER"

FreshEvent(k) == \A e \in 1 .. Len(events) : events[e].command # k
FreshCycle(k) == \A c \in 1 .. Len(cycles) : cycles[c].command # k

\* The cycles an analysis works on: the first analysis opens one.
Opened(s) ==
    IF cycles = <<>> THEN <<NewCycle(s, "initial")>>
    ELSE cycles

\* The events of one answer: a choice offered with the question is recorded
\* by a second event of the same command.
AnswerEvents(k, decision) ==
    LET said(kind) == Said(kind, k, latest) IN
    CASE decision = "FREE_TEXT" -> <<said("RAW_ANSWER")>>
      [] decision = "ACCEPT"    -> <<said("RAW_ANSWER"), said("ALTERNATIVE_ACCEPTED")>>
      [] decision = "DECLINE"   -> <<said("RAW_ANSWER"), said("ALTERNATIVE_DECLINED")>>

\* The kind of the event that opens a cycle.
OpeningKind(text) == IF text THEN "USER_MESSAGE" ELSE "CLARIFICATION_CYCLE_STARTED"

MayRefine(k, s) ==
    /\ FreshCycle(k)
    /\ Snapshot(s)
    /\ Limits[s].enabled
    /\ ~OverallReached(s)

-----------------------------------------------------------------------------
(* Wrong variants of the handlers below; no specification uses them.        *)

\* An answer to the last interpretation, though the case has moved on.
AnswerStaleQuestion(k, decision) ==
    /\ AddContext
    /\ FreshEvent(k)
    /\ latest \in asked
    /\ events' = events \o AnswerEvents(k, decision)
    /\ UNCHANGED <<cycles, asked, refused>>

\* The charge goes to a refreshed copy of the cycle and is lost.
AnalyseUncharged(s, ready, asks) ==
    /\ CreateInterpretation(s, ready)
    /\ OverallReached(s) => LastIsAnswer
    /\ cycles' = Opened(s)
    /\ asked' = IF asks THEN asked \cup {context} ELSE asked
    /\ UNCHANGED <<events, refused>>

\* The table has no constraint on the kind of an event.
StartUnconstrained(k, s, text) ==
    /\ AddContext
    /\ MayRefine(k, s)
    /\ cycles' = Append(cycles, NewCycle(s, k))
    /\ events' = Append(events, Said(OpeningKind(text), "refine", 0))
    /\ UNCHANGED <<asked, refused>>

-----------------------------------------------------------------------------
\* append_event of a message.  A command key that was used is answered with
\* its event, or refused, and adds nothing.
AppendMessage(k) ==
    /\ AddContext
    /\ FreshEvent(k)
    /\ events' = Append(events, Said("USER_MESSAGE", k, 0))
    /\ UNCHANGED <<cycles, asked, refused>>

\* append_event of an answer: only to a question of the interpretation made
\* last, and only while that is about the current context.
AnswerQuestion(k, decision) ==
    /\ AddContext
    /\ FreshEvent(k)
    /\ latest = context
    /\ latest \in asked
    /\ events' = events \o AnswerEvents(k, decision)
    /\ UNCHANGED <<cycles, asked, refused>>

\* create_interpretation: past the overall limit only the answer to a
\* question already asked is analysed, and the model may ask nothing more.
AnalyseRequirements(s, ready, asks) ==
    LET open == Opened(s)
        now == Len(open) IN
    /\ CreateInterpretation(s, ready)
    /\ OverallReached(s) => LastIsAnswer
    /\ asks => open[now].rounds < Limits[s].cycle /\ ~OverallReached(s)
    /\ cycles' = IF asks THEN [open EXCEPT ![now].rounds = @ + 1] ELSE open
    /\ asked' = IF asks THEN asked \cup {context} ELSE asked
    /\ UNCHANGED <<events, refused>>

\* start_refinement_cycle, with or without a text.  A command key that was
\* used is answered with the state of the clarification and changes nothing.
StartRefinementCycle(k, s, text) ==
    /\ AddContext
    /\ MayRefine(k, s)
    /\ OpeningKind(text) \in EventKind
    /\ cycles' = Append(cycles, NewCycle(s, k))
    /\ events' = Append(events, Said(OpeningKind(text), "refine", 0))
    /\ UNCHANGED <<asked, refused>>

\* The schema refuses the opening event and the transaction is rolled back.
RefinementRefused(k, s, text) ==
    /\ MayEdit
    /\ MayRefine(k, s)
    /\ OpeningKind(text) \notin EventKind
    /\ refused' = refused \cup {k}
    /\ UNCHANGED <<allCaseVars, events, cycles, asked>>

\* What else happens to the case.  Grants and memberships only decide who is
\* admitted, which ReportingCase is about.
OtherCaseStep ==
    \/ UpdateRequest
    \/ \E item \in Items : AddEvidence(item)
    \/ \E s \in SettingsVersions : ConfirmInterpretation(s)
    \/ \E m \in Members : Admit(m)
    \/ \E m \in Members, level \in EditLevel : Leave(m, level)
    \/ ChangeSettings

ConversationHandlers ==
    \/ \E k \in EventCommands : AppendMessage(k)
    \/ \E k \in EventCommands, decision \in Decision : AnswerQuestion(k, decision)

RefinementHandlers ==
    \E k \in CycleCommands, s \in SettingsVersions, text \in BOOLEAN :
      \/ StartRefinementCycle(k, s, text)
      \/ RefinementRefused(k, s, text)

ClarificationNext ==
    \/ OtherCaseStep /\ UNCHANGED clarificationVars
    \/ ConversationHandlers
    \/ \E s \in SettingsVersions, ready, asks \in BOOLEAN :
         AnalyseRequirements(s, ready, asks)
    \/ RefinementHandlers

ClarificationSpec ==
    CaseInit /\ ClarificationInit /\ [][ClarificationNext]_allClarificationVars
-----------------------------------------------------------------------------
(***************************************************************************)
(* Every round of questions is charged exactly once, to one cycle, whatever *)
(* is repeated, refused or refined in between: the counters are those of   *)
(* the interpretations that asked.  And no cycle and no case uses more     *)
(* rounds than some settings version that was in force allows, even if a   *)
(* request works with settings replaced while it waited for the case.      *)
(***************************************************************************)
RoundsAreCharged ==
    /\ RoundsOverall(cycles) = Cardinality(asked)
    /\ \E s \in 1 .. settings : RoundsOverall(cycles) <= Limits[s].overall
    /\ \A c \in 1 .. Len(cycles) :
         \E s \in 1 .. settings : cycles[c].rounds <= Limits[s].cycle

(***************************************************************************)
(* Each answer is to an interpretation that asked something, no            *)
(* interpretation is answered twice, by anyone, and the answers stand in   *)
(* the order of the interpretations they are to.                           *)
(***************************************************************************)
AnswersMeetTheirQuestions ==
    LET answers == {e \in 1 .. Len(events) : events[e].kind = "RAW_ANSWER"} IN
    \A e \in answers :
      /\ events[e].about \in asked
      /\ \A f \in answers : e < f => events[e].about < events[f].about
=============================================================================
