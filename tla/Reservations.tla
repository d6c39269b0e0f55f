---------------------------- MODULE Reservations ----------------------------
(***************************************************************************)
(* The budget of one receiver: an approval of the owner names the stages   *)
(* that may be paid for and how many provider calls each may make.  The    *)
(* class Reservations keeps it in memory, under a lock of its own, so that *)
(* each of its methods is one step.  A request is an operation; it claims  *)
(* a call before it is given a bearer, and finishes when the request ends. *)
(* Nothing is refunded.  The clock, the month and the deadline belong to   *)
(* the lease of the receiver: see Receiver.                                *)
(***************************************************************************)
EXTENDS Naturals, Sequences, FiniteSets

CONSTANTS
    Requests,    \* requests of the owner's client, the nonces of operations
    NoRequest,   \* no operation owns the current slot
    MaxAttempts  \* min(max_calls_per_operation, retry_limit + 1)

ASSUME ReservationAssumption ==
    /\ NoRequest \notin Requests
    /\ MaxAttempts \in Nat \ {0}

VARIABLES
    budget,   \* the fields of the Reservations object
    completed \* operations that are over

Analysis == "REQUIREMENT_ANALYSIS"
Design == "REPORT_DESIGN"
Stage == {Analysis, Design}
Slot == [stage: Stage, attempts: 1..MaxAttempts]
NoInterpretation == 0

\* The stages an approval may name, each with its calls.
SlotSequences ==
    {<<[stage |-> s, attempts |-> n]>> : s \in Stage, n \in 1..MaxAttempts} \cup
    {<<[stage |-> Analysis, attempts |-> m], [stage |-> Design, attempts |-> n]>> :
        m \in 1..MaxAttempts, n \in 1..MaxAttempts}

FreshBudget(approval) ==
    [closed |-> FALSE, cursor |-> 1, owner |-> NoRequest,
     attempts |-> [s \in DOMAIN approval.slots |-> 0],
     finished |-> {}, expected |-> approval.expected]

SameInput(approval, state) ==
    state.context = approval.context /\ state.settings = approval.settings

Connected(approval, state) == ~budget.closed /\ SameInput(approval, state)

SlotsLeft(approval) == budget.cursor <= Len(approval.slots)

-----------------------------------------------------------------------------
(* Wrong variants of the definitions below, each the effect of a plausible  *)
(* mistake in the code; no specification uses them.                         *)

\* Any operation may claim the calls that are left of the slot.
AnyoneMayOwn(r) == r \in Requests

\* A design may be of whatever interpretation is confirmed now.
ExpectsConfirmed(state) == state.interpretation # NoInterpretation /\ state.confirmed

-----------------------------------------------------------------------------
(* Reservations.claim                                                       *)

MayOwn(r) == budget.owner \in {NoRequest, r}

\* An analysis is paid for once; a design is of the expected interpretation,
\* after the user has confirmed it.
ExpectsAnalysis(state) == state.interpretation = NoInterpretation
ExpectsDesign(state) ==
    /\ budget.expected # NoInterpretation
    /\ state.interpretation = budget.expected
    /\ state.confirmed

MayClaim(approval, r, stage, state) ==
    /\ Connected(approval, state) /\ SlotsLeft(approval)
    /\ r \notin completed /\ r \notin budget.finished
    /\ stage = approval.slots[budget.cursor].stage
    /\ IF stage = Analysis THEN ExpectsAnalysis(state) ELSE ExpectsDesign(state)
    /\ MayOwn(r)
    /\ budget.attempts[budget.cursor] < approval.slots[budget.cursor].attempts

ClaimCall(r) ==
    budget' = [budget EXCEPT !.owner = r, !.attempts[budget.cursor] = @ + 1]

-----------------------------------------------------------------------------
(* Reservations.finish and close                                            *)

\* What an analysis leaves is what its design will be of.  When the state
\* cannot be loaded the receiver is closed.
AfterAnalysis(approval, state, loaded) ==
    [budget EXCEPT
        !.closed = @ \/ ~loaded,
        !.expected = IF loaded /\ SameInput(approval, state) THEN state.interpretation ELSE @]

FinishOperation(approval, r, stage, state, loaded) ==
    LET left == IF stage = Analysis THEN AfterAnalysis(approval, state, loaded) ELSE budget
    IN  /\ completed' = completed \cup {r}
        /\ budget' = IF budget.owner = r
                     THEN [left EXCEPT !.finished = @ \cup {r}, !.owner = NoRequest,
                                       !.cursor = @ + 1]
                     ELSE budget

CloseBudget == budget' = [budget EXCEPT !.closed = TRUE]
=============================================================================
