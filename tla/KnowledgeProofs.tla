--------------------------- MODULE KnowledgeProofs ---------------------------
(***************************************************************************)
(* Proofs that the journal of a document can always be replayed, and that  *)
(* a command is written to the provider again only after a failure was     *)
(* observed, for any number of commands, dispatches and calls.             *)
(***************************************************************************)
EXTENDS KnowledgeDispatch, FiniteSetTheorems, TLAPS

Writes(journal, n) == {b \in 1..n : journal[b].kind # "ARCHIVE"}

\* There is a revision for every command but the archives.
RevisionsAreCounted == Len(revisions) = Cardinality(Writes(commands, Len(commands)))

\* A call that waits for the provider has no receipt.
WorkingIsPending ==
    \A d \in 1..MaxDispatches, n \in 1..MaxCalls : <<d, n>> \in working =>
        n \in DOMAIN calls[d] /\ calls[d][n].receipt = Pending

\* A dispatch that is being claimed is the last of its command, and unsent.
ClaimIsOfTheLast ==
    claim # NoClaim =>
        claim \in Seen /\ calls[claim] = <<>> /\ \A e \in SameCommand(claim) : e <= claim

\* A dispatch that was replaced was never sent, or refused by the provider.
ReplacedHaveFailed ==
    \A d, e \in Seen :
        d < e /\ dispatches[d].command = dispatches[e].command /\ calls[d] # <<>> =>
            \E n \in DOMAIN calls[d] : calls[d][n].receipt = "FAILED"

JournalInvariant == RevisionsAreCounted /\ JournalIsReplayable

DispatchInvariant ==
    /\ \A d \in (1..MaxDispatches) \ Seen : calls[d] = <<>>
    /\ WorkingIsPending
    /\ ClaimIsOfTheLast
    /\ ReplacedHaveFailed

KnowledgeInvariant ==
    /\ KnowledgeTypeOK
    /\ JournalInvariant
    /\ DispatchInvariant

LEMMA KnowledgeStart == KnowledgeInit => KnowledgeInvariant
<1> SUFFICES ASSUME KnowledgeInit PROVE KnowledgeInvariant
  OBVIOUS
<1> USE KnowledgeAssumption DEF KnowledgeInit
<1>1. KnowledgeTypeOK
  BY DEF KnowledgeTypeOK, Revision
<1>2. RevisionsAreCounted
  <2>1. Writes(commands, Len(commands)) = {}
    BY DEF Writes
  <2> QED BY <2>1, FS_EmptySet DEF RevisionsAreCounted
<1>3. JournalIsReplayable
  BY DEF JournalIsReplayable
<1>4. WorkingIsPending /\ ClaimIsOfTheLast /\ ReplacedHaveFailed
  BY DEF WorkingIsPending, ClaimIsOfTheLast, ReplacedHaveFailed, Seen, NoClaim
<1>5. \A d \in (1..MaxDispatches) \ Seen : calls[d] = <<>>
  OBVIOUS
<1> QED BY <1>1, <1>2, <1>3, <1>4, <1>5
        DEF KnowledgeInvariant, JournalInvariant, DispatchInvariant

-----------------------------------------------------------------------------
(* The journal.                                                             *)

\* The types of the journal, as the handlers read it.
LEMMA JournalTypes ==
  ASSUME KnowledgeTypeOK
  PROVE  /\ commands \in Seq(Command) /\ Len(commands) \in 0..MaxCommands
         /\ revisions \in Seq(Revision) /\ Len(revisions) \in 0..Len(commands)
         /\ document.revision \in 0..Len(revisions)
         /\ document.operation \in 0..Len(commands)
         /\ \A c \in DOMAIN commands : commands[c] \in Command /\ c \in 1..Len(commands)
<1>1. commands \in Seq(Command) /\ revisions \in Seq(Revision)
  BY DEF KnowledgeTypeOK
<1>2. Len(commands) \in 0..MaxCommands /\ Len(revisions) \in 0..Len(commands)
  BY <1>1, KnowledgeAssumption DEF KnowledgeTypeOK
<1> QED BY <1>1, <1>2 DEF KnowledgeTypeOK

LEMMA WritesFinite ==
  ASSUME NEW journal, NEW n \in Nat
  PROVE  IsFiniteSet(Writes(journal, n)) /\ Cardinality(Writes(journal, n)) \in Nat
<1>1. IsFiniteSet(1..n)
  BY FS_Interval
<1>2. IsFiniteSet(Writes(journal, n))
  BY <1>1, FS_Subset DEF Writes
<1> QED BY <1>2, FS_CardinalityType

LEMMA ApplyStep ==
  ASSUME KnowledgeTypeOK, JournalInvariant, NEW m \in Members, NEW kind \in Kind,
         NEW expected \in 0..Len(revisions), Apply(m, kind, expected)
  PROVE  /\ commands' \in Seq(Command) /\ Len(commands') <= MaxCommands
         /\ revisions' \in Seq(Revision) /\ Len(revisions') <= Len(commands')
         /\ document' \in [revision: 0..Len(revisions'), operation: 0..Len(commands')]
         /\ Len(commands') = Len(commands) + 1
         /\ \A c \in DOMAIN commands : commands'[c] = commands[c]
         /\ JournalInvariant'
<1> USE KnowledgeAssumption, JournalTypes
<1> DEFINE n == Len(commands) + 1
           target == IF kind = "ARCHIVE" THEN expected ELSE Len(revisions) + 1
           command == [kind |-> kind, target |-> target, expected |-> expected]
<1>1. /\ expected = document.revision /\ document.revision = Len(revisions)
      /\ kind = "ARCHIVE" => expected # 0
      /\ commands' = Append(commands, command)
      /\ n <= MaxCommands
  <2>1. /\ commands' = Append(commands, command) /\ Len(commands) < MaxCommands
        /\ ExpectsCurrent(Journal, command) /\ (kind = "CREATE" <=> expected = 0)
    BY DEF Apply, Admits, IsPayload
  <2>2. expected = document.revision
    BY <2>1 DEF ExpectsCurrent, Journal
  <2> QED BY <2>1, <2>2 DEF JournalInvariant, JournalIsReplayable, Kind
<1>2. command \in Command
  BY <1>1 DEF Command
<1>3. /\ commands' \in Seq(Command) /\ Len(commands') = n /\ n \in 1..MaxCommands
      /\ \A c \in DOMAIN commands : commands'[c] = commands[c]
      /\ commands'[n] = command /\ DOMAIN commands' = 1..n /\ DOMAIN commands = 1..(n - 1)
  BY <1>1, <1>2
<1> HIDE DEF command
<1>4. command.kind = kind /\ command.target = target /\ command.expected = expected
  BY DEF command
<1>5. IF kind = "ARCHIVE"
      THEN revisions' = revisions /\ document' = [revision |-> Len(revisions), operation |-> n]
      ELSE /\ revisions' = Append(revisions, expected)
           /\ document' = [revision |-> Len(revisions) + 1, operation |-> n]
  BY <1>1 DEF Apply, Begun, Journal
<1>6. /\ revisions' \in Seq(Revision) /\ Len(revisions') <= n
      /\ document'.revision = Len(revisions') /\ document'.operation = n
      /\ document' \in [revision: 0..Len(revisions'), operation: 0..n]
      /\ target = Len(revisions')
      /\ \A r \in DOMAIN revisions' : revisions'[r] = r - 1
  <2>1. CASE kind = "ARCHIVE"
    BY <1>1, <1>3, <1>5, <2>1 DEF JournalInvariant, JournalIsReplayable
  <2>2. CASE kind # "ARCHIVE"
    <3>1. expected \in Revision
      BY <1>1 DEF Revision
    <3>2. /\ revisions' \in Seq(Revision) /\ Len(revisions') = Len(revisions) + 1
          /\ \A r \in DOMAIN revisions : revisions'[r] = revisions[r]
          /\ revisions'[Len(revisions) + 1] = expected
          /\ DOMAIN revisions' = 1..(Len(revisions) + 1)
          /\ DOMAIN revisions = 1..Len(revisions)
      <4>1. revisions' = Append(revisions, expected)
        BY <1>5, <2>2
      <4> QED BY <3>1, <4>1
    <3>3. \A r \in DOMAIN revisions' : revisions'[r] = r - 1
      BY <1>1, <3>2 DEF JournalInvariant, JournalIsReplayable
    <3> QED BY <1>3, <1>5, <2>2, <3>2, <3>3
  <2> QED BY <2>1, <2>2
<1>7. \A k \in 0..(n - 1) : Writes(commands', k) = Writes(commands, k)
  BY <1>3 DEF Writes
<1>8. Cardinality(Writes(commands, n - 1)) = Len(revisions)
  BY DEF JournalInvariant, RevisionsAreCounted
<1>9. Cardinality(Writes(commands', n)) = Len(revisions')
  <2>1. CASE kind = "ARCHIVE"
    <3>1. Writes(commands', n) = Writes(commands', n - 1)
      BY <1>3, <1>4, <2>1 DEF Writes
    <3> QED BY SMTT(30), <1>3, <1>5, <1>7, <1>8, <2>1, <3>1
  <2>2. CASE kind # "ARCHIVE"
    <3>1. /\ Writes(commands', n) = Writes(commands', n - 1) \cup {n}
          /\ n \notin Writes(commands', n - 1)
      BY <1>3, <1>4, <2>2 DEF Writes
    <3>2. IsFiniteSet(Writes(commands', n - 1)) /\ Writes(commands', n - 1) = Writes(commands, n - 1)
      BY <1>3, <1>7, WritesFinite
    <3>3. \A S, x : IsFiniteSet(S) /\ x \notin S => Cardinality(S \cup {x}) = Cardinality(S) + 1
      BY FS_AddElement
    <3>4. Cardinality(Writes(commands', n)) = Cardinality(Writes(commands, n - 1)) + 1
      BY <3>1, <3>2, <3>3
    <3> QED BY <1>5, <1>8, <2>2, <3>4
  <2> QED BY <2>1, <2>2
<1>10. RevisionsAreCounted'
  BY <1>3, <1>9 DEF RevisionsAreCounted
<1>11. \A c \in DOMAIN commands' :
         commands'[c].expected = Cardinality({b \in 1..(c - 1) : commands'[b].kind # "ARCHIVE"})
  <2>1. ASSUME NEW c \in DOMAIN commands'
        PROVE  commands'[c].expected
                 = Cardinality({b \in 1..(c - 1) : commands'[b].kind # "ARCHIVE"})
    <3>1. {b \in 1..(c - 1) : commands'[b].kind # "ARCHIVE"} = Writes(commands', c - 1)
      BY <1>3, <2>1 DEF Writes
    <3>2. CASE c = n
      <4>1. n - 1 \in 0..(n - 1) /\ commands'[c].expected = Len(revisions)
        BY <1>1, <1>3, <1>4, <3>2
      <4> QED BY <1>7, <1>8, <3>1, <3>2, <4>1
    <3>3. CASE c # n
      <4>1. c \in DOMAIN commands /\ commands'[c] = commands[c] /\ c - 1 \in 0..(n - 1)
        BY <1>3, <2>1, <3>3
      <4>2. commands[c].expected = Cardinality(Writes(commands, c - 1))
        BY <4>1 DEF JournalInvariant, JournalIsReplayable, Writes
      <4> QED BY <1>7, <3>1, <4>1, <4>2
    <3> QED BY <3>2, <3>3
  <2> QED BY <2>1
<1>12. JournalIsReplayable'
  <2>1. n # 0 /\ commands'[n].target = Len(revisions') /\ (n + 1)..n = {}
    BY <1>3, <1>4, <1>6
  <2> QED BY <1>3, <1>6, <1>11, <2>1 DEF JournalIsReplayable
<1> QED BY <1>3, <1>6, <1>10, <1>12 DEF JournalInvariant

-----------------------------------------------------------------------------
(* The dispatches.                                                          *)

\* The types of the dispatches, as the handlers read them.
LEMMA DispatchTypes ==
  ASSUME KnowledgeTypeOK
  PROVE  /\ dispatches \in Seq(Dispatch) /\ Len(dispatches) \in 0..MaxDispatches
         /\ Seen = 1..Len(dispatches) /\ Seen \subseteq 1..MaxDispatches
         /\ \A d \in Seen : dispatches[d] \in Dispatch
         /\ \A d \in 1..MaxDispatches :
              /\ calls[d] \in Seq(Call) /\ DOMAIN calls[d] = 1..Len(calls[d])
              /\ Len(calls[d]) \in Nat
              /\ calls[d] # <<>> <=> Len(calls[d]) > 0
<1>1. dispatches \in Seq(Dispatch) /\ calls \in [1..MaxDispatches -> Seq(Call)]
  BY DEF KnowledgeTypeOK
<1>2. Len(dispatches) \in 0..MaxDispatches
  BY <1>1, KnowledgeAssumption DEF KnowledgeTypeOK
<1>3. Seen = 1..Len(dispatches) /\ Seen \subseteq 1..MaxDispatches
  BY <1>1, <1>2, KnowledgeAssumption DEF Seen
<1> QED BY <1>1, <1>2, <1>3

\* What a call leaves: one more call without a receipt, which its handler awaits.
LEMMA CallAdded ==
  ASSUME KnowledgeTypeOK, NEW d \in 1..MaxDispatches, NEW kind \in {"SEND", "RECONCILE"},
         AddCall(d, kind), kind = "SEND" <=> calls[d] = <<>>
  PROVE  /\ calls' \in [1..MaxDispatches -> Seq(Call)]
         /\ Len(calls'[d]) = Len(calls[d]) + 1
         /\ \A n \in DOMAIN calls[d] : calls'[d][n] = calls[d][n]
         /\ calls'[d][Len(calls[d]) + 1] = [kind |-> kind, receipt |-> Pending]
         /\ \A e \in (1..MaxDispatches) \ {d} : calls'[e] = calls[e]
         /\ \A e \in 1..MaxDispatches :
              \A n \in DOMAIN calls'[e] : calls'[e][n].kind = "SEND" <=> n = 1
         /\ working' = working \cup {<<d, Len(calls[d]) + 1>>}
         /\ working' \subseteq (1..MaxDispatches) \X (1..MaxCalls)
<1> DEFINE new == [kind |-> kind, receipt |-> Pending]
<1>1. calls \in [1..MaxDispatches -> Seq(Call)] /\ new \in Call
  BY DEF KnowledgeTypeOK, Call, Pending
<1>2. /\ calls' = [calls EXCEPT ![d] = Append(calls[d], new)]
      /\ working' = working \cup {<<d, Len(calls[d]) + 1>>} /\ Len(calls[d]) < MaxCalls
  BY DEF AddCall
<1> HIDE DEF new
<1>3. /\ calls'[d] = Append(calls[d], new) /\ calls' \in [1..MaxDispatches -> Seq(Call)]
      /\ \A e \in (1..MaxDispatches) \ {d} : calls'[e] = calls[e]
  BY <1>1, <1>2
<1>4. /\ Len(calls'[d]) = Len(calls[d]) + 1
      /\ \A n \in DOMAIN calls[d] : calls'[d][n] = calls[d][n]
      /\ calls'[d][Len(calls[d]) + 1] = new
      /\ DOMAIN calls'[d] = 1..(Len(calls[d]) + 1) /\ DOMAIN calls[d] = 1..Len(calls[d])
  BY <1>1, <1>3
<1>5. \A n \in DOMAIN calls'[d] : calls'[d][n].kind = "SEND" <=> n = 1
  <2>1. new.kind = kind
    BY DEF new
  <2>2. \A n \in DOMAIN calls[d] : calls[d][n].kind = "SEND" <=> n = 1
    BY DEF KnowledgeTypeOK
  <2> QED BY <1>4, <2>1, <2>2, DispatchTypes
<1>6. \A e \in 1..MaxDispatches :
        \A n \in DOMAIN calls'[e] : calls'[e][n].kind = "SEND" <=> n = 1
  <2>1. ASSUME NEW e \in (1..MaxDispatches) \ {d}, NEW n \in DOMAIN calls'[e]
        PROVE  calls'[e][n].kind = "SEND" <=> n = 1
    <3>1. calls'[e] = calls[e]
      BY <1>3
    <3> QED BY <2>1, <3>1 DEF KnowledgeTypeOK
  <2> QED BY <1>5, <2>1
<1>7. working' \subseteq (1..MaxDispatches) \X (1..MaxCalls)
  <2>1. Len(calls[d]) + 1 \in 1..MaxCalls
    BY <1>2, DispatchTypes, KnowledgeAssumption
  <2> QED BY <1>2, <2>1 DEF KnowledgeTypeOK
<1> QED BY <1>2, <1>3, <1>4, <1>6, <1>7 DEF new

\* A call of a dispatch that nothing replaces, or of one that was sent.
LEMMA CallStep ==
  ASSUME KnowledgeTypeOK, DispatchInvariant, NEW d \in Seen,
         NEW kind \in {"SEND", "RECONCILE"}, AddCall(d, kind),
         kind = "SEND" <=> calls[d] = <<>>,
         kind = "SEND" => \A e \in SameCommand(d) : e <= d,
         claim' = NoClaim, UNCHANGED dispatches
  PROVE  DispatchInvariant'
<1> USE DispatchTypes DEF DispatchInvariant
<1>1. d \in 1..MaxDispatches
  OBVIOUS
<1>2. /\ Len(calls'[d]) = Len(calls[d]) + 1
      /\ \A n \in DOMAIN calls[d] : calls'[d][n] = calls[d][n] /\ n \in DOMAIN calls'[d]
      /\ Len(calls[d]) + 1 \in DOMAIN calls'[d]
      /\ calls'[d][Len(calls[d]) + 1].receipt = Pending
      /\ \A e \in (1..MaxDispatches) \ {d} : calls'[e] = calls[e]
      /\ working' = working \cup {<<d, Len(calls[d]) + 1>>}
  BY <1>1, CallAdded
<1>3. \A e \in (1..MaxDispatches) \ Seen : calls'[e] = <<>>
  BY <1>2
<1>4. WorkingIsPending'
  BY <1>1, <1>2 DEF WorkingIsPending
<1>5. ClaimIsOfTheLast'
  BY DEF ClaimIsOfTheLast
<1>6. ReplacedHaveFailed'
  <2>1. ASSUME NEW a \in Seen, NEW e \in Seen, a < e,
               dispatches[a].command = dispatches[e].command, calls'[a] # <<>>
        PROVE  \E n \in DOMAIN calls'[a] : calls'[a][n].receipt = "FAILED"
    <3>1. calls[a] # <<>>
      <4>1. CASE a = d
        BY <2>1, <4>1 DEF SameCommand
      <4>2. CASE a # d
        BY <1>2, <2>1, <4>2
      <4> QED BY <4>1, <4>2
    <3>2. PICK n \in DOMAIN calls[a] : calls[a][n].receipt = "FAILED"
      BY <2>1, <3>1 DEF ReplacedHaveFailed
    <3> QED BY <1>2, <3>2
  <2> QED BY <2>1 DEF ReplacedHaveFailed, Seen
<1> QED BY <1>3, <1>4, <1>5, <1>6 DEF Seen

LEMMA PrepareStep ==
  ASSUME KnowledgeInvariant, NEW m \in Members, Prepare(m)
  PROVE  KnowledgeInvariant'
<1> USE DispatchTypes, JournalTypes DEF KnowledgeInvariant
<1> DEFINE new == [command |-> document.operation,
                   revision |-> commands[document.operation].target,
                   settings |-> settings]
           l == Len(dispatches) + 1
<1>1. /\ dispatches' = Append(dispatches, new) /\ Len(dispatches) < MaxDispatches
      /\ claim = NoClaim /\ document.operation # 0
      /\ UNCHANGED <<manager, settings, commands, revisions, document, calls, working, claim>>
  BY DEF Prepare, Authorized
<1>2. new \in Dispatch
  <2>1. document.operation \in DOMAIN commands /\ document.operation \in 1..MaxCommands
    BY <1>1, KnowledgeAssumption
  <2>2. commands[document.operation].target \in 1..MaxCommands
    BY <2>1 DEF Command
  <2>3. settings \in 1..MaxSettings
    BY DEF KnowledgeTypeOK
  <2> QED BY <2>1, <2>2, <2>3 DEF Dispatch
<1>3. new.command = document.operation
  OBVIOUS
<1> HIDE DEF new
<1>4. /\ dispatches' \in Seq(Dispatch) /\ Len(dispatches') = l /\ l \in 1..MaxDispatches
      /\ \A d \in Seen : dispatches'[d] = dispatches[d]
      /\ dispatches'[l] = new /\ DOMAIN dispatches' = 1..l /\ Seen' = Seen \cup {l}
      /\ l \notin Seen
  BY <1>1, <1>2, KnowledgeAssumption DEF Seen
<1>5. KnowledgeTypeOK'
  BY <1>1, <1>4 DEF KnowledgeTypeOK
<1>6. JournalInvariant'
  BY <1>1 DEF JournalInvariant, RevisionsAreCounted, JournalIsReplayable
<1>7. calls[l] = <<>>
  BY <1>4 DEF DispatchInvariant
<1>8. ASSUME NEW d \in Seen, dispatches[d].command = document.operation, calls[d] # <<>>
      PROVE  \E n \in DOMAIN calls[d] : calls[d][n].receipt = "FAILED"
  <2> DEFINE earlier == {e \in Seen : dispatches[e].command = document.operation}
  <2>1. CASE \A e \in earlier : e <= d
    <3>1. Retryable(d)
      BY <1>8, <2>1 DEF Prepare
    <3>2. Len(calls[d]) \in DOMAIN calls[d] /\ calls[d][Len(calls[d])] \in Call
      BY <1>8
    <3>3. calls[d][Len(calls[d])].receipt \in Outcome \cup {Pending}
      BY <3>2 DEF Call
    <3>4. WriteOutcome(d) # "NOT_SENT"
      BY <1>8, <3>3 DEF WriteOutcome, Outcome, Pending
    <3>5. calls[d][Len(calls[d])].receipt = "FAILED"
      BY <1>8, <3>1, <3>4 DEF Retryable, WriteOutcome
    <3> QED BY <3>2, <3>5
  <2>2. CASE \E e \in earlier : ~(e <= d)
    <3>1. PICK e \in Seen : dispatches[e].command = document.operation /\ d < e
      BY <2>2
    <3> QED BY <1>8, <3>1 DEF DispatchInvariant, ReplacedHaveFailed
  <2> QED BY <2>1, <2>2
<1>9. ReplacedHaveFailed'
  <2>1. ASSUME NEW d \in Seen', NEW e \in Seen', d < e,
               dispatches'[d].command = dispatches'[e].command, calls[d] # <<>>
        PROVE  \E n \in DOMAIN calls[d] : calls[d][n].receipt = "FAILED"
    <3>1. d \in Seen
      BY <1>4, <1>7, <2>1
    <3>2. CASE e = l
      BY <1>3, <1>4, <1>8, <2>1, <3>1, <3>2
    <3>3. CASE e # l
      BY <1>4, <2>1, <3>1, <3>3 DEF DispatchInvariant, ReplacedHaveFailed
    <3> QED BY <3>2, <3>3
  <2> QED BY <1>1, <2>1 DEF ReplacedHaveFailed
<1>10. DispatchInvariant'
  BY <1>1, <1>4, <1>9 DEF DispatchInvariant, WorkingIsPending, ClaimIsOfTheLast
<1> QED BY <1>5, <1>6, <1>10

\* A receipt of a call that waited, and the end of its handler.
LEMMA CompleteStep ==
  ASSUME KnowledgeInvariant, NEW d \in 1..MaxDispatches, NEW n \in 1..MaxCalls,
         NEW answer \in SUBSET BOOLEAN, Complete(d, n, answer)
  PROVE  KnowledgeInvariant'
<1> USE DispatchTypes DEF KnowledgeInvariant
<1> DEFINE receipt == Normalized(answer)
           history == calls[d]
           c == history[n]
           new == [c EXCEPT !.receipt = receipt]
<1>1. answer \in {{}, {TRUE}, {FALSE}, BOOLEAN}
  OBVIOUS
<1>2. receipt \in Outcome
  BY <1>1 DEF Normalized, Outcome
<1>3. /\ n \in DOMAIN history /\ c.receipt = Pending /\ <<d, n>> \in working
      /\ d \in Seen
  BY DEF Complete, DispatchInvariant, WorkingIsPending
<1>4. c \in Call /\ history \in Seq(Call) /\ calls \in [1..MaxDispatches -> Seq(Call)]
  BY <1>3 DEF KnowledgeTypeOK
<1>5. /\ calls' = [calls EXCEPT ![d] = [history EXCEPT ![n] = new]]
      /\ working' = working \ {<<d, n>>}
      /\ UNCHANGED <<manager, settings, commands, revisions, document, dispatches, claim>>
  BY DEF Complete
<1> HIDE DEF receipt
<1>6. new \in Call /\ new.kind = c.kind
  <2> HIDE DEF c
  <2> QED BY <1>2, <1>4 DEF Call
<1> HIDE DEF new
<1>7. /\ calls'[d] = [history EXCEPT ![n] = new]
      /\ \A e \in (1..MaxDispatches) \ {d} : calls'[e] = calls[e]
  BY <1>4, <1>5
<1>8. /\ [history EXCEPT ![n] = new] \in Seq(Call)
      /\ DOMAIN calls'[d] = DOMAIN calls[d]
      /\ calls'[d][n] = new
      /\ \A i \in DOMAIN calls[d] \ {n} : calls'[d][i] = calls[d][i]
  BY <1>3, <1>4, <1>6, <1>7
<1>9. calls' \in [1..MaxDispatches -> Seq(Call)]
  BY <1>4, <1>5, <1>8
<1>10. \A e \in 1..MaxDispatches :
         /\ DOMAIN calls'[e] = DOMAIN calls[e]
         /\ calls'[e] # <<>> <=> calls[e] # <<>>
         /\ \A i \in DOMAIN calls[e] :
              /\ calls'[e][i].kind = calls[e][i].kind
              /\ <<e, i>> # <<d, n>> => calls'[e][i] = calls[e][i]
              /\ calls[e][i].receipt = "FAILED" => calls'[e][i].receipt = "FAILED"
  <2>1. ASSUME NEW e \in (1..MaxDispatches) \ {d}
        PROVE  calls'[e] = calls[e]
    BY <1>7
  <2>2. ASSUME NEW i \in DOMAIN calls[d]
        PROVE  /\ calls'[d][i].kind = calls[d][i].kind
               /\ <<d, i>> # <<d, n>> => calls'[d][i] = calls[d][i]
               /\ calls[d][i].receipt = "FAILED" => calls'[d][i].receipt = "FAILED"
    BY <1>3, <1>6, <1>8 DEF Pending
  <2>3. calls'[d] # <<>> /\ calls[d] # <<>>
    BY <1>3, <1>8
  <2> QED BY <1>8, <2>1, <2>2, <2>3
<1>11. KnowledgeTypeOK'
  <2>1. \A e \in 1..MaxDispatches :
          \A i \in DOMAIN calls'[e] : calls'[e][i].kind = "SEND" <=> i = 1
    <3>1. ASSUME NEW e \in 1..MaxDispatches, NEW i \in DOMAIN calls'[e]
          PROVE  calls'[e][i].kind = "SEND" <=> i = 1
      <4>1. i \in DOMAIN calls[e] /\ calls'[e][i].kind = calls[e][i].kind
        BY <1>10, <3>1
      <4> QED BY <4>1 DEF KnowledgeTypeOK
    <3> QED BY <3>1
  <2>2. working' \subseteq (1..MaxDispatches) \X (1..MaxCalls)
    BY <1>5 DEF KnowledgeTypeOK
  <2> QED BY <1>5, <1>9, <2>1, <2>2 DEF KnowledgeTypeOK
<1>12. JournalInvariant'
  BY <1>5 DEF JournalInvariant, RevisionsAreCounted, JournalIsReplayable
<1>13. WorkingIsPending'
  BY <1>5, <1>10 DEF DispatchInvariant, WorkingIsPending
<1>14. ClaimIsOfTheLast'
  BY <1>5, <1>10 DEF DispatchInvariant, ClaimIsOfTheLast, SameCommand, Seen
<1>15. ReplacedHaveFailed'
  BY <1>5, <1>10 DEF DispatchInvariant, ReplacedHaveFailed, Seen
<1>16. \A e \in (1..MaxDispatches) \ Seen' : calls'[e] = <<>>
  BY <1>5, <1>10 DEF DispatchInvariant, Seen
<1> QED BY <1>11, <1>12, <1>13, <1>14, <1>15, <1>16 DEF DispatchInvariant

-----------------------------------------------------------------------------

LEMMA KnowledgeStep ==
  KnowledgeInvariant /\ [KnowledgeNext]_knowledgeVars => KnowledgeInvariant'
<1> SUFFICES ASSUME KnowledgeInvariant, [KnowledgeNext]_knowledgeVars
             PROVE  KnowledgeInvariant'
  OBVIOUS
<1> USE DispatchTypes DEF KnowledgeInvariant
<1>1. ASSUME UNCHANGED <<commands, revisions, document>>
      PROVE  JournalInvariant'
  BY <1>1 DEF JournalInvariant, RevisionsAreCounted, JournalIsReplayable
<1>2. ASSUME UNCHANGED <<dispatches, calls, working, claim>>
      PROVE  DispatchInvariant'
  BY <1>2 DEF DispatchInvariant, WorkingIsPending, ClaimIsOfTheLast, ReplacedHaveFailed,
     SameCommand, Seen
<1>3. ASSUME NEW m \in Members, NEW kind \in Kind, NEW expected \in 0..Len(revisions),
             Apply(m, kind, expected)
      PROVE  KnowledgeInvariant'
  <2>1. UNCHANGED <<manager, settings, dispatches, calls, working, claim>>
    BY <1>3 DEF Apply
  <2>2. KnowledgeTypeOK'
    BY <1>3, <2>1, ApplyStep DEF KnowledgeTypeOK
  <2> QED BY <1>2, <1>3, <2>1, <2>2, ApplyStep
<1>4. ASSUME NEW m \in Members, Prepare(m) PROVE KnowledgeInvariant'
  BY <1>4, PrepareStep
<1>5. ASSUME NEW m \in Members, NEW d \in 1..MaxDispatches, ClaimSend(m, d)
      PROVE  KnowledgeInvariant'
  <2>1. KnowledgeTypeOK'
    BY <1>5 DEF ClaimSend, KnowledgeTypeOK
  <2>2. JournalInvariant'
    BY <1>1, <1>5 DEF ClaimSend
  <2>3. DispatchInvariant'
    BY <1>5 DEF ClaimSend, DispatchInvariant, WorkingIsPending, ClaimIsOfTheLast,
       ReplacedHaveFailed, SameCommand, Seen
  <2> QED BY <2>1, <2>2, <2>3
<1>6. CASE CommitSend
  <2>1. /\ claim \in Seen /\ claim \in 1..MaxDispatches /\ calls[claim] = <<>>
        /\ \A e \in SameCommand(claim) : e <= claim
    BY <1>6 DEF CommitSend, DispatchInvariant, ClaimIsOfTheLast
  <2>2. AddCall(claim, "SEND") /\ claim' = NoClaim
        /\ UNCHANGED <<manager, settings, commands, revisions, document, dispatches>>
    BY <1>6 DEF CommitSend
  <2>3. KnowledgeTypeOK'
    BY <2>1, <2>2, CallAdded DEF KnowledgeTypeOK
  <2>4. DispatchInvariant'
    BY <2>1, <2>2, CallStep
  <2> QED BY <1>1, <2>2, <2>3, <2>4
<1>7. CASE ClaimRolledBack
  <2>1. KnowledgeTypeOK' /\ JournalInvariant'
    BY <1>1, <1>7 DEF ClaimRolledBack, KnowledgeTypeOK
  <2>2. DispatchInvariant'
    BY <1>7 DEF ClaimRolledBack, DispatchInvariant, WorkingIsPending, ClaimIsOfTheLast,
       ReplacedHaveFailed, Seen
  <2> QED BY <2>1, <2>2
<1>8. ASSUME NEW m \in Members, NEW d \in 1..MaxDispatches, ClaimReconcile(m, d)
      PROVE  KnowledgeInvariant'
  <2>1. /\ AddCall(d, "RECONCILE") /\ claim' = NoClaim /\ claim' = claim
        /\ d \in Seen /\ calls[d] # <<>>
        /\ UNCHANGED <<manager, settings, commands, revisions, document, dispatches>>
    BY <1>8 DEF ClaimReconcile, Authorized
  <2>2. KnowledgeTypeOK'
    BY <2>1, CallAdded DEF KnowledgeTypeOK
  <2>3. DispatchInvariant'
    BY <2>1, CallStep
  <2> QED BY <1>1, <2>1, <2>2, <2>3
<1>9. ASSUME NEW d \in 1..MaxDispatches, NEW n \in 1..MaxCalls, CallIsLost(d, n)
      PROVE  KnowledgeInvariant'
  <2>1. KnowledgeTypeOK' /\ JournalInvariant'
    BY <1>1, <1>9 DEF CallIsLost, KnowledgeTypeOK
  <2>2. DispatchInvariant'
    BY <1>9 DEF CallIsLost, DispatchInvariant, WorkingIsPending, ClaimIsOfTheLast,
       ReplacedHaveFailed, SameCommand, Seen
  <2> QED BY <2>1, <2>2
<1>10. CASE UpdateSettings \/ (\E m \in Members : ChangeManager(m))
  <2>1. KnowledgeTypeOK'
    BY SMTT(30), <1>10, KnowledgeAssumption DEF UpdateSettings, ChangeManager, KnowledgeTypeOK
  <2> QED BY <1>1, <1>2, <1>10, <2>1 DEF UpdateSettings, ChangeManager
<1>11. CASE UNCHANGED knowledgeVars
  <2>1. KnowledgeTypeOK'
    BY <1>11 DEF knowledgeVars, KnowledgeTypeOK
  <2> QED BY <1>1, <1>2, <1>11, <2>1 DEF knowledgeVars
<1> QED BY <1>3, <1>4, <1>5, <1>6, <1>7, <1>8, <1>9, <1>10, <1>11, CompleteStep
        DEF KnowledgeNext, DocumentHandlers, DispatchHandlers

\* The inductive invariant, for any members, commands, dispatches and calls.
THEOREM KnowledgeInvariantHolds == KnowledgeSpec => []KnowledgeInvariant
BY KnowledgeStart, KnowledgeStep, PTL DEF KnowledgeSpec

\* The journal, the dispatches and the calls of a document are well typed: the
\* first call of a dispatch, and no other, is a SEND.
THEOREM KnowledgeTypeCorrect == KnowledgeSpec => []KnowledgeTypeOK
<1>1. KnowledgeInvariant => KnowledgeTypeOK
  BY DEF KnowledgeInvariant
<1> QED BY <1>1, KnowledgeInvariantHolds, PTL

\* The document always passes _validate_journal of knowledge_documents.py, so
\* no order of commands closes it to further ones.
THEOREM JournalReplayable == KnowledgeSpec => []JournalIsReplayable
<1>1. KnowledgeInvariant => JournalIsReplayable
  BY DEF KnowledgeInvariant, JournalInvariant
<1> QED BY <1>1, KnowledgeInvariantHolds, PTL

\* A command is written to the provider again only after the provider has
\* refused the earlier write (knowledge_dispatch.py: prepare, claim, complete).
THEOREM RepeatsFollow == KnowledgeSpec => []RepeatsFollowFailure
<1>1. KnowledgeInvariant => RepeatsFollowFailure
  BY DEF KnowledgeInvariant, DispatchInvariant, ReplacedHaveFailed, RepeatsFollowFailure
<1> QED BY <1>1, KnowledgeInvariantHolds, PTL
=============================================================================
