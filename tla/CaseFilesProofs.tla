-------------------------- MODULE CaseFilesProofs --------------------------
(***************************************************************************)
(* Proofs that the bytes of a committed file outlive everything but the    *)
(* storage, that an object without a row has a reason, that an output is   *)
(* added under the access and the context it was asked for, and that a     *)
(* native request carries all files of its context.                        *)
(***************************************************************************)
EXTENDS CaseFiles, TLAPS

\* What the first part of a handler has found out stays true of it.
Fits(h) ==
    /\ h.kind = "DATA" => h.content \in Tables
    /\ h.kind = "SUPPORTING" => h.content \in Images
    /\ h.kind \in OutputKind =>
         h.content \in Documents \cup NativeContent /\ h.command \in Commands
    /\ h.kind = "NATIVE_TEXT" =>
         /\ h.source \in Receipts /\ ContextOf[h.source] = h.expected
         /\ h.content = TextOf(h.source)
    /\ h.kind = "NATIVE_FILE" =>
         /\ h.source \in Receipts /\ ContextOf[h.source] = h.expected
         /\ h.content = FileOf(h.source, ProjectOf[h.source])

HandlersFit == \A r \in Requests : handler[r] # Idle => Fits(handler[r])

\* The handler that holds the case has stored bytes under a key that no row
\* names, and what it read under the lock has not changed.
WritersHold ==
    \A r \in Requests : Writing(r) =>
        /\ bytes[handler[r].key] \in {handler[r].content, Damaged}
        /\ \A row \in rows : row.key # handler[r].key
        /\ handler[r].expected = Context
        /\ handler[r].kind \in FileKind => Context < MaxContext
        /\ handler[r].kind \in OutputKind => handler[r].member \in editors

\* A file is of a context before the one it made.
FilesPrecede == \A row \in rows : row.kind \in FileKind => row.context < Context

\* A bundle is of a context the case has had.
BundleDated == bundle.contents # {} => bundle.context \in 1..Context

FilesInvariant ==
    /\ FilesTypeOK
    /\ HandlersFit
    /\ WritersHold
    /\ FilesPrecede
    /\ BytesOutliveRows
    /\ OrphansAreExplained
    /\ BundleDated
    /\ BundlesAreWhole

LEMMA FilesStart == FilesInit => FilesInvariant
<1> SUFFICES ASSUME FilesInit PROVE FilesInvariant
  OBVIOUS
<1> USE FilesAssumption, NamesAssumption DEF FilesInit
<1>1. FilesTypeOK
  BY DEF FilesTypeOK, Context, Writing, Handler, Idle, NoBytes
<1>2. HandlersFit /\ WritersHold
  BY DEF HandlersFit, WritersHold, Writing, Idle
<1>3. FilesPrecede /\ BytesOutliveRows /\ OrphansAreExplained
  BY DEF FilesPrecede, BytesOutliveRows, OrphansAreExplained
<1>4. BundleDated /\ BundlesAreWhole
  BY DEF BundleDated, BundlesAreWhole
<1> QED BY <1>1, <1>2, <1>3, <1>4 DEF FilesInvariant

-----------------------------------------------------------------------------
\* A handler that reads, or that ends before it has stored anything, leaves
\* the case and the store as they are.
LEMMA ReadingStep ==
  ASSUME FilesInvariant, NEW r \in Requests, NEW h \in Handler,
         ~Writing(r), handler' = [handler EXCEPT ![r] = h],
         h.phase \in {"IDLE", "BODY", "ADMITTED"}, h # Idle => Fits(h),
         UNCHANGED <<databaseVars, bytes, lock, excused, faults, bundle>>
  PROVE  FilesInvariant'
<1> USE DEF databaseVars
<1>1. \A q \in Requests : Writing(q)' => Writing(q) /\ handler'[q] = handler[q]
  BY DEF Writing, FilesInvariant, FilesTypeOK
<1>2. \A q \in Requests : Writing(q) => Writing(q)' /\ handler'[q] = handler[q]
  BY DEF Writing, FilesInvariant, FilesTypeOK
<1>3. FilesTypeOK'
  BY <1>1 DEF FilesInvariant, FilesTypeOK, Context
<1>4. HandlersFit'
  BY DEF FilesInvariant, FilesTypeOK, HandlersFit
<1>5. WritersHold'
  BY <1>1 DEF FilesInvariant, WritersHold, Context
<1>6. FilesPrecede' /\ BytesOutliveRows' /\ BundleDated'
  BY DEF FilesInvariant, FilesPrecede, BytesOutliveRows, BundleDated, Context
<1>7. OrphansAreExplained'
  BY <1>2 DEF FilesInvariant, OrphansAreExplained
<1>8. BundlesAreWhole'
  BY DEF FilesInvariant, BundlesAreWhole
<1> QED BY <1>3, <1>4, <1>5, <1>6, <1>7, <1>8 DEF FilesInvariant

\* Only the handler that holds the case is writing.
LEMMA OneWriter ==
  ASSUME FilesInvariant, NEW r \in Requests, Writing(r) \/ lock = None
  PROVE  \A q \in Requests : Writing(q) => q = r
BY FilesAssumption DEF FilesInvariant, FilesTypeOK

\* A handler that may write stores its bytes under a fresh name.
LEMMA StoreStep ==
  ASSUME FilesInvariant, NEW r \in Requests, NEW key \in ObjectKeys,
         handler[r] # Idle, lock = None, handler[r].expected = Context,
         handler[r].kind \in FileKind => Context < MaxContext,
         handler[r].kind \in OutputKind => handler[r].member \in editors,
         Stores(r, key)
  PROVE  FilesInvariant'
<1> USE NamesAssumption, FilesAssumption DEF Stores, Put, databaseVars
<1> DEFINE h == [handler[r] EXCEPT !.phase = "STORED", !.key = key]
<1>1. /\ handler' = [handler EXCEPT ![r] = h] /\ h \in Handler
      /\ handler[r] \in Handler /\ handler[r].content \in Content
  <2>1. handler[r] \in Working
    BY DEF FilesInvariant, FilesTypeOK, Handler
  <2>2. h \in Working
    BY <2>1 DEF Working, Phase
  <2>3. handler' = [handler EXCEPT ![r] = h]
    BY DEF FilesInvariant, FilesTypeOK
  <2> QED BY <2>1, <2>2, <2>3 DEF Working, Handler
<1>2. /\ h.phase = "STORED" /\ h.key = key /\ h.content = handler[r].content
      /\ h.kind = handler[r].kind /\ h.expected = handler[r].expected
      /\ h.member = handler[r].member /\ h.source = handler[r].source
      /\ h.command = handler[r].command
  BY <1>1 DEF Handler, Working, Idle
<1>3. \A q \in Requests : Writing(q)' <=> q = r
  BY <1>1, <1>2, OneWriter DEF Writing, FilesInvariant, FilesTypeOK
<1>4. bytes' \in [ObjectKeys -> Content \cup NoBytes]
  BY <1>1 DEF FilesInvariant, FilesTypeOK
<1>5. FilesTypeOK'
  BY <1>1, <1>2, <1>3, <1>4 DEF FilesInvariant, FilesTypeOK, Context
<1>6. HandlersFit'
  BY <1>1, <1>2 DEF FilesInvariant, FilesTypeOK, HandlersFit, Fits
<1>7. \A row \in rows : row.key # key
  BY DEF FilesInvariant, BytesOutliveRows, FilesTypeOK, EvidenceRow, ReferenceMaterialRow,
         RequestOutputRow, Content, NoBytes
<1>8. WritersHold'
  BY <1>1, <1>2, <1>3, <1>7 DEF FilesInvariant, FilesTypeOK, WritersHold, Context
<1>9. BytesOutliveRows'
  BY <1>7 DEF FilesInvariant, FilesTypeOK, BytesOutliveRows
<1>10. OrphansAreExplained'
  BY SMTT(30), <1>1, <1>2, <1>3, OneWriter DEF FilesInvariant, FilesTypeOK, OrphansAreExplained
<1>11. FilesPrecede' /\ BundleDated' /\ BundlesAreWhole'
  BY DEF FilesInvariant, FilesPrecede, BundleDated, BundlesAreWhole, Context
<1> QED BY <1>5, <1>6, <1>8, <1>9, <1>10, <1>11 DEF FilesInvariant

\* A content that the request has is answered with its row, and its bytes
\* are put back if they were lost.
LEMMA DuplicateStep ==
  ASSUME FilesInvariant, NEW r \in Requests, lock = None, NEW row \in rows,
         AnswersDuplicate(r, row)
  PROVE  FilesInvariant'
<1> USE NamesAssumption, FilesAssumption
        DEF AnswersDuplicate, Ends, Restore, Intact, Reads, databaseVars
<1>1. \A q \in Requests : ~Writing(q) /\ ~Writing(q)'
  BY DEF Writing, FilesInvariant, FilesTypeOK, Idle
<1>2. row.key \in ObjectKeys /\ row.content \in Content
  BY DEF FilesInvariant, FilesTypeOK, EvidenceRow, ReferenceMaterialRow, RequestOutputRow,
         Content
<1>3. /\ bytes' \in [ObjectKeys -> Content \cup NoBytes]
      /\ handler' \in [Requests -> Handler]
      /\ \A key \in ObjectKeys :
           \/ bytes'[key] = bytes[key]
           \/ key = row.key /\ bytes'[key] = row.content
  BY <1>2 DEF FilesInvariant, FilesTypeOK, Handler
<1>4. FilesTypeOK'
  BY <1>1, <1>3 DEF FilesInvariant, FilesTypeOK, Context
<1>5. HandlersFit'
  BY DEF FilesInvariant, FilesTypeOK, HandlersFit
<1>6. WritersHold'
  BY <1>1 DEF WritersHold
<1>7. BytesOutliveRows'
  BY <1>3 DEF FilesInvariant, FilesTypeOK, BytesOutliveRows, EvidenceRow,
              ReferenceMaterialRow, RequestOutputRow
<1>8. OrphansAreExplained'
  BY <1>1, <1>3 DEF FilesInvariant, OrphansAreExplained
<1>9. FilesPrecede' /\ BundleDated' /\ BundlesAreWhole'
  BY DEF FilesInvariant, FilesPrecede, BundleDated, BundlesAreWhole, Context
<1> QED BY <1>4, <1>5, <1>6, <1>7, <1>8, <1>9 DEF FilesInvariant

\* The row is flushed.
LEMMA FlushStep ==
  ASSUME FilesInvariant, NEW r \in Requests, Flushed(r) PROVE FilesInvariant'
<1> USE DEF Flushed, databaseVars
<1> DEFINE h == [handler[r] EXCEPT !.phase = "FLUSHED"]
<1>1. /\ handler' = [handler EXCEPT ![r] = h] /\ h \in Handler
      /\ handler[r] \in Handler /\ handler[r] # Idle
  <2>1. handler[r] # Idle
    BY DEF Idle
  <2>2. handler[r] \in Working
    BY <2>1 DEF FilesInvariant, FilesTypeOK, Handler
  <2>3. h \in Working
    BY <2>2 DEF Working, Phase
  <2>4. handler' = [handler EXCEPT ![r] = h]
    BY DEF FilesInvariant, FilesTypeOK
  <2> QED BY <2>1, <2>2, <2>3, <2>4 DEF Handler
<1>2. /\ h.phase = "FLUSHED" /\ h.key = handler[r].key /\ h.content = handler[r].content
      /\ h.kind = handler[r].kind /\ h.expected = handler[r].expected
      /\ h.member = handler[r].member /\ h.source = handler[r].source
      /\ h.command = handler[r].command
  BY <1>1 DEF Handler, Working, Idle
<1>3. \A q \in Requests : Writing(q)' <=> Writing(q)
  BY <1>1, <1>2 DEF Writing, FilesInvariant, FilesTypeOK
<1>4. \A q \in Requests : handler'[q].key = handler[q].key
  BY <1>1, <1>2 DEF FilesInvariant, FilesTypeOK
<1>5. FilesTypeOK'
  BY <1>1, <1>3, <1>4 DEF FilesInvariant, FilesTypeOK, Context
<1>6. HandlersFit'
  BY <1>1, <1>2 DEF FilesInvariant, FilesTypeOK, HandlersFit, Fits
<1>7. WritersHold'
  BY <1>1, <1>2, <1>3 DEF FilesInvariant, FilesTypeOK, WritersHold, Context
<1>8. OrphansAreExplained'
  BY <1>3, <1>4 DEF FilesInvariant, OrphansAreExplained
<1>9. FilesPrecede' /\ BytesOutliveRows' /\ BundleDated' /\ BundlesAreWhole'
  BY DEF FilesInvariant, FilesPrecede, BytesOutliveRows, BundleDated, BundlesAreWhole,
         Context
<1> QED BY <1>5, <1>6, <1>7, <1>8, <1>9 DEF FilesInvariant

\* A writer fails: its object is deleted, or left with a fault as the reason.
LEMMA FailStep ==
  ASSUME FilesInvariant, NEW r \in Requests, Writing(r), Ends(r), lock' = None,
         Cleanup(handler[r].key) \/ Abandon(handler[r].key),
         UNCHANGED <<databaseVars, bundle>>
  PROVE  FilesInvariant'
<1> USE NamesAssumption, FilesAssumption DEF Ends, Cleanup, Abandon, Delete, databaseVars
<1> DEFINE key == handler[r].key
<1>1. \A q \in Requests : (Writing(q) => q = r) /\ ~Writing(q)'
  BY OneWriter DEF Writing, FilesInvariant, FilesTypeOK, Idle
<1>2. key \in ObjectKeys
  BY DEF FilesInvariant, FilesTypeOK
<1>3. /\ bytes' \in [ObjectKeys -> Content \cup NoBytes]
      /\ \A k \in ObjectKeys \ {key} : bytes'[k] = bytes[k]
      /\ excused \subseteq excused' /\ excused' \subseteq ObjectKeys
      /\ faults' \in 0..MaxFaults
      /\ bytes'[key] = Deleted \/ key \in excused'
  <2> USE <1>2
  <2>1. bytes \in [ObjectKeys -> Content \cup NoBytes] /\ Deleted \in NoBytes
    BY DEF FilesInvariant, FilesTypeOK, NoBytes
  <2>2. excused \subseteq ObjectKeys /\ faults \in 0..MaxFaults
    BY DEF FilesInvariant, FilesTypeOK
  <2>3. CASE bytes' = [bytes EXCEPT ![key] = Deleted] /\ UNCHANGED <<excused, faults>>
    BY <2>1, <2>2, <2>3
  <2>4. CASE /\ UNCHANGED bytes /\ faults < MaxFaults
             /\ faults' = faults + 1 /\ excused' = excused \cup {key}
    BY <2>1, <2>2, <2>4
  <2> QED BY <2>3, <2>4
<1>4. handler' \in [Requests -> Handler]
  BY DEF FilesInvariant, FilesTypeOK, Handler
<1>5. FilesTypeOK'
  BY <1>1, <1>3, <1>4 DEF FilesInvariant, FilesTypeOK, Context
<1>6. HandlersFit' /\ WritersHold'
  BY <1>1 DEF FilesInvariant, FilesTypeOK, HandlersFit, WritersHold
<1>7. \A row \in rows : row.key \in ObjectKeys \ {key}
  BY DEF FilesInvariant, FilesTypeOK, WritersHold, EvidenceRow, ReferenceMaterialRow,
         RequestOutputRow
<1>8. BytesOutliveRows'
  BY <1>3, <1>7 DEF FilesInvariant, BytesOutliveRows
<1>9. OrphansAreExplained'
  BY <1>1, <1>3 DEF FilesInvariant, OrphansAreExplained
<1>10. FilesPrecede' /\ BundleDated' /\ BundlesAreWhole'
  BY DEF FilesInvariant, FilesPrecede, BundleDated, BundlesAreWhole, Context
<1> QED BY <1>5, <1>6, <1>8, <1>9, <1>10 DEF FilesInvariant

\* The row of a writer.
NewRow(r) == IF handler[r].kind \in FileKind THEN FileRow(handler[r]) ELSE OutputRow(handler[r])

LEMMA NewRowFits ==
  ASSUME FilesInvariant, NEW r \in Requests, Writing(r)
  PROVE  /\ NewRow(r) \in EvidenceRow \cup ReferenceMaterialRow \cup RequestOutputRow
         /\ NewRow(r).key = handler[r].key /\ NewRow(r).content = handler[r].content
         /\ NewRow(r).kind = handler[r].kind /\ NewRow(r).version = Version
         /\ NewRow(r).context = Context
<1>1. handler[r] # Idle
  BY DEF Writing, Idle
<1>2. handler[r] \in Working /\ Fits(handler[r]) /\ handler[r].key \in ObjectKeys
  BY <1>1 DEF FilesInvariant, FilesTypeOK, HandlersFit, Handler
<1>3. Version \in Nat /\ Context \in Nat /\ handler[r].expected = Context
  BY FilesAssumption DEF FilesInvariant, FilesTypeOK, WritersHold, Version, Context
<1>4. CASE handler[r].kind \in FileKind
  BY <1>2, <1>3, <1>4 DEF NewRow, FileRow, Fits, EvidenceRow, ReferenceMaterialRow, FileKind
<1>5. CASE handler[r].kind \notin FileKind
  <2>1. handler[r].kind \in OutputKind
    BY <1>2, <1>5 DEF Working
  <2>2. /\ handler[r].member \in Members
        /\ handler[r].source \in Receipts \cup {None}
        /\ handler[r].content \in Documents \cup NativeContent
        /\ handler[r].command \in Commands
    BY <1>2, <2>1 DEF Working, Fits
  <2> QED BY <1>2, <1>3, <1>5, <2>1, <2>2 DEF NewRow, OutputRow, RequestOutputRow
<1> QED BY <1>4, <1>5

\* A commit makes the stored bytes those of a row, acknowledged or not.
LEMMA CommitStep ==
  ASSUME FilesInvariant, NEW r \in Requests, Writing(r), Takes(r),
         excused \subseteq excused', excused' \subseteq ObjectKeys, faults' \in 0..MaxFaults,
         UNCHANGED <<editors, project, bytes, bundle>>
  PROVE  FilesInvariant'
<1> USE FilesAssumption
<1> DEFINE new == NewRow(r)
<1>1. rows' = rows \cup {new} /\ lock' = None /\ handler' = [handler EXCEPT ![r] = Idle]
  BY DEF Takes, Ends, NewRow, FileKind, OutputKind, NativeKind
<1>2. /\ new \in EvidenceRow \cup ReferenceMaterialRow \cup RequestOutputRow
      /\ new.key = handler[r].key /\ new.content = handler[r].content
      /\ new.kind = handler[r].kind /\ new.version = Version /\ new.context = Context
  BY NewRowFits
<1>3. /\ requestOf' \in Seq(Nat)
      /\ Context' \in Context..MaxContext
      /\ \A n \in 1..Context : requestOf'[n] = requestOf[n]
      /\ handler[r].kind \in FileKind => Context' = Context + 1
  <2>1. requestOf \in Seq(Nat) /\ Context \in 1..MaxContext /\ Version \in Nat
    BY DEF FilesInvariant, FilesTypeOK, Context, Version
  <2>2. CASE handler[r].kind \in FileKind /\ requestOf' = Append(requestOf, Version)
    BY <2>1, <2>2 DEF FilesInvariant, WritersHold, Context
  <2>3. CASE handler[r].kind \in OutputKind /\ UNCHANGED requestOf
    BY <2>1, <2>3 DEF Context, FileKind, OutputKind, NativeKind
  <2> QED BY <2>2, <2>3 DEF Takes
<1>4. \A q \in Requests : (Writing(q) => q = r) /\ ~Writing(q)'
  BY <1>1, OneWriter DEF Writing, FilesInvariant, FilesTypeOK, Idle
<1>5. FilesTypeOK'
  BY <1>1, <1>2, <1>3, <1>4 DEF FilesInvariant, FilesTypeOK, Handler
<1>6. HandlersFit' /\ WritersHold'
  BY <1>1, <1>4 DEF FilesInvariant, FilesTypeOK, HandlersFit, WritersHold
<1>7. BytesOutliveRows'
  BY <1>1, <1>2 DEF FilesInvariant, BytesOutliveRows, WritersHold
<1>8. OrphansAreExplained'
  BY <1>1, <1>2, <1>4 DEF FilesInvariant, OrphansAreExplained
<1>9. FilesPrecede'
  <2>1. \A row \in rows : row.kind \in FileKind => row.context \in Nat
    BY DEF FilesInvariant, FilesTypeOK, EvidenceRow, ReferenceMaterialRow,
           RequestOutputRow
  <2> QED BY <1>1, <1>2, <1>3, <2>1 DEF FilesInvariant, FilesTypeOK, FilesPrecede
<1>10. BundleDated'
  BY <1>3 DEF FilesInvariant, FilesTypeOK, BundleDated
<1>11. BundlesAreWhole'
  <2>1. CASE bundle.contents = {}
    BY <2>1 DEF BundlesAreWhole
  <2>2. CASE bundle.contents # {}
    <3>1. bundle.context \in 1..Context
      BY <2>2 DEF FilesInvariant, BundleDated
    <3>2. requestOf'[bundle.context] = requestOf[bundle.context]
      BY <1>3, <3>1
    <3>3. ~(new.context < bundle.context)
      BY <1>2, <3>1 DEF FilesInvariant, FilesTypeOK
    <3> QED BY <1>1, <2>2, <3>2, <3>3 DEF FilesInvariant, BundlesAreWhole
  <2> QED BY <2>1, <2>2
<1> QED BY <1>5, <1>6, <1>7, <1>8, <1>9, <1>10, <1>11 DEF FilesInvariant

-----------------------------------------------------------------------------
(* What happens beside the handlers.                                        *)

\* The context grows while no handler holds the case.
LEMMA CaseMovesStep ==
  ASSUME FilesInvariant, NEW version \in Nat, CaseMoves(version) PROVE FilesInvariant'
<1> USE FilesAssumption DEF CaseMoves
<1>1. /\ requestOf' \in Seq(Nat) /\ Context' = Context + 1 /\ Context' \in 1..MaxContext
      /\ \A n \in 1..Context : requestOf'[n] = requestOf[n]
  BY DEF FilesInvariant, FilesTypeOK, Context
<1>2. \A q \in Requests : ~Writing(q) /\ ~Writing(q)'
  BY DEF Writing, FilesInvariant, FilesTypeOK
<1>3. FilesTypeOK'
  BY <1>1, <1>2 DEF FilesInvariant, FilesTypeOK
<1>4. HandlersFit' /\ WritersHold' /\ BytesOutliveRows' /\ OrphansAreExplained'
  BY <1>2 DEF FilesInvariant, HandlersFit, WritersHold, BytesOutliveRows,
              OrphansAreExplained
<1>5. FilesPrecede'
  <2>1. \A row \in rows : row.kind \in FileKind => row.context \in Nat
    BY DEF FilesInvariant, FilesTypeOK, EvidenceRow, ReferenceMaterialRow,
           RequestOutputRow
  <2> QED BY <1>1, <2>1 DEF FilesInvariant, FilesTypeOK, FilesPrecede
<1>6. BundleDated'
  BY <1>1 DEF FilesInvariant, FilesTypeOK, BundleDated
<1>7. BundlesAreWhole'
  <2>1. CASE bundle.contents = {}
    BY <2>1 DEF BundlesAreWhole
  <2>2. CASE bundle.contents # {}
    <3>1. bundle.context \in 1..Context
      BY <2>2 DEF FilesInvariant, BundleDated
    <3>2. requestOf'[bundle.context] = requestOf[bundle.context]
      BY <1>1, <3>1
    <3> QED BY <2>2, <3>2 DEF FilesInvariant, BundlesAreWhole
  <2> QED BY <2>1, <2>2
<1> QED BY <1>3, <1>4, <1>5, <1>6, <1>7 DEF FilesInvariant

\* The grant of a member whose output is being written stays.
LEMMA AroundStep ==
  ASSUME FilesInvariant,
         \/ \E m \in Members : AccessChanges(m)
         \/ \E p \in Projects : SettingsChange(p)
  PROVE  FilesInvariant'
<1>1. UNCHANGED <<requestOf, rows, bytes, handler, lock, excused, faults, bundle>>
  BY DEF AccessChanges, SettingsChange
<1>2. \A r \in Requests : Writing(r)' = Writing(r)
  BY <1>1 DEF Writing
<1>3. FilesTypeOK'
  BY <1>1, <1>2 DEF FilesInvariant, FilesTypeOK, AccessChanges, SettingsChange, Context
<1>4. WritersHold'
  BY <1>1, <1>2 DEF FilesInvariant, WritersHold, AccessChanges, SettingsChange, Context
<1>5. /\ HandlersFit' /\ FilesPrecede' /\ BytesOutliveRows' /\ OrphansAreExplained'
      /\ BundleDated' /\ BundlesAreWhole'
  BY <1>1, <1>2 DEF FilesInvariant, HandlersFit, FilesPrecede, BytesOutliveRows,
     OrphansAreExplained, BundleDated, BundlesAreWhole, Context
<1> QED BY <1>3, <1>4, <1>5 DEF FilesInvariant

LEMMA BytesLostStep ==
  ASSUME FilesInvariant, NEW key \in ObjectKeys, BytesLost(key) PROVE FilesInvariant'
<1> USE FilesAssumption, NamesAssumption DEF BytesLost, databaseVars
<1>1. \A r \in Requests : Writing(r)' = Writing(r)
  BY DEF Writing
<1>2. /\ bytes' \in [ObjectKeys -> Content \cup NoBytes] /\ faults' \in 0..MaxFaults
      /\ bytes'[key] = Damaged /\ \A k \in ObjectKeys \ {key} : bytes'[k] = bytes[k]
  BY DEF FilesInvariant, FilesTypeOK, NoBytes
<1>3. FilesTypeOK'
  BY <1>1, <1>2 DEF FilesInvariant, FilesTypeOK, Context
<1>4. WritersHold'
  BY <1>1, <1>2 DEF FilesInvariant, FilesTypeOK, WritersHold, Context
<1>5. BytesOutliveRows'
  BY <1>2 DEF FilesInvariant, FilesTypeOK, BytesOutliveRows, EvidenceRow,
              ReferenceMaterialRow, RequestOutputRow
<1>6. OrphansAreExplained'
  BY <1>1, <1>2 DEF FilesInvariant, OrphansAreExplained, NoBytes
<1>7. HandlersFit' /\ FilesPrecede' /\ BundleDated' /\ BundlesAreWhole'
  BY DEF FilesInvariant, HandlersFit, FilesPrecede, BundleDated, BundlesAreWhole, Context
<1> QED BY <1>3, <1>4, <1>5, <1>6, <1>7 DEF FilesInvariant

\* A bundle is of the current context, after all files of its request.
LEMMA BundleStep ==
  ASSUME FilesInvariant, NEW vision \in BOOLEAN, BundlePrepared(vision)
  PROVE  FilesInvariant'
<1> USE FilesAssumption DEF BundlePrepared, databaseVars
<1> DEFINE files == FilesOf("DATA", Version) \cup FilesOf("SUPPORTING", Version)
<1>1. \A r \in Requests : Writing(r)' = Writing(r)
  BY DEF Writing
<1>2. files = {f \in rows : f.kind \in FileKind /\ f.version = Version}
  BY DEF FilesOf, FileKind
<1>3. bundle'.context = Context /\ Context \in Nat \ {0}
  BY DEF FilesInvariant, FilesTypeOK
<1>4. bundle'.contents \in {{}, {row.content : row \in files}}
  BY DEF Sources
<1>5. \A f \in files : f.content \in Tables \cup Images /\ f.context < Context
  BY <1>2 DEF FilesInvariant, FilesTypeOK, FilesPrecede, EvidenceRow,
              ReferenceMaterialRow, RequestOutputRow, FileKind, OutputKind, NativeKind
<1> HIDE DEF BundlePrepared
<1>6. UNCHANGED <<requestOf, editors, project, rows, bytes, handler, lock, excused, faults>>
  BY DEF BundlePrepared
<1>7. FilesTypeOK'
  <2>1. bundle'.contents \subseteq Tables \cup Images
    BY <1>4, <1>5
  <2> QED BY <1>1, <1>3, <1>6, <2>1 DEF FilesInvariant, FilesTypeOK, Context
<1>8. /\ HandlersFit' /\ WritersHold' /\ FilesPrecede' /\ BytesOutliveRows'
      /\ OrphansAreExplained'
  BY <1>1, <1>6 DEF FilesInvariant, HandlersFit, WritersHold, FilesPrecede, BytesOutliveRows,
              OrphansAreExplained, Context
<1>9. BundleDated'
  BY <1>3, <1>6 DEF BundleDated, Context
<1>10. BundlesAreWhole'
  <2>1. files = {f \in rows : /\ f.kind \in FileKind
                              /\ f.version = requestOf[bundle'.context]
                              /\ f.context < bundle'.context}
    BY <1>2, <1>3, <1>5 DEF Version
  <2> QED BY <1>4, <1>6, <2>1 DEF BundlesAreWhole
<1> QED BY <1>7, <1>8, <1>9, <1>10 DEF FilesInvariant

-----------------------------------------------------------------------------
\* A handler starts with what it was asked for.
LEMMA StartStep ==
  ASSUME FilesInvariant, NEW r \in Requests, NEW kind \in FileKind \cup OutputKind,
         NEW m \in Members, NEW content \in Content, NEW expected \in 1..Context,
         NEW command \in Commands \cup {None}, NEW source \in Receipts \cup {None},
         Fits(Started(kind, m, content, expected, command, source)),
         Begins(r, Started(kind, m, content, expected, command, source))
  PROVE  FilesInvariant'
<1> DEFINE h == Started(kind, m, content, expected, command, source)
<1>1. expected \in Nat
  BY DEF FilesInvariant, FilesTypeOK
<1>2. h \in Working /\ h.phase = "BODY"
  BY <1>1 DEF Started, Working, Phase
<1>3. h \in Handler /\ ~Writing(r) /\ handler' = [handler EXCEPT ![r] = h]
  BY <1>2 DEF Handler, Begins, Writing, Idle
<1> HIDE DEF h
<1> QED BY <1>2, <1>3, ReadingStep DEF h, Begins

\* The handlers of uploads.
LEMMA UploadStep ==
  ASSUME FilesInvariant, NEW r \in Requests, UploadNext(r) PROVE FilesInvariant'
<1>1. ASSUME NEW m \in Members, NEW expected \in 1..Context, NEW content \in Tables,
             EvidenceBegins(r, m, content, expected)
      PROVE  FilesInvariant'
  <2>1. content \in Content /\ Fits(Started("DATA", m, content, expected, None, None))
    BY DEF Started, Fits, FileKind, OutputKind, NativeKind, Content
  <2> QED BY <1>1, <2>1, StartStep DEF EvidenceBegins, FileKind, OutputKind, NativeKind
<1>2. ASSUME NEW m \in Members, NEW expected \in 1..Context, NEW content \in Images,
             ReferenceBegins(r, m, content, expected)
      PROVE  FilesInvariant'
  <2>1. content \in Content /\ Fits(Started("SUPPORTING", m, content, expected, None, None))
    BY DEF Started, Fits, FileKind, OutputKind, NativeKind, Content
  <2> QED BY <1>2, <2>1, StartStep DEF ReferenceBegins, FileKind, OutputKind, NativeKind
<1>3. ASSUME UploadAdmitted(r) PROVE FilesInvariant'
  <2> DEFINE h == [handler[r] EXCEPT !.phase = "ADMITTED"]
  <2>1. handler[r] # Idle /\ ~Writing(r)
    BY <1>3 DEF UploadAdmitted, Writing, Idle
  <2>2. handler[r] \in Working /\ Fits(handler[r])
    BY <2>1 DEF FilesInvariant, FilesTypeOK, HandlersFit, Handler
  <2>3. h \in Working /\ h.phase = "ADMITTED" /\ handler' = [handler EXCEPT ![r] = h]
    BY <1>3, <2>2 DEF UploadAdmitted, Working, Phase, FilesInvariant, FilesTypeOK
  <2>4. h \in Handler /\ Fits(h)
    BY <2>2, <2>3 DEF Handler, Working, Fits
  <2> QED BY <1>3, <2>1, <2>3, <2>4, ReadingStep DEF UploadAdmitted
<1>4. ASSUME AddEvidence(r) \/ AddReference(r) PROVE FilesInvariant'
  <2>1. /\ lock = None /\ handler[r] # Idle /\ handler[r].expected = Context
        /\ handler[r].kind \in FileKind /\ handler[r].kind \notin OutputKind
        /\ Context < MaxContext
    BY <1>4 DEF AddEvidence, AddReference, Acceptable, FileKind, OutputKind, NativeKind,
                Idle
  <2>2. ASSUME NEW row \in rows, AnswersDuplicate(r, row) PROVE FilesInvariant'
    BY <2>1, <2>2, DuplicateStep
  <2>3. ASSUME NEW key \in ObjectKeys, Stores(r, key) PROVE FilesInvariant'
    BY <2>1, <2>3, StoreStep
  <2> QED BY <1>4, <2>2, <2>3 DEF AddEvidence, AddReference, FilesOf
<1> QED BY <1>1, <1>2, <1>3, <1>4 DEF UploadNext

\* The handlers of outputs.
LEMMA OutputStep ==
  ASSUME FilesInvariant, NEW r \in Requests, OutputNext(r) PROVE FilesInvariant'
<1>1. ASSUME NEW m \in Members, NEW expected \in 1..Context, NEW k \in Commands,
             NEW content \in Documents, ImportBegins(r, m, content, expected, k)
      PROVE  FilesInvariant'
  <2>1. content \in Content /\ Fits(Started("IMPORTED", m, content, expected, k, None))
    BY DEF Started, Fits, FileKind, OutputKind, NativeKind, Content
  <2> QED BY <1>1, <2>1, StartStep DEF ImportBegins, FileKind, OutputKind, NativeKind
<1>2. ASSUME NEW m \in Members, NEW expected \in 1..Context, NEW k \in Commands,
             NEW receipt \in Receipts, TextBegins(r, m, receipt, expected, k)
      PROVE  FilesInvariant'
  <2>1. TextOf(receipt) \in Content /\ Fits(Started("NATIVE_TEXT", m, TextOf(receipt), expected, k, receipt))
    BY <1>2 DEF TextBegins, Usable, NativeContent, TextOf, Started, Fits, FileKind, OutputKind, NativeKind, Content
  <2> QED BY <1>2, <2>1, StartStep DEF TextBegins, FileKind, OutputKind, NativeKind
<1>3. ASSUME NEW m \in Members, NEW expected \in 1..Context, NEW k \in Commands,
             NEW receipt \in Receipts, FileBegins(r, m, receipt, expected, k)
      PROVE  FilesInvariant'
  <2>1. FileOf(receipt, project) \in Content /\ Fits(Started("NATIVE_FILE", m, FileOf(receipt, project), expected, k, receipt))
    BY <1>3 DEF FilesInvariant, FilesTypeOK,
       FileBegins, Usable, NativeContent, FileOf, Started, Fits, FileKind, OutputKind, NativeKind, Content
  <2> QED BY <1>3, <2>1, StartStep DEF FileBegins, FileKind, OutputKind, NativeKind
<1>4. ASSUME OutputReplayed(r) PROVE FilesInvariant'
  BY <1>4, ReadingStep DEF OutputReplayed, SaveAdmitted, Ends, Handler, Writing, Idle
<1>5. ASSUME OutputWritten(r) PROVE FilesInvariant'
  <2>1. /\ lock = None /\ handler[r] # Idle /\ handler[r].expected = Context
        /\ handler[r].kind \notin FileKind /\ handler[r].member \in editors
    BY <1>5 DEF OutputWritten, SaveAdmitted, FileKind, OutputKind, NativeKind, Idle
  <2>2. ASSUME NEW key \in ObjectKeys, Stores(r, key) PROVE FilesInvariant'
    BY <2>1, <2>2, StoreStep
  <2> QED BY <1>5, <2>2 DEF OutputWritten
<1> QED BY <1>1, <1>2, <1>3, <1>4, <1>5 DEF OutputNext

\* What a handler has stored is flushed and committed, or fails.
LEMMA RowStep ==
  ASSUME FilesInvariant, NEW r \in Requests, RowNext(r) PROVE FilesInvariant'
<1>1. CASE Flushed(r)
  BY <1>1, FlushStep
<1>2. CASE UploadFails(r) \/ OutputFails(r) \/ RolledBack(r)
  BY <1>2, FailStep DEF UploadFails, OutputFails, RolledBack, Writing
<1>3. CASE Committed(r)
  BY <1>3, CommitStep DEF Committed, Writing, FilesInvariant, FilesTypeOK
<1>4. CASE CommittedUnacknowledged(r)
  <2>1. Writing(r) /\ handler[r].key \in ObjectKeys
    BY <1>4 DEF CommittedUnacknowledged, Writing, FilesInvariant, FilesTypeOK
  <2>2. /\ excused \subseteq excused' /\ excused' \subseteq ObjectKeys
        /\ faults' \in 0..MaxFaults
    BY <1>4, <2>1, FilesAssumption
       DEF CommittedUnacknowledged, Abandon, FilesInvariant, FilesTypeOK
  <2> QED BY <1>4, <2>1, <2>2, CommitStep DEF CommittedUnacknowledged, Abandon
<1> QED BY <1>1, <1>2, <1>3, <1>4 DEF RowNext

LEMMA FilesStep == ASSUME FilesInvariant, FilesNext PROVE FilesInvariant'
<1>1. ASSUME NEW r \in Requests, Refused(r) PROVE FilesInvariant'
  BY <1>1, ReadingStep DEF Refused, Ends, Handler, Writing, Idle
<1>2. Version \in Nat
  BY FilesAssumption DEF FilesInvariant, FilesTypeOK, Version, Context
<1>3. ASSUME NEW version \in {Version, Version + 1}, CaseMoves(version)
      PROVE  FilesInvariant'
  BY <1>2, <1>3, CaseMovesStep
<1> QED BY <1>1, <1>3, UploadStep, OutputStep, RowStep, AroundStep, BytesLostStep,
           BundleStep DEF FilesNext

LEMMA FilesStutter == ASSUME FilesInvariant, UNCHANGED fileVars PROVE FilesInvariant'
BY DEF fileVars, FilesInvariant, FilesTypeOK, HandlersFit, WritersHold, FilesPrecede,
       BytesOutliveRows, OrphansAreExplained, BundleDated, BundlesAreWhole, Writing,
       Context

-----------------------------------------------------------------------------
(***************************************************************************)
(* Handlers, objects, rows and bundles agree in every reachable state.     *)
(***************************************************************************)
THEOREM FilesInvariantHolds == FilesSpec => []FilesInvariant
<1>1. FilesInvariant /\ [FilesNext]_fileVars => FilesInvariant'
  BY FilesStep, FilesStutter
<1> QED BY <1>1, FilesStart, PTL DEF FilesSpec

(***************************************************************************)
(* Rows, objects and handlers keep their types, and one handler at a time  *)
(* holds the case and writes.                                              *)
(***************************************************************************)
THEOREM FilesTypeCorrect == FilesSpec => []FilesTypeOK
<1>1. FilesInvariant => FilesTypeOK
  BY DEF FilesInvariant
<1> QED BY <1>1, FilesInvariantHolds, PTL

(***************************************************************************)
(* No failure of a handler takes the bytes of a committed file.            *)
(***************************************************************************)
THEOREM BytesOutlive == FilesSpec => []BytesOutliveRows
<1>1. FilesInvariant => BytesOutliveRows
  BY DEF FilesInvariant
<1> QED BY <1>1, FilesInvariantHolds, PTL

(***************************************************************************)
(* An object without a row was left by a fault, or is about to get a row.  *)
(***************************************************************************)
THEOREM OrphansExplained == FilesSpec => []OrphansAreExplained
<1>1. FilesInvariant => OrphansAreExplained
  BY DEF FilesInvariant
<1> QED BY <1>1, FilesInvariantHolds, PTL

(***************************************************************************)
(* A native request carries all files of its context, or none.             *)
(***************************************************************************)
THEOREM BundlesWhole == FilesSpec => []BundlesAreWhole
<1>1. FilesInvariant => BundlesAreWhole
  BY DEF FilesInvariant
<1> QED BY <1>1, FilesInvariantHolds, PTL

(***************************************************************************)
(* An output is added under the access and the context it was asked for,   *)
(* of the answer it names, by the member who asked.                        *)
(***************************************************************************)
THEOREM OutputsCurrent == FilesSpec => OutputsAreCurrent
<1> DEFINE AddedCurrent ==
      \A row \in rows' \ rows : row.kind \in OutputKind =>
          /\ row.member \in editors
          /\ row.context = Context
          /\ row.version = Version
          /\ row.kind \in NativeKind =>
                /\ ContextOf[row.source] = row.context
                /\ row.content \in {TextOf(row.source),
                                    FileOf(row.source, ProjectOf[row.source])}
<1>1. ASSUME FilesInvariant, [FilesNext]_fileVars PROVE [AddedCurrent]_fileVars
  <2>1. ASSUME NEW r \in Requests, Takes(r), Writing(r) PROVE AddedCurrent
    <3>1. CASE handler[r].kind \in OutputKind
      <4>1. rows' = rows \cup {OutputRow(handler[r])}
        BY <2>1, <3>1 DEF Takes, FileKind, OutputKind, NativeKind
      <4>2. Fits(handler[r])
        BY <1>1, <2>1 DEF FilesInvariant, HandlersFit, Writing, Idle
      <4>3. handler[r].member \in editors /\ handler[r].expected = Context
        BY <1>1, <2>1, <3>1 DEF FilesInvariant, WritersHold
      <4> QED BY <3>1, <4>1, <4>2, <4>3 DEF OutputRow, Fits, NativeKind
    <3>2. CASE handler[r].kind \notin OutputKind
      <4>1. rows' = rows \cup {FileRow(handler[r])} /\ handler[r].kind \in FileKind
        BY <2>1, <3>2 DEF Takes
      <4> QED BY <3>2, <4>1 DEF FileRow
    <3> QED BY <3>1, <3>2
  <2>2. ASSUME UNCHANGED rows PROVE AddedCurrent
    BY <2>2
  <2>3. ASSUME NEW r \in Requests, RowNext(r) PROVE AddedCurrent
    BY <2>1, <2>2, <2>3 DEF RowNext, Flushed, UploadFails, OutputFails, Committed,
       CommittedUnacknowledged, RolledBack, Writing, databaseVars
  <2>4. ASSUME NEW r \in Requests, Refused(r) \/ UploadNext(r) \/ OutputNext(r)
        PROVE  UNCHANGED rows
    BY <2>4 DEF Refused, UploadNext, OutputNext, EvidenceBegins, ReferenceBegins, Begins,
       UploadAdmitted, AddEvidence, AddReference, AnswersDuplicate, Stores, ImportBegins,
       TextBegins, FileBegins, OutputReplayed, OutputWritten, databaseVars
  <2>5. ASSUME \/ \E version \in {Version, Version + 1} : CaseMoves(version)
               \/ \E m \in Members : AccessChanges(m)
               \/ \E p \in Projects : SettingsChange(p)
               \/ \E key \in ObjectKeys : BytesLost(key)
               \/ \E vision \in BOOLEAN : BundlePrepared(vision)
               \/ UNCHANGED fileVars
        PROVE  UNCHANGED rows
    BY <2>5 DEF CaseMoves, AccessChanges, SettingsChange, BytesLost, BundlePrepared,
       databaseVars, fileVars
  <2> QED BY <1>1, <2>2, <2>3, <2>4, <2>5 DEF FilesNext
<1>2. [][AddedCurrent]_fileVars <=> OutputsAreCurrent
  BY DEF OutputsAreCurrent
<1> QED BY <1>1, <1>2, FilesInvariantHolds, PTL DEF FilesSpec
=============================================================================
