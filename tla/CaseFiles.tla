----------------------------- MODULE CaseFiles -----------------------------
(***************************************************************************)
(* The files of one case: data and reference images that members upload,   *)
(* and outputs that they import or take from a native answer.  A file is   *)
(* bytes in an object store and a row in the database, which no            *)
(* transaction writes together: the bytes go first, under a key of their   *)
(* own, then the row is flushed and committed under the lock of the case.  *)
(* A failure before the commit deletes the bytes if it can; a commit that  *)
(* is not acknowledged keeps them.                                         *)
(*                                                                         *)
(* Body, archive and provider are read without a lock.  A handler that is  *)
(* refused, by a guard of the action it waits for, ends with Refused.      *)
(***************************************************************************)
EXTENDS Integers, Sequences, FiniteSets

CONSTANTS
    Requests,     \* handlers
    Members,      \* active memberships of the company
    Admins,       \* the members whose role can_invite, who may use native answers
    Tables,       \* contents that parse as CSV or XLSX
    Images,       \* contents that are a PNG or a JPEG
    Inline,       \* the files of either kind that may be sent in a request
    Documents,    \* contents that members import as outputs
    Receipts,     \* native answers, each with a text and a file
    Projects,     \* provider profiles
    ProjectOf,    \* the profile an answer was received with
    ContextOf,    \* the context version an answer is of
    Commands,     \* command keys
    ObjectKeys,   \* names of stored objects, never used twice
    MaxItems,     \* files of a kind that the upload policy allows in a request
    MaxContext,   \* bound: context versions of the case
    MaxFaults,    \* bound: processes that stop, objects and acknowledgements lost
    Unused,       \* the name of no object yet
    Deleted,      \* the object was deleted
    Damaged,      \* the storage lost the bytes or changed them
    None

ASSUME FilesAssumption ==
    /\ Admins \subseteq Members
    /\ ProjectOf \in [Receipts -> Projects]
    /\ ContextOf \in [Receipts -> Nat \ {0}]
    /\ None \notin Requests \cup ObjectKeys \cup Receipts \cup Commands
    /\ MaxItems \in Nat /\ MaxContext \in Nat \ {0} /\ MaxFaults \in Nat

VARIABLES
    requestOf,  \* the request version of each context version the case has had
    editors,    \* members with an active grant to edit the case
    project,    \* provider profile of the current settings
    bytes,      \* the object store
    rows,       \* case_evidence_versions, case_reference_materials, request_outputs
    handler,    \* the request handlers
    lock,       \* the handler whose transaction holds the case row
    excused,    \* objects that a fault may leave without a row
    faults,     \* number of faults
    bundle      \* files sent with the last native request

fileVars == <<requestOf, editors, project, bytes, rows, handler, lock, excused,
              faults, bundle>>

FileKind == {"DATA", "SUPPORTING"}
NativeKind == {"NATIVE_TEXT", "NATIVE_FILE"}
OutputKind == {"IMPORTED"} \cup NativeKind

\* What an answer says, and the file it cites, which is one of a project.
TextOf(receipt) == <<receipt, None>>
FileOf(receipt, p) == <<receipt, p>>
NativeContent == Receipts \X (Projects \cup {None})
Content == Tables \cup Images \cup Documents \cup NativeContent

\* What a name of the store stands for, other than bytes.
NoBytes == {Unused, Deleted, Damaged}

ASSUME NamesAssumption ==
    /\ Unused # Deleted /\ Damaged \notin {Unused, Deleted}
    /\ Content \cap NoBytes = {}

Context == Len(requestOf)
Version == requestOf[Context]

EvidenceRow ==
    [kind: {"DATA"}, key: ObjectKeys, content: Tables, version: Nat, context: Nat]
ReferenceMaterialRow ==
    [kind: {"SUPPORTING"}, key: ObjectKeys, content: Images, version: Nat, context: Nat]
RequestOutputRow ==
    [kind: OutputKind, key: ObjectKeys, content: Documents \cup NativeContent,
     version: Nat, context: Nat, member: Members, command: Commands,
     source: Receipts \cup {None}]

Idle == [phase |-> "IDLE"]
Phase == {"BODY", "ADMITTED", "STORED", "FLUSHED"}
Working ==
    [phase: Phase, kind: FileKind \cup OutputKind, member: Members,
     content: Content, expected: Nat, command: Commands \cup {None},
     source: Receipts \cup {None}, key: ObjectKeys \cup {None}]
Handler == {Idle} \cup Working

\* The handler has written an object and its transaction holds the case.
Writing(r) == handler[r].phase \in {"STORED", "FLUSHED"}

FilesTypeOK ==
    /\ requestOf \in Seq(Nat)
    /\ Context \in 1..MaxContext
    /\ editors \subseteq Members
    /\ project \in Projects
    /\ bytes \in [ObjectKeys -> Content \cup NoBytes]
    /\ rows \subseteq EvidenceRow \cup ReferenceMaterialRow \cup RequestOutputRow
    /\ handler \in [Requests -> Handler]
    /\ lock \in Requests \cup {None}
    /\ \A r \in Requests : Writing(r) => lock = r /\ handler[r].key \in ObjectKeys
    /\ excused \subseteq ObjectKeys
    /\ faults \in 0..MaxFaults
    /\ bundle.context \in Nat /\ bundle.contents \subseteq Tables \cup Images

FilesInit ==
    /\ requestOf = <<1>>
    /\ editors = Members
    /\ project \in Projects
    /\ bytes = [key \in ObjectKeys |-> Unused]
    /\ rows = {}
    /\ handler = [r \in Requests |-> Idle]
    /\ lock = None
    /\ excused = {}
    /\ faults = 0
    /\ bundle = [context |-> 0, contents |-> {}]

-----------------------------------------------------------------------------
(* The stores.                                                              *)

\* The store reads an object only if its bytes have the digest asked for.
Reads(key, content) == bytes[key] = content

\* The bytes under the key of a row are the ones it names.
Intact(row) == Reads(row.key, row.content)

\* A new object: LocalEvidenceStore and LocalArtifactStore take a fresh name
\* and leave nothing behind when they fail.
Put(key, content) ==
    /\ bytes[key] = Unused
    /\ bytes' = [bytes EXCEPT ![key] = content]

\* The whole object is replaced by bytes with the digest of its row.
Restore(row) == bytes' = [bytes EXCEPT ![row.key] = row.content]

Delete(key) == bytes' = [bytes EXCEPT ![key] = Deleted]

\* The deletion of an object whose row was refused; it may fail.
Cleanup(key) ==
    \/ /\ Delete(key)
       /\ UNCHANGED <<excused, faults>>
    \/ /\ faults < MaxFaults
       /\ faults' = faults + 1
       /\ excused' = excused \cup {key}
       /\ UNCHANGED bytes

\* The object is left as it is, though its row may not exist.
Abandon(key) ==
    /\ faults < MaxFaults
    /\ faults' = faults + 1
    /\ excused' = excused \cup {key}
    /\ UNCHANGED bytes

-----------------------------------------------------------------------------
(* Requests and their access.                                               *)

\* What a handler knows when it starts to read a body, an archive or a provider.
Started(kind, m, content, expected, command, source) ==
    [phase |-> "BODY", kind |-> kind, member |-> m, content |-> content,
     expected |-> expected, command |-> command, source |-> source, key |-> None]

databaseVars == <<requestOf, editors, project, rows>>

Begins(r, started) ==
    /\ handler[r] = Idle
    /\ handler' = [handler EXCEPT ![r] = started]
    /\ UNCHANGED <<databaseVars, bytes, lock, excused, faults, bundle>>

Ends(r) == handler' = [handler EXCEPT ![r] = Idle]

\* A handler ends without having changed anything: a guard below refuses it,
\* the client is gone or the process stops.
Refused(r) ==
    /\ handler[r].phase \in {"BODY", "ADMITTED"}
    /\ Ends(r)
    /\ UNCHANGED <<databaseVars, bytes, lock, excused, faults, bundle>>

\* What qualifies a file of either kind: parse_evidence, qualified_image.
Tabular(content) == content \in Tables
Picture(content) == content \in Images

FilesOf(kind, version) == {row \in rows : row.kind = kind /\ row.version = version}

\* The row of a handler's object.
FileRow(h) ==
    [kind |-> h.kind, key |-> h.key, content |-> h.content,
     version |-> Version, context |-> h.expected]

OutputRow(h) ==
    [kind |-> h.kind, key |-> h.key, content |-> h.content,
     version |-> Version, context |-> h.expected,
     member |-> h.member, command |-> h.command, source |-> h.source]

\* The transaction takes effect.  A file advances the context of the case.
Takes(r) ==
    /\ \/ /\ handler[r].kind \in FileKind
          /\ rows' = rows \cup {FileRow(handler[r])}
          /\ requestOf' = Append(requestOf, Version)
       \/ /\ handler[r].kind \in OutputKind
          /\ rows' = rows \cup {OutputRow(handler[r])}
          /\ UNCHANGED requestOf
    /\ Ends(r)
    /\ lock' = None

\* CSV text and, where the profile has vision, images; no workbooks.
Sendable(row, vision) ==
    /\ Intact(row)
    /\ row.content \in Inline
    /\ row.kind = "SUPPORTING" => vision

-----------------------------------------------------------------------------
(* Wrong variants of the definitions below, each the effect of a plausible  *)
(* mistake in the code; no specification uses them.                         *)

\* The handler goes on without the name of what it stored.
StoresNameless(r, key) ==
    /\ Put(key, handler[r].content)
    /\ handler' = [handler EXCEPT ![r].phase = "STORED"]
    /\ lock' = r
    /\ UNCHANGED <<databaseVars, excused, faults, bundle>>

\* The access and the context are not read again after the body.
SaveTrustsFirstRead(r) ==
    /\ handler[r].phase = "BODY"
    /\ handler[r].kind \in OutputKind
    /\ lock = None

\* An exception of the commit deletes the bytes, as one of the flush does.
UnacknowledgedDeletes(r) ==
    /\ handler[r].phase = "FLUSHED"
    /\ Takes(r)
    /\ Delete(handler[r].key)
    /\ faults < MaxFaults
    /\ faults' = faults + 1
    /\ UNCHANGED <<editors, project, excused, bundle>>

\* A refused row leaves its bytes.
RefusalKeepsBytes(r) ==
    /\ handler[r].phase = "STORED"
    /\ Ends(r)
    /\ lock' = None
    /\ UNCHANGED <<databaseVars, bytes, excused, faults, bundle>>

\* The files that can be sent are, whatever becomes of the others.
UsableSubset(files, vision) ==
    {row.content : row \in {f \in files : Sendable(f, vision)}}

-----------------------------------------------------------------------------
(* Uploads of data and reference images.                                    *)

\* The actor and the upload policy are read before the body, the case is not.
EvidenceBegins(r, m, content, expected) ==
    Begins(r, Started("DATA", m, content, expected, None, None))

ReferenceBegins(r, m, content, expected) ==
    Begins(r, Started("SUPPORTING", m, content, expected, None, None))

\* authorized_case_access, before the lock of the case is waited for.
UploadAdmitted(r) ==
    /\ handler[r].phase = "BODY"
    /\ handler[r].kind \in FileKind
    /\ handler[r].member \in editors
    /\ handler' = [handler EXCEPT ![r].phase = "ADMITTED"]
    /\ UNCHANGED <<databaseVars, bytes, lock, excused, faults, bundle>>

\* The case is locked and still the one the client has seen, the request
\* has room for a file and the content qualifies.
Acceptable(r, kind) ==
    /\ handler[r].phase = "ADMITTED"
    /\ handler[r].kind = kind
    /\ lock = None
    /\ handler[r].expected = Context
    /\ Context < MaxContext
    /\ Cardinality(FilesOf(kind, Version)) < MaxItems

Stores(r, key) ==
    /\ Put(key, handler[r].content)
    /\ handler' = [handler EXCEPT ![r].phase = "STORED", ![r].key = key]
    /\ lock' = r
    /\ UNCHANGED <<databaseVars, excused, faults, bundle>>

\* A content that the request has is answered with its row; if the bytes of
\* that row cannot be read they are restored from the upload.
AnswersDuplicate(r, row) ==
    /\ row.content = handler[r].content
    /\ IF Intact(row) THEN UNCHANGED bytes ELSE Restore(row)
    /\ Ends(r)
    /\ UNCHANGED <<databaseVars, lock, excused, faults, bundle>>

\* A content that the request does not have is stored.
IsNew(r, kind) == \A row \in FilesOf(kind, Version) : row.content # handler[r].content

AddEvidence(r) ==
    /\ Acceptable(r, "DATA")
    /\ Tabular(handler[r].content)
    /\ \/ \E row \in FilesOf("DATA", Version) : AnswersDuplicate(r, row)
       \/ IsNew(r, "DATA") /\ \E key \in ObjectKeys : Stores(r, key)

AddReference(r) ==
    /\ Acceptable(r, "SUPPORTING")
    /\ Picture(handler[r].content)
    /\ \/ \E row \in FilesOf("SUPPORTING", Version) : AnswersDuplicate(r, row)
       \/ IsNew(r, "SUPPORTING") /\ \E key \in ObjectKeys : Stores(r, key)

-----------------------------------------------------------------------------
(* Outputs.                                                                 *)

\* An imported file: the access is tested before the body.
ImportBegins(r, m, content, expected, command) ==
    /\ m \in editors
    /\ Begins(r, Started("IMPORTED", m, content, expected, command, None))

\* An answer of the context the client has seen, which the case still has.
Usable(receipt, expected) == ContextOf[receipt] = expected /\ expected = Context

\* The text of an answer, from the archive.
TextBegins(r, m, receipt, expected, command) ==
    /\ m \in Admins \cap editors
    /\ Usable(receipt, expected)
    /\ Begins(r, Started("NATIVE_TEXT", m, TextOf(receipt), expected, command, receipt))

OutputsOf(m, command) ==
    {row \in rows : row.kind \in OutputKind /\ row.member = m /\ row.command = command}

\* The file of an answer.  The archive is read first, then the access and
\* the case again; a command already done is answered without the provider;
\* otherwise the file is fetched with the profile of the current settings,
\* which must be the one the answer was received with.
FileBegins(r, m, receipt, expected, command) ==
    /\ m \in Admins \cap editors
    /\ Usable(receipt, expected)
    /\ OutputsOf(m, command) = {}
    /\ project = ProjectOf[receipt]
    /\ Begins(r, Started("NATIVE_FILE", m, FileOf(receipt, project), expected, command, receipt))

\* save reads everything again, under the lock of case, grant and membership;
\* for a fetched file the connection must still be the current one.
SaveAdmitted(r) ==
    /\ handler[r].phase = "BODY"
    /\ handler[r].kind \in OutputKind
    /\ lock = None
    /\ handler[r].member \in editors
    /\ handler[r].expected = Context
    /\ handler[r].kind = "NATIVE_FILE" => project = ProjectOf[handler[r].source]

SamePayload(row, h) ==
    /\ row.context = h.expected
    /\ row.kind = h.kind
    /\ row.source = h.source
    /\ row.content = h.content

\* The command was done: its output is the answer.
OutputReplayed(r) ==
    /\ SaveAdmitted(r)
    /\ \E row \in OutputsOf(handler[r].member, handler[r].command) :
          SamePayload(row, handler[r])
    /\ Ends(r)
    /\ UNCHANGED <<databaseVars, bytes, lock, excused, faults, bundle>>

OutputWritten(r) ==
    /\ SaveAdmitted(r)
    /\ OutputsOf(handler[r].member, handler[r].command) = {}
    /\ \E key \in ObjectKeys : Stores(r, key)

-----------------------------------------------------------------------------
(* The row of what was stored.                                              *)

\* The bytes are read back and the row is flushed.
Flushed(r) ==
    /\ handler[r].phase = "STORED"
    /\ Reads(handler[r].key, handler[r].content)
    /\ handler' = [handler EXCEPT ![r].phase = "FLUSHED"]
    /\ UNCHANGED <<databaseVars, bytes, lock, excused, faults, bundle>>

\* The upload cannot be read back, or its row is refused: the bytes go.
UploadFails(r) ==
    /\ handler[r].phase = "STORED"
    /\ handler[r].kind \in FileKind
    /\ Cleanup(handler[r].key)
    /\ Ends(r)
    /\ lock' = None
    /\ UNCHANGED <<databaseVars, bundle>>

\* Of an output only a row that the database refuses takes the bytes with
\* it: an object that cannot be read back raises past the cleanup.
OutputFails(r) ==
    /\ handler[r].phase = "STORED"
    /\ handler[r].kind \in OutputKind
    /\ Cleanup(handler[r].key) \/ Abandon(handler[r].key)
    /\ Ends(r)
    /\ lock' = None
    /\ UNCHANGED <<databaseVars, bundle>>

Committed(r) ==
    /\ handler[r].phase = "FLUSHED"
    /\ Takes(r)
    /\ UNCHANGED <<editors, project, bytes, excused, faults, bundle>>

\* The commit takes effect and its acknowledgement is lost: nothing is deleted.
CommittedUnacknowledged(r) ==
    /\ handler[r].phase = "FLUSHED"
    /\ Takes(r)
    /\ Abandon(handler[r].key)
    /\ UNCHANGED <<editors, project, bundle>>

\* The commit has no effect, or the process stops after the first byte.
RolledBack(r) ==
    /\ Writing(r)
    /\ Ends(r)
    /\ lock' = None
    /\ Abandon(handler[r].key)
    /\ UNCHANGED <<databaseVars, bundle>>

-----------------------------------------------------------------------------
(* What happens beside.                                                     *)

\* A conversation event, or a new version of the request.
CaseMoves(version) ==
    /\ lock = None
    /\ Context < MaxContext
    /\ requestOf' = Append(requestOf, version)
    /\ UNCHANGED <<editors, project, rows, bytes, handler, lock, excused, faults, bundle>>

\* Grants change, except one that the transaction of an output has locked.
AccessChanges(m) ==
    /\ \A r \in Requests : Writing(r) /\ handler[r].kind \in OutputKind => handler[r].member # m
    /\ editors' = (editors \ {m}) \cup ({m} \ editors)
    /\ UNCHANGED <<requestOf, project, rows, bytes, handler, lock, excused, faults, bundle>>

SettingsChange(p) ==
    /\ p # project
    /\ project' = p
    /\ UNCHANGED <<requestOf, editors, rows, bytes, handler, lock, excused, faults, bundle>>

\* The storage loses or damages an object.
BytesLost(key) ==
    /\ bytes[key] \notin NoBytes
    /\ faults < MaxFaults
    /\ faults' = faults + 1
    /\ bytes' = [bytes EXCEPT ![key] = Damaged]
    /\ UNCHANGED <<databaseVars, handler, lock, excused, bundle>>

-----------------------------------------------------------------------------
(* The files of a native request.                                           *)

\* Everything the request has, or nothing.
Sources(files, vision) ==
    IF \A row \in files : Sendable(row, vision) THEN {row.content : row \in files} ELSE {}

\* prepare_case_files, under the lock of the case.
BundlePrepared(vision) ==
    /\ lock = None
    /\ bundle' = [context |-> Context,
                  contents |-> Sources(FilesOf("DATA", Version) \cup FilesOf("SUPPORTING", Version),
                                       vision)]
    /\ UNCHANGED <<databaseVars, bytes, handler, lock, excused, faults>>

\* The routes that add a file ...
UploadNext(r) ==
    \/ \E m \in Members, expected \in 1..Context :
        \/ \E content \in Tables : EvidenceBegins(r, m, content, expected)
        \/ \E content \in Images : ReferenceBegins(r, m, content, expected)
    \/ UploadAdmitted(r)
    \/ AddEvidence(r)
    \/ AddReference(r)

\* ... and the ones that add an output.
OutputNext(r) ==
    \/ \E m \in Members, expected \in 1..Context, k \in Commands :
        \/ \E content \in Documents : ImportBegins(r, m, content, expected, k)
        \/ \E receipt \in Receipts : TextBegins(r, m, receipt, expected, k)
        \/ \E receipt \in Receipts : FileBegins(r, m, receipt, expected, k)
    \/ OutputReplayed(r)
    \/ OutputWritten(r)

RowNext(r) ==
    \/ Flushed(r)
    \/ UploadFails(r)
    \/ OutputFails(r)
    \/ Committed(r)
    \/ CommittedUnacknowledged(r)
    \/ RolledBack(r)

FilesNext ==
    \/ \E r \in Requests : Refused(r) \/ UploadNext(r) \/ OutputNext(r) \/ RowNext(r)
    \/ \E version \in {Version, Version + 1} : CaseMoves(version)
    \/ \E m \in Members : AccessChanges(m)
    \/ \E p \in Projects : SettingsChange(p)
    \/ \E key \in ObjectKeys : BytesLost(key)
    \/ \E vision \in BOOLEAN : BundlePrepared(vision)

FilesSpec == FilesInit /\ [][FilesNext]_fileVars

-----------------------------------------------------------------------------
(* Properties.                                                              *)

\* No handler takes the bytes from a row: whatever fails, stops or is not
\* acknowledged, the object of a committed row holds its content until the
\* storage itself loses it, and no two rows share an object.
BytesOutliveRows ==
    /\ \A row \in rows : bytes[row.key] \in {row.content, Damaged}
    /\ \A row1, row2 \in rows : row1.key = row2.key => row1 = row2

\* An object that no row names and no handler is about to name was left by a
\* fault: a process that stopped, a commit without an acknowledgement, a
\* deletion that failed, or an output that could not be read back.
OrphansAreExplained ==
    \A key \in ObjectKeys :
        \/ bytes[key] \in {Unused, Deleted}
        \/ key \in excused
        \/ \E row \in rows : row.key = key
        \/ \E r \in Requests : Writing(r) /\ handler[r].key = key

\* An output is added by a member who may edit the case at that moment, to
\* the context the case has at that moment, although it took a body, an
\* archive or a provider to get it; what is taken from an answer is what that
\* answer, or the project it was received from, has, of the same context.
OutputsAreCurrent ==
    [][\A row \in rows' \ rows : row.kind \in OutputKind =>
          /\ row.member \in editors
          /\ row.context = Context
          /\ row.version = Version
          /\ row.kind \in NativeKind =>
                /\ ContextOf[row.source] = row.context
                /\ row.content \in {TextOf(row.source), FileOf(row.source, ProjectOf[row.source])}
      ]_fileVars

\* A native request carries all files that the case had at the context it is
\* for, or none.
BundlesAreWhole ==
    \/ bundle.contents = {}
    \/ bundle.contents =
         {row.content : row \in {f \in rows : /\ f.kind \in FileKind
                                              /\ f.version = requestOf[bundle.context]
                                              /\ f.context < bundle.context}}
=============================================================================
