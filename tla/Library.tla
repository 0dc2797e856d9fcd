------------------------------- MODULE Library -------------------------------
(***************************************************************************)
(* The library and what it creates: crates/library, crates/transfer and    *)
(* the commands of library_commands.rs.  A library command holds the       *)
(* library's lock from start to end, so one runs at a time; it works on    *)
(* folders beside each other: a staging folder that is filled file by file *)
(* and renamed to the final one.  The process may die, or a file operation *)
(* fail, between any two steps, and the author retries the operation, also *)
(* after the sources changed, or moves and copies project folders.         *)
(***************************************************************************)
EXTENDS Naturals, Sequences, FiniteSets

CONSTANTS
    Operations,    \* operation identities
    AttemptLimit,  \* bound on the projects one operation may stage
    ChangeLimit,   \* bound on what the author changes outside the library
    FaultLimit     \* bound on crashes and failed file operations

\* No operation has the name that stands for none.
ASSUME LibraryConstants ==
    {AttemptLimit, ChangeLimit, FaultLimit} \subseteq Nat /\ "none" \notin Operations

VARIABLES
    lib,       \* the library database: operations, entries and archived projects
    folders,   \* folders[op]: its staging, final and moved or copied folder
    source,    \* the live project, the chosen backup and the V2 project
    cmd,       \* the library command under way
    open,      \* where each project identity is open in this process
    budget

vars == <<lib, folders, source, cmd, open, budget>>

None == <<"none", 0>>
Live == <<"live", 0>>
Identities == {<<op, n>> : op \in Operations, n \in 1..AttemptLimit}
Places == {"staging", "final", "away"}

\* A project database: the state of its story, its identity, and the rows that
\* repeat the identity: source pins and the manifest of an import.
NoDb == [story |-> 0, ident |-> None, pins |-> None, manifest |-> None, ready |-> FALSE]
NoFolder == [db |-> NoDb, marker |-> None, origin |-> FALSE, exists |-> FALSE]
NoOp == [kind |-> "none", basis |-> 0, completed |-> FALSE]
Idle == [at |-> "idle", op |-> "none", kind |-> "none", basis |-> 0, held |-> NoDb]

\* validate_source_pin_storage, validate_import_storage, validate_database: the
\* rows belong to the identity of the database, which is the expected one.
PinsValid(db) == db.pins \in {None, db.ident}
ImportValid(db) == db.manifest \in {None, db.ident}
ValidDatabase(db, ident) == db.ident = ident /\ PinsValid(db) /\ ImportValid(db)

Init ==
    /\ lib = [ops |-> [op \in Operations |-> NoOp],
              entries |-> [i \in Identities |-> None], archived |-> {}]
    /\ folders = [op \in Operations |-> [p \in Places |-> NoFolder]]
    /\ \E manifest \in {None, Live} :
         LET live == [story |-> 1, ident |-> Live, ready |-> TRUE, pins |-> Live, manifest |-> manifest]
         IN  source = [duplicate |-> live, recover |-> live, import |-> live]
    /\ cmd = Idle
    /\ open = [i \in Identities |-> None]
    /\ budget = [changes |-> 0, faults |-> 0, staged |-> [op \in Operations |-> 0]]

-----------------------------------------------------------------------------
\* The start of a command.

\* What the operation's row keeps of the request: the basis of a duplicate
\* (capture_duplicate_basis), the digest of the backup (begin_recovery), the
\* fingerprint of the reviewed V2 source (request_fingerprint).
Basis(kind) == IF kind = "create" THEN 0 ELSE source[kind].story

\* require_available: a completed operation whose folder is gone makes no other.
Available(op) == lib.ops[op].completed => folders[op]["final"].exists

\* library_create, library_duplicate, library_recover, import_v2 and its
\* resumption, up to the row of the operation.
Request(op, kind) ==
    /\ cmd = Idle
    /\ \/ /\ lib.ops[op] = NoOp
          /\ kind # "create" => source[kind] # NoDb
          /\ cmd' = [at |-> "begin", op |-> op, kind |-> kind, basis |-> Basis(kind), held |-> NoDb]
       \/ /\ lib.ops[op].kind = kind /\ Available(op)
          /\ cmd' = [at |-> "look", op |-> op, kind |-> kind, basis |-> lib.ops[op].basis,
                     held |-> NoDb]
    /\ UNCHANGED <<lib, folders, source, open, budget>>

\* Library::begin: the operation is recorded before any file is touched.
Begin ==
    /\ cmd.at = "begin"
    /\ lib' = [lib EXCEPT !.ops[cmd.op] =
                 [kind |-> cmd.kind, basis |-> cmd.basis, completed |-> FALSE]]
    /\ cmd' = [cmd EXCEPT !.at = "look"]
    /\ UNCHANGED <<folders, source, open, budget>>

-----------------------------------------------------------------------------
\* What an earlier attempt left.

Staging == folders[cmd.op]["staging"]
Final == folders[cmd.op]["final"]
Path(op, place) == <<op, place>>
Exists(path) == path # None /\ folders[path[1]][path[2]].exists

\* DesktopProjects::open: an identity is open in one folder.
MayOpen(ident, path) == open[ident] \in {None, path}

\* read_import_result: the folder carries the manifest of its own import.
ImportRead(f) == f.origin /\ f.marker = f.db.ident
                   /\ ValidDatabase(f.db, f.marker) /\ f.db.manifest = f.db.ident

\* The final folder is there: it is opened again, an import only read.
Reuse ==
    /\ cmd.at = "look" /\ Final.exists /\ Final.origin
    /\ IF cmd.kind = "import"
       THEN ImportRead(Final) /\ UNCHANGED open
       ELSE /\ MayOpen(Final.db.ident, Path(cmd.op, "final"))
            /\ open' = [open EXCEPT ![Final.db.ident] = Path(cmd.op, "final")]
    /\ cmd' = [cmd EXCEPT !.at = "register"]
    /\ UNCHANGED <<lib, folders, source, budget>>

\* Mutant: any staging folder of the operation is taken for a prepared one.
PreparedByOrigin(f, kind) == f.origin

\* A staging folder is complete: its origin is there and it validates
\* (recover_backup_staged, recover_import_staging, create_staged).
Prepared(f, kind) ==
    /\ f.origin
    /\ kind # "create" => f.marker = f.db.ident /\ ValidDatabase(f.db, f.marker)
    /\ kind = "import" => ImportRead(f)

\* A prepared staging folder is installed without its source.
Resume ==
    /\ cmd.at = "look" /\ ~Final.exists /\ Staging.exists /\ Prepared(Staging, cmd.kind)
    /\ cmd' = [cmd EXCEPT !.at = "install"]
    /\ UNCHANGED <<lib, folders, source, open, budget>>

\* Any other staging folder is kept for inspection and the command refused.
RefuseStaging ==
    /\ cmd.at = "look" /\ ~Final.exists /\ Staging.exists /\ ~Prepared(Staging, cmd.kind)
    /\ cmd' = Idle
    /\ UNCHANGED <<lib, folders, source, open, budget>>

\* create_backup: a copy of the live database that validates.
Backup(db) == IF ValidDatabase(db, db.ident) THEN db ELSE NoDb

\* validate_duplicate_basis, the digest of begin_recovery, validate_source: what
\* is read now is what the operation was recorded for.
SameBasis(db) == db # NoDb /\ db.story = cmd.basis

\* Nothing was staged: the source is read again.
FromNothing == cmd' = [cmd EXCEPT !.at = "mkdir"]
\* The digest of the backup is compared first; then it is read.
FromBackup == cmd' = IF SameBasis(source.recover) THEN [cmd EXCEPT !.at = "read"] ELSE Idle
\* The live project is backed up to a temporary file, which must hold the basis.
FromProject ==
    LET db == Backup(source.duplicate)
    IN  cmd' = IF SameBasis(db) THEN [cmd EXCEPT !.at = "mkdir", !.held = db] ELSE Idle
\* The V2 project is read again and compared with what was reviewed.
FromV2 ==
    cmd' = IF SameBasis(source.import)
           THEN [cmd EXCEPT !.at = "mkdir", !.held = source.import] ELSE Idle

Fresh ==
    /\ cmd.at = "look" /\ ~Final.exists /\ ~Staging.exists
    /\ budget.staged[cmd.op] < AttemptLimit
    /\ CASE cmd.kind = "create" -> FromNothing
         [] cmd.kind = "recover" -> FromBackup
         [] cmd.kind = "duplicate" -> FromProject
         [] cmd.kind = "import" -> FromV2
    /\ UNCHANGED <<lib, folders, source, open, budget>>

\* read_archive: the database of the backup, which matches its manifest.
ReadArchive ==
    /\ cmd.at = "read"
    /\ cmd' = IF source.recover = NoDb THEN Idle
              ELSE [cmd EXCEPT !.at = "mkdir", !.held = source.recover]
    /\ UNCHANGED <<lib, folders, source, open, budget>>

-----------------------------------------------------------------------------
\* Staging.

\* The files of a staging folder, in the order they are written (open_direct and
\* create_staged; recover_backup_staged; stage_v2_import).
Files(kind) ==
    CASE kind = "create" -> <<"mkdir", "db", "marker", "origin", "install">>
      [] kind = "import" -> <<"mkdir", "db", "marker", "origin", "populate", "install">>
      [] OTHER -> <<"mkdir", "copy", "rotate", "marker", "origin", "install">>
After(kind, at) ==
    LET files == Files(kind)
    IN  files[(CHOOSE i \in 1..Len(files) - 1 : files[i] = at) + 1]

Ident == <<cmd.op, budget.staged[cmd.op]>>

\* open_direct with a title: a new project row.
WriteProject(f) == [f EXCEPT !.db = [NoDb EXCEPT !.ident = Ident]]
\* The bytes of the backup, checked against its manifest.
CopyDatabase(f) == [f EXCEPT !.db = cmd.held]

\* Mutant: the manifest of an import keeps the identity it had.
RotateIdentityOnly(f) ==
    [f EXCEPT !.db = [f.db EXCEPT !.ident = Ident, !.ready = FALSE,
                                  !.pins = IF @ = None THEN None ELSE Ident]]

\* rotate_identity: a fresh identity, and the rows that follow it; the reviews
\* stay behind as history.
RotateIdentity(f) ==
    [f EXCEPT !.db = [f.db EXCEPT !.ident = Ident, !.ready = FALSE,
                                  !.pins = IF @ = None THEN None ELSE Ident,
                                  !.manifest = IF @ = None THEN None ELSE Ident]]
\* write_marker, write_creation_origin.
WriteMarker(f) == [f EXCEPT !.marker = f.db.ident]
WriteOrigin(f) == [f EXCEPT !.origin = TRUE]
\* populate_project: the documents, the manifest and its records, in one transaction.
Populate(f) == [f EXCEPT !.db.story = cmd.held.story, !.db.manifest = f.db.ident]

Written(at, f) ==
    CASE at = "mkdir" -> [NoFolder EXCEPT !.exists = TRUE]
      [] at = "db" -> WriteProject(f)
      [] at = "copy" -> CopyDatabase(f)
      [] at = "rotate" -> RotateIdentity(f)
      [] at = "marker" -> WriteMarker(f)
      [] at = "origin" -> WriteOrigin(f)
      [] at = "populate" -> Populate(f)

\* validate_database: before the identity of a copy is rotated, and again before
\* its origin is written.
Copyable ==
    cmd.kind \in {"recover", "duplicate"} =>
      /\ cmd.at = "rotate" => ValidDatabase(Staging.db, Staging.db.ident)
      /\ cmd.at = "origin" => ValidDatabase(Staging.db, Ident)

Stage ==
    /\ cmd.at \in {"mkdir", "db", "copy", "rotate", "marker", "origin", "populate"}
    /\ IF Copyable
       THEN /\ folders' = [folders EXCEPT ![cmd.op]["staging"] = Written(cmd.at, @)]
            /\ cmd' = [cmd EXCEPT !.at = After(cmd.kind, cmd.at)]
       ELSE cmd' = Idle /\ UNCHANGED folders
    /\ budget' = IF cmd.at = "mkdir" THEN [budget EXCEPT !.staged[cmd.op] = @ + 1] ELSE budget
    /\ UNCHANGED <<lib, source, open>>

\* install_project_directory: a rename that never replaces a folder.
Install ==
    /\ cmd.at = "install" /\ ~Final.exists
    /\ folders' = [folders EXCEPT ![cmd.op]["final"] = Staging, ![cmd.op]["staging"] = NoFolder]
    /\ cmd' = [cmd EXCEPT !.at = "register"]
    /\ UNCHANGED <<lib, source, open, budget>>

-----------------------------------------------------------------------------
\* The end of a command: Library::finish, finish_import_receipt, insert.

\* register_metadata: an entry moves only when its folder is gone.
MayRegister(ident, path) == ~Exists(lib.entries[ident]) \/ lib.entries[ident] = path

\* Mutant: the operation is completed first, and its project registered by the
\* step that follows.
RegisterLast ==
    \/ /\ cmd.at = "register" /\ ~lib.ops[cmd.op].completed
       /\ lib' = [lib EXCEPT !.ops[cmd.op].completed = TRUE]
       /\ UNCHANGED <<folders, source, open, budget, cmd>>
    \/ /\ cmd.at = "register" /\ lib.ops[cmd.op].completed
       /\ lib' = [lib EXCEPT !.entries[Final.db.ident] = Path(cmd.op, "final")]
       /\ cmd' = [cmd EXCEPT !.at = "complete"]
       /\ UNCHANGED <<folders, source, open, budget>>

Register ==
    /\ cmd.at = "register"
    /\ IF MayRegister(Final.db.ident, Path(cmd.op, "final"))
       THEN /\ lib' = [lib EXCEPT !.entries[Final.db.ident] = Path(cmd.op, "final")]
            /\ cmd' = [cmd EXCEPT !.at = "complete"]
       ELSE cmd' = [cmd EXCEPT !.at = "insert"] /\ UNCHANGED lib
    /\ UNCHANGED <<folders, source, open, budget>>

Complete ==
    /\ cmd.at = "complete"
    /\ lib' = [lib EXCEPT !.ops[cmd.op].completed = TRUE]
    /\ cmd' = [cmd EXCEPT !.at = "insert"]
    /\ UNCHANGED <<folders, source, open, budget>>

\* DesktopProjects::insert, or open after a resumed import.
Insert ==
    /\ cmd.at = "insert"
    /\ open' = IF MayOpen(Final.db.ident, Path(cmd.op, "final"))
               THEN [open EXCEPT ![Final.db.ident] = Path(cmd.op, "final")] ELSE open
    /\ cmd' = Idle
    /\ UNCHANGED <<lib, folders, source, budget>>

-----------------------------------------------------------------------------
\* Faults.

\* A step fails: the command ends with an error; a failed finish is a warning.
Fail ==
    /\ cmd # Idle
    /\ \/ budget.faults < FaultLimit /\ budget' = [budget EXCEPT !.faults = @ + 1]
       \/ cmd.at = "look" /\ Final.exists /\ UNCHANGED budget
            /\ ~MayOpen(Final.db.ident, Path(cmd.op, "final"))
    /\ cmd' = IF cmd.at \in {"register", "complete"}
              THEN [cmd EXCEPT !.at = "insert"] ELSE Idle
    /\ UNCHANGED <<lib, folders, source, open>>

\* The process dies and is started again.
Crash ==
    /\ budget.faults < FaultLimit
    /\ budget' = [budget EXCEPT !.faults = @ + 1]
    /\ cmd' = Idle
    /\ open' = [i \in Identities |-> None]
    /\ UNCHANGED <<lib, folders, source>>

-----------------------------------------------------------------------------
\* The author.

Change ==
    /\ budget.changes < ChangeLimit
    /\ budget' = [budget EXCEPT !.changes = @ + 1]

\* A save in the live project, a new backup at the same path, an edit of the V2
\* project, or a source that is gone.
ChangeSource ==
    /\ Change
    /\ \/ source' = [source EXCEPT !.duplicate.story = @ + 1]
       \/ source' = [source EXCEPT !.recover = Backup(source.duplicate)]
       \/ source' = [source EXCEPT !.import.story = @ + 1]
       \/ \E kind \in {"recover", "import"} : source' = [source EXCEPT ![kind] = NoDb]
    /\ UNCHANGED <<lib, folders, cmd, open>>

\* The author moves or copies the folder of a project, outside the application
\* and while the library is idle.
MoveFolder(op) ==
    /\ Change /\ cmd = Idle /\ folders[op]["final"].exists /\ ~folders[op]["away"].exists
    /\ open[folders[op]["final"].db.ident] # Path(op, "final")
    /\ \E copy \in BOOLEAN :
         folders' = [folders EXCEPT ![op]["away"] = folders[op]["final"],
                                    ![op]["final"] = IF copy THEN @ ELSE NoFolder]
    /\ UNCHANGED <<lib, source, cmd, open>>

\* library_open: open, then register; a folder that repeats a listed identity is
\* closed again.
OpenFolder(op, place) ==
    LET f == folders[op][place] IN
    /\ cmd = Idle /\ f.exists /\ f.marker = f.db.ident /\ f.db.ident # None
    /\ place # "staging" /\ MayOpen(f.db.ident, Path(op, place))
    /\ MayRegister(f.db.ident, Path(op, place))
    /\ lib' = [lib EXCEPT !.entries[f.db.ident] = Path(op, place)]
    /\ open' = [open EXCEPT ![f.db.ident] = Path(op, place)]
    /\ UNCHANGED <<folders, source, cmd, budget>>

\* library_archive: an archived project is closed first.
Archive(ident) ==
    /\ Change /\ cmd = Idle /\ lib.entries[ident] # None
    /\ \/ /\ ident \notin lib.archived
          /\ lib' = [lib EXCEPT !.archived = @ \cup {ident}]
          /\ open' = [open EXCEPT ![ident] = None]
       \/ /\ ident \in lib.archived
          /\ lib' = [lib EXCEPT !.archived = @ \ {ident}]
          /\ UNCHANGED open
    /\ UNCHANGED <<folders, source, cmd>>

Next ==
    \/ \E op \in Operations :
         \/ \E kind \in {"create", "duplicate", "recover", "import"} : Request(op, kind)
         \/ MoveFolder(op)
         \/ \E place \in Places : OpenFolder(op, place)
    \/ \E ident \in Identities : Archive(ident)
    \/ Begin \/ Reuse \/ Resume \/ RefuseStaging \/ Fresh \/ ReadArchive
    \/ Stage \/ Install \/ Register \/ Complete \/ Insert
    \/ Fail \/ Crash \/ ChangeSource

Spec == Init /\ [][Next]_vars

-----------------------------------------------------------------------------
\* An operation that the library recorded as completed has its project in the
\* list: no crash or failure between the installation of a folder, its entry
\* and the completion of the operation leaves a project the author cannot find
\* (finish, finish_import_receipt).
CompletedIsListed ==
    \A op \in Operations :
      lib.ops[op].completed => \E n \in 1..AttemptLimit : lib.entries[<<op, n>>] # None

\* A backup that can be read can be recovered: a copy of a valid database is
\* valid under its new identity, also when it was imported or has source pins
\* (rotate_identity, validate_database).
CopiesValidate == Copyable

\* What a project of an operation is made of.
Projects == [ident : Identities, story : 0..ChangeLimit + 1, whole : BOOLEAN, imported : BOOLEAN]
ProjectOf(f) ==
    [ident |-> f.db.ident, story |-> f.db.story,
     whole |-> f.origin /\ f.marker = f.db.ident /\ ValidDatabase(f.db, f.marker) /\ ~f.db.ready,
     imported |-> f.db.manifest = f.db.ident]
Answers(request, p) ==
    /\ p.whole
    /\ request[1] \in {"create", "duplicate", "import"} => p.story = request[2]
    /\ request[1] = "recover" => p.story > 0
    /\ request[1] = "import" => p.imported

Creation == INSTANCE ProjectCreation WITH
    Requests <- {"create", "duplicate", "recover", "import"} \X (0..ChangeLimit + 1),
    Unasked <- <<"none", 0>>,
    asked <- [op \in Operations |-> <<lib.ops[op].kind, lib.ops[op].basis>>],
    made <- [op \in Operations |->
               {ProjectOf(folders[op][p]) : p \in {x \in {"final", "away"} : folders[op][x].exists}}],
    home <- [op \in Operations |-> folders[op]["final"].exists],
    recorded <- [op \in Operations |-> lib.ops[op].completed]

\* Staging, retries, crashes and failures implement creation in one step: every
\* project that appears is whole, has an identity of its own and the story that
\* was asked for, is never replaced, and a recorded operation makes no other.
CreatesAtomically == Creation!Spec
=============================================================================
